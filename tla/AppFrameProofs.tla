--------------------------- MODULE AppFrameProofs ---------------------------
(***************************************************************************)
(* Proofs about ThreadCenter, for any threads, groups, pipe capacity and   *)
(* number of tasks and notifications; and about AppFrame, for any groups of *)
(* threads: the main thread drives the threads as ThreadCenter allows, so  *)
(* that what is proved of the threads holds of the whole process, and the  *)
(* life of the process is in order.                                        *)
(***************************************************************************)
EXTENDS AppFrame, FiniteSetTheorems, SequenceTheorems, TLAPS

-----------------------------------------------------------------------------
\* ThreadCenter.

\* Counting the bytes c of a sequence: none in the empty one, one more after
\* an Append of c, one less after a read of c.
LEMMA CountType ==
  ASSUME NEW s \in Seq(Cmds), NEW c
  PROVE  /\ IsFiniteSet({i \in 1..Len(s) : s[i] = c})
         /\ Count(s, c) \in Nat
<1>1. IsFiniteSet(1..Len(s))
  BY FS_Interval
<1>2. IsFiniteSet({i \in 1..Len(s) : s[i] = c})
  BY <1>1, FS_Subset
<1>3. QED
  BY <1>2, FS_CardinalityType DEF Count

\* An empty pipe or list holds no byte.
LEMMA CountEmpty ==
  ASSUME NEW c
  PROVE  Count(<<>>, c) = 0
<1>1. {i \in 1..Len(<<>>) : <<>>[i] = c} = {}
  OBVIOUS
<1>2. QED
  BY <1>1, FS_EmptySet DEF Count

\* A byte written at the end counts once.
LEMMA CountAppend ==
  ASSUME NEW s \in Seq(Cmds), NEW d \in Cmds, NEW c
  PROVE  Count(Append(s, d), c) = Count(s, c) + (IF d = c THEN 1 ELSE 0)
<1> DEFINE A == {i \in 1..Len(s) : s[i] = c}
           B == {i \in 1..Len(Append(s, d)) : Append(s, d)[i] = c}
<1>1. IsFiniteSet(A) /\ Cardinality(A) \in Nat
  BY CountType, FS_CardinalityType
<1>2. Count(s, c) = Cardinality(A) /\ Count(Append(s, d), c) = Cardinality(B)
  BY DEF Count
<1>3. CASE d = c
  <2>1. B = A \cup {Len(s) + 1}
    BY <1>3
  <2>2. Len(s) + 1 \notin A
    OBVIOUS
  <2>3. Cardinality(B) = Cardinality(A) + 1
    BY <1>1, <2>1, <2>2, FS_AddElement
  <2>4. QED
    BY <1>2, <1>3, <2>3
<1>4. CASE d # c
  <2>1. B = A
    BY <1>4
  <2> HIDE DEF A, B
  <2>2. QED
    BY <1>1, <1>2, <1>4, <2>1
<1>5. QED
  BY <1>3, <1>4

\* A byte read from the front no longer counts.
LEMMA CountTail ==
  ASSUME NEW s \in Seq(Cmds), s # <<>>, NEW c
  PROVE  Count(s, c) = Count(Tail(s), c) + (IF Head(s) = c THEN 1 ELSE 0)
<1> DEFINE A == {i \in 1..Len(s) : s[i] = c}
           B == {i \in 1..Len(Tail(s)) : Tail(s)[i] = c}
           C == A \ {1}
           f == [i \in B |-> i + 1]
<1>1. Tail(s) \in Seq(Cmds) /\ Len(s) \in Nat \ {0} /\ Head(s) = s[1]
  OBVIOUS
<1>2. IsFiniteSet(A) /\ IsFiniteSet(B) /\ Cardinality(B) \in Nat
  BY <1>1, CountType, FS_CardinalityType
<1>3. f \in Bijection(B, C)
  <2>1. f \in [B -> C]
    OBVIOUS
  <2>2. \A x, y \in B : f[x] = f[y] => x = y
    OBVIOUS
  <2>3. ASSUME NEW k \in C
        PROVE  \E i \in B : f[i] = k
    <3>1. k - 1 \in B /\ f[k - 1] = k
      BY <1>1
    <3>2. QED
      BY <3>1
  <2>4. QED
    BY <2>1, <2>2, <2>3 DEF Bijection, Injection, Surjection, IsInjective
<1>4. Cardinality(C) = Cardinality(B)
  BY <1>2, <1>3, FS_Bijection DEF ExistsBijection
<1>5. Cardinality(C) = IF 1 \in A THEN Cardinality(A) - 1 ELSE Cardinality(A)
  BY <1>2, FS_RemoveElement
<1>6. 1 \in A <=> Head(s) = c
  BY <1>1
<1>7. Cardinality(A) \in Nat
  BY <1>2, FS_CardinalityType
<1>8. Count(s, c) = Cardinality(A) /\ Count(Tail(s), c) = Cardinality(B)
  BY DEF Count
<1> HIDE DEF A, B, C
<1>9. QED
  BY <1>2, <1>4, <1>5, <1>6, <1>7, <1>8

\* A queue replaced by another one keeps the type of the queues.
LEMMA SetQueue ==
  /\ \A f \in [Threads -> Seq(Cmds)], t \in Threads, v \in Seq(Cmds) :
       Set(f, t, v) \in [Threads -> Seq(Cmds)]
  /\ \A f \in [Threads -> Seq(Nat)], t \in Threads, v \in Seq(Nat) :
       Set(f, t, v) \in [Threads -> Seq(Nat)]
BY DEF Set

\* Counting one more notification.
LEMMA BumpType ==
  ASSUME NEW h \in [Threads -> [Cmds -> Nat]], NEW t \in Threads, NEW c \in Cmds
  PROVE  /\ Bump(h, t, c) \in [Threads -> [Cmds -> Nat]]
         /\ \A u \in Threads, d \in Cmds :
              Bump(h, t, c)[u][d] = IF u = t /\ d = c THEN h[u][d] + 1 ELSE h[u][d]
BY DEF Bump

\* The locked write of a byte, by any of its callers.
LEMMA WriteType ==
  ASSUME TypeOK, NEW t \in Threads, NEW c \in Cmds, Write(t, c)
  PROVE  /\ sent' \in [Threads -> [Cmds -> Nat]]
         /\ pipe' \in [Threads -> Seq(Cmds)]
         /\ pending' \in [Threads -> Seq(Cmds)]
         /\ timer' \in [Threads -> {"absent", "armed", "removed"}]
<1>1. sent' \in [Threads -> [Cmds -> Nat]]
  BY BumpType DEF Write, TypeOK
<1>2. Append(pipe[t], c) \in Seq(Cmds) /\ Append(pending[t], c) \in Seq(Cmds)
  BY DEF TypeOK
<1>3. timer' \in [Threads -> {"absent", "armed", "removed"}]
  BY DEF Set, Write, StartPendingNotifyTimer, TypeOK
<1>4. pipe \in [Threads -> Seq(Cmds)] /\ pending \in [Threads -> Seq(Cmds)]
  BY DEF TypeOK
<1>5. \/ pipe' = Set(pipe, t, Append(pipe[t], c)) /\ pending' = pending
      \/ pending' = Set(pending, t, Append(pending[t], c)) /\ pipe' = pipe
  BY DEF Write
<1>6. pipe' \in [Threads -> Seq(Cmds)] /\ pending' \in [Threads -> Seq(Cmds)]
  <2>1. Set(pipe, t, Append(pipe[t], c)) \in [Threads -> Seq(Cmds)]
    BY <1>2, <1>4, SetQueue
  <2>2. Set(pending, t, Append(pending[t], c)) \in [Threads -> Seq(Cmds)]
    BY <1>2, <1>4, SetQueue
  <2>3. QED
    BY <1>4, <1>5, <2>1, <2>2
<1>7. QED
  BY <1>1, <1>3, <1>6

\* Every step of any thread keeps the types: in particular the queues hold
\* what was pushed and the mutex is held by a thread or free.
LEMMA TypesStep ==
  ASSUME TypeOK, [Next]_vars
  PROVE  TypeOK'
<1>0. CASE UNCHANGED vars
  BY <1>0 DEF TypeOK, vars, threadVars, history
<1> SUFFICES ASSUME NEW t \in Threads,
                    PushTaskToThread(t) \/ WorkLoop(t) \/ ThreadStep(t) \/ MainStep(t)
             PROVE  TypeOK'
  BY <1>0 DEF Next
<1>1. CASE PushTaskToThread(t)
  <2>1. PICK g \in Reachable(t) :
           \E targets \in {g} \cup {<<g[i]>> : i \in DOMAIN g} :
              /\ created' = created + Len(targets)
              /\ todo' = Set(todo, t, targets)
    BY <1>1 DEF PushTaskToThread
  <2>2. g \in Seq(Threads)
    BY GroupsAssumption DEF Reachable
  <2>3. PICK targets \in {g} \cup {<<g[i]>> : i \in DOMAIN g} :
           /\ created' = created + Len(targets)
           /\ todo' = Set(todo, t, targets)
    BY <2>1
  <2>4. targets \in Seq(Threads)
    <3>1. ASSUME NEW i \in DOMAIN g
          PROVE  <<g[i]>> \in Seq(Threads)
      <4>1. g[i] \in Threads
        BY <2>2, ElementOfSeq
      <4>2. QED
        BY <4>1
    <3>2. QED
      BY <2>2, <2>3, <3>1
  <2>5. created' \in Nat /\ todo' \in [Threads -> Seq(Threads)]
    BY <2>3, <2>4 DEF Set, TypeOK
  <2>6. QED
    BY <1>1, <2>5 DEF PushTaskToThread, TypeOK, history
<1>2. CASE PushTask(t)
  <2>1. Head(todo[t]) \in Threads /\ Tail(todo[t]) \in Seq(Threads)
    BY <1>2 DEF PushTask, TypeOK
  <2>2. Append(tq[Head(todo[t])], sent[Head(todo[t])]["t"] + 1) \in Seq(Nat)
    <3>1. sent[Head(todo[t])] \in [Cmds -> Nat] /\ tq[Head(todo[t])] \in Seq(Nat)
      BY <2>1 DEF TypeOK
    <3>2. sent[Head(todo[t])]["t"] \in Nat
      BY <3>1 DEF Cmds
    <3>3. QED
      BY <3>1, <3>2
  <2>3. tq' \in [Threads -> Seq(Nat)]
    BY <1>2, <2>1, <2>2, SetQueue DEF PushTask, TypeOK
  <2>4. todo' \in [Threads -> Seq(Threads)]
    BY <1>2, <2>1 DEF Set, PushTask, TypeOK
  <2>5. Write(Head(todo[t]), "t") /\ "t" \in Cmds
    BY <1>2 DEF PushTask, Cmds
  <2>6. QED
    BY <1>2, <2>1, <2>3, <2>4, <2>5, WriteType DEF PushTask, TypeOK
<1>3. CASE WorkLoop(t) \/ Start(t)
  BY <1>3 DEF Set, WorkLoop, Start, TypeOK, Wheres, history
<1>4. CASE ReadCallback(t)
  <2>1. Head(pipe[t]) \in Cmds /\ Tail(pipe[t]) \in Seq(Cmds)
    BY <1>4 DEF ReadCallback, TypeOK
  <2>2. pipe' \in [Threads -> Seq(Cmds)]
    BY <1>4, <2>1 DEF Set, ReadCallback, TypeOK
  <2>3. seen' \in [Threads -> [Cmds -> Nat]]
    BY <1>4, <2>1, BumpType DEF ReadCallback, TypeOK
  <2>4. ctl' \in [Threads -> Wheres]
    BY <1>4 DEF Set, ReadCallback, OnStop, OnReload, OnExit, OnTaskByte, TypeOK, Wheres
  <2>5. stopping' \in [Threads -> BOOLEAN] /\ reload_finished' \in [Threads -> BOOLEAN]
    BY <1>4 DEF Set, ReadCallback, OnStop, OnReload, OnExit, OnTaskByte, TypeOK
  <2>6. QED
    BY <1>4, <2>2, <2>3, <2>4, <2>5 DEF ReadCallback, TypeOK
<1>5. CASE OnTask(t) \/ Drain(t)
  <2>1. tq[t] # <<>> => <<Head(tq[t])>> \in Seq(Nat) /\ Tail(tq[t]) \in Seq(Nat)
    BY DEF TypeOK
  <2>2. cur' \in [Threads -> Seq(Nat)] /\ tq' \in [Threads -> Seq(Nat)]
    <3>1. \/ UNCHANGED <<cur, tq>>
          \/ /\ tq[t] # <<>>
             /\ cur' = Set(cur, t, <<Head(tq[t])>>)
             /\ tq' = Set(tq, t, Tail(tq[t]))
      BY <1>5 DEF OnTask, Drain, PopFront
    <3>2. cur \in [Threads -> Seq(Nat)] /\ tq \in [Threads -> Seq(Nat)]
      BY DEF TypeOK
    <3>3. tq[t] # <<>> => /\ Set(cur, t, <<Head(tq[t])>>) \in [Threads -> Seq(Nat)]
                          /\ Set(tq, t, Tail(tq[t])) \in [Threads -> Seq(Nat)]
      BY <2>1, <3>2, SetQueue
    <3>4. QED
      BY <3>1, <3>2, <3>3
  <2>3. ctl' \in [Threads -> Wheres]
    BY <1>5 DEF Set, OnTask, Drain, TypeOK, Wheres
  <2>4. QED
    BY <1>5, <2>2, <2>3 DEF OnTask, Drain, TypeOK, history
<1>6. CASE TaskDone(t)
  <2>1. handled[t] \o cur[t] \in Seq(Nat) /\ <<>> \in Seq(Nat)
    BY ConcatProperties, EmptySeq DEF TypeOK
  <2>2. handled' \in [Threads -> Seq(Nat)] /\ cur' \in [Threads -> Seq(Nat)]
    BY <1>6, <2>1 DEF Set, TaskDone, TypeOK
  <2>3. ctl' \in [Threads -> Wheres]
    BY <1>6 DEF Set, TaskDone, TypeOK, Wheres
  <2>4. QED
    BY <1>6, <2>2, <2>3 DEF TaskDone, TypeOK
<1>7. CASE LockForStop(t) \/ StopDone(t)
  <2>1. mutex' \in [Threads -> Threads \cup {NoThread}]
    BY <1>7 DEF Set, LockForStop, StopDone, TypeOK
  <2>2. ctl' \in [Threads -> Wheres]
    BY <1>7 DEF Set, LockForStop, StopDone, TypeOK, Wheres
  <2>3. QED
    BY <1>7, <2>1, <2>2 DEF LockForStop, StopDone, TypeOK, history
<1>8. CASE OnTimer(t)
  <2>1. pending[t] # <<>> => /\ Append(pipe[t], Head(pending[t])) \in Seq(Cmds)
                             /\ Tail(pending[t]) \in Seq(Cmds)
    BY DEF TypeOK
  <2>2. pipe' \in [Threads -> Seq(Cmds)] /\ pending' \in [Threads -> Seq(Cmds)]
    <3>1. \/ UNCHANGED <<pipe, pending>>
          \/ /\ pending[t] # <<>>
             /\ pipe' = Set(pipe, t, Append(pipe[t], Head(pending[t])))
             /\ pending' = Set(pending, t, Tail(pending[t]))
      BY <1>8 DEF OnTimer
    <3>2. pipe \in [Threads -> Seq(Cmds)] /\ pending \in [Threads -> Seq(Cmds)]
      BY DEF TypeOK
    <3>3. pending[t] # <<>> =>
             /\ Set(pipe, t, Append(pipe[t], Head(pending[t]))) \in [Threads -> Seq(Cmds)]
             /\ Set(pending, t, Tail(pending[t])) \in [Threads -> Seq(Cmds)]
      BY <2>1, <3>2, SetQueue
    <3>4. QED
      BY <3>1, <3>2, <3>3
  <2>3. ctl' \in [Threads -> Wheres] /\ timer' \in [Threads -> {"absent", "armed", "removed"}]
    BY <1>8 DEF Set, OnTimer, TypeOK, Wheres
  <2>4. QED
    BY <1>8, <2>2, <2>3 DEF OnTimer, TypeOK, history
<1>9. CASE CheckRemoved(t) \/ RemoveTimer(t)
  <2>1. ctl' \in [Threads -> Wheres] /\ timer' \in [Threads -> {"absent", "armed", "removed"}]
    BY <1>9 DEF Set, CheckRemoved, RemoveTimer, TypeOK, Wheres
  <2>2. QED
    BY <1>9, <2>1 DEF CheckRemoved, RemoveTimer, TypeOK, history
<1>10. ASSUME NEW c \in Cmds, Notify(t, c)
       PROVE  TypeOK'
  <2>1. Write(t, c)
    BY <1>10 DEF Notify
  <2>2. QED
    BY <1>10, <2>1, WriteType DEF Notify, TypeOK
<1>11. CASE SetReloadFinish(t)
  <2>1. reload_finished' \in [Threads -> BOOLEAN]
    BY <1>11 DEF Set, SetReloadFinish, TypeOK
  <2>2. QED
    BY <1>11, <2>1 DEF SetReloadFinish, TypeOK, history
<1>12. CASE Release(t)
  <2>1. <<>> \in Seq(Cmds) /\ <<>> \in Seq(Nat)
    BY EmptySeq
  <2>2. /\ pipe' \in [Threads -> Seq(Cmds)] /\ pending' \in [Threads -> Seq(Cmds)]
        /\ tq' \in [Threads -> Seq(Nat)] /\ dropped' \in [Threads -> Seq(Nat)]
    BY <1>12, <2>1 DEF Set, Release, FreeThread, TypeOK
  <2>3. ctl' \in [Threads -> Wheres] /\ timer' \in [Threads -> {"absent", "armed", "removed"}]
    BY <1>12 DEF Set, Release, FreeThread, TypeOK, Wheres
  <2>4. QED
    BY <1>12, <2>2, <2>3 DEF Release, FreeThread, TypeOK
<1>13. QED
  BY <1>1, <1>2, <1>3, <1>4, <1>5, <1>6, <1>7, <1>8, <1>9, <1>10, <1>11, <1>12
     DEF ThreadStep, MainStep, NotifyStop, NotifyReload, NotifyExit, Cmds, Controls

\* Every variable keeps its type.
THEOREM ThreadTypes == Spec => []TypeOK
<1>1. Init => TypeOK
  BY DEF Init, TypeOK, Wheres
<1>2. TypeOK /\ [Next]_vars => TypeOK'
  BY TypesStep
<1>3. QED
  BY <1>1, <1>2, PTL DEF Spec

-----------------------------------------------------------------------------
\* The mutex of a thread is held across steps exactly by OnStop of that thread,
\* so no task can be queued between its last IsEmpty and its end.
THEOREM StopMutex == Spec => []StopHoldsMutex
<1>1. Init => StopHoldsMutex
  BY DEF Init, StopHoldsMutex, Draining
<1>2. TypeOK /\ StopHoldsMutex /\ [Next]_vars => StopHoldsMutex'
  <2> SUFFICES ASSUME TypeOK, StopHoldsMutex, [Next]_vars, NEW u \in Threads
               PROVE  /\ mutex'[u] = IF ctl'[u] \in Draining THEN u ELSE NoThread
                      /\ cur'[u] # <<>> => ctl'[u] \in {"handle", "drain_handle"}
                      /\ ctl'[u] = "on_stop" => tq'[u] = <<>>
    BY DEF StopHoldsMutex
  <2> DEFINE Goal == /\ mutex'[u] = IF ctl'[u] \in Draining THEN u ELSE NoThread
                     /\ cur'[u] # <<>> => ctl'[u] \in {"handle", "drain_handle"}
                     /\ ctl'[u] = "on_stop" => tq'[u] = <<>>
  <2>0. /\ mutex[u] = IF ctl[u] \in Draining THEN u ELSE NoThread
        /\ cur[u] # <<>> => ctl[u] \in {"handle", "drain_handle"}
        /\ ctl[u] = "on_stop" => tq[u] = <<>>
    BY DEF StopHoldsMutex
  <2>1. CASE UNCHANGED <<ctl, mutex, cur, tq>>
    BY <2>0, <2>1
  <2> SUFFICES ASSUME NEW t \in Threads,
                      PushTaskToThread(t) \/ WorkLoop(t) \/ ThreadStep(t) \/ MainStep(t)
               PROVE  Goal
    BY <2>1 DEF Next, vars, threadVars
  <2>2. CASE PushTask(t)
    <3>1. Head(todo[t]) \in Threads
      BY <2>2 DEF PushTask, TypeOK
    <3>2. mutex[Head(todo[t])] = NoThread
      BY <2>2 DEF PushTask, Write
    <3>3. ctl[u] = "on_stop" => u # Head(todo[t])
      BY <2>0, <3>2, ThreadsAssumption DEF Draining
    <3>4. u # Head(todo[t]) => tq'[u] = tq[u]
      BY <2>2, <3>1 DEF PushTask, Set, TypeOK
    <3>5. QED
      BY <2>0, <2>2, <3>3, <3>4 DEF PushTask
  <2>3. CASE WorkLoop(t) \/ Start(t) \/ CheckRemoved(t) \/ RemoveTimer(t) \/ OnTimer(t)
    <3>1. ctl[t] \notin Draining \cup {"handle"} /\ ctl'[t] \notin Draining \cup {"handle"}
      BY <2>3 DEF WorkLoop, Start, CheckRemoved, RemoveTimer, OnTimer, At, Set, TypeOK, Draining
    <3>2. UNCHANGED <<mutex, cur, tq>> /\ (u # t => ctl'[u] = ctl[u])
      BY <2>3 DEF WorkLoop, Start, CheckRemoved, RemoveTimer, OnTimer, Set, TypeOK
    <3>3. QED
      BY <2>0, <3>1, <3>2 DEF Draining
  <2>4. CASE ReadCallback(t)
    <3>1. ctl[t] = "loop" /\ ctl'[t] \notin Draining \cup {"handle"}
      BY <2>4 DEF ReadCallback, OnStop, OnReload, OnExit, OnTaskByte, At, Set, TypeOK, Draining
    <3>2. UNCHANGED <<mutex, cur, tq>> /\ (u # t => ctl'[u] = ctl[u])
      BY <2>4 DEF ReadCallback, OnStop, OnReload, OnExit, OnTaskByte, Set, TypeOK
    <3>3. QED
      BY <2>0, <3>1, <3>2 DEF Draining
  <2>5. CASE OnTask(t) \/ Drain(t)
    <3>1. CASE u # t
      BY <2>0, <2>5, <3>1 DEF OnTask, Drain, PopFront, Set, TypeOK
    <3>2. CASE u = t
      <4>1. CASE OnTask(t)
        BY <2>0, <3>2, <4>1 DEF OnTask, PopFront, At, Set, TypeOK, Draining
      <4>2. CASE Drain(t)
        BY <2>0, <3>2, <4>2 DEF Drain, PopFront, At, Set, TypeOK, Draining
      <4>3. QED
        BY <2>5, <4>1, <4>2
    <3>3. QED
      BY <3>1, <3>2
  <2>6. CASE TaskDone(t)
    <3>1. CASE u # t
      BY <2>0, <2>6, <3>1 DEF TaskDone, Set, TypeOK
    <3>2. CASE u = t
      BY <2>0, <2>6, <3>2 DEF TaskDone, At, Set, TypeOK, Draining
    <3>3. QED
      BY <3>1, <3>2
  <2>7. CASE LockForStop(t) \/ StopDone(t)
    <3>1. CASE u # t
      BY <2>0, <2>7, <3>1 DEF LockForStop, StopDone, Set, TypeOK
    <3>2. CASE u = t
      <4>1. CASE LockForStop(t)
        BY <2>0, <3>2, <4>1 DEF LockForStop, At, Set, TypeOK, Draining
      <4>2. CASE StopDone(t)
        BY <2>0, <3>2, <4>2 DEF StopDone, At, Set, TypeOK, Draining
      <4>3. QED
        BY <2>7, <4>1, <4>2
    <3>3. QED
      BY <3>1, <3>2
  <2>8. CASE Release(t)
    <3>1. ctl[t] = "exited" /\ ctl'[t] = "released" /\ tq'[t] = <<>>
      BY <2>8 DEF Release, FreeThread, Set, TypeOK
    <3>2. u # t => ctl'[u] = ctl[u] /\ tq'[u] = tq[u]
      BY <2>8 DEF Release, FreeThread, Set, TypeOK
    <3>3. UNCHANGED <<mutex, cur>>
      BY <2>8 DEF Release, FreeThread
    <3>4. QED
      BY <2>0, <3>1, <3>2, <3>3 DEF Draining
  <2>9. QED
    BY <2>1, <2>2, <2>3, <2>4, <2>5, <2>6, <2>7, <2>8
       DEF ThreadStep, MainStep, NotifyStop, NotifyReload, NotifyExit, Notify,
           SetReloadFinish, PushTaskToThread
<1>3. QED
  BY <1>1, <1>2, ThreadTypes, PTL DEF Spec

\* When the sink's OnStop runs the queue is empty and no task is in the sink,
\* however many threads push at the same time.
THEOREM StopDrains == Spec => []DrainedAtOnStop
<1>1. StopHoldsMutex => DrainedAtOnStop
  BY DEF StopHoldsMutex, DrainedAtOnStop
<1>2. QED
  BY <1>1, StopMutex, PTL

-----------------------------------------------------------------------------
\* What a step does to the notifications of thread u: nothing, a write of one
\* byte, a read of the oldest one, a move of the oldest pending one into the
\* pipe, or the release of the thread.
LEMMA NoticeSteps ==
  ASSUME TypeOK, [Next]_vars, NEW u \in Threads
  PROVE  \/ UNCHANGED <<sent[u], seen[u], pipe[u], pending[u]>>
         \/ \E c \in Cmds :
              /\ sent'[u] = [sent[u] EXCEPT ![c] = @ + 1]
              /\ seen'[u] = seen[u]
              /\ \/ pipe'[u] = Append(pipe[u], c) /\ pending'[u] = pending[u]
                 \/ pipe'[u] = pipe[u] /\ pending'[u] = Append(pending[u], c)
         \/ /\ pipe[u] # <<>>
            /\ pipe'[u] = Tail(pipe[u])
            /\ seen'[u] = [seen[u] EXCEPT ![Head(pipe[u])] = @ + 1]
            /\ UNCHANGED <<sent[u], pending[u]>>
         \/ /\ pending[u] # <<>>
            /\ pipe'[u] = Append(pipe[u], Head(pending[u]))
            /\ pending'[u] = Tail(pending[u])
            /\ UNCHANGED <<sent[u], seen[u]>>
         \/ ctl'[u] = "released"
<1> DEFINE Write1(c) ==
              /\ sent'[u] = [sent[u] EXCEPT ![c] = @ + 1]
              /\ seen'[u] = seen[u]
              /\ \/ pipe'[u] = Append(pipe[u], c) /\ pending'[u] = pending[u]
                 \/ pipe'[u] = pipe[u] /\ pending'[u] = Append(pending[u], c)
<1>1. CASE UNCHANGED <<sent, seen, pipe, pending>>
  BY <1>1
<1>2. ASSUME NEW to \in Threads, NEW c \in Cmds, Write(to, c), UNCHANGED seen
      PROVE  UNCHANGED <<sent[u], seen[u], pipe[u], pending[u]>> \/ Write1(c)
  <2>1. CASE u # to
    BY <1>2, <2>1 DEF Write, Bump, Set, TypeOK
  <2>2. CASE u = to
    <3>1. sent'[u] = [sent[u] EXCEPT ![c] = @ + 1]
      BY <1>2, <2>2 DEF Write, Bump, TypeOK
    <3>2. \/ pipe'[u] = Append(pipe[u], c) /\ pending'[u] = pending[u]
          \/ pipe'[u] = pipe[u] /\ pending'[u] = Append(pending[u], c)
      BY <1>2, <2>2 DEF Write, Set, TypeOK
    <3>3. QED
      BY <1>2, <3>1, <3>2
  <2>3. QED
    BY <2>1, <2>2
<1>3. ASSUME NEW t \in Threads, PushTask(t)
      PROVE  UNCHANGED <<sent[u], seen[u], pipe[u], pending[u]>> \/ Write1("t")
  <2>1. Head(todo[t]) \in Threads /\ Write(Head(todo[t]), "t") /\ UNCHANGED seen
    BY <1>3 DEF PushTask, TypeOK
  <2>2. QED
    BY <1>2, <2>1 DEF Cmds
<1>4. ASSUME NEW t \in Threads, ReadCallback(t), u = t
      PROVE  /\ pipe[u] # <<>>
             /\ pipe'[u] = Tail(pipe[u])
             /\ seen'[u] = [seen[u] EXCEPT ![Head(pipe[u])] = @ + 1]
             /\ UNCHANGED <<sent[u], pending[u]>>
  BY <1>4 DEF ReadCallback, Bump, Set, TypeOK
<1>5. ASSUME NEW t \in Threads, ReadCallback(t), u # t
      PROVE  UNCHANGED <<sent[u], seen[u], pipe[u], pending[u]>>
  BY <1>5 DEF ReadCallback, Bump, Set, TypeOK
<1>6. ASSUME NEW t \in Threads, OnTimer(t)
      PROVE  \/ UNCHANGED <<sent[u], seen[u], pipe[u], pending[u]>>
             \/ /\ pending[u] # <<>>
                /\ pipe'[u] = Append(pipe[u], Head(pending[u]))
                /\ pending'[u] = Tail(pending[u])
                /\ UNCHANGED <<sent[u], seen[u]>>
  BY <1>6 DEF OnTimer, Set, TypeOK, history
<1>7. ASSUME NEW t \in Threads, Release(t)
      PROVE  UNCHANGED <<sent[u], seen[u], pipe[u], pending[u]>> \/ ctl'[u] = "released"
  BY <1>7 DEF Release, FreeThread, Set, TypeOK
<1>8. ASSUME NEW t \in Threads, NEW c \in Cmds, Notify(t, c)
      PROVE  UNCHANGED <<sent[u], seen[u], pipe[u], pending[u]>> \/ Write1(c)
  BY <1>2, <1>8 DEF Notify
<1>9. ASSUME NEW t \in Threads,
             \/ PushTaskToThread(t) \/ Start(t) \/ WorkLoop(t) \/ OnTask(t)
             \/ TaskDone(t) \/ LockForStop(t) \/ Drain(t) \/ StopDone(t)
             \/ CheckRemoved(t) \/ RemoveTimer(t) \/ SetReloadFinish(t)
      PROVE  UNCHANGED <<sent, seen, pipe, pending>>
  BY <1>9 DEF PushTaskToThread, Start, WorkLoop, OnTask, TaskDone, LockForStop, Drain,
              StopDone, CheckRemoved, RemoveTimer, SetReloadFinish, history
<1>10. CASE UNCHANGED vars
  BY <1>1, <1>10 DEF vars, threadVars, history
<1>11. ASSUME NEW t \in Threads, NotifyStop(t) \/ NotifyReload(t) \/ NotifyExit(t)
       PROVE  \/ UNCHANGED <<sent[u], seen[u], pipe[u], pending[u]>>
              \/ \E c \in Cmds : Write1(c)
  BY <1>8, <1>11 DEF NotifyStop, NotifyReload, NotifyExit, Cmds, Controls
<1>12. PICK t \in Threads : PushTaskToThread(t) \/ WorkLoop(t) \/ ThreadStep(t) \/ MainStep(t) \/ UNCHANGED vars
  BY DEF Next
<1>13. "t" \in Cmds
  BY DEF Cmds
<1>14. QED
  BY <1>1, <1>3, <1>4, <1>5, <1>6, <1>7, <1>9, <1>10, <1>11, <1>12, <1>13
     DEF ThreadStep, MainStep

\* A released thread takes no more steps.
LEMMA ReleasedStays ==
  ASSUME TypeOK, [Next]_vars, NEW u \in Threads, ctl[u] = "released"
  PROVE  ctl'[u] = "released"
<1>1. CASE UNCHANGED vars
  BY <1>1 DEF vars, threadVars
<1>2. ASSUME NEW t \in Threads, PushTaskToThread(t) \/ WorkLoop(t) \/ ThreadStep(t) \/ MainStep(t)
      PROVE  ctl'[u] = "released"
  <2>1. CASE ReadCallback(t)
    BY <2>1 DEF ReadCallback, OnStop, OnReload, OnExit, OnTaskByte, At, Set, TypeOK
  <2>2. CASE ctl' = ctl
    BY <2>2
  <2>3. CASE \/ Start(t) \/ WorkLoop(t) \/ OnTask(t) \/ TaskDone(t) \/ LockForStop(t)
             \/ Drain(t) \/ StopDone(t)
    BY <2>3 DEF Start, WorkLoop, OnTask, TaskDone, LockForStop, Drain, StopDone, At, Set, TypeOK
  <2>4. CASE OnTimer(t) \/ CheckRemoved(t) \/ RemoveTimer(t) \/ Release(t)
    BY <2>4 DEF OnTimer, CheckRemoved, RemoveTimer, Release, FreeThread, At, Set, TypeOK
  <2>5. QED
    BY <1>2, <2>1, <2>2, <2>3, <2>4
       DEF ThreadStep, MainStep, PushTaskToThread, PushTask, NotifyStop, NotifyReload,
           NotifyExit, Notify, SetReloadFinish
<1>3. QED
  BY <1>1, <1>2 DEF Next

\* Every notification is, at any time, read or on its way: none is lost and
\* none duplicated when the pipe overflows, whatever its capacity and however
\* many threads write.
THEOREM NoticesKept == Spec => []NoticesConserved
<1>1. Init => NoticesConserved
  BY CountEmpty DEF Init, NoticesConserved
<1>2. TypeOK /\ TypeOK' /\ NoticesConserved /\ [Next]_vars => NoticesConserved'
  <2> SUFFICES ASSUME TypeOK, TypeOK', NoticesConserved, [Next]_vars,
                      NEW u \in Threads, ctl'[u] # "released", NEW c \in Cmds
               PROVE  sent'[u][c] = seen'[u][c] + Count(pipe'[u], c) + Count(pending'[u], c)
    BY DEF NoticesConserved
  <2>1. sent[u][c] = seen[u][c] + Count(pipe[u], c) + Count(pending[u], c)
    BY ReleasedStays DEF NoticesConserved
  <2>2. /\ pipe[u] \in Seq(Cmds) /\ pending[u] \in Seq(Cmds)
        /\ sent[u] \in [Cmds -> Nat] /\ seen[u] \in [Cmds -> Nat]
    BY DEF TypeOK
  <2>3. Count(pipe[u], c) \in Nat /\ Count(pending[u], c) \in Nat
    BY <2>2, CountType
  <2>4. CASE UNCHANGED <<sent[u], seen[u], pipe[u], pending[u]>>
    BY <2>1, <2>4
  <2>5. ASSUME NEW d \in Cmds,
               sent'[u] = [sent[u] EXCEPT ![d] = @ + 1],
               seen'[u] = seen[u],
               \/ pipe'[u] = Append(pipe[u], d) /\ pending'[u] = pending[u]
               \/ pipe'[u] = pipe[u] /\ pending'[u] = Append(pending[u], d)
        PROVE  sent'[u][c] = seen'[u][c] + Count(pipe'[u], c) + Count(pending'[u], c)
    <3>1. sent'[u][c] = sent[u][c] + (IF d = c THEN 1 ELSE 0)
      BY <2>2, <2>5
    <3>2. /\ Count(Append(pipe[u], d), c) = Count(pipe[u], c) + (IF d = c THEN 1 ELSE 0)
          /\ Count(Append(pending[u], d), c) = Count(pending[u], c) + (IF d = c THEN 1 ELSE 0)
      BY <2>2, CountAppend
    <3>3. seen[u][c] \in Nat
      BY <2>2
    <3>4. Count(pipe'[u], c) + Count(pending'[u], c)
            = Count(pipe[u], c) + Count(pending[u], c) + (IF d = c THEN 1 ELSE 0)
      <4>1. CASE pipe'[u] = Append(pipe[u], d) /\ pending'[u] = pending[u]
        BY <2>3, <3>2, <4>1
      <4>2. CASE pipe'[u] = pipe[u] /\ pending'[u] = Append(pending[u], d)
        BY <2>3, <3>2, <4>2
      <4>3. QED
        BY <2>5, <4>1, <4>2
    <3>5. Count(pipe'[u], c) \in Nat /\ Count(pending'[u], c) \in Nat
      BY CountType DEF TypeOK
    <3>6. seen'[u][c] = seen[u][c]
      BY <2>5
    <3>7. QED
      BY <2>1, <2>3, <3>1, <3>3, <3>4, <3>5, <3>6
  <2>6. CASE /\ pipe[u] # <<>>
             /\ pipe'[u] = Tail(pipe[u])
             /\ seen'[u] = [seen[u] EXCEPT ![Head(pipe[u])] = @ + 1]
             /\ UNCHANGED <<sent[u], pending[u]>>
    <3>1. Head(pipe[u]) \in Cmds /\ Tail(pipe[u]) \in Seq(Cmds)
      BY <2>2, <2>6
    <3>2. Count(pipe[u], c) = Count(pipe'[u], c) + (IF Head(pipe[u]) = c THEN 1 ELSE 0)
      BY <2>2, <2>6, CountTail
    <3>3. Count(pipe'[u], c) \in Nat
      BY <2>6, <3>1, CountType
    <3>4. seen'[u][c] = seen[u][c] + (IF Head(pipe[u]) = c THEN 1 ELSE 0) /\ seen[u][c] \in Nat
      BY <2>2, <2>6, <3>1
    <3>5. QED
      BY <2>1, <2>3, <2>6, <3>2, <3>3, <3>4
  <2>7. CASE /\ pending[u] # <<>>
             /\ pipe'[u] = Append(pipe[u], Head(pending[u]))
             /\ pending'[u] = Tail(pending[u])
             /\ UNCHANGED <<sent[u], seen[u]>>
    <3>1. Head(pending[u]) \in Cmds /\ Tail(pending[u]) \in Seq(Cmds)
      BY <2>2, <2>7
    <3>2. Count(pending[u], c) = Count(pending'[u], c) + (IF Head(pending[u]) = c THEN 1 ELSE 0)
      BY <2>2, <2>7, CountTail
    <3>3. Count(pipe'[u], c) = Count(pipe[u], c) + (IF Head(pending[u]) = c THEN 1 ELSE 0)
      BY <2>2, <2>7, <3>1, CountAppend
    <3>4. Count(pending'[u], c) \in Nat /\ seen[u][c] \in Nat
      BY <2>2, CountType DEF TypeOK
    <3>5. sent'[u][c] = sent[u][c] /\ seen'[u][c] = seen[u][c]
      BY <2>7
    <3>6. QED
      BY <2>1, <2>3, <3>2, <3>3, <3>4, <3>5
  <2>8. QED
    BY <2>4, <2>5, <2>6, <2>7, NoticeSteps
<1>3. QED
  BY <1>1, <1>2, ThreadTypes, PTL DEF Spec

-----------------------------------------------------------------------------
\* The bytes 't' of a thread that are not yet read.
Unread(t) == Count(pipe[t], "t") + Count(pending[t], "t")

\* How many a locked write leaves.
LEMMA UnreadAfterWrite ==
  ASSUME TypeOK, TypeOK', NEW t \in Threads, NEW c \in Cmds, Write(t, c)
  PROVE  /\ Unread(t)' = Unread(t) + (IF c = "t" THEN 1 ELSE 0)
         /\ \A u \in Threads : u # t => Unread(u)' = Unread(u)
<1>1. pipe[t] \in Seq(Cmds) /\ pending[t] \in Seq(Cmds)
  BY DEF TypeOK
<1>2. /\ Count(Append(pipe[t], c), "t") = Count(pipe[t], "t") + (IF c = "t" THEN 1 ELSE 0)
      /\ Count(Append(pending[t], c), "t") = Count(pending[t], "t") + (IF c = "t" THEN 1 ELSE 0)
  BY <1>1, CountAppend
<1>3. Count(pipe[t], "t") \in Nat /\ Count(pending[t], "t") \in Nat
  BY <1>1, CountType
<1>4. \/ pipe'[t] = Append(pipe[t], c) /\ pending'[t] = pending[t]
      \/ pipe'[t] = pipe[t] /\ pending'[t] = Append(pending[t], c)
  BY DEF Write, Set, TypeOK
<1>5. Unread(t)' = Unread(t) + (IF c = "t" THEN 1 ELSE 0)
  <2>1. CASE pipe'[t] = Append(pipe[t], c) /\ pending'[t] = pending[t]
    BY <1>2, <1>3, <2>1 DEF Unread
  <2>2. CASE pipe'[t] = pipe[t] /\ pending'[t] = Append(pending[t], c)
    BY <1>2, <1>3, <2>2 DEF Unread
  <2>3. QED
    BY <1>4, <2>1, <2>2
<1>6. \A u \in Threads : u # t => pipe'[u] = pipe[u] /\ pending'[u] = pending[u]
  BY DEF Write, Set, TypeOK
<1>7. QED
  BY <1>5, <1>6 DEF Unread

\* A queued task is never without a notification under way: an idle thread with
\* a task in its queue will be woken, for any number of pushing threads and any
\* pipe capacity, and although OnStop takes tasks without reading their bytes.
THEOREM WakeupsKept == Spec => []NoLostWakeup
<1>1. Init => NoLostWakeup
  BY CountEmpty DEF Init, NoLostWakeup, Wakeups
<1>2. TypeOK /\ TypeOK' /\ NoLostWakeup /\ [Next]_vars => NoLostWakeup'
  <2> SUFFICES ASSUME TypeOK, TypeOK', NoLostWakeup, [Next]_vars,
                      NEW u \in Threads, ctl'[u] # "released"
               PROVE  Len(tq'[u]) <= Wakeups(u)'
    BY DEF NoLostWakeup
  <2> DEFINE Served == IF ctl[u] = "task" THEN 1 ELSE 0
  <2>1. Len(tq[u]) <= Unread(u) + Served
    BY ReleasedStays DEF NoLostWakeup, Wakeups, Unread
  <2>2. Wakeups(u)' = Unread(u)' + Served'
    BY DEF Wakeups, Unread
  <2>3. /\ Unread(u) \in Nat /\ Unread(u)' \in Nat
        /\ Len(tq[u]) \in Nat /\ Len(tq'[u]) \in Nat
    <3>1. /\ Count(pipe[u], "t") \in Nat /\ Count(pending[u], "t") \in Nat
          /\ Count(pipe'[u], "t") \in Nat /\ Count(pending'[u], "t") \in Nat
      BY CountType DEF TypeOK
    <3>2. tq[u] \in Seq(Nat) /\ tq'[u] \in Seq(Nat)
      BY DEF TypeOK
    <3>3. QED
      BY <3>1, <3>2 DEF Unread
  <2> HIDE DEF Served
  <2>4. Served \in Nat /\ Served' \in Nat
    BY DEF Served
  <2>5. CASE Len(tq'[u]) <= Len(tq[u]) /\ Unread(u)' >= Unread(u) /\ Served' = Served
    BY <2>1, <2>2, <2>3, <2>4, <2>5
  <2>6. ASSUME NEW t \in Threads, PushTask(t)
        PROVE  Len(tq'[u]) <= Wakeups(u)'
    <3>1. Head(todo[t]) \in Threads /\ Write(Head(todo[t]), "t") /\ "t" \in Cmds
      <4>1. todo[t] \in Seq(Threads) /\ todo[t] # <<>>
        BY <2>6 DEF PushTask, TypeOK
      <4>2. Head(todo[t]) \in Threads
        BY <4>1
      <4>3. QED
        BY <2>6, <4>2 DEF PushTask, Cmds
    <3>2. Served' = Served
      BY <2>6 DEF PushTask, Served
    <3>3. CASE u = Head(todo[t])
      <4>1. Unread(u)' = Unread(u) + 1
        BY <3>1, <3>3, UnreadAfterWrite
      <4>2. Len(tq'[u]) = Len(tq[u]) + 1
        <5>1. tq'[u] = Append(tq[u], sent[u]["t"] + 1)
          BY <2>6, <3>1, <3>3 DEF PushTask, Set, TypeOK
        <5>2. tq[u] \in Seq(Nat)
          BY DEF TypeOK
        <5>3. QED
          BY <5>1, <5>2
      <4>3. QED
        BY <2>1, <2>2, <2>3, <2>4, <3>2, <4>1, <4>2
    <3>4. CASE u # Head(todo[t])
      <4>1. Unread(u)' = Unread(u)
        BY <3>1, <3>4, UnreadAfterWrite
      <4>2. tq'[u] = tq[u]
        BY <2>6, <3>1, <3>4 DEF PushTask, Set, TypeOK
      <4>3. QED
        BY <2>3, <2>5, <3>2, <4>1, <4>2
    <3>5. QED
      BY <3>3, <3>4
  <2>7. ASSUME NEW t \in Threads, NEW c \in Cmds, Notify(t, c)
        PROVE  Len(tq'[u]) <= Wakeups(u)'
    <3>1. Write(t, c)
      BY <2>7 DEF Notify
    <3>2. Unread(u)' >= Unread(u)
      BY <2>3, <3>1, UnreadAfterWrite
    <3>3. Len(tq'[u]) <= Len(tq[u]) /\ Served' = Served
      BY <2>3, <2>7 DEF Notify, Served
    <3>4. QED
      BY <2>5, <3>2, <3>3
  <2>8. ASSUME NEW t \in Threads, ReadCallback(t)
        PROVE  Len(tq'[u]) <= Wakeups(u)'
    <3>1. tq'[u] = tq[u]
      BY <2>8 DEF ReadCallback
    <3>2. CASE u # t
      <4>1. pipe'[u] = pipe[u] /\ pending'[u] = pending[u] /\ ctl'[u] = ctl[u]
        BY <2>8, <3>2 DEF ReadCallback, OnStop, OnReload, OnExit, OnTaskByte, Set, TypeOK
      <4>2. Unread(u)' = Unread(u) /\ Served' = Served
        BY <4>1 DEF Unread, Served
      <4>3. QED
        BY <2>3, <2>5, <3>1, <4>2
    <3>3. CASE u = t
      <4>1. pipe[u] # <<>> /\ pipe'[u] = Tail(pipe[u]) /\ pending'[u] = pending[u]
        BY <2>8, <3>3 DEF ReadCallback, Set, TypeOK
      <4>2. Count(pipe[u], "t") = Count(pipe'[u], "t") + (IF Head(pipe[u]) = "t" THEN 1 ELSE 0)
        BY <4>1, CountTail DEF TypeOK
      <4>3. Count(pipe'[u], "t") \in Nat /\ Count(pending[u], "t") \in Nat
        BY CountType DEF TypeOK
      <4>4. Unread(u) = Unread(u)' + (IF Head(pipe[u]) = "t" THEN 1 ELSE 0)
        BY <4>1, <4>2, <4>3 DEF Unread
      <4>5. Served = 0
        BY <2>8, <3>3 DEF ReadCallback, At, Served
      <4>6. Head(pipe[u]) = "t" => Served' = 1
        BY <2>8, <3>3 DEF ReadCallback, OnTaskByte, Served, Set, TypeOK
      <4>7. QED
        BY <2>1, <2>2, <2>3, <2>4, <3>1, <4>4, <4>5, <4>6
    <3>4. QED
      BY <3>2, <3>3
  <2>9. ASSUME NEW t \in Threads, OnTask(t) \/ Drain(t)
        PROVE  Len(tq'[u]) <= Wakeups(u)'
    <3>1. Unread(u)' = Unread(u)
      BY <2>9 DEF OnTask, Drain, Unread
    <3>2. CASE u # t
      <4>1. tq'[u] = tq[u] /\ Served' = Served
        BY <2>9, <3>2 DEF OnTask, Drain, PopFront, Served, Set, TypeOK
      <4>2. QED
        BY <2>3, <2>5, <3>1, <4>1
    <3>3. CASE u = t
      <4>1. \/ tq[u] = <<>> /\ tq'[u] = tq[u]
            \/ tq[u] # <<>> /\ tq'[u] = Tail(tq[u])
        BY <2>9, <3>3 DEF OnTask, Drain, PopFront, Set, TypeOK
      <4>2. Len(tq'[u]) = 0 \/ Len(tq'[u]) = Len(tq[u]) - 1
        <5>1. tq[u] \in Seq(Nat)
          BY DEF TypeOK
        <5>2. tq[u] = <<>> => Len(tq[u]) = 0
          OBVIOUS
        <5>3. tq[u] # <<>> => Len(Tail(tq[u])) = Len(tq[u]) - 1
          BY <5>1
        <5>4. QED
          BY <4>1, <5>2, <5>3
      <4>3. Served <= 1
        BY DEF Served
      <4>4. QED
        BY <2>1, <2>2, <2>3, <2>4, <3>1, <4>2, <4>3
    <3>4. QED
      BY <3>2, <3>3
  <2>10. ASSUME NEW t \in Threads, OnTimer(t)
         PROVE  Len(tq'[u]) <= Wakeups(u)'
    <3>1. tq'[u] = tq[u]
      BY <2>10 DEF OnTimer
    <3>2. Served' = Served
      BY <2>10 DEF OnTimer, At, Served, Set, TypeOK
    <3>3. \/ pipe'[u] = pipe[u] /\ pending'[u] = pending[u]
          \/ /\ pending[u] # <<>>
             /\ pipe'[u] = Append(pipe[u], Head(pending[u]))
             /\ pending'[u] = Tail(pending[u])
      <4>1. CASE u # t
        BY <2>10, <4>1 DEF OnTimer, Set, TypeOK
      <4>2. CASE u = t
        BY <2>10, <4>2 DEF OnTimer, Set, TypeOK
      <4>3. QED
        BY <4>1, <4>2
    <3>4. CASE pipe'[u] = pipe[u] /\ pending'[u] = pending[u]
      <4>1. Unread(u)' = Unread(u)
        BY <3>4 DEF Unread
      <4>2. QED
        BY <2>3, <2>5, <3>1, <3>2, <4>1
    <3>5. CASE /\ pending[u] # <<>>
               /\ pipe'[u] = Append(pipe[u], Head(pending[u]))
               /\ pending'[u] = Tail(pending[u])
      <4>1. Head(pending[u]) \in Cmds /\ pipe[u] \in Seq(Cmds)
        BY <3>5 DEF TypeOK
      <4>2. Count(pending[u], "t")
              = Count(pending'[u], "t") + (IF Head(pending[u]) = "t" THEN 1 ELSE 0)
        BY <3>5, CountTail DEF TypeOK
      <4>3. Count(pipe'[u], "t")
              = Count(pipe[u], "t") + (IF Head(pending[u]) = "t" THEN 1 ELSE 0)
        BY <3>5, <4>1, CountAppend
      <4>4. Count(pipe[u], "t") \in Nat /\ Count(pending'[u], "t") \in Nat
        BY CountType DEF TypeOK
      <4>5. Unread(u)' = Unread(u)
        BY <4>2, <4>3, <4>4 DEF Unread
      <4>6. QED
        BY <2>3, <2>5, <3>1, <3>2, <4>5
    <3>6. QED
      BY <3>3, <3>4, <3>5
  <2>11. ASSUME NEW t \in Threads, Release(t)
         PROVE  Len(tq'[u]) <= Wakeups(u)'
    <3>1. u # t
      BY <2>11 DEF Release, FreeThread, Set, TypeOK
    <3>2. tq'[u] = tq[u] /\ pipe'[u] = pipe[u] /\ pending'[u] = pending[u] /\ ctl'[u] = ctl[u]
      BY <2>11, <3>1 DEF Release, FreeThread, Set, TypeOK
    <3>3. Unread(u)' = Unread(u) /\ Served' = Served
      BY <3>2 DEF Unread, Served
    <3>4. QED
      BY <2>3, <2>5, <3>2, <3>3
  <2>12. ASSUME NEW t \in Threads,
                \/ Start(t) \/ WorkLoop(t) \/ TaskDone(t) \/ LockForStop(t)
                \/ StopDone(t) \/ CheckRemoved(t) \/ RemoveTimer(t)
         PROVE  Len(tq'[u]) <= Wakeups(u)'
    <3>1. UNCHANGED <<tq, pipe, pending>>
      BY <2>12 DEF Start, WorkLoop, TaskDone, LockForStop, StopDone, CheckRemoved, RemoveTimer
    <3>2. ctl'[u] = "task" <=> ctl[u] = "task"
      BY <2>12 DEF Start, WorkLoop, TaskDone, LockForStop, StopDone, CheckRemoved,
                   RemoveTimer, At, Set, TypeOK
    <3>3. Unread(u)' = Unread(u) /\ Served' = Served
      BY <3>1, <3>2 DEF Unread, Served
    <3>4. QED
      BY <2>3, <2>5, <3>1, <3>3
  <2>13. CASE UNCHANGED <<tq, pipe, pending, ctl>>
    <3>1. Unread(u)' = Unread(u) /\ Served' = Served
      BY <2>13 DEF Unread, Served
    <3>2. QED
      BY <2>3, <2>5, <2>13, <3>1
  <2>14. CASE UNCHANGED vars
    BY <2>13, <2>14 DEF vars, threadVars
  <2>15. ASSUME NEW t \in Threads, NotifyStop(t) \/ NotifyReload(t) \/ NotifyExit(t)
         PROVE  Len(tq'[u]) <= Wakeups(u)'
    BY <2>7, <2>15 DEF NotifyStop, NotifyReload, NotifyExit, Cmds, Controls
  <2>16. ASSUME NEW t \in Threads, PushTaskToThread(t) \/ SetReloadFinish(t)
         PROVE  Len(tq'[u]) <= Wakeups(u)'
    BY <2>13, <2>16 DEF PushTaskToThread, SetReloadFinish
  <2>17. QED
    BY <2>6, <2>8, <2>9, <2>10, <2>11, <2>12, <2>14, <2>15, <2>16
       DEF Next, ThreadStep, MainStep
<1>3. QED
  BY <1>1, <1>2, ThreadTypes, PTL DEF Spec

-----------------------------------------------------------------------------
\* Two facts that order the release after the last push: a callback still
\* pushes only where the thread runs a callback, and no thread is released
\* before all have left their loops; until then nothing is dropped.
ReleaseLast ==
    /\ \A t \in Threads : todo[t] # <<>> =>
         ctl[t] \in {"loop", "handle", "drain_handle", "on_stop"}
    /\ (\E t \in Threads : ctl[t] = "released") =>
         \A t \in Threads : ctl[t] \in {"exited", "released"}
    /\ \A t \in Threads : ctl[t] # "released" => dropped[t] = <<>>

\* ReleaseLast holds for any threads: Release waits for all of them.
THEOREM NothingDroppedEarly == Spec => []ReleaseLast
<1>1. Init => ReleaseLast
  BY DEF Init, ReleaseLast
<1>2. TypeOK /\ ReleaseLast /\ [Next]_vars => ReleaseLast'
  <2> SUFFICES ASSUME TypeOK, ReleaseLast, [Next]_vars
               PROVE  ReleaseLast'
    OBVIOUS
  <2>0. CASE UNCHANGED <<ctl, todo, dropped>>
    BY <2>0 DEF ReleaseLast
  <2> SUFFICES ASSUME NEW t \in Threads,
                      PushTaskToThread(t) \/ WorkLoop(t) \/ ThreadStep(t) \/ MainStep(t)
               PROVE  ReleaseLast'
    BY <2>0 DEF Next, vars, threadVars, history
  <2>1. CASE PushTaskToThread(t)
    <3>1. ctl[t] \in {"loop", "handle", "drain_handle", "on_stop"}
      BY <2>1 DEF PushTaskToThread, Reachable
    <3>2. \A u \in Threads : todo'[u] # <<>> => u = t \/ todo[u] # <<>>
      BY <2>1 DEF PushTaskToThread, Set, TypeOK
    <3>3. QED
      BY <2>1, <3>1, <3>2 DEF PushTaskToThread, ReleaseLast, history
  <2>2. CASE PushTask(t)
    <3>1. \A u \in Threads : todo'[u] # <<>> => todo[u] # <<>>
      BY <2>2 DEF PushTask, Set, TypeOK
    <3>2. QED
      BY <2>2, <3>1 DEF PushTask, ReleaseLast
  <2>3. CASE Release(t)
    <3>1. \A u \in Threads : ctl'[u] \in {"exited", "released"} /\ todo'[u] = <<>>
      BY <2>3 DEF Release, FreeThread, Set, TypeOK, ReleaseLast
    <3>2. \A u \in Threads : ctl'[u] # "released" => dropped'[u] = <<>>
      BY <2>3 DEF Release, FreeThread, Set, TypeOK, ReleaseLast
    <3>3. QED
      BY <3>1, <3>2 DEF ReleaseLast
  <2>4. CASE /\ ctl[t] \notin {"exited", "released"}
             /\ todo[t] = <<>>
             /\ \A u \in Threads : u # t => ctl'[u] = ctl[u]
             /\ ctl'[t] # "released"
             /\ UNCHANGED <<todo, dropped>>
    <3>1. \A u \in Threads : ctl[u] # "released" /\ ctl'[u] # "released"
      BY <2>4 DEF ReleaseLast
    <3>2. QED
      BY <2>4, <3>1 DEF ReleaseLast
  <2>5. CASE NotifyStop(t) \/ NotifyReload(t) \/ NotifyExit(t) \/ SetReloadFinish(t)
    BY <2>0, <2>5 DEF NotifyStop, NotifyReload, NotifyExit, Notify, SetReloadFinish, history
  <2>6. CASE ReadCallback(t)
    BY <2>4, <2>6 DEF ReadCallback, OnStop, OnReload, OnExit, OnTaskByte, At, Set, TypeOK
  <2>7. CASE \/ Start(t) \/ WorkLoop(t) \/ CheckRemoved(t) \/ RemoveTimer(t)
    <3>1. todo[t] = <<>>
      BY <2>7 DEF Start, WorkLoop, CheckRemoved, RemoveTimer, ReleaseLast
    <3>2. QED
      BY <2>4, <2>7, <3>1 DEF Start, WorkLoop, CheckRemoved, RemoveTimer, Set, TypeOK, history
  <2>8. CASE OnTask(t) \/ TaskDone(t) \/ LockForStop(t) \/ Drain(t) \/ StopDone(t)
    BY <2>4, <2>8 DEF OnTask, TaskDone, LockForStop, Drain, StopDone, At, Set, TypeOK, history
  <2>9. CASE OnTimer(t)
    BY <2>0, <2>4, <2>9 DEF OnTimer, At, Set, TypeOK, history
  <2>10. QED
    BY <2>1, <2>2, <2>3, <2>5, <2>6, <2>7, <2>8, <2>9 DEF ThreadStep, MainStep
<1>3. QED
  BY <1>1, <1>2, ThreadTypes, PTL DEF Spec

\* The order of a thread's tasks, through its sink, its queue and its release.
TaskOrder(h, c, q, d) == h \o c \o q \o d

\* A push adds the next task at the end.
LEMMA OrderPush ==
  ASSUME NEW h \in Seq(Nat), NEW c \in Seq(Nat), NEW q \in Seq(Nat), NEW n \in Nat
  PROVE  TaskOrder(h, c, Append(q, n), <<>>) = Append(TaskOrder(h, c, q, <<>>), n)
<1>0. h \o c \in Seq(Nat) /\ (h \o c) \o q \in Seq(Nat)
  BY ConcatProperties
<1>1. Append(q, n) = q \o <<n>> /\ <<n>> \in Seq(Nat) /\ Append(q, n) \in Seq(Nat)
  BY AppendIsConcat
<1>2. (h \o c) \o (q \o <<n>>) = ((h \o c) \o q) \o <<n>>
  BY <1>0, <1>1, ConcatAssociative, SMTT(60)
<1>3. Append((h \o c) \o q, n) = ((h \o c) \o q) \o <<n>>
  BY <1>0, AppendIsConcat
<1>4. (h \o c) \o Append(q, n) \in Seq(Nat)
  BY <1>0, <1>1, ConcatProperties
<1>5. /\ ((h \o c) \o Append(q, n)) \o <<>> = (h \o c) \o Append(q, n)
      /\ ((h \o c) \o q) \o <<>> = (h \o c) \o q
  BY <1>0, <1>4, ConcatEmptySeq
<1>6. QED
  BY <1>1, <1>2, <1>3, <1>5 DEF TaskOrder

\* A pop only moves the border between the queue and the sink.
LEMMA OrderPop ==
  ASSUME NEW h \in Seq(Nat), NEW q \in Seq(Nat), q # <<>>, NEW d
  PROVE  TaskOrder(h, <<Head(q)>>, Tail(q), d) = TaskOrder(h, <<>>, q, d)
<1>1. <<Head(q)>> \in Seq(Nat) /\ Tail(q) \in Seq(Nat)
  OBVIOUS
<1>2. q = <<Head(q)>> \o Tail(q)
  OBVIOUS
<1>3. (h \o <<Head(q)>>) \o Tail(q) = h \o (<<Head(q)>> \o Tail(q))
  <2>1. ASSUME NEW x \in Seq(Nat), NEW y \in Seq(Nat)
        PROVE  (h \o x) \o y = h \o (x \o y)
    BY ConcatAssociative, SMTT(60)
  <2>2. QED
    BY <1>1, <2>1, Zenon
<1>4. h \o <<>> = h
  BY ConcatEmptySeq
<1>5. QED
  BY <1>2, <1>3, <1>4 DEF TaskOrder

\* So does the end of OnTask, and the release of the thread.
LEMMA OrderDone ==
  ASSUME NEW h \in Seq(Nat), NEW c \in Seq(Nat), NEW q, NEW d
  PROVE  TaskOrder(h \o c, <<>>, q, d) = TaskOrder(h, c, q, d)
<1>1. h \o c \in Seq(Nat)
  BY ConcatProperties
<1>2. QED
  BY <1>1, ConcatEmptySeq DEF TaskOrder

\* The queued tasks are released: they keep their place in the order.
LEMMA OrderRelease ==
  ASSUME NEW h \in Seq(Nat), NEW c \in Seq(Nat), NEW q \in Seq(Nat)
  PROVE  TaskOrder(h, c, <<>>, q) = TaskOrder(h, c, q, <<>>)
<1>1. h \o c \in Seq(Nat) /\ (h \o c) \o q \in Seq(Nat)
  BY ConcatProperties
<1>2. QED
  BY <1>1, ConcatEmptySeq DEF TaskOrder

\* The numbers of the first n tasks, and the next one behind them.
LEMMA NextTask ==
  ASSUME NEW n \in Nat
  PROVE  Append([i \in 1..n |-> i], n + 1) = [i \in 1..(n + 1) |-> i]
<1>1. [i \in 1..n |-> i] \in Seq(Nat) /\ Len([i \in 1..n |-> i]) = n
  OBVIOUS
<1>2. QED
  BY <1>1

\* TasksConserved, for any threads, groups and numbers of tasks: OnTask and the
\* drain of OnStop, PushTask and the release neither lose, duplicate nor
\* reorder a task.
THEOREM TasksKept == Spec => []TasksConserved
<1>1. Init => TasksConserved
  <2> SUFFICES ASSUME Init, NEW u \in Threads
               PROVE  handled[u] \o cur[u] \o tq[u] \o dropped[u] = [i \in 1..sent[u]["t"] |-> i]
    BY DEF TasksConserved
  <2>1. /\ handled[u] = <<>> /\ cur[u] = <<>> /\ tq[u] = <<>> /\ dropped[u] = <<>>
        /\ sent[u]["t"] = 0
    BY DEF Init, Cmds
  <2>2. <<>> \o <<>> \o <<>> \o <<>> = <<>> /\ [i \in 1..0 |-> i] = <<>>
    OBVIOUS
  <2>3. QED
    BY <2>1, <2>2
<1>2. TypeOK /\ StopHoldsMutex /\ ReleaseLast /\ TasksConserved /\ [Next]_vars
        => TasksConserved'
  <2> SUFFICES ASSUME TypeOK, StopHoldsMutex, ReleaseLast, TasksConserved, [Next]_vars,
                      NEW u \in Threads
               PROVE  TaskOrder(handled'[u], cur'[u], tq'[u], dropped'[u])
                        = [i \in 1..sent'[u]["t"] |-> i]
    BY DEF TasksConserved, TaskOrder
  <2>1. TaskOrder(handled[u], cur[u], tq[u], dropped[u]) = [i \in 1..sent[u]["t"] |-> i]
    BY DEF TasksConserved, TaskOrder
  <2>2. /\ handled[u] \in Seq(Nat) /\ cur[u] \in Seq(Nat)
        /\ tq[u] \in Seq(Nat) /\ dropped[u] \in Seq(Nat)
    BY DEF TypeOK
  <2>3. "t" \in Cmds /\ sent \in [Threads -> [Cmds -> Nat]] /\ sent[u]["t"] \in Nat
    <3>1. "t" \in Cmds /\ sent \in [Threads -> [Cmds -> Nat]]
      BY DEF TypeOK, Cmds
    <3>2. QED
      BY <3>1
  <2>4. CASE UNCHANGED <<handled[u], cur[u], tq[u], dropped[u], sent[u]["t"]>>
    BY <2>1, <2>4
  <2>5. CASE UNCHANGED vars
    BY <2>4, <2>5 DEF vars, threadVars, history
  <2> SUFFICES ASSUME NEW t \in Threads,
                      PushTaskToThread(t) \/ WorkLoop(t) \/ ThreadStep(t) \/ MainStep(t)
               PROVE  TaskOrder(handled'[u], cur'[u], tq'[u], dropped'[u])
                        = [i \in 1..sent'[u]["t"] |-> i]
    BY <2>5 DEF Next
  <2>6. CASE PushTask(t)
    <3>1. Head(todo[t]) \in Threads /\ todo[t] # <<>>
      BY <2>6 DEF PushTask, TypeOK
    <3>2. UNCHANGED <<handled, cur, dropped>> /\ sent' = Bump(sent, Head(todo[t]), "t")
      BY <2>6 DEF PushTask, Write
    <3>3. CASE u # Head(todo[t])
      <4>1. tq'[u] = tq[u] /\ sent'[u]["t"] = sent[u]["t"]
        <5>1. sent'[u]["t"] = sent[u]["t"]
          <6>1. Bump(sent, Head(todo[t]), "t")[u]["t"]
                  = IF u = Head(todo[t]) /\ "t" = "t" THEN sent[u]["t"] + 1 ELSE sent[u]["t"]
            BY <2>3, <3>1, BumpType
          <6>2. QED
            BY <3>2, <3>3, <6>1
        <5>2. QED
          BY <2>6, <3>1, <3>3, <5>1 DEF PushTask, Set, TypeOK
      <4>2. QED
        BY <2>4, <3>2, <4>1
    <3>4. CASE u = Head(todo[t])
      <4>1. tq'[u] = Append(tq[u], sent[u]["t"] + 1)
        BY <2>6, <3>1, <3>4 DEF PushTask, Set, TypeOK
      <4>2. sent'[u]["t"] = sent[u]["t"] + 1
        BY <2>3, <3>1, <3>2, <3>4, BumpType
      <4>3. dropped[u] = <<>>
        BY <3>1 DEF ReleaseLast
      <4>4. TaskOrder(handled[u], cur[u], Append(tq[u], sent[u]["t"] + 1), <<>>)
              = Append(TaskOrder(handled[u], cur[u], tq[u], <<>>), sent[u]["t"] + 1)
        <5>1. sent[u]["t"] + 1 \in Nat
          BY <2>3
        <5>2. QED
          BY <2>2, <5>1, OrderPush
      <4>5. QED
        BY <2>1, <2>3, <3>2, <4>1, <4>2, <4>3, <4>4, NextTask
    <3>5. QED
      BY <3>3, <3>4
  <2>7. CASE OnTask(t) \/ Drain(t)
    <3>1. UNCHANGED <<handled, dropped, sent>>
      BY <2>7 DEF OnTask, Drain, history
    <3>2. cur[t] = <<>>
      BY <2>7 DEF OnTask, Drain, At, StopHoldsMutex
    <3>3. CASE UNCHANGED <<cur[u], tq[u]>>
      BY <2>4, <3>1, <3>3
    <3>4. CASE u = t /\ tq[u] # <<>> /\ cur'[u] = <<Head(tq[u])>> /\ tq'[u] = Tail(tq[u])
      <4>1. TaskOrder(handled[u], <<Head(tq[u])>>, Tail(tq[u]), dropped[u])
              = TaskOrder(handled[u], <<>>, tq[u], dropped[u])
        BY <2>2, <3>4, OrderPop
      <4>2. QED
        BY <2>1, <3>1, <3>2, <3>4, <4>1
    <3>5. QED
      <4>1. \/ UNCHANGED <<cur, tq>>
            \/ /\ tq[t] # <<>>
               /\ cur' = Set(cur, t, <<Head(tq[t])>>)
               /\ tq' = Set(tq, t, Tail(tq[t]))
        BY <2>7 DEF OnTask, Drain, PopFront
      <4>2. \/ UNCHANGED <<cur[u], tq[u]>>
            \/ u = t /\ tq[u] # <<>> /\ cur'[u] = <<Head(tq[u])>> /\ tq'[u] = Tail(tq[u])
        BY <4>1 DEF Set, TypeOK
      <4>3. QED
        BY <3>3, <3>4, <4>2
  <2>8. CASE TaskDone(t)
    <3>1. UNCHANGED <<tq, dropped, sent>>
      BY <2>8 DEF TaskDone
    <3>2. CASE u # t
      <4>1. UNCHANGED <<handled[u], cur[u]>>
        BY <2>8, <3>2 DEF TaskDone, Set, TypeOK
      <4>2. QED
        BY <2>4, <3>1, <4>1
    <3>3. CASE u = t
      <4>1. handled'[u] = handled[u] \o cur[u] /\ cur'[u] = <<>>
        BY <2>8, <3>3 DEF TaskDone, Set, TypeOK
      <4>2. TaskOrder(handled[u] \o cur[u], <<>>, tq[u], dropped[u])
              = TaskOrder(handled[u], cur[u], tq[u], dropped[u])
        BY <2>2, OrderDone
      <4>3. QED
        BY <2>1, <3>1, <4>1, <4>2
    <3>4. QED
      BY <3>2, <3>3
  <2>9. CASE Release(t)
    <3>1. UNCHANGED <<handled, cur, sent>>
      BY <2>9 DEF Release, FreeThread
    <3>2. CASE u # t
      <4>1. UNCHANGED <<tq[u], dropped[u]>>
        BY <2>9, <3>2 DEF Release, FreeThread, Set, TypeOK
      <4>2. QED
        BY <2>4, <3>1, <4>1
    <3>3. CASE u = t
      <4>1. dropped'[u] = tq[u] /\ tq'[u] = <<>>
        BY <2>9, <3>3 DEF Release, FreeThread, Set, TypeOK
      <4>2. dropped[u] = <<>>
        BY <2>9, <3>3 DEF Release, ReleaseLast
      <4>3. TaskOrder(handled[u], cur[u], <<>>, tq[u]) = TaskOrder(handled[u], cur[u], tq[u], <<>>)
        BY <2>2, OrderRelease
      <4>4. QED
        BY <2>1, <3>1, <4>1, <4>2, <4>3
    <3>4. QED
      BY <3>2, <3>3
  <2>10. ASSUME NEW c \in Controls, Notify(t, c)
         PROVE  UNCHANGED <<handled[u], cur[u], tq[u], dropped[u], sent[u]["t"]>>
    <3>1. sent' = Bump(sent, t, c) /\ c \in Cmds /\ c # "t"
      BY <2>10 DEF Notify, Write, Cmds, Controls
    <3>2. sent'[u]["t"] = sent[u]["t"]
      BY <2>3, <3>1, BumpType
    <3>3. QED
      BY <2>10, <3>2 DEF Notify
  <2>11. CASE NotifyStop(t) \/ NotifyReload(t) \/ NotifyExit(t)
    BY <2>4, <2>10, <2>11 DEF NotifyStop, NotifyReload, NotifyExit, Controls
  <2>12. CASE \/ PushTaskToThread(t) \/ Start(t) \/ WorkLoop(t) \/ ReadCallback(t)
              \/ LockForStop(t) \/ StopDone(t) \/ OnTimer(t) \/ CheckRemoved(t)
              \/ RemoveTimer(t) \/ SetReloadFinish(t)
    <3>1. UNCHANGED <<handled, cur, tq, dropped, sent>>
      BY <2>12 DEF PushTaskToThread, Start, WorkLoop, ReadCallback, LockForStop, StopDone,
                   OnTimer, CheckRemoved, RemoveTimer, SetReloadFinish, history
    <3>2. QED
      BY <2>4, <3>1
  <2>13. QED
    BY <2>6, <2>7, <2>8, <2>9, <2>11, <2>12 DEF ThreadStep, MainStep
<1>3. QED
  BY <1>1, <1>2, ThreadTypes, StopMutex, NothingDroppedEarly, PTL DEF Spec

-----------------------------------------------------------------------------
\* AppFrame.

\* What the main thread is doing.
Phases == {"activate", "running", "reload_global", "wait_global", "reload",
           "stop", "polling", "exit", "release", "done"}

MainTypes ==
    /\ main \in Phases
    /\ left \in Seq(Threads)
    /\ groups_left \in Seq(Seq(Threads))
    /\ reloads \in Nat
    /\ global \in Globals
    /\ main \in {"reload_global", "wait_global"} => global # NoThread

\* While the groups exit the ones behind the one being joined are left, and
\* the ones before it have been joined.
GroupsInTurn ==
    main = "exit" =>
        /\ Len(groups_left) < Len(GroupSeq)
        /\ \A i \in 1..Len(groups_left) :
             groups_left[i] = GroupSeq[Len(GroupSeq) - Len(groups_left) + i]
        /\ \A i \in 1..(Len(GroupSeq) - Len(groups_left) - 1) :
             \A j \in DOMAIN GroupSeq[i] : ctl[GroupSeq[i][j]] = "exited"

\* A thread is released only by the last loop of the main thread, once, and
\* with all threads out of their loops.
ReleasesLast ==
    /\ main \notin {"release", "done"} => \A t \in Threads : ctl[t] # "released"
    /\ main \in {"release", "done"} => \A t \in Threads : ctl[t] \in {"exited", "released"}
    /\ main = "release" =>
         \A i \in 1..Len(left) :
            /\ ctl[left[i]] = "exited"
            /\ \A j \in 1..Len(left) : left[i] = left[j] => i = j

MainInv == MainTypes /\ GroupsInTurn /\ ReleasesLast
-----------------------------------------------------------------------------
\* The assumptions on the groups, as the steps use them.
LEMMA GroupFacts ==
    /\ GroupSeq \in Seq(Groups) /\ GroupSeq # <<>>
    /\ \A g \in Groups : g \in Seq(Threads)
    /\ Order \in Seq(Threads)
    /\ \A t \in Threads : \E i \in 1..Len(GroupSeq) : \E j \in DOMAIN GroupSeq[i] : GroupSeq[i][j] = t
    /\ \A t \in Threads : \E i \in 1..Len(Order) : Order[i] = t
    /\ \A i, j \in 1..Len(Order) : Order[i] = Order[j] => i = j
    /\ Globals \subseteq Threads \cup {NoThread}
    /\ \A t \in Globals \ {NoThread} : Order # <<>> /\ Order[1] = t
<1>1. GroupSeq \in Seq(Groups) /\ GroupSeq # <<>> /\ Order \in Seq(Threads)
  BY GroupSeqAssumption DEF Order
<1>2. DOMAIN GroupSeq = 1..Len(GroupSeq) /\ DOMAIN Order = 1..Len(Order)
  BY <1>1
<1> QED
  BY <1>1, <1>2, ThreadsInGroups, GroupsAssumption, Zenon

\* Sequences of threads and of groups: the first one is called, the rest is left.
LEMMA RestOfSeq ==
    ASSUME NEW A, NEW s \in Seq(A), s # <<>>
    PROVE  /\ Head(s) \in A /\ Tail(s) \in Seq(A) /\ Head(s) = s[1]
           /\ Len(Tail(s)) = Len(s) - 1 /\ Len(s) \in Nat /\ Len(s) >= 1
           /\ \A i \in 1..Len(Tail(s)) : Tail(s)[i] = s[i + 1] /\ i + 1 \in 1..Len(s)
  OBVIOUS

\* The reversed order names the same threads, each once.
LEMMA ReverseFacts ==
    /\ Reverse(Order) \in Seq(Threads)
    /\ \A i, j \in 1..Len(Reverse(Order)) : Reverse(Order)[i] = Reverse(Order)[j] => i = j
<1>1. Order \in Seq(Threads) /\ Len(Order) \in Nat
  BY GroupFacts
<1>2. \A i \in 1..Len(Order) : (Len(Order) - i) + 1 \in 1..Len(Order)
  BY <1>1
<1>3. Reverse(Order) = [i \in 1..Len(Order) |-> Order[(Len(Order) - i) + 1]]
  BY DEF Reverse
<1>4. Reverse(Order) \in Seq(Threads) /\ Len(Reverse(Order)) = Len(Order)
  BY <1>1, <1>2, <1>3
<1>5. ASSUME NEW i \in 1..Len(Order), NEW j \in 1..Len(Order), Reverse(Order)[i] = Reverse(Order)[j]
      PROVE  i = j
  <2>1. Order[(Len(Order) - i) + 1] = Order[(Len(Order) - j) + 1]
    BY <1>3, <1>5
  <2>2. (Len(Order) - i) + 1 = (Len(Order) - j) + 1
    <3>1. \A a, b \in 1..Len(Order) : Order[a] = Order[b] => a = b
      BY GroupFacts, Zenon
    <3> QED
      BY <1>2, <2>1, <3>1, Zenon
  <2> QED
    BY <1>1, <2>2
<1> QED
  BY <1>4, <1>5

\* Where a thread is that does not run.
Still == {"new", "started", "exited", "released"}

\* A thread that has not started, or has left its loop, makes no step, and a
\* running one does not become one that has not started or is released.
LEMMA RunSteps ==
    ASSUME TypeOK, NEW t \in Threads, ThreadStep(t) \/ PushTaskToThread(t), NEW u \in Threads
    PROVE  \/ ctl[u] \in Still /\ ctl'[u] = ctl[u]
           \/ ctl[u] \notin Still /\ ctl'[u] \notin {"new", "started", "released"}
<1>1. CASE ctl' = ctl
  BY <1>1 DEF Still
<1>2. CASE ReadCallback(t)
  BY <1>2 DEF ReadCallback, OnStop, OnReload, OnExit, OnTaskByte, At, Set, TypeOK, Still
<1>3. CASE OnTask(t) \/ TaskDone(t) \/ LockForStop(t) \/ Drain(t) \/ StopDone(t)
  BY <1>3 DEF OnTask, TaskDone, LockForStop, Drain, StopDone, At, Set, TypeOK, Still
<1>4. CASE OnTimer(t) \/ CheckRemoved(t) \/ RemoveTimer(t)
  BY <1>4 DEF OnTimer, CheckRemoved, RemoveTimer, At, Set, TypeOK, Still
<1> QED
  BY <1>1, <1>2, <1>3, <1>4 DEF ThreadStep, PushTaskToThread, PushTask

\* Lengths are numbers.
LEMMA SeqLengths ==
    /\ Len(GroupSeq) \in Nat /\ Len(GroupSeq) >= 1
    /\ groups_left \in Seq(Seq(Threads)) => Len(groups_left) \in Nat
<1>1. GroupSeq \in Seq(Groups) /\ GroupSeq # <<>>
  BY GroupFacts
<1>2. Len(GroupSeq) \in Nat /\ Len(GroupSeq) >= 1
  BY <1>1
<1>3. \A s \in Seq(Seq(Threads)) : Len(s) \in Nat
  OBVIOUS
<1> QED
  BY <1>2, <1>3, Zenon

\* The steps of the threads themselves.
LEMMA WorkersKeepMain ==
    ASSUME TypeOK, MainInv, NEW t \in Threads,
           Worker(t) \/ (PushTaskToThread(t) /\ UNCHANGED mainVars)
    PROVE  [Next]_vars /\ MainInv'
<1>1. UNCHANGED <<main, left, groups_left, reloads, global>>
  BY DEF Worker, OnThreadStartOK, mainVars
<1>2. WorkLoop(t) \/ ThreadStep(t) \/ PushTaskToThread(t)
  BY DEF Worker, OnThreadStartOK
<1>3. \A u \in Threads : (ctl[u] \in {"exited", "released"} => ctl'[u] = ctl[u])
                         /\ (ctl'[u] = "released" => ctl[u] = "released")
  <2>1. CASE WorkLoop(t)
    BY <2>1 DEF WorkLoop, Set, TypeOK
  <2> QED
    BY <1>2, <2>1, RunSteps DEF Still
<1>4. GroupsInTurn'
  <2>1. ASSUME main = "exit", NEW i \in 1..(Len(GroupSeq) - Len(groups_left) - 1),
               NEW j \in DOMAIN GroupSeq[i]
        PROVE  ctl'[GroupSeq[i][j]] = "exited"
    <3>1. ctl[GroupSeq[i][j]] = "exited"
      BY <2>1 DEF MainInv, GroupsInTurn
    <3>2. Len(GroupSeq) \in Nat /\ Len(groups_left) \in Nat
      BY SeqLengths DEF MainInv, MainTypes
    <3>3. i \in 1..Len(GroupSeq)
      BY <3>2
    <3>4. GroupSeq[i] \in Seq(Threads)
      BY <3>3, GroupFacts
    <3>5. GroupSeq[i][j] \in Threads
      BY <3>4, ElementOfSeq
    <3> QED
      BY <1>3, <3>1, <3>5
  <2> QED
    BY <1>1, <2>1 DEF MainInv, GroupsInTurn
<1>5. ReleasesLast'
  <2>1. left \in Seq(Threads)
    BY DEF MainInv, MainTypes
  <2>2. \A i \in 1..Len(left) : left[i] \in Threads
    BY <2>1
  <2> QED
    BY <1>1, <1>3, <2>2 DEF MainInv, ReleasesLast
<1>6. MainTypes'
  BY <1>1 DEF MainInv, MainTypes
<1> QED
  BY <1>2, <1>4, <1>5, <1>6 DEF MainInv, Next

\* The calls of the main thread on one thread.
LEMMA CallsKeepMain ==
    ASSUME TypeOK, MainInv, MainCall \/ ReloadGlobal
    PROVE  [Next]_vars /\ MainInv'
<1>0. left \in Seq(Threads) /\ global \in Globals /\ groups_left \in Seq(Seq(Threads))
  BY DEF MainInv, MainTypes
<1>1. ASSUME left # <<>>
      PROVE  /\ Head(left) \in Threads /\ Tail(left) \in Seq(Threads) /\ Head(left) = left[1]
             /\ 1 \in 1..Len(left)
             /\ \A i \in 1..Len(Tail(left)) : Tail(left)[i] = left[i + 1] /\ i + 1 \in 1..Len(left)
  BY <1>0, <1>1, RestOfSeq
<1>2. ASSUME NotifyGlobal \/ ReloadGlobal
      PROVE  global \in Threads
  BY <1>0, <1>2, GroupFacts DEF NotifyGlobal, ReloadGlobal, MainInv, MainTypes
<1>3. ASSUME UNCHANGED <<ctl, groups_left, global>>,
             \/ UNCHANGED <<left, main>>
             \/ UNCHANGED <<left>> /\ main' = "reload_global" /\ main \in {"running", "polling"} /\ global # NoThread
             \/ UNCHANGED <<left>> /\ main' = "wait_global" /\ main = "reload_global"
             \/ left # <<>> /\ left' = Tail(left) /\ main' = main /\ main \in {"reload", "stop", "exit"},
             reloads' \in Nat
      PROVE  MainInv'
  <2>1. MainTypes'
    BY <1>1, <1>3 DEF MainInv, MainTypes, Phases
  <2>2. GroupsInTurn'
    BY <1>3 DEF MainInv, GroupsInTurn
  <2>3. ReleasesLast'
    BY <1>3 DEF MainInv, ReleasesLast
  <2> QED
    BY <2>1, <2>2, <2>3 DEF MainInv
<1>4. CASE StartNext
  <2>1. /\ main = "activate" /\ main' = main /\ left # <<>> /\ left' = Tail(left) /\ Start(Head(left))
        /\ UNCHANGED <<groups_left, reloads, global>>
    BY <1>4 DEF StartNext, Called
  <2>2. ctl' = [ctl EXCEPT ![Head(left)] = "started"]
    BY <2>1 DEF Start, Set
  <2>3. MainInv'
    BY <1>1, <2>1, <2>2 DEF MainInv, MainTypes, GroupsInTurn, ReleasesLast, TypeOK
  <2> QED
    BY <1>1, <2>1, <2>3 DEF Next, MainStep
<1>5. CASE NotifyGlobal
  <2>1. ctl' = ctl
    BY <1>5 DEF NotifyGlobal, NotifyReload, Notify
  <2> QED
    BY <1>2, <1>3, <1>5, <2>1 DEF NotifyGlobal, Next, MainStep, MainInv, MainTypes
<1>6. CASE ReloadGlobal
  <2>1. ctl' = ctl
    BY <1>6 DEF ReloadGlobal, SetReloadFinish
  <2>2. reloads' \in Nat
    BY <1>6 DEF ReloadGlobal, MainInv, MainTypes
  <2> QED
    BY <1>2, <1>3, <1>6, <2>1, <2>2 DEF ReloadGlobal, Next, MainStep
<1>7. CASE ReloadNext \/ StopNext \/ ExitNext
  <2>1. ctl' = ctl
    BY <1>7 DEF ReloadNext, StopNext, ExitNext, NotifyReload, NotifyStop, NotifyExit, Notify
  <2>2. MainInv'
    BY <1>3, <1>7, <2>1 DEF ReloadNext, StopNext, ExitNext, Called, MainInv, MainTypes
  <2> QED
    BY <1>1, <1>7, <2>2 DEF ReloadNext, StopNext, ExitNext, Next, MainStep
<1>8. CASE ReleaseNext
  <2>1. /\ main = "release" /\ main' = main /\ left # <<>> /\ left' = Tail(left) /\ FreeThread(Head(left))
        /\ UNCHANGED <<groups_left, reloads, global>>
    BY <1>8 DEF ReleaseNext, Called
  <2>2. ctl' = [ctl EXCEPT ![Head(left)] = "released"]
    BY <2>1 DEF FreeThread, Set
  <2>3. Release(Head(left))
    BY <1>1, <2>1 DEF Release, MainInv, ReleasesLast
  <2>4. ASSUME NEW i \in 1..Len(Tail(left))
        PROVE  /\ ctl'[Tail(left)[i]] = "exited"
               /\ \A j \in 1..Len(Tail(left)) : Tail(left)[i] = Tail(left)[j] => i = j
    <3>1. Tail(left)[i] = left[i + 1] /\ i + 1 \in 1..Len(left) /\ 1 \in 1..Len(left)
      BY <1>1, <2>1
    <3>2. left[i + 1] # left[1] /\ ctl[left[i + 1]] = "exited" /\ left[i + 1] \in Threads
      BY <1>0, <2>1, <3>1 DEF MainInv, ReleasesLast
    <3>3. ctl'[Tail(left)[i]] = "exited"
      BY <1>1, <2>1, <2>2, <3>1, <3>2 DEF TypeOK
    <3>4. ASSUME NEW j \in 1..Len(Tail(left)), Tail(left)[i] = Tail(left)[j]
          PROVE  i = j
      <4>1. left[i + 1] = left[j + 1] /\ j + 1 \in 1..Len(left)
        BY <1>1, <2>1, <3>1, <3>4
      <4>2. i + 1 = j + 1
        BY <2>1, <3>1, <4>1 DEF MainInv, ReleasesLast
      <4> QED
        BY <4>2
    <3> QED
      BY <3>3, <3>4
  <2>5. \A t \in Threads : ctl'[t] \in {"exited", "released"}
    BY <1>1, <2>1, <2>2 DEF TypeOK, MainInv, ReleasesLast
  <2>6. ReleasesLast'
    BY <2>1, <2>4, <2>5 DEF ReleasesLast
  <2>7. MainTypes' /\ GroupsInTurn'
    BY <1>1, <2>1 DEF MainInv, MainTypes, GroupsInTurn
  <2> QED
    BY <1>1, <2>1, <2>3, <2>6, <2>7 DEF MainInv, Next, MainStep
<1> QED
  BY <1>4, <1>5, <1>6, <1>7, <1>8 DEF MainCall

\* The main thread moves on to another part of its work.
LEMMA MovesKeepMain ==
    ASSUME TypeOK, MainInv, MainGoesOn \/ ReloadWithoutGlobal \/ OnStopSignal
    PROVE  [Next]_vars /\ MainInv'
<1>0. left \in Seq(Threads) /\ global \in Globals /\ groups_left \in Seq(Seq(Threads)) /\ reloads \in Nat
  BY DEF MainInv, MainTypes
<1>1. UNCHANGED vars /\ UNCHANGED <<global, ctl>> /\ reloads' \in Nat
  BY <1>0 DEF MainGoesOn, Activated, GlobalReloaded, ReloadDone, StopNotified, OnExitCheck, JoinGroup,
         Finished, ReloadWithoutGlobal, OnStopSignal, Goto, vars, threadVars
<1>2. <<>> \in Seq(Threads) /\ Order \in Seq(Threads)
  BY GroupFacts
<1>3. CASE GlobalReloaded
  <2>1. Order # <<>>
    BY <1>0, <1>3, GroupFacts DEF GlobalReloaded, MainInv, MainTypes
  <2>2. Tail(Order) \in Seq(Threads)
    BY <1>2, <2>1, RestOfSeq
  <2> QED
    BY <1>1, <1>3, <2>2 DEF GlobalReloaded, Goto, MainInv, MainTypes, GroupsInTurn, ReleasesLast, Phases
<1>4. CASE Activated \/ ReloadDone \/ StopNotified \/ ReloadWithoutGlobal \/ OnStopSignal
  <2>1. /\ main \in {"activate", "running", "polling", "reload", "stop"}
        /\ main' \in {"running", "polling", "reload", "stop"}
        /\ left' \in Seq(Threads) /\ groups_left' = groups_left
    BY <1>2, <1>4 DEF Activated, ReloadDone, StopNotified, ReloadWithoutGlobal, OnStopSignal, Goto, Idle
  <2> QED
    BY <1>1, <2>1 DEF MainInv, MainTypes, GroupsInTurn, ReleasesLast, Phases
<1>5. CASE OnExitCheck
  <2>1. /\ main = "polling" /\ main' = "exit" /\ left' = Head(GroupSeq) /\ groups_left' = Tail(GroupSeq)
    BY <1>5 DEF OnExitCheck, Goto
  <2>2. /\ Head(GroupSeq) \in Groups /\ Tail(GroupSeq) \in Seq(Groups)
        /\ Len(Tail(GroupSeq)) = Len(GroupSeq) - 1
        /\ \A i \in 1..Len(Tail(GroupSeq)) : Tail(GroupSeq)[i] = GroupSeq[i + 1]
    BY GroupFacts, RestOfSeq
  <2>3. Head(GroupSeq) \in Seq(Threads) /\ Tail(GroupSeq) \in Seq(Seq(Threads))
    <3>1. Groups \subseteq Seq(Threads)
      BY GroupFacts
    <3>2. \A A, B : A \subseteq B => Seq(A) \subseteq Seq(B)
      OBVIOUS
    <3> QED
      BY <2>2, <3>1, <3>2
  <2>4. Len(GroupSeq) \in Nat
    BY SeqLengths
  <2>5. ASSUME NEW i \in 1..Len(Tail(GroupSeq))
        PROVE  Tail(GroupSeq)[i] = GroupSeq[Len(GroupSeq) - Len(Tail(GroupSeq)) + i]
    <3>1. Len(GroupSeq) - Len(Tail(GroupSeq)) + i = i + 1
      BY <2>2, <2>4
    <3> QED
      BY <2>2, <3>1
  <2>6. 1..(Len(GroupSeq) - Len(Tail(GroupSeq)) - 1) = {}
    BY <2>2, <2>4
  <2>7. Len(Tail(GroupSeq)) < Len(GroupSeq)
    BY <2>2, <2>4
  <2>8. GroupsInTurn'
    BY <2>1, <2>5, <2>6, <2>7 DEF GroupsInTurn
  <2>9. MainTypes' /\ ReleasesLast'
    BY <1>0, <1>1, <2>1, <2>3 DEF MainInv, MainTypes, ReleasesLast, Phases
  <2> QED
    BY <1>1, <2>8, <2>9 DEF MainInv
<1>6. CASE JoinGroup
  <2> DEFINE L == Len(GroupSeq)
             n == Len(groups_left)
  <2>0. L \in Nat /\ n \in Nat /\ main = "exit" /\ n < L
    BY <1>0, <1>6, SeqLengths DEF JoinGroup, MainInv, GroupsInTurn
  <2>1. ASSUME NEW i \in 1..(L - n), NEW j \in DOMAIN GroupSeq[i]
        PROVE  ctl[GroupSeq[i][j]] = "exited"
    <3>1. CASE i \in 1..(L - n - 1)
      BY <2>0, <2>1, <3>1 DEF MainInv, GroupsInTurn
    <3>2. CASE i = L - n
      BY <1>6, <2>1, <3>2 DEF JoinGroup, Joining
    <3> QED
      BY <2>0, <3>1, <3>2
  <2>2. CASE groups_left # <<>>
    <3>1. main' = "exit" /\ left' = Head(groups_left) /\ groups_left' = Tail(groups_left)
      BY <1>6, <2>2 DEF JoinGroup, Goto
    <3>2. /\ Head(groups_left) \in Seq(Threads) /\ Tail(groups_left) \in Seq(Seq(Threads))
          /\ Len(Tail(groups_left)) = n - 1
          /\ \A i \in 1..Len(Tail(groups_left)) :
               Tail(groups_left)[i] = groups_left[i + 1] /\ i + 1 \in 1..n
      BY <1>0, <2>2, RestOfSeq
    <3>3. ASSUME NEW i \in 1..Len(Tail(groups_left))
          PROVE  Tail(groups_left)[i] = GroupSeq[L - Len(Tail(groups_left)) + i]
      <4>1. L - Len(Tail(groups_left)) + i = L - n + (i + 1)
        BY <2>0, <3>2
      <4>2. groups_left[i + 1] = GroupSeq[L - n + (i + 1)]
        BY <2>0, <3>2, <3>3 DEF MainInv, GroupsInTurn
      <4> QED
        BY <3>2, <4>1, <4>2
    <3>4. L - Len(Tail(groups_left)) - 1 = L - n /\ Len(Tail(groups_left)) < L
      BY <2>0, <3>2
    <3>5. GroupsInTurn'
      BY <1>1, <2>1, <3>1, <3>3, <3>4 DEF GroupsInTurn
    <3>6. MainTypes' /\ ReleasesLast'
      BY <1>0, <1>1, <2>0, <3>1, <3>2 DEF MainInv, MainTypes, ReleasesLast, Phases
    <3> QED
      BY <1>1, <3>5, <3>6 DEF MainInv
  <2>3. CASE groups_left = <<>>
    <3>1. main' = "release" /\ left' = Reverse(Order) /\ groups_left' = groups_left
      BY <1>6, <2>3 DEF JoinGroup, Goto
    <3>2. L - n = L
      BY <2>0, <2>3
    <3>3. ASSUME NEW t \in Threads
          PROVE  ctl[t] = "exited"
      <4>1. PICK i \in 1..L : \E j \in DOMAIN GroupSeq[i] : GroupSeq[i][j] = t
        BY GroupFacts, Zenon
      <4>2. i \in 1..(L - n)
        BY <3>2
      <4> QED
        BY <2>1, <4>1, <4>2
    <3>4. Reverse(Order) \in Seq(Threads)
          /\ \A i, j \in 1..Len(Reverse(Order)) : Reverse(Order)[i] = Reverse(Order)[j] => i = j
      BY ReverseFacts
    <3>5. \A i \in 1..Len(Reverse(Order)) : Reverse(Order)[i] \in Threads
      BY <3>4
    <3>6. ReleasesLast'
      BY <1>1, <3>1, <3>3, <3>4, <3>5 DEF ReleasesLast
    <3>7. MainTypes' /\ GroupsInTurn'
      BY <1>0, <1>1, <3>1, <3>4 DEF MainInv, MainTypes, GroupsInTurn, Phases
    <3> QED
      BY <1>1, <3>6, <3>7 DEF MainInv
  <2> QED
    BY <2>2, <2>3
<1>7. CASE Finished
  BY <1>1, <1>2, <1>7 DEF Finished, Goto, MainInv, MainTypes, GroupsInTurn, ReleasesLast, Phases
<1> QED
  BY <1>3, <1>4, <1>5, <1>6, <1>7 DEF MainGoesOn

\* Every step of the process is a step of thread_center or none of it.
LEMMA MainStepKept ==
    ASSUME TypeOK, MainInv, [AppNext]_appVars
    PROVE  [Next]_vars /\ MainInv'
<1>1. CASE UNCHANGED appVars
  <2>1. UNCHANGED vars /\ UNCHANGED <<ctl, main, left, groups_left, reloads, global>>
    BY <1>1 DEF appVars, vars, threadVars, mainVars
  <2> QED
    BY <2>1 DEF MainInv, MainTypes, GroupsInTurn, ReleasesLast
<1> QED
  BY <1>1, WorkersKeepMain, CallsKeepMain, MovesKeepMain DEF AppNext

\* The main thread activates the groups first.
LEMMA MainInitially == AppInit => TypeOK /\ MainInv
<1> SUFFICES ASSUME AppInit PROVE TypeOK /\ MainInv
  OBVIOUS
<1>1. TypeOK
  BY DEF AppInit, Init, TypeOK, Wheres
<1>2. <<>> \in Seq(Seq(Threads)) /\ Order \in Seq(Threads)
  BY GroupFacts
<1>3. MainTypes
  BY <1>2 DEF AppInit, MainTypes, Phases
<1> QED
  BY <1>1, <1>3 DEF AppInit, Init, MainInv, GroupsInTurn, ReleasesLast

\* Whatever the main thread does, it calls its threads in the order
\* GroupsInTurn and ReleasesLast say.
THEOREM MainInvariant == AppSpec => [](TypeOK /\ MainInv)
<1>1. TypeOK /\ MainInv /\ [AppNext]_appVars => TypeOK' /\ MainInv'
  BY MainStepKept, TypesStep
<1> QED
  BY <1>1, MainInitially, PTL DEF AppSpec

\* The process implements thread_center: every call the main thread makes, the
\* release of the threads after NotifyExitAndJoin in particular, is one the
\* threads allow, for any groups, capacities and bounds.
THEOREM AppImplementsThreads == AppSpec => Spec
<1>1. AppInit => Init
  BY DEF AppInit
<1>2. TypeOK /\ MainInv /\ [AppNext]_appVars => [Next]_vars
  BY MainStepKept
<1> QED
  BY <1>1, <1>2, MainInvariant, PTL DEF AppSpec, Spec
-----------------------------------------------------------------------------
\* The threads that have entered their loops are counted.
StartsCounted ==
    /\ threads_count = Cardinality({t \in Threads : ctl[t] \notin {"new", "started"}})
    /\ AllStarted

\* The reloads the threads other than the global one may have been told of.
Rounds == IF main \in {"reload_global", "wait_global"} THEN reloads - 1 ELSE reloads

\* The global thread has finished every reload the others were told of.
ReloadsInTurn ==
    global # NoThread =>
        /\ reloads >= Rounds /\ Rounds >= 0
        /\ sent[global]["r"] = IF main = "reload_global" THEN reloads - 1 ELSE reloads
        /\ main # "wait_global" => seen[global]["r"] = sent[global]["r"]
        /\ main = "reload_global" => reload_finished[global] = FALSE
        /\ main = "wait_global" =>
             /\ seen[global]["r"] >= reloads - 1
             /\ reload_finished[global] = TRUE => seen[global]["r"] = sent[global]["r"]
        /\ \A t \in Threads \ {global} : sent[t]["r"] <= Rounds
        /\ main = "reload" =>
             \A i \in 1..Len(left) :
                /\ left[i] # global /\ sent[left[i]]["r"] < reloads
                /\ \A j \in 1..Len(left) : left[i] = left[j] => i = j

\* No thread has read more reloads than it was sent.
ReadWasSent == \A t \in Threads : seen[t]["r"] <= sent[t]["r"]

\* No byte 'e' in the pipe is ahead of the first 's'.
StopAhead(s) == \A i \in 1..Len(s) : s[i] = "e" => \E j \in 1..(i - 1) : s[j] = "s"

\* The stop has been sent to every thread before the exit check begins.
StopsSent ==
    /\ main \in {"stop", "polling", "exit", "release", "done"} => stop_called = TRUE
    /\ stop_called = TRUE =>
         \A t \in Threads : \/ sent[t]["s"] >= 1
                            \/ main = "stop" /\ \E i \in 1..Len(left) : left[i] = t

\* A thread that has not stopped finds the byte 's' ahead of 'e'.
StopsFirst ==
    \A t \in Threads :
        /\ seen[t]["s"] >= 1 => stopping[t] = TRUE
        /\ ctl[t] \in {"exited", "released"} => stopping[t] = TRUE
        /\ stopping[t] = TRUE \/ StopAhead(pipe[t])

\* No pipe has ever been full.
NothingPending == \A t \in Threads : pending[t] = <<>>
-----------------------------------------------------------------------------
\* A step lets one thread enter its loop and counts it, or leaves the threads
\* that run alone; Activate ends only when all are counted.
LEMMA StartSteps ==
    ASSUME TypeOK, MainInv, [AppNext]_appVars
    PROVE  \/ \E t \in Threads : /\ WorkLoop(t) /\ threads_count' = threads_count + 1
                                 /\ main' = main
           \/ /\ threads_count' = threads_count
              /\ \A u \in Threads : ctl'[u] \in {"new", "started"} <=> ctl[u] \in {"new", "started"}
              /\ main # "activate" \/ main' = "activate" \/ threads_count >= ThreadsCount
<1> DEFINE Same == /\ threads_count' = threads_count
                   /\ \A u \in Threads : ctl'[u] \in {"new", "started"} <=> ctl[u] \in {"new", "started"}
<1>0. left # <<>> => Head(left) \in Threads /\ (main = "release" => ctl[Head(left)] = "exited")
  <2>1. left \in Seq(Threads)
    BY DEF MainInv, MainTypes
  <2>2. left # <<>> => Head(left) \in Threads /\ Head(left) = left[1] /\ 1 \in 1..Len(left)
    BY <2>1
  <2> QED
    BY <2>2 DEF MainInv, ReleasesLast
<1>1. ASSUME NEW t \in Threads, OnThreadStartOK(t)
      PROVE  WorkLoop(t) /\ threads_count' = threads_count + 1 /\ main' = main
  BY <1>1 DEF OnThreadStartOK
<1>2. ASSUME NEW t \in Threads, ThreadStep(t) \/ PushTaskToThread(t), UNCHANGED mainVars
      PROVE  Same /\ main' = main
  BY <1>2, RunSteps DEF Still, mainVars
<1>3. CASE StartNext \/ ReleaseNext
  <2>1. main' = main /\ threads_count' = threads_count /\ left # <<>>
    BY <1>3 DEF StartNext, ReleaseNext, Called
  <2>2. \/ ctl[Head(left)] = "new" /\ ctl' = [ctl EXCEPT ![Head(left)] = "started"]
        \/ ctl[Head(left)] = "exited" /\ ctl' = [ctl EXCEPT ![Head(left)] = "released"]
    BY <1>0, <1>3 DEF StartNext, ReleaseNext, Start, FreeThread, Set
  <2>3. Same
    BY <1>0, <2>1, <2>2 DEF TypeOK
  <2> QED
    BY <2>1, <2>3
<1>4. CASE NotifyGlobal \/ ReloadNext \/ StopNext \/ ExitNext \/ ReloadGlobal
  <2>1. ctl' = ctl /\ threads_count' = threads_count /\ main # "activate"
    BY <1>4 DEF NotifyGlobal, ReloadNext, StopNext, ExitNext, ReloadGlobal, Called, NotifyReload,
                NotifyStop, NotifyExit, Notify, SetReloadFinish
  <2> QED
    BY <2>1
<1>5. CASE MainGoesOn \/ ReloadWithoutGlobal \/ OnStopSignal
  <2>1. ctl' = ctl /\ threads_count' = threads_count
    BY <1>5 DEF MainGoesOn, Activated, GlobalReloaded, ReloadDone, StopNotified, OnExitCheck, JoinGroup,
                Finished, ReloadWithoutGlobal, OnStopSignal, Goto, vars, threadVars
  <2>2. main # "activate" \/ threads_count >= ThreadsCount
    BY <1>5 DEF MainGoesOn, Activated, GlobalReloaded, ReloadDone, StopNotified, OnExitCheck, JoinGroup,
                Finished, ReloadWithoutGlobal, OnStopSignal
  <2> QED
    BY <2>1, <2>2
<1>6. CASE UNCHANGED appVars
  BY <1>6 DEF appVars, vars, threadVars, mainVars
<1> QED
  BY <1>1, <1>2, <1>3, <1>4, <1>5, <1>6 DEF AppNext, Worker, MainCall

\* Activate returns only when all threads run: g_app_frame_threads_count is
\* their number.
LEMMA StartsStep ==
    ASSUME TypeOK, MainInv, StartsCounted, [AppNext]_appVars
    PROVE  StartsCounted'
<1> DEFINE Run == {t \in Threads : ctl[t] \notin {"new", "started"}}
<1>1. IsFiniteSet(Threads) /\ ThreadsCount = Cardinality(Threads)
  BY ThreadsInGroups
<1>2. /\ IsFiniteSet(Run) /\ Cardinality(Run) \in Nat /\ Cardinality(Threads) \in Nat
      /\ Cardinality(Run) <= Cardinality(Threads)
      /\ Cardinality(Run) = Cardinality(Threads) => Run = Threads
  BY <1>1, FS_Subset, FS_CardinalityType
<1>3. threads_count = Cardinality(Run)
  BY DEF StartsCounted
<1>4. ASSUME NEW t \in Threads, WorkLoop(t), threads_count' = threads_count + 1, main' = main
      PROVE  StartsCounted'
  <2>1. Run' = Run \cup {t} /\ t \notin Run
    BY <1>4 DEF WorkLoop, Set, TypeOK
  <2>2. Cardinality(Run') = Cardinality(Run) + 1
    BY <1>2, <2>1, FS_AddElement
  <2> QED
    BY <1>3, <1>4, <2>1, <2>2 DEF StartsCounted, AllStarted
<1>5. ASSUME threads_count' = threads_count,
             \A u \in Threads : ctl'[u] \in {"new", "started"} <=> ctl[u] \in {"new", "started"},
             main # "activate" \/ main' = "activate" \/ threads_count >= ThreadsCount
      PROVE  StartsCounted'
  <2>1. Run' = Run
    BY <1>5
  <2>2. threads_count >= ThreadsCount => Run = Threads
    BY <1>1, <1>2, <1>3
  <2>3. main # "activate" => Run = Threads
    BY DEF StartsCounted, AllStarted
  <2> QED
    BY <1>3, <1>5, <2>1, <2>2, <2>3 DEF StartsCounted, AllStarted
<1> QED
  BY <1>4, <1>5, StartSteps

\* The event loop of the main thread, with any reload, stop or exit, runs only
\* when every thread has started, however many there are.
THEOREM StartsFirst == AppSpec => []AllStarted
<1>1. AppInit => StartsCounted
  <2> SUFFICES ASSUME AppInit PROVE StartsCounted
    OBVIOUS
  <2>1. {t \in Threads : ctl[t] \notin {"new", "started"}} = {}
    BY DEF AppInit, Init
  <2> QED
    BY <2>1, FS_EmptySet DEF AppInit, StartsCounted, AllStarted
<1>2. TypeOK /\ MainInv /\ StartsCounted /\ [AppNext]_appVars => StartsCounted'
  BY StartsStep
<1>3. StartsCounted => AllStarted
  BY DEF StartsCounted
<1> QED
  BY <1>1, <1>2, <1>3, MainInvariant, PTL DEF AppSpec

\* No thread is released while another one runs or still has a task to push,
\* for any groups: what thread_center promises, of the whole process.
THEOREM ReleasedAfterAllJoined == AppSpec => []ReleasedAfterJoin
<1>1. ReleaseLast => ReleasedAfterJoin
  BY DEF ReleaseLast, ReleasedAfterJoin
<1> QED
  BY <1>1, AppImplementsThreads, NothingDroppedEarly, PTL
-----------------------------------------------------------------------------
\* The numbers of notifications are numbers.
LEMMA NoticeTypes ==
    ASSUME TypeOK, NEW u \in Threads
    PROVE  /\ sent[u]["r"] \in Nat /\ seen[u]["r"] \in Nat
           /\ sent[u]["s"] \in Nat /\ seen[u]["s"] \in Nat
           /\ reload_finished[u] \in BOOLEAN /\ stopping[u] \in BOOLEAN
           /\ pipe[u] \in Seq(Cmds) /\ pending[u] \in Seq(Cmds)
  BY DEF TypeOK, Cmds, Controls

\* A byte is read only if more were sent than read so far.
LEMMA ReadsSent ==
    ASSUME TypeOK, NoticesConserved, NEW u \in Threads, ReadCallback(u)
    PROVE  /\ pipe[u] # <<>> /\ Head(pipe[u]) \in Cmds /\ pipe[u] \in Seq(Cmds)
           /\ \A c \in Cmds : seen'[u][c] = IF c = Head(pipe[u]) THEN seen[u][c] + 1 ELSE seen[u][c]
           /\ seen[u][Head(pipe[u])] < sent[u][Head(pipe[u])]
           /\ UNCHANGED <<sent, pending>>
           /\ pipe'[u] = Tail(pipe[u])
           /\ \A v \in Threads \ {u} : /\ seen'[v] = seen[v] /\ reload_finished'[v] = reload_finished[v]
                                       /\ stopping'[v] = stopping[v] /\ pipe'[v] = pipe[v]
                                       /\ ctl'[v] = ctl[v]
           /\ reload_finished'[u] = IF Head(pipe[u]) = "r" THEN TRUE ELSE reload_finished[u]
           /\ stopping'[u] = IF Head(pipe[u]) = "s" THEN TRUE ELSE stopping[u]
           /\ ctl[u] = "loop" /\ (ctl'[u] = "exited" => Head(pipe[u]) = "e") /\ ctl'[u] # "released"
<1>1. pipe[u] # <<>> /\ pipe[u] \in Seq(Cmds) /\ ctl[u] = "loop"
  BY DEF ReadCallback, At, TypeOK
<1>2. Head(pipe[u]) \in Cmds /\ Tail(pipe[u]) \in Seq(Cmds)
  BY <1>1
<1> PICK c : c = Head(pipe[u])
  OBVIOUS
<1>3. seen[u][c] < sent[u][c]
  <2>1. sent[u][c] = seen[u][c] + Count(pipe[u], c) + Count(pending[u], c)
    BY <1>1, <1>2 DEF NoticesConserved
  <2>2. Count(pipe[u], c) = Count(Tail(pipe[u]), c) + 1
    BY <1>1, CountTail
  <2>3. Count(Tail(pipe[u]), c) \in Nat /\ Count(pending[u], c) \in Nat /\ seen[u][c] \in Nat
    BY <1>2, CountType DEF TypeOK
  <2> QED
    BY <2>1, <2>2, <2>3
<1>4. /\ \A d \in Cmds : seen'[u][d] = IF d = Head(pipe[u]) THEN seen[u][d] + 1 ELSE seen[u][d]
      /\ \A v \in Threads \ {u} : seen'[v] = seen[v] /\ pipe'[v] = pipe[v]
      /\ pipe'[u] = Tail(pipe[u]) /\ UNCHANGED <<sent, pending>>
  BY <1>2 DEF ReadCallback, Bump, Set, TypeOK
<1>5. /\ \A v \in Threads \ {u} : /\ reload_finished'[v] = reload_finished[v]
                                  /\ stopping'[v] = stopping[v] /\ ctl'[v] = ctl[v]
      /\ reload_finished'[u] = IF Head(pipe[u]) = "r" THEN TRUE ELSE reload_finished[u]
      /\ stopping'[u] = IF Head(pipe[u]) = "s" THEN TRUE ELSE stopping[u]
      /\ (ctl'[u] = "exited" => Head(pipe[u]) = "e") /\ ctl'[u] # "released"
  <2>1. CASE Head(pipe[u]) = "s" /\ OnStop(u)
    BY <1>1, <2>1, Zenon DEF OnStop, Set, TypeOK
  <2>2. CASE Head(pipe[u]) = "r" /\ OnReload(u)
    BY <1>1, <2>2, Zenon DEF OnReload, Set, TypeOK
  <2>3. CASE Head(pipe[u]) = "e" /\ OnExit(u)
    BY <1>1, <2>3, Zenon DEF OnExit, Set, TypeOK
  <2>4. CASE Head(pipe[u]) = "t" /\ OnTaskByte(u)
    BY <1>1, <2>4, Zenon DEF OnTaskByte, Set, TypeOK
  <2> QED
    BY <2>1, <2>2, <2>3, <2>4 DEF ReadCallback
<1> QED
  BY <1>1, <1>2, <1>3, <1>4, <1>5

\* What the threads' own steps, other than reading, do to the notifications:
\* they send bytes 't' only.
LEMMA OwnNotices ==
    ASSUME TypeOK, NEW t \in Threads, WorkLoop(t) \/ ThreadStep(t) \/ PushTaskToThread(t), ~ReadCallback(t)
    PROVE  /\ UNCHANGED <<seen, reload_finished, stopping>>
           /\ \A u \in Threads : sent'[u]["r"] = sent[u]["r"] /\ sent'[u]["s"] = sent[u]["s"]
<1>1. CASE PushTask(t)
  <2>1. Head(todo[t]) \in Threads /\ sent' = Bump(sent, Head(todo[t]), "t")
    BY <1>1 DEF PushTask, Write, TypeOK
  <2>2. \A u \in Threads : sent'[u]["r"] = sent[u]["r"] /\ sent'[u]["s"] = sent[u]["s"]
    <3>1. sent \in [Threads -> [Cmds -> Nat]] /\ "r" \in Cmds /\ "s" \in Cmds /\ "t" \in Cmds
      BY DEF Cmds, Controls, TypeOK
    <3>2. \A u \in Threads, d \in Cmds :
             sent'[u][d] = IF u = Head(todo[t]) /\ d = "t" THEN sent[u][d] + 1 ELSE sent[u][d]
      BY <2>1, <3>1, BumpType
    <3>3. "r" # "t" /\ "s" # "t"
      OBVIOUS
    <3> QED
      BY <3>1, <3>2, <3>3
  <2> QED
    BY <1>1, <2>2 DEF PushTask
<1>2. CASE ~PushTask(t)
  <2>1. UNCHANGED <<seen, reload_finished, stopping, sent>>
    BY <1>2 DEF WorkLoop, ThreadStep, PushTaskToThread, OnTask, TaskDone, LockForStop, Drain, StopDone,
             OnTimer, CheckRemoved, RemoveTimer, history
  <2> QED
    BY <2>1
<1> QED
  BY <1>1, <1>2

\* No thread has read more bytes 'r' than it was sent, released ones included.
LEMMA ReadWasSentStep ==
    ASSUME TypeOK, NoticesConserved, ReadWasSent, [Next]_vars
    PROVE  ReadWasSent'
<1> SUFFICES ASSUME NEW u \in Threads
             PROVE  seen'[u]["r"] <= sent'[u]["r"]
  BY DEF ReadWasSent
<1>0. /\ seen[u]["r"] <= sent[u]["r"] /\ "r" \in Cmds
      /\ sent[u]["r"] \in Nat /\ seen[u]["r"] \in Nat
  BY NoticeTypes DEF ReadWasSent, Cmds, Controls
<1>1. ASSUME NEW t \in Threads, WorkLoop(t) \/ ThreadStep(t) \/ PushTaskToThread(t)
      PROVE  seen'[u]["r"] <= sent'[u]["r"]
  <2>1. CASE ReadCallback(t)
    <3>1. CASE t = u
      <4>1. PICK c \in Cmds : c = Head(pipe[u])
        BY <2>1, <3>1, ReadsSent
      <4>2. /\ seen'[u]["r"] = IF "r" = c THEN seen[u]["r"] + 1 ELSE seen[u]["r"]
            /\ seen[u][c] < sent[u][c] /\ sent' = sent
        BY <1>0, <2>1, <3>1, <4>1, ReadsSent, Zenon
      <4> QED
        BY <1>0, <4>2
    <3>2. CASE t # u
      BY <1>0, <2>1, <3>2, ReadsSent
    <3> QED
      BY <3>1, <3>2
  <2>2. CASE ~ReadCallback(t)
    BY <1>0, <1>1, <2>2, OwnNotices
  <2> QED
    BY <2>1, <2>2
<1>2. ASSUME NEW t \in Threads, NEW c \in Cmds, Notify(t, c)
      PROVE  seen'[u]["r"] <= sent'[u]["r"]
  <2>1. seen' = seen /\ sent' = Bump(sent, t, c) /\ sent \in [Threads -> [Cmds -> Nat]]
    BY <1>2 DEF Notify, Write, TypeOK
  <2>2. sent'[u]["r"] = IF u = t /\ "r" = c THEN sent[u]["r"] + 1 ELSE sent[u]["r"]
    BY <1>0, <2>1, BumpType
  <2> QED
    BY <1>0, <2>1, <2>2
<1>3. ASSUME UNCHANGED <<seen, sent>>
      PROVE  seen'[u]["r"] <= sent'[u]["r"]
  BY <1>0, <1>3
<1>4. ASSUME NEW t \in Threads, Start(t) \/ SetReloadFinish(t) \/ Release(t)
      PROVE  UNCHANGED <<seen, sent>>
  BY <1>4 DEF Start, SetReloadFinish, Release, FreeThread, history
<1>5. ASSUME NEW t \in Threads, MainStep(t)
      PROVE  seen'[u]["r"] <= sent'[u]["r"]
  BY <1>2, <1>3, <1>4, <1>5 DEF MainStep, NotifyStop, NotifyReload, NotifyExit, Cmds, Controls
<1>6. CASE UNCHANGED vars
  BY <1>3, <1>6 DEF vars, history
<1> QED
  BY <1>1, <1>5, <1>6 DEF Next

\* A control byte is written by the main thread: only its number grows.
LEMMA NotifyEffect ==
    ASSUME TypeOK, NEW t \in Threads, NEW c \in Controls, Notify(t, c)
    PROVE  /\ UNCHANGED <<seen, reload_finished, stopping, ctl>>
           /\ \A u \in Threads : \A d \in {"r", "s"} :
                sent'[u][d] = IF u = t /\ d = c THEN sent[u][d] + 1 ELSE sent[u][d]
           /\ \A u \in Threads \ {t} : pipe'[u] = pipe[u] /\ pending'[u] = pending[u]
           /\ \/ pipe'[t] = Append(pipe[t], c) /\ pending'[t] = pending[t]
              \/ pipe'[t] = pipe[t] /\ pending'[t] = Append(pending[t], c)
<1>1. UNCHANGED <<seen, reload_finished, stopping, ctl>> /\ Write(t, c)
  BY DEF Notify
<1>2. sent' = Bump(sent, t, c) /\ sent \in [Threads -> [Cmds -> Nat]] /\ c \in Cmds
      /\ "r" \in Cmds /\ "s" \in Cmds
  BY <1>1 DEF Write, TypeOK, Cmds, Controls
<1>3. \A u \in Threads, d \in Cmds :
         sent'[u][d] = IF u = t /\ d = c THEN sent[u][d] + 1 ELSE sent[u][d]
  BY <1>2, BumpType
<1>4. /\ \A u \in Threads \ {t} : pipe'[u] = pipe[u] /\ pending'[u] = pending[u]
      /\ \/ pipe'[t] = Append(pipe[t], c) /\ pending'[t] = pending[t]
         \/ pipe'[t] = pipe[t] /\ pending'[t] = Append(pending[t], c)
  BY <1>1 DEF Write, Set, TypeOK
<1> QED
  BY <1>1, <1>2, <1>3, <1>4

\* ReloadsInTurn through every step of the process.
LEMMA ReloadsStep ==
    ASSUME TypeOK, MainInv, NoticesConserved, ReloadsInTurn, [AppNext]_appVars
    PROVE  ReloadsInTurn'
<1>0. global' = global
  BY DEF AppNext, MainCall, MainGoesOn, StartNext, NotifyGlobal, ReloadNext, StopNext, ExitNext, ReleaseNext,
         Called, Activated, GlobalReloaded, ReloadDone, StopNotified, OnExitCheck, JoinGroup, Finished,
         Goto, ReloadGlobal, ReloadWithoutGlobal, OnStopSignal, Worker, OnThreadStartOK, mainVars, appVars
<1> SUFFICES ASSUME global # NoThread
             PROVE  ReloadsInTurn'
  BY <1>0 DEF ReloadsInTurn
<1>1. PICK g \in Threads : g = global /\ Order # <<>> /\ Order[1] = g
  BY GroupFacts DEF MainInv, MainTypes
<1>2. /\ reloads \in Nat /\ left \in Seq(Threads) /\ sent[g]["r"] \in Nat /\ seen[g]["r"] \in Nat
      /\ \A u \in Threads : sent[u]["r"] \in Nat
      /\ \A i \in 1..Len(left) : left[i] \in Threads
  BY NoticeTypes DEF MainInv, MainTypes
<1>3. /\ reloads >= Rounds /\ Rounds >= 0
      /\ sent[g]["r"] = IF main = "reload_global" THEN reloads - 1 ELSE reloads
      /\ main # "wait_global" => seen[g]["r"] = sent[g]["r"]
      /\ main = "reload_global" => reload_finished[g] = FALSE
      /\ main = "wait_global" =>
           /\ seen[g]["r"] >= reloads - 1
           /\ reload_finished[g] = TRUE => seen[g]["r"] = sent[g]["r"]
      /\ \A t \in Threads \ {g} : sent[t]["r"] <= Rounds
      /\ main = "reload" =>
           \A i \in 1..Len(left) :
              /\ left[i] # g /\ sent[left[i]]["r"] < reloads
              /\ \A j \in 1..Len(left) : left[i] = left[j] => i = j
  BY <1>1, Zenon DEF ReloadsInTurn
<1>4. ASSUME /\ reloads' >= Rounds' /\ Rounds' >= 0
             /\ sent'[g]["r"] = IF main' = "reload_global" THEN reloads' - 1 ELSE reloads'
             /\ main' # "wait_global" => seen'[g]["r"] = sent'[g]["r"]
             /\ main' = "reload_global" => reload_finished'[g] = FALSE
             /\ main' = "wait_global" =>
                  /\ seen'[g]["r"] >= reloads' - 1
                  /\ reload_finished'[g] = TRUE => seen'[g]["r"] = sent'[g]["r"]
             /\ \A t \in Threads \ {g} : sent'[t]["r"] <= Rounds'
             /\ main' = "reload" =>
                  \A i \in 1..Len(left') :
                     /\ left'[i] # g /\ sent'[left'[i]]["r"] < reloads'
                     /\ \A j \in 1..Len(left') : left'[i] = left'[j] => i = j
      PROVE  ReloadsInTurn'
  BY <1>0, <1>1, <1>4, Zenon DEF ReloadsInTurn
\* Steps that keep the numbers of bytes 'r'.
<1>5. ASSUME UNCHANGED <<main, left, reloads>>, \A u \in Threads : sent'[u]["r"] = sent[u]["r"],
             seen'[g]["r"] = seen[g]["r"], reload_finished'[g] = reload_finished[g]
      PROVE  ReloadsInTurn'
  <2>1. Rounds' = Rounds
    BY <1>5 DEF Rounds
  <2> QED
    BY <1>2, <1>3, <1>4, <1>5, <2>1
\* The same, in a part of the work that has nothing to do with reloads.
<1>6. ASSUME reloads' = reloads, main \notin {"reload_global", "wait_global"},
             main' \notin {"reload", "reload_global", "wait_global"},
             \A u \in Threads : sent'[u]["r"] = sent[u]["r"], seen'[g]["r"] = seen[g]["r"]
      PROVE  ReloadsInTurn'
  <2>1. Rounds' = Rounds
    BY <1>6 DEF Rounds
  <2> QED
    BY <1>3, <1>4, <1>6, <2>1
<1>7. ASSUME NEW t \in Threads, Worker(t) \/ (PushTaskToThread(t) /\ UNCHANGED mainVars)
      PROVE  ReloadsInTurn'
  <2>1. UNCHANGED <<main, left, reloads>> /\ (WorkLoop(t) \/ ThreadStep(t) \/ PushTaskToThread(t))
    BY <1>7 DEF Worker, OnThreadStartOK, mainVars
  <2>2. CASE ~ReadCallback(t)
    BY <1>5, <2>1, <2>2, OwnNotices
  <2>3. CASE ReadCallback(t) /\ t # g
    BY <1>5, <2>1, <2>3, ReadsSent
  <2>4. CASE ReadCallback(t) /\ t = g
    <3>1. PICK c \in Cmds : c = Head(pipe[g])
      BY <2>4, ReadsSent
    <3>2. /\ seen'[g]["r"] = IF "r" = c THEN seen[g]["r"] + 1 ELSE seen[g]["r"]
          /\ seen[g][c] < sent[g][c] /\ sent' = sent
          /\ reload_finished'[g] = IF c = "r" THEN TRUE ELSE reload_finished[g]
      <4>1. "r" \in Cmds
        BY DEF Cmds, Controls
      <4> QED
        BY <2>4, <3>1, <4>1, ReadsSent, Zenon
    <3>3. CASE c # "r"
      BY <1>5, <2>1, <3>2, <3>3
    <3>4. CASE c = "r"
      <4>1. main = "wait_global" /\ seen[g]["r"] = reloads - 1 /\ sent[g]["r"] = reloads
        BY <1>2, <1>3, <3>2, <3>4
      <4>2. seen'[g]["r"] = reloads /\ main' = "wait_global" /\ reloads' = reloads /\ sent'[g]["r"] = reloads
        BY <1>2, <2>1, <3>2, <3>4, <4>1
      <4>3. Rounds' = Rounds
        BY <2>1 DEF Rounds
      <4>4. \A u \in Threads \ {g} : sent'[u]["r"] <= Rounds'
        BY <1>3, <3>2, <4>3
      <4>5. seen'[g]["r"] >= reloads' - 1 /\ reloads' >= Rounds' /\ Rounds' >= 0
        BY <1>2, <1>3, <4>2, <4>3
      <4> QED
        BY <1>4, <4>2, <4>4, <4>5
    <3> QED
      BY <3>3, <3>4
  <2> QED
    BY <2>2, <2>3, <2>4
<1>8. CASE NotifyGlobal
  <2>1. /\ main = "reload_global" /\ main' = "wait_global" /\ reloads' = reloads
        /\ Notify(g, "r")
    BY <1>1, <1>8 DEF NotifyGlobal, NotifyReload
  <2>2. /\ seen' = seen /\ sent'[g]["r"] = sent[g]["r"] + 1
        /\ \A u \in Threads \ {g} : sent'[u]["r"] = sent[u]["r"]
        /\ reload_finished' = reload_finished
    BY <2>1, NotifyEffect DEF Controls
  <2>3. Rounds' = reloads - 1 /\ Rounds = reloads - 1
    BY <2>1 DEF Rounds
  <2>4. \A u \in Threads \ {g} : sent'[u]["r"] <= Rounds'
    BY <1>3, <2>2, <2>3
  <2>5. /\ sent'[g]["r"] = reloads' /\ seen'[g]["r"] >= reloads' - 1
        /\ reloads' >= Rounds' /\ Rounds' >= 0
    BY <1>2, <1>3, <2>1, <2>2, <2>3
  <2>6. reload_finished'[g] # TRUE
    BY <1>3, <2>1, <2>2, Zenon
  <2> QED
    BY <1>4, <2>1, <2>4, <2>5, <2>6
<1>9. CASE ReloadGlobal
  <2>1. /\ main \in {"running", "polling"} /\ main' = "reload_global" /\ reloads' = reloads + 1
        /\ SetReloadFinish(g)
    BY <1>1, <1>9 DEF ReloadGlobal
  <2>2. seen' = seen /\ sent' = sent /\ reload_finished'[g] = FALSE
    BY <2>1 DEF SetReloadFinish, history, Set, TypeOK
  <2>3. Rounds' = reloads /\ Rounds = reloads
    BY <1>2, <2>1 DEF Rounds
  <2>4. \A u \in Threads \ {g} : sent'[u]["r"] <= Rounds'
    BY <1>3, <2>2, <2>3
  <2>5. /\ sent'[g]["r"] = reloads' - 1 /\ seen'[g]["r"] = sent'[g]["r"]
        /\ reloads' >= Rounds' /\ Rounds' >= 0
    BY <1>2, <1>3, <2>1, <2>2, <2>3
  <2> QED
    BY <1>4, <2>1, <2>2, <2>4, <2>5
<1>10. ASSUME left # <<>>
       PROVE  /\ Head(left) \in Threads /\ Head(left) = left[1] /\ 1 \in 1..Len(left)
              /\ \A i \in 1..Len(Tail(left)) : Tail(left)[i] = left[i + 1] /\ i + 1 \in 1..Len(left)
  BY <1>2, <1>10, RestOfSeq
<1>11. CASE ReloadNext
  <2>1. /\ main = "reload" /\ main' = main /\ left # <<>> /\ left' = Tail(left) /\ reloads' = reloads
        /\ Notify(Head(left), "r")
    BY <1>11 DEF ReloadNext, Called, NotifyReload
  <2>2. PICK h \in Threads : h = Head(left) /\ h = left[1] /\ 1 \in 1..Len(left)
    BY <1>10, <2>1
  <2>3. /\ seen' = seen /\ sent'[h]["r"] = sent[h]["r"] + 1
        /\ \A u \in Threads \ {h} : sent'[u]["r"] = sent[u]["r"]
        /\ reload_finished' = reload_finished
    BY <2>1, <2>2, NotifyEffect DEF Controls
  <2>4. h # g /\ sent[h]["r"] < reloads
    BY <1>3, <2>1, <2>2
  <2>5. Rounds' = reloads /\ Rounds = reloads
    BY <2>1 DEF Rounds
  <2>6. ASSUME NEW i \in 1..Len(left')
        PROVE  /\ left'[i] # g /\ sent'[left'[i]]["r"] < reloads
               /\ \A j \in 1..Len(left') : left'[i] = left'[j] => i = j
    <3>1. left'[i] = left[i + 1] /\ i + 1 \in 1..Len(left) /\ left[i + 1] \in Threads
      BY <1>2, <1>10, <2>1, <2>6
    <3>2. left[i + 1] # h /\ left[i + 1] # g /\ sent[left[i + 1]]["r"] < reloads
      <4>1. left[i + 1] = left[1] => i + 1 = 1
        BY <1>3, <2>1, <2>2, <3>1, Zenon
      <4>2. left[i + 1] # g /\ sent[left[i + 1]]["r"] < reloads
        BY <1>3, <2>1, <3>1, Zenon
      <4> QED
        BY <2>2, <2>6, <4>1, <4>2
    <3>3. ASSUME NEW j \in 1..Len(left'), left'[i] = left'[j]
          PROVE  i = j
      <4>1. left[i + 1] = left[j + 1] /\ j + 1 \in 1..Len(left)
        BY <1>10, <2>1, <3>1, <3>3
      <4>2. i + 1 = j + 1
        BY <1>3, <2>1, <3>1, <4>1, Zenon
      <4> QED
        BY <4>2
    <3> QED
      BY <2>3, <3>1, <3>2, <3>3
  <2>7. \A t \in Threads \ {g} : sent'[t]["r"] <= reloads
    BY <1>2, <1>3, <2>3, <2>4, <2>5
  <2> QED
    BY <1>2, <1>3, <1>4, <2>1, <2>3, <2>4, <2>5, <2>6, <2>7
<1>12. CASE StopNext \/ ExitNext
  <2>1. /\ main' = main /\ main \in {"stop", "exit"} /\ reloads' = reloads /\ left # <<>>
        /\ Notify(Head(left), "s") \/ Notify(Head(left), "e")
    BY <1>12 DEF StopNext, ExitNext, Called, NotifyStop, NotifyExit
  <2>2. seen' = seen /\ \A u \in Threads : sent'[u]["r"] = sent[u]["r"]
    BY <1>10, <2>1, NotifyEffect DEF Controls
  <2> QED
    BY <1>6, <2>1, <2>2
<1>13. CASE StartNext \/ ReleaseNext
  <2>1. main' = main /\ main \in {"activate", "release"} /\ reloads' = reloads /\ UNCHANGED <<seen, sent>>
    BY <1>13 DEF StartNext, ReleaseNext, Called, Start, FreeThread, history
  <2> QED
    BY <1>6, <2>1
<1>14. CASE GlobalReloaded
  <2>1. /\ main = "wait_global" /\ main' = "reload" /\ left' = Tail(Order) /\ reloads' = reloads
        /\ UNCHANGED <<seen, sent, reload_finished>> /\ reload_finished[g]
    BY <1>1, <1>14 DEF GlobalReloaded, Goto, vars, threadVars, history
  <2>2. reload_finished[g] = TRUE
    BY <2>1, NoticeTypes
  <2>3. Rounds' = reloads /\ Rounds = reloads - 1
    BY <2>1 DEF Rounds
  <2>4. Order \in Seq(Threads) /\ \A i, j \in 1..Len(Order) : Order[i] = Order[j] => i = j
    BY GroupFacts, Zenon
  <2>5. \A i \in 1..Len(Tail(Order)) : Tail(Order)[i] = Order[i + 1] /\ i + 1 \in 1..Len(Order) /\ 1 \in 1..Len(Order)
    BY <1>1, <2>4, RestOfSeq
  <2>6. ASSUME NEW i \in 1..Len(left')
        PROVE  /\ left'[i] # g /\ sent'[left'[i]]["r"] < reloads
               /\ \A j \in 1..Len(left') : left'[i] = left'[j] => i = j
    <3>1. left'[i] = Order[i + 1] /\ i + 1 \in 1..Len(Order) /\ 1 \in 1..Len(Order)
      BY <2>1, <2>5, <2>6
    <3>2. left'[i] \in Threads
      BY <2>4, <3>1
    <3>3. left'[i] # g
      <4>1. Order[i + 1] = Order[1] => i + 1 = 1
        BY <2>4, <3>1, Zenon
      <4> QED
        BY <1>1, <2>6, <3>1, <4>1
    <3>4. sent[left'[i]]["r"] < reloads
      BY <1>2, <1>3, <2>3, <3>2, <3>3
    <3>5. ASSUME NEW j \in 1..Len(left'), left'[i] = left'[j]
          PROVE  i = j
      <4>1. Order[i + 1] = Order[j + 1] /\ j + 1 \in 1..Len(Order)
        BY <2>1, <2>5, <3>1, <3>5
      <4>2. i + 1 = j + 1
        BY <2>4, <3>1, <4>1, Zenon
      <4> QED
        BY <4>2
    <3> QED
      BY <2>1, <3>3, <3>4, <3>5
  <2> QED
    BY <1>2, <1>3, <1>4, <2>1, <2>2, <2>3, <2>6
<1>15. CASE Activated \/ ReloadDone \/ StopNotified \/ OnExitCheck \/ JoinGroup \/ Finished \/ OnStopSignal
  <2>1. UNCHANGED <<seen, sent, reloads>>
    BY <1>15 DEF Activated, ReloadDone, StopNotified, OnExitCheck, JoinGroup, Finished, OnStopSignal,
                 Goto, vars, history
  <2>2. main \notin {"reload_global", "wait_global"} /\ main' \notin {"reload", "reload_global", "wait_global"}
    BY <1>15 DEF Activated, ReloadDone, StopNotified, OnExitCheck, JoinGroup, Finished, OnStopSignal,
                 Goto, Idle
  <2> QED
    BY <1>6, <2>1, <2>2
<1>16. ~ReloadWithoutGlobal
  BY DEF ReloadWithoutGlobal
<1>17. CASE UNCHANGED appVars
  <2>1. UNCHANGED <<main, left, reloads, seen, sent, reload_finished>>
    BY <1>17 DEF appVars, vars, threadVars, history, mainVars
  <2> QED
    BY <1>5, <2>1
<1> QED
  BY <1>7, <1>8, <1>9, <1>11, <1>12, <1>13, <1>14, <1>15, <1>16, <1>17 DEF AppNext, MainCall, MainGoesOn

\* The n-th reload reaches another thread only when the global thread has
\* finished its n-th, for any number of threads and reloads.
THEOREM GlobalFirst == AppSpec => []GlobalReloadsFirst
<1>1. AppInit => ReloadsInTurn /\ ReadWasSent
  <2> SUFFICES ASSUME AppInit PROVE ReloadsInTurn /\ ReadWasSent
    OBVIOUS
  <2>1. \A t \in Threads : sent[t]["r"] = 0 /\ seen[t]["r"] = 0
    BY DEF AppInit, Init, Cmds, Controls
  <2>2. global # NoThread => global \in Threads
    BY GroupFacts DEF AppInit
  <2>3. Rounds = 0 /\ main = "activate" /\ reloads = 0
    BY DEF AppInit, Rounds
  <2> QED
    BY <2>1, <2>2, <2>3 DEF ReloadsInTurn, ReadWasSent
<1>2. TypeOK /\ MainInv /\ NoticesConserved /\ ReloadsInTurn /\ ReadWasSent /\ [AppNext]_appVars
        => ReloadsInTurn' /\ ReadWasSent'
  BY ReloadsStep, ReadWasSentStep, MainStepKept
<1>3. TypeOK /\ MainInv /\ ReloadsInTurn /\ ReadWasSent => GlobalReloadsFirst
  <2> SUFFICES ASSUME TypeOK, MainInv, ReloadsInTurn, ReadWasSent, global # NoThread, NEW t \in Threads
               PROVE  seen[t]["r"] <= seen[global]["r"]
    BY DEF GlobalReloadsFirst
  <2>1. PICK g \in Threads : g = global
    BY GroupFacts DEF MainInv, MainTypes
  <2>2. /\ sent[t]["r"] \in Nat /\ seen[t]["r"] \in Nat /\ sent[g]["r"] \in Nat /\ seen[g]["r"] \in Nat
        /\ reloads \in Nat /\ seen[t]["r"] <= sent[t]["r"]
    BY NoticeTypes DEF MainInv, MainTypes, ReadWasSent
  <2>3. /\ sent[g]["r"] = IF main = "reload_global" THEN reloads - 1 ELSE reloads
        /\ main # "wait_global" => seen[g]["r"] = sent[g]["r"]
        /\ main = "wait_global" => seen[g]["r"] >= reloads - 1
        /\ t # g => sent[t]["r"] <= Rounds
    BY <2>1 DEF ReloadsInTurn
  <2>4. Rounds = IF main \in {"reload_global", "wait_global"} THEN reloads - 1 ELSE reloads
    BY DEF Rounds
  <2> QED
    BY <2>1, <2>2, <2>3, <2>4
<1> QED
  BY <1>1, <1>2, <1>3, MainInvariant, AppImplementsThreads, NoticesKept, PTL DEF AppSpec
-----------------------------------------------------------------------------
\* StopsSent through every step of the process.
LEMMA StopsSentStep ==
    ASSUME TypeOK, MainInv, StopsSent, [AppNext]_appVars
    PROVE  StopsSent'
<1>1. left \in Seq(Threads) /\ \A u \in Threads : sent[u]["s"] \in Nat
  BY NoticeTypes DEF MainInv, MainTypes
<1>2. ASSUME left # <<>>
      PROVE  /\ Head(left) \in Threads /\ Head(left) = left[1]
             /\ \A i \in 1..Len(left) : i # 1 => i - 1 \in 1..Len(Tail(left)) /\ Tail(left)[i - 1] = left[i]
  BY <1>1, <1>2
<1>3. ASSUME stop_called' = stop_called, \A u \in Threads : sent'[u]["s"] >= sent[u]["s"],
             sent' \in [Threads -> [Cmds -> Nat]],
             \/ UNCHANGED <<main, left>>
             \/ main # "stop" /\ (main' \in {"stop", "polling", "exit", "release", "done"} => stop_called = TRUE)
      PROVE  StopsSent'
  <2>1. \A u \in Threads : sent'[u]["s"] \in Nat
    BY <1>3 DEF Cmds, Controls
  <2>2. \A u \in Threads : sent[u]["s"] >= 1 => sent'[u]["s"] >= 1
    BY <1>1, <1>3, <2>1
  <2>3. CASE UNCHANGED <<main, left>>
    BY <1>3, <2>2, <2>3 DEF StopsSent
  <2>4. CASE main # "stop" /\ (main' \in {"stop", "polling", "exit", "release", "done"} => stop_called = TRUE)
    BY <1>3, <2>2, <2>4 DEF StopsSent
  <2> QED
    BY <1>3, <2>3, <2>4
<1>4. ASSUME NEW t \in Threads, NEW c \in Controls, Notify(t, c)
      PROVE  /\ \A u \in Threads : sent'[u]["s"] >= sent[u]["s"]
             /\ sent' \in [Threads -> [Cmds -> Nat]]
             /\ c = "s" => sent'[t]["s"] >= 1
  <2>1. sent' \in [Threads -> [Cmds -> Nat]]
    BY <1>4, BumpType DEF Notify, Write, TypeOK, Cmds
  <2>2. \A u \in Threads : sent'[u]["s"] = IF u = t /\ "s" = c THEN sent[u]["s"] + 1 ELSE sent[u]["s"]
    BY <1>4, NotifyEffect
  <2>3. \A u \in Threads : sent'[u]["s"] >= sent[u]["s"]
    BY <1>1, <2>2
  <2>4. c = "s" => sent'[t]["s"] >= 1
    BY <1>1, <2>2
  <2> QED
    BY <2>1, <2>3, <2>4, Zenon
<1>5. ASSUME sent' = sent
      PROVE  (\A u \in Threads : sent'[u]["s"] >= sent[u]["s"]) /\ sent' \in [Threads -> [Cmds -> Nat]]
  BY <1>1, <1>5 DEF TypeOK
<1>6. ASSUME NEW t \in Threads, Worker(t) \/ (PushTaskToThread(t) /\ UNCHANGED mainVars)
      PROVE  StopsSent'
  <2>1. UNCHANGED <<main, left, stop_called>> /\ (WorkLoop(t) \/ ThreadStep(t) \/ PushTaskToThread(t))
    BY <1>6 DEF Worker, OnThreadStartOK, mainVars
  <2>2. \A u \in Threads : sent'[u]["s"] = sent[u]["s"]
    <3>1. CASE ReadCallback(t)
      BY <3>1 DEF ReadCallback
    <3> QED
      BY <2>1, <3>1, OwnNotices
  <2> QED
    BY <2>1, <2>2 DEF StopsSent
<1>7. CASE NotifyGlobal
  <2>1. global \in Threads
    BY <1>7, GroupFacts DEF MainInv, MainTypes, NotifyGlobal
  <2>2. main = "reload_global" /\ main' = "wait_global" /\ Notify(global, "r") /\ stop_called' = stop_called
    BY <1>7 DEF NotifyGlobal, NotifyReload
  <2> QED
    BY <1>3, <1>4, <2>1, <2>2 DEF Controls
<1>8. CASE ReloadNext \/ ExitNext
  <2>1. /\ main' = main /\ main \in {"reload", "exit"} /\ stop_called' = stop_called /\ left # <<>>
        /\ Notify(Head(left), "r") \/ Notify(Head(left), "e")
    BY <1>8 DEF ReloadNext, ExitNext, NotifyReload, NotifyExit, Called
  <2>2. main' \in {"stop", "polling", "exit", "release", "done"} => stop_called = TRUE
    BY <2>1 DEF StopsSent
  <2> QED
    BY <1>2, <1>3, <1>4, <2>1, <2>2 DEF Controls
<1>9. CASE StopNext
  <2>1. /\ main = "stop" /\ main' = main /\ stop_called' = stop_called /\ left # <<>>
        /\ left' = Tail(left) /\ Notify(Head(left), "s")
    BY <1>9 DEF StopNext, NotifyStop, Called
  <2>2. ASSUME NEW u \in Threads, stop_called = TRUE
        PROVE  sent'[u]["s"] >= 1 \/ \E i \in 1..Len(left') : left'[i] = u
    <3>1. CASE u = Head(left)
      BY <1>2, <1>4, <2>1, <3>1 DEF Controls
    <3>2. CASE sent[u]["s"] >= 1
      <4>1. sent'[u]["s"] >= sent[u]["s"] /\ sent' \in [Threads -> [Cmds -> Nat]]
        BY <1>2, <1>4, <2>1 DEF Controls
      <4>2. sent'[u]["s"] \in Nat
        BY <4>1 DEF Cmds, Controls
      <4> QED
        BY <1>1, <3>2, <4>1, <4>2
    <3>3. ASSUME NEW i \in 1..Len(left), left[i] = u, u # Head(left)
          PROVE  \E k \in 1..Len(left') : left'[k] = u
      <4>1. i # 1 /\ i - 1 \in 1..Len(left') /\ left'[i - 1] = u
        BY <1>2, <2>1, <3>3
      <4> QED
        BY <4>1
    <3> QED
      BY <2>1, <2>2, <3>1, <3>2, <3>3 DEF StopsSent
  <2> QED
    BY <2>1, <2>2 DEF StopsSent
<1>10. CASE StartNext \/ ReleaseNext \/ ReloadGlobal
  <2>1. /\ stop_called' = stop_called /\ sent' = sent
        /\ main \in {"activate", "release", "running", "polling"} /\ main' \in {"activate", "release", "reload_global"}
        /\ main' = "release" => main = "release"
    BY <1>10 DEF StartNext, ReleaseNext, ReloadGlobal, Called, Start, FreeThread, SetReloadFinish, history
  <2>2. main' \in {"stop", "polling", "exit", "release", "done"} => stop_called = TRUE
    BY <2>1 DEF StopsSent
  <2> QED
    BY <1>3, <1>5, <2>1, <2>2
<1>11. CASE Activated \/ GlobalReloaded \/ ReloadDone \/ OnExitCheck \/ JoinGroup \/ Finished \/ ReloadWithoutGlobal
  <2>1. stop_called' = stop_called /\ sent' = sent /\ main # "stop"
    BY <1>11 DEF Activated, GlobalReloaded, ReloadDone, OnExitCheck, JoinGroup, Finished,
                 ReloadWithoutGlobal, Goto, vars, history
  <2>2. \/ main' \in {"running", "reload"}
        \/ main' = "polling" /\ stop_called
        \/ main \in {"polling", "exit", "release"}
    BY <1>11 DEF Activated, GlobalReloaded, ReloadDone, OnExitCheck, JoinGroup, Finished,
                 ReloadWithoutGlobal, Goto, Idle
  <2>3. main' \in {"stop", "polling", "exit", "release", "done"} => stop_called = TRUE
    <3>1. CASE main \in {"polling", "exit", "release"}
      BY <3>1 DEF StopsSent
    <3>2. CASE main' = "polling" /\ stop_called
      BY <3>2, Zenon
    <3> QED
      BY <2>2, <3>1, <3>2
  <2> QED
    BY <1>3, <1>5, <2>1, <2>3
<1>12. CASE StopNotified
  <2>1. /\ main = "stop" /\ left = <<>> /\ stop_called' = stop_called /\ sent' = sent
        /\ main' \in {"running", "polling"}
    BY <1>12 DEF StopNotified, Goto, Idle, vars, history
  <2>2. stop_called = TRUE /\ \A i \in 1..Len(left) : FALSE
    BY <2>1 DEF StopsSent
  <2>3. \A u \in Threads : sent[u]["s"] >= 1
    BY <2>2 DEF StopsSent
  <2> QED
    BY <2>1, <2>2, <2>3 DEF StopsSent
<1>13. CASE OnStopSignal
  <2>1. main' = "stop" /\ stop_called' = TRUE /\ left' = Order
    BY <1>13 DEF OnStopSignal, Goto
  <2>2. \A u \in Threads : \E i \in 1..Len(Order) : Order[i] = u
    BY GroupFacts, Zenon
  <2> QED
    BY <2>1, <2>2 DEF StopsSent
<1>14. CASE UNCHANGED appVars
  BY <1>14 DEF StopsSent, appVars, vars, history, mainVars
<1> QED
  BY <1>6, <1>7, <1>8, <1>9, <1>10, <1>11, <1>12, <1>13, <1>14 DEF AppNext, MainCall, MainGoesOn

\* A byte written behind keeps 's' ahead of 'e': any other than 'e', and 'e'
\* itself when 's' is in the pipe.
LEMMA StopAheadAppend ==
    ASSUME NEW s \in Seq(Cmds), StopAhead(s), NEW c \in Cmds,
           c # "e" \/ \E j \in 1..Len(s) : s[j] = "s"
    PROVE  StopAhead(Append(s, c))
<1> SUFFICES ASSUME NEW i \in 1..Len(Append(s, c)), Append(s, c)[i] = "e"
             PROVE  \E j \in 1..(i - 1) : Append(s, c)[j] = "s"
  BY DEF StopAhead
<1>1. Len(s) \in Nat /\ Len(Append(s, c)) = Len(s) + 1 /\ Append(s, c)[Len(s) + 1] = c
      /\ \A k \in 1..Len(s) : Append(s, c)[k] = s[k]
  OBVIOUS
<1>2. CASE i \in 1..Len(s)
  <2>1. PICK j \in 1..(i - 1) : s[j] = "s"
    BY <1>1, <1>2 DEF StopAhead
  <2>2. j \in 1..Len(s)
    BY <1>1, <1>2
  <2> QED
    BY <1>1, <2>1, <2>2
<1>3. CASE i = Len(s) + 1
  <2>1. PICK j \in 1..Len(s) : s[j] = "s"
    BY <1>1, <1>3
  <2> QED
    BY <1>1, <1>3, <2>1
<1> QED
  BY <1>1, <1>2, <1>3

\* A thread that reads a byte other than 's' reads no 'e', and 's' stays ahead.
LEMMA StopAheadTail ==
    ASSUME NEW s \in Seq(Cmds), s # <<>>, StopAhead(s), Head(s) # "s"
    PROVE  Head(s) # "e" /\ StopAhead(Tail(s))
<1>1. /\ Len(s) \in Nat /\ Len(s) >= 1 /\ Head(s) = s[1] /\ Len(Tail(s)) = Len(s) - 1
      /\ \A k \in 1..Len(Tail(s)) : Tail(s)[k] = s[k + 1]
  OBVIOUS
<1>2. s[1] # "e"
  <2>1. 1 \in 1..Len(s) /\ 1..(1 - 1) = {}
    BY <1>1
  <2> QED
    BY <2>1 DEF StopAhead
<1>3. ASSUME NEW i \in 1..Len(Tail(s)), Tail(s)[i] = "e"
      PROVE  \E j \in 1..(i - 1) : Tail(s)[j] = "s"
  <2>1. i + 1 \in 1..Len(s) /\ s[i + 1] = "e"
    BY <1>1, <1>3
  <2>2. PICK j \in 1..((i + 1) - 1) : s[j] = "s"
    BY <2>1 DEF StopAhead
  <2>3. j # 1
    BY <1>1, <2>2
  <2>4. j - 1 \in 1..(i - 1) /\ j - 1 \in 1..Len(Tail(s)) /\ (j - 1) + 1 = j
    BY <1>1, <2>3
  <2> QED
    BY <1>1, <2>2, <2>4
<1> QED
  BY <1>1, <1>2, <1>3 DEF StopAhead

\* What the threads' own steps, other than reading, do to a pipe that has room.
LEMMA OwnPipes ==
    ASSUME TypeOK, NothingPending, NothingPending', NEW t \in Threads,
           WorkLoop(t) \/ ThreadStep(t) \/ PushTaskToThread(t), ~ReadCallback(t), NEW u \in Threads
    PROVE  /\ pipe'[u] = pipe[u] \/ pipe'[u] = Append(pipe[u], "t")
           /\ ctl'[u] \in {"exited", "released"} => ctl[u] \in {"exited", "released"}
<1>1. CASE PushTask(t)
  <2>1. Write(Head(todo[t]), "t") /\ Head(todo[t]) \in Threads /\ ctl' = ctl
    BY <1>1 DEF PushTask, TypeOK
  <2>2. pipe'[u] = pipe[u] \/ pipe'[u] = Append(pipe[u], "t")
    BY <2>1 DEF Write, Set, TypeOK
  <2> QED
    BY <2>1, <2>2
<1>2. CASE OnTimer(t)
  <2>1. pending[t] = <<>>
    BY DEF NothingPending
  <2> QED
    BY <1>2, <2>1 DEF OnTimer, Set, TypeOK
<1>3. CASE ~PushTask(t) /\ ~OnTimer(t)
  <2>1. pipe' = pipe
    BY <1>3 DEF WorkLoop, ThreadStep, PushTaskToThread, OnTask, TaskDone, LockForStop, Drain, StopDone,
             CheckRemoved, RemoveTimer
  <2>2. ctl'[u] \in {"exited", "released"} => ctl[u] \in {"exited", "released"}
    BY <1>3 DEF WorkLoop, ThreadStep, PushTaskToThread, OnTask, TaskDone, LockForStop, Drain, StopDone,
             CheckRemoved, RemoveTimer, Set, TypeOK
  <2> QED
    BY <2>1, <2>2
<1> QED
  BY <1>1, <1>2, <1>3

\* StopsFirst through every step, as long as no pipe is full.
LEMMA StopsFirstStep ==
    ASSUME TypeOK, MainInv, NoticesConserved, StopsSent, StopsFirst, NothingPending, NothingPending',
           [AppNext]_appVars
    PROVE  StopsFirst'
<1> SUFFICES ASSUME NEW u \in Threads
             PROVE  /\ seen'[u]["s"] >= 1 => stopping'[u] = TRUE
                    /\ ctl'[u] \in {"exited", "released"} => stopping'[u] = TRUE
                    /\ stopping'[u] = TRUE \/ StopAhead(pipe[u])'
  BY DEF StopsFirst
<1> DEFINE Goal == /\ seen'[u]["s"] >= 1 => stopping'[u] = TRUE
                   /\ ctl'[u] \in {"exited", "released"} => stopping'[u] = TRUE
                   /\ stopping'[u] = TRUE \/ StopAhead(pipe[u])'
<1>1. /\ seen[u]["s"] >= 1 => stopping[u] = TRUE
      /\ ctl[u] \in {"exited", "released"} => stopping[u] = TRUE
      /\ stopping[u] = TRUE \/ StopAhead(pipe[u])
  BY DEF StopsFirst
<1>2. pipe[u] \in Seq(Cmds) /\ left \in Seq(Threads)
  BY NoticeTypes DEF MainInv, MainTypes
<1>3. ASSUME seen'[u]["s"] = seen[u]["s"], stopping'[u] = stopping[u],
             ctl'[u] \in {"exited", "released"} => ctl[u] \in {"exited", "released"},
             stopping[u] = TRUE \/ StopAhead(pipe'[u])
      PROVE  Goal
  <2>1. StopAhead(pipe[u])' <=> StopAhead(pipe'[u])
    BY DEF StopAhead
  <2> QED
    BY <1>1, <1>3, <2>1
<1>4. ASSUME NEW t \in Threads, Worker(t) \/ (PushTaskToThread(t) /\ UNCHANGED mainVars)
      PROVE  Goal
  <2>1. WorkLoop(t) \/ ThreadStep(t) \/ PushTaskToThread(t)
    BY <1>4 DEF Worker, OnThreadStartOK
  <2>2. CASE ~ReadCallback(t)
    <3>1. /\ UNCHANGED <<seen, stopping>>
          /\ pipe'[u] = pipe[u] \/ pipe'[u] = Append(pipe[u], "t")
          /\ ctl'[u] \in {"exited", "released"} => ctl[u] \in {"exited", "released"}
      BY <2>1, <2>2, OwnNotices, OwnPipes
    <3>2. StopAhead(pipe[u]) => StopAhead(Append(pipe[u], "t"))
      BY <1>2, StopAheadAppend DEF Cmds
    <3>3. stopping[u] = TRUE \/ StopAhead(pipe'[u])
      BY <1>1, <3>1, <3>2
    <3> QED
      BY <1>3, <3>1, <3>3
  <2>3. CASE ReadCallback(t) /\ t # u
    <3>1. ReadCallback(t) /\ u \in Threads \ {t}
      BY <2>3
    <3>2. \A v \in Threads \ {t} : /\ seen'[v] = seen[v] /\ reload_finished'[v] = reload_finished[v]
                                  /\ stopping'[v] = stopping[v] /\ pipe'[v] = pipe[v]
                                  /\ ctl'[v] = ctl[v]
      BY <3>1, ReadsSent, Zenon
    <3>3. seen'[u] = seen[u] /\ stopping'[u] = stopping[u] /\ pipe'[u] = pipe[u] /\ ctl'[u] = ctl[u]
      BY <3>1, <3>2, Zenon
    <3> QED
      BY <1>1, <1>3, <3>3
  <2>4. CASE ReadCallback(t) /\ t = u
    <3>1. PICK c \in Cmds : c = Head(pipe[u])
      BY <2>4, ReadsSent
    <3>2. /\ seen'[u]["s"] = IF "s" = c THEN seen[u]["s"] + 1 ELSE seen[u]["s"]
          /\ pipe[u] # <<>> /\ pipe'[u] = Tail(pipe[u])
          /\ stopping'[u] = IF c = "s" THEN TRUE ELSE stopping[u]
          /\ ctl'[u] = "exited" => c = "e"
          /\ ctl'[u] # "released"
      <4>1. "s" \in Cmds
        BY DEF Cmds, Controls
      <4> QED
        BY <2>4, <3>1, <4>1, ReadsSent, Zenon
    <3>3. CASE c = "s"
      BY <3>2, <3>3
    <3>4. CASE c # "s"
      <4>1. StopAhead(pipe[u]) => c # "e" /\ StopAhead(Tail(pipe[u]))
        BY <1>2, <3>1, <3>2, <3>4, StopAheadTail
      <4>2. seen'[u]["s"] = seen[u]["s"] /\ stopping'[u] = stopping[u]
        BY <3>2, <3>4
      <4>3. CASE stopping[u] = TRUE
        BY <4>2, <4>3
      <4>4. CASE stopping[u] # TRUE
        <5>1. StopAhead(pipe'[u]) /\ c # "e"
          BY <1>1, <3>2, <4>1, <4>4
        <5>2. ctl'[u] \notin {"exited", "released"}
          BY <3>2, <5>1
        <5> QED
          BY <1>3, <4>2, <5>1, <5>2
      <4> QED
        BY <4>3, <4>4
    <3> QED
      BY <3>3, <3>4
  <2> QED
    BY <2>2, <2>3, <2>4
<1>5. ASSUME NEW t \in Threads, NEW c \in Controls, Notify(t, c),
             t = u /\ c = "e" => sent[u]["s"] >= 1 /\ ctl[u] # "released"
      PROVE  Goal
  <2>1. /\ UNCHANGED <<seen, stopping, ctl>>
        /\ u # t => pipe'[u] = pipe[u]
        /\ u = t => \/ pipe'[u] = Append(pipe[u], c)
                    \/ pipe'[u] = pipe[u]
    BY <1>5, NotifyEffect
  <2>2. ASSUME u = t, stopping[u] # TRUE
        PROVE  StopAhead(Append(pipe[u], c))
    <3>1. StopAhead(pipe[u]) /\ c \in Cmds
      BY <1>1, <2>2 DEF Cmds
    <3>2. CASE c # "e"
      BY <1>2, <3>1, <3>2, StopAheadAppend
    <3>3. CASE c = "e"
      <4>1. "s" \in Cmds /\ sent[u]["s"] = seen[u]["s"] + Count(pipe[u], "s") + Count(pending[u], "s")
        BY <1>5, <2>2, <3>3 DEF NoticesConserved, Cmds, Controls
      <4>2. Count(pending[u], "s") = 0
        BY CountEmpty DEF NothingPending
      <4>3. seen[u]["s"] \in Nat /\ ~(seen[u]["s"] >= 1) /\ Count(pipe[u], "s") \in Nat
        BY <1>1, <1>2, <2>2, NoticeTypes, CountType
      <4>4. Count(pipe[u], "s") # 0
        BY <1>5, <2>2, <3>3, <4>1, <4>2, <4>3
      <4>5. {i \in 1..Len(pipe[u]) : pipe[u][i] = "s"} # {}
        BY <4>4, FS_EmptySet DEF Count
      <4>6. \E j \in 1..Len(pipe[u]) : pipe[u][j] = "s"
        BY <4>5
      <4> QED
        BY <1>2, <3>1, <4>6, StopAheadAppend
    <3> QED
      BY <3>2, <3>3
  <2>3. stopping[u] = TRUE \/ StopAhead(pipe'[u])
    BY <1>1, <2>1, <2>2
  <2> QED
    BY <1>3, <2>1, <2>3
<1>6. ASSUME UNCHANGED <<seen, stopping, ctl, pipe>>
      PROVE  Goal
  BY <1>1, <1>3, <1>6
<1>7. ASSUME left # <<>>
      PROVE  /\ Head(left) \in Threads
             /\ main = "release" => ctl[Head(left)] = "exited"
  <2>1. Head(left) \in Threads /\ Head(left) = left[1] /\ 1 \in 1..Len(left)
    BY <1>2, <1>7
  <2> QED
    BY <2>1 DEF MainInv, ReleasesLast
<1>8. CASE NotifyGlobal
  <2>1. global \in Threads /\ Notify(global, "r")
    BY <1>8, GroupFacts DEF MainInv, MainTypes, NotifyGlobal, NotifyReload
  <2> QED
    BY <1>5, <2>1 DEF Controls
<1>9. CASE ReloadNext \/ StopNext
  <2>1. Head(left) \in Threads /\ (Notify(Head(left), "r") \/ Notify(Head(left), "s"))
    BY <1>7, <1>9 DEF ReloadNext, StopNext, NotifyReload, NotifyStop
  <2> QED
    BY <1>5, <2>1 DEF Controls
<1>10. CASE ExitNext
  <2>1. Head(left) \in Threads /\ Notify(Head(left), "e") /\ main = "exit"
    BY <1>7, <1>10 DEF ExitNext, NotifyExit
  <2>2. sent[u]["s"] >= 1 /\ ctl[u] # "released"
    BY <2>1 DEF StopsSent, MainInv, ReleasesLast
  <2> QED
    BY <1>5, <2>1, <2>2 DEF Controls
<1>11. CASE StartNext
  <2>1. Head(left) \in Threads /\ Start(Head(left))
    BY <1>7, <1>11 DEF StartNext
  <2>2. UNCHANGED <<seen, stopping, pipe>>
        /\ (ctl'[u] \in {"exited", "released"} => ctl[u] \in {"exited", "released"})
    BY <2>1 DEF Start, Set, TypeOK, history
  <2> QED
    BY <1>1, <1>3, <2>2
<1>12. CASE ReleaseNext
  <2>1. Head(left) \in Threads /\ FreeThread(Head(left)) /\ ctl[Head(left)] = "exited"
    BY <1>7, <1>12 DEF ReleaseNext
  <2>2. UNCHANGED <<seen, stopping>>
        /\ (ctl'[u] \in {"exited", "released"} => ctl[u] \in {"exited", "released"})
        /\ (pipe'[u] = pipe[u] \/ pipe'[u] = <<>>)
    BY <2>1 DEF FreeThread, Set, TypeOK
  <2>3. StopAhead(<<>>)
    BY DEF StopAhead
  <2>4. stopping[u] = TRUE \/ StopAhead(pipe'[u])
    BY <1>1, <2>2, <2>3
  <2> QED
    BY <1>3, <2>2, <2>4
<1>13. CASE ReloadGlobal \/ MainGoesOn \/ ReloadWithoutGlobal \/ OnStopSignal \/ UNCHANGED appVars
  <2>1. UNCHANGED <<seen, stopping, ctl, pipe>>
    BY <1>13 DEF ReloadGlobal, SetReloadFinish, MainGoesOn, Activated, GlobalReloaded, ReloadDone, StopNotified,
           OnExitCheck, JoinGroup, Finished, ReloadWithoutGlobal, OnStopSignal, Goto, appVars, vars,
           threadVars, history
  <2> QED
    BY <1>6, <2>1
<1> QED
  BY <1>4, <1>8, <1>9, <1>10, <1>11, <1>12, <1>13 DEF AppNext, MainCall

\* While no pipe is full, a thread leaves its loop only after its OnStop,
\* although CanExit is asked before the stop byte may have been read.
THEOREM StopsBeforeExits == AppSpec /\ []NothingPending => []StoppedBeforeExit
<1>1. AppInit => StopsSent /\ StopsFirst
  <2> SUFFICES ASSUME AppInit PROVE StopsSent /\ StopsFirst
    OBVIOUS
  <2>1. StopsSent
    BY DEF AppInit, StopsSent
  <2>2. ASSUME NEW t \in Threads
        PROVE  /\ ~(seen[t]["s"] >= 1) /\ ctl[t] = "new" /\ StopAhead(pipe[t])
    <3>1. seen[t]["s"] = 0 /\ ctl[t] = "new" /\ pipe[t] = <<>>
      BY DEF AppInit, Init, Cmds, Controls
    <3> QED
      BY <3>1 DEF StopAhead
  <2> QED
    BY <2>1, <2>2 DEF StopsFirst
<1>2. TypeOK /\ MainInv /\ NoticesConserved /\ StopsSent /\ StopsFirst /\ NothingPending /\ NothingPending'
        /\ [AppNext]_appVars => StopsSent' /\ StopsFirst'
  BY StopsSentStep, StopsFirstStep
<1>3. StopsFirst => StoppedBeforeExit
  BY DEF StopsFirst, StoppedBeforeExit
<1> QED
  BY <1>1, <1>2, <1>3, MainInvariant, AppImplementsThreads, NoticesKept, PTL DEF AppSpec

\* The life of the process is in order, for any groups, numbers of threads,
\* tasks and reloads, as long as no pipe is full: nothing before all threads
\* have started, the global thread's reload before the others', each thread's
\* stop before its exit, and every thread's end before the first release.
THEOREM LifeKeepsOrder == AppSpec /\ []NothingPending => []LifeInOrder
<1>1. AllStarted /\ GlobalReloadsFirst /\ StoppedBeforeExit /\ ReleasedAfterJoin => LifeInOrder
  BY DEF LifeInOrder
<1> QED
  BY <1>1, StartsFirst, GlobalFirst, StopsBeforeExits, ReleasedAfterAllJoined, PTL

\* What is proved of the threads under any use holds of the process: no
\* notification and no task is lost, whatever the main thread does.
THEOREM ThreadsKeepPromises ==
    AppSpec => [](NoticesConserved /\ NoLostWakeup /\ TasksConserved /\ DrainedAtOnStop)
  BY AppImplementsThreads, NoticesKept, WakeupsKept, TasksKept, StopDrains, PTL
=============================================================================
