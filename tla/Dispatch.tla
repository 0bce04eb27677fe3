------------------------------ MODULE Dispatch ------------------------------
(***************************************************************************)
(* The schedulers, through which the logics of one thread reach the other  *)
(* threads and the clients' connections once AppFrame::Initialize has      *)
(* related the groups.  work::Scheduler serves the work group and, behind  *)
(* narrower interfaces, the global and the burden group; tcp::Scheduler    *)
(* serves the three io groups.  A connection is named by its ConnGUID: io  *)
(* type, thread index and an id that every io thread counts for itself.    *)
(* A logic may call at any time, with any guid it has been told of.        *)
(***************************************************************************)
EXTENDS AppConf, Sequences

CONSTANTS
    Busy,        \* the configurations whose threads are followed further
    Starters,    \* the kinds of threads whose logics also call without a guid
    ConnIDs,     \* the ids of a thread's connections
    Seeds,       \* what rand() returns
    MaxSends,    \* bound: calls that send to threads
    MaxReplies,  \* bound: calls that send to or close clients
    Careful      \* logics broadcast to configured groups only, and io logics
                 \* answer connections of their own group only

ASSUME DispatchAssumption ==
    /\ Busy \subseteq Confs /\ Starters \subseteq Kinds /\ Seeds \subseteq Nat /\ Seeds # {}
    /\ MaxSends \in Nat /\ MaxReplies \in Nat /\ Careful \in BOOLEAN

VARIABLES
    last,      \* last[t][k]: t's last_k_thread_idx_
    tasks,     \* tasks[t]: the tasks queued for t
    conn,      \* conn[t][c]: connection c of io thread t
    known,     \* known[t]: the guids t's logics have been told of
    sends,     \* calls that sent to threads
    replies,   \* calls that sent to or closed clients
    spread,    \* spread[t][k][i]: tasks t's scheduler chose thread i of k for
    unplaced,  \* calls to a configured group that reached no thread of it
    accepted,  \* the answers to clients whose call returned 0
    got        \* what was written to connections, in order

dispatchVars == <<last, tasks, conn, known, sends, replies, spread, unplaced, accepted, got>>

NoGUID == [io |-> "max", idx |-> -1, id |-> 0]
Nobody == <<"client", 0>>

Indices(k) == 0 .. created[k] - 1
Threads == UNION {{<<k, i>> : i \in Indices(k)} : k \in Kinds}
Home(g) == <<g.io, g.idx>>
GUID(t, c) == [io |-> t[1], idx |-> t[2], id |-> c]

DispatchInit ==
    /\ ConfInit
    /\ last = <<>> /\ tasks = <<>> /\ conn = <<>> /\ known = <<>> /\ spread = <<>>
    /\ sends = 0 /\ replies = 0 /\ unplaced = 0 /\ accepted = {} /\ got = <<>>

-----------------------------------------------------------------------------
\* The groups a scheduler has pointers to: those SetThreadsRelationship gave
\* it, and an io thread's own.
Groups(k) == related[k] \cup ({k} \cap IOs)

\* The groups the schedulers' interfaces have operations for.
WorkOffers == Kinds

GlobalOffers == Kinds \ {"global"}

BurdenOffers == {"global", "burden"}

IOOffers(k) == {"global", "work", k}

Offered(k) ==
    CASE k = "work" -> WorkOffers
      [] k = "global" -> GlobalOffers
      [] k = "burden" -> BurdenOffers
      [] k \in IOs -> IOOffers(k)

\* The groups among whose threads t's scheduler has a choice.
Rounds(t) == {k \in Groups(t[1])' : created[k] > 1}

\* SetRelatedThreadGroups of all schedulers, at the end of Initialize: each
\* starts its rounds at a random thread of every group.
SeedSchedulers ==
    /\ SetThreadsRelationship
    /\ \/ /\ conf \in Busy /\ phase' = "ready"
          /\ \E rand \in [UNION {{t} \X Rounds(t) : t \in Threads} -> Seeds] :
                last' = [t \in Threads |-> [k \in Kinds |->
                            IF k \in Rounds(t) THEN rand[<<t, k>>] % created[k] ELSE 0]]
          /\ tasks' = [t \in Threads |-> <<>>]
          /\ conn' = [t \in Threads |->
                        [c \in ConnIDs |-> [st |-> "none", from |-> Nobody, n |-> 0]]]
          /\ known' = [t \in Threads |-> IF t[1] \in Starters THEN {NoGUID} ELSE {}]
          /\ spread' = [t \in Threads |-> [k \in Kinds |-> [i \in Indices(k) |-> 0]]]
          /\ UNCHANGED <<sends, replies, unplaced, accepted, got>>
       \/ ~(conf \in Busy /\ phase' = "ready") /\ UNCHANGED dispatchVars

\* Only threads of a busy configuration have queues.
Running(t) == phase = "ready" /\ t \in DOMAIN tasks

\* Thread::PushTask; how the queue is read is the subject of ThreadCenter.
Push(t, type, g, from, n) ==
    tasks' = [tasks EXCEPT ![t] = Append(@, [type |-> type, guid |-> g, from |-> from, n |-> n])]

-----------------------------------------------------------------------------
\* GetSchedule..ThreadIdx: the thread after the one chosen last.
Round(t, k) == (last[t][k] + 1) % created[k]

\* SendToThread: an index outside the group leaves the choice to the
\* scheduler, which takes the threads in turn.  A call for a group that is
\* not configured returns -1 and changes nothing.
SendToThread(t, k, idx, g) ==
    LET chosen == idx \notin Indices(k)
        real == IF k = "global" THEN 0 ELSE IF chosen THEN last[t][k] ELSE idx
    IN  /\ Running(t) /\ sends < MaxSends /\ g \in known[t]
        /\ k \in Offered(t[1]) /\ created[k] > 0
        /\ k = "global" => idx = 0
        /\ sends' = sends + 1
        /\ IF k \in Groups(t[1]) /\ real \in Indices(k)
           THEN /\ Push(<<k, real>>, "normal", g, t, 0)
                /\ spread' = IF chosen THEN [spread EXCEPT ![t][k][real] = @ + 1] ELSE spread
                /\ UNCHANGED unplaced
           ELSE unplaced' = unplaced + 1 /\ UNCHANGED <<tasks, spread>>
        /\ last' = IF chosen /\ k \in Groups(t[1]) /\ k # "global"
                   THEN [last EXCEPT ![t][k] = Round(t, k)] ELSE last
        /\ UNCHANGED <<conf, phase, threads_count, loaded, created, related,
                       conn, known, replies, accepted, got>>

\* global::Scheduler with index -1: one task for every thread of the group,
\* whose pointer it follows unchecked.
Broadcast(t, k, g) ==
    /\ Running(t) /\ t[1] = "global" /\ sends < MaxSends /\ g \in known[t]
    /\ k \in GlobalOffers
    /\ Careful => created[k] > 0
    /\ sends' = sends + 1
    /\ IF k \in Groups("global")
       THEN /\ tasks' = [u \in DOMAIN tasks |->
                IF u[1] = k THEN Append(tasks[u], [type |-> "normal", guid |-> g, from |-> t, n |-> 0])
                ELSE tasks[u]]
            /\ UNCHANGED phase
       ELSE phase' = "crashed" /\ UNCHANGED tasks
    /\ UNCHANGED <<conf, threads_count, loaded, created, related,
                   last, conn, known, replies, spread, unplaced, accepted, got>>

-----------------------------------------------------------------------------
\* conn->Send of connection c of the running thread t; the writing itself is
\* the subject of ProtoStream.
Write(t, c, g, from, n) ==
    got' = Append(got, [conn |-> GUID(t, c), guid |-> g, from |-> from, n |-> n])

\* ThreadSink::OnClientClosed of connection c of thread t.
Close(t, c, from, n) ==
    conn' = [conn EXCEPT ![t][c] = [st |-> "closed", from |-> from, n |-> n]]

Calling(t, g) ==
    /\ Running(t) /\ replies < MaxReplies /\ g \in known[t]
    /\ replies' = replies + 1

\* Mutant: the groups are looked up by index only.
TargetOfAnyGroup(g) ==
    LET ios == {k \in IOs : g.idx \in Indices(k)}
    IN  IF ios = {} THEN Nobody ELSE <<CHOOSE k \in ios : TRUE, g.idx>>

\* The thread work::Scheduler finds for a guid by io type and index.
Target(g) ==
    IF g.io \in IOs /\ g.io \in related["work"] /\ g.idx \in Indices(g.io)
    THEN Home(g) ELSE Nobody

\* What work::Scheduler does with a call for a client: a task for its thread.
WorkToClient(t, g, type) ==
    /\ t[1] = "work"
    /\ Calling(t, g)
    /\ IF Target(g) \in DOMAIN tasks
       THEN /\ Push(Target(g), type, g, t, replies')
            /\ accepted' = IF type = "send"
                           THEN accepted \cup {[guid |-> g, from |-> t, n |-> replies']}
                           ELSE accepted
       ELSE UNCHANGED <<tasks, accepted>>
    /\ UNCHANGED <<conf, phase, threads_count, loaded, created, related,
                   last, conn, known, sends, spread, unplaced, got>>

WorkSendToClient(t, g) == WorkToClient(t, g, "send")

WorkCloseClient(t, g) == WorkToClient(t, g, "close")

\* tcp::Scheduler on a connection of its own thread: at once, if it is open.
OwnClient(t, g, type, from, n) ==
    IF g.id \in ConnIDs /\ conn[t][g.id].st = "open"
    THEN \/ type = "send" /\ Write(t, g.id, g, from, n) /\ UNCHANGED conn
         \/ type = "close" /\ Close(t, g.id, from, n) /\ UNCHANGED got
    ELSE UNCHANGED <<conn, got>>

\* What tcp::Scheduler does with a logic's call for a client: the index alone
\* says which thread of the own group has the connection, which gets a task
\* unless it is this one; an index outside the group is a null pointer.
IOToClient(t, g, type) ==
    LET target == <<t[1], g.idx>>
    IN  /\ t[1] \in IOs
        /\ Calling(t, g)
        /\ Careful => g.io = t[1]
        /\ IF target = t THEN OwnClient(t, g, type, t, replies') /\ UNCHANGED <<tasks, phase>>
           ELSE IF target \in DOMAIN tasks
           THEN Push(target, type, g, t, replies') /\ UNCHANGED <<conn, got, phase>>
           ELSE phase' = "crashed" /\ UNCHANGED <<conn, got, tasks>>
        /\ accepted' = IF type = "send" /\ (target = t => got' # got)
                       THEN accepted \cup {[guid |-> g, from |-> t, n |-> replies']}
                       ELSE accepted
        /\ UNCHANGED <<conf, threads_count, loaded, created, related,
                       last, known, sends, spread, unplaced>>

IOSendToClient(t, g) == IOToClient(t, g, "send")

IOCloseClient(t, g) == IOToClient(t, g, "close")

\* ThreadSink::OnTask with a message: the logics get it, with its guid.
OnMessage(t) ==
    /\ Running(t) /\ tasks[t] # <<>> /\ Head(tasks[t]).type = "normal"
    /\ tasks' = [tasks EXCEPT ![t] = Tail(@)]
    /\ known' = [known EXCEPT ![t] = @ \cup {Head(tasks[t]).guid}]
    /\ UNCHANGED <<conf, phase, threads_count, loaded, created, related,
                   conn, last, sends, replies, spread, unplaced, accepted, got>>

\* ThreadSink::OnTask with a task for a client: the scheduler of an io thread
\* finds this thread by the guid's index; other threads ignore it.
OnClientTask(t) ==
    /\ Running(t) /\ tasks[t] # <<>> /\ Head(tasks[t]).type # "normal"
    /\ tasks' = [tasks EXCEPT ![t] = Tail(@)]
    /\ LET m == Head(tasks[t])
       IN  IF t[1] \in IOs THEN OwnClient(t, m.guid, m.type, m.from, m.n)
           ELSE UNCHANGED <<conn, got>>
    /\ UNCHANGED <<conf, phase, threads_count, loaded, created, related,
                   known, last, sends, replies, spread, unplaced, accepted>>

\* ThreadSink::OnAccept: the logics are told of a new connection.
Accept(t, c) ==
    /\ Running(t) /\ t[1] \in IOs /\ conn[t][c].st = "none"
    /\ conn' = [conn EXCEPT ![t][c].st = "open"]
    /\ known' = [known EXCEPT ![t] = @ \cup {GUID(t, c)}]
    /\ UNCHANGED <<conf, phase, threads_count, loaded, created, related,
                   last, tasks, sends, replies, spread, unplaced, accepted, got>>

\* A client closes its connection.
ClientCloses(t, c) ==
    /\ Running(t) /\ t[1] \in IOs /\ conn[t][c].st = "open"
    /\ Close(t, c, Nobody, 0)
    /\ UNCHANGED <<conf, phase, threads_count, loaded, created, related,
                   last, tasks, known, sends, replies, spread, unplaced, accepted, got>>

DispatchNext ==
    \/ (LoadAndCheckConf \/ LoadThreads \/ CreateAllThreads) /\ UNCHANGED dispatchVars
    \/ SeedSchedulers
    \/ \E t \in DOMAIN tasks :
         \/ \E k \in Kinds, g \in known[t] :
              \/ \E idx \in 0 .. created[k] : SendToThread(t, k, idx, g)
              \/ Broadcast(t, k, g)
         \/ \E g \in known[t] :
              \/ WorkSendToClient(t, g) \/ WorkCloseClient(t, g)
              \/ IOSendToClient(t, g) \/ IOCloseClient(t, g)
         \/ OnMessage(t) \/ OnClientTask(t)
         \/ \E c \in ConnIDs : Accept(t, c) \/ ClientCloses(t, c)

DispatchSpec == DispatchInit /\ [][DispatchNext]_<<confVars, dispatchVars>>
-----------------------------------------------------------------------------
\* Tasks for a client wait only at the thread that has its connection, and
\* what is written to a connection was meant for it.
Addressed ==
    /\ \A t \in DOMAIN tasks : \A i \in DOMAIN tasks[t] :
         tasks[t][i].type # "normal" => t = Home(tasks[t][i].guid)
    /\ \A i \in DOMAIN got : got[i].conn = got[i].guid

\* A connection gets the answers of one thread in the order it sent them.
InSenderOrder ==
    \A i, j \in DOMAIN got :
        i < j /\ got[i].conn = got[j].conn /\ got[i].from = got[j].from => got[i].n < got[j].n

\* An answer whose SendToClient returned 0 is written or on its way, unless
\* the connection was closed by somebody else, or by its sender earlier: a
\* CloseClient after it never overtakes it.
AnswersKept ==
    \A a \in accepted :
        \/ \E i \in DOMAIN got : got[i].n = a.n /\ got[i].guid = a.guid
        \/ \E i \in DOMAIN tasks[Home(a.guid)] : tasks[Home(a.guid)][i].n = a.n
        \/ LET c == conn[Home(a.guid)][a.guid.id]
           IN  c.st = "closed" /\ (c.from = a.from => c.n < a.n)

\* A scheduler that chooses finds a thread of every configured group its
\* interface offers, and gives no thread two tasks more than another.
Balanced ==
    /\ unplaced = 0
    /\ \A t \in DOMAIN spread : \A k \in Kinds :
         \A i, j \in DOMAIN spread[t][k] : spread[t][k][i] <= spread[t][k][j] + 1

\* What the schedulers of all threads together promise to the logics.
Routed == Addressed /\ InSenderOrder /\ AnswersKept /\ Balanced
=============================================================================
