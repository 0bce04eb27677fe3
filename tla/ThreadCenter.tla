---------------------------- MODULE ThreadCenter ----------------------------
(***************************************************************************)
(* The threads of thread_center: every Thread owns a task queue (tq_), a   *)
(* non-blocking pipe that carries one byte per notification, a list of     *)
(* notifications that did not fit into the pipe (pending_notify_list_)     *)
(* with the 1us timer that retries them, and one mutex (write_fd_mutex_)   *)
(* that serialises the writers.  The owner reads the pipe without the      *)
(* mutex, one byte per ReadCallback.                                       *)
(*                                                                         *)
(* Every locked section but OnStop's neither blocks nor calls out, so it   *)
(* is one action, enabled when the mutex is free.  OnStop keeps the mutex  *)
(* while it hands the queued tasks to the sink, whose handlers may push    *)
(* tasks themselves: there the mutex is held across steps.                 *)
(*                                                                         *)
(* timer_axis_ is used from the pushing threads under the mutex and from   *)
(* the owner's TimerAxis::OnTimer without it.  That race is modelled by    *)
(* the steps CheckRemoved and RemoveTimer of the owner.                    *)
(***************************************************************************)
EXTENDS Naturals, Sequences, FiniteSets

CONSTANTS Threads,        \* the threads of all groups
          NoThread,       \* nobody holds the mutex
          Groups,         \* the thread groups, each the sequence thread_vec_
          Related,        \* Related[t]: groups t's sink pushes to while running
          StopRelated,    \* StopRelated[t]: groups it pushes to inside OnStop
          PipeCapacity,   \* bytes the pipe holds
          MaxTasks,       \* bound: tasks pushed in a behaviour
          MaxNotices      \* MaxNotices[t][c]: bound on notifications c to t

Controls == {"s", "r", "e"}
Cmds == Controls \cup {"t"}

ASSUME ThreadsAssumption == NoThread \notin Threads
ASSUME GroupsAssumption ==
    /\ \A g \in Groups : g \in Seq(Threads)
    /\ Related \in [Threads -> SUBSET Groups]
    /\ StopRelated \in [Threads -> SUBSET Groups]
ASSUME BoundsAssumption ==
    /\ PipeCapacity \in Nat \ {0}
    /\ MaxTasks \in Nat
    /\ MaxNotices \in [Threads -> [Controls -> Nat]]

VARIABLES
    ctl,              \* where each thread is
    pipe,             \* bytes in pipe_, oldest first
    pending,          \* pending_notify_list_
    timer,            \* the entry of PENDING_NOTIFY_TIMER_ID in timer_axis_
    tq,               \* tq_
    mutex,            \* holder of write_fd_mutex_
    stopping,         \* stopping_
    reload_finished,  \* reload_finished_
    cur,              \* the task in the sink's OnTask, as a sequence
    todo,             \* PushTask calls the thread's current callback still makes
    created,          \* tasks created so far, names the next one
    sent,             \* history: sent[t][c] notifications c issued to t
    seen,             \* history: seen[t][c] bytes c read by t
    handled,          \* history: tasks t's sink has handled
    dropped           \* history: tasks released unhandled with t

threadVars == <<ctl, pipe, pending, timer, tq, mutex, stopping,
                reload_finished, cur, todo, created>>
history == <<sent, seen, handled, dropped>>
vars == <<threadVars, history>>

-----------------------------------------------------------------------------
\* Set(f, t, v) : f with v at t.
Set(f, t, v) == [f EXCEPT ![t] = v]

\* How many bytes c the sequence s holds.
Count(s, c) == Cardinality({i \in 1..Len(s) : s[i] = c})

Bump(h, t, c) == [h EXCEPT ![t][c] = @ + 1]

\* Thread(): nothing queued, not stopping, the pending timer not yet set.
Init ==
    /\ ctl = [t \in Threads |-> "new"]
    /\ pipe = [t \in Threads |-> <<>>]
    /\ pending = [t \in Threads |-> <<>>]
    /\ timer = [t \in Threads |-> "absent"]
    /\ tq = [t \in Threads |-> <<>>]
    /\ mutex = [t \in Threads |-> NoThread]
    /\ stopping = [t \in Threads |-> FALSE]
    /\ reload_finished = [t \in Threads |-> FALSE]
    /\ cur = [t \in Threads |-> <<>>]
    /\ todo = [t \in Threads |-> <<>>]
    /\ created = 0
    /\ sent = [t \in Threads |-> [c \in Cmds |-> 0]]
    /\ seen = [t \in Threads |-> [c \in Cmds |-> 0]]
    /\ handled = [t \in Threads |-> <<>>]
    /\ dropped = [t \in Threads |-> <<>>]

\* TimerExist / SetTimer: an entry marked removed is armed again in place.
StartPendingNotifyTimer(t) == timer' = Set(timer, t, "armed")

\* Mutant: EAGAIN is ignored, a byte that does not fit is lost.
WriteOrLose(t, c) ==
    /\ mutex[t] = NoThread
    /\ sent' = Bump(sent, t, c)
    /\ pipe' = Set(pipe, t, IF Len(pipe[t]) < PipeCapacity
                            THEN Append(pipe[t], c) ELSE pipe[t])
    /\ UNCHANGED <<pending, timer>>

\* The locked write of one byte: into the pipe or, when that is full, onto
\* the pending list, whose timer is started.
Write(t, c) ==
    /\ mutex[t] = NoThread
    /\ sent' = Bump(sent, t, c)
    /\ \/ /\ Len(pipe[t]) < PipeCapacity
          /\ pipe' = Set(pipe, t, Append(pipe[t], c))
          /\ UNCHANGED <<pending, timer>>
       \/ /\ Len(pipe[t]) >= PipeCapacity
          /\ pending' = Set(pending, t, Append(pending[t], c))
          /\ StartPendingNotifyTimer(t)
          /\ UNCHANGED pipe

Notify(t, c) ==
    /\ sent[t][c] < MaxNotices[t][c]
    /\ Write(t, c)
    /\ UNCHANGED <<ctl, tq, mutex, stopping, reload_finished, cur, todo,
                   created, seen, handled, dropped>>

NotifyStop(t) == Notify(t, "s")

NotifyReload(t) == Notify(t, "r")

NotifyExit(t) == Notify(t, "e")

SetReloadFinish(t) ==
    /\ reload_finished' = Set(reload_finished, t, FALSE)
    /\ UNCHANGED <<ctl, pipe, pending, timer, tq, mutex, stopping, cur, todo,
                   created, history>>

-----------------------------------------------------------------------------
(* Pushing a task from a callback of thread t.                             *)

\* The groups t's current callback may push to.
Reachable(t) ==
    CASE ctl[t] \in {"loop", "handle"} -> Related[t]
      [] ctl[t] \in {"drain_handle", "on_stop"} -> StopRelated[t]
      [] OTHER -> {}

\* A callback calls PushTaskToThread: one thread of the group or, with
\* thread_idx -1, every thread of it in turn.
PushTaskToThread(t) ==
    /\ todo[t] = <<>>
    /\ \E g \in Reachable(t) :
         \E targets \in {g} \cup {<<g[i]>> : i \in DOMAIN g} :
            /\ created + Len(targets) <= MaxTasks
            /\ created' = created + Len(targets)
            /\ todo' = Set(todo, t, targets)
    /\ UNCHANGED <<ctl, pipe, pending, timer, tq, mutex, stopping,
                   reload_finished, cur, history>>

\* Mutant: the owner is notified only when the queue was empty.
PushTaskNotifyOnce(t) ==
    /\ todo[t] # <<>>
    /\ LET to == Head(todo[t])
       IN  /\ \/ tq[to] = <<>> /\ Write(to, "t")
              \/ /\ tq[to] # <<>> /\ mutex[to] = NoThread
                 /\ sent' = Bump(sent, to, "t")
                 /\ UNCHANGED <<pipe, pending, timer>>
           /\ tq' = Set(tq, to, Append(tq[to], sent[to]["t"] + 1))
    /\ todo' = Set(todo, t, Tail(todo[t]))
    /\ UNCHANGED <<ctl, mutex, stopping, reload_finished, cur, created, seen,
                   handled, dropped>>

\* PushTask, run by thread t: waits for the target's mutex, queues the task,
\* notifies.  A task is named by its number among those of its target.
PushTask(t) ==
    /\ todo[t] # <<>>
    /\ LET to == Head(todo[t])
       IN  /\ Write(to, "t")
           /\ tq' = Set(tq, to, Append(tq[to], sent[to]["t"] + 1))
    /\ todo' = Set(todo, t, Tail(todo[t]))
    /\ UNCHANGED <<ctl, mutex, stopping, reload_finished, cur, created, seen,
                   handled, dropped>>

-----------------------------------------------------------------------------
(* The owner's steps.                                                      *)

\* Control state of a thread that is in no push.
At(t, where) == ctl[t] = where /\ todo[t] = <<>>

\* Start: pthread_create by the main thread.
Start(t) ==
    /\ ctl[t] = "new"
    /\ ctl' = Set(ctl, t, "started")
    /\ UNCHANGED <<pipe, pending, timer, tq, mutex, stopping, reload_finished,
                   cur, todo, created, history>>

\* WorkLoop: the thread runs and enters event_base_dispatch.
WorkLoop(t) ==
    /\ ctl[t] = "started"
    /\ ctl' = Set(ctl, t, "loop")
    /\ UNCHANGED <<pipe, pending, timer, tq, mutex, stopping, reload_finished,
                   cur, todo, created, history>>

\* 's': only the first one stops the thread.
OnStop(t) ==
    /\ stopping' = Set(stopping, t, TRUE)
    /\ ctl' = Set(ctl, t, IF stopping[t] THEN "loop" ELSE "stop")
    /\ UNCHANGED reload_finished

\* 'r': the sink reloads, then the flag is raised.
OnReload(t) ==
    /\ reload_finished' = Set(reload_finished, t, TRUE)
    /\ UNCHANGED <<ctl, stopping>>

\* 'e': event_base_loopbreak, the loop ends after this callback.
OnExit(t) ==
    /\ ctl' = Set(ctl, t, "exited")
    /\ UNCHANGED <<stopping, reload_finished>>

\* 't': on to OnTask, which first needs the mutex.
OnTaskByte(t) ==
    /\ ctl' = Set(ctl, t, "task")
    /\ UNCHANGED <<stopping, reload_finished>>

\* One byte is read, without the mutex, and dispatched.
ReadCallback(t) ==
    /\ At(t, "loop")
    /\ pipe[t] # <<>>
    /\ pipe' = Set(pipe, t, Tail(pipe[t]))
    /\ seen' = Bump(seen, t, Head(pipe[t]))
    /\ \/ Head(pipe[t]) = "s" /\ OnStop(t)
       \/ Head(pipe[t]) = "r" /\ OnReload(t)
       \/ Head(pipe[t]) = "e" /\ OnExit(t)
       \/ Head(pipe[t]) = "t" /\ OnTaskByte(t)
    /\ UNCHANGED <<pending, timer, tq, mutex, cur, todo, created, sent,
                   handled, dropped>>

\* Mutant: the newest task is taken.
PopBack(t) ==
    /\ cur' = Set(cur, t, <<tq[t][Len(tq[t])]>>)
    /\ tq' = Set(tq, t, SubSeq(tq[t], 1, Len(tq[t]) - 1))

\* tq_.PopFront into the sink's OnTask.
PopFront(t) ==
    /\ cur' = Set(cur, t, <<Head(tq[t])>>)
    /\ tq' = Set(tq, t, Tail(tq[t]))

\* OnTask: pop under the mutex.  Nothing queued (OnStop has drained the
\* queue): back to the loop.
OnTask(t) ==
    /\ At(t, "task")
    /\ mutex[t] = NoThread
    /\ \/ /\ tq[t] # <<>>
          /\ PopFront(t)
          /\ ctl' = Set(ctl, t, "handle")
       \/ /\ tq[t] = <<>>
          /\ ctl' = Set(ctl, t, "loop")
          /\ UNCHANGED <<cur, tq>>
    /\ UNCHANGED <<pipe, pending, timer, mutex, stopping, reload_finished,
                   todo, created, history>>

\* The sink's OnTask returns and the task is released; inside OnStop the
\* drain goes on.
TaskDone(t) ==
    /\ \/ At(t, "handle") /\ ctl' = Set(ctl, t, "loop")
       \/ At(t, "drain_handle") /\ ctl' = Set(ctl, t, "drain")
    /\ handled' = Set(handled, t, handled[t] \o cur[t])
    /\ cur' = Set(cur, t, <<>>)
    /\ UNCHANGED <<pipe, pending, timer, tq, mutex, stopping, reload_finished,
                   todo, created, sent, seen, dropped>>

\* Mutant: OnStop drains without the mutex.
StopWithoutLock(t) ==
    /\ At(t, "stop")
    /\ mutex[t] = NoThread
    /\ ctl' = Set(ctl, t, "drain")
    /\ UNCHANGED <<pipe, pending, timer, tq, mutex, stopping, reload_finished,
                   cur, todo, created, history>>

\* OnStop takes the mutex, and keeps it until StopDone.
LockForStop(t) ==
    /\ At(t, "stop")
    /\ mutex[t] = NoThread
    /\ mutex' = Set(mutex, t, t)
    /\ ctl' = Set(ctl, t, "drain")
    /\ UNCHANGED <<pipe, pending, timer, tq, stopping, reload_finished, cur,
                   todo, created, history>>

\* One round of OnStop's loop, or its end: then the sink's OnStop runs.
Drain(t) ==
    /\ At(t, "drain")
    /\ \/ /\ tq[t] # <<>>
          /\ PopFront(t)
          /\ ctl' = Set(ctl, t, "drain_handle")
       \/ /\ tq[t] = <<>>
          /\ ctl' = Set(ctl, t, "on_stop")
          /\ UNCHANGED <<cur, tq>>
    /\ UNCHANGED <<pipe, pending, timer, mutex, stopping, reload_finished,
                   todo, created, history>>

\* The sink's OnStop returns, the mutex is released.
StopDone(t) ==
    /\ At(t, "on_stop")
    /\ mutex' = Set(mutex, t, NoThread)
    /\ ctl' = Set(ctl, t, "loop")
    /\ UNCHANGED <<pipe, pending, timer, tq, stopping, reload_finished, cur,
                   todo, created, history>>

\* OnTimer of the pending timer: one pending notification per tick; with
\* none left the timer is killed, which only marks its entry as removed.
OnTimer(t) ==
    /\ At(t, "loop")
    /\ timer[t] = "armed"
    /\ mutex[t] = NoThread
    /\ \/ /\ pending[t] = <<>>
          /\ timer' = Set(timer, t, "removed")
          /\ ctl' = Set(ctl, t, "ticked")
          /\ UNCHANGED <<pipe, pending>>
       \/ /\ pending[t] # <<>>
          /\ Len(pipe[t]) < PipeCapacity
          /\ pipe' = Set(pipe, t, Append(pipe[t], Head(pending[t])))
          /\ pending' = Set(pending, t, Tail(pending[t]))
          /\ UNCHANGED <<timer, ctl>>
    /\ UNCHANGED <<tq, mutex, stopping, reload_finished, cur, todo, created,
                   history>>

\* TimerAxis::OnTimer after the callback, no longer under the mutex: reads
\* timer->removed, which a pusher may have cleared meanwhile.
CheckRemoved(t) ==
    /\ ctl[t] = "ticked"
    /\ ctl' = Set(ctl, t, IF timer[t] = "removed" THEN "erase" ELSE "loop")
    /\ UNCHANGED <<pipe, pending, timer, tq, mutex, stopping, reload_finished,
                   cur, todo, created, history>>

\* TimerAxis::RemoveTimer: frees the event and erases the entry, whatever
\* happened to it since removed was read.
RemoveTimer(t) ==
    /\ ctl[t] = "erase"
    /\ timer' = Set(timer, t, "absent")
    /\ ctl' = Set(ctl, t, "loop")
    /\ UNCHANGED <<pipe, pending, tq, mutex, stopping, reload_finished, cur,
                   todo, created, history>>

\* Freeze, Finalize and Release of a thread: the pipe is closed, the pending
\* list cleared, and the tasks still queued are released.
FreeThread(t) ==
    /\ ctl' = Set(ctl, t, "released")
    /\ timer' = Set(timer, t, "absent")
    /\ pending' = Set(pending, t, <<>>)
    /\ pipe' = Set(pipe, t, <<>>)
    /\ dropped' = Set(dropped, t, tq[t])
    /\ tq' = Set(tq, t, <<>>)
    /\ UNCHANGED <<mutex, stopping, reload_finished, cur, todo, created, sent,
                   seen, handled>>

\* The owner of the threads frees one only after it has joined all of them.
Release(t) ==
    /\ ctl[t] = "exited"
    /\ \A u \in Threads : ctl[u] \in {"exited", "released"}
    /\ FreeThread(t)

\* What a running thread does.
ThreadStep(t) ==
    \/ PushTask(t)
    \/ ReadCallback(t)
    \/ OnTask(t)
    \/ TaskDone(t)
    \/ LockForStop(t)
    \/ Drain(t)
    \/ StopDone(t)
    \/ OnTimer(t)
    \/ CheckRemoved(t)
    \/ RemoveTimer(t)

\* What the thread that owns the groups (the main thread) does to a thread.
MainStep(t) ==
    \/ Start(t)
    \/ NotifyStop(t)
    \/ NotifyReload(t)
    \/ NotifyExit(t)
    \/ SetReloadFinish(t)
    \/ Release(t)

Next ==
    \E t \in Threads :
        PushTaskToThread(t) \/ WorkLoop(t) \/ ThreadStep(t) \/ MainStep(t)

\* Every thread is scheduled, and libevent serves every active event of a
\* loop: the pipe and the pending timer do not starve each other.
Fairness ==
    \A t \in Threads :
        /\ WF_vars(PushTask(t))
        /\ WF_vars(Start(t) \/ WorkLoop(t))
        /\ WF_vars(ReadCallback(t))
        /\ WF_vars(OnTimer(t))
        /\ WF_vars(OnTask(t) \/ TaskDone(t) \/ LockForStop(t) \/ Drain(t)
                   \/ StopDone(t) \/ CheckRemoved(t) \/ RemoveTimer(t))

\* What thread_center's threads may do, whoever drives them: the promise that
\* AppFrame is shown to keep.
Spec == Init /\ [][Next]_vars

FairSpec == Spec /\ Fairness

-----------------------------------------------------------------------------
Wheres == {"new", "started", "loop", "task", "handle", "stop", "drain",
           "drain_handle", "on_stop", "ticked", "erase", "exited", "released"}

\* Types of the threads' queues, pipes, mutexes and histories.
TypeOK ==
    /\ ctl \in [Threads -> Wheres]
    /\ pipe \in [Threads -> Seq(Cmds)]
    /\ pending \in [Threads -> Seq(Cmds)]
    /\ timer \in [Threads -> {"absent", "armed", "removed"}]
    /\ tq \in [Threads -> Seq(Nat)]
    /\ mutex \in [Threads -> Threads \cup {NoThread}]
    /\ stopping \in [Threads -> BOOLEAN]
    /\ reload_finished \in [Threads -> BOOLEAN]
    /\ cur \in [Threads -> Seq(Nat)]
    /\ todo \in [Threads -> Seq(Threads)]
    /\ created \in Nat
    /\ sent \in [Threads -> [Cmds -> Nat]]
    /\ seen \in [Threads -> [Cmds -> Nat]]
    /\ handled \in [Threads -> Seq(Nat)]
    /\ dropped \in [Threads -> Seq(Nat)]

\* Notifications of t still under way, the one being served included.
Wakeups(t) ==
    Count(pipe[t], "t") + Count(pending[t], "t")
      + IF ctl[t] = "task" THEN 1 ELSE 0

\* No lost wakeup: a queued task always has a notification of its own that is
\* in the pipe, on the pending list or being served, although OnStop empties
\* the queue without reading the bytes and the pipe may overflow.
NoLostWakeup ==
    \A t \in Threads : ctl[t] # "released" => Len(tq[t]) <= Wakeups(t)

\* No notification is lost or duplicated between Write, the pending list, its
\* timer and ReadCallback, also when the pipe is full.
NoticesConserved ==
    \A t \in Threads : ctl[t] # "released" =>
        \A c \in Cmds :
            sent[t][c] = seen[t][c] + Count(pipe[t], c) + Count(pending[t], c)

\* Every pushed task is, in the order of the pushes, handled, being handled,
\* queued or released with its thread: OnTask and the drain of OnStop take
\* each task once and never overtake one another.
TasksConserved ==
    \A t \in Threads :
        handled[t] \o cur[t] \o tq[t] \o dropped[t]
            = [i \in 1..sent[t]["t"] |-> i]

\* The sink's OnStop runs with nothing left in the queue: the mutex that OnStop
\* holds keeps every pusher out from the last IsEmpty to its return.
DrainedAtOnStop ==
    \A t \in Threads :
        ctl[t] = "on_stop" => tq[t] = <<>> /\ cur[t] = <<>>

\* Where a thread is while OnStop holds the mutex.
Draining == {"drain", "drain_handle", "on_stop"}

\* Why DrainedAtOnStop holds: between two steps a thread's mutex is held only
\* by the thread itself, exactly while it is in the locked part of OnStop, and
\* a task is in the sink only while a thread handles one.
StopHoldsMutex ==
    \A t \in Threads :
        /\ mutex[t] = IF ctl[t] \in Draining THEN t ELSE NoThread
        /\ cur[t] # <<>> => ctl[t] \in {"handle", "drain_handle"}
        /\ ctl[t] = "on_stop" => tq[t] = <<>>

\* A pushed task is handled by the target thread in the end.
TaskHandled ==
    \A t \in Threads : \A n \in 1..MaxTasks :
        sent[t]["t"] >= n ~> Len(handled[t]) >= n
=============================================================================
