------------------------------ MODULE AppFrame ------------------------------
(***************************************************************************)
(* The main thread: app_launcher's event loop drives app_frame, which      *)
(* starts the threads of all groups and waits for them, relays a reload of *)
(* the configuration (global thread first, and waited for), relays the     *)
(* stop signal, polls CanExit every 100ms, and then lets the groups exit   *)
(* and joins them one after the other.  Its calls on the threads are the   *)
(* operations of ThreadCenter, one call per step: the threads run between  *)
(* them.                                                                   *)
(***************************************************************************)
EXTENDS ThreadCenter, SequencesExt

CONSTANTS GroupSeq,      \* the groups in the order of Activate
          Globals,       \* the global threads tried, NoThread for none
          ThreadsCount,  \* app_frame_threads_count_, from the configuration
          MaxReloads     \* bound: configuration changes in a behaviour

VARIABLES main,           \* what the main thread is doing
          left,           \* threads its current loop has still to call
          groups_left,    \* groups NotifyExitAndJoin has still to do
          threads_count,  \* g_app_frame_threads_count
          stop_called,    \* EventWrapper's stopping_
          reloads,        \* reloads begun
          global          \* the thread of global_threads_, NoThread for nullptr

mainVars == <<main, left, groups_left, threads_count, stop_called, reloads,
              global>>
appVars == <<vars, mainVars>>

ASSUME GroupSeqAssumption ==
    /\ GroupSeq \in Seq(Groups) /\ GroupSeq # <<>>
    /\ FlattenSeq(GroupSeq) \in Seq(Threads)
    /\ \A t \in Globals \ {NoThread} : t \in Threads /\ GroupSeq[1] = <<t>>
    /\ ThreadsCount \in Nat /\ MaxReloads \in Nat

\* All threads, group by group.
Order == FlattenSeq(GroupSeq)

\* Every thread was created in one group, once; app_frame_threads_count_ is
\* their number; the global thread, if there is one, makes the first group.
ASSUME ThreadsInGroups ==
    /\ \A t \in Threads : \E i \in DOMAIN GroupSeq : \E j \in DOMAIN GroupSeq[i] : GroupSeq[i][j] = t
    /\ \A t \in Threads : \E i \in DOMAIN Order : Order[i] = t
    /\ \A i, j \in DOMAIN Order : Order[i] = Order[j] => i = j
    /\ IsFiniteSet(Threads) /\ ThreadsCount = Cardinality(Threads)
    /\ Globals \subseteq Threads \cup {NoThread}
    /\ \A t \in Globals \ {NoThread} : Order # <<>> /\ Order[1] = t

AppInit ==
    /\ Init
    /\ main = "activate"
    /\ left = Order
    /\ groups_left = <<>>
    /\ threads_count = 0
    /\ stop_called = FALSE
    /\ reloads = 0
    /\ global \in Globals

\* The main thread moves on; nothing of the threads changes.
Goto(where, loop) ==
    /\ main' = where
    /\ left' = loop
    /\ UNCHANGED <<vars, threads_count, global>>

\* One iteration of the loop the main thread is in: the call Do has been made
\* on the first thread that is left.
Called == left' = Tail(left)
          /\ UNCHANGED <<main, groups_left, threads_count, stop_called, reloads, global>>

-----------------------------------------------------------------------------
\* Activate: start the threads of every group.
StartNext == main = "activate" /\ left # <<>> /\ Start(Head(left)) /\ Called

\* OnThreadStartOK of thread t, in its WorkLoop.
OnThreadStartOK(t) ==
    /\ WorkLoop(t)
    /\ threads_count' = threads_count + 1
    /\ UNCHANGED <<main, left, groups_left, stop_called, reloads, global>>

\* Activate returns once all threads have started; the event loop runs.
Activated ==
    /\ main = "activate" /\ left = <<>>
    /\ threads_count >= ThreadsCount
    /\ Goto("running", <<>>)
    /\ UNCHANGED <<groups_left, stop_called, reloads>>

-----------------------------------------------------------------------------
\* Where the event loop goes on: the exit check is on once stop was called.
Idle == IF stop_called THEN "polling" ELSE "running"

\* NotifyReload: the global thread's flag is cleared first.
ReloadGlobal ==
    /\ main \in {"running", "polling"} /\ reloads < MaxReloads
    /\ global # NoThread
    /\ SetReloadFinish(global)
    /\ main' = "reload_global"
    /\ reloads' = reloads + 1
    /\ UNCHANGED <<left, groups_left, threads_count, stop_called, global>>

NotifyGlobal ==
    /\ main = "reload_global"
    /\ NotifyReload(global)
    /\ main' = "wait_global"
    /\ UNCHANGED <<left, groups_left, threads_count, stop_called, reloads, global>>

\* Mutant: the global thread is not waited for.
GlobalNotAwaited ==
    /\ main = "wait_global"
    /\ Goto("reload", Tail(Order))
    /\ UNCHANGED <<groups_left, stop_called, reloads>>

\* The busy wait for ReloadFinished ends.
GlobalReloaded ==
    /\ main = "wait_global"
    /\ reload_finished[global]
    /\ Goto("reload", Tail(Order))
    /\ UNCHANGED <<groups_left, stop_called, reloads>>

ReloadWithoutGlobal ==
    /\ main \in {"running", "polling"} /\ reloads < MaxReloads
    /\ global = NoThread
    /\ reloads' = reloads + 1
    /\ Goto("reload", Order)
    /\ UNCHANGED <<groups_left, stop_called>>

ReloadNext == main = "reload" /\ left # <<>> /\ NotifyReload(Head(left)) /\ Called

ReloadDone ==
    /\ main = "reload" /\ left = <<>>
    /\ Goto(Idle, <<>>)
    /\ UNCHANGED <<groups_left, stop_called, reloads>>

-----------------------------------------------------------------------------
\* EventWrapper::OnStop, acts once.
OnStopSignal ==
    /\ main = "running" /\ ~stop_called
    /\ stop_called' = TRUE
    /\ Goto("stop", Order)
    /\ UNCHANGED <<groups_left, reloads>>

StopNext == main = "stop" /\ left # <<>> /\ NotifyStop(Head(left)) /\ Called

StopNotified ==
    /\ main = "stop" /\ left = <<>>
    /\ Goto(Idle, <<>>)
    /\ UNCHANGED <<groups_left, stop_called, reloads>>

\* The exit check finds that every sink's CanExit answers true.  What the
\* logics answer is theirs to decide, and nothing ties it to the stop byte
\* having been read.
OnExitCheck ==
    /\ main = "polling"
    /\ groups_left' = Tail(GroupSeq)
    /\ Goto("exit", Head(GroupSeq))
    /\ UNCHANGED <<stop_called, reloads>>

\* Mutant: the threads are joined without the exit notification.
ExitNextSilent == main = "exit" /\ left # <<>> /\ Called /\ UNCHANGED vars

ExitNext == main = "exit" /\ left # <<>> /\ NotifyExit(Head(left)) /\ Called

\* The threads of the group being joined.
Joining == GroupSeq[Len(GroupSeq) - Len(groups_left)]

\* Mutant: the groups are not joined.
JoinGroupNoWait ==
    /\ main = "exit" /\ left = <<>>
    /\ \/ /\ groups_left # <<>>
          /\ groups_left' = Tail(groups_left)
          /\ Goto("exit", Head(groups_left))
       \/ /\ groups_left = <<>>
          /\ Goto("release", Reverse(Order))
          /\ UNCHANGED groups_left
    /\ UNCHANGED <<stop_called, reloads>>

\* The group's threads are joined, the next group is told to exit.
JoinGroup ==
    /\ main = "exit" /\ left = <<>>
    /\ \A i \in DOMAIN Joining : ctl[Joining[i]] = "exited"
    /\ \/ /\ groups_left # <<>>
          /\ groups_left' = Tail(groups_left)
          /\ Goto("exit", Head(groups_left))
       \/ /\ groups_left = <<>>
          /\ Goto("release", Reverse(Order))
          /\ UNCHANGED groups_left
    /\ UNCHANGED <<stop_called, reloads>>

\* Freeze, Finalize and Release, last group first.
ReleaseNext == main = "release" /\ left # <<>> /\ FreeThread(Head(left)) /\ Called

Finished ==
    /\ main = "release" /\ left = <<>>
    /\ Goto("done", <<>>)
    /\ UNCHANGED <<groups_left, stop_called, reloads>>

MainCall == StartNext \/ NotifyGlobal \/ ReloadNext \/ StopNext \/ ExitNext
            \/ ReleaseNext

MainGoesOn == Activated \/ GlobalReloaded \/ ReloadDone \/ StopNotified
              \/ OnExitCheck \/ JoinGroup \/ Finished

\* A thread's own step; WorkLoop is OnThreadStartOK.
Worker(t) ==
    \/ OnThreadStartOK(t)
    \/ ThreadStep(t) /\ UNCHANGED mainVars

AppNext ==
    \/ MainCall \/ MainGoesOn
    \/ ReloadGlobal \/ ReloadWithoutGlobal \/ OnStopSignal
    \/ \E t \in Threads : Worker(t)
    \/ \E t \in Threads : PushTaskToThread(t) /\ UNCHANGED mainVars

\* Every thread is scheduled.  Neither the stop signal nor a configuration
\* change has to come, and no callback has to push.  That OnExitCheck is fair
\* says the logics allow the exit in the end.
AppFairness ==
    /\ WF_appVars(MainCall)
    /\ WF_appVars(MainGoesOn)
    /\ \A t \in Threads :
         /\ WF_appVars(OnThreadStartOK(t))
         /\ WF_appVars(PushTask(t) /\ UNCHANGED mainVars)
         /\ WF_appVars(ReadCallback(t) /\ UNCHANGED mainVars)
         /\ WF_appVars(OnTimer(t) /\ UNCHANGED mainVars)
         /\ WF_appVars((OnTask(t) \/ TaskDone(t) \/ LockForStop(t) \/ Drain(t)
                \/ StopDone(t) \/ CheckRemoved(t) \/ RemoveTimer(t))
                /\ UNCHANGED mainVars)

AppSpec == AppInit /\ [][AppNext]_appVars

FairAppSpec == AppSpec /\ AppFairness

-----------------------------------------------------------------------------
\* The event loop of the main thread, and with it any stop or reload, runs
\* only once every thread has started (Activate's wait).
AllStarted ==
    main # "activate" => \A t \in Threads : ctl[t] \notin {"new", "started"}

\* The n-th reload reaches another thread only after the global thread has
\* finished its n-th reload: SetReloadFinish, NotifyReload and the busy wait
\* hold the others back, also while the process is stopping.
GlobalReloadsFirst ==
    global # NoThread =>
        \A t \in Threads : seen[t]["r"] <= seen[global]["r"]

\* A thread leaves its loop only after its OnStop has drained the queue and
\* returned, although CanExit is asked before the stop byte may have been
\* read.  (It rests on the pipe's order, so on a pipe that never fills.)
StoppedBeforeExit ==
    \A t \in Threads : ctl[t] \in {"exited", "released"} => stopping[t]

\* A group is told to exit only when every group before it has been joined,
\* and a thread is released only when no thread runs.
ReleasedAfterJoin ==
    (\E t \in Threads : ctl[t] = "released") =>
        \A t \in Threads : ctl[t] \in {"exited", "released"} /\ todo[t] = <<>>

\* Once the stop signal was received the process ends.
StopEnds == stop_called ~> main = "done"

\* A pushed task is handled, reloads and the stop notwithstanding, unless the
\* process has begun to let its threads exit: tasks pushed to a thread that has
\* left its loop are released with it.
TaskHandledOrExit ==
    \A t \in Threads : \A n \in 1..MaxTasks :
        sent[t]["t"] >= n
            ~> Len(handled[t]) >= n \/ main \in {"exit", "release", "done"}

\* A reload never hangs the main thread in its busy wait.
ReloadReturns == main = "reload_global" ~> main \in {"running", "polling"}

\* The life of the process is in order: nothing before all threads have
\* started, the global thread's reload before the others', each thread's stop
\* before its exit, and every thread's end before the first release.
LifeInOrder == AllStarted /\ GlobalReloadsFirst /\ StoppedBeforeExit /\ ReleasedAfterJoin

\* What the main thread began comes to its end: the stop and every reload.
CallsEnd == StopEnds /\ ReloadReturns
=============================================================================
