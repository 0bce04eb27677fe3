----------------------------- MODULE ModuleLife -----------------------------
(***************************************************************************)
(* The life of the nested components of a process, from main's Initialize   *)
(* to its SAFE_DESTROY: app_launcher, app_frame, the modules of threads,     *)
(* their groups, threads and sinks, and the logics in them.  Any step of     *)
(* Initialize and Activate may fail; whatever was built so far is then       *)
(* destroyed, with the same functions that destroy a process that ran.       *)
(* Between the two the threads run, are told to stop, and their logics are   *)
(* asked whether the process can exit.                                       *)
(***************************************************************************)
EXTENDS ProcessTables, FiniteSets

CONSTANTS Confs,               \* the configurations a process may start with
          StartMayFail         \* whether pthread_create may fail

ASSUME ConfsAssumption == Confs \subseteq ConfType

VARIABLES
    conf,      \* the configuration
    phase,     \* where main is
    todo,      \* the steps left of what main is executing
    st,        \* state of each member: null, loaded, inited, active, final
    running,   \* threads between Start and Join
    stopping,  \* EventWrapper::stopping_
    told,      \* logics whose OnStop was called
    ready,     \* logics of the user whose CanExit returns true
    latched,   \* threads whose host of logics has can_exit_ set
    timers     \* threads whose host of logics has its exit check timer

vars == <<conf, phase, todo, st, running, stopping, told, ready, latched, timers>>
stopVars == <<stopping, told, ready, latched, timers>>

ThreadsOf == [c \in Confs |-> UNION {Range(Threads(c, k)): k \in Kinds}]
AllThreads == ThreadsOf[conf]
Names == Range(Logics) \union {"common", "global_logic", "ProtoLogic", "WebLogic", "BurdenLogic",
          "GlobalLogic", "part_msg_mgr", "listener", "conn_center", "scheduler", "trans_center",
          "client_center_mgr", "tcp_clients", "http_clients", "pipe", "ev_base", "timer_axis",
          "sink", "thread", "group", "tsd_key", "threads", "inner", "sync_mutex", "sync_cond",
          "conf_mgr", "log_engine", "conf_center", "thread_center", "inotify", "stop_event",
          "exit_check_timer", "app_frame", "main_ev_base", "event_wrapper"}

Get(t, n) == IF <<t, n>> \in DOMAIN st THEN st[<<t, n>>] ELSE "null"
Exists(t, n) == Get(t, n) # "null"
Inited(t, n) == Get(t, n) \in {"inited", "active"}
Active(t, n) == Get(t, n) = "active"

\* st keeps only the members that exist.
Put(t, n, s) == [m \in DOMAIN st \union {<<t, n>>} |-> IF m = <<t, n>> THEN s ELSE st[m]]
Drop(t, n) == [m \in DOMAIN st \ {<<t, n>>} |-> st[m]]

Init ==
    /\ conf \in Confs
    /\ phase = "initialize"
    /\ todo = LauncherInitialize(conf)
    /\ st = <<>>
    /\ running = {} /\ stopping = FALSE
    /\ told = {} /\ ready = {} /\ latched = {} /\ timers = {}

-----------------------------------------------------------------------------
(* What a step does when it succeeds: the SAFE_ macros skip a null pointer. *)

After(op, t, n) ==
    CASE op \in {"new", "load", "set"}                -> Put(t, n, "loaded")
      [] op \in {"init", "initialized", "make"}       -> Put(t, n, "inited")
      [] op \in {"act", "activated"} /\ Exists(t, n)  -> Put(t, n, "active")
      [] op = "frz" /\ Active(t, n)                   -> Put(t, n, "inited")
      [] op = "fin" /\ Exists(t, n)                   -> Put(t, n, "final")
      [] op \in {"free", "rel"}                       -> Drop(t, n)
      [] OTHER                                        -> st

Step ==
    /\ todo # <<>>
    /\ LET op == Head(todo)[1]  t == Head(todo)[2]  n == Head(todo)[3]
       IN  /\ st' = After(op, t, n)
           /\ running' = IF op = "start" THEN running \union {t} ELSE running
    /\ todo' = Tail(todo)
    /\ UNCHANGED <<conf, phase, stopVars>>

MayFail(op, t, n) ==
    \/ op \in {"check", "load", "init", "make"}
    \/ op = "act" /\ Exists(t, n)
    \/ op = "start" /\ StartMayFail

\* What CreateThread and CreateThreadGroup destroy at once when they fail.
Unwind(t, n) ==
    IF phase # "initialize" \/ t = App \/ n \in {"threads", "inner"} THEN <<>>
    ELSE (IF t[2] > 0 THEN ThreadDestroy(t) ELSE <<>>) \o GroupDestroy(conf, t[1])

Fail ==
    /\ phase \in {"initialize", "activate"} /\ todo # <<>>
    /\ LET op == Head(todo)[1]  t == Head(todo)[2]  n == Head(todo)[3]
       IN  /\ MayFail(op, t, n)
           /\ todo' = Unwind(t, n)
    /\ phase' = "unwind"
    /\ UNCHANGED <<conf, st, running, stopVars>>

Initialized ==
    /\ phase = "initialize" /\ todo = <<>>
    /\ phase' = "activate" /\ todo' = LauncherActivate(conf)
    /\ UNCHANGED <<conf, st, running, stopVars>>

Dispatch ==
    /\ phase = "activate" /\ todo = <<>>
    /\ phase' = "run"
    /\ UNCHANGED <<conf, todo, st, running, stopVars>>

\* AppFrame::NotifyStop asks each module for its group; the burden, global,
\* proto and web modules ask the module they hold, which may not be there.
NullInner(k) == Exists(Of(k), "threads") /\ ~Exists(Of(k), "inner") /\ k \notin {"work", "tcp"}

\* The call of Stop in main after a failed Initialize or Activate.  Before
\* SetAppLauncher OnStop follows a null pointer to the launcher.
StopAfterFailure ==
    /\ phase = "unwind" /\ todo = <<>>
    /\ \/ /\ ~Exists(App, "event_wrapper")
          /\ phase' = "crashed" /\ UNCHANGED <<st, todo, stopping>>
       \/ /\ Exists(App, "event_wrapper") /\ ~Exists(App, "main_ev_base")
          /\ UNCHANGED <<st, stopping>>
          /\ phase' = "destroy" /\ todo' = LauncherDestroy(conf)
       \/ /\ Exists(App, "main_ev_base")
          /\ stopping' = TRUE
          /\ IF Exists(App, "app_frame") /\ \E k \in Kinds: NullInner(k)
             THEN phase' = "crashed" /\ UNCHANGED <<st, todo>>
             ELSE /\ st' \in {st, Put(App, "exit_check_timer", "inited")}
                  /\ phase' = "destroy" /\ todo' = LauncherDestroy(conf)
    /\ UNCHANGED <<conf, running, told, ready, latched, timers>>

Destroyed ==
    /\ phase = "destroy" /\ todo = <<>>
    /\ phase' = "done"
    /\ UNCHANGED <<conf, todo, st, running, stopVars>>

-----------------------------------------------------------------------------
(* Stopping: SIGQUIT, OnStop of the sinks and of the hosts of logics, the   *)
(* hosts' exit check timers, and the exit check of the main thread.         *)

OnStop ==
    /\ phase = "run" /\ ~stopping
    /\ stopping' = TRUE
    /\ st' = Put(App, "exit_check_timer", "inited")
    /\ UNCHANGED <<conf, phase, todo, running, told, ready, latched, timers>>

Present(t, names) == {n \in names: Exists(t, n)}
UserLogics(t) == Present(t, {"common", "global_logic"} \union Range(Logics))

\* The logics a host's OnStop tells and its OnTimer asks.
ProtoOnStop(t) == Present(t, {"common"} \union Range(Logics))
WebOnStop(t) == Present(t, {"common"} \union Range(Logics))
BurdenOnStop(t) == Present(t, {"common"} \union Range(Logics))
GlobalOnStop(t) == Present(t, {"global_logic"})
ProtoOnTimer(t) == ProtoOnStop(t) \subseteq {n \in Names: <<t, n>> \in ready}
WebOnTimerLogicsOnly(t) == Present(t, Range(Logics)) \subseteq {n \in Names: <<t, n>> \in ready}
WebOnTimer(t) == WebOnStop(t) \subseteq {n \in Names: <<t, n>> \in ready}

BurdenOnTimer(t) == BurdenOnStop(t) \subseteq {n \in Names: <<t, n>> \in ready}
GlobalOnTimer(t) == GlobalOnStop(t) \subseteq {n \in Names: <<t, n>> \in ready}

Hosts == {"proto", "web", "burden", "global"}
HostTells(t) == CASE t[1] = "proto"  -> ProtoOnStop(t)
                  [] t[1] = "web"    -> WebOnStop(t)
                  [] t[1] = "burden" -> BurdenOnStop(t)
                  [] t[1] = "global" -> GlobalOnStop(t)
                  [] OTHER           -> {}
HostFindsExit(t) == CASE t[1] = "proto"  -> ProtoOnTimer(t)
                      [] t[1] = "web"    -> WebOnTimer(t)
                      [] t[1] = "burden" -> BurdenOnTimer(t)
                      [] t[1] = "global" -> GlobalOnTimer(t)

\* ThreadSink::OnStop of either kind: the sink's own logics, and through
\* them what they hold.
SinkHolds(t) == Present(t, Range(SinkLogics(t[1]))
                             \union (IF t[1] \in Hosts THEN {} ELSE {"common"}))
TCPSinkTells(t) == SinkHolds(t) \union HostTells(t)
WorkSinkTells(t) == SinkHolds(t) \union HostTells(t)

SinkOnStopNoTimer(t) ==
    /\ t \in running /\ stopping /\ \A n \in Names: <<t, n>> \notin told
    /\ told' = told \union ({t} \X (IF IsTCP(t) THEN TCPSinkTells(t) ELSE WorkSinkTells(t)))
    /\ timers' = timers
    /\ UNCHANGED <<conf, phase, todo, st, running, stopping, ready, latched>>
SinkOnStop(t) ==
    /\ t \in running /\ stopping /\ \A n \in Names: <<t, n>> \notin told
    /\ told' = told \union ({t} \X (IF IsTCP(t) THEN TCPSinkTells(t) ELSE WorkSinkTells(t)))
    /\ timers' = IF t[1] \in Hosts THEN timers \union {t} ELSE timers
    /\ UNCHANGED <<conf, phase, todo, st, running, stopping, ready, latched>>

HostOnTimer(t) ==
    /\ t \in timers \cap running
    /\ HostFindsExit(t)
    /\ latched' = latched \union {t}
    /\ UNCHANGED <<conf, phase, todo, st, running, stopping, told, ready, timers>>

\* A logic of the user decides for itself when it can exit.
LogicCanExit(t, n) ==
    /\ t \in running /\ n \in UserLogics(t)
    /\ ready' = ready \union {<<t, n>>}
    /\ UNCHANGED <<conf, phase, todo, st, running, stopping, told, latched, timers>>

\* ThreadSink::CanExit asks the common logic and the logics of the sink.
TCPCanExit(t) == \A n \in SinkHolds(t): IF IsHost(n) THEN t \in latched ELSE <<t, n>> \in ready
WorkCanExit(t) == \A n \in SinkHolds(t): IF IsHost(n) THEN t \in latched ELSE <<t, n>> \in ready

OnExitCheck ==
    /\ phase = "run" /\ stopping
    /\ \A t \in AllThreads: IF IsTCP(t) THEN TCPCanExit(t) ELSE WorkCanExit(t)
    /\ phase' = "join"
    /\ UNCHANGED <<conf, todo, st, running, stopVars>>

\* The exit byte is behind the stop byte in every pipe.
Join(t) ==
    /\ phase = "join" /\ t \in running
    /\ \E n \in Names: <<t, n>> \in told
    /\ running' = running \ {t}
    /\ UNCHANGED <<conf, phase, todo, st, stopVars>>

LoopBreak ==
    /\ phase = "join" /\ running = {}
    /\ phase' = "destroy" /\ todo' = LauncherDestroy(conf)
    /\ UNCHANGED <<conf, st, running, stopVars>>

Finished == phase \in {"done", "crashed"} /\ UNCHANGED vars

Main == Step \/ Initialized \/ Dispatch \/ StopAfterFailure \/ Destroyed \/ OnExitCheck \/ LoopBreak
ThreadStep == \E t \in AllThreads: SinkOnStop(t) \/ HostOnTimer(t) \/ Join(t)
LogicStep == \E t \in AllThreads, n \in Names: LogicCanExit(t, n)

Next == Main \/ Fail \/ OnStop \/ ThreadStep \/ LogicStep \/ Finished

\* Main and the threads run their loops, whose timers are periodic; the
\* logics of the user are taken to let the process exit at some time.
Fairness == WF_vars(Main) /\ WF_vars(ThreadStep) /\ WF_vars(LogicStep)

Spec == Init /\ [][Next]_vars /\ Fairness

-----------------------------------------------------------------------------
(* Who uses whom: the pointers handed out in the contexts.                  *)

Logic == {"common", "global_logic"} \union Range(Logics)
                \union {"ProtoLogic", "WebLogic", "BurdenLogic", "GlobalLogic"}

UsesInThread ==
    {<<"timer_axis", "ev_base">>, <<"listener", "ev_base">>, <<"conn_center", "timer_axis">>,
     <<"trans_center", "timer_axis">>, <<"part_msg_mgr", "timer_axis">>}
        \union ({"tcp_clients", "http_clients"} \X {"trans_center", "timer_axis", "ev_base"})
        \union (Logic \X {"scheduler", "timer_axis", "ev_base"})
UsesInTCP == {<<"scheduler", "conn_center">>} \union (Logic \X {"conn_center"})
UsesInWork == Logic \X {"trans_center", "client_center_mgr"}

LogicUses(c, t) ==
    {<<App, m>>: m \in {"conf_center", "log_engine", "conf_mgr"}}
        \union (IF t[1] # "global" /\ c.count["global"] > 0 THEN {<<<<"global", 1>>, "global_logic">>} ELSE {})

ThreadUses(c, t) ==
    {<<<<t, u[1]>>, <<t, u[2]>>>>:
        u \in UsesInThread \union (IF IsTCP(t) THEN UsesInTCP ELSE UsesInWork)
              \union (IF c.common /\ t[1] # "global" THEN Range(Logics) \X {"common"} ELSE {})}
    \union {<<<<t, n>>, d>>: n \in Logic, d \in LogicUses(c, t)}

AppUses ==
    {<<<<App, u[1]>>, <<App, u[2]>>>>:
        u \in ({"app_frame"} \X {"conf_center", "thread_center", "log_engine", "main_ev_base"})
              \union ({"inotify", "stop_event"} \X {"main_ev_base", "app_frame"})
              \union ({"thread_center", "conf_center"} \X {"log_engine"})}
    \union {<<<<Of(k), "group">>, <<App, "thread_center">>>>: k \in Kinds}

\* For each member, the members it uses.
UsesOf == [c \in Confs |->
             LET uses == AppUses \union UNION {ThreadUses(c, t): t \in ThreadsOf[c]}
             IN  [u \in {p[1]: p \in uses} |-> {p[2]: p \in {q \in uses: q[1] = u}}]]

FreedInFinalize == {"ev_base", "main_ev_base", "listener"}
Embedded == {"conn_center", "scheduler", "part_msg_mgr", "conf_mgr"}
NeverActive == {"ev_base", "main_ev_base", "listener", "scheduler", "conf_mgr"}

\* A member is ready before those that use it and stays until they are done,
\* at each level: initialized, activated and in memory, however the start or
\* the life of the process went; and what a thread runs on is active while
\* the thread runs.
UsersGoFirst ==
    /\ \A u \in DOMAIN st \cap DOMAIN UsesOf[conf]: \A d \in UsesOf[conf][u]:
              /\ Inited(u[1], u[2]) => Inited(d[1], d[2])
              /\ Active(u[1], u[2]) /\ d[2] \notin NeverActive => Active(d[1], d[2])
              /\ u[2] \notin Embedded /\ d[2] \notin FreedInFinalize => Exists(d[1], d[2])
    /\ \A t \in running: \A n \in {"thread", "sink", "timer_axis"} \union SinkHolds(t): Active(t, n)

\* What holds what.
Whole(t, n) ==
    CASE t = App /\ n = "conf_mgr"                                -> <<App, "app_frame">>
      [] n = "threads"                                            -> <<App, "app_frame">>
      [] n = "inner"                                              -> <<t, "threads">>
      [] n = "group" /\ t[1] \in Hosts                            -> <<t, "inner">>
      [] n = "group"                                              -> <<t, "threads">>
      [] n = "thread"                                             -> <<Of(t[1]), "group">>
      [] n \in {"pipe", "ev_base", "timer_axis"}                  -> <<t, "thread">>
      [] n \in UserLogics(t) \union {"part_msg_mgr"} /\ t[1] \in Hosts -> <<t, SinkLogics(t[1])[1]>>
      [] t[2] > 0 /\ n # "sink"                                   -> <<t, "sink">>
      [] OTHER                                                    -> <<t, n>>

\* No part outlives what holds it, and a process that ends, after a failed
\* start too, has released everything.  Main ends by a null pointer only in
\* the Stop after a failed start: when a check before SetAppLauncher failed,
\* and nothing exists yet, or when the module inside a burden, global, proto
\* or web module was not loaded; no thread runs then.
NothingLeft ==
    /\ \A m \in DOMAIN st: Whole(m[1], m[2]) \in DOMAIN st
    /\ phase = "done" => st = <<>> /\ running = {}
    /\ phase = "crashed" => running = {} /\ (st = <<>> \/ \E k \in Kinds: NullInner(k))

\* Nothing that was activated is finalized or released without Freeze, and
\* nothing that was initialized is released without Finalize, except what
\* Finalize itself frees.
OrderlyEnd ==
    [][\A m \in DOMAIN st:
          /\ Active(m[1], m[2]) => m \in DOMAIN st' /\ st'[m] \in {"active", "inited"}
          /\ Inited(m[1], m[2]) /\ m \notin DOMAIN st'
                => m[2] \in FreedInFinalize \union {"pipe", "tsd_key", "sync_mutex", "sync_cond",
                                                   "inotify", "stop_event", "exit_check_timer"}]_vars

\* When main leaves its loop, every logic of the user has said it can exit,
\* those inside a burden, global, proto or web logic too; and when the
\* threads are joined, each of them was told to stop.
ExitAgreed ==
    phase \in {"join", "destroy"} /\ stopping /\ Active(App, "app_frame") =>
        \A t \in AllThreads: \A n \in UserLogics(t):
            <<t, n>> \in ready /\ (t \notin running => <<t, n>> \in told)

\* A process told to stop, or whose start failed, comes to its end.
ProcessEnds == (stopping \/ phase = "unwind") ~> phase \in {"done", "crashed"}
=============================================================================
