---------------------------- MODULE ProcessTables ----------------------------
(***************************************************************************)
(* The functions of LifeTables one level up: the modules of the kinds of    *)
(* threads, AppFrame, ServiceMgr, EventWrapper and AppLauncher.             *)
(***************************************************************************)
EXTENDS LifeTables

\* A call passed on from a module to what it holds.  Freeze and Finalize end
\* the outer one's work first, Activate and Release its inner one's.
PassOn(op, k, mods, inner) ==
    IF op \in {"frz", "fin"} THEN Do(op, Of(k), mods) \o inner
                             ELSE inner \o Do(op, Of(k), Reverse(mods))

OnGroup(op, c, k) == CASE op = "activated" -> GroupActivate(c, k)
                       [] op = "frz"       -> GroupFreeze(c, k)
                       [] op = "fin"       -> GroupFinalize(c, k)
                       [] op = "rel"       -> GroupRelease(c, k)

(* work::Threads and tcp::Threads hold the group.                           *)

WorkThreads(op, c, k, mods) == PassOn(op, k, mods, OnGroup(op, c, k))
WorkThreadsRelease(c, k, mods) == PassOn("rel", k, mods, GroupRelease(c, k))
TCPThreads(op, c, k, mods) == PassOn(op, k, mods, OnGroup(op, c, k))
TCPThreadsRelease(c, k, mods) == PassOn("rel", k, mods, GroupRelease(c, k))

(* The burden, global, proto and web modules hold one of those.             *)

BurdenLoadWorkThreads == Loaded(Of("burden"), "inner")
BurdenThreadsInitialize == LoadedAround(Of("burden"), "threads", BurdenLoadWorkThreads)
BurdenThreadsNotFrozen(op, c) ==
    IF op = "frz" THEN <<>> ELSE WorkThreads(op, c, "burden", <<"threads", "inner">>)
BurdenThreads(op, c) == WorkThreads(op, c, "burden", <<"threads", "inner">>)

BurdenThreadsRelease(c) == WorkThreadsRelease(c, "burden", <<"threads", "inner">>)

GlobalLoadWorkThreads == Loaded(Of("global"), "inner")
GlobalThreadsInitialize == LoadedAround(Of("global"), "threads", GlobalLoadWorkThreads)
GlobalThreads(op, c) == WorkThreads(op, c, "global", <<"threads", "inner">>)
GlobalThreadsRelease(c) == WorkThreadsRelease(c, "global", <<"threads", "inner">>)

ProtoLoadTCPThreads == Loaded(Of("proto"), "inner")
ProtoThreadsInitialize == LoadedAround(Of("proto"), "threads", ProtoLoadTCPThreads)
ProtoThreads(op, c) == TCPThreads(op, c, "proto", <<"threads", "inner">>)
ProtoThreadsRelease(c) == TCPThreadsRelease(c, "proto", <<"threads", "inner">>)

WebLoadTCPThreads == Loaded(Of("web"), "inner")
WebThreadsInitialize == LoadedAround(Of("web"), "threads", WebLoadTCPThreads)
WebThreads(op, c) == TCPThreads(op, c, "web", <<"threads", "inner">>)
WebThreadsRelease(c) == TCPThreadsRelease(c, "web", <<"threads", "inner">>)

LoadKind(k) == CASE k = "global" -> GlobalThreadsInitialize
                 [] k = "burden" -> BurdenThreadsInitialize
                 [] k = "proto"  -> ProtoThreadsInitialize
                 [] k = "web"    -> WebThreadsInitialize
                 [] OTHER        -> Loaded(Of(k), "threads")

OnKind(op, c, k) == CASE k = "global" -> GlobalThreads(op, c)
                      [] k = "burden" -> BurdenThreads(op, c)
                      [] k = "proto"  -> ProtoThreads(op, c)
                      [] k = "web"    -> WebThreads(op, c)
                      [] k = "work"   -> WorkThreads(op, c, k, <<"threads">>)
                      [] k = "tcp"    -> TCPThreads(op, c, k, <<"threads">>)

ReleaseKind(c, k) == CASE k = "global" -> GlobalThreadsRelease(c)
                       [] k = "burden" -> BurdenThreadsRelease(c)
                       [] k = "proto"  -> ProtoThreadsRelease(c)
                       [] k = "web"    -> WebThreadsRelease(c)
                       [] k = "work"   -> WorkThreadsRelease(c, k, <<"threads">>)
                       [] k = "tcp"    -> TCPThreadsRelease(c, k, <<"threads">>)

-----------------------------------------------------------------------------
(* AppFrame.                                                                *)

Order == <<"global", "work", "burden", "tcp", "proto", "web">>
Configured(c) == SelectSeq(Order, LAMBDA k: c.count[k] > 0)

CreateAllThreads(c) == ForEach(Configured(c), LAMBDA k: CreateThreadGroup(c, k))
AppFrameInitialize(c) ==
    Do("make", App, <<"sync_mutex", "sync_cond", "conf_mgr">>)
        \o ForEach(Configured(c), LoadKind) \o CreateAllThreads(c)
AppFrameActivate(c) ==
    ForEach(Configured(c), LAMBDA k: OnKind("activated", c, k))
        \o ForEach(Configured(c), LAMBDA k: [i \in 1..c.count[k] |-> <<"start", <<k, i>>, "thread">>])
AppFrameFreeze(c) == ForEach(Reverse(Configured(c)), LAMBDA k: OnKind("frz", c, k))
AppFrameFinalize(c) ==
    ForEach(Reverse(Configured(c)), LAMBDA k: OnKind("fin", c, k))
        \o Do("fin", App, <<"conf_mgr">>) \o Do("free", App, <<"sync_mutex", "sync_cond">>)
AppFrameRelease(c) ==
    ForEach(Reverse(Configured(c)), LAMBDA k: ReleaseKind(c, k)) \o Do("rel", App, <<"conf_mgr">>)

(* ServiceMgr, EventWrapper and AppLauncher.  The event wrapper, a part of   *)
(* the launcher, exists here once SetAppLauncher has given it its pointer.   *)

LoadLogEngine == Loaded(App, "log_engine")
LoadConfCenter == Loaded(App, "conf_center")
LoadThreadCenter == Loaded(App, "thread_center")
ServiceMgrInitialize == LoadLogEngine \o LoadConfCenter \o LoadThreadCenter
ServiceMgrActivate == Do("act", App, <<"log_engine", "conf_center", "thread_center">>)
ServiceMgrFreeze == Do("frz", App, <<"thread_center", "conf_center", "log_engine">>)
ServiceMgrFinalize == Do("fin", App, <<"thread_center", "conf_center", "log_engine">>)
ServiceMgrRelease == Do("rel", App, <<"thread_center", "conf_center", "log_engine">>)

EventWrapperInitialize == Do("make", App, <<"inotify", "stop_event">>)
EventWrapperFinalize == Do("free", App, <<"exit_check_timer", "inotify", "stop_event">>)

LoadAppFrame(c) == LoadedAround(App, "app_frame", AppFrameInitialize(c))
LauncherInitialize(c) ==
    Do("check", App, <<"single_run", "pid">>) \o Do("set", App, <<"event_wrapper">>)
        \o ServiceMgrInitialize
        \o Do("make", App, <<"main_ev_base">>) \o LoadAppFrame(c) \o EventWrapperInitialize
LauncherActivate(c) ==
    ServiceMgrActivate \o AppFrameActivate(c) \o Do("activated", App, <<"app_frame">>)
LauncherFreeze(c) == Do("frz", App, <<"app_frame">>) \o AppFrameFreeze(c) \o ServiceMgrFreeze
LauncherFinalize(c) ==
    EventWrapperFinalize \o Do("fin", App, <<"app_frame">>) \o AppFrameFinalize(c)
        \o ServiceMgrFinalize \o Do("free", App, <<"main_ev_base">>)
LauncherRelease(c) ==
    AppFrameRelease(c) \o Do("rel", App, <<"app_frame">>) \o ServiceMgrRelease
        \o Do("free", App, <<"event_wrapper">>)

LauncherDestroy(c) == LauncherFreeze(c) \o LauncherFinalize(c) \o LauncherRelease(c)
=============================================================================
