----------------------------- MODULE LifeTables -----------------------------
(***************************************************************************)
(* What the nested components of a process do in Initialize, Activate,      *)
(* Freeze, Finalize and Release: one definition for each function, the      *)
(* sequence of the steps it takes.  A step is <<op, owner, member>>.  The   *)
(* owner is App for what the process has once, <<k, 0>> for what a kind of  *)
(* threads has once, and <<k, i>> for what the i-th thread of the kind has. *)
(* The functions of nested components are expanded in place.                *)
(*                                                                         *)
(*   new          allocated, cannot fail                                    *)
(*   load         module loaded from its .so                                *)
(*   make         created or initialized in one call: a resource of the     *)
(*                system or a member that is part of its owner              *)
(*   init, act    Initialize and Activate of a leaf                         *)
(*   initialized, activated   the return of a function that has nested ones *)
(*   start        thread started                                            *)
(*   frz, fin     Freeze and Finalize                                       *)
(*   free, rel    resource freed in Finalize, object released               *)
(***************************************************************************)
EXTENDS Naturals, Sequences, SequencesExt

CONSTANT Logics                \* the .so names of a group of logics, in order

TCPKinds == {"tcp", "proto", "web"}
WorkKinds == {"global", "work", "burden"}
Kinds == TCPKinds \union WorkKinds

App == <<"app", 0>>
Of(k) == <<k, 0>>

\* A configuration: the number of threads of each kind, and whether a common
\* logic is configured beside the logics.
ConfType == [count: [Kinds -> Nat], common: BOOLEAN]

Do(op, t, names) == [j \in 1..Len(names) |-> <<op, t, names[j]>>]
ForEach(seq, Steps(_)) == FlattenSeq([j \in 1..Len(seq) |-> Steps(seq[j])])
Threads(c, k) == [i \in 1..c.count[k] |-> <<k, i>>]

\* A module loaded and initialized, its own nested components in between.
Loaded(t, n) == Do("load", t, <<n>>) \o Do("init", t, <<n>>)
LoadedAround(t, n, inner) == Do("load", t, <<n>>) \o inner \o Do("initialized", t, <<n>>)
LoadedIf(configured, t, n) == IF configured THEN Loaded(t, n) ELSE <<>>

-----------------------------------------------------------------------------
(* ProtoLogic and WebLogic, logics of a tcp thread that hold logics.        *)

LoadProtoTCPCommonLogic(c, t) == LoadedIf(c.common, t, "common")
LoadProtoTCPLogicGroup(t) == ForEach(Logics, LAMBDA n: Loaded(t, n))
ProtoInitialize(c, t) == Do("make", t, <<"part_msg_mgr">>) \o LoadProtoTCPCommonLogic(c, t)
                         \o LoadProtoTCPLogicGroup(t)
ProtoActivate(t) == Do("act", t, <<"part_msg_mgr", "common">> \o Logics)
ProtoFreeze(t) == Do("frz", t, Logics \o <<"common", "part_msg_mgr">>)
ProtoFinalize(t) == Do("fin", t, Logics \o <<"common", "part_msg_mgr">>)
ProtoRelease(t) == Do("rel", t, Logics \o <<"common", "part_msg_mgr">>)

LoadWebCommonLogic(c, t) == LoadedIf(c.common, t, "common")
LoadWebLogicGroup(t) == ForEach(Logics, LAMBDA n: Loaded(t, n))
WebInitialize(c, t) == Do("make", t, <<"part_msg_mgr">>) \o LoadWebCommonLogic(c, t)
                       \o LoadWebLogicGroup(t)
WebActivate(t) == Do("act", t, <<"part_msg_mgr", "common">> \o Logics)
WebFreeze(t) == Do("frz", t, Logics \o <<"common", "part_msg_mgr">>)
WebFinalize(t) == Do("fin", t, Logics \o <<"common", "part_msg_mgr">>)
WebRelease(t) == Do("rel", t, Logics \o <<"common", "part_msg_mgr">>)

(* BurdenLogic and GlobalLogic, logics of a work thread that hold logics.   *)

LoadBurdenCommonLogic(c, t) == LoadedIf(c.common, t, "common")
LoadBurdenLogicGroup(t) == ForEach(Logics, LAMBDA n: Loaded(t, n))
BurdenInitialize(c, t) == LoadBurdenCommonLogic(c, t) \o LoadBurdenLogicGroup(t)
BurdenActivate(t) == Do("act", t, <<"common">> \o Logics)
BurdenFreeze(t) == Do("frz", t, Logics \o <<"common">>)
BurdenFinalize(t) == Do("fin", t, Logics \o <<"common">>)
BurdenRelease(t) == Do("rel", t, Logics \o <<"common">>)

LoadGlobalLogic(t) == Loaded(t, "global_logic")
GlobalActivate(t) == Do("act", t, <<"global_logic">>)
GlobalFreeze(t) == Do("frz", t, <<"global_logic">>)
GlobalFinalize(t) == Do("fin", t, <<"global_logic">>)
GlobalRelease(t) == Do("rel", t, <<"global_logic">>)

-----------------------------------------------------------------------------
(* The logics a ThreadSink holds: of its configuration, or the one logic    *)
(* the burden, global, proto and web modules push into the configuration.   *)

SinkLogics(k) == CASE k = "proto"  -> <<"ProtoLogic">>
                   [] k = "web"    -> <<"WebLogic">>
                   [] k = "burden" -> <<"BurdenLogic">>
                   [] k = "global" -> <<"GlobalLogic">>
                   [] OTHER        -> Logics

LoadLogic(c, t, n) == CASE n = "ProtoLogic"  -> LoadedAround(t, n, ProtoInitialize(c, t))
                        [] n = "WebLogic"    -> LoadedAround(t, n, WebInitialize(c, t))
                        [] n = "BurdenLogic" -> LoadedAround(t, n, BurdenInitialize(c, t))
                        [] n = "GlobalLogic" -> LoadedAround(t, n, LoadGlobalLogic(t))
                        [] OTHER             -> Loaded(t, n)

\* What a logic's Activate, Freeze, Finalize and Release do to what it holds.
Held(t, n, Proto(_), Web(_), Burden(_), Global(_)) ==
    CASE n = "ProtoLogic"  -> Proto(t)
      [] n = "WebLogic"    -> Web(t)
      [] n = "BurdenLogic" -> Burden(t)
      [] n = "GlobalLogic" -> Global(t)
      [] OTHER             -> <<>>

IsHost(n) == n \in {"ProtoLogic", "WebLogic", "BurdenLogic", "GlobalLogic"}

ActivateLogic(t, n) ==
    Held(t, n, ProtoActivate, WebActivate, BurdenActivate, GlobalActivate)
        \o Do(IF IsHost(n) THEN "activated" ELSE "act", t, <<n>>)
FreezeLogic(t, n) ==
    Do("frz", t, <<n>>) \o Held(t, n, ProtoFreeze, WebFreeze, BurdenFreeze, GlobalFreeze)
FinalizeLogic(t, n) ==
    Do("fin", t, <<n>>) \o Held(t, n, ProtoFinalize, WebFinalize, BurdenFinalize, GlobalFinalize)
ReleaseLogic(t, n) ==
    Held(t, n, ProtoRelease, WebRelease, BurdenRelease, GlobalRelease) \o Do("rel", t, <<n>>)

-----------------------------------------------------------------------------
(* The ThreadSink of the tcp threads.                                       *)

HasCommon(c, k) == c.common /\ k \in {"tcp", "work"}

TCPLoadCommonLogic(c, t) == LoadedIf(HasCommon(c, t[1]), t, "common")
TCPLoadLogicGroup(c, t) == ForEach(SinkLogics(t[1]), LAMBDA n: LoadLogic(c, t, n))
TCPOnInitialize(c, t) ==
    Do("make", t, <<"listener", "conn_center", "scheduler">>)
        \o TCPLoadCommonLogic(c, t) \o TCPLoadLogicGroup(c, t)
TCPOnActivate(t) == Do("act", t, <<"conn_center", "common">>)
                        \o ForEach(SinkLogics(t[1]), LAMBDA n: ActivateLogic(t, n))
TCPOnFreeze(t) == ForEach(SinkLogics(t[1]), LAMBDA n: FreezeLogic(t, n))
                      \o Do("frz", t, <<"common", "conn_center">>)
TCPOnFinalizeConnsFirst(t) ==
    Do("fin", t, <<"conn_center">>) \o ForEach(SinkLogics(t[1]), LAMBDA n: FinalizeLogic(t, n))
        \o Do("fin", t, <<"common", "scheduler">>) \o Do("free", t, <<"listener">>)
TCPOnFinalize(t) ==
    ForEach(SinkLogics(t[1]), LAMBDA n: FinalizeLogic(t, n))
        \o Do("fin", t, <<"common", "scheduler", "conn_center">>) \o Do("free", t, <<"listener">>)

TCPRelease(t) == ForEach(SinkLogics(t[1]), LAMBDA n: ReleaseLogic(t, n))
                     \o Do("rel", t, <<"common", "conn_center", "scheduler">>)

(* The ThreadSink of the work threads.                                      *)

WorkLoadCommonLogic(c, t) == LoadedIf(HasCommon(c, t[1]), t, "common")
WorkLoadLogicGroup(c, t) == ForEach(SinkLogics(t[1]), LAMBDA n: LoadLogic(c, t, n))
LoadTransCenter(t) == Loaded(t, "trans_center")
LoadClientCenterMgr(t) == Loaded(t, "client_center_mgr")
WorkOnInitialize(c, t) ==
    Do("make", t, <<"scheduler">>) \o LoadTransCenter(t) \o LoadClientCenterMgr(t)
        \o WorkLoadCommonLogic(c, t) \o WorkLoadLogicGroup(c, t)
WorkOnActivate(t) ==
    Do("act", t, <<"trans_center", "client_center_mgr">>)
        \o Do("make", t, <<"tcp_clients">>) \o Do("activated", t, <<"tcp_clients">>)
        \o Do("make", t, <<"http_clients">>) \o Do("activated", t, <<"http_clients">>)
        \o Do("act", t, <<"common">>) \o ForEach(SinkLogics(t[1]), LAMBDA n: ActivateLogic(t, n))
WorkOnFreeze(t) ==
    ForEach(SinkLogics(t[1]), LAMBDA n: FreezeLogic(t, n))
        \o Do("frz", t, <<"common", "client_center_mgr", "tcp_clients", "http_clients",
                          "trans_center">>)
WorkOnFinalize(t) ==
    ForEach(SinkLogics(t[1]), LAMBDA n: FinalizeLogic(t, n))
        \o Do("fin", t, <<"common", "client_center_mgr", "tcp_clients", "http_clients",
                          "trans_center", "scheduler">>)
WorkReleaseKeepsTrans(t) ==
    ForEach(SinkLogics(t[1]), LAMBDA n: ReleaseLogic(t, n))
        \o Do("rel", t, <<"common", "tcp_clients", "http_clients", "client_center_mgr",
                          "scheduler">>)
WorkRelease(t) ==
    ForEach(SinkLogics(t[1]), LAMBDA n: ReleaseLogic(t, n))
        \o Do("rel", t, <<"common", "tcp_clients", "http_clients", "client_center_mgr",
                          "trans_center", "scheduler">>)

-----------------------------------------------------------------------------
(* Thread, ThreadGroup and ThreadCenter::CreateThreadGroup.                 *)

IsTCP(t) == t[1] \in TCPKinds

LoadTimerAxis(t) == Loaded(t, "timer_axis")
ThreadInitialize(c, t) ==
    Do("make", t, <<"pipe", "ev_base">>) \o LoadTimerAxis(t)
        \o (IF IsTCP(t) THEN TCPOnInitialize(c, t) ELSE WorkOnInitialize(c, t))
        \o Do("initialized", t, <<"sink", "thread">>)
ThreadActivate(t) ==
    Do("act", t, <<"timer_axis">>) \o (IF IsTCP(t) THEN TCPOnActivate(t) ELSE WorkOnActivate(t))
        \o Do("activated", t, <<"sink", "thread">>)
ThreadFreeze(t) ==
    Do("frz", t, <<"thread", "sink">>) \o (IF IsTCP(t) THEN TCPOnFreeze(t) ELSE WorkOnFreeze(t))
        \o Do("frz", t, <<"timer_axis">>)
ThreadFinalize(t) ==
    Do("fin", t, <<"thread", "sink">>)
        \o (IF IsTCP(t) THEN TCPOnFinalize(t) ELSE WorkOnFinalize(t))
        \o Do("fin", t, <<"timer_axis">>) \o Do("free", t, <<"pipe", "ev_base">>)
ThreadRelease(t) ==
    (IF IsTCP(t) THEN TCPRelease(t) ELSE WorkRelease(t))
        \o Do("rel", t, <<"sink", "timer_axis", "thread">>)

ThreadDestroy(t) == ThreadFreeze(t) \o ThreadFinalize(t) \o ThreadRelease(t)

CreateThread(c, t) == Do("new", t, <<"sink", "thread">>) \o ThreadInitialize(c, t)
GroupActivate(c, k) == ForEach(Threads(c, k), ThreadActivate) \o Do("activated", Of(k), <<"group">>)
GroupFreeze(c, k) == Do("frz", Of(k), <<"group">>) \o ForEach(Threads(c, k), ThreadFreeze)
GroupFinalize(c, k) ==
    Do("fin", Of(k), <<"group">>) \o ForEach(Threads(c, k), ThreadFinalize)
        \o Do("free", Of(k), <<"tsd_key">>)
GroupRelease(c, k) == ForEach(Threads(c, k), ThreadRelease) \o Do("rel", Of(k), <<"group">>)
GroupDestroy(c, k) == GroupFreeze(c, k) \o GroupFinalize(c, k) \o GroupRelease(c, k)
CreateThreadGroup(c, k) ==
    Do("new", Of(k), <<"group">>) \o Do("make", Of(k), <<"tsd_key">>)
        \o ForEach(Threads(c, k), LAMBDA t: CreateThread(c, t))
        \o Do("initialized", Of(k), <<"group">>)
=============================================================================
