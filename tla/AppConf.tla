------------------------------ MODULE AppConf -------------------------------
(***************************************************************************)
(* AppFrame::Initialize: the configuration is checked and the threads it   *)
(* asks for are counted, the modules of the thread groups are loaded, the  *)
(* groups created and told of each other.  The count is taken from the     *)
(* listening addresses, the groups from the thread counts: Activate later  *)
(* waits for exactly the counted number of threads, so the two must agree. *)
(***************************************************************************)
EXTENDS Integers

CONSTANTS
    Counts,     \* the thread_count values a configuration may have
    StartConfs  \* the configurations the process is started with

IOs == {"tcp", "proto_tcp", "web"}
Counted == IOs \cup {"work", "burden"}
Kinds == Counted \cup {"global"}

\* What is read from the configuration: whether there is a global logic, the
\* thread counts, whether there is a group of logics, and, for the io groups,
\* whether there is a listening address.
Confs == [global : BOOLEAN, count : [Counted -> Counts],
          logics : [Counted -> BOOLEAN], addr : [IOs -> BOOLEAN]]

ASSUME ConfAssumption == Counts \subseteq Int /\ StartConfs \subseteq Confs

VARIABLES
    conf,           \* conf_mgr_
    phase,          \* how far Initialize has come
    threads_count,  \* app_frame_threads_count_
    loaded,         \* the groups whose Threads module is loaded
    created,        \* created[k]: threads of k's thread group, 0 without group
    related         \* related[k]: the groups k's sinks have pointers to

confVars == <<conf, phase, threads_count, loaded, created, related>>

ConfInit ==
    /\ conf \in StartConfs
    /\ phase = "start"
    /\ threads_count = 0
    /\ loaded = {}
    /\ created = [k \in Kinds |-> 0]
    /\ related = [k \in Kinds |-> {}]

Fail(how) == phase' = how /\ UNCHANGED <<conf, threads_count, loaded, created, related>>

-----------------------------------------------------------------------------
\* The check of an io group that has an address.
IOAccepted(k) ==
    /\ conf.count[k] # 0
    /\ conf.count["work"] = 0 => conf.logics[k]

\* Mutant: burden threads without work threads pass.
WorkAcceptedBurdenAlone == conf.count["burden"] > 0 => conf.logics["burden"]

\* The checks of the work and burden groups.
WorkAccepted ==
    /\ ~(conf.count["work"] = 0 /\ conf.count["burden"] > 0)
    /\ conf.count["burden"] > 0 => conf.logics["burden"]
    /\ (/\ conf.count["work"] > 0 /\ conf.count["burden"] = 0
        /\ ~conf.logics["tcp"] /\ ~conf.logics["proto_tcp"])
           => conf.logics["work"]

\* What LoadAndCheckConf lets pass.
Accepted ==
    /\ \A k \in IOs : conf.addr[k] => IOAccepted(k)
    /\ WorkAccepted
    /\ \E k \in IOs : conf.addr[k]

\* The groups it counts the threads of, the global thread aside.
CountedKinds ==
    {k \in IOs : conf.addr[k]} \cup {k \in {"work", "burden"} : conf.count[k] > 0}

\* How many threads of each kind it counts.
CountedThreads ==
    [k \in Kinds |-> IF k \in CountedKinds THEN conf.count[k]
                     ELSE IF k = "global" /\ conf.global THEN 1 ELSE 0]

Total(n) ==
    n["global"] + n["work"] + n["burden"] + n["tcp"] + n["proto_tcp"] + n["web"]

LoadAndCheckConf ==
    /\ phase = "start"
    /\ \/ /\ Accepted
          /\ threads_count' = Total(CountedThreads)
          /\ phase' = "checked"
          /\ UNCHANGED <<conf, loaded, created, related>>
       \/ ~Accepted /\ Fail("refused")

\* LoadGlobalThread .. LoadWebThreads: which modules are loaded.
Wanted ==
    {k \in IOs \cup {"work"} : conf.count[k] # 0}
      \cup (IF conf.global THEN {"global"} ELSE {})
      \cup (IF conf.count["work"] # 0 /\ conf.count["burden"] # 0
            THEN {"burden"} ELSE {})

LoadThreads ==
    /\ phase = "checked"
    /\ \/ /\ loaded' = Wanted
          /\ phase' = "loaded"
          /\ UNCHANGED <<conf, threads_count, created, related>>
       \/ Fail("failed")

\* The groups CreateAllThreads creates.
ToCreate ==
    {k \in Counted : conf.count[k] > 0} \cup (IF conf.global THEN {"global"} ELSE {})

\* An io thread listens in its OnInitialize, which parses the address.
Listens(k) == k \in IOs => conf.addr[k]

\* CreateAllThreads: a thread whose sink does not initialize fails all.
CreateAllThreads ==
    /\ phase = "loaded"
    /\ \/ /\ \A k \in ToCreate : Listens(k)
          /\ created' = [k \in Kinds |-> IF k \notin ToCreate THEN 0
                                         ELSE IF k = "global" THEN 1
                                         ELSE conf.count[k]]
          /\ phase' = "created"
          /\ UNCHANGED <<conf, threads_count, loaded, related>>
       \/ Fail("failed")

\* Whom SetThreadsRelationship tells of whom.
Related(k) ==
    CASE k = "global" -> {"work", "burden"} \cup IOs
      [] k = "work" -> Kinds
      [] k = "burden" -> {"global", "burden"}
      [] k \in IOs -> {"global", "work"}

\* SetRelatedThreadGroups goes through the threads of k's group: a module that
\* is loaded without group is a null pointer there.
SetThreadsRelationship ==
    /\ phase = "created"
    /\ \/ /\ \A k \in loaded : created[k] > 0
          /\ related' = [k \in Kinds |-> IF k \in loaded
                                         THEN Related(k) \cap loaded ELSE {}]
          /\ phase' = "ready"
          /\ UNCHANGED <<conf, threads_count, loaded, created>>
       \/ ~(\A k \in loaded : created[k] > 0) /\ Fail("crashed")

ConfNext == LoadAndCheckConf \/ LoadThreads \/ CreateAllThreads \/ SetThreadsRelationship

ConfSpec == ConfInit /\ [][ConfNext]_confVars

-----------------------------------------------------------------------------
\* Types of what app_frame reads, counts and creates while it starts.
ConfTypeOK ==
    /\ conf \in Confs
    /\ phase \in {"start", "checked", "loaded", "created", "ready", "refused",
                  "failed", "crashed"}
    /\ threads_count \in Int
    /\ loaded \subseteq Kinds
    /\ created \in [Kinds -> Nat]
    /\ related \in [Kinds -> SUBSET Kinds]

\* Activate waits for the threads that exist: after a successful Initialize
\* the number LoadAndCheckConf counted is the number of threads created.
CountsMatch ==
    /\ ConfTypeOK
    /\ phase = "ready" => threads_count = Total(created)

\* CreateAllThreads calls only modules that were loaded: the conditions of
\* LoadBurdenThreads and CreateAllThreads differ, the check makes up for it.
CreatesLoaded == phase = "loaded" => ToCreate \subseteq loaded

\* A configuration without negative counts never leaves a loaded module
\* without thread group, which SetThreadsRelationship, NotifyReload, CanExit
\* and NotifyExitAndJoin would follow as a null pointer.
NoNullGroup == (\A k \in Counted : conf.count[k] >= 0) => phase # "crashed"

\* Whatever a client sends has somebody to handle it: an io group runs only
\* with logics of its own or with work threads to pass the data on to.
DataIsHandled ==
    phase = "ready" =>
        \A k \in IOs : created[k] > 0 =>
            conf.logics[k] \/ (created["work"] > 0 /\ "work" \in related[k])

\* The repository README's rules of who may schedule tasks to whom.
Schedulable(k) ==
    CASE k = "global" -> Kinds \ {"global"}
      [] k \in {"work", "burden"} -> Kinds
      [] k \in IOs -> {"global", "work"}

\* SetThreadsRelationship relates every group but the burden group to exactly
\* the groups the repository's README lets it schedule tasks to.
RelatedAsDocumented ==
    phase = "ready" =>
        \A k \in loaded \ {"burden"} : related[k] = Schedulable(k) \cap loaded

\* The rules LoadAndCheckConf's comments state.
Sound ==
    /\ \E k \in IOs : conf.addr[k]
    /\ \A k \in IOs : conf.addr[k] => conf.count[k] > 0
    /\ conf.count["work"] <= 0 =>
         conf.count["burden"] <= 0 /\ \A k \in IOs : conf.addr[k] => conf.logics[k]
    /\ conf.count["burden"] > 0 => conf.logics["burden"]
    /\ (conf.count["work"] > 0 /\ conf.count["burden"] <= 0
           /\ \A k \in IOs : ~conf.logics[k]) => conf.logics["work"]

\* What passes the check obeys the rules, for counts that are not negative.
AcceptedIsSound ==
    phase \notin {"start", "refused"} /\ (\A k \in Counted : conf.count[k] >= 0)
        => Sound

\* What a configuration that passes the check leads to: the threads counted
\* are those created, from modules that were loaded, no group is missing, and
\* the groups are related as the repository's README says, and what a client
\* sends has a handler.
StartIsSound ==
    /\ CountsMatch /\ CreatesLoaded /\ NoNullGroup
    /\ RelatedAsDocumented /\ AcceptedIsSound /\ DataIsHandled
=============================================================================
