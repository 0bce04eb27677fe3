---------------------------- MODULE DispatchProofs ---------------------------
(***************************************************************************)
(* Proofs about the start of the process (AppConf) and about the           *)
(* schedulers of the threads it creates (Dispatch), for every set of       *)
(* configurations and, in Dispatch, any number of calls.                   *)
(***************************************************************************)
EXTENDS Dispatch, TLAPS

-----------------------------------------------------------------------------
\* The start.  What each phase of Initialize has established.

\* After LoadAndCheckConf.
CheckedPart ==
    phase \notin {"start", "refused"} => Accepted /\ threads_count = Total(CountedThreads)

\* After LoadGlobalThread .. LoadWebThreads.
LoadedPart == phase \in {"loaded", "created", "ready", "crashed"} => loaded = Wanted

\* After CreateAllThreads.
CreatedPart ==
    phase \in {"created", "ready", "crashed"} =>
        /\ \A k \in ToCreate : Listens(k)
        /\ \A k \in Kinds : created[k] = IF k \notin ToCreate THEN 0
                                         ELSE IF k = "global" THEN 1 ELSE conf.count[k]

\* After SetThreadsRelationship.
ReadyPart ==
    /\ phase = "ready" => /\ \A k \in loaded : created[k] > 0
                          /\ related = [k \in Kinds |-> IF k \in loaded
                                                        THEN Related(k) \cap loaded ELSE {}]
    /\ phase = "crashed" => \E k \in loaded : ~(created[k] > 0)

StartInv == ConfTypeOK /\ CheckedPart /\ LoadedPart /\ CreatedPart /\ ReadyPart

\* Related gives every kind a set of kinds.
LEMMA RelatedType == \A k \in Kinds : Related(k) \subseteq Kinds
  BY DEF Related, Kinds, Counted, IOs

\* What the start begins with.
LEMMA StartInvInit == ConfInit => StartInv
  <1> SUFFICES ASSUME ConfInit PROVE StartInv
    OBVIOUS
  <1>1. ConfTypeOK
    BY ConfAssumption DEF ConfInit, ConfTypeOK
  <1>2. CheckedPart /\ LoadedPart /\ CreatedPart /\ ReadyPart
    BY DEF ConfInit, CheckedPart, LoadedPart, CreatedPart, ReadyPart
  <1> QED
    BY <1>1, <1>2 DEF StartInv

\* The counts are integers, the modules wanted are of known kinds.
LEMMA ConfFacts ==
  ASSUME conf \in Confs
  PROVE  /\ Total(CountedThreads) \in Int
         /\ Wanted \subseteq Kinds
         /\ ToCreate \subseteq Kinds
         /\ \A k \in Counted : conf.count[k] \in Int
  <1>1. \A k \in Counted : conf.count[k] \in Int
    BY ConfAssumption DEF Confs
  <1>2. CountedKinds \subseteq Counted
    BY DEF CountedKinds, Counted
  <1>3. \A k \in Kinds : CountedThreads[k] \in Int
    BY <1>1, <1>2 DEF CountedThreads
  <1>4. Total(CountedThreads) \in Int
    BY <1>3 DEF Total, Kinds, Counted, IOs
  <1>5. Wanted \subseteq Kinds
    BY DEF Wanted, Kinds, Counted
  <1>6. ToCreate \subseteq Kinds
    BY DEF ToCreate, Kinds
  <1> QED
    BY <1>1, <1>4, <1>5, <1>6

\* A step leaves the configuration alone.
LEMMA ConfStays == ConfNext => conf' = conf
  BY DEF ConfNext, LoadAndCheckConf, LoadThreads, CreateAllThreads, SetThreadsRelationship, Fail

\* What depends on the configuration only stays.
LEMMA ConfTermsStay ==
  ASSUME conf' = conf
  PROVE  /\ (Accepted' <=> Accepted)
         /\ CountedThreads' = CountedThreads
         /\ Wanted' = Wanted
         /\ ToCreate' = ToCreate
         /\ \A k \in Kinds : Listens(k)' <=> Listens(k)
  <1>1. Accepted' <=> Accepted
    BY DEF Accepted, IOAccepted, WorkAccepted
  <1>2. CountedThreads' = CountedThreads
    BY DEF CountedThreads, CountedKinds
  <1>3. Wanted' = Wanted
    BY DEF Wanted
  <1>4. ToCreate' = ToCreate
    BY DEF ToCreate
  <1>5. \A k \in Kinds : Listens(k)' <=> Listens(k)
    BY DEF Listens
  <1> QED
    BY <1>1, <1>2, <1>3, <1>4, <1>5

\* A failure keeps what was established.
LEMMA StartInvFail ==
  ASSUME StartInv, NEW how \in {"refused", "failed"}, Fail(how),
         how = "refused" => phase = "start", how = "failed" => phase # "start",
         phase \notin {"refused", "ready", "crashed"}
  PROVE  StartInv'
  <1>0. conf' = conf
    BY DEF Fail
  <1>1. ConfTypeOK'
    BY DEF StartInv, ConfTypeOK, Fail
  <1>2. CheckedPart'
    BY <1>0, ConfTermsStay DEF StartInv, CheckedPart, Fail
  <1>3. LoadedPart' /\ CreatedPart' /\ ReadyPart'
    BY DEF Fail, LoadedPart, CreatedPart, ReadyPart
  <1> QED
    BY <1>1, <1>2, <1>3 DEF StartInv

\* Every step of the start keeps what was established.
LEMMA StartInvNext == StartInv /\ [ConfNext]_confVars => StartInv'
  <1> SUFFICES ASSUME StartInv, [ConfNext]_confVars PROVE StartInv'
    OBVIOUS
  <1>a. CASE UNCHANGED confVars
    <2>1. conf' = conf
      BY <1>a DEF confVars
    <2>2. ConfTypeOK'
      BY <1>a DEF StartInv, ConfTypeOK, confVars
    <2>3. CheckedPart' /\ LoadedPart'
      BY <1>a, <2>1, ConfTermsStay DEF StartInv, CheckedPart, LoadedPart, confVars
    <2>4. CreatedPart'
      BY <1>a DEF StartInv, CreatedPart, confVars, ToCreate, Listens
    <2>5. ReadyPart'
      BY <1>a DEF StartInv, ReadyPart, confVars
    <2> QED
      BY <2>2, <2>3, <2>4, <2>5 DEF StartInv
  <1>b. CASE LoadAndCheckConf
    <2>1. CASE ~Accepted /\ Fail("refused")
      BY <1>b, <2>1, StartInvFail DEF LoadAndCheckConf
    <2>2. CASE Accepted
      <3>0. /\ phase = "start" /\ phase' = "checked" /\ threads_count' = Total(CountedThreads)
            /\ UNCHANGED <<conf, loaded, created, related>>
        BY <1>b, <2>2 DEF LoadAndCheckConf
      <3>1. ConfTypeOK'
        BY <3>0, ConfFacts DEF StartInv, ConfTypeOK
      <3>2. CheckedPart'
        BY <3>0, <2>2, ConfTermsStay DEF CheckedPart
      <3>3. LoadedPart' /\ CreatedPart' /\ ReadyPart'
        BY <3>0 DEF LoadedPart, CreatedPart, ReadyPart
      <3> QED
        BY <3>1, <3>2, <3>3 DEF StartInv
    <2> QED
      BY <1>b, <2>1, <2>2 DEF LoadAndCheckConf
  <1>c. CASE LoadThreads
    <2>1. CASE Fail("failed")
      BY <1>c, <2>1, StartInvFail DEF LoadThreads
    <2>2. CASE ~Fail("failed")
      <3>0. /\ phase = "checked" /\ phase' = "loaded" /\ loaded' = Wanted
            /\ UNCHANGED <<conf, threads_count, created, related>>
        BY <1>c, <2>2 DEF LoadThreads
      <3>1. ConfTypeOK'
        BY <3>0, ConfFacts DEF StartInv, ConfTypeOK
      <3>2. CheckedPart' /\ LoadedPart'
        BY <3>0, ConfTermsStay DEF CheckedPart, LoadedPart, StartInv
      <3>3. CreatedPart' /\ ReadyPart'
        BY <3>0 DEF CreatedPart, ReadyPart
      <3> QED
        BY <3>1, <3>2, <3>3 DEF StartInv
    <2> QED
      BY <2>1, <2>2
  <1>d. CASE CreateAllThreads
    <2>1. CASE Fail("failed")
      BY <1>d, <2>1, StartInvFail DEF CreateAllThreads
    <2>2. CASE ~Fail("failed")
      <3>0. /\ phase = "loaded" /\ phase' = "created"
            /\ \A k \in ToCreate : Listens(k)
            /\ created' = [k \in Kinds |-> IF k \notin ToCreate THEN 0
                                           ELSE IF k = "global" THEN 1 ELSE conf.count[k]]
            /\ UNCHANGED <<conf, threads_count, loaded, related>>
        BY <1>d, <2>2 DEF CreateAllThreads
      <3>1. \A k \in Kinds : created'[k] \in Nat
        <4> SUFFICES ASSUME NEW k \in Kinds, k \in ToCreate, k # "global" PROVE conf.count[k] \in Nat
          BY <3>0
        <4>1. k \in Counted /\ conf.count[k] > 0
          BY DEF ToCreate
        <4> QED
          BY <4>1, ConfFacts DEF StartInv, ConfTypeOK
      <3>2. ConfTypeOK'
        BY <3>0, <3>1 DEF StartInv, ConfTypeOK
      <3>3. CheckedPart' /\ LoadedPart'
        BY <3>0, ConfTermsStay DEF CheckedPart, LoadedPart, StartInv
      <3>4. CreatedPart'
        BY <3>0 DEF CreatedPart, ToCreate, Listens
      <3>5. ReadyPart'
        BY <3>0 DEF ReadyPart
      <3> QED
        BY <3>2, <3>3, <3>4, <3>5 DEF StartInv
    <2> QED
      BY <2>1, <2>2
  <1>e. CASE SetThreadsRelationship
    <2>0. conf' = conf /\ phase = "created" /\ phase' \in {"ready", "crashed"}
          /\ UNCHANGED <<threads_count, loaded, created>>
      BY <1>e DEF SetThreadsRelationship, Fail
    <2>1. related' \in [Kinds -> SUBSET Kinds]
      BY <1>e, RelatedType DEF StartInv, ConfTypeOK, SetThreadsRelationship, Fail
    <2>2. ConfTypeOK'
      BY <2>0, <2>1 DEF StartInv, ConfTypeOK
    <2>3. CheckedPart' /\ LoadedPart'
      BY <2>0, ConfTermsStay DEF CheckedPart, LoadedPart, StartInv
    <2>4. CreatedPart'
      BY <2>0 DEF StartInv, CreatedPart, ToCreate, Listens
    <2>5. ReadyPart'
      BY <1>e DEF ReadyPart, SetThreadsRelationship, Fail
    <2> QED
      BY <2>2, <2>3, <2>4, <2>5 DEF StartInv
  <1> QED
    BY <1>a, <1>b, <1>c, <1>d, <1>e DEF ConfNext
\* What a start that ends well knows of each group: a group is created when it
\* was loaded and counted, and then with the configured number of threads.
LEMMA ReadyGroups ==
  ASSUME StartInv, phase = "ready"
  PROVE  /\ \A k \in Counted : created[k] > 0 <=> k \in loaded
         /\ \A k \in Counted : CountedThreads[k] = created[k]
         /\ CountedThreads["global"] = created["global"]
         /\ \A k \in loaded : k \in ToCreate
         /\ \A k \in Kinds : created[k] > 0 => k \in loaded
  <1> USE DEF StartInv
  <1>0. conf \in Confs /\ Accepted /\ loaded = Wanted
    BY DEF ConfTypeOK, CheckedPart, LoadedPart
  <1>1. \A k \in Counted : conf.count[k] \in Int
    BY <1>0, ConfFacts
  <1>2. \A k \in Kinds : created[k] = IF k \notin ToCreate THEN 0
                                      ELSE IF k = "global" THEN 1 ELSE conf.count[k]
    BY DEF CreatedPart
  <1>3. \A k \in Wanted : created[k] > 0
    BY <1>0 DEF ReadyPart
  <1>4. \A k \in Wanted : k \in ToCreate
    <2> SUFFICES ASSUME NEW k \in Wanted, k \notin ToCreate PROVE FALSE
      OBVIOUS
    <2>1. k \in Kinds
      BY <1>0, ConfFacts
    <2> QED
      BY <1>2, <1>3, <2>1
  <1>5. \A k \in ToCreate : k \in Wanted
    <2> SUFFICES ASSUME NEW k \in ToCreate PROVE k \in Wanted
      OBVIOUS
    <2>1. CASE k = "global"
      BY <2>1 DEF ToCreate, Wanted, Counted, IOs
    <2>2. CASE k \in IOs \cup {"work"}
      <3>1. conf.count[k] > 0
        BY <2>2 DEF ToCreate, IOs
      <3> QED
        BY <2>2, <3>1, <1>1 DEF Wanted, Counted
    <2>3. CASE k = "burden"
      <3>1. conf.count["burden"] > 0
        BY <2>3 DEF ToCreate
      <3>2. conf.count["work"] # 0
        BY <1>0, <3>1 DEF Accepted, WorkAccepted
      <3>3. conf.count["burden"] # 0
        BY <3>1, <1>1 DEF Counted
      <3> QED
        BY <2>3, <3>2, <3>3 DEF Wanted
    <2> QED
      BY <2>1, <2>2, <2>3 DEF ToCreate, Counted
  <1>6. \A k \in Kinds : created[k] > 0 <=> k \in Wanted
    <2> TAKE k \in Kinds
    <2>1. CASE k \in ToCreate
      BY <2>1, <1>3, <1>5
    <2>2. CASE k \notin ToCreate
      BY <2>2, <1>2, <1>4
    <2> QED
      BY <2>1, <2>2
  <1>7. \A k \in Counted : CountedThreads[k] = created[k]
    <2> TAKE k \in Counted
    <2>0. /\ k \in Kinds /\ k # "global"
          /\ CountedThreads[k] = IF k \in CountedKinds THEN conf.count[k] ELSE 0
          /\ created[k] = IF k \notin ToCreate THEN 0 ELSE conf.count[k]
      <3>1. k \in Kinds /\ k # "global"
        BY DEF Kinds, Counted, IOs
      <3> QED
        BY <3>1, <1>2 DEF CountedThreads
    <2>1. k \in ToCreate => conf.count[k] > 0
      BY <2>0 DEF ToCreate
    <2>2. CASE k \in IOs
      <3>1. k \in CountedKinds <=> conf.addr[k]
        BY <2>2 DEF CountedKinds, IOs
      <3>2. conf.addr[k] => conf.count[k] # 0
        BY <1>0, <2>2 DEF Accepted, IOAccepted
      <3>3. conf.count[k] # 0 => k \in Wanted
        BY <2>2 DEF Wanted
      <3>4. k \in ToCreate => conf.addr[k]
        BY <2>2 DEF CreatedPart, Listens
      <3> QED
        BY <3>1, <3>2, <3>3, <3>4, <2>0, <1>4
    <2>3. CASE k \in {"work", "burden"}
      <3>1. k \in CountedKinds <=> conf.count[k] > 0
        BY <2>3 DEF CountedKinds, IOs
      <3>2. k \in ToCreate <=> conf.count[k] > 0
        BY <2>3 DEF ToCreate, Counted, IOs
      <3> QED
        BY <3>1, <3>2, <2>0
    <2> QED
      BY <2>2, <2>3 DEF Counted
  <1>8. CountedThreads["global"] = created["global"]
    <2>1. "global" \in Kinds /\ "global" \notin CountedKinds
      BY DEF CountedKinds, IOs, Kinds
    <2>2. CountedThreads["global"] = IF conf.global THEN 1 ELSE 0
      BY <2>1 DEF CountedThreads
    <2>3. "global" \in ToCreate <=> conf.global
      BY DEF ToCreate, Counted, IOs
    <2>4. created["global"] = IF "global" \in ToCreate THEN 1 ELSE 0
      BY <2>1, <1>2
    <2> QED
      BY <2>2, <2>3, <2>4
  <1> QED
    BY <1>0, <1>4, <1>6, <1>7, <1>8 DEF Kinds

\* The parts of StartIsSound, each from what the start established.
LEMMA StartInvCounts == StartInv => CountsMatch
  <1> SUFFICES ASSUME StartInv PROVE CountsMatch
    OBVIOUS
  <1>1. ConfTypeOK
    BY DEF StartInv
  <1>2. ASSUME phase = "ready" PROVE threads_count = Total(created)
    <2>1. threads_count = Total(CountedThreads)
      BY <1>2 DEF StartInv, CheckedPart
    <2>2. /\ CountedThreads["global"] = created["global"]
          /\ \A k \in Counted : CountedThreads[k] = created[k]
      BY <1>2, ReadyGroups
    <2> QED
      BY <2>1, <2>2 DEF Total, Counted, IOs
  <1> QED
    BY <1>1, <1>2 DEF CountsMatch

\* The check makes up for the different conditions of loading and creating.
LEMMA StartInvLoaded == StartInv => CreatesLoaded
  <1> SUFFICES ASSUME StartInv, phase = "loaded", NEW k \in ToCreate PROVE k \in loaded
    BY DEF CreatesLoaded
  <1>0. conf \in Confs /\ Accepted /\ loaded = Wanted
    BY DEF StartInv, ConfTypeOK, CheckedPart, LoadedPart
  <1>1. \A j \in Counted : conf.count[j] \in Int
    BY <1>0, ConfFacts
  <1>2. CASE k = "global"
    BY <1>0, <1>2 DEF ToCreate, Wanted, Counted, IOs
  <1>3. CASE k \in IOs \cup {"work"}
    <2>1. conf.count[k] > 0
      BY <1>3 DEF ToCreate, IOs
    <2> QED
      BY <1>0, <1>3, <2>1, <1>1 DEF Wanted, Counted
  <1>4. CASE k = "burden"
    <2>1. conf.count["burden"] > 0
      BY <1>4 DEF ToCreate
    <2>2. conf.count["work"] # 0
      BY <1>0, <2>1 DEF Accepted, WorkAccepted
    <2>3. conf.count["burden"] # 0
      BY <2>1, <1>1 DEF Counted
    <2> QED
      BY <1>0, <1>4, <2>2, <2>3 DEF Wanted
  <1> QED
    BY <1>2, <1>3, <1>4 DEF ToCreate, Counted

\* Without negative counts every loaded module gets its threads.
LEMMA StartInvNoNull == StartInv => NoNullGroup
  <1> SUFFICES ASSUME StartInv, \A k \in Counted : conf.count[k] >= 0, phase = "crashed" PROVE FALSE
    BY DEF NoNullGroup
  <1>0. conf \in Confs /\ loaded = Wanted
    BY DEF StartInv, ConfTypeOK, LoadedPart
  <1>1. \A k \in Counted : conf.count[k] \in Int
    BY <1>0, ConfFacts
  <1>2. PICK k \in Wanted : ~(created[k] > 0)
    BY <1>0 DEF StartInv, ReadyPart
  <1>3. k \in Kinds
    BY <1>0, ConfFacts
  <1>4. created[k] = IF k \notin ToCreate THEN 0 ELSE IF k = "global" THEN 1 ELSE conf.count[k]
    BY <1>3 DEF StartInv, CreatedPart
  <1>5. CASE k = "global"
    <2>1. conf.global = TRUE
      BY <1>0, <1>5 DEF Wanted, IOs, Confs
    <2>2. k \in ToCreate
      BY <1>5, <2>1 DEF ToCreate
    <2> QED
      BY <1>2, <1>4, <1>5, <2>2
  <1>6. CASE k # "global"
    <2>1. k \in Counted /\ conf.count[k] # 0
      BY <1>6, <1>2 DEF Wanted, Counted
    <2>2. conf.count[k] > 0
      BY <2>1, <1>1
    <2>3. k \in ToCreate
      BY <2>1, <2>2 DEF ToCreate
    <2> QED
      BY <1>2, <1>4, <1>6, <2>2, <2>3
  <1> QED
    BY <1>5, <1>6
\* The groups are related as the repository's README lets them schedule.
LEMMA StartInvRelated == StartInv => RelatedAsDocumented
  <1> SUFFICES ASSUME StartInv, phase = "ready", NEW k \in loaded \ {"burden"}
               PROVE  related[k] = Schedulable(k) \cap loaded
    BY DEF RelatedAsDocumented
  <1>1. k \in Kinds /\ loaded \subseteq Kinds
    BY DEF StartInv, ConfTypeOK
  <1>2. related[k] = Related(k) \cap loaded
    BY <1>1 DEF StartInv, ReadyPart
  <1>3. Related(k) = Schedulable(k)
    BY <1>1 DEF Related, Schedulable, Kinds, Counted, IOs
  <1> QED
    BY <1>2, <1>3

\* What passes the check obeys the rules.
LEMMA StartInvAccepted == StartInv => AcceptedIsSound
  <1> SUFFICES ASSUME StartInv, phase \notin {"start", "refused"},
                      \A k \in Counted : conf.count[k] >= 0
               PROVE  Sound
    BY DEF AcceptedIsSound
  <1>0. conf \in Confs /\ Accepted
    BY DEF StartInv, ConfTypeOK, CheckedPart
  <1>1. \A k \in Counted : conf.count[k] \in Int
    BY <1>0, ConfFacts
  <1>2. \A k \in Counted : conf.count[k] # 0 => conf.count[k] > 0
    BY <1>1
  <1>3. \E k \in IOs : conf.addr[k]
    BY <1>0 DEF Accepted
  <1>4. \A k \in IOs : conf.addr[k] => conf.count[k] > 0
    BY <1>0, <1>2 DEF Accepted, IOAccepted, Counted
  <1>5. conf.count["work"] <= 0 => conf.count["work"] = 0
    BY <1>1 DEF Counted
  <1>6. conf.count["work"] = 0 => \A k \in IOs : conf.addr[k] => conf.logics[k]
    BY <1>0 DEF Accepted, IOAccepted
  <1>7. conf.count["work"] = 0 => ~(conf.count["burden"] > 0)
    BY <1>0 DEF Accepted, WorkAccepted
  <1>8. ~(conf.count["burden"] > 0) => conf.count["burden"] <= 0
    BY <1>1 DEF Counted
  <1>9. conf.count["burden"] > 0 => conf.logics["burden"]
    BY <1>0 DEF Accepted, WorkAccepted
  <1>10. conf.count["burden"] <= 0 => conf.count["burden"] = 0
    BY <1>1 DEF Counted
  <1>11. (conf.count["work"] > 0 /\ conf.count["burden"] = 0
           /\ \A k \in IOs : ~conf.logics[k]) => conf.logics["work"]
    BY <1>0 DEF Accepted, WorkAccepted, IOs
  <1> QED
    BY <1>3, <1>4, <1>5, <1>6, <1>7, <1>8, <1>9, <1>10, <1>11 DEF Sound

\* Whatever a client sends has somebody to handle it.
LEMMA StartInvHandled == StartInv => DataIsHandled
  <1> SUFFICES ASSUME StartInv, phase = "ready", NEW k \in IOs, created[k] > 0, ~conf.logics[k]
               PROVE  created["work"] > 0 /\ "work" \in related[k]
    BY DEF DataIsHandled
  <1>0. conf \in Confs /\ Accepted /\ loaded = Wanted /\ loaded \subseteq Kinds
    BY DEF StartInv, ConfTypeOK, CheckedPart, LoadedPart
  <1>1. k \in Kinds /\ k \in Counted /\ "work" \in Kinds /\ "work" \in Counted /\ k # "global"
    BY DEF Kinds, Counted, IOs
  <1>2. k \in loaded /\ k \in ToCreate
    BY <1>1, ReadyGroups
  <1>3. conf.addr[k]
    BY <1>2 DEF StartInv, CreatedPart, Listens
  <1>4. conf.count["work"] # 0
    BY <1>0, <1>3 DEF Accepted, IOAccepted
  <1>5. "work" \in loaded
    BY <1>0, <1>4 DEF Wanted
  <1>6. created["work"] > 0
    BY <1>5 DEF StartInv, ReadyPart
  <1>7. related[k] = Related(k) \cap loaded
    BY <1>1, <1>2 DEF StartInv, ReadyPart
  <1>8. "work" \in Related(k)
    BY DEF Related, IOs
  <1> QED
    BY <1>5, <1>6, <1>7, <1>8

\* For every set of configurations: a start either fails or refuses, or its
\* threads are counted, created from loaded modules and related as
\* LoadAndCheckConf, CreateAllThreads and SetThreadsRelationship promise.
THEOREM StartSound == ConfSpec => []StartIsSound
  <1>1. StartInv => StartIsSound
    BY StartInvCounts, StartInvLoaded, StartInvNoNull, StartInvRelated, StartInvAccepted,
       StartInvHandled DEF StartIsSound
  <1> QED
    BY <1>1, StartInvInit, StartInvNext, PTL DEF ConfSpec

-----------------------------------------------------------------------------
\* The schedulers.  Without queues nothing was sent yet.
Unseeded ==
    /\ tasks = <<>> /\ known = <<>> /\ spread = <<>>
    /\ unplaced = 0 /\ replies = 0 /\ accepted = {} /\ got = <<>>

\* The guids of connections, and all a logic can be told of.
ConnGUIDs == {GUID(t, c) : t \in {u \in Threads : u[1] \in IOs}, c \in ConnIDs}
GUIDs == ConnGUIDs \cup {NoGUID}

Tasks == [type : {"normal", "send", "close"}, guid : GUIDs, from : Threads, n : Nat]
Ends == [st : {"none", "open", "closed"}, from : Threads \cup {Nobody}, n : Nat]
Answers == [guid : ConnGUIDs, from : Threads, n : Nat]
Written == [conn : ConnGUIDs, guid : GUIDs, from : Threads, n : Nat]

\* The types of a running process.
QueueTypes ==
    /\ tasks \in [Threads -> Seq(Tasks)]
    /\ known \in [Threads -> SUBSET GUIDs]
    /\ conn \in [Threads -> [ConnIDs -> Ends]]
    /\ accepted \subseteq Answers
    /\ got \in Seq(Written)
    /\ replies \in Nat

\* Types and range of what the rounds are taken from.
RoundTypes ==
    /\ DOMAIN last = Threads /\ DOMAIN spread = Threads
    /\ \A t \in Threads : \A k \in Kinds :
         /\ last[t][k] \in Nat /\ (created[k] > 0 => last[t][k] < created[k])
         /\ DOMAIN last[t] = Kinds /\ DOMAIN spread[t] = Kinds
         /\ spread[t][k] \in [Indices(k) -> Nat]

\* Who knows a guid, or has a task with it, knows of an accepted connection.
Told(g) == g \in ConnGUIDs => conn[Home(g)][g.id].st # "none"
OnlyTold ==
    /\ \A t \in Threads : \A g \in known[t] : Told(g)
    /\ \A t \in Threads : \A i \in DOMAIN tasks[t] : Told(tasks[t][i].guid)

\* The tasks for clients in a queue.
ForClient(t, i) == i \in DOMAIN tasks[t] /\ tasks[t][i].type # "normal"

\* Every call for a client has a number of its own, larger than those before.
Numbered ==
    /\ \A t \in Threads : \A i \in DOMAIN tasks[t] : tasks[t][i].n <= replies
    /\ \A i \in DOMAIN got : got[i].n <= replies
    /\ \A t \in Threads : \A c \in ConnIDs : conn[t][c].n <= replies

\* Client tasks are for connections of the thread they wait at, which does
\* not send them to itself.
AtHome ==
    \A t \in Threads : \A i \in DOMAIN tasks[t] : ForClient(t, i) =>
        /\ t = Home(tasks[t][i].guid) /\ tasks[t][i].guid \in ConnGUIDs
        /\ tasks[t][i].from # t

\* One sender's tasks wait in the order of its calls, behind what is written
\* of it and behind its close.
QueueOrder ==
    \A t \in Threads : \A i, j \in DOMAIN tasks[t] :
        ForClient(t, i) /\ ForClient(t, j) /\ i < j /\ tasks[t][i].from = tasks[t][j].from
            => tasks[t][i].n < tasks[t][j].n
WrittenBefore ==
    \A i \in DOMAIN got : \A t \in Threads : \A j \in DOMAIN tasks[t] :
        ForClient(t, j) /\ t = Home(got[i].conn) /\ got[i].from = tasks[t][j].from
            => got[i].n < tasks[t][j].n
ClosedBefore ==
    \A t \in Threads : \A c \in ConnIDs : \A j \in DOMAIN tasks[t] :
        ForClient(t, j) /\ conn[t][c].st = "closed" /\ conn[t][c].from = tasks[t][j].from
            => conn[t][c].n < tasks[t][j].n

\* What became of an accepted answer.
Arrived(a) == \E i \in DOMAIN got : got[i].n = a.n /\ got[i].guid = a.guid
OnItsWay(a) ==
    \E i \in DOMAIN tasks[Home(a.guid)] :
        tasks[Home(a.guid)][i] = [type |-> "send", guid |-> a.guid, from |-> a.from, n |-> a.n]
TooLate(a) ==
    LET c == conn[Home(a.guid)][a.guid.id]
    IN  c.st = "closed" /\ (c.from = a.from => c.n < a.n)
Kept == \A a \in accepted : Arrived(a) \/ OnItsWay(a) \/ TooLate(a)

\* All that is about queues, connections and answers.
QueueInv ==
    /\ QueueTypes /\ OnlyTold /\ Numbered /\ AtHome /\ Addressed
    /\ QueueOrder /\ WrittenBefore /\ ClosedBefore /\ InSenderOrder /\ Kept

\* In the order of the turns, beginning with the next thread, the number of
\* tasks grows, by one at most.
Turns(l, n) ==
    /\ \A i, j \in DOMAIN n : n[j] <= n[i] + 1
    /\ \A i, j \in DOMAIN n : i <= j /\ (l <= i \/ j < l) => n[i] <= n[j]
    /\ \A i, j \in DOMAIN n : l <= i /\ j < l => n[i] <= n[j]
InTurns == unplaced = 0 /\ \A t \in Threads : \A k \in Kinds : Turns(last[t][k], spread[t][k])

Seeded ==
    /\ phase = "ready"
    /\ QueueInv /\ RoundTypes /\ InTurns

DispatchInv == StartInv /\ (Unseeded \/ Seeded)

\* What a step may do to the queues, p being the thread that takes a task off
\* its queue, if there is one: a task may be added at the end of each.
Drop(t, p) == IF t = p THEN 1 ELSE 0

Fresh(t, m) ==
    /\ Told(m.guid) /\ m.n <= replies'
    /\ m.type # "normal" =>
         /\ t = Home(m.guid) /\ m.guid \in ConnGUIDs /\ m.from # t
         /\ m.n = replies + 1 /\ replies' = replies + 1

TaskStep(t, p) ==
    /\ \A i \in DOMAIN tasks'[t] :
         \/ i + Drop(t, p) \in DOMAIN tasks[t] /\ tasks'[t][i] = tasks[t][i + Drop(t, p)]
         \/ i + Drop(t, p) = Len(tasks[t]) + 1 /\ Fresh(t, tasks'[t][i])
    /\ \A i \in DOMAIN tasks[t] : i > Drop(t, p) =>
         i - Drop(t, p) \in DOMAIN tasks'[t] /\ tasks'[t][i - Drop(t, p)] = tasks[t][i]

\* What comes from f with number n is ahead of all that waits at t from f.
Ahead(t, f, n) ==
    \A i \in DOMAIN tasks'[t] :
        tasks'[t][i].type # "normal" /\ tasks'[t][i].from = f => n < tasks'[t][i].n

\* A connection is accepted, or closed once.
ConnStep(t, c) ==
    \/ conn'[t][c] = conn[t][c]
    \/ /\ conn[t][c].st = "none" /\ conn'[t][c].st = "open"
       /\ conn'[t][c].n = conn[t][c].n
    \/ /\ conn[t][c].st = "open" /\ conn'[t][c].st = "closed"
       /\ conn'[t][c].n <= replies' /\ Ahead(t, conn'[t][c].from, conn'[t][c].n)

\* At most one answer is written, after those of its sender.
GotStep ==
    \/ got' = got
    \/ \E w \in Written :
         /\ got' = Append(got, w) /\ w.conn = w.guid /\ w.n <= replies'
         /\ Ahead(Home(w.conn), w.from, w.n)
         /\ \A i \in DOMAIN got : got[i].conn = w.conn /\ got[i].from = w.from => got[i].n < w.n

\* The answer a thread takes off its queue is written if it can be.
PopStep(p) ==
    p \in Threads => /\ tasks[p] # <<>>
                     /\ LET m == tasks[p][1]
                        IN  m.type = "send" => \/ \E i \in DOMAIN got' : got'[i].n = m.n /\ got'[i].guid = m.guid
                                               \/ conn[p][m.guid.id].st # "open"

QueueStep(p) ==
    /\ created' = created /\ replies' \in Nat /\ replies <= replies'
    /\ QueueTypes'
    /\ \A t \in Threads : TaskStep(t, p)
    /\ \A t \in Threads : \A c \in ConnIDs : ConnStep(t, c)
    /\ GotStep /\ PopStep(p)
    /\ \A t \in Threads : \A g \in known'[t] : g \in ConnGUIDs => conn'[Home(g)][g.id].st # "none"
    /\ \A a \in accepted' : a \in accepted \/ Arrived(a)' \/ OnItsWay(a)'

-----------------------------------------------------------------------------
\* The elements of Threads are pairs of a kind and an index.
LEMMA ThreadFacts ==
  ASSUME NEW t \in Threads
  PROVE  t[1] \in Kinds /\ t[2] \in Indices(t[1]) /\ t = <<t[1], t[2]>>
  BY DEF Threads

\* A pair of a kind and an index of its group is a thread.
LEMMA ThreadIntro ==
  ASSUME NEW k \in Kinds, NEW i \in Indices(k)
  PROVE  <<k, i>> \in Threads
  BY DEF Threads

\* A guid of a connection names an io thread and a connection of it.
LEMMA GUIDFacts ==
  ASSUME NEW g \in ConnGUIDs
  PROVE  /\ Home(g) \in Threads /\ g.io \in IOs /\ g.id \in ConnIDs
         /\ g = GUID(Home(g), g.id)
  <1>1. PICK t \in Threads, c \in ConnIDs : t[1] \in IOs /\ g = GUID(t, c)
    BY DEF ConnGUIDs
  <1>2. g.io = t[1] /\ g.idx = t[2] /\ g.id = c
    BY <1>1 DEF GUID
  <1>3. Home(g) = t
    BY <1>2, ThreadFacts DEF Home
  <1> QED
    BY <1>1, <1>2, <1>3

\* Every connection of an io thread has such a guid.
LEMMA GUIDIntro ==
  ASSUME NEW t \in Threads, t[1] \in IOs, NEW c \in ConnIDs
  PROVE  /\ GUID(t, c) \in ConnGUIDs /\ Home(GUID(t, c)) = t
         /\ GUID(t, c).io = t[1] /\ GUID(t, c).idx = t[2] /\ GUID(t, c).id = c
  <1>1. GUID(t, c) \in ConnGUIDs
    BY DEF ConnGUIDs
  <1>2. GUID(t, c).io = t[1] /\ GUID(t, c).idx = t[2] /\ GUID(t, c).id = c
    BY DEF GUID
  <1>3. Home(GUID(t, c)) = t
    BY <1>2, ThreadFacts DEF Home
  <1> QED
    BY <1>1, <1>2, <1>3

\* The guid of calls that come from no connection is none of them.
LEMMA NoGUIDFacts == NoGUID \notin ConnGUIDs /\ NoGUID.io \notin IOs
  <1>1. NoGUID.io = "max"
    BY DEF NoGUID
  <1>2. NoGUID.io \notin IOs
    BY <1>1 DEF IOs
  <1> QED
    BY <1>2, GUIDFacts

\* The threads, and with them the guids, do not change any more.
LEMMA ThreadsStay ==
  ASSUME created' = created
  PROVE  /\ Threads' = Threads /\ ConnGUIDs' = ConnGUIDs /\ GUIDs' = GUIDs
         /\ \A k : Indices(k)' = Indices(k)
         /\ Tasks' = Tasks /\ Ends' = Ends /\ Answers' = Answers /\ Written' = Written
  <1>1. Threads' = Threads /\ \A k : Indices(k)' = Indices(k)
    BY DEF Threads, Indices
  <1>2. ConnGUIDs' = ConnGUIDs
    BY <1>1 DEF ConnGUIDs
  <1> QED
    BY <1>1, <1>2 DEF GUIDs, Tasks, Ends, Answers, Written
-----------------------------------------------------------------------------
\* A QueueStep keeps each part of QueueInv.

\* The types, spelled out for one thread, connection or answer.
LEMMA TypeFacts ==
  ASSUME QueueTypes
  PROVE  /\ \A t \in Threads : tasks[t] \in Seq(Tasks)
         /\ \A t \in Threads : \A i \in DOMAIN tasks[t] : tasks[t][i] \in Tasks
         /\ \A t \in Threads : \A c \in ConnIDs : conn[t][c] \in Ends
         /\ \A t \in Threads : known[t] \subseteq GUIDs
         /\ \A i \in DOMAIN got : got[i] \in Written
         /\ \A a \in accepted : a \in Answers
         /\ got \in Seq(Written) /\ replies \in Nat
  <1>1. \A t \in Threads : tasks[t] \in Seq(Tasks)
    BY DEF QueueTypes
  <1>2. \A t \in Threads : \A i \in DOMAIN tasks[t] : tasks[t][i] \in Tasks
    BY <1>1
  <1>3. \A t \in Threads : \A c \in ConnIDs : conn[t][c] \in Ends
    BY DEF QueueTypes
  <1>4. \A t \in Threads : known[t] \subseteq GUIDs
    BY DEF QueueTypes
  <1>5. \A i \in DOMAIN got : got[i] \in Written
    BY DEF QueueTypes
  <1> QED
    BY <1>1, <1>2, <1>3, <1>4, <1>5 DEF QueueTypes

\* The same after a step.
LEMMA TypeFactsNext ==
  ASSUME created' = created, QueueTypes'
  PROVE  /\ \A t \in Threads : tasks'[t] \in Seq(Tasks)
         /\ \A t \in Threads : \A i \in DOMAIN tasks'[t] : tasks'[t][i] \in Tasks
         /\ \A t \in Threads : \A c \in ConnIDs : conn'[t][c] \in Ends
         /\ \A i \in DOMAIN got' : got'[i] \in Written
         /\ \A a \in accepted' : a \in Answers
         /\ replies' \in Nat
  <1>0. /\ tasks' \in [Threads -> Seq(Tasks)] /\ conn' \in [Threads -> [ConnIDs -> Ends]]
        /\ got' \in Seq(Written) /\ accepted' \subseteq Answers /\ replies' \in Nat
    BY ThreadsStay DEF QueueTypes
  <1>1. \A t \in Threads : tasks'[t] \in Seq(Tasks)
    BY <1>0
  <1>2. \A t \in Threads : \A i \in DOMAIN tasks'[t] : tasks'[t][i] \in Tasks
    BY <1>1
  <1>3. \A t \in Threads : \A c \in ConnIDs : conn'[t][c] \in Ends
    BY <1>0
  <1>4. \A i \in DOMAIN got' : got'[i] \in Written
    BY <1>0
  <1> QED
    BY <1>0, <1>1, <1>2, <1>3, <1>4

\* The task at a place of a queue was there before, or is new and the last.
LEMMA TaskFrom ==
  ASSUME QueueInv, NEW p, QueueStep(p), NEW t \in Threads, NEW i \in DOMAIN tasks'[t]
  PROVE  /\ i \in Nat \ {0} /\ Len(tasks[t]) \in Nat /\ Drop(t, p) \in {0, 1}
         /\ \/ i + Drop(t, p) \in DOMAIN tasks[t] /\ tasks'[t][i] = tasks[t][i + Drop(t, p)]
            \/ i + Drop(t, p) = Len(tasks[t]) + 1 /\ Fresh(t, tasks'[t][i])
  <1>1. tasks[t] \in Seq(Tasks)
    BY TypeFacts DEF QueueInv
  <1>2. tasks'[t] \in Seq(Tasks)
    BY TypeFactsNext DEF QueueStep
  <1>3. TaskStep(t, p)
    BY DEF QueueStep
  <1> QED
    BY <1>1, <1>2, <1>3 DEF TaskStep, Drop

\* Connections that were accepted stay so.
LEMMA ToldStays ==
  ASSUME QueueInv, NEW p, QueueStep(p), NEW g, Told(g)
  PROVE  Told(g)'
  <1> SUFFICES ASSUME g \in ConnGUIDs PROVE conn'[Home(g)][g.id].st # "none"
    BY ThreadsStay DEF Told, QueueStep, Home
  <1>1. Home(g) \in Threads /\ g.id \in ConnIDs
    BY GUIDFacts
  <1>2. ConnStep(Home(g), g.id)
    BY <1>1 DEF QueueStep
  <1>3. conn[Home(g)][g.id].st # "none"
    BY DEF Told
  <1> QED
    BY <1>2, <1>3 DEF ConnStep

\* Only accepted connections are known.
LEMMA StepOnlyTold ==
  ASSUME QueueInv, NEW p, QueueStep(p)
  PROVE  OnlyTold'
  <1>0. Threads' = Threads /\ ConnGUIDs' = ConnGUIDs
    BY ThreadsStay DEF QueueStep
  <1>1. ASSUME NEW t \in Threads, NEW g \in known'[t] PROVE Told(g)'
    BY <1>0 DEF QueueStep, Told, Home
  <1>2. ASSUME NEW t \in Threads, NEW i \in DOMAIN tasks'[t] PROVE Told(tasks[t][i].guid)'
    <2>1. Told(tasks'[t][i].guid)
      <3>1. CASE i + Drop(t, p) \in DOMAIN tasks[t] /\ tasks'[t][i] = tasks[t][i + Drop(t, p)]
        BY <3>1 DEF QueueInv, OnlyTold
      <3>2. CASE Fresh(t, tasks'[t][i])
        BY <3>2 DEF Fresh
      <3> QED
        BY <3>1, <3>2, TaskFrom
    <2>2. PICK g : g = tasks'[t][i].guid
      OBVIOUS
    <2>3. Told(g)'
      BY <2>1, <2>2, ToldStays
    <2> QED
      BY <2>2, <2>3 DEF Told, Home
  <1> QED
    BY <1>0, <1>1, <1>2 DEF OnlyTold

\* Numbers stay below the counter.
LEMMA StepNumbered ==
  ASSUME QueueInv, NEW p, QueueStep(p)
  PROVE  Numbered'
  <1>0. Threads' = Threads /\ replies \in Nat /\ replies' \in Nat /\ replies <= replies'
    BY ThreadsStay, TypeFacts DEF QueueStep, QueueInv
  <1>1. ASSUME NEW t \in Threads, NEW i \in DOMAIN tasks'[t] PROVE tasks'[t][i].n <= replies'
    <2>1. CASE i + Drop(t, p) \in DOMAIN tasks[t] /\ tasks'[t][i] = tasks[t][i + Drop(t, p)]
      <3>1. tasks'[t][i].n <= replies
        BY <2>1 DEF QueueInv, Numbered
      <3>2. tasks'[t][i] \in Tasks
        BY TypeFactsNext DEF QueueStep
      <3>3. tasks'[t][i].n \in Nat
        BY <3>2 DEF Tasks
      <3> QED
        BY <1>0, <3>1, <3>3
    <2>2. CASE Fresh(t, tasks'[t][i])
      BY <2>2 DEF Fresh
    <2> QED
      BY <2>1, <2>2, TaskFrom
  <1>2. ASSUME NEW i \in DOMAIN got' PROVE got'[i].n <= replies'
    <2>1. ASSUME NEW j \in DOMAIN got PROVE got[j].n <= replies'
      <3>1. got[j] \in Written /\ got[j].n <= replies
        BY TypeFacts DEF QueueInv, Numbered
      <3>2. got[j].n \in Nat
        BY <3>1 DEF Written
      <3> QED
        BY <1>0, <3>1, <3>2
    <2>2. CASE got' = got
      BY <2>1, <2>2
    <2>3. CASE got' # got
      <3>1. PICK w \in Written : got' = Append(got, w) /\ w.n <= replies'
        BY <2>3 DEF QueueStep, GotStep
      <3>2. got \in Seq(Written)
        BY TypeFacts DEF QueueInv
      <3>3. got'[i] = w \/ (i \in DOMAIN got /\ got'[i] = got[i])
        BY <3>1, <3>2
      <3> QED
        BY <2>1, <3>1, <3>3
    <2> QED
      BY <2>2, <2>3
  <1>3. ASSUME NEW t \in Threads, NEW c \in ConnIDs PROVE conn'[t][c].n <= replies'
    <2>1. conn[t][c].n <= replies /\ conn[t][c] \in Ends
      BY TypeFacts DEF QueueInv, Numbered
    <2>2. conn[t][c].n \in Nat
      BY <2>1 DEF Ends
    <2>3. ConnStep(t, c)
      BY DEF QueueStep
    <2>4. conn'[t][c].n = conn[t][c].n \/ conn'[t][c].n <= replies'
      BY <2>3 DEF ConnStep
    <2> QED
      BY <1>0, <2>1, <2>2, <2>4
  <1> QED
    BY <1>0, <1>1, <1>2, <1>3 DEF Numbered

\* Tasks for clients wait at the right thread.
LEMMA StepAtHome ==
  ASSUME QueueInv, NEW p, QueueStep(p)
  PROVE  AtHome'
  <1>0. Threads' = Threads /\ ConnGUIDs' = ConnGUIDs
    BY ThreadsStay DEF QueueStep
  <1>1. ASSUME NEW t \in Threads, NEW i \in DOMAIN tasks'[t], tasks'[t][i].type # "normal"
        PROVE  t = Home(tasks'[t][i].guid) /\ tasks'[t][i].guid \in ConnGUIDs /\ tasks'[t][i].from # t
    <2>1. CASE i + Drop(t, p) \in DOMAIN tasks[t] /\ tasks'[t][i] = tasks[t][i + Drop(t, p)]
      BY <1>1, <2>1 DEF QueueInv, AtHome, ForClient
    <2>2. CASE Fresh(t, tasks'[t][i])
      BY <1>1, <2>2 DEF Fresh
    <2> QED
      BY <2>1, <2>2, TaskFrom
  <1> QED
    BY <1>0, <1>1 DEF AtHome, ForClient, Home

\* So does what is written.
LEMMA StepAddressed ==
  ASSUME QueueInv, NEW p, QueueStep(p)
  PROVE  Addressed'
  <1>0. Threads' = Threads /\ DOMAIN tasks' = Threads
    BY ThreadsStay DEF QueueStep, QueueTypes
  <1>1. \A t \in Threads : \A i \in DOMAIN tasks'[t] :
          tasks'[t][i].type # "normal" => t = Home(tasks'[t][i].guid)
    BY <1>0, StepAtHome DEF AtHome, ForClient, Home
  <1>2. ASSUME NEW i \in DOMAIN got' PROVE got'[i].conn = got'[i].guid
    <2>1. \A j \in DOMAIN got : got[j].conn = got[j].guid
      BY DEF QueueInv, Addressed
    <2>2. CASE got' = got
      BY <2>1, <2>2
    <2>3. CASE got' # got
      <3>1. PICK w \in Written : got' = Append(got, w) /\ w.conn = w.guid
        BY <2>3 DEF QueueStep, GotStep
      <3>2. got \in Seq(Written)
        BY TypeFacts DEF QueueInv
      <3>3. got'[i] = w \/ (i \in DOMAIN got /\ got'[i] = got[i])
        BY <3>1, <3>2
      <3> QED
        BY <2>1, <3>1, <3>3
    <2> QED
      BY <2>2, <2>3
  <1> QED
    BY <1>0, <1>1, <1>2 DEF Addressed, Home
\* A new task for a client is numbered above all that waited.
LEMMA FreshIsLast ==
  ASSUME QueueInv, NEW t \in Threads, NEW m, Fresh(t, m), m.type # "normal"
  PROVE  /\ \A i \in DOMAIN tasks[t] : tasks[t][i].n < m.n
         /\ \A i \in DOMAIN got : got[i].n < m.n
         /\ \A c \in ConnIDs : conn[t][c].n < m.n
  <1>0. replies \in Nat /\ m.n = replies + 1
    BY TypeFacts DEF QueueInv, Fresh
  <1>1. ASSUME NEW i \in DOMAIN tasks[t] PROVE tasks[t][i].n < m.n
    <2>1. tasks[t][i].n <= replies /\ tasks[t][i] \in Tasks
      BY TypeFacts DEF QueueInv, Numbered
    <2>2. tasks[t][i].n \in Nat
      BY <2>1 DEF Tasks
    <2> QED
      BY <1>0, <2>1, <2>2
  <1>2. ASSUME NEW i \in DOMAIN got PROVE got[i].n < m.n
    <2>1. got[i].n <= replies /\ got[i] \in Written
      BY TypeFacts DEF QueueInv, Numbered
    <2>2. got[i].n \in Nat
      BY <2>1 DEF Written
    <2> QED
      BY <1>0, <2>1, <2>2
  <1>3. ASSUME NEW c \in ConnIDs PROVE conn[t][c].n < m.n
    <2>1. conn[t][c].n <= replies /\ conn[t][c] \in Ends
      BY TypeFacts DEF QueueInv, Numbered
    <2>2. conn[t][c].n \in Nat
      BY <2>1 DEF Ends
    <2> QED
      BY <1>0, <2>1, <2>2
  <1> QED
    BY <1>1, <1>2, <1>3

\* One sender's tasks wait in order.
LEMMA StepQueueOrder ==
  ASSUME QueueInv, NEW p, QueueStep(p)
  PROVE  QueueOrder'
  <1>0. Threads' = Threads
    BY ThreadsStay DEF QueueStep
  <1>1. ASSUME NEW t \in Threads, NEW i \in DOMAIN tasks'[t], NEW j \in DOMAIN tasks'[t],
               tasks'[t][i].type # "normal", tasks'[t][j].type # "normal", i < j,
               tasks'[t][i].from = tasks'[t][j].from
        PROVE  tasks'[t][i].n < tasks'[t][j].n
    <2>0. /\ i \in Nat /\ j \in Nat /\ Len(tasks[t]) \in Nat /\ Drop(t, p) \in {0, 1}
          /\ DOMAIN tasks[t] = 1 .. Len(tasks[t])
      <3>1. tasks[t] \in Seq(Tasks)
        BY TypeFacts DEF QueueInv
      <3> QED
        BY <3>1, TaskFrom
    <2>1. CASE i + Drop(t, p) \in DOMAIN tasks[t] /\ tasks'[t][i] = tasks[t][i + Drop(t, p)]
      <3>1. CASE j + Drop(t, p) \in DOMAIN tasks[t] /\ tasks'[t][j] = tasks[t][j + Drop(t, p)]
        <4>1. i + Drop(t, p) < j + Drop(t, p)
          BY <1>1, <2>0
        <4> QED
          BY <1>1, <2>1, <3>1, <4>1 DEF QueueInv, QueueOrder, ForClient
      <3>2. CASE Fresh(t, tasks'[t][j])
        BY <1>1, <2>1, <3>2, FreshIsLast
      <3> QED
        BY <3>1, <3>2, TaskFrom
    <2>2. CASE i + Drop(t, p) = Len(tasks[t]) + 1
      <3>1. j + Drop(t, p) \notin DOMAIN tasks[t] /\ j + Drop(t, p) # Len(tasks[t]) + 1
        BY <1>1, <2>0, <2>2
      <3> QED
        BY <3>1, TaskFrom
    <2> QED
      BY <2>1, <2>2, TaskFrom
  <1> QED
    BY <1>0, <1>1 DEF QueueOrder, ForClient

\* What is written of a sender is ahead of what waits of it.
LEMMA StepWrittenBefore ==
  ASSUME QueueInv, NEW p, QueueStep(p)
  PROVE  WrittenBefore'
  <1>0. Threads' = Threads
    BY ThreadsStay DEF QueueStep
  <1>1. ASSUME NEW i \in DOMAIN got, NEW t \in Threads, NEW j \in DOMAIN tasks'[t],
               tasks'[t][j].type # "normal", t = Home(got[i].conn),
               got[i].from = tasks'[t][j].from
        PROVE  got[i].n < tasks'[t][j].n
    <2>1. CASE j + Drop(t, p) \in DOMAIN tasks[t] /\ tasks'[t][j] = tasks[t][j + Drop(t, p)]
      BY <1>1, <2>1 DEF QueueInv, WrittenBefore, ForClient
    <2>2. CASE Fresh(t, tasks'[t][j])
      BY <1>1, <2>2, FreshIsLast
    <2> QED
      BY <2>1, <2>2, TaskFrom
  <1>2. ASSUME NEW i \in DOMAIN got', NEW t \in Threads, NEW j \in DOMAIN tasks'[t],
               tasks'[t][j].type # "normal", t = Home(got'[i].conn),
               got'[i].from = tasks'[t][j].from
        PROVE  got'[i].n < tasks'[t][j].n
    <2>1. CASE got' = got
      BY <1>1, <1>2, <2>1
    <2>2. CASE got' # got
      <3>1. PICK w \in Written : got' = Append(got, w) /\ Ahead(Home(w.conn), w.from, w.n)
        BY <2>2 DEF QueueStep, GotStep
      <3>2. got \in Seq(Written)
        BY TypeFacts DEF QueueInv
      <3>3. got'[i] = w \/ (i \in DOMAIN got /\ got'[i] = got[i])
        BY <3>1, <3>2
      <3>4. CASE got'[i] = w
        BY <1>2, <3>1, <3>4 DEF Ahead
      <3>5. CASE i \in DOMAIN got /\ got'[i] = got[i]
        BY <1>1, <1>2, <3>5
      <3> QED
        BY <3>3, <3>4, <3>5
    <2> QED
      BY <2>1, <2>2
  <1> QED
    BY <1>0, <1>2 DEF WrittenBefore, ForClient, Home

\* So is its close.
LEMMA StepClosedBefore ==
  ASSUME QueueInv, NEW p, QueueStep(p)
  PROVE  ClosedBefore'
  <1>0. Threads' = Threads
    BY ThreadsStay DEF QueueStep
  <1>1. ASSUME NEW t \in Threads, NEW c \in ConnIDs, NEW j \in DOMAIN tasks'[t],
               tasks'[t][j].type # "normal", conn'[t][c].st = "closed",
               conn'[t][c].from = tasks'[t][j].from
        PROVE  conn'[t][c].n < tasks'[t][j].n
    <2>0. ConnStep(t, c)
      BY DEF QueueStep
    <2>1. CASE conn'[t][c] = conn[t][c]
      <3>1. CASE j + Drop(t, p) \in DOMAIN tasks[t] /\ tasks'[t][j] = tasks[t][j + Drop(t, p)]
        BY <1>1, <2>1, <3>1 DEF QueueInv, ClosedBefore, ForClient
      <3>2. CASE Fresh(t, tasks'[t][j])
        BY <1>1, <2>1, <3>2, FreshIsLast
      <3> QED
        BY <3>1, <3>2, TaskFrom
    <2>2. CASE conn'[t][c] # conn[t][c]
      <3>1. Ahead(t, conn'[t][c].from, conn'[t][c].n)
        BY <1>1, <2>0, <2>2 DEF ConnStep
      <3> QED
        BY <1>1, <3>1 DEF Ahead
    <2> QED
      BY <2>1, <2>2
  <1> QED
    BY <1>0, <1>1 DEF ClosedBefore, ForClient

\* A connection gets one sender's answers in order.
LEMMA StepInSenderOrder ==
  ASSUME QueueInv, NEW p, QueueStep(p)
  PROVE  InSenderOrder'
  <1>1. CASE got' = got
    BY <1>1 DEF QueueInv, InSenderOrder
  <1>2. CASE got' # got
    <2>1. PICK w \in Written :
            /\ got' = Append(got, w)
            /\ \A i \in DOMAIN got : got[i].conn = w.conn /\ got[i].from = w.from => got[i].n < w.n
      BY <1>2 DEF QueueStep, GotStep
    <2>2. got \in Seq(Written)
      BY TypeFacts DEF QueueInv
    <2>3. /\ DOMAIN got' = 1 .. Len(got) + 1 /\ got'[Len(got) + 1] = w
          /\ \A i \in DOMAIN got : got'[i] = got[i]
          /\ DOMAIN got = 1 .. Len(got) /\ Len(got) \in Nat
      BY <2>1, <2>2
    <2>4. ASSUME NEW i \in DOMAIN got', NEW j \in DOMAIN got',
                 i < j, got'[i].conn = got'[j].conn, got'[i].from = got'[j].from
          PROVE  got'[i].n < got'[j].n
      <3>1. i \in DOMAIN got /\ got'[i] = got[i]
        BY <2>3, <2>4
      <3>2. CASE j = Len(got) + 1
        BY <2>1, <2>3, <2>4, <3>1, <3>2
      <3>3. CASE j # Len(got) + 1
        <4>1. j \in DOMAIN got /\ got'[j] = got[j]
          BY <2>3, <2>4, <3>3
        <4> QED
          BY <2>4, <3>1, <4>1 DEF QueueInv, InSenderOrder
      <3> QED
        BY <3>2, <3>3
    <2> QED
      BY <2>4 DEF InSenderOrder
  <1> QED
    BY <1>1, <1>2

\* No accepted answer is lost.
LEMMA StepKept ==
  ASSUME QueueInv, NEW p, QueueStep(p)
  PROVE  Kept'
  <1>0. Threads' = Threads
    BY ThreadsStay DEF QueueStep
  <1> SUFFICES ASSUME NEW a \in accepted, ~Arrived(a)', ~OnItsWay(a)' PROVE TooLate(a)'
    <2>1. \A a \in accepted' : a \in accepted \/ Arrived(a)' \/ OnItsWay(a)'
      BY DEF QueueStep
    <2> QED
      BY <2>1 DEF Kept
  <1>1. a \in Answers /\ a.guid \in ConnGUIDs
    BY TypeFacts DEF QueueInv, Answers
  <1>2. PICK h : h = Home(a.guid)
    OBVIOUS
  <1>3. h \in Threads /\ a.guid.id \in ConnIDs
    BY <1>1, <1>2, GUIDFacts
  <1>4. ~Arrived(a)
    <2> SUFFICES ASSUME NEW i \in DOMAIN got, got[i].n = a.n, got[i].guid = a.guid PROVE FALSE
      BY DEF Arrived
    <2>1. got \in Seq(Written)
      BY TypeFacts DEF QueueInv
    <2>2. i \in DOMAIN got' /\ got'[i] = got[i]
      <3>1. CASE got' = got
        BY <3>1
      <3>2. CASE got' # got
        <4>1. PICK w \in Written : got' = Append(got, w)
          BY <3>2 DEF QueueStep, GotStep
        <4> QED
          BY <4>1, <2>1
      <3> QED
        BY <3>1, <3>2
    <2> QED
      BY <2>2 DEF Arrived
  <1>5. ConnStep(h, a.guid.id)
    BY <1>3 DEF QueueStep
  <1>6. CASE OnItsWay(a)
    <2>1. PICK i \in DOMAIN tasks[h] :
            tasks[h][i] = [type |-> "send", guid |-> a.guid, from |-> a.from, n |-> a.n]
      BY <1>2, <1>6 DEF OnItsWay
    <2>2. ~(i > Drop(h, p))
      <3> SUFFICES ASSUME i > Drop(h, p) PROVE FALSE
        OBVIOUS
      <3>1. i - Drop(h, p) \in DOMAIN tasks'[h] /\ tasks'[h][i - Drop(h, p)] = tasks[h][i]
        BY <1>3 DEF QueueStep, TaskStep
      <3> QED
        BY <1>2, <2>1, <3>1 DEF OnItsWay, Home
    <2>3. tasks[h] \in Seq(Tasks)
      BY <1>3, TypeFacts DEF QueueInv
    <2>4. i = 1 /\ p = h
      BY <2>1, <2>2, <2>3 DEF Drop
    <2>5. /\ tasks[h][1].type = "send" /\ tasks[h][1].guid = a.guid
          /\ tasks[h][1].from = a.from /\ tasks[h][1].n = a.n
      BY <2>1, <2>4
    <2>6. conn[h][a.guid.id].st # "open"
      <3>1. (\E k \in DOMAIN got' : got'[k].n = a.n /\ got'[k].guid = a.guid)
              \/ conn[h][a.guid.id].st # "open"
        BY <1>3, <2>4, <2>5 DEF QueueStep, PopStep
      <3> QED
        BY <3>1 DEF Arrived
    <2>7. conn[h][a.guid.id].st # "none"
      BY <1>1, <1>2, <1>3, <2>1, <2>4, <2>5 DEF QueueInv, OnlyTold, Told
    <2>8. conn[h][a.guid.id] \in Ends
      BY <1>3, TypeFacts DEF QueueInv
    <2>9. conn[h][a.guid.id].st = "closed"
      BY <2>6, <2>7, <2>8 DEF Ends
    <2>10. conn'[h][a.guid.id] = conn[h][a.guid.id]
      BY <1>5, <2>9 DEF ConnStep
    <2>11. conn[h][a.guid.id].from = a.from => conn[h][a.guid.id].n < a.n
      BY <1>3, <2>1, <2>4, <2>5, <2>9 DEF QueueInv, ClosedBefore, ForClient
    <2> QED
      BY <1>2, <2>9, <2>10, <2>11 DEF TooLate, Home
  <1>7. CASE TooLate(a)
    <2>1. conn[h][a.guid.id].st = "closed"
      BY <1>2, <1>7 DEF TooLate
    <2>2. conn'[h][a.guid.id] = conn[h][a.guid.id]
      BY <1>5, <2>1 DEF ConnStep
    <2> QED
      BY <1>2, <1>7, <2>2 DEF TooLate, Home
  <1> QED
    BY <1>4, <1>6, <1>7 DEF QueueInv, Kept

\* All parts together.
LEMMA QueueStepInv ==
  ASSUME QueueInv, NEW p, QueueStep(p)
  PROVE  QueueInv'
  <1>1. QueueTypes'
    BY DEF QueueStep
  <1>2. OnlyTold' /\ Numbered' /\ AtHome' /\ Addressed'
    BY StepOnlyTold, StepNumbered, StepAtHome, StepAddressed
  <1>3. QueueOrder' /\ WrittenBefore' /\ ClosedBefore' /\ InSenderOrder' /\ Kept'
    BY StepQueueOrder, StepWrittenBefore, StepClosedBefore, StepInSenderOrder, StepKept
  <1> QED
    BY <1>1, <1>2, <1>3 DEF QueueInv
-----------------------------------------------------------------------------
\* What the actions do to queues.

\* No thread is nobody.
LEMMA NobodyIsNoThread == Nobody \notin Threads
  <1> SUFFICES ASSUME Nobody \in Threads PROVE FALSE
    OBVIOUS
  <1>1. Nobody[1] \in Kinds
    BY ThreadFacts
  <1>2. Nobody[1] = "client"
    BY DEF Nobody
  <1> QED
    BY <1>1, <1>2 DEF Kinds, Counted, IOs

\* The types after a step that keeps the threads.
LEMMA TypesNext ==
  ASSUME created' = created,
         tasks' \in [Threads -> Seq(Tasks)], known' \in [Threads -> SUBSET GUIDs],
         conn' \in [Threads -> [ConnIDs -> Ends]], accepted' \subseteq Answers,
         got' \in Seq(Written), replies' \in Nat
  PROVE  QueueTypes'
  BY ThreadsStay DEF QueueTypes

\* A queue that stays.
LEMMA StayStep ==
  ASSUME QueueTypes, NEW t \in Threads, NEW p, t # p, tasks'[t] = tasks[t]
  PROVE  TaskStep(t, p)
  <1>1. Drop(t, p) = 0
    BY DEF Drop
  <1>2. tasks[t] \in Seq(Tasks)
    BY TypeFacts
  <1>3. \A i \in DOMAIN tasks[t] : i + 0 = i /\ i - 0 = i
    BY <1>2
  <1>4. \A i \in DOMAIN tasks'[t] : i + 0 \in DOMAIN tasks[t] /\ tasks'[t][i] = tasks[t][i + 0]
    BY <1>3
  <1>5. \A i \in DOMAIN tasks[t] : i - 0 \in DOMAIN tasks'[t] /\ tasks'[t][i - 0] = tasks[t][i]
    BY <1>3
  <1> QED
    BY <1>1, <1>4, <1>5 DEF TaskStep

\* A queue to which a task is added.
LEMMA AddedStep ==
  ASSUME QueueTypes, NEW t \in Threads, NEW m \in Tasks, Fresh(t, m),
         tasks'[t] = Append(tasks[t], m)
  PROVE  TaskStep(t, Nobody)
  <1>1. Drop(t, Nobody) = 0
    BY NobodyIsNoThread DEF Drop
  <1>2. tasks[t] \in Seq(Tasks)
    BY TypeFacts
  <1>3. /\ DOMAIN tasks'[t] = 1 .. Len(tasks[t]) + 1 /\ tasks'[t][Len(tasks[t]) + 1] = m
        /\ \A i \in DOMAIN tasks[t] : tasks'[t][i] = tasks[t][i]
        /\ DOMAIN tasks[t] = 1 .. Len(tasks[t]) /\ Len(tasks[t]) \in Nat
    BY <1>2
  <1>4. ASSUME NEW i \in DOMAIN tasks'[t]
        PROVE  \/ i + 0 \in DOMAIN tasks[t] /\ tasks'[t][i] = tasks[t][i + 0]
               \/ i + 0 = Len(tasks[t]) + 1 /\ Fresh(t, tasks'[t][i])
    <2>1. CASE i = Len(tasks[t]) + 1
      BY <1>3, <2>1
    <2>2. CASE i # Len(tasks[t]) + 1
      <3>1. i \in DOMAIN tasks[t] /\ i + 0 = i
        BY <1>3, <2>2
      <3> QED
        BY <1>3, <3>1
    <2> QED
      BY <2>1, <2>2
  <1>5. ASSUME NEW i \in DOMAIN tasks[t]
        PROVE  i - 0 \in DOMAIN tasks'[t] /\ tasks'[t][i - 0] = tasks[t][i]
    <2>1. i - 0 = i /\ i \in DOMAIN tasks'[t]
      BY <1>3
    <2> QED
      BY <1>3, <2>1
  <1> QED
    BY <1>1, <1>4, <1>5 DEF TaskStep

\* Thread::PushTask.
LEMMA PushStep ==
  ASSUME QueueTypes, NEW u \in Threads, NEW m \in Tasks, Fresh(u, m),
         tasks' = [tasks EXCEPT ![u] = Append(@, m)]
  PROVE  /\ tasks' \in [Threads -> Seq(Tasks)]
         /\ \A t \in Threads : TaskStep(t, Nobody)
  <1>0. tasks \in [Threads -> Seq(Tasks)]
    BY DEF QueueTypes
  <1>1. tasks[u] \in Seq(Tasks) /\ Append(tasks[u], m) \in Seq(Tasks)
    BY <1>0
  <1>2. tasks' \in [Threads -> Seq(Tasks)]
    BY <1>0, <1>1
  <1>3. tasks'[u] = Append(tasks[u], m)
    BY <1>0
  <1>4. ASSUME NEW t \in Threads PROVE TaskStep(t, Nobody)
    <2>1. CASE t = u
      BY <1>3, <2>1, AddedStep
    <2>2. CASE t # u
      <3>1. tasks'[t] = tasks[t]
        BY <1>0, <2>2
      <3> QED
        BY <3>1, StayStep, NobodyIsNoThread
    <2> QED
      BY <2>1, <2>2
  <1> QED
    BY <1>2, <1>4

\* A thread takes the first task off its queue.
LEMMA TakeStep ==
  ASSUME QueueTypes, NEW u \in Threads, tasks[u] # <<>>,
         tasks' = [tasks EXCEPT ![u] = Tail(@)]
  PROVE  /\ tasks' \in [Threads -> Seq(Tasks)]
         /\ \A t \in Threads : TaskStep(t, u)
         /\ Head(tasks[u]) = tasks[u][1] /\ 1 \in DOMAIN tasks[u] /\ tasks[u][1] \in Tasks
         /\ \A i \in DOMAIN tasks'[u] : i + 1 \in DOMAIN tasks[u] /\ 1 < i + 1 /\ tasks'[u][i] = tasks[u][i + 1]
  <1>0. tasks \in [Threads -> Seq(Tasks)]
    BY DEF QueueTypes
  <1>1. PICK q : q = tasks[u]
    OBVIOUS
  <1>2. q \in Seq(Tasks) /\ q # <<>>
    BY <1>0, <1>1
  <1>3. /\ Tail(q) \in Seq(Tasks) /\ Len(q) \in Nat /\ Len(q) > 0 /\ Head(q) = q[1] /\ DOMAIN q = 1 .. Len(q)
        /\ DOMAIN Tail(q) = 1 .. Len(q) - 1
        /\ \A i \in 1 .. Len(q) - 1 : Tail(q)[i] = q[i + 1]
    BY <1>2
  <1>4. tasks'[u] = Tail(q)
    BY <1>0, <1>1
  <1>5. tasks' \in [Threads -> Seq(Tasks)]
    BY <1>0, <1>1, <1>3
  <1>6. \A i \in DOMAIN tasks'[u] : i + 1 \in DOMAIN tasks[u] /\ 1 < i + 1 /\ tasks'[u][i] = tasks[u][i + 1]
    <2> SUFFICES ASSUME NEW i \in DOMAIN Tail(q)
                 PROVE  i + 1 \in DOMAIN q /\ 1 < i + 1 /\ Tail(q)[i] = q[i + 1]
      BY <1>1, <1>4
    <2>1. i \in 1 .. Len(q) - 1
      BY <1>3
    <2>2. i + 1 \in 1 .. Len(q) /\ 1 < i + 1
      BY <1>3, <2>1
    <2> QED
      BY <1>3, <2>1, <2>2
  <1>7. \A i \in DOMAIN q : i > 1 => i - 1 \in DOMAIN Tail(q) /\ Tail(q)[i - 1] = q[i]
    <2> SUFFICES ASSUME NEW i \in DOMAIN q, i > 1
                 PROVE  i - 1 \in DOMAIN Tail(q) /\ Tail(q)[i - 1] = q[i]
      OBVIOUS
    <2>1. i - 1 \in 1 .. Len(q) - 1 /\ (i - 1) + 1 = i
      BY <1>3
    <2> QED
      BY <1>3, <2>1
  <1>8. ASSUME NEW t \in Threads PROVE TaskStep(t, u)
    <2>1. CASE t = u
      <3>1. Drop(t, u) = 1
        BY <2>1 DEF Drop
      <3>2. \A i \in DOMAIN tasks'[t] :
              i + Drop(t, u) \in DOMAIN tasks[t] /\ tasks'[t][i] = tasks[t][i + Drop(t, u)]
        BY <1>6, <2>1, <3>1
      <3>3. \A i \in DOMAIN tasks[t] : i > Drop(t, u) =>
              i - Drop(t, u) \in DOMAIN tasks'[t] /\ tasks'[t][i - Drop(t, u)] = tasks[t][i]
        BY <1>1, <1>4, <1>7, <2>1, <3>1
      <3> QED
        BY <3>2, <3>3 DEF TaskStep
    <2>2. CASE t # u
      <3>1. tasks'[t] = tasks[t]
        BY <1>0, <2>2
      <3> QED
        BY <2>2, <3>1, StayStep
    <2> QED
      BY <2>1, <2>2
  <1>9. Head(tasks[u]) = tasks[u][1] /\ 1 \in DOMAIN tasks[u] /\ tasks[u][1] \in Tasks
    BY <1>1, <1>2, <1>3
  <1> QED
    BY <1>5, <1>6, <1>8, <1>9

\* The parts of QueueStep about what an action leaves alone.
LEMMA Unchanging ==
  ASSUME QueueInv, created' = created
  PROVE  /\ conn' = conn => \A t \in Threads : \A c \in ConnIDs : ConnStep(t, c)
         /\ got' = got => GotStep
         /\ PopStep(Nobody)
         /\ conn' = conn /\ known' = known => \A t \in Threads : \A g \in known'[t] :
               g \in ConnGUIDs => conn'[Home(g)][g.id].st # "none"
         /\ \A a \in accepted : a \in accepted \/ Arrived(a)' \/ OnItsWay(a)'
  <1>1. conn' = conn => \A t \in Threads : \A c \in ConnIDs : ConnStep(t, c)
    BY DEF ConnStep
  <1>2. got' = got => GotStep
    BY DEF GotStep
  <1>3. PopStep(Nobody)
    BY NobodyIsNoThread DEF PopStep
  <1>4. conn' = conn /\ known' = known => \A t \in Threads : \A g \in known'[t] :
               g \in ConnGUIDs => conn'[Home(g)][g.id].st # "none"
    BY DEF QueueInv, OnlyTold, Told
  <1> QED
    BY <1>1, <1>2, <1>3, <1>4
-----------------------------------------------------------------------------
\* The actions are QueueSteps.

\* ThreadSink::OnClientClosed of an open connection.
LEMMA CloseStep ==
  ASSUME QueueInv, NEW t \in Threads, NEW c \in ConnIDs, conn[t][c].st = "open",
         NEW from \in Threads \cup {Nobody}, NEW n \in Nat, n <= replies', Ahead(t, from, n),
         Close(t, c, from, n)
  PROVE  /\ conn' \in [Threads -> [ConnIDs -> Ends]]
         /\ \A u \in Threads : \A d \in ConnIDs : ConnStep(u, d)
  <1>0. conn \in [Threads -> [ConnIDs -> Ends]]
    BY DEF QueueInv, QueueTypes
  <1>1. PICK e : e = [st |-> "closed", from |-> from, n |-> n]
    OBVIOUS
  <1>2. e \in Ends /\ e.st = "closed" /\ e.from = from /\ e.n = n
    BY <1>1 DEF Ends
  <1>3. conn' = [conn EXCEPT ![t][c] = e]
    BY <1>1 DEF Close
  <1>4. conn' \in [Threads -> [ConnIDs -> Ends]]
    BY <1>0, <1>2, <1>3
  <1>5. conn'[t][c] = e
    BY <1>0, <1>3
  <1>6. ASSUME NEW u \in Threads, NEW d \in ConnIDs PROVE ConnStep(u, d)
    <2>1. CASE u = t /\ d = c
      BY <1>2, <1>5, <2>1 DEF ConnStep
    <2>2. CASE ~(u = t /\ d = c)
      <3>1. conn'[u][d] = conn[u][d]
        BY <1>0, <1>3, <2>2
      <3> QED
        BY <3>1 DEF ConnStep
    <2> QED
      BY <2>1, <2>2
  <1> QED
    BY <1>4, <1>6

\* What tcp::Scheduler does for a connection of its own thread.
LEMMA OwnStep ==
  ASSUME QueueInv, NEW g \in ConnGUIDs, NEW t, t = Home(g), NEW type \in {"send", "close"},
         NEW from \in Threads, NEW n \in Nat, n <= replies', Ahead(t, from, n),
         \A i \in DOMAIN got : Home(got[i].conn) = t /\ got[i].from = from => got[i].n < n,
         OwnClient(t, g, type, from, n)
  PROVE  /\ conn' \in [Threads -> [ConnIDs -> Ends]] /\ got' \in Seq(Written)
         /\ \A u \in Threads : \A d \in ConnIDs : ConnStep(u, d)
         /\ GotStep
         /\ got' # got => \E i \in DOMAIN got' : got'[i].n = n /\ got'[i].guid = g
         /\ type = "send" => got' # got \/ conn[t][g.id].st # "open"
  <1>0. t \in Threads /\ g.id \in ConnIDs /\ g = GUID(t, g.id)
    BY GUIDFacts
  <1>1. conn \in [Threads -> [ConnIDs -> Ends]] /\ got \in Seq(Written)
    BY DEF QueueInv, QueueTypes
  <1>2. CASE UNCHANGED <<conn, got>> /\ conn[t][g.id].st # "open"
    BY <1>1, <1>2 DEF GotStep, ConnStep
  <1>3. CASE type = "send" /\ Write(t, g.id, g, from, n) /\ UNCHANGED conn
    <2>1. PICK w : w = [conn |-> GUID(t, g.id), guid |-> g, from |-> from, n |-> n]
      OBVIOUS
    <2>2. w.conn = g /\ w.guid = g /\ w.from = from /\ w.n = n
      BY <1>0, <2>1
    <2>3. w \in Written
      <3>1. g \in GUIDs
        BY DEF GUIDs
      <3>2. w = [conn |-> g, guid |-> g, from |-> from, n |-> n]
        BY <1>0, <2>1
      <3> QED
        BY <3>1, <3>2 DEF Written
    <2>4. got' = Append(got, w)
      BY <1>3, <2>1 DEF Write
    <2>5. got' \in Seq(Written) /\ Len(got) + 1 \in DOMAIN got' /\ got'[Len(got) + 1] = w
      BY <1>1, <2>3, <2>4
    <2>6. GotStep
      <3>1. \A i \in DOMAIN got : got[i].conn = w.conn /\ got[i].from = w.from => got[i].n < w.n
        BY <2>2
      <3>2. Ahead(Home(w.conn), w.from, w.n) /\ w.n <= replies' /\ w.conn = w.guid
        BY <2>2
      <3> QED
        BY <2>3, <2>4, <3>1, <3>2 DEF GotStep
    <2>7. got' # got
      BY <1>1, <2>4, <2>5
    <2> QED
      BY <1>1, <1>3, <2>2, <2>5, <2>6, <2>7 DEF ConnStep
  <1>4. CASE conn[t][g.id].st = "open" /\ type = "close" /\ Close(t, g.id, from, n) /\ UNCHANGED got
    <2>1. /\ conn' \in [Threads -> [ConnIDs -> Ends]]
          /\ \A u \in Threads : \A d \in ConnIDs : ConnStep(u, d)
      BY <1>0, <1>4, CloseStep
    <2> QED
      BY <1>1, <1>4, <2>1 DEF GotStep
  <1> QED
    BY <1>0, <1>2, <1>3, <1>4 DEF OwnClient

\* A connection that was accepted has still been accepted.
LEMMA AcceptedStays ==
  ASSUME QueueInv, \A u \in Threads : \A d \in ConnIDs : ConnStep(u, d), NEW g, Told(g)
  PROVE  g \in ConnGUIDs => conn'[Home(g)][g.id].st # "none"
  <1> SUFFICES ASSUME g \in ConnGUIDs PROVE conn'[Home(g)][g.id].st # "none"
    OBVIOUS
  <1>1. ConnStep(Home(g), g.id) /\ conn[Home(g)][g.id].st # "none"
    BY GUIDFacts DEF Told
  <1> QED
    BY <1>1 DEF ConnStep

\* A guid that a thread's logics know.
LEMMA KnownFacts ==
  ASSUME QueueInv, NEW t \in Threads, NEW g \in known[t]
  PROVE  /\ g \in GUIDs /\ Told(g) /\ (g.io \in IOs => g \in ConnGUIDs)
  <1>1. g \in GUIDs
    BY TypeFacts DEF QueueInv
  <1>2. Told(g)
    BY DEF QueueInv, OnlyTold
  <1> QED
    BY <1>1, <1>2, NoGUIDFacts DEF GUIDs

\* A message, as a task.
LEMMA MessageFacts ==
  ASSUME QueueInv, NEW t \in Threads, NEW g \in known[t], replies' = replies,
         NEW u \in Threads
  PROVE  /\ [type |-> "normal", guid |-> g, from |-> t, n |-> 0] \in Tasks
         /\ Fresh(u, [type |-> "normal", guid |-> g, from |-> t, n |-> 0])
  <1>1. g \in GUIDs /\ Told(g) /\ replies \in Nat
    BY KnownFacts, TypeFacts DEF QueueInv
  <1>2. PICK m : m = [type |-> "normal", guid |-> g, from |-> t, n |-> 0]
    OBVIOUS
  <1>3. m.type = "normal" /\ m.guid = g /\ m.n = 0
    BY <1>2
  <1>4. m \in Tasks
    BY <1>1, <1>2 DEF Tasks
  <1>5. Fresh(u, m)
    BY <1>1, <1>3 DEF Fresh
  <1> QED
    BY <1>2, <1>4, <1>5

\* SendToThread, as far as queues go.
LEMMA SendQueueStep ==
  ASSUME QueueInv, NEW t \in Threads, NEW k \in Kinds, NEW idx, NEW g \in known[t],
         SendToThread(t, k, idx, g)
  PROVE  QueueStep(Nobody)
  <1>0. created' = created /\ UNCHANGED <<conn, known, replies, accepted, got>>
    BY DEF SendToThread
  <1>1. /\ tasks' \in [Threads -> Seq(Tasks)]
        /\ \A u \in Threads : TaskStep(u, Nobody)
    <2>1. CASE tasks' = tasks
      <3>1. \A u \in Threads : TaskStep(u, Nobody)
        BY <2>1, StayStep, NobodyIsNoThread DEF QueueInv
      <3> QED
        BY <2>1, <3>1 DEF QueueInv, QueueTypes
    <2>2. CASE tasks' # tasks
      <3>1. PICK i \in Indices(k) : Push(<<k, i>>, "normal", g, t, 0)
        BY <2>2 DEF SendToThread
      <3>2. PICK u : u = <<k, i>>
        OBVIOUS
      <3>3. u \in Threads
        BY <3>2, ThreadIntro
      <3>4. PICK m : m = [type |-> "normal", guid |-> g, from |-> t, n |-> 0]
        OBVIOUS
      <3>5. m \in Tasks /\ Fresh(u, m)
        BY <1>0, <3>3, <3>4, MessageFacts
      <3>6. tasks' = [tasks EXCEPT ![u] = Append(@, m)]
        BY <3>1, <3>2, <3>4 DEF Push
      <3> QED
        BY <3>3, <3>5, <3>6, PushStep DEF QueueInv
    <2> QED
      BY <2>1, <2>2
  <1>2. QueueTypes'
    BY <1>0, <1>1, TypesNext DEF QueueInv, QueueTypes
  <1>3. replies' \in Nat /\ replies <= replies'
    BY <1>0, TypeFacts DEF QueueInv
  <1> QED
    BY <1>0, <1>1, <1>2, <1>3, Unchanging DEF QueueStep

\* The broadcast of global::Scheduler, to a group that is configured.
LEMMA BroadcastQueueStep ==
  ASSUME QueueInv, NEW t \in Threads, NEW k \in Kinds, NEW g \in known[t],
         Broadcast(t, k, g)
  PROVE  QueueStep(Nobody)
  <1>0. created' = created /\ UNCHANGED <<conn, known, replies, accepted, got>>
    BY DEF Broadcast
  <1>a. tasks \in [Threads -> Seq(Tasks)]
    BY DEF QueueInv, QueueTypes
  <1>1. /\ tasks' \in [Threads -> Seq(Tasks)]
        /\ \A u \in Threads : TaskStep(u, Nobody)
    <2>1. CASE tasks' = tasks
      <3>1. \A u \in Threads : TaskStep(u, Nobody)
        BY <2>1, StayStep, NobodyIsNoThread DEF QueueInv
      <3> QED
        BY <2>1, <3>1, <1>a
    <2>2. CASE tasks' # tasks
      <3>1. PICK m : m = [type |-> "normal", guid |-> g, from |-> t, n |-> 0]
        OBVIOUS
      <3>2. tasks' = [u \in Threads |-> IF u[1] = k THEN Append(tasks[u], m) ELSE tasks[u]]
        BY <1>a, <2>2, <3>1 DEF Broadcast
      <3>3. m \in Tasks /\ \A u \in Threads : Fresh(u, m)
        BY <1>0, <3>1, MessageFacts
      <3>4. \A u \in Threads : tasks[u] \in Seq(Tasks) /\ Append(tasks[u], m) \in Seq(Tasks)
        BY <1>a, <3>3
      <3>5. tasks' \in [Threads -> Seq(Tasks)]
        BY <3>2, <3>4
      <3>6. ASSUME NEW u \in Threads PROVE TaskStep(u, Nobody)
        <4>1. CASE u[1] = k
          <5>1. tasks'[u] = Append(tasks[u], m)
            BY <3>2, <4>1
          <5> QED
            BY <3>3, <5>1, AddedStep DEF QueueInv
        <4>2. CASE u[1] # k
          <5>1. tasks'[u] = tasks[u]
            BY <3>2, <4>2
          <5> QED
            BY <5>1, StayStep, NobodyIsNoThread DEF QueueInv
        <4> QED
          BY <4>1, <4>2
      <3> QED
        BY <3>5, <3>6
    <2> QED
      BY <2>1, <2>2
  <1>2. QueueTypes'
    BY <1>0, <1>1, TypesNext DEF QueueInv, QueueTypes
  <1>3. replies' \in Nat /\ replies <= replies'
    BY <1>0, TypeFacts DEF QueueInv
  <1> QED
    BY <1>0, <1>1, <1>2, <1>3, Unchanging DEF QueueStep
\* A task for a client that is sent to the thread that has the connection.
LEMMA ClientTaskStep ==
  ASSUME QueueInv, created' = created, NEW t \in Threads, NEW g \in known[t], g \in ConnGUIDs,
         Home(g) # t, NEW type \in {"send", "close"}, replies' = replies + 1,
         Push(Home(g), type, g, t, replies'),
         UNCHANGED <<conn, known, got>>,
         accepted' = IF type = "send" THEN accepted \cup {[guid |-> g, from |-> t, n |-> replies']}
                     ELSE accepted
  PROVE  QueueStep(Nobody)
  <1>0. replies \in Nat /\ replies' \in Nat /\ replies <= replies'
    BY TypeFacts DEF QueueInv
  <1>1. PICK u : u = Home(g)
    OBVIOUS
  <1>2. u \in Threads /\ u # t
    BY <1>1, GUIDFacts
  <1>3. PICK m : m = [type |-> type, guid |-> g, from |-> t, n |-> replies']
    OBVIOUS
  <1>4. m.type = type /\ m.guid = g /\ m.from = t /\ m.n = replies'
    BY <1>3
  <1>5. m \in Tasks
    BY <1>0, <1>3, KnownFacts DEF Tasks
  <1>6. Fresh(u, m)
    <2>1. Told(g)
      BY KnownFacts
    <2> QED
      BY <1>0, <1>1, <1>2, <1>4, <2>1 DEF Fresh
  <1>7. tasks' = [tasks EXCEPT ![u] = Append(@, m)]
    BY <1>1, <1>3 DEF Push
  <1>8. /\ tasks' \in [Threads -> Seq(Tasks)]
        /\ \A v \in Threads : TaskStep(v, Nobody)
    BY <1>2, <1>5, <1>6, <1>7, PushStep DEF QueueInv
  <1>9. PICK a : a = [guid |-> g, from |-> t, n |-> replies']
    OBVIOUS
  <1>10. a \in Answers
    BY <1>0, <1>9 DEF Answers
  <1>11. accepted' \subseteq Answers
    BY <1>9, <1>10 DEF QueueInv, QueueTypes
  <1>12. QueueTypes'
    BY <1>0, <1>8, <1>11, TypesNext DEF QueueInv, QueueTypes
  <1>13. ASSUME type = "send" PROVE OnItsWay(a)'
    <2>1. a.guid = g /\ a.from = t /\ a.n = replies'
      BY <1>9
    <2>2. tasks \in [Threads -> Seq(Tasks)]
      BY DEF QueueInv, QueueTypes
    <2>3. PICK i : i = Len(tasks[u]) + 1
      OBVIOUS
    <2>4. i \in DOMAIN tasks'[u] /\ tasks'[u][i] = m
      BY <1>2, <1>5, <1>7, <2>2, <2>3
    <2>5. m = [type |-> "send", guid |-> a.guid, from |-> a.from, n |-> a.n]
      BY <1>3, <1>13, <2>1
    <2> QED
      BY <1>1, <2>1, <2>4, <2>5 DEF OnItsWay, Home
  <1>14. \A b \in accepted' : b \in accepted \/ Arrived(b)' \/ OnItsWay(b)'
    BY <1>9, <1>13
  <1> QED
    BY <1>0, <1>8, <1>12, <1>14, Unchanging DEF QueueStep

\* A call that changes nothing but the counter.
LEMMA CallStep ==
  ASSUME QueueInv, created' = created, replies' = replies + 1,
         UNCHANGED <<tasks, conn, known, accepted, got>>
  PROVE  QueueStep(Nobody)
  <1>0. replies \in Nat /\ replies' \in Nat /\ replies <= replies'
    BY TypeFacts DEF QueueInv
  <1>1. \A u \in Threads : TaskStep(u, Nobody)
    BY StayStep, NobodyIsNoThread DEF QueueInv
  <1>2. QueueTypes'
    BY <1>0, TypesNext DEF QueueInv, QueueTypes
  <1> QED
    BY <1>0, <1>1, <1>2, Unchanging DEF QueueStep

\* The calls of work::Scheduler for a client.
LEMMA WorkQueueStep ==
  ASSUME QueueInv, NEW t \in Threads, NEW g \in known[t], NEW type \in {"send", "close"},
         WorkToClient(t, g, type)
  PROVE  QueueStep(Nobody)
  <1>0. /\ t[1] = "work" /\ replies' = replies + 1 /\ created' = created
        /\ UNCHANGED <<conn, known, got>>
    BY DEF WorkToClient, Calling
  <1>1. DOMAIN tasks = Threads
    BY DEF QueueInv, QueueTypes
  <1>2. CASE Target(g) \in Threads
    <2>1. Target(g) = Home(g) /\ g.io \in IOs
      BY <1>2, NobodyIsNoThread DEF Target
    <2>2. g \in ConnGUIDs
      BY <2>1, KnownFacts
    <2>3. Home(g) # t
      <3>1. Home(g)[1] = g.io
        BY DEF Home
      <3> QED
        BY <1>0, <2>1, <3>1 DEF IOs
    <2>4. /\ Push(Home(g), type, g, t, replies')
          /\ accepted' = IF type = "send" THEN accepted \cup {[guid |-> g, from |-> t, n |-> replies']}
                         ELSE accepted
      BY <1>1, <1>2, <2>1 DEF WorkToClient
    <2> QED
      BY <1>0, <2>2, <2>3, <2>4, ClientTaskStep
  <1>3. CASE Target(g) \notin Threads
    <2>1. UNCHANGED <<tasks, accepted>>
      BY <1>1, <1>3 DEF WorkToClient
    <2> QED
      BY <1>0, <2>1, CallStep
  <1> QED
    BY <1>2, <1>3

\* What a thread does at once for a connection of its own is ahead of all
\* that waits, because it sends itself no tasks.
LEMMA OwnAhead ==
  ASSUME QueueInv, NEW t \in Threads, tasks' = tasks, NEW n
  PROVE  Ahead(t, t, n)
  BY DEF Ahead, QueueInv, AtHome, ForClient

\* The calls of tcp::Scheduler for a client, by logics that answer connections
\* of their own group only.
LEMMA IOQueueStep ==
  ASSUME QueueInv, Careful, NEW t \in Threads, NEW g \in known[t], NEW type \in {"send", "close"},
         IOToClient(t, g, type)
  PROVE  QueueStep(Nobody) /\ phase' = phase
  <1>0. /\ t[1] \in IOs /\ g.io = t[1] /\ replies' = replies + 1 /\ created' = created
        /\ known' = known
    BY DEF IOToClient, Calling
  <1>a. replies \in Nat /\ replies' \in Nat /\ replies <= replies'
    BY <1>0, TypeFacts DEF QueueInv
  <1>1. DOMAIN tasks = Threads
    BY DEF QueueInv, QueueTypes
  <1>2. g \in ConnGUIDs /\ Home(g) \in Threads /\ Home(g) = <<t[1], g.idx>>
    BY <1>0, KnownFacts, GUIDFacts DEF Home
  <1>3. accepted' = IF type = "send" /\ (Home(g) = t => got' # got)
                    THEN accepted \cup {[guid |-> g, from |-> t, n |-> replies']}
                    ELSE accepted
    BY <1>2 DEF IOToClient
  <1>4. CASE Home(g) = t
    <2>1. OwnClient(t, g, type, t, replies') /\ UNCHANGED <<tasks, phase>>
      BY <1>2, <1>4 DEF IOToClient
    <2>2. Ahead(t, t, replies')
      BY <2>1, OwnAhead
    <2>3. \A i \in DOMAIN got : got[i].n < replies'
      <3> TAKE i \in DOMAIN got
      <3>1. got[i].n <= replies /\ got[i] \in Written
        BY TypeFacts DEF QueueInv, Numbered
      <3>2. got[i].n \in Nat
        BY <3>1 DEF Written
      <3> QED
        BY <1>0, <1>a, <3>1, <3>2
    <2>4. replies' <= replies'
      BY <1>a
    <2>5. PICK n : n = replies'
      OBVIOUS
    <2>6. /\ conn' \in [Threads -> [ConnIDs -> Ends]] /\ got' \in Seq(Written)
          /\ \A u \in Threads : \A d \in ConnIDs : ConnStep(u, d)
          /\ GotStep
          /\ got' # got => \E i \in DOMAIN got' : got'[i].n = n /\ got'[i].guid = g
      BY <1>2, <1>4, <1>a, <2>1, <2>2, <2>3, <2>4, <2>5, OwnStep
    <2>7. PICK a : a = [guid |-> g, from |-> t, n |-> n]
      OBVIOUS
    <2>8. a \in Answers /\ a.guid = g /\ a.n = n
      BY <1>2, <1>a, <2>5, <2>7 DEF Answers
    <2>9. accepted' \subseteq Answers
      BY <1>3, <2>5, <2>7, <2>8 DEF QueueInv, QueueTypes
    <2>10. \A b \in accepted' : b \in accepted \/ Arrived(b)' \/ OnItsWay(b)'
      <3>1. got' # got => Arrived(a)'
        BY <2>6, <2>8 DEF Arrived
      <3> QED
        BY <1>3, <1>4, <2>5, <2>7, <3>1
    <2>11. QueueTypes'
      BY <1>0, <1>a, <2>1, <2>6, <2>9, TypesNext DEF QueueInv, QueueTypes
    <2>12. \A u \in Threads : TaskStep(u, Nobody)
      BY <2>1, StayStep, NobodyIsNoThread DEF QueueInv
    <2>13. \A u \in Threads : \A h \in known'[u] : h \in ConnGUIDs => conn'[Home(h)][h.id].st # "none"
      BY <1>0, <2>6, KnownFacts, AcceptedStays
    <2>14. QueueStep(Nobody)
      BY <1>0, <1>a, <2>6, <2>10, <2>11, <2>12, <2>13, Unchanging DEF QueueStep
    <2> QED
      BY <2>1, <2>14
  <1>5. CASE Home(g) # t
    <2>1. Push(Home(g), type, g, t, replies') /\ UNCHANGED <<conn, got, phase>>
      BY <1>1, <1>2, <1>5 DEF IOToClient
    <2>2. accepted' = IF type = "send" THEN accepted \cup {[guid |-> g, from |-> t, n |-> replies']}
                      ELSE accepted
      BY <1>3, <1>5
    <2> QED
      BY <1>0, <1>2, <1>5, <2>1, <2>2, ClientTaskStep
  <1> QED
    BY <1>4, <1>5

\* ThreadSink::OnTask with a message.
LEMMA MessageQueueStep ==
  ASSUME QueueInv, NEW t \in Threads, OnMessage(t)
  PROVE  QueueStep(t)
  <1>0. /\ tasks[t] # <<>> /\ Head(tasks[t]).type = "normal" /\ created' = created
        /\ tasks' = [tasks EXCEPT ![t] = Tail(@)]
        /\ known' = [known EXCEPT ![t] = @ \cup {Head(tasks[t]).guid}]
        /\ UNCHANGED <<conn, replies, accepted, got>>
    BY DEF OnMessage
  <1>1. replies \in Nat /\ replies' \in Nat /\ replies <= replies'
    BY <1>0, TypeFacts DEF QueueInv
  <1>2. /\ tasks' \in [Threads -> Seq(Tasks)] /\ \A u \in Threads : TaskStep(u, t)
        /\ Head(tasks[t]) = tasks[t][1] /\ 1 \in DOMAIN tasks[t] /\ tasks[t][1] \in Tasks
    BY <1>0, TakeStep DEF QueueInv
  <1>3. PICK g : g = tasks[t][1].guid
    OBVIOUS
  <1>4. g \in GUIDs
    BY <1>2, <1>3 DEF Tasks
  <1>5. Told(g)
    BY <1>2, <1>3 DEF QueueInv, OnlyTold
  <1>6. known \in [Threads -> SUBSET GUIDs]
    BY DEF QueueInv, QueueTypes
  <1>7. known' \in [Threads -> SUBSET GUIDs] /\ \A u \in Threads : known'[u] \subseteq known[u] \cup {g}
    BY <1>0, <1>2, <1>3, <1>4, <1>6
  <1>8. \A u \in Threads : \A h \in known'[u] : h \in ConnGUIDs => conn'[Home(h)][h.id].st # "none"
    <2> SUFFICES ASSUME NEW u \in Threads, NEW h \in known'[u], h \in ConnGUIDs
                 PROVE  conn[Home(h)][h.id].st # "none"
      BY <1>0
    <2>1. Told(h)
      BY <1>5, <1>7, KnownFacts
    <2> QED
      BY <2>1 DEF Told
  <1>9. PopStep(t)
    BY <1>0, <1>2 DEF PopStep
  <1>10. QueueTypes'
    BY <1>0, <1>1, <1>2, <1>7, TypesNext DEF QueueInv, QueueTypes
  <1> QED
    BY <1>0, <1>1, <1>2, <1>8, <1>9, <1>10, Unchanging DEF QueueStep

\* ThreadSink::OnTask with a task for a client.
LEMMA ClientTaskQueueStep ==
  ASSUME QueueInv, NEW t \in Threads, OnClientTask(t)
  PROVE  QueueStep(t)
  <1>0. /\ tasks[t] # <<>> /\ Head(tasks[t]).type # "normal" /\ created' = created
        /\ tasks' = [tasks EXCEPT ![t] = Tail(@)]
        /\ UNCHANGED <<known, replies, accepted>>
    BY DEF OnClientTask
  <1>1. replies \in Nat /\ replies' \in Nat /\ replies <= replies'
    BY <1>0, TypeFacts DEF QueueInv
  <1>2. /\ tasks' \in [Threads -> Seq(Tasks)] /\ \A u \in Threads : TaskStep(u, t)
        /\ Head(tasks[t]) = tasks[t][1] /\ 1 \in DOMAIN tasks[t] /\ tasks[t][1] \in Tasks
        /\ \A i \in DOMAIN tasks'[t] : i + 1 \in DOMAIN tasks[t] /\ 1 < i + 1 /\ tasks'[t][i] = tasks[t][i + 1]
    BY <1>0, TakeStep DEF QueueInv
  <1>3. PICK m : m = tasks[t][1]
    OBVIOUS
  <1>4. m \in Tasks /\ m.type # "normal" /\ ForClient(t, 1)
    BY <1>0, <1>2, <1>3 DEF ForClient
  <1>5. m.type \in {"send", "close"} /\ m.from \in Threads /\ m.n \in Nat
    BY <1>4 DEF Tasks
  <1>6. t = Home(m.guid) /\ m.guid \in ConnGUIDs
    BY <1>2, <1>3, <1>4 DEF QueueInv, AtHome
  <1>7. t[1] \in IOs
    <2>1. t[1] = m.guid.io
      BY <1>6 DEF Home
    <2> QED
      BY <1>6, <2>1, GUIDFacts
  <1>8. OwnClient(t, m.guid, m.type, m.from, m.n)
    BY <1>2, <1>3, <1>7 DEF OnClientTask
  <1>9. m.n <= replies'
    BY <1>0, <1>2, <1>3 DEF QueueInv, Numbered
  <1>10. Ahead(t, m.from, m.n)
    <2> SUFFICES ASSUME NEW i \in DOMAIN tasks'[t], tasks'[t][i].type # "normal",
                        tasks'[t][i].from = m.from
                 PROVE  m.n < tasks'[t][i].n
      BY DEF Ahead
    <2>1. i + 1 \in DOMAIN tasks[t] /\ 1 < i + 1 /\ tasks'[t][i] = tasks[t][i + 1]
      BY <1>2
    <2>2. ForClient(t, i + 1)
      BY <2>1 DEF ForClient
    <2> QED
      BY <1>2, <1>3, <1>4, <2>1, <2>2 DEF QueueInv, QueueOrder
  <1>11. \A i \in DOMAIN got : Home(got[i].conn) = t /\ got[i].from = m.from => got[i].n < m.n
    BY <1>2, <1>3, <1>4 DEF QueueInv, WrittenBefore
  <1>12. PICK g : g = m.guid
    OBVIOUS
  <1>13. PICK type : type = m.type
    OBVIOUS
  <1>14. PICK from : from = m.from
    OBVIOUS
  <1>15. PICK n : n = m.n
    OBVIOUS
  <1>16. /\ conn' \in [Threads -> [ConnIDs -> Ends]] /\ got' \in Seq(Written)
         /\ \A u \in Threads : \A d \in ConnIDs : ConnStep(u, d)
         /\ GotStep
         /\ got' # got => \E i \in DOMAIN got' : got'[i].n = n /\ got'[i].guid = g
         /\ type = "send" => got' # got \/ conn[t][g.id].st # "open"
    BY <1>5, <1>6, <1>8, <1>9, <1>10, <1>11, <1>12, <1>13, <1>14, <1>15, OwnStep
  <1>17. PopStep(t)
    BY <1>0, <1>3, <1>12, <1>13, <1>15, <1>16 DEF PopStep
  <1>18. QueueTypes'
    BY <1>0, <1>1, <1>2, <1>16, TypesNext DEF QueueInv, QueueTypes
  <1>19. \A u \in Threads : \A h \in known'[u] : h \in ConnGUIDs => conn'[Home(h)][h.id].st # "none"
    BY <1>0, <1>16, KnownFacts, AcceptedStays
  <1> QED
    BY <1>0, <1>1, <1>2, <1>16, <1>17, <1>18, <1>19, Unchanging DEF QueueStep
\* ThreadSink::OnAccept.
LEMMA AcceptQueueStep ==
  ASSUME QueueInv, NEW t \in Threads, NEW c \in ConnIDs, Accept(t, c)
  PROVE  QueueStep(Nobody)
  <1>0. /\ t[1] \in IOs /\ conn[t][c].st = "none" /\ created' = created
        /\ conn' = [conn EXCEPT ![t][c].st = "open"]
        /\ known' = [known EXCEPT ![t] = @ \cup {GUID(t, c)}]
        /\ UNCHANGED <<tasks, replies, accepted, got>>
    BY DEF Accept
  <1>1. replies \in Nat /\ replies' \in Nat /\ replies <= replies'
    BY <1>0, TypeFacts DEF QueueInv
  <1>2. conn \in [Threads -> [ConnIDs -> Ends]] /\ known \in [Threads -> SUBSET GUIDs]
    BY DEF QueueInv, QueueTypes
  <1>3. PICK g : g = GUID(t, c)
    OBVIOUS
  <1>4. g \in ConnGUIDs /\ g \in GUIDs /\ Home(g) = t /\ g.id = c
    BY <1>0, <1>3, GUIDIntro DEF GUIDs
  <1>5. known' \in [Threads -> SUBSET GUIDs] /\ \A u \in Threads : known'[u] \subseteq known[u] \cup {g}
    BY <1>0, <1>2, <1>3, <1>4
  <1>6. PICK e : e = [conn[t][c] EXCEPT !.st = "open"]
    OBVIOUS
  <1>7. conn[t][c] \in Ends
    BY <1>2
  <1>8. e \in Ends /\ e.st = "open" /\ e.n = conn[t][c].n
    BY <1>6, <1>7 DEF Ends
  <1>9. conn' = [conn EXCEPT ![t][c] = e]
    BY <1>0, <1>2, <1>6
  <1>10. conn' \in [Threads -> [ConnIDs -> Ends]] /\ conn'[t][c] = e
    BY <1>2, <1>8, <1>9
  <1>11. ASSUME NEW u \in Threads, NEW d \in ConnIDs PROVE ConnStep(u, d)
    <2>1. CASE u = t /\ d = c
      BY <1>0, <1>8, <1>10, <2>1 DEF ConnStep
    <2>2. CASE ~(u = t /\ d = c)
      <3>1. conn'[u][d] = conn[u][d]
        BY <1>2, <1>9, <2>2
      <3> QED
        BY <3>1 DEF ConnStep
    <2> QED
      BY <2>1, <2>2
  <1>12. \A u \in Threads : \A h \in known'[u] : h \in ConnGUIDs => conn'[Home(h)][h.id].st # "none"
    <2> SUFFICES ASSUME NEW u \in Threads, NEW h \in known'[u], h \in ConnGUIDs
                 PROVE  conn'[Home(h)][h.id].st # "none"
      OBVIOUS
    <2>1. CASE h = g
      BY <1>4, <1>8, <1>10, <2>1
    <2>2. CASE h \in known[u]
      BY <1>11, <2>2, KnownFacts, AcceptedStays
    <2> QED
      BY <1>5, <2>1, <2>2
  <1>13. \A u \in Threads : TaskStep(u, Nobody)
    BY <1>0, StayStep, NobodyIsNoThread DEF QueueInv
  <1>14. QueueTypes'
    BY <1>0, <1>1, <1>5, <1>10, TypesNext DEF QueueInv, QueueTypes
  <1> QED
    BY <1>0, <1>1, <1>11, <1>12, <1>13, <1>14, Unchanging DEF QueueStep

\* A client closes its connection.
LEMMA ClientClosesQueueStep ==
  ASSUME QueueInv, NEW t \in Threads, NEW c \in ConnIDs, ClientCloses(t, c)
  PROVE  QueueStep(Nobody)
  <1>0. /\ conn[t][c].st = "open" /\ created' = created /\ Close(t, c, Nobody, 0)
        /\ UNCHANGED <<tasks, known, replies, accepted, got>>
    BY DEF ClientCloses
  <1>1. replies \in Nat /\ replies' \in Nat /\ replies <= replies' /\ 0 <= replies'
    BY <1>0, TypeFacts DEF QueueInv
  <1>2. Ahead(t, Nobody, 0)
    <2> SUFFICES ASSUME NEW i \in DOMAIN tasks[t], tasks[t][i].from = Nobody PROVE FALSE
      BY <1>0 DEF Ahead
    <2>1. tasks[t][i] \in Tasks
      BY TypeFacts DEF QueueInv
    <2> QED
      BY <2>1, NobodyIsNoThread DEF Tasks
  <1>3. /\ conn' \in [Threads -> [ConnIDs -> Ends]]
        /\ \A u \in Threads : \A d \in ConnIDs : ConnStep(u, d)
    BY <1>0, <1>1, <1>2, CloseStep
  <1>4. \A u \in Threads : \A h \in known'[u] : h \in ConnGUIDs => conn'[Home(h)][h.id].st # "none"
    BY <1>0, <1>3, KnownFacts, AcceptedStays
  <1>5. \A u \in Threads : TaskStep(u, Nobody)
    BY <1>0, StayStep, NobodyIsNoThread DEF QueueInv
  <1>6. QueueTypes'
    BY <1>0, <1>1, <1>3, TypesNext DEF QueueInv, QueueTypes
  <1> QED
    BY <1>0, <1>1, <1>3, <1>4, <1>5, <1>6, Unchanging DEF QueueStep

-----------------------------------------------------------------------------
\* The rounds.

\* The next thread in turn: the one after, or the first again.
LEMMA NextInTurn ==
  ASSUME NEW n \in Nat, NEW l \in 0 .. n - 1
  PROVE  (l + 1) % n = IF l + 1 = n THEN 0 ELSE l + 1
  OBVIOUS

\* A task for the next thread in turn keeps the numbers in turns.
LEMMA TurnStep ==
  ASSUME NEW n \in Nat, NEW s \in [0 .. n - 1 -> Nat], NEW l \in 0 .. n - 1, Turns(l, s)
  PROVE  Turns((l + 1) % n, [s EXCEPT ![l] = @ + 1])
  <1>1. PICK r : r = [s EXCEPT ![l] = @ + 1]
    OBVIOUS
  <1>2. PICK m : m = (l + 1) % n
    OBVIOUS
  <1>3. m = IF l + 1 = n THEN 0 ELSE l + 1
    BY <1>2, NextInTurn
  <1>4. DOMAIN r = 0 .. n - 1 /\ r[l] = s[l] + 1 /\ \A i \in 0 .. n - 1 : i # l => r[i] = s[i]
    BY <1>1
  <1>5. \A i, j \in 0 .. n - 1 : s[j] <= s[i] + 1
    BY DEF Turns
  <1>6. \A i \in 0 .. n - 1 : s[l] <= s[i]
    <2> TAKE i \in 0 .. n - 1
    <2>1. CASE i < l
      BY <2>1 DEF Turns
    <2>2. CASE ~(i < l)
      BY <2>2 DEF Turns
    <2> QED
      BY <2>1, <2>2
  <1>7. \A i \in 0 .. n - 1 : s[i] \in Nat
    OBVIOUS
  <1>8. \A i, j \in 0 .. n - 1 : r[j] <= r[i] + 1
    <2> TAKE i, j \in 0 .. n - 1
    <2>0. s[i] \in Nat /\ s[j] \in Nat /\ s[l] \in Nat
      BY <1>7
    <2>1. s[j] <= s[i] + 1 /\ s[l] <= s[i]
      BY <1>5, <1>6
    <2> QED
      BY <1>4, <2>0, <2>1
  <1>9. \A i \in 0 .. n - 1 : r[i] <= s[l] + 1
    <2> TAKE i \in 0 .. n - 1
    <2>0. s[i] \in Nat /\ s[l] \in Nat
      BY <1>7
    <2>1. s[i] <= s[l] + 1
      BY <1>5
    <2> QED
      BY <1>4, <2>0, <2>1
  <1>10. \A i, j \in 0 .. n - 1 : i <= j /\ (m <= i \/ j < m) => r[i] <= r[j]
    <2> SUFFICES ASSUME NEW i \in 0 .. n - 1, NEW j \in 0 .. n - 1, i <= j, m <= i \/ j < m
                 PROVE  r[i] <= r[j]
      OBVIOUS
    <2>1. CASE j = l
      BY <1>4, <1>9, <2>1
    <2>2. CASE j # l
      <3>1. i # l
        BY <1>3, <2>2
      <3>2. l <= i \/ j < l
        BY <1>3, <2>2, <3>1
      <3>3. s[i] <= s[j]
        BY <3>2 DEF Turns
      <3> QED
        BY <1>4, <2>2, <3>1, <3>3
    <2> QED
      BY <2>1, <2>2
  <1>11. \A i, j \in 0 .. n - 1 : m <= i /\ j < m => r[i] <= r[j]
    <2> SUFFICES ASSUME NEW i \in 0 .. n - 1, NEW j \in 0 .. n - 1, m <= i, j < m
                 PROVE  r[i] <= r[j]
      OBVIOUS
    <2>1. CASE j = l
      BY <1>4, <1>9, <2>1
    <2>2. CASE j # l
      <3>1. l < i /\ j < l
        BY <1>3, <2>2
      <3>2. s[i] <= s[j]
        BY <3>1 DEF Turns
      <3> QED
        BY <1>4, <2>2, <3>1, <3>2
    <2> QED
      BY <2>1, <2>2
  <1>12. Turns(m, r)
    BY <1>4, <1>8, <1>10, <1>11 DEF Turns
  <1> QED
    BY <1>1, <1>2, <1>12
\* Steps that schedule nothing keep the rounds.
LEMMA RoundsStay ==
  ASSUME RoundTypes, InTurns, UNCHANGED <<created, last, spread, unplaced>>
  PROVE  RoundTypes' /\ InTurns'
  BY ThreadsStay DEF RoundTypes, InTurns, Turns

\* The groups that exist when the process is ready, and who has pointers to them.
LEMMA ReadyFacts ==
  ASSUME StartInv, phase = "ready"
  PROVE  /\ \A k \in Kinds : created[k] \in Nat
         /\ created["global"] \in {0, 1}
         /\ \A t \in Threads : \A k \in Offered(t[1]) : created[k] > 0 => k \in Groups(t[1])
  <1>1. \A k \in Kinds : created[k] \in Nat
    BY DEF StartInv, ConfTypeOK
  <1>2. created["global"] \in {0, 1}
    <2>1. "global" \in Kinds
      BY DEF Kinds
    <2> QED
      BY <2>1 DEF StartInv, CreatedPart
  <1>3. ASSUME NEW t \in Threads, NEW k \in Offered(t[1]), created[k] > 0
        PROVE  k \in Groups(t[1])
    <2>1. PICK kind : kind = t[1]
      OBVIOUS
    <2>2. kind \in Kinds /\ created[kind] > 0
      <3>1. kind \in Kinds /\ t[2] \in 0 .. created[kind] - 1
        BY <2>1, ThreadFacts DEF Indices
      <3>2. created[kind] \in Nat
        BY <1>1, <3>1
      <3> QED
        BY <3>1, <3>2
    <2>3. kind \in loaded
      BY <2>2, ReadyGroups
    <2>4. related[kind] = Related(kind) \cap loaded
      BY <2>2, <2>3 DEF StartInv, ReadyPart
    <2>5. k \in Kinds
      BY <2>1, <2>2, <1>3 DEF Offered, WorkOffers, GlobalOffers, BurdenOffers, IOOffers, Kinds, Counted, IOs
    <2>6. k \in loaded
      BY <1>3, <2>5, ReadyGroups
    <2>7. k \in Related(kind) \/ (k = kind /\ k \in IOs)
      BY <2>1, <2>2, <1>3 DEF Offered, WorkOffers, GlobalOffers, BurdenOffers, IOOffers,
           Related, Kinds, Counted, IOs
    <2> QED
      BY <2>1, <2>4, <2>6, <2>7 DEF Groups
  <1> QED
    BY <1>1, <1>2, <1>3

\* SendToThread reaches a thread, in turns where it has a choice.
LEMMA SendRounds ==
  ASSUME StartInv, phase = "ready", RoundTypes, InTurns, NEW t \in Threads, NEW k \in Kinds,
         NEW idx \in 0 .. created[k], NEW g, SendToThread(t, k, idx, g)
  PROVE  RoundTypes' /\ InTurns'
  <1>0. /\ created' = created /\ k \in Offered(t[1]) /\ created[k] > 0
        /\ k = "global" => idx = 0
    BY DEF SendToThread
  <1>1. created[k] \in Nat /\ k \in Groups(t[1])
    BY <1>0, ReadyFacts
  <1>2. k = "global" => idx \in Indices(k)
    BY <1>0, <1>1 DEF Indices
  <1>3. CASE idx \in Indices(k)
    <2>1. (IF k = "global" THEN 0 ELSE idx) \in Indices(k)
      BY <1>0, <1>3
    <2>2. UNCHANGED <<last, spread, unplaced>>
      BY <1>1, <1>3, <2>1 DEF SendToThread
    <2> QED
      BY <1>0, <2>2, RoundsStay
  <1>4. CASE idx \notin Indices(k)
    <2>0. k # "global"
      BY <1>2, <1>4
    <2>1. PICK l : l = last[t][k]
      OBVIOUS
    <2>2. PICK n : n = created[k]
      OBVIOUS
    <2>3. PICK s : s = spread[t][k]
      OBVIOUS
    <2>4. n \in Nat /\ l \in 0 .. n - 1 /\ Indices(k) = 0 .. n - 1
      BY <1>0, <1>1, <2>1, <2>2 DEF RoundTypes, Indices
    <2>5. s \in [0 .. n - 1 -> Nat] /\ Turns(l, s)
      BY <2>1, <2>3, <2>4 DEF RoundTypes, InTurns
    <2>6. /\ unplaced' = unplaced
          /\ last' = [last EXCEPT ![t][k] = Round(t, k)]
          /\ spread' = [spread EXCEPT ![t][k][l] = @ + 1]
      BY <1>1, <1>4, <2>0, <2>1, <2>4 DEF SendToThread
    <2>7. PICK r : r = [s EXCEPT ![l] = @ + 1]
      OBVIOUS
    <2>8. PICK m : m = (l + 1) % n
      OBVIOUS
    <2>9. Turns(m, r) /\ r \in [0 .. n - 1 -> Nat]
      <3>1. Turns(m, r)
        BY <2>4, <2>5, <2>7, <2>8, TurnStep
      <3>2. s[l] + 1 \in Nat
        BY <2>4, <2>5
      <3>3. r \in [0 .. n - 1 -> Nat]
        BY <2>4, <2>5, <2>7, <3>2
      <3> QED
        BY <3>1, <3>3
    <2>10. m \in Nat /\ m < n
      BY <2>4, <2>8, NextInTurn
    <2>11. DOMAIN last = Threads /\ DOMAIN spread = Threads /\ DOMAIN last[t] = Kinds /\ DOMAIN spread[t] = Kinds
      BY DEF RoundTypes
    <2>12. /\ DOMAIN last' = Threads /\ DOMAIN spread' = Threads
           /\ \A u \in Threads : DOMAIN last'[u] = DOMAIN last[u] /\ DOMAIN spread'[u] = DOMAIN spread[u]
           /\ last'[t][k] = m /\ spread'[t][k] = r
           /\ \A u \in Threads : \A j \in Kinds : ~(u = t /\ j = k) =>
                last'[u][j] = last[u][j] /\ spread'[u][j] = spread[u][j]
      <3>1. last' = [last EXCEPT ![t] = [last[t] EXCEPT ![k] = m]]
        BY <2>1, <2>2, <2>6, <2>8 DEF Round
      <3>2. spread' = [spread EXCEPT ![t] = [spread[t] EXCEPT ![k] = r]]
        BY <2>3, <2>6, <2>7
      <3>3. /\ DOMAIN last' = Threads /\ last'[t] = [last[t] EXCEPT ![k] = m]
            /\ \A u \in Threads : u # t => last'[u] = last[u]
        BY <2>11, <3>1
      <3>4. /\ DOMAIN spread' = Threads /\ spread'[t] = [spread[t] EXCEPT ![k] = r]
            /\ \A u \in Threads : u # t => spread'[u] = spread[u]
        BY <2>11, <3>2
      <3>5. /\ DOMAIN last'[t] = Kinds /\ last'[t][k] = m
            /\ \A j \in Kinds : j # k => last'[t][j] = last[t][j]
        BY <2>11, <3>3
      <3>6. /\ DOMAIN spread'[t] = Kinds /\ spread'[t][k] = r
            /\ \A j \in Kinds : j # k => spread'[t][j] = spread[t][j]
        BY <2>11, <3>4
      <3> QED
        BY <2>11, <3>3, <3>4, <3>5, <3>6
    <2>13. Threads' = Threads /\ \A j : Indices(j)' = Indices(j)
      BY <1>0, ThreadsStay
    <2>14. RoundTypes'
      <3>1. ASSUME NEW u \in Threads, NEW j \in Kinds
            PROVE  /\ last'[u][j] \in Nat /\ (created[j] > 0 => last'[u][j] < created[j])
                   /\ spread'[u][j] \in [Indices(j) -> Nat]
        <4>1. CASE u = t /\ j = k
          BY <2>2, <2>4, <2>9, <2>10, <2>12, <4>1
        <4>2. CASE ~(u = t /\ j = k)
          BY <2>12, <4>2 DEF RoundTypes
        <4> QED
          BY <4>1, <4>2
      <3>2. \A u \in Threads : \A j \in Kinds : DOMAIN last'[u] = Kinds /\ DOMAIN spread'[u] = Kinds
        BY <2>12 DEF RoundTypes
      <3> QED
        BY <1>0, <2>12, <2>13, <3>1, <3>2 DEF RoundTypes
    <2>15. InTurns'
      <3>1. \A u \in Threads : \A j \in Kinds : Turns(last'[u][j], spread'[u][j])
        BY <2>9, <2>12 DEF InTurns
      <3> QED
        BY <2>6, <2>13, <3>1 DEF InTurns
    <2> QED
      BY <2>14, <2>15
  <1> QED
    BY <1>3, <1>4

\* The numbers that are even are in turns.
LEMMA TurnsBegin ==
  ASSUME NEW S \in SUBSET Int, NEW l
  PROVE  Turns(l, [i \in S |-> 0])
  BY DEF Turns

\* SetRelatedThreadGroups of all schedulers makes the queues.
LEMMA SeedStep ==
  ASSUME StartInv, StartInv', Unseeded, SeedSchedulers
  PROVE  (Unseeded \/ Seeded)'
  <1>1. CASE UNCHANGED dispatchVars
    BY <1>1 DEF Unseeded, dispatchVars
  <1>2. CASE ~(UNCHANGED dispatchVars)
    <2>0. /\ phase' = "ready" /\ created' = created
          /\ UNCHANGED <<replies, unplaced, accepted, got>>
          /\ tasks' = [t \in Threads |-> <<>>]
          /\ conn' = [t \in Threads |-> [c \in ConnIDs |-> [st |-> "none", from |-> Nobody, n |-> 0]]]
          /\ known' = [t \in Threads |-> IF t[1] \in Starters THEN {NoGUID} ELSE {}]
          /\ spread' = [t \in Threads |-> [k \in Kinds |-> [i \in Indices(k) |-> 0]]]
      BY <1>2 DEF SeedSchedulers, SetThreadsRelationship, Fail
    <2>1. \A k \in Kinds : created[k] \in Nat
      BY DEF StartInv, ConfTypeOK
    <2>2. PICK rand \in [UNION {{t} \X Rounds(t) : t \in Threads} -> Seeds] :
            last' = [t \in Threads |-> [k \in Kinds |->
                        IF k \in Rounds(t) THEN rand[<<t, k>>] % created[k] ELSE 0]]
      BY <1>2 DEF SeedSchedulers
    <2>3. Threads' = Threads /\ ConnGUIDs' = ConnGUIDs /\ \A k : Indices(k)' = Indices(k)
      BY <2>0, ThreadsStay
    <2>4. replies' = 0 /\ unplaced' = 0 /\ accepted' = {} /\ got' = <<>>
      BY <2>0 DEF Unseeded
    <2>5. QueueTypes'
      <3>1. tasks' \in [Threads -> Seq(Tasks)]
        BY <2>0
      <3>2. known' \in [Threads -> SUBSET GUIDs]
        BY <2>0 DEF GUIDs
      <3>3. PICK e : e = [st |-> "none", from |-> Nobody, n |-> 0]
        OBVIOUS
      <3>4. e \in Ends
        BY <3>3 DEF Ends
      <3>5. conn' \in [Threads -> [ConnIDs -> Ends]]
        BY <2>0, <3>3, <3>4
      <3>6. got' \in Seq(Written) /\ accepted' \subseteq Answers /\ replies' \in Nat
        BY <2>4
      <3> QED
        BY <2>0, <3>1, <3>2, <3>5, <3>6, TypesNext
    <2>6. \A t \in Threads : DOMAIN tasks'[t] = {}
      BY <2>0
    <2>7. DOMAIN got' = {}
      BY <2>4
    <2>8. OnlyTold'
      <3>1. ASSUME NEW t \in Threads, NEW g \in known'[t] PROVE g \notin ConnGUIDs
        <4>1. g = NoGUID
          BY <2>0, <3>1
        <4> QED
          BY <4>1, NoGUIDFacts
      <3> QED
        BY <2>3, <2>6, <3>1 DEF OnlyTold, Told
    <2>9. Numbered'
      <3>1. ASSUME NEW t \in Threads, NEW c \in ConnIDs PROVE conn'[t][c].n <= replies'
        <4>1. conn'[t][c].n = 0
          BY <2>0
        <4> QED
          BY <2>4, <4>1
      <3> QED
        BY <2>3, <2>6, <2>7, <3>1 DEF Numbered
    <2>10. AtHome' /\ QueueOrder' /\ WrittenBefore' /\ ClosedBefore'
      BY <2>3, <2>6 DEF AtHome, QueueOrder, WrittenBefore, ClosedBefore
    <2>11. Addressed' /\ InSenderOrder' /\ Kept'
      <3>1. DOMAIN tasks' = Threads
        BY <2>0
      <3> QED
        BY <2>4, <2>6, <2>7, <3>1 DEF Addressed, InSenderOrder, Kept
    <2>12. QueueInv'
      BY <2>5, <2>8, <2>9, <2>10, <2>11 DEF QueueInv
    <2>13. \A t \in Threads : \A k \in Kinds :
             last'[t][k] \in Nat /\ (created[k] > 0 => last'[t][k] < created[k])
      <3> SUFFICES ASSUME NEW t \in Threads, NEW k \in Kinds
                   PROVE  last'[t][k] \in Nat /\ (created[k] > 0 => last'[t][k] < created[k])
        OBVIOUS
      <3>1. last'[t][k] = IF k \in Rounds(t) THEN rand[<<t, k>>] % created[k] ELSE 0
        BY <2>2
      <3>2. CASE k \in Rounds(t)
        <4>1. <<t, k>> \in UNION {{u} \X Rounds(u) : u \in Threads}
          BY <3>2
        <4>2. rand[<<t, k>>] \in Nat
          BY <4>1, DispatchAssumption
        <4>3. created[k] \in Nat /\ created[k] > 1
          BY <2>1, <3>2 DEF Rounds
        <4> QED
          BY <3>1, <3>2, <4>2, <4>3
      <3>3. CASE k \notin Rounds(t)
        BY <2>1, <3>1, <3>3
      <3> QED
        BY <3>2, <3>3
    <2>14. RoundTypes'
      <3>1. DOMAIN last' = Threads /\ \A t \in Threads : DOMAIN last'[t] = Kinds
        BY <2>2
      <3>2. DOMAIN spread' = Threads /\ \A t \in Threads : DOMAIN spread'[t] = Kinds
        BY <2>0
      <3>3. \A t \in Threads : \A k \in Kinds : spread'[t][k] \in [Indices(k) -> Nat]
        BY <2>0
      <3> QED
        BY <2>0, <2>3, <2>13, <3>1, <3>2, <3>3 DEF RoundTypes
    <2>15. InTurns'
      <3>1. ASSUME NEW t \in Threads, NEW k \in Kinds PROVE Turns(last'[t][k], spread'[t][k])
        <4>1. spread'[t][k] = [i \in Indices(k) |-> 0]
          BY <2>0
        <4>2. Indices(k) \subseteq Int
          BY DEF Indices
        <4> QED
          BY <4>1, <4>2, TurnsBegin
      <3> QED
        BY <2>3, <2>4, <3>1 DEF InTurns
    <2> QED
      BY <2>0, <2>12, <2>14, <2>15 DEF Seeded
  <1> QED
    BY <1>1, <1>2

-----------------------------------------------------------------------------
\* The whole.

\* Nothing was sent, or everything is in order.
LEMMA DispatchInvInit == DispatchInit => DispatchInv
  <1> SUFFICES ASSUME DispatchInit PROVE DispatchInv
    OBVIOUS
  <1>1. StartInv
    BY StartInvInit DEF DispatchInit
  <1>2. Unseeded
    BY DEF DispatchInit, Unseeded
  <1> QED
    BY <1>1, <1>2 DEF DispatchInv

\* A step of a running process: each action of Dispatch.
LEMMA RunningStep ==
  ASSUME Careful, StartInv, Seeded, NEW t \in DOMAIN tasks,
         \/ \E k \in Kinds, g \in known[t] :
              \/ \E idx \in 0 .. created[k] : SendToThread(t, k, idx, g)
              \/ Broadcast(t, k, g)
         \/ \E g \in known[t] :
              \/ WorkSendToClient(t, g) \/ WorkCloseClient(t, g)
              \/ IOSendToClient(t, g) \/ IOCloseClient(t, g)
         \/ OnMessage(t) \/ OnClientTask(t)
         \/ \E c \in ConnIDs : Accept(t, c) \/ ClientCloses(t, c)
  PROVE  Seeded' /\ UNCHANGED confVars
  <1>0. /\ phase = "ready" /\ QueueInv /\ RoundTypes /\ InTurns /\ t \in Threads
    BY DEF Seeded, QueueInv, QueueTypes
  <1>1. ASSUME NEW p, QueueStep(p), UNCHANGED confVars, UNCHANGED <<last, spread, unplaced>>
        PROVE  Seeded'
    <2>1. QueueInv'
      BY <1>0, <1>1, QueueStepInv
    <2>2. RoundTypes' /\ InTurns'
      BY <1>0, <1>1, RoundsStay DEF QueueStep
    <2>3. phase' = "ready"
      BY <1>0, <1>1 DEF confVars
    <2> QED
      BY <2>1, <2>2, <2>3 DEF Seeded
  <1>2. ASSUME NEW k \in Kinds, NEW g \in known[t], NEW idx \in 0 .. created[k],
               SendToThread(t, k, idx, g)
        PROVE  Seeded' /\ UNCHANGED confVars
    <2>1. UNCHANGED confVars
      BY <1>2 DEF SendToThread, confVars
    <2>2. QueueInv'
      BY <1>0, <1>2, SendQueueStep, QueueStepInv
    <2>3. RoundTypes' /\ InTurns'
      BY <1>0, <1>2, SendRounds
    <2>4. phase' = "ready"
      BY <1>0, <2>1 DEF confVars
    <2> QED
      BY <2>1, <2>2, <2>3, <2>4 DEF Seeded
  <1>3. ASSUME NEW k \in Kinds, NEW g \in known[t], Broadcast(t, k, g)
        PROVE  Seeded' /\ UNCHANGED confVars
    <2>1. t[1] = "global" /\ k \in GlobalOffers /\ created[k] > 0
      BY <1>3 DEF Broadcast
    <2>2. k \in Groups("global")
      <3>1. k \in Offered(t[1])
        BY <2>1 DEF Offered, IOs
      <3> QED
        BY <1>0, <2>1, <3>1, ReadyFacts
    <2>3. UNCHANGED confVars /\ UNCHANGED <<last, spread, unplaced>>
      BY <1>3, <2>2 DEF Broadcast, confVars
    <2>4. QueueStep(Nobody)
      BY <1>0, <1>3, BroadcastQueueStep
    <2> QED
      BY <1>1, <2>3, <2>4
  <1>4. ASSUME NEW g \in known[t], NEW type \in {"send", "close"}, WorkToClient(t, g, type)
        PROVE  Seeded' /\ UNCHANGED confVars
    <2>1. UNCHANGED confVars /\ UNCHANGED <<last, spread, unplaced>>
      BY <1>4 DEF WorkToClient, confVars
    <2>2. QueueStep(Nobody)
      BY <1>0, <1>4, WorkQueueStep
    <2> QED
      BY <1>1, <2>1, <2>2
  <1>5. ASSUME NEW g \in known[t], NEW type \in {"send", "close"}, IOToClient(t, g, type)
        PROVE  Seeded' /\ UNCHANGED confVars
    <2>1. QueueStep(Nobody) /\ phase' = phase
      BY <1>0, <1>5, IOQueueStep
    <2>2. UNCHANGED confVars /\ UNCHANGED <<last, spread, unplaced>>
      BY <1>5, <2>1 DEF IOToClient, confVars
    <2> QED
      BY <1>1, <2>1, <2>2
  <1>6. ASSUME OnMessage(t) PROVE Seeded' /\ UNCHANGED confVars
    <2>1. UNCHANGED confVars /\ UNCHANGED <<last, spread, unplaced>>
      BY <1>6 DEF OnMessage, confVars
    <2>2. QueueStep(t)
      BY <1>0, <1>6, MessageQueueStep
    <2> QED
      BY <1>1, <2>1, <2>2
  <1>7. ASSUME OnClientTask(t) PROVE Seeded' /\ UNCHANGED confVars
    <2>1. UNCHANGED confVars /\ UNCHANGED <<last, spread, unplaced>>
      BY <1>7 DEF OnClientTask, confVars
    <2>2. QueueStep(t)
      BY <1>0, <1>7, ClientTaskQueueStep
    <2> QED
      BY <1>1, <2>1, <2>2
  <1>8. ASSUME NEW c \in ConnIDs, Accept(t, c) \/ ClientCloses(t, c)
        PROVE  Seeded' /\ UNCHANGED confVars
    <2>1. UNCHANGED confVars /\ UNCHANGED <<last, spread, unplaced>>
      BY <1>8 DEF Accept, ClientCloses, confVars
    <2>2. QueueStep(Nobody)
      BY <1>0, <1>8, AcceptQueueStep, ClientClosesQueueStep
    <2> QED
      BY <1>1, <2>1, <2>2
  <1> QED
    BY <1>2, <1>3, <1>4, <1>5, <1>6, <1>7, <1>8
       DEF WorkSendToClient, WorkCloseClient, IOSendToClient, IOCloseClient

\* Every step keeps the invariant, and is one of the start's or leaves what
\* the start established alone.
LEMMA DispatchInvNext ==
  ASSUME Careful, DispatchInv, [DispatchNext]_<<confVars, dispatchVars>>
  PROVE  DispatchInv' /\ [ConfNext]_confVars
  <1>1. CASE UNCHANGED <<confVars, dispatchVars>>
    <2>1. StartInv'
      BY <1>1, StartInvNext DEF DispatchInv
    <2>2. Unseeded => Unseeded'
      BY <1>1 DEF Unseeded, dispatchVars
    <2>3. Seeded => Seeded'
      <3> SUFFICES ASSUME Seeded PROVE Seeded'
        OBVIOUS
      <3>1. /\ UNCHANGED <<conf, phase, threads_count, loaded, created, related>>
            /\ UNCHANGED <<last, tasks, conn, known, sends, replies, spread, unplaced, accepted, got>>
        BY <1>1 DEF confVars, dispatchVars
      <3>2. QueueInv /\ RoundTypes /\ InTurns
        BY DEF Seeded
      <3>3. QueueStep(Nobody)
        <4>1. replies' \in Nat /\ replies <= replies'
          BY <3>1, <3>2, TypeFacts DEF QueueInv
        <4>2. \A u \in Threads : TaskStep(u, Nobody)
          BY <3>1, <3>2, StayStep, NobodyIsNoThread DEF QueueInv
        <4>3. QueueTypes'
          BY <3>1, <3>2, <4>1, TypesNext DEF QueueInv, QueueTypes
        <4> QED
          BY <3>1, <3>2, <4>1, <4>2, <4>3, Unchanging DEF QueueStep
      <3>4. QueueInv'
        BY <3>2, <3>3, QueueStepInv
      <3>5. RoundTypes' /\ InTurns'
        BY <3>1, <3>2, RoundsStay
      <3> QED
        BY <3>1, <3>4, <3>5 DEF Seeded
    <2> QED
      BY <1>1, <2>1, <2>2, <2>3 DEF DispatchInv
  <1>2. CASE (LoadAndCheckConf \/ LoadThreads \/ CreateAllThreads) /\ UNCHANGED dispatchVars
    <2>1. ConfNext
      BY <1>2 DEF ConfNext
    <2>2. StartInv'
      BY <2>1, StartInvNext DEF DispatchInv
    <2>3. phase # "ready"
      BY <1>2 DEF LoadAndCheckConf, LoadThreads, CreateAllThreads
    <2>4. Unseeded
      BY <2>3 DEF DispatchInv, Seeded
    <2>5. Unseeded'
      BY <1>2, <2>4 DEF Unseeded, dispatchVars
    <2> QED
      BY <2>1, <2>2, <2>5 DEF DispatchInv
  <1>3. CASE SeedSchedulers
    <2>1. ConfNext
      BY <1>3 DEF ConfNext, SeedSchedulers
    <2>2. StartInv'
      BY <2>1, StartInvNext DEF DispatchInv
    <2>3. phase # "ready"
      BY <1>3 DEF SeedSchedulers, SetThreadsRelationship
    <2>4. Unseeded
      BY <2>3 DEF DispatchInv, Seeded
    <2>5. (Unseeded \/ Seeded)'
      BY <1>3, <2>2, <2>4, SeedStep DEF DispatchInv
    <2> QED
      BY <2>1, <2>2, <2>5 DEF DispatchInv
  <1>4. ASSUME NEW t \in DOMAIN tasks,
               \/ \E k \in Kinds, g \in known[t] :
                    \/ \E idx \in 0 .. created[k] : SendToThread(t, k, idx, g)
                    \/ Broadcast(t, k, g)
               \/ \E g \in known[t] :
                    \/ WorkSendToClient(t, g) \/ WorkCloseClient(t, g)
                    \/ IOSendToClient(t, g) \/ IOCloseClient(t, g)
               \/ OnMessage(t) \/ OnClientTask(t)
               \/ \E c \in ConnIDs : Accept(t, c) \/ ClientCloses(t, c)
        PROVE  DispatchInv' /\ [ConfNext]_confVars
    <2>1. ~Unseeded
      <3> SUFFICES ASSUME tasks = <<>> PROVE FALSE
        BY DEF Unseeded
      <3>1. DOMAIN tasks = {}
        OBVIOUS
      <3> QED
        BY <1>4, <3>1
    <2>2. Seeded /\ StartInv
      BY <2>1 DEF DispatchInv
    <2>3. Seeded' /\ UNCHANGED confVars
      BY <1>4, <2>2, RunningStep
    <2>4. StartInv'
      BY <2>2, <2>3, StartInvNext
    <2> QED
      BY <2>3, <2>4 DEF DispatchInv
  <1> QED
    BY <1>1, <1>2, <1>3, <1>4 DEF DispatchNext

\* What the schedulers promise, from the invariant.
LEMMA DispatchInvRouted == DispatchInv => Routed
  <1> SUFFICES ASSUME DispatchInv PROVE Routed
    OBVIOUS
  <1>1. CASE Unseeded
    <2>1. DOMAIN tasks = {} /\ DOMAIN got = {} /\ DOMAIN spread = {} /\ accepted = {} /\ unplaced = 0
      BY <1>1 DEF Unseeded
    <2> QED
      BY <2>1 DEF Routed, Addressed, InSenderOrder, AnswersKept, Balanced
  <1>2. CASE Seeded
    <2>1. QueueInv /\ RoundTypes /\ InTurns
      BY <1>2 DEF Seeded
    <2>2. Addressed /\ InSenderOrder
      BY <2>1 DEF QueueInv
    <2>3. AnswersKept
      <3> SUFFICES ASSUME NEW a \in accepted, ~Arrived(a), ~TooLate(a)
                   PROVE  \E i \in DOMAIN tasks[Home(a.guid)] : tasks[Home(a.guid)][i].n = a.n
        BY DEF AnswersKept, Arrived, TooLate
      <3>1. OnItsWay(a)
        BY <2>1 DEF QueueInv, Kept
      <3> QED
        BY <3>1 DEF OnItsWay
    <2>4. Balanced
      <3>1. \A t \in Threads : \A k \in Kinds : \A i, j \in DOMAIN spread[t][k] :
              spread[t][k][i] <= spread[t][k][j] + 1
        BY <2>1 DEF InTurns, Turns
      <3> QED
        BY <2>1, <3>1 DEF Balanced, RoundTypes, InTurns
    <2> QED
      BY <2>2, <2>3, <2>4 DEF Routed
  <1> QED
    BY <1>1, <1>2 DEF DispatchInv

\* The running process leaves what Initialize established alone: with careful
\* logics no step of a scheduler follows a null pointer.
THEOREM DispatchKeepsStart == ASSUME Careful PROVE DispatchSpec => ConfSpec
  <1>1. DispatchInit => ConfInit
    BY DEF DispatchInit
  <1> QED
    BY <1>1, DispatchInvInit, DispatchInvNext, PTL DEF DispatchSpec, ConfSpec

\* StartIsSound holds while the threads run, too.
THEOREM DispatchStartSound == ASSUME Careful PROVE DispatchSpec => []StartIsSound
  BY DispatchKeepsStart, StartSound, PTL

\* For every set of configurations, any number of connections, calls and
\* threads: what a thread is sent waits where it belongs, a connection gets one
\* sender's answers in order, none is lost unless it was closed earlier, and
\* rounds are even.
THEOREM DispatchRouted == ASSUME Careful PROVE DispatchSpec => []Routed
  BY DispatchInvInit, DispatchInvNext, DispatchInvRouted, PTL DEF DispatchSpec
=============================================================================
