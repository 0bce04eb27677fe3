--------------------------- MODULE ConfWatchProofs --------------------------
(***************************************************************************)
(* Proofs about the reload of the configuration (ConfCenter, ConfMgr,      *)
(* ConfWatch), for every set of documents and any number of edits.         *)
(***************************************************************************)
EXTENDS ConfWatch, TLAPS

-----------------------------------------------------------------------------
\* The maps of ConfCenter.

\* Maps whose values are what document d says.
MapsMatch(maps, d) ==
    /\ maps = [type \in Types |-> maps[type]]
    /\ \A type \in Types : \A x \in DOMAIN maps[type] :
         maps[type][x] = GetEntries(d, x, type) /\ maps[type][x] # <<>>

\* Empty maps match every document.
LEMMA NothingMatches == ASSUME NEW d PROVE MapsMatch(Nothing, d)
  <1>1. Nothing = [type \in Types |-> Nothing[type]]
    BY DEF Nothing
  <1>2. \A type \in Types : DOMAIN Nothing[type] = {}
    BY DEF Nothing
  <1> QED
    BY <1>1, <1>2 DEF MapsMatch

\* Asking for values adds what the document says, and nothing else.
LEMMA RememberMatches ==
  ASSUME NEW maps, MapsMatch(maps, doc), NEW xpaths, NEW type \in Types
  PROVE  MapsMatch(Remember(maps, xpaths, type), doc)
  <1>1. PICK new : new = {x \in xpaths \ DOMAIN maps[type] : GetEntries(doc, x, type) # <<>>}
    OBVIOUS
  <1>2. PICK after : after = Remember(maps, xpaths, type)
    OBVIOUS
  <1>3. PICK group : group = [x \in DOMAIN maps[type] \cup new |->
                                IF x \in new THEN GetEntries(doc, x, type) ELSE maps[type][x]]
    OBVIOUS
  <1>4. maps = [t \in Types |-> maps[t]]
    BY DEF MapsMatch
  <1>5. after = [maps EXCEPT ![type] = group]
    BY <1>1, <1>2, <1>3 DEF Remember
  <1>6. after = [t \in Types |-> after[t]] /\ after[type] = group
        /\ \A t \in Types : t # type => after[t] = maps[t]
    BY <1>4, <1>5
  <1>7. ASSUME NEW x \in DOMAIN group
        PROVE  group[x] = GetEntries(doc, x, type) /\ group[x] # <<>>
    <2>1. CASE x \in new
      BY <1>1, <1>3, <2>1
    <2>2. CASE x \notin new
      BY <1>3, <1>7, <2>2 DEF MapsMatch
    <2> QED
      BY <2>1, <2>2
  <1>8. ASSUME NEW t \in Types, NEW x \in DOMAIN after[t]
        PROVE  after[t][x] = GetEntries(doc, x, t) /\ after[t][x] # <<>>
    <2>1. CASE t = type
      BY <1>6, <1>7, <1>8, <2>1
    <2>2. CASE t # type
      BY <1>6, <1>8, <2>2 DEF MapsMatch
    <2> QED
      BY <2>1, <2>2
  <1>9. MapsMatch(after, doc)
    BY <1>6, <1>8 DEF MapsMatch
  <1> QED
    BY <1>2, <1>9

\* GetConf with a default returns what the document says, or the default.
LEMMA ResultIs ==
  ASSUME MapsMatch(cached, doc), NEW x, NEW type \in Types, NEW value
  PROVE  Result(x, type, TRUE, value) =
            IF GetEntries(doc, x, type) = <<>> THEN <<value>> ELSE GetEntries(doc, x, type)
  <1>1. PICK e : e = GetEntries(doc, x, type)
    OBVIOUS
  <1>2. CASE x \in DOMAIN cached[type]
    <2>1. cached[type][x] = e /\ e # <<>>
      BY <1>1, <1>2 DEF MapsMatch
    <2> QED
      BY <1>1, <1>2, <2>1 DEF Result
  <1>3. CASE x \notin DOMAIN cached[type] /\ e # <<>>
    BY <1>1, <1>3 DEF Result
  <1>4. CASE x \notin DOMAIN cached[type] /\ e = <<>>
    BY <1>1, <1>4 DEF Result
  <1> QED
    BY <1>2, <1>3, <1>4

-----------------------------------------------------------------------------
\* The members.

\* There are nine sections, whatever is in them.
LEMMA NineSections == DOMAIN Sections = 1 .. 9 /\ Len(Sections) = 9
  BY DEF Sections

\* Some of the first nine numbers have a last one.
LEMMA LastOf ==
  ASSUME NEW S \in SUBSET (1 .. 9), S # {}
  PROVE  \E m \in S : \A j \in 1 .. 9 : j > m => j \notin S
  <1>1. SUFFICES ASSUME \A m \in S : \E j \in 1 .. 9 : j > m /\ j \in S
                 PROVE  FALSE
    OBVIOUS
  <1>2. 9 \notin S
    BY <1>1
  <1>3. 8 \notin S
    BY <1>1, <1>2
  <1>4. 7 \notin S
    BY <1>1, <1>2, <1>3
  <1>5. 6 \notin S
    BY <1>1, <1>2, <1>3, <1>4
  <1>6. 5 \notin S
    BY <1>1, <1>2, <1>3, <1>4, <1>5
  <1>7. 4 \notin S
    BY <1>1, <1>2, <1>3, <1>4, <1>5, <1>6
  <1>8. 3 \notin S
    BY <1>1, <1>2, <1>3, <1>4, <1>5, <1>6, <1>7
  <1>9. 2 \notin S
    BY <1>1, <1>2, <1>3, <1>4, <1>5, <1>6, <1>7, <1>8
  <1>10. 1 \notin S
    BY <1>1, <1>2, <1>3, <1>4, <1>5, <1>6, <1>7, <1>8, <1>9
  <1>11. PICK m \in S : m \in 1 .. 9
    OBVIOUS
  <1>12. m = 1 \/ m = 2 \/ m = 3 \/ m = 4 \/ m = 5 \/ m = 6 \/ m = 7 \/ m = 8 \/ m = 9
    BY <1>11
  <1> QED
    BY <1>2, <1>3, <1>4, <1>5, <1>6, <1>7, <1>8, <1>9, <1>10, <1>11, <1>12

\* The section that gives a member its value reads it, and no later one does.
LEMMA SectionOfIs ==
  ASSUME NEW x \in DOMAIN Members
  PROVE  /\ SectionOf(x) \in 1 .. 9
         /\ x \in DOMAIN Sections[SectionOf(x)]
         /\ \A j \in 1 .. 9 : j > SectionOf(x) => x \notin DOMAIN Sections[j]
  <1>1. PICK S : S = {i \in 1 .. 9 : x \in DOMAIN Sections[i]}
    OBVIOUS
  <1>2. S # {}
    <2>1. x \in UNION {DOMAIN Sections[i] : i \in DOMAIN Sections}
      BY DEF Members
    <2>2. PICK i \in DOMAIN Sections : x \in DOMAIN Sections[i]
      BY <2>1
    <2> QED
      BY <1>1, <2>2, NineSections
  <1>3. \E m \in S : \A j \in 1 .. 9 : j > m => j \notin S
    BY <1>1, <1>2, LastOf
  <1>4. \E i \in DOMAIN Sections :
           /\ x \in DOMAIN Sections[i]
           /\ \A j \in DOMAIN Sections : j > i => x \notin DOMAIN Sections[j]
    BY <1>1, <1>3, NineSections
  <1> QED
    BY <1>4, NineSections DEF SectionOf

\* A member is the one of its section.
LEMMA MemberOfSection ==
  ASSUME NEW x \in DOMAIN Members
  PROVE  Members[x] = Sections[SectionOf(x)][x]
  BY DEF Members

\* What Load reads for a member, with maps that match, is what the document says.
LEMMA MemberIs ==
  ASSUME MapsMatch(cached, doc), NEW x \in DOMAIN Members
  PROVE  Member(Members[x], x) = ConfOf(doc)[x]
  <1>1. PICK m : m = Members[x]
    OBVIOUS
  <1>2. PICK entries : entries = GetEntries(doc, x, TypeOf(m))
    OBVIOUS
  <1>3. PICK values : values = IF entries = <<>> THEN <<m.value>> ELSE entries
    OBVIOUS
  <1>4. TypeOf(m) \in Types
    BY DEF TypeOf, Types
  <1>5. Result(x, TypeOf(m), TRUE, m.value) = values
    BY <1>2, <1>3, <1>4, ResultIs
  <1>6. ConfOf(doc)[x] = CASE m.kind = "flag" -> values[1] # 0
                           [] m.kind \in {"num", "str"} -> values[1]
                           [] OTHER -> NonEmpty(values)
    BY <1>1, <1>2, <1>3 DEF ConfOf
  <1>7. CASE m.kind = "flag"
    <2>1. TypeOf(m) = "i64"
      BY <1>7 DEF TypeOf
    <2>2. Member(m, x) = (values[1] # 0)
      BY <1>5, <1>7, <2>1 DEF Member, GetNumber
    <2>3. ConfOf(doc)[x] = (values[1] # 0)
      BY <1>6, <1>7
    <2> QED
      BY <1>1, <2>2, <2>3
  <1>8. CASE m.kind = "num"
    <2>1. TypeOf(m) = "i64"
      BY <1>8 DEF TypeOf
    <2>2. Member(m, x) = values[1]
      BY <1>5, <1>8, <2>1 DEF Member, GetNumber
    <2>3. ConfOf(doc)[x] = values[1]
      BY <1>6, <1>8
    <2> QED
      BY <1>1, <2>2, <2>3
  <1>9. CASE m.kind = "str"
    <2>1. TypeOf(m) = "str"
      BY <1>9 DEF TypeOf
    <2>2. Member(m, x) = values[1]
      BY <1>5, <1>9, <2>1 DEF Member, GetStr
    <2>3. ConfOf(doc)[x] = values[1]
      BY <1>6, <1>9
    <2> QED
      BY <1>1, <2>2, <2>3
  <1>10. CASE m.kind \notin {"flag", "num", "str"}
    <2>1. TypeOf(m) = "str"
      BY <1>10 DEF TypeOf
    <2>2. Member(m, x) = NonEmpty(values)
      BY <1>5, <1>10, <2>1 DEF Member, GetStrGroup
    <2>3. ConfOf(doc)[x] = NonEmpty(values)
      BY <1>6, <1>10
    <2> QED
      BY <1>1, <2>2, <2>3
  <1> QED
    BY <1>7, <1>8, <1>9, <1>10

-----------------------------------------------------------------------------
\* The inductive invariant.

\* The members of the sections before the n-th are what document d says.
ReadUpTo(n, c, d) == \A x \in DOMAIN Members : SectionOf(x) < n => c[x] = ConfOf(d)[x]

\* While Load is at it, it holds the lock; at other times the members are those
\* of the document loaded last.
MembersInv ==
    /\ conf = [x \in DOMAIN Members |-> conf[x]]
    /\ wlock <=> (pc = "sections")
    /\ pc = "sections" => section \in 1 .. Len(Sections) /\ ReadUpTo(section, conf, doc)
    /\ pc # "sections" /\ loads # <<>> => conf = ConfOf(loads[Len(loads)])

\* Before the watches are set the first load has ended, and no thread is told
\* of a load that has not.
LoadsInv ==
    /\ \E S : loads \in Seq(S)
    /\ pc \notin {"load", "begin", "sections"} => loads # <<>>
    /\ last_wd \in Nat
    /\ last_wd # 0 => loads # <<>>
    /\ due \in 0 .. Len(loads)

\* What a thread read is a value of one of the loads since the one it was told of.
SeenInv ==
    \A i \in DOMAIN seen :
        /\ seen[i].told \in 1 .. Len(loads)
        /\ \E n \in seen[i].told .. Len(loads) :
              seen[i].value = ConfOf(loads[n])[seen[i].member]

WatchInv ==
    /\ MapsMatch(cached, doc)
    /\ MembersInv /\ LoadsInv /\ SeenInv

\* A step that leaves documents, maps and members alone.
Unloaded == UNCHANGED <<doc, cached, conf, wlock, section, loads, due, seen>>

\* Such a step keeps the invariant, unless it enters or leaves Load.
LEMMA KeepsInv ==
  ASSUME WatchInv, Unloaded, last_wd' \in Nat,
         \/ pc' = pc /\ last_wd' = last_wd
         \/ pc \notin {"load", "begin", "sections"} /\ pc' \notin {"load", "begin", "sections"}
  PROVE  WatchInv'
  <1>1. MapsMatch(cached, doc)'
    BY DEF WatchInv, MapsMatch, Unloaded
  <1>2. MembersInv'
    BY DEF WatchInv, MembersInv, Unloaded, ReadUpTo
  <1>3. LoadsInv'
    BY DEF WatchInv, LoadsInv, Unloaded
  <1>4. SeenInv'
    BY DEF WatchInv, SeenInv, Unloaded
  <1> QED
    BY <1>1, <1>2, <1>3, <1>4 DEF WatchInv

\* The process starts without values and loads.
LEMMA InitWatchInv == Init => WatchInv
  <1> SUFFICES ASSUME Init PROVE WatchInv
    OBVIOUS
  <1> USE DEF Init, CenterInit, MgrInit
  <1>1. MapsMatch(cached, doc)
    BY NothingMatches
  <1>2. MembersInv
    BY DEF MembersInv, Zero
  <1>3. LoadsInv
    <2>1. loads \in Seq({}) /\ Len(loads) = 0
      OBVIOUS
    <2> QED
      BY <2>1 DEF LoadsInv
  <1>4. SeenInv
    BY DEF SeenInv
  <1> QED
    BY <1>1, <1>2, <1>3, <1>4 DEF WatchInv

\* Editing the files touches nothing the process holds.
LEMMA EditKeeps == ASSUME WatchInv, Edit \/ FinishEdit PROVE WatchInv'
  <1>1. Unloaded /\ pc' = pc /\ last_wd' = last_wd
    BY DEF Edit, FinishEdit, OpenWrite, MoveAway, RenameOver, CreateAnew, RemoveBackup,
           CloseWrite, Unlink, ByHand, kernelVars, handlerVars, threadVars, centerVars,
           mgrVars, Unloaded
  <1>2. last_wd' \in Nat
    BY <1>1 DEF WatchInv, LoadsInv
  <1> QED
    BY <1>1, <1>2, KeepsInv

\* Handling events loads nothing.
LEMMA HandlerKeeps ==
  ASSUME WatchInv,
         \/ WatchConfFiles \/ ReadEvents \/ CheckFilestat \/ RemoveWatch \/ Rewatch \/ OnReload
  PROVE  WatchInv'
  <1> USE DEF kernelVars, handlerVars, threadVars, centerVars, mgrVars, Unloaded
  <1>1. last_wd \in Nat
    BY DEF WatchInv, LoadsInv
  <1>2. CASE WatchConfFiles
    <2>1. Unloaded /\ last_wd' = 2 /\ pc = "watch" /\ pc' = "idle"
      BY <1>2 DEF WatchConfFiles
    <2> QED
      BY <2>1, KeepsInv
  <1>3. CASE ReadEvents
    <2>1. Unloaded /\ last_wd' = last_wd /\ pc \in {"idle", "events"} /\ pc' = "events"
      BY <1>3 DEF ReadEvents
    <2> QED
      BY <1>1, <2>1, KeepsInv
  <1>4. CASE CheckFilestat
    <2>1. Unloaded /\ last_wd' = last_wd /\ pc = "events" /\ pc' \in {"rewatch", "events"}
      BY <1>4 DEF CheckFilestat
    <2> QED
      BY <1>1, <2>1, KeepsInv
  <1>5. CASE RemoveWatch
    <2>1. Unloaded /\ last_wd' = last_wd /\ pc = "rewatch" /\ pc' = "add"
      BY <1>5 DEF RemoveWatch
    <2> QED
      BY <1>1, <2>1, KeepsInv
  <1>6. CASE Rewatch
    <2>1. Unloaded /\ pc = "add" /\ pc' = "events"
      BY <1>6 DEF Rewatch
    <2>2. last_wd' = last_wd \/ last_wd' = last_wd + 1
      BY <1>6 DEF Rewatch, AddWatch
    <2> QED
      BY <1>1, <2>1, <2>2, KeepsInv
  <1>7. CASE OnReload
    <2>1. Unloaded /\ last_wd' = last_wd /\ pc = "events" /\ pc' \in {"reload", "idle"}
      BY <1>7 DEF OnReload
    <2> QED
      BY <1>1, <2>1, KeepsInv
  <1> QED
    BY <1>2, <1>3, <1>4, <1>5, <1>6, <1>7

\* ConfCenter loads a file, or leaves everything as it was: its maps match.
LEMMA ReloadCenterMatches ==
  ASSUME MapsMatch(cached, doc), ReloadCenter
  PROVE  MapsMatch(cached, doc)'
  <1>1. CASE UNCHANGED centerVars
    BY <1>1 DEF MapsMatch, centerVars
  <1>2. CASE \E d \in Parsed(disk["app"].size) : Load(d)
    <2>1. cached' = Nothing
      BY <1>2 DEF Load
    <2> QED
      BY <2>1, NothingMatches
  <1> QED
    BY <1>1, <1>2 DEF ReloadCenter

\* Loading the document does not touch the members, which are those of the last load.
LEMMA ReloadKeeps == ASSUME WatchInv, Initialize \/ ReloadApp PROVE WatchInv'
  <1>1. UNCHANGED <<conf, wlock, section, loads, due, seen, last_wd>>
    BY DEF Initialize, ReloadApp, kernelVars, threadVars, mgrVars
  <1>2. ReloadCenter /\ pc \in {"load", "reload"} /\ pc' = "begin"
    BY DEF Initialize, ReloadApp
  <1>3. MapsMatch(cached, doc)'
    BY <1>2, ReloadCenterMatches DEF WatchInv
  <1>4. MembersInv'
    BY <1>1, <1>2 DEF WatchInv, MembersInv
  <1>5. LoadsInv'
    BY <1>1, <1>2 DEF WatchInv, LoadsInv
  <1>6. SeenInv'
    BY <1>1 DEF WatchInv, SeenInv
  <1> QED
    BY <1>3, <1>4, <1>5, <1>6 DEF WatchInv

\* Load takes the lock and empties the members.
LEMMA BeginKeeps ==
  ASSUME WatchInv, pc = "begin", BeginLoad, pc' = "sections",
         UNCHANGED <<loads, last_wd, due, seen>>
  PROVE  WatchInv'
  <1>1. MapsMatch(cached, doc)'
    BY DEF WatchInv, BeginLoad, centerVars, MapsMatch
  <1>2. MembersInv'
    <2>1. conf' = Zero /\ section' = 1 /\ wlock' = TRUE
      BY DEF BeginLoad
    <2>2. Zero = [x \in DOMAIN Members |-> Zero[x]]
      BY DEF Zero
    <2>3. ReadUpTo(section, conf, doc)'
      BY <2>1, SectionOfIs DEF ReadUpTo
    <2>4. section' \in 1 .. Len(Sections)
      BY <2>1, NineSections
    <2> QED
      BY <2>1, <2>2, <2>3, <2>4 DEF MembersInv
  <1>3. LoadsInv'
    BY DEF WatchInv, LoadsInv
  <1>4. SeenInv'
    BY DEF WatchInv, SeenInv
  <1> QED
    BY <1>1, <1>2, <1>3, <1>4 DEF WatchInv

\* One section read: its members are what the document says, and those read
\* before are not touched.
LEMMA SectionReads ==
  ASSUME MapsMatch(cached, doc), section \in 1 .. 9, LoadSection,
         conf = [x \in DOMAIN Members |-> conf[x]], ReadUpTo(section, conf, doc)
  PROVE  /\ conf' = [x \in DOMAIN Members |-> conf'[x]]
         /\ ReadUpTo(section + 1, conf', doc)
  <1>1. PICK s : s = Sections[section]
    OBVIOUS
  <1>2. conf' = [x \in DOMAIN Members |-> IF x \in DOMAIN s THEN Member(s[x], x) ELSE conf[x]]
    <2>1. DOMAIN conf = DOMAIN Members
      OBVIOUS
    <2> QED
      BY <1>1, <2>1 DEF LoadSection
  <1>3. ASSUME NEW x \in DOMAIN Members, SectionOf(x) < section + 1
        PROVE  conf'[x] = ConfOf(doc)[x]
    <2>1. CASE SectionOf(x) = section
      <3>1. x \in DOMAIN s /\ Members[x] = s[x]
        BY <1>1, <2>1, SectionOfIs, MemberOfSection
      <3>2. conf'[x] = Member(s[x], x)
        BY <1>2, <3>1
      <3> QED
        BY <3>1, <3>2, MemberIs
    <2>2. CASE SectionOf(x) < section
      <3>1. x \notin DOMAIN s
        BY <1>1, <2>2, SectionOfIs
      <3>2. conf'[x] = conf[x]
        BY <1>2, <3>1
      <3> QED
        BY <2>2, <3>2 DEF ReadUpTo
    <2>3. SectionOf(x) \in 1 .. 9
      BY SectionOfIs
    <2> QED
      BY <1>3, <2>1, <2>2, <2>3
  <1>4. ReadUpTo(section + 1, conf', doc)
    BY <1>3 DEF ReadUpTo
  <1> QED
    BY <1>2, <1>4

\* All sections read: the members are what the document says.
LEMMA AllRead ==
  ASSUME NEW c, NEW d, c = [x \in DOMAIN Members |-> c[x]], ReadUpTo(10, c, d)
  PROVE  c = ConfOf(d)
  <1>1. PICK after : after = ConfOf(d)
    OBVIOUS
  <1>2. after = [x \in DOMAIN Members |-> after[x]]
    BY <1>1 DEF ConfOf
  <1>3. \A x \in DOMAIN Members : c[x] = after[x]
    BY <1>1, SectionOfIs DEF ReadUpTo
  <1> QED
    BY <1>1, <1>2, <1>3

\* Reading a section leaves maps that match.
LEMMA SectionMatches ==
  ASSUME MapsMatch(cached, doc), LoadSection
  PROVE  MapsMatch(cached, doc)'
  <1>1. PICK ints, strs :
          cached' = Remember(Remember(cached, ints, "i64"), strs, "str")
    BY DEF LoadSection
  <1>2. "i64" \in Types /\ "str" \in Types
    BY DEF Types
  <1>3. MapsMatch(Remember(cached, ints, "i64"), doc)
    BY <1>2, RememberMatches
  <1>4. PICK maps : maps = Remember(cached, ints, "i64")
    OBVIOUS
  <1>5. MapsMatch(Remember(maps, strs, "str"), doc)
    BY <1>2, <1>3, <1>4, RememberMatches
  <1>6. cached' = Remember(maps, strs, "str") /\ doc' = doc
    BY <1>1, <1>4 DEF LoadSection
  <1> QED
    BY <1>5, <1>6 DEF MapsMatch

\* A load in the history is not changed by a later one.
LEMMA LoadAppended ==
  ASSUME NEW before, \E S : before \in Seq(S), NEW d, NEW after, after = Append(before, d)
  PROVE  /\ \E S : after \in Seq(S)
         /\ Len(after) = Len(before) + 1 /\ Len(before) \in Nat
         /\ after # <<>> /\ after[Len(after)] = d
         /\ \A n \in 1 .. Len(before) : after[n] = before[n]
  <1>1. PICK S : before \in Seq(S)
    OBVIOUS
  <1>2. before \in Seq(S \cup {d}) /\ d \in S \cup {d}
    BY <1>1
  <1>3. after \in Seq(S \cup {d})
    BY <1>2
  <1>4. Len(after) = Len(before) + 1 /\ Len(before) \in Nat
    BY <1>2
  <1>5. after # <<>> /\ after[Len(after)] = d
    BY <1>2, <1>4
  <1>6. \A n \in 1 .. Len(before) : after[n] = before[n]
    BY <1>2
  <1> QED
    BY <1>3, <1>4, <1>5, <1>6

\* A section of Load: after the last one the members are those of the document,
\* which is now the one loaded last.
LEMMA SectionKeeps ==
  ASSUME WatchInv, pc = "sections", section <= Len(Sections), LoadSection,
         pc' = IF section = Len(Sections) THEN "notify" ELSE pc,
         loads' = IF section = Len(Sections) THEN Append(loads, doc) ELSE loads,
         UNCHANGED <<last_wd, due, seen>>
  PROVE  WatchInv'
  <1>1. MapsMatch(cached, doc)'
    BY SectionMatches DEF WatchInv
  <1>2. /\ section \in 1 .. 9 /\ ReadUpTo(section, conf, doc)
        /\ conf = [x \in DOMAIN Members |-> conf[x]]
    BY NineSections DEF WatchInv, MembersInv
  <1>3. conf' = [x \in DOMAIN Members |-> conf'[x]] /\ ReadUpTo(section + 1, conf', doc)
    BY <1>1, <1>2, SectionReads DEF WatchInv
  <1>4. doc' = doc /\ section' = section + 1
    BY DEF LoadSection
  <1>5. wlock
    BY DEF WatchInv, MembersInv
  <1>6. \E S : loads \in Seq(S)
    BY DEF WatchInv, LoadsInv
  <1>7. CASE section < 9
    <2>1. pc' = "sections" /\ loads' = loads
      BY <1>2, <1>7, NineSections
    <2>2. wlock'
      BY <1>5, <1>7, NineSections DEF LoadSection
    <2>3. section' \in 1 .. Len(Sections)
      BY <1>2, <1>4, <1>7, NineSections
    <2>4. ReadUpTo(section, conf, doc)'
      BY <1>3, <1>4 DEF ReadUpTo
    <2>5. MembersInv'
      BY <1>3, <2>1, <2>2, <2>3, <2>4 DEF MembersInv
    <2>6. LoadsInv'
      BY <2>1 DEF WatchInv, LoadsInv
    <2>7. SeenInv'
      BY <2>1 DEF WatchInv, SeenInv
    <2> QED
      BY <1>1, <2>5, <2>6, <2>7 DEF WatchInv
  <1>8. CASE section = 9
    <2>1. pc' = "notify" /\ loads' = Append(loads, doc)
      BY <1>8, NineSections
    <2>2. ~wlock'
      <3>1. ~(section < Len(Sections))
        BY <1>8, NineSections
      <3>2. wlock' = (wlock /\ section < Len(Sections))
        BY DEF LoadSection
      <3> QED
        BY <3>1, <3>2, Zenon
    <2>3. conf' = ConfOf(doc)
      BY <1>3, <1>8, AllRead
    <2>4. /\ \E S : loads' \in Seq(S)
          /\ Len(loads') = Len(loads) + 1 /\ Len(loads) \in Nat
          /\ loads' # <<>> /\ loads'[Len(loads')] = doc
          /\ \A n \in 1 .. Len(loads) : loads'[n] = loads[n]
      BY <1>6, <2>1, LoadAppended
    <2>5. MembersInv'
      BY <1>3, <2>1, <2>2, <2>3, <2>4 DEF MembersInv
    <2>6. LoadsInv'
      BY <2>1, <2>4 DEF WatchInv, LoadsInv
    <2>7. SeenInv'
      <3>1. SUFFICES ASSUME NEW i \in DOMAIN seen
                     PROVE  /\ seen[i].told \in 1 .. Len(loads')
                            /\ \E n \in seen[i].told .. Len(loads') :
                                  seen[i].value = ConfOf(loads'[n])[seen[i].member]
        BY DEF SeenInv
      <3>2. /\ seen[i].told \in 1 .. Len(loads)
            /\ \E n \in seen[i].told .. Len(loads) :
                  seen[i].value = ConfOf(loads[n])[seen[i].member]
        BY DEF WatchInv, SeenInv
      <3>3. PICK told : told = seen[i].told
        OBVIOUS
      <3>4. told \in 1 .. Len(loads)
        BY <3>2, <3>3
      <3>5. PICK n \in told .. Len(loads) : seen[i].value = ConfOf(loads[n])[seen[i].member]
        BY <3>2, <3>3
      <3>6. loads'[n] = loads[n] /\ n \in told .. Len(loads') /\ told \in 1 .. Len(loads')
        BY <2>4, <3>4, <3>5
      <3> QED
        BY <3>3, <3>5, <3>6
    <2> QED
      BY <1>1, <2>5, <2>6, <2>7 DEF WatchInv
  <1> QED
    BY <1>2, <1>7, <1>8

\* Load, step by step.
LEMMA ReloadMgrKeeps == ASSUME WatchInv, ReloadMgr PROVE WatchInv'
  <1>1. UNCHANGED <<last_wd, due, seen>>
    BY DEF ReloadMgr, kernelVars, threadVars
  <1>2. CASE pc = "begin" /\ BeginLoad /\ pc' = "sections" /\ UNCHANGED loads
    BY <1>1, <1>2, BeginKeeps
  <1>3. CASE /\ pc = "sections" /\ section <= Len(Sections) /\ LoadSection
             /\ pc' = IF section = Len(Sections) THEN "notify" ELSE pc
             /\ loads' = IF section = Len(Sections) THEN Append(loads, doc) ELSE loads
    BY <1>1, <1>3, SectionKeeps
  <1> QED
    BY <1>2, <1>3 DEF ReloadMgr

\* The threads are told of the load that has ended.
LEMMA NotifyKeeps == ASSUME WatchInv, NotifyReload PROVE WatchInv'
  <1>1. UNCHANGED <<doc, cached, conf, wlock, section, loads, seen, last_wd>>
    BY DEF NotifyReload, kernelVars, centerVars, mgrVars
  <1>2. pc = "notify" /\ pc' \in {"watch", "idle"}
    BY DEF NotifyReload
  <1>3. due' = due \/ due' = Len(loads)
    BY DEF NotifyReload
  <1>4. Len(loads) \in Nat
    <2>1. PICK S : loads \in Seq(S)
      BY DEF WatchInv, LoadsInv
    <2> QED
      BY <2>1
  <1>5. MapsMatch(cached, doc)'
    BY <1>1 DEF WatchInv, MapsMatch
  <1>6. MembersInv'
    BY <1>1, <1>2 DEF WatchInv, MembersInv
  <1>7. LoadsInv'
    BY <1>1, <1>2, <1>3, <1>4 DEF WatchInv, LoadsInv
  <1>8. SeenInv'
    BY <1>1 DEF WatchInv, SeenInv
  <1> QED
    BY <1>5, <1>6, <1>7, <1>8 DEF WatchInv

\* A getter does not read while Load is at it, hence returns what the last load
\* gave, which is the one the thread was told of or a later one.
LEMMA GetterKeeps == ASSUME WatchInv, NEW x \in Probes, Getter(x) PROVE WatchInv'
  <1>1. UNCHANGED <<doc, cached, conf, wlock, section, loads, last_wd, pc>>
    BY DEF Getter, kernelVars, handlerVars, centerVars, mgrVars
  <1>2. due' = 0 /\ ~wlock /\ last_wd # 0
    BY DEF Getter, Readable
  <1>3. PICK told : told = IF due > 0 THEN due ELSE 1
    OBVIOUS
  <1>4. PICK v : v = conf[x]
    OBVIOUS
  <1>5. seen' = <<[member |-> x, value |-> v, told |-> told]>>
    BY <1>3, <1>4 DEF Getter
  <1>6. loads # <<>> /\ conf = ConfOf(loads[Len(loads)])
    BY <1>2 DEF WatchInv, LoadsInv, MembersInv
  <1>7. Len(loads) \in Nat /\ Len(loads) >= 1
    <2>1. PICK S : loads \in Seq(S)
      BY DEF WatchInv, LoadsInv
    <2> QED
      BY <1>6, <2>1
  <1>8. told \in 1 .. Len(loads)
    BY <1>3, <1>7 DEF WatchInv, LoadsInv
  <1>9. \E n \in told .. Len(loads) : v = ConfOf(loads[n])[x]
    BY <1>4, <1>6, <1>7, <1>8
  <1>10. MapsMatch(cached, doc)'
    BY <1>1 DEF WatchInv, MapsMatch
  <1>11. MembersInv'
    BY <1>1 DEF WatchInv, MembersInv
  <1>12. LoadsInv'
    BY <1>1, <1>2, <1>7 DEF WatchInv, LoadsInv
  <1>13. SeenInv'
    <2>1. SUFFICES ASSUME NEW i \in DOMAIN seen'
                   PROVE  /\ seen'[i].told \in 1 .. Len(loads)
                          /\ \E n \in seen'[i].told .. Len(loads) :
                                seen'[i].value = ConfOf(loads[n])[seen'[i].member]
      BY <1>1 DEF SeenInv
    <2>2. seen'[i] = [member |-> x, value |-> v, told |-> told]
      BY <1>5
    <2>3. seen'[i].told = told /\ seen'[i].value = v /\ seen'[i].member = x
      BY <2>2
    <2> QED
      BY <1>8, <1>9, <2>3
  <1> QED
    BY <1>10, <1>11, <1>12, <1>13 DEF WatchInv

\* A logic's read adds to the maps what the document says.
LEMMA LogicKeeps == ASSUME WatchInv, NEW type \in Types, LogicReads(type) PROVE WatchInv'
  <1>1. UNCHANGED <<doc, conf, wlock, section, loads, last_wd, pc, due, seen>>
    BY DEF LogicReads, LogicGetConf, kernelVars, handlerVars, threadVars, mgrVars
  <1>2. cached' = Remember(cached, {"logic/value"}, type)
    BY DEF LogicReads, LogicGetConf
  <1>3. MapsMatch(cached', doc)
    BY <1>2, RememberMatches DEF WatchInv
  <1>4. MapsMatch(cached, doc)'
    BY <1>1, <1>3 DEF MapsMatch
  <1>5. MembersInv'
    BY <1>1 DEF WatchInv, MembersInv
  <1>6. LoadsInv'
    BY <1>1 DEF WatchInv, LoadsInv
  <1>7. SeenInv'
    BY <1>1 DEF WatchInv, SeenInv
  <1> QED
    BY <1>4, <1>5, <1>6, <1>7 DEF WatchInv

\* Every step keeps the invariant.
LEMMA StepWatchInv == ASSUME WatchInv, [Next]_vars PROVE WatchInv'
  <1>1. CASE Edit \/ FinishEdit
    BY <1>1, EditKeeps
  <1>2. CASE MainStep
    BY <1>2, HandlerKeeps, ReloadKeeps, ReloadMgrKeeps, NotifyKeeps DEF MainStep
  <1>3. CASE ThreadStep
    BY <1>3, GetterKeeps, LogicKeeps DEF ThreadStep
  <1>4. CASE UNCHANGED vars
    <2>1. Unloaded /\ pc' = pc /\ last_wd' = last_wd
      BY <1>4 DEF vars, kernelVars, handlerVars, threadVars, centerVars, mgrVars, Unloaded
    <2>2. last_wd' \in Nat
      BY <2>1 DEF WatchInv, LoadsInv
    <2> QED
      BY <2>1, <2>2, KeepsInv
  <1> QED
    BY <1>1, <1>2, <1>3, <1>4 DEF Next

-----------------------------------------------------------------------------
\* The invariant holds in every state (ConfCenter::Load, GetConf, ConfMgr::Load).
THEOREM WatchInvariant == Spec => []WatchInv
  <1>1. Init => WatchInv
    BY InitWatchInv
  <1>2. WatchInv /\ [Next]_vars => WatchInv'
    BY StepWatchInv
  <1> QED
    BY <1>1, <1>2, PTL DEF Spec

\* The maps of ConfCenter never hold a value of a file that was replaced, nor
\* an empty group: whatever was read before, a reload empties them, and a read
\* keeps only what the document has (conf_center.cpp, Load and GetConf).
THEOREM CacheSound == Spec => []CacheMatchesDoc
  <1>1. WatchInv => CacheMatchesDoc
    BY DEF WatchInv, MapsMatch, CacheMatchesDoc
  <1> QED
    BY <1>1, WatchInvariant, PTL

\* No getter returns a member of a load that is under way, or of a load before
\* the one its thread was told of (ConfMgr::Load, AppFrame::NotifyReload).
THEOREM GettersSound == Spec => []GettersSeeLoaded
  <1>1. WatchInv => GettersSeeLoaded
    BY DEF WatchInv, SeenInv, GettersSeeLoaded
  <1> QED
    BY <1>1, WatchInvariant, PTL

=============================================================================
