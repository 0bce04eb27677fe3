---------------------------- MODULE UtilityProofs ---------------------------
(***************************************************************************)
(* Proofs about three parts that share nothing: SeqNum of base, for every  *)
(* seq_min and seq_max; TimerAxis, for any timers, numbers of callbacks and *)
(* calls; and ProtoStream, for any number and kind of messages and any     *)
(* size of their fields, however reads and writes cut the bytes.           *)
(***************************************************************************)
EXTENDS SeqNumReuse, TimerAxis, ProtoStream, WellFoundedInduction,
        SequenceTheorems, TLAPS

-----------------------------------------------------------------------------
\* SeqNum and TimerAxis.

\* The cursor and the numbers in use stay within seq_min..seq_max (or just
\* below, for the cursor of a fresh or reset SeqNum), through Alloc, Free and
\* Reset in any order.
THEOREM SeqTypes == ReuseSpec => []SeqTypeOK
<1>1. ReuseInit => SeqTypeOK
  BY SeqAssumption DEF ReuseInit, SeqInit, SeqTypeOK, Seqs
<1>2. SeqTypeOK /\ [ReuseNext]_seqVars => SeqTypeOK'
  <2> SUFFICES ASSUME SeqTypeOK, [ReuseNext]_seqVars
               PROVE  SeqTypeOK'
    OBVIOUS
  <2> USE SeqAssumption DEF SeqTypeOK, Seqs
  <2>1. ASSUME NEW s \in Seqs, Alloc(s), Touch(s)
        PROVE  SeqTypeOK'
    BY <2>1 DEF Alloc, IsNext, Touch
  <2>2. ASSUME NEW s \in Seqs, Free(s), UNCHANGED touched
        PROVE  SeqTypeOK'
    BY <2>2 DEF Free
  <2>3. CASE AllocFails /\ UNCHANGED touched
    BY <2>3 DEF AllocFails
  <2>4. CASE Reset /\ touched' = [s \in Seqs |-> {}]
    BY <2>4 DEF Reset
  <2>5. CASE UNCHANGED seqVars
    BY <2>5 DEF seqVars
  <2>6. QED
    BY <2>1, <2>2, <2>3, <2>4, <2>5 DEF ReuseNext
<1>3. QED
  BY <1>1, <1>2, PTL DEF ReuseSpec

\* One call of Alloc keeps the history of s complete: what the cursor passes
\* on its way is in use, hence was already counted, and the new number is
\* counted by Touch.
LEMMA AllocKeepsCircle ==
  ASSUME SeqTypeOK, CircleInv, NEW s \in Seqs, Alloc(s), Touch(s)
  PROVE  CircleInv'
<1> USE SeqAssumption DEF SeqTypeOK, Seqs
<1> SUFFICES ASSUME NEW u \in Seqs, touched'[u] # {}
             PROVE  /\ cursor' \in Seqs
                    /\ inuse' \subseteq touched'[u]
                    /\ Passed(u)' \subseteq touched'[u]
  BY DEF CircleInv
<1>1. cursor' = s /\ inuse' = inuse \cup {s}
  BY DEF Alloc
<1>2. CASE u = s
  BY <1>1, <1>2 DEF Touch, Passed
<1>3. CASE u # s
  <2>1. touched[u] # {} /\ touched'[u] = touched[u] \cup {s}
    BY <1>3 DEF Touch
  <2>2. cursor \in Seqs /\ inuse \subseteq touched[u] /\ Passed(u) \subseteq touched[u]
    BY <2>1 DEF CircleInv
  <2>3. Passed(u)' \subseteq touched'[u]
    <3> SUFFICES ASSUME NEW x \in Passed(u)', x # s
                 PROVE  x \in touched[u]
      BY <2>1
    <3>1. x \in Seqs
      BY <1>1 DEF Passed
    <3>2. x \in Passed(u) \/ x \in inuse
      <4>1. CASE s > cursor
        <5>1. (cursor + 1)..(s - 1) \subseteq inuse
          BY <4>1, <2>2 DEF Alloc, IsNext
        <5>2. QED
          BY <1>1, <3>1, <4>1, <5>1, <2>2, <1>3 DEF Passed
      <4>2. CASE s <= cursor
        <5>1. ((cursor + 1)..SeqMax) \cup (SeqMin..(s - 1)) \subseteq inuse
          BY <4>2, <2>2 DEF Alloc, IsNext
        <5>2. QED
          BY <1>1, <3>1, <4>2, <5>1, <2>2, <1>3 DEF Passed
      <4>3. QED
        BY <4>1, <4>2, <2>2
    <3>3. QED
      BY <3>2, <2>2
  <2>4. QED
    BY <1>1, <2>1, <2>2, <2>3
<1>4. QED
  BY <1>2, <1>3

\* Since a number was allocated, everything the cursor has passed and
\* everything in use now has been in use: the invariant under FullCircle.
THEOREM CircleHolds == ReuseSpec => []CircleInv
<1>1. ReuseInit => CircleInv
  BY DEF ReuseInit, CircleInv
<1>2. SeqTypeOK /\ CircleInv /\ [ReuseNext]_seqVars => CircleInv'
  <2> SUFFICES ASSUME SeqTypeOK, CircleInv, [ReuseNext]_seqVars
               PROVE  CircleInv'
    OBVIOUS
  <2>1. ASSUME NEW s \in Seqs, Alloc(s), Touch(s)
        PROVE  CircleInv'
    BY <2>1, AllocKeepsCircle
  <2>2. ASSUME NEW s \in Seqs, Free(s), UNCHANGED touched
        PROVE  CircleInv'
    BY <2>2 DEF Free, CircleInv, Passed
  <2>3. CASE AllocFails /\ UNCHANGED touched
    BY <2>3 DEF AllocFails, CircleInv, Passed
  <2>4. CASE Reset /\ touched' = [s \in Seqs |-> {}]
    BY <2>4 DEF CircleInv
  <2>5. CASE UNCHANGED seqVars
    BY <2>5 DEF seqVars, CircleInv, Passed
  <2>6. QED
    BY <2>1, <2>2, <2>3, <2>4, <2>5 DEF ReuseNext
<1>3. QED
  BY <1>1, <1>2, SeqTypes, PTL DEF ReuseSpec

\* However large the range, Alloc hands a number out again only after every
\* other number has been in use since: a task or an answer that names a freed
\* connection or transaction meets its successor only after a full circle.
THEOREM ReuseAfterFullCircle == ReuseSpec => FullCircle
<1>1. ASSUME SeqTypeOK, CircleInv, [ReuseNext]_seqVars,
             NEW s \in Seqs, s \in inuse' \ inuse, touched[s] # {}
      PROVE  touched[s] = Seqs
  <2> USE SeqAssumption DEF SeqTypeOK, Seqs
  <2>1. Alloc(s)
    BY <1>1 DEF ReuseNext, Alloc, Free, AllocFails, Reset, seqVars
  <2>2. cursor \in Seqs /\ inuse \subseteq touched[s] /\ Passed(s) \subseteq touched[s]
    BY <1>1 DEF CircleInv
  <2>3. ASSUME NEW x \in Seqs
        PROVE  x \in Passed(s) \/ x \in inuse
    <3>1. CASE s > cursor
      <4>1. (cursor + 1)..(s - 1) \subseteq inuse
        BY <2>1, <2>2, <3>1 DEF Alloc, IsNext
      <4>2. QED
        BY <2>2, <3>1, <4>1 DEF Passed
    <3>2. CASE s <= cursor
      <4>1. ((cursor + 1)..SeqMax) \cup (SeqMin..(s - 1)) \subseteq inuse
        BY <2>1, <2>2, <3>2 DEF Alloc, IsNext
      <4>2. QED
        BY <2>2, <3>2, <4>1 DEF Passed
    <3>3. QED
      BY <3>1, <3>2, <2>2
  <2>4. touched[s] \subseteq Seqs
    BY <1>1
  <2>5. QED
    BY <2>2, <2>3, <2>4
<1>2. SeqTypeOK /\ CircleInv /\ [ReuseNext]_seqVars
        => [\A s \in Seqs : (s \in inuse' \ inuse /\ touched[s] # {})
                              => touched[s] = Seqs]_seqVars
  BY <1>1
<1>3. QED
  BY <1>2, SeqTypes, CircleHolds, PTL DEF ReuseSpec, FullCircle

-----------------------------------------------------------------------------
\* A set of numbers has a least one.
LEMMA LeastNumber ==
  ASSUME NEW T, T \subseteq Nat, T # {}
  PROVE  \E x \in T : \A y \in T : x <= y
<1>1. \E x \in T : \A y \in T : ~(<<y, x>> \in OpToRel(<, Nat))
  BY NatLessThanWellFounded, WFMin
<1>2. PICK x \in T : \A y \in T : ~(<<y, x>> \in OpToRel(<, Nat))
  BY <1>1
<1>3. ASSUME NEW y \in T, y < x
      PROVE  FALSE
  <2>1. <<y, x>> \in Nat \X Nat /\ <<y, x>>[1] < <<y, x>>[2]
    BY <1>3
  <2>2. <<y, x>> \in OpToRel(<, Nat)
    BY <2>1, Zenon DEF OpToRel
  <2>3. QED
    BY <1>2, <2>2
<1>4. QED
  BY <1>3

\* AllocFindsFree for every range: whenever a number is free, the loop of
\* SeqNum::Alloc stops at one, behind the cursor or, round the end, before it.
THEOREM AllocAlwaysFinds == ReuseSpec => []AllocFindsFree
<1>1. SeqTypeOK => AllocFindsFree
  <2> SUFFICES ASSUME SeqTypeOK, inuse # Seqs
               PROVE  \E s \in Seqs : IsNext(s)
    BY DEF AllocFindsFree
  <2> DEFINE Free1 == Seqs \ inuse
             Behind == {s \in Free1 : s > cursor}
  <2>1. Free1 # {} /\ Free1 \subseteq Nat /\ Behind \subseteq Nat /\ cursor \in Int
    <3>1. Seqs \subseteq Nat /\ cursor \in Int
      BY SeqAssumption DEF SeqTypeOK, Seqs
    <3>2. QED
      BY <3>1 DEF SeqTypeOK
  <2>2. CASE Behind # {}
    <3>1. PICK s \in Behind : \A y \in Behind : s <= y
      BY <2>1, <2>2, LeastNumber
    <3>2. (cursor + 1)..(s - 1) \subseteq inuse
      BY <2>1, <3>1, SeqAssumption DEF SeqTypeOK, Seqs
    <3>3. IsNext(s)
      BY <3>1, <3>2 DEF IsNext
    <3>4. QED
      BY <3>1, <3>3
  <2>3. CASE Behind = {}
    <3>1. PICK s \in Free1 : \A y \in Free1 : s <= y
      BY <2>1, LeastNumber
    <3>2. s <= cursor
      BY <2>1, <2>3, <3>1
    <3>3. (cursor + 1)..SeqMax \subseteq inuse
      BY <2>1, <2>3, SeqAssumption DEF SeqTypeOK, Seqs
    <3>4. SeqMin..(s - 1) \subseteq inuse
      BY <2>1, <3>1, SeqAssumption DEF SeqTypeOK, Seqs
    <3>5. IsNext(s)
      BY <3>1, <3>2, <3>3, <3>4 DEF IsNext
    <3>6. QED
      BY <3>1, <3>5
  <2>4. QED
    BY <2>2, <2>3
<1>2. QED
  BY <1>1, SeqTypes, PTL

-----------------------------------------------------------------------------
(* TimerAxis *)
Entries == [on : {TRUE}, total : Totals \cup {Forever}, times : Nat,
            removed : BOOLEAN, data : Datas]
Askings == [on : {TRUE}, total : Totals \cup {Forever}, data : Datas,
            reused : BOOLEAN, ran : Nat]

\* The maps are total, and what they hold is an entry, a request or nothing.
MapTypes ==
    /\ entry \in [Keys -> Entries \cup {NoEntry}]
    /\ asked \in [Keys -> Askings \cup {NotAsked}]
    /\ added \in [Keys -> BOOLEAN]
    /\ firing \in Keys \cup {NoKey}
    /\ local \in Nat
    /\ given \in Datas

\* The entry of a timer and what was last asked of it.  A marked entry belongs
\* to a killed timer; one that is not marked is pending; with a number of
\* callbacks asked for, the entry counts those since SetTimer and ends in time;
\* a fresh entry is exactly what was asked for, and goes with its last callback.
EntryMatches(k) ==
    /\ (entry[k].on /\ ~entry[k].removed) <=> added[k]
    /\ firing = k => entry[k].on
    /\ entry[k].on => (entry[k].removed <=> ~asked[k].on)
    /\ asked[k].on /\ asked[k].total > 0 => asked[k].ran <= asked[k].total
    /\ asked[k].on /\ entry[k].on /\ asked[k].total > 0 =>
         /\ entry[k].total = asked[k].total
         /\ entry[k].times = asked[k].ran
         /\ entry[k].times < entry[k].total \/ (firing = k /\ local >= entry[k].total)
    /\ asked[k].on /\ ~asked[k].reused =>
         IF entry[k].on
         THEN /\ entry[k].total = asked[k].total
              /\ entry[k].times = asked[k].ran
              /\ firing = k => local = entry[k].times
         ELSE asked[k].total > 0 /\ asked[k].ran = asked[k].total
    /\ asked[k].on /\ entry[k].on /\ asked[k].data = "bytes" => entry[k].data = "bytes"
    /\ firing = k /\ asked[k].on /\ asked[k].ran > 0 /\ asked[k].data = "bytes"
         => given = "bytes"

\* The inductive invariant behind TimersAsAsked.
TimerInv == MapTypes /\ \A k \in Keys : EntryMatches(k)

-----------------------------------------------------------------------------
\* The fields of an entry and of a request.
LEMMA EntryFields ==
  ASSUME NEW e \in Entries
  PROVE  /\ e.on /\ e.removed \in BOOLEAN /\ e.data \in Datas
         /\ e.times \in Nat /\ e.total \in Totals \cup {Forever} /\ e.total \in Int
<1>1. /\ e.on /\ e.removed \in BOOLEAN /\ e.data \in Datas
      /\ e.times \in Nat /\ e.total \in Totals \cup {Forever}
  BY Zenon DEF Entries
<1>2. \A t \in Totals \cup {Forever} : t \in Int
  BY TimerAssumption DEF Forever
<1>3. QED
  BY <1>1, <1>2, Zenon

\* What a request for a timer holds.
LEMMA AskingFields ==
  ASSUME NEW a \in Askings
  PROVE  /\ a.on /\ a.reused \in BOOLEAN /\ a.data \in Datas
         /\ a.ran \in Nat /\ a.total \in Totals \cup {Forever} /\ a.total \in Int
<1>1. /\ a.on /\ a.reused \in BOOLEAN /\ a.data \in Datas
      /\ a.ran \in Nat /\ a.total \in Totals \cup {Forever}
  BY Zenon DEF Askings
<1>2. \A t \in Totals \cup {Forever} : t \in Int
  BY TimerAssumption DEF Forever
<1>3. QED
  BY <1>1, <1>2, Zenon

\* Marking an entry.
LEMMA EntryRemoved ==
  ASSUME NEW e \in Entries
  PROVE  [e EXCEPT !.removed = TRUE].removed
BY Zenon DEF Entries

\* An entry, or a request, is there exactly when its field on says so.
LEMMA OnIsThere ==
  ASSUME MapTypes, NEW k \in Keys
  PROVE  /\ entry[k].on => entry[k] \in Entries
         /\ asked[k].on => asked[k] \in Askings
         /\ entry[k].on \in BOOLEAN
<1>1. /\ entry[k] \in Entries \/ entry[k] = NoEntry
      /\ asked[k] \in Askings \/ asked[k] = NotAsked
  BY SMT DEF MapTypes
<1>2. ~NoEntry.on /\ ~NotAsked.on /\ NoEntry.on \in BOOLEAN
  BY Zenon DEF NoEntry, NotAsked
<1>3. entry[k] \in Entries => entry[k].on \in BOOLEAN
  BY Zenon DEF Entries
<1>4. QED
  BY <1>1, <1>2, <1>3, Zenon

\* Nothing is set and nothing was asked at first.
LEMMA TimerInvInit == TimerInit => TimerInv
<1> SUFFICES ASSUME TimerInit PROVE TimerInv
  OBVIOUS
<1>1. MapTypes
  BY DEF TimerInit, MapTypes, Datas
<1>2. ASSUME NEW k \in Keys PROVE EntryMatches(k)
  BY TimerAssumption DEF TimerInit, EntryMatches, NoEntry, NotAsked
<1>3. QED
  BY <1>1, <1>2 DEF TimerInv

\* SetTimer makes a new entry or takes a marked one up again.
LEMMA SetTimerKeepsInv ==
  ASSUME TimerInv, NEW k \in Keys, NEW total \in Totals \cup {Forever},
         NEW d \in Datas, SetTimer(k, total, d)
  PROVE  TimerInv'
<1> DEFINE old == IF entry[k].on THEN entry[k] ELSE Entry(Forever, 0, TRUE, "null")
           kept == FillAsyncData(old.data, d)
           new == IF total > 0 THEN Entry(total, 0, FALSE, kept)
                  ELSE Entry(old.total, old.times, FALSE, kept)
           req == Asked(total, d, entry[k].on)
<1>1. /\ entry' = [entry EXCEPT ![k] = new]
      /\ asked' = [asked EXCEPT ![k] = req]
      /\ added' = [added EXCEPT ![k] = TRUE]
      /\ UNCHANGED <<firing, local, given>>
  BY DEF SetTimer
<1>2. entry[k].on \in BOOLEAN /\ (entry[k].on => entry[k] \in Entries)
  BY OnIsThere, Zenon DEF TimerInv
<1>3. old \in Entries
  <2>1. Entry(Forever, 0, TRUE, "null") \in Entries
    BY DEF Entries, Entry, Datas
  <2>2. QED
    BY <1>2, <2>1, Zenon
<1>4. kept \in Datas /\ (d = "bytes" => kept = "bytes")
  BY <1>3 DEF FillAsyncData, Entries
<1>5. new \in Entries /\ new.on /\ ~new.removed /\ new.data = kept
  BY <1>3, <1>4 DEF Entry, Entries
<1>6. /\ req \in Askings /\ req.on /\ req.total = total /\ req.ran = 0
      /\ req.data = d /\ req.reused = entry[k].on
  <2>1. req \in Askings
    BY <1>2, Z3 DEF Asked, Askings
  <2>2. QED
    BY <2>1, Zenon DEF Asked
<1>7. total > 0 => new.total = total /\ new.times = 0
  BY DEF Entry
<1>8. ~entry[k].on => new.total = total /\ new.times = 0
  BY TimerAssumption DEF Entry, Forever
<1> HIDE DEF old, kept, new, req
<1>9. MapTypes'
  BY <1>1, <1>5, <1>6 DEF TimerInv, MapTypes
<1>10. ASSUME NEW j \in Keys PROVE EntryMatches(j)'
  <2>1. CASE j = k
    <3>1. entry'[j] = new /\ asked'[j] = req /\ added'[j] = TRUE
      BY <1>1, <2>1 DEF TimerInv, MapTypes
    <3>2. firing = k => entry[k].on
      BY DEF TimerInv, EntryMatches
    <3>3. firing' = k => entry[k].on
      BY <1>1, <3>2
    <3>4. new.on = TRUE /\ new.removed = FALSE /\ req.on = TRUE /\ req.ran = 0
      BY <1>5, <1>6 DEF Entries, Askings
    <3>5. (entry[j].on /\ ~entry[j].removed <=> added[j])'
      BY <3>1, <3>4
    <3>6. (firing = j => entry[j].on)' /\ (entry[j].on => (entry[j].removed <=> ~asked[j].on))'
      BY <3>1, <3>4
    <3>7. /\ (asked[j].on /\ asked[j].total > 0 => asked[j].ran =< asked[j].total)'
          /\ (asked[j].on /\ entry[j].on /\ asked[j].total > 0
               => /\ entry[j].total = asked[j].total /\ entry[j].times = asked[j].ran
                  /\ entry[j].times < entry[j].total \/ (firing = j /\ local >= entry[j].total))'
      BY <1>6, <1>7, <3>1, <3>4, TimerAssumption DEF Forever
    <3>8. (asked[j].on /\ ~asked[j].reused =>
             IF entry[j].on
             THEN /\ entry[j].total = asked[j].total /\ entry[j].times = asked[j].ran
                  /\ firing = j => local = entry[j].times
             ELSE asked[j].total > 0 /\ asked[j].ran = asked[j].total)'
      BY <1>6, <1>8, <2>1, <3>1, <3>3, <3>4
    <3>9. /\ (asked[j].on /\ entry[j].on /\ asked[j].data = "bytes" => entry[j].data = "bytes")'
          /\ (firing = j /\ asked[j].on /\ asked[j].ran > 0 /\ asked[j].data = "bytes" => given = "bytes")'
      BY <1>4, <1>5, <1>6, <3>1, <3>4
    <3>10. QED
      BY <3>5, <3>6, <3>7, <3>8, <3>9, Zenon DEF EntryMatches
  <2>2. CASE j # k
    <3>1. entry'[j] = entry[j] /\ asked'[j] = asked[j] /\ added'[j] = added[j]
      BY <1>1, <2>2 DEF TimerInv, MapTypes
    <3>2. QED
      BY <1>1, <3>1 DEF TimerInv, EntryMatches
  <2>3. QED
    BY <2>1, <2>2
<1>11. QED
  BY <1>9, <1>10 DEF TimerInv

\* KillTimer marks the entry and stops its event.
LEMMA KillTimerKeepsInv ==
  ASSUME TimerInv, NEW k \in Keys, KillTimer(k)
  PROVE  TimerInv'
<1>1. entry[k] \in Entries
  BY DEF TimerInv, MapTypes, KillTimer, NoEntry
<1>2. /\ entry' = [entry EXCEPT ![k] = [entry[k] EXCEPT !.removed = TRUE]]
      /\ asked' = [asked EXCEPT ![k] = NotAsked]
      /\ added' = [added EXCEPT ![k] = FALSE]
      /\ UNCHANGED <<firing, local, given>>
  BY DEF KillTimer
<1>3. [entry[k] EXCEPT !.removed = TRUE] \in Entries
  BY <1>1 DEF Entries
<1>4. MapTypes'
  BY <1>2, <1>3 DEF TimerInv, MapTypes
<1>5. ASSUME NEW j \in Keys PROVE EntryMatches(j)'
  <2>1. CASE j = k
    <3>1. /\ entry'[j] = [entry[k] EXCEPT !.removed = TRUE]
          /\ asked'[j] = NotAsked /\ added'[j] = FALSE
      BY <1>2, <2>1 DEF TimerInv, MapTypes
    <3>2. entry'[j].on /\ entry'[j].removed /\ ~asked'[j].on
      <4>1. entry'[j].on
        BY <1>3, <3>1, EntryFields, Zenon
      <4>2. entry'[j].removed
        BY <1>1, <3>1, EntryRemoved, Zenon
      <4>3. ~NotAsked.on
        BY Zenon DEF NotAsked
      <4>4. QED
        BY <3>1, <4>1, <4>2, <4>3, Zenon
    <3>3. QED
      BY <3>1, <3>2 DEF EntryMatches
  <2>2. CASE j # k
    <3>1. entry'[j] = entry[j] /\ asked'[j] = asked[j] /\ added'[j] = added[j]
      BY <1>2, <2>2 DEF TimerInv, MapTypes
    <3>2. QED
      BY <1>2, <3>1 DEF TimerInv, EntryMatches
  <2>3. QED
    BY <2>1, <2>2
<1>6. QED
  BY <1>4, <1>5 DEF TimerInv

\* OnTimer counts one more callback of a timer that is pending.
LEMMA FireKeepsInv ==
  ASSUME TimerInv, NEW k \in Keys, Fire(k)
  PROVE  TimerInv'
<1>1. entry[k] \in Entries /\ ~entry[k].removed /\ asked[k] \in Askings
  <2>1. entry[k].on /\ ~entry[k].removed /\ asked[k].on
    BY EntryFields, OnIsThere, Zenon DEF TimerInv, EntryMatches, Fire
  <2>2. QED
    BY <2>1, OnIsThere, Zenon DEF TimerInv
<1> DEFINE new == [entry[k] EXCEPT !.times = @ + 1]
           req == [asked[k] EXCEPT !.ran = @ + 1]
<1>2. /\ entry' = [entry EXCEPT ![k] = new]
      /\ asked' = [asked EXCEPT ![k] = req]
      /\ added' = added /\ firing' = k /\ local' = entry[k].times + 1
      /\ given' = entry[k].data /\ firing = NoKey /\ added[k]
  BY DEF Fire
<1>3. /\ new \in Entries /\ new.on /\ ~new.removed /\ new.total = entry[k].total
      /\ new.times = entry[k].times + 1 /\ new.data = entry[k].data
  <2>1. entry[k].times + 1 \in Nat
    BY <1>1, EntryFields
  <2>2. /\ new \in Entries /\ new.removed = entry[k].removed
        /\ new.total = entry[k].total /\ new.data = entry[k].data
        /\ new.times = entry[k].times + 1
    BY <1>1, <2>1, Zenon DEF Entries
  <2>3. QED
    BY <1>1, <2>2, EntryFields, Zenon
<1>4. /\ req \in Askings /\ req.on /\ req.total = asked[k].total
      /\ req.ran = asked[k].ran + 1 /\ req.data = asked[k].data
      /\ req.reused = asked[k].reused
  <2>1. asked[k].ran + 1 \in Nat
    BY <1>1, AskingFields
  <2>2. /\ req \in Askings /\ req.reused = asked[k].reused
        /\ req.total = asked[k].total /\ req.data = asked[k].data
        /\ req.ran = asked[k].ran + 1
    BY <1>1, <2>1, Zenon DEF Askings
  <2>3. QED
    BY <2>2, AskingFields, Zenon
<1>5. entry[k].on /\ asked[k].on /\ entry[k].times \in Nat /\ entry[k].data \in Datas
  BY <1>1, EntryFields, AskingFields, Zenon
<1> HIDE DEF new, req
<1>6. MapTypes'
  BY <1>2, <1>3, <1>4, <1>5 DEF TimerInv, MapTypes
<1>7. ASSUME NEW j \in Keys PROVE EntryMatches(j)'
  <2>1. EntryMatches(j) /\ NoKey \notin Keys
    BY TimerAssumption DEF TimerInv
  <2>2. CASE j = k
    <3>1. entry'[j] = new /\ asked'[j] = req /\ added'[j] = added[k]
      BY <1>2, <2>2 DEF TimerInv, MapTypes
    <3>2. /\ entry[k].total \in Int /\ asked[k].total \in Int /\ asked[k].ran \in Nat
      BY <1>1, EntryFields, AskingFields, Zenon
    <3>3. QED
      BY <1>1, <1>2, <1>3, <1>4, <1>5, <2>1, <2>2, <3>1, <3>2 DEF EntryMatches
  <2>3. CASE j # k
    <3>1. entry'[j] = entry[j] /\ asked'[j] = asked[j] /\ added'[j] = added[j]
      BY <1>2, <2>3 DEF TimerInv, MapTypes
    <3>2. QED
      BY <1>2, <2>1, <2>3, <3>1 DEF EntryMatches
  <2>4. QED
    BY <2>2, <2>3
<1>8. QED
  BY <1>6, <1>7 DEF TimerInv

\* OnTimer after the callback: a marked entry goes, and one whose last callback
\* this was.
LEMMA ReturnedKeepsInv ==
  ASSUME TimerInv, Returned
  PROVE  TimerInv'
<1>1. firing \in Keys /\ firing' = NoKey /\ UNCHANGED <<local, asked, given>>
  BY DEF TimerInv, MapTypes, Returned
<1>2. entry[firing] \in Entries
  BY <1>1 DEF TimerInv, MapTypes, EntryMatches, NoEntry
<1>3. CASE Gone(firing)
  <2>1. /\ entry' = [entry EXCEPT ![firing] = NoEntry]
        /\ added' = [added EXCEPT ![firing] = FALSE]
    BY <1>3 DEF Returned
  <2>2. MapTypes'
    BY <1>1, <2>1 DEF TimerInv, MapTypes
  <2>3. ASSUME NEW j \in Keys PROVE EntryMatches(j)'
    <3>1. EntryMatches(j) /\ NoKey \notin Keys
      BY TimerAssumption DEF TimerInv
    <3>2. CASE j = firing
      <4>1. entry'[j] = NoEntry /\ asked'[j] = asked[j] /\ ~added'[j] /\ ~entry'[j].on
        BY <1>1, <2>1, <3>2 DEF TimerInv, MapTypes, NoEntry
      <4>2. asked[j].on => asked[j] \in Askings
        BY DEF TimerInv, MapTypes, NotAsked
      <4>3. asked[j].on /\ ~asked[j].reused => asked[j].total > 0 /\ asked[j].ran = asked[j].total
        <5> SUFFICES ASSUME asked[j].on, ~asked[j].reused
                     PROVE  asked[j].total > 0 /\ asked[j].ran = asked[j].total
          OBVIOUS
        <5>1. /\ entry[j].on /\ ~entry[j].removed /\ entry[j].total = asked[j].total
              /\ entry[j].times = asked[j].ran /\ local = asked[j].ran
          BY <1>2, <3>1, <3>2 DEF EntryMatches, Entries
        <5>2. entry[j].total > 0 /\ local >= entry[j].total
          BY <1>3, <3>2, <5>1 DEF Gone
        <5>3. asked[j].ran <= asked[j].total
          BY <3>1, <5>1, <5>2 DEF EntryMatches
        <5>4. asked[j].ran \in Nat /\ asked[j].total \in Int
          BY <4>2, AskingFields, Zenon
        <5>5. QED
          BY <5>1, <5>2, <5>3, <5>4
      <4>4. QED
        BY <1>1, <3>1, <4>1, <4>3 DEF EntryMatches
    <3>3. CASE j # firing
      <4>1. entry'[j] = entry[j] /\ asked'[j] = asked[j] /\ added'[j] = added[j]
        BY <1>1, <2>1, <3>3 DEF TimerInv, MapTypes
      <4>2. QED
        BY <1>1, <3>1, <3>3, <4>1 DEF EntryMatches
    <3>4. QED
      BY <3>2, <3>3
  <2>4. QED
    BY <2>2, <2>3 DEF TimerInv
<1>4. CASE ~Gone(firing)
  <2>1. UNCHANGED <<entry, added>>
    BY <1>4 DEF Returned
  <2>2. MapTypes'
    BY <1>1, <2>1 DEF TimerInv, MapTypes
  <2>3. ASSUME NEW j \in Keys PROVE EntryMatches(j)'
    <3>1. EntryMatches(j) /\ NoKey \notin Keys
      BY TimerAssumption DEF TimerInv
    <3>2. firing = j => ~(entry[j].total > 0 /\ local >= entry[j].total)
      BY <1>4 DEF Gone
    <3>3. asked[j].on /\ entry[j].on /\ asked[j].total > 0 => entry[j].times < entry[j].total
      BY <3>1, <3>2 DEF EntryMatches
    <3>4. QED
      BY <1>1, <2>1, <3>1, <3>3 DEF EntryMatches
  <2>4. QED
    BY <2>2, <2>3 DEF TimerInv
<1>5. QED
  BY <1>3, <1>4

\* What one timer's entry says is kept by every call, callback and return.
LEMMA TimerInvNext == TimerInv /\ [TimerNext]_timerVars => TimerInv'
<1> SUFFICES ASSUME TimerInv, [TimerNext]_timerVars PROVE TimerInv'
  OBVIOUS
<1>1. ASSUME NEW k \in Keys, NEW t \in Totals \cup {Forever}, NEW d \in Datas,
             SetTimer(k, t, d)
      PROVE  TimerInv'
  BY <1>1, SetTimerKeepsInv
<1>2. ASSUME NEW k \in Keys, KillTimer(k)
      PROVE  TimerInv'
  BY <1>2, KillTimerKeepsInv
<1>3. ASSUME NEW k \in Keys, Fire(k)
      PROVE  TimerInv'
  BY <1>3, FireKeepsInv
<1>4. CASE Returned
  BY <1>4, ReturnedKeepsInv
<1>5. CASE Finalize
  <2>1. MapTypes'
    BY <1>5 DEF Finalize, TimerInv, MapTypes
  <2>2. ASSUME NEW j \in Keys PROVE EntryMatches(j)'
    <3>1. entry'[j] = NoEntry /\ asked'[j] = NotAsked /\ ~added'[j] /\ firing' # j
      BY <1>5, TimerAssumption DEF Finalize
    <3>2. ~entry'[j].on /\ ~asked'[j].on
      BY <3>1 DEF NoEntry, NotAsked
    <3>3. added'[j] = FALSE
      BY <1>5 DEF Finalize
    <3>4. QED
      BY <3>1, <3>2, <3>3 DEF EntryMatches
  <2>3. QED
    BY <2>1, <2>2 DEF TimerInv
<1>6. CASE UNCHANGED <<entry, added, firing, local, asked, given>>
  BY <1>6 DEF TimerInv, MapTypes, EntryMatches
<1>7. QED
  BY <1>1, <1>2, <1>3, <1>4, <1>5, <1>6 DEF TimerNext, SetTimerFails, timerVars

\* TimerInv says all that TimersAsAsked does.
LEMMA TimerInvImplies == TimerInv => TimersAsAsked
<1> SUFFICES ASSUME TimerInv PROVE TimersAsAsked
  OBVIOUS
<1>1. ExistsIffPending
  BY DEF TimerInv, MapTypes, EntryMatches, ExistsIffPending, TimerTypeOK, TimerExist, Entries
<1>2. NeverTooOften
  <2> SUFFICES ASSUME NEW k \in Keys
               PROVE  /\ added[k] => asked[k].on
                      /\ asked[k].on /\ asked[k].total > 0 => asked[k].ran <= asked[k].total
    BY DEF NeverTooOften
  <2>1. entry[k].on /\ ~entry[k].removed => asked[k].on
    BY DEF TimerInv, MapTypes, EntryMatches, Askings, NotAsked
  <2>2. QED
    BY <2>1 DEF TimerInv, MapTypes, EntryMatches
<1>3. RunsAsAsked
  <2> SUFFICES ASSUME NEW k \in Keys, asked[k].on, ~asked[k].reused, firing = NoKey, ~added[k]
               PROVE  asked[k].total > 0 /\ asked[k].ran = asked[k].total
    BY DEF RunsAsAsked
  <2>1. ~entry[k].on
    BY DEF TimerInv, MapTypes, EntryMatches, Entries, NoEntry
  <2>2. QED
    BY <2>1 DEF TimerInv, EntryMatches
<1>4. DataDelivered
  BY DEF TimerInv, MapTypes, EntryMatches, DataDelivered
<1>5. QED
  BY <1>1, <1>2, <1>3, <1>4 DEF TimersAsAsked

\* TimersAsAsked (SetTimer, KillTimer, OnTimer and RemoveTimer of TimerAxis)
\* for any timers and any number of calls: a timer exists exactly while it is
\* pending, never fires more often than asked nor after KillTimer, ends early
\* only when it took over a marked entry, and gets its bytes.
THEOREM TimersRunAsAsked == TimerSpec => []TimersAsAsked
<1>1. TimerSpec => []TimerInv
  BY TimerInvInit, TimerInvNext, PTL DEF TimerSpec
<1>2. QED
  BY <1>1, TimerInvImplies, PTL

-----------------------------------------------------------------------------
\* ProtoStream.

\* Products grow with their factor.
LEMMA TimesMonotone ==
    ASSUME NEW a \in Int, NEW b \in Int, NEW M \in Nat, a <= b
    PROVE  a * M <= b * M /\ a * M \in Int /\ b * M \in Int
<1>1. PICK d \in Nat : b = a + d
  <2>1. b - a \in Nat /\ b = a + (b - a)
    OBVIOUS
  <2> QED
    BY <2>1
<1>2. b * M = a * M + d * M /\ a * M \in Int /\ d * M \in Nat
  BY <1>1
<1> QED
  BY <1>1, <1>2

\* Division of a multiple and a rest below the divisor.
LEMMA DivisionOfSum ==
    ASSUME NEW n \in Nat, NEW M \in Nat \ {0}, NEW r \in 0..(M - 1)
    PROVE  (n * M + r) \div M = n /\ (n * M + r) % M = r
<1> PICK q : q = (n * M + r) \div M
  OBVIOUS
<1>1. q \in Int /\ q * M <= n * M + r /\ n * M + r < q * M + M /\ (n * M + r) % M = n * M + r - q * M
  OBVIOUS
<1>2. ~(q <= n - 1)
  <2>1. SUFFICES ASSUME q <= n - 1 PROVE FALSE
    OBVIOUS
  <2>2. q * M <= (n - 1) * M
    BY <1>1, <2>1, TimesMonotone
  <2>3. (n - 1) * M = n * M - M
    OBVIOUS
  <2> QED
    BY <1>1, <2>2, <2>3
<1>3. ~(q >= n + 1)
  <2>1. SUFFICES ASSUME q >= n + 1 PROVE FALSE
    OBVIOUS
  <2>2. (n + 1) * M <= q * M
    BY <1>1, <2>1, TimesMonotone
  <2>3. (n + 1) * M = n * M + M
    OBVIOUS
  <2> QED
    BY <1>1, <2>2, <2>3
<1>4. q = n
  BY <1>1, <1>2, <1>3
<1> QED
  BY <1>1, <1>4

Cells == [msg : Msgs, at : 1..MsgCells]

\* Message n + 1 fills the cells behind the first n messages of the stream.
LEMMA StreamCells ==
    ASSUME NEW n \in 0..(N - 1), NEW i \in 1..MsgCells
    PROVE  /\ n * MsgCells + i \in 1..(N * MsgCells)
           /\ Stream[n * MsgCells + i] = [msg |-> n + 1, at |-> i]
<1> USE CodecAssumption, StreamAssumption
<1>1. MsgCells \in Nat \ {0} /\ n \in Nat
  BY DEF MsgCells
<1>2. (n + 1) * MsgCells <= N * MsgCells /\ (n + 1) * MsgCells = n * MsgCells + MsgCells
  BY <1>1, TimesMonotone
<1>3. n * MsgCells \in Nat /\ N * MsgCells \in Nat
  BY <1>1
<1>4. n * MsgCells + i \in 1..(N * MsgCells)
  BY <1>1, <1>2, <1>3
<1>5. (n * MsgCells + (i - 1)) \div MsgCells = n /\ (n * MsgCells + (i - 1)) % MsgCells = i - 1
  BY <1>1, DivisionOfSum
<1>6. (n * MsgCells + i) - 1 = n * MsgCells + (i - 1)
  BY <1>1, <1>3
<1>7. MsgAt(n * MsgCells + i) = n + 1 /\ CellAt(n * MsgCells + i) = i
  BY <1>1, <1>5, <1>6 DEF MsgAt, CellAt
<1> QED
  BY <1>4, <1>7 DEF Stream

\* The stream is made of cells of messages.
LEMMA StreamType ==
    Stream \in Seq(Cells) /\ Len(Stream) = N * MsgCells /\ N * MsgCells \in Nat
<1> USE CodecAssumption, StreamAssumption
<1>1. MsgCells \in Nat \ {0} /\ N * MsgCells \in Nat
  BY DEF MsgCells
<1>2. ASSUME NEW i \in 1..(N * MsgCells)
      PROVE  MsgAt(i) \in Msgs /\ CellAt(i) \in 1..MsgCells
  <2> PICK q : q = (i - 1) \div MsgCells
    OBVIOUS
  <2>1. q \in Int /\ q * MsgCells <= i - 1 /\ i - 1 < q * MsgCells + MsgCells
    BY <1>1
  <2>2. ~(q <= -1)
    <3>1. SUFFICES ASSUME q <= -1 PROVE FALSE
      OBVIOUS
    <3>2. q * MsgCells <= (-1) * MsgCells
      BY <1>1, <2>1, <3>1, TimesMonotone
    <3> QED
      BY <1>1, <2>1, <3>2
  <2>3. ~(q >= N)
    <3>1. SUFFICES ASSUME q >= N PROVE FALSE
      OBVIOUS
    <3>2. N * MsgCells <= q * MsgCells
      BY <1>1, <2>1, <3>1, TimesMonotone
    <3> QED
      BY <1>1, <2>1, <3>2
  <2>4. (i - 1) % MsgCells \in 0..(MsgCells - 1)
    BY <1>1
  <2> QED
    BY <1>1, <2>1, <2>2, <2>3, <2>4 DEF MsgAt, CellAt, Msgs
<1> QED
  BY <1>1, <1>2 DEF Stream, Cells

\* The end of a sequence, from a place in it.
LEMMA EndOfSeq ==
    ASSUME NEW S, NEW s \in Seq(S), NEW k \in Nat
    PROVE  /\ SubSeq(s, k + 1, Len(s)) \in Seq(S)
           /\ k <= Len(s) => Len(SubSeq(s, k + 1, Len(s))) = Len(s) - k
           /\ k >= Len(s) => SubSeq(s, k + 1, Len(s)) = <<>>
           /\ \A i \in 1..(Len(s) - k) : SubSeq(s, k + 1, Len(s))[i] = s[k + i]
<1>1. SubSeq(s, k + 1, Len(s)) \in Seq(S)
  BY SubSeqProperties
<1>2. k <= Len(s) => Len(SubSeq(s, k + 1, Len(s))) = Len(s) - k
  OBVIOUS
<1>3. k >= Len(s) => SubSeq(s, k + 1, Len(s)) = <<>>
  OBVIOUS
<1>4. \A i \in 1..(Len(s) - k) : SubSeq(s, k + 1, Len(s))[i] = s[k + i]
  OBVIOUS
<1> QED
  BY <1>1, <1>2, <1>3, <1>4

\* Cells of a concatenation.
LEMMA ConcatCells ==
    ASSUME NEW S, NEW d \in Seq(S), NEW w \in Seq(S)
    PROVE  /\ d \o w \in Seq(S) /\ Len(d \o w) = Len(d) + Len(w)
           /\ \A i \in 1..Len(d) : (d \o w)[i] = d[i]
           /\ \A i \in 1..Len(w) : (d \o w)[Len(d) + i] = w[i]
  OBVIOUS

\* Reading moves the border between what has arrived and what has not.
LEMMA ReadMoves ==
    ASSUME NEW S, NEW d \in Seq(S), NEW w \in Seq(S), NEW n \in 1..Len(w)
    PROVE  /\ d \o SubSeq(w, 1, n) \in Seq(S) /\ SubSeq(w, n + 1, Len(w)) \in Seq(S)
           /\ d \o SubSeq(w, 1, n) # <<>>
           /\ (d \o SubSeq(w, 1, n)) \o SubSeq(w, n + 1, Len(w)) = d \o w
<1>1. PICK x : x = SubSeq(w, 1, n)
  OBVIOUS
<1>2. PICK y : y = SubSeq(w, n + 1, Len(w))
  OBVIOUS
<1>3. x \in Seq(S) /\ Len(x) = n /\ \A i \in 1..n : x[i] = w[i]
  BY <1>1
<1>4. y \in Seq(S) /\ Len(y) = Len(w) - n /\ \A i \in 1..(Len(w) - n) : y[i] = w[n + i]
  BY <1>2, EndOfSeq
<1>5. x \o y \in Seq(S) /\ Len(x \o y) = Len(w)
  <2>1. Len(x) \in Nat /\ Len(y) \in Nat /\ Len(w) \in Nat /\ Len(x) + Len(y) = Len(w)
    BY <1>3, <1>4
  <2>2. x \o y \in Seq(S) /\ Len(x \o y) = Len(x) + Len(y)
    BY <1>3, <1>4, ConcatProperties
  <2> QED
    BY <2>1, <2>2
<1>6. ASSUME NEW i \in 1..Len(w) PROVE (x \o y)[i] = w[i]
  <2>1. CASE i <= n
    <3>1. x \in Seq(S) /\ y \in Seq(S) /\ i \in 1..Len(x) /\ x[i] = w[i]
      <4>1. i \in 1..n
        BY <2>1
      <4>2. x \in Seq(S) /\ y \in Seq(S) /\ i \in 1..Len(x)
        BY <1>3, <1>4, <4>1
      <4>3. x[i] = w[i]
        BY <1>3, <4>1, Zenon
      <4> QED
        BY <4>2, <4>3
    <3>2. (x \o y)[i] = x[i]
      BY <3>1
    <3> QED
      BY <3>1, <3>2
  <2>2. CASE i > n
    <3>1. i - n \in 1..Len(y) /\ n + (i - n) = i
      BY <1>4, <2>2
    <3>2. (x \o y)[n + (i - n)] = y[i - n]
      <4>1. x \in Seq(S) /\ y \in Seq(S) /\ Len(x) = n
        BY <1>3, <1>4
      <4>2. PICK j \in 1..Len(y) : j = i - n
        BY <3>1
      <4>3. (x \o y)[Len(x) + j] = y[j]
        BY <4>1
      <4> QED
        BY <4>1, <4>2, <4>3
    <3> QED
      BY <1>4, <3>1, <3>2
  <2>3. i <= n \/ i > n
    OBVIOUS
  <2> QED
    BY <2>1, <2>2, <2>3, Zenon
<1>7. x \o y = w
  BY <1>5, <1>6, SeqEqual
<1>8. (d \o x) \o y = d \o w
  <2>1. (d \o x) \o y = d \o (x \o y)
    BY <1>3, <1>4, SMTT(60)
  <2> QED
    BY <1>7, <2>1
<1>9. d \o x \in Seq(S) /\ Len(d \o x) = Len(d) + n
  BY <1>3, ConcatCells
<1>10. d \o x # <<>>
  BY <1>9
<1> QED
  BY <1>1, <1>2, <1>4, <1>8, <1>9, <1>10

\* What is behind the first M cells of a concatenation whose first part is at
\* least as long.
LEMMA DropOfConcat ==
    ASSUME NEW S, NEW d \in Seq(S), NEW w \in Seq(S), NEW M \in 0..Len(d)
    PROVE  SubSeq(d, M + 1, Len(d)) \o w = SubSeq(d \o w, M + 1, Len(d \o w))
<1>1. PICK r : r = SubSeq(d, M + 1, Len(d))
  OBVIOUS
<1>2. PICK c : c = d \o w
  OBVIOUS
<1>3. PICK e : e = SubSeq(c, M + 1, Len(c))
  OBVIOUS
<1>4. r \in Seq(S) /\ Len(r) = Len(d) - M /\ \A i \in 1..(Len(d) - M) : r[i] = d[M + i]
  BY <1>1, EndOfSeq
<1>5. c \in Seq(S) /\ Len(c) = Len(d) + Len(w)
  BY <1>2, ConcatCells
<1>6. (\A i \in 1..Len(d) : c[i] = d[i]) /\ \A i \in 1..Len(w) : c[Len(d) + i] = w[i]
  <2>1. \A i \in 1..Len(d) : c[i] = d[i]
    BY <1>2
  <2>2. \A i \in 1..Len(w) : c[Len(d) + i] = w[i]
    BY <1>2
  <2> QED
    BY <2>1, <2>2
<1>7. e \in Seq(S) /\ Len(e) = Len(c) - M /\ \A i \in 1..(Len(c) - M) : e[i] = c[M + i]
  BY <1>3, <1>5, EndOfSeq
<1>8. PICK f : f = r \o w
  OBVIOUS
<1>9. f \in Seq(S) /\ Len(f) = Len(r) + Len(w)
  BY <1>4, <1>8, ConcatCells
<1>10. (\A i \in 1..Len(r) : f[i] = r[i]) /\ \A i \in 1..Len(w) : f[Len(r) + i] = w[i]
  <2>1. r \in Seq(S)
    BY <1>4
  <2>2. \A i \in 1..Len(r) : f[i] = r[i]
    BY <1>8, <2>1
  <2>3. \A i \in 1..Len(w) : f[Len(r) + i] = w[i]
    BY <1>8, <2>1
  <2> QED
    BY <2>2, <2>3
<1>11. Len(f) = Len(e)
  BY <1>4, <1>5, <1>7, <1>9
<1>12. ASSUME NEW i \in 1..Len(f) PROVE f[i] = e[i]
  <2>1. CASE i <= Len(d) - M
    BY <1>4, <1>5, <1>6, <1>7, <1>9, <1>10, <2>1
  <2>2. CASE i > Len(d) - M
    <3>1. PICK j : j = i - (Len(d) - M)
      OBVIOUS
    <3>2. PICK ld, lw \in Nat : ld = Len(d) /\ lw = Len(w)
      OBVIOUS
    <3>3. Len(r) = ld - M /\ Len(c) = ld + lw /\ Len(f) = (ld - M) + lw
      BY <1>4, <1>5, <1>9, <3>2
    <3>4. i \in 1..((ld - M) + lw) /\ i > ld - M /\ j = i - (ld - M) /\ M \in 0..ld
      BY <2>2, <3>1, <3>2, <3>3
    <3>5. j \in 1..lw /\ i = (ld - M) + j /\ M + i = ld + j /\ i \in 1..((ld + lw) - M)
      BY <3>4
    <3>6. j \in 1..Len(w) /\ i = Len(r) + j /\ M + i = Len(d) + j /\ i \in 1..(Len(c) - M)
      BY <3>2, <3>3, <3>5
    <3> QED
      BY <1>6, <1>7, <1>10, <3>6
  <2>3. i <= Len(d) - M \/ i > Len(d) - M
    OBVIOUS
  <2> QED
    BY <2>1, <2>2, <2>3, Zenon
<1>13. f = e
  BY <1>7, <1>9, <1>11, <1>12, SeqEqual
<1> QED
  BY <1>1, <1>2, <1>3, <1>8, <1>13, Zenon

\* The end of an end.
LEMMA DropOfDrop ==
    ASSUME NEW S, NEW s \in Seq(S), NEW k \in 0..Len(s), NEW M \in 0..(Len(s) - k)
    PROVE  SubSeq(SubSeq(s, k + 1, Len(s)), M + 1, Len(SubSeq(s, k + 1, Len(s))))
             = SubSeq(s, (k + M) + 1, Len(s))
<1>1. PICK c : c = SubSeq(s, k + 1, Len(s))
  OBVIOUS
<1>2. PICK e : e = SubSeq(c, M + 1, Len(c))
  OBVIOUS
<1>3. PICK f : f = SubSeq(s, (k + M) + 1, Len(s))
  OBVIOUS
<1>4. c \in Seq(S) /\ Len(c) = Len(s) - k /\ \A i \in 1..(Len(s) - k) : c[i] = s[k + i]
  BY <1>1, EndOfSeq
<1>5. e \in Seq(S) /\ Len(e) = Len(c) - M /\ \A i \in 1..(Len(c) - M) : e[i] = c[M + i]
  <2>1. M \in Nat /\ M <= Len(c)
    BY <1>4
  <2> QED
    BY <1>2, <1>4, <2>1, EndOfSeq
<1>6. f \in Seq(S) /\ Len(f) = Len(s) - (k + M) /\ \A i \in 1..(Len(s) - (k + M)) : f[i] = s[(k + M) + i]
  BY <1>3, EndOfSeq
<1>7. ASSUME NEW i \in 1..Len(e) PROVE e[i] = f[i]
  <2>1. M + i \in 1..(Len(s) - k) /\ k + (M + i) = (k + M) + i /\ i \in 1..(Len(s) - (k + M))
    BY <1>4, <1>5
  <2> QED
    BY <1>4, <1>5, <1>6, <2>1
<1>8. Len(e) = Len(f)
  BY <1>4, <1>5, <1>6
<1>9. e = f
  BY <1>5, <1>6, <1>7, <1>8, SeqEqual
<1> QED
  BY <1>1, <1>2, <1>3, <1>9, Zenon

-----------------------------------------------------------------------------
StreamTypes ==
    /\ kind \in [Msgs -> Kinds] /\ data \in Seq(Cells) /\ wire \in Seq(Cells)
    /\ dispatched \in Seq(Nat)
    /\ parsing \in BOOLEAN /\ part \in BOOLEAN /\ open \in BOOLEAN

\* The loop runs on data of a connection that exists.
LoopHasData == parsing = TRUE => open = TRUE /\ data # <<>>

\* InOrder and PartWatched are inductive with this: the data begins with the
\* first message that was not handed on.
StreamInv == StreamTypes /\ LoopHasData /\ InOrder /\ PartWatched

\* While the loop runs its data begins with the message that is next, as far
\* as it has arrived.
LEMMA FirstMsg ==
    ASSUME StreamInv, open = TRUE, data # <<>>
    PROVE  /\ Len(dispatched) + 1 \in Msgs /\ data[1].msg = Len(dispatched) + 1
           /\ \A j \in 1..MsgCells : j <= Len(data) => OfOneMsg(data, j)
<1> USE CodecAssumption, StreamAssumption
<1>1. PICK n : n = Len(dispatched)
  OBVIOUS
<1>2. PICK M : M = MsgCells
  OBVIOUS
<1>3. n \in Nat /\ M \in Nat \ {0} /\ n * M \in Nat
  BY <1>1, <1>2 DEF StreamInv, StreamTypes, MsgCells
<1>4. data \in Seq(Cells) /\ wire \in Seq(Cells) /\ Len(data) >= 1
  BY DEF StreamInv, StreamTypes
<1>5. data \o wire = SubSeq(Stream, n * M + 1, Len(Stream))
  BY <1>1, <1>2 DEF StreamInv, InOrder
<1>6. Len(data \o wire) >= Len(data) /\ \A i \in 1..Len(data) : (data \o wire)[i] = data[i]
  <2>1. ASSUME NEW x \in Seq(Cells), NEW y \in Seq(Cells)
        PROVE  /\ Len(x \o y) >= Len(x) /\ \A i \in 1..Len(x) : (x \o y)[i] = x[i]
    BY ConcatCells
  <2> QED
    BY <1>4, <2>1, Zenon
<1>7. n * M < Len(Stream)
  <2>1. SUFFICES ASSUME n * M >= Len(Stream) PROVE FALSE
    BY <1>3, StreamType
  <2>2. data \o wire = <<>>
    BY <1>3, <1>5, <2>1, StreamType, EndOfSeq
  <2> QED
    BY <1>4, <1>6, <2>2
<1>8. n \in 0..(N - 1)
  <2>1. SUFFICES ASSUME n >= N PROVE FALSE
    BY <1>3
  <2>2. N * M <= n * M
    BY <1>3, <2>1, TimesMonotone
  <2> QED
    BY <1>2, <1>3, <1>7, <2>2, StreamType
<1>9. ASSUME NEW i \in 1..M, i <= Len(data)
      PROVE  data[i] = [msg |-> n + 1, at |-> i]
  <2>1. n * M + i \in 1..Len(Stream) /\ Stream[n * M + i] = [msg |-> n + 1, at |-> i]
    BY <1>2, <1>8, StreamCells, StreamType
  <2>2. i \in 1..(Len(Stream) - n * M)
    BY <1>3, <2>1, StreamType
  <2>3. SubSeq(Stream, n * M + 1, Len(Stream))[i] = Stream[n * M + i]
    BY <1>3, <2>2, StreamType, EndOfSeq
  <2>4. (data \o wire)[i] = data[i]
    BY <1>4, <1>6, <1>9
  <2> QED
    BY <1>5, <2>1, <2>3, <2>4
<1>10. data[1] = [msg |-> n + 1, at |-> 1]
  BY <1>3, <1>4, <1>9
<1>11. ASSUME NEW j \in 1..M, j <= Len(data) PROVE OfOneMsg(data, j)
  <2>1. ASSUME NEW i \in 1..j PROVE data[i].msg = data[1].msg /\ data[i].at = i
    <3>1. i \in 1..M /\ i <= Len(data)
      BY <1>3, <1>4, <1>11
    <3>2. data[i] = [msg |-> n + 1, at |-> i]
      BY <1>9, <3>1
    <3> QED
      BY <1>10, <3>2
  <2> QED
    BY <1>11, <2>1 DEF OfOneMsg
<1> QED
  BY <1>1, <1>2, <1>8, <1>10, <1>11 DEF Msgs

\* What IsWholeMsg and DecodeMsg say of data that begins with a message.
LEMMA WholeIsNext ==
    ASSUME StreamInv, open = TRUE, data # <<>>, "whole" \in IsWholeMsg(data, LenOK)
    PROVE  /\ MsgCells <= Len(data) /\ LenOK[Len(dispatched) + 1]
           /\ DecodeMsg(data, SumOK) <=> SumOK[Len(dispatched) + 1]
<1> USE CodecAssumption
<1>1. LenCells \in 1..MsgCells /\ MsgCells \in Nat \ {0} /\ Len(data) \in Nat
  BY DEF MsgCells, StreamInv, StreamTypes
<1>2. data[1].msg = Len(dispatched) + 1 /\ \A j \in 1..MsgCells : j <= Len(data) => OfOneMsg(data, j)
  BY FirstMsg
<1>3. ~(Len(data) < LenCells)
  BY DEF IsWholeMsg
<1>4. OfOneMsg(data, LenCells)
  BY <1>1, <1>2, <1>3
<1>5. "whole" \in (IF ~LenOK[data[1].msg] THEN {"invalid"}
                   ELSE IF Len(data) < MsgCells THEN {"part"} ELSE {"whole"})
  BY <1>1, <1>3, <1>4 DEF IsWholeMsg
<1>6. LenOK[data[1].msg] /\ ~(Len(data) < MsgCells)
  BY <1>5
<1>7. MsgCells <= Len(data) /\ OfOneMsg(data, MsgCells)
  BY <1>1, <1>2, <1>6
<1> QED
  BY <1>2, <1>6, <1>7 DEF DecodeMsg

\* Steps that leave the receiving side alone.
LEMMA InSame ==
    ASSUME StreamInv, UNCHANGED <<kind, inVars, open, dispatched>>
    PROVE  StreamInv'
BY DEF StreamInv, StreamTypes, LoopHasData, InOrder, PartWatched, inVars, LenOK, SumOK

\* The end of the connection outside the handlers.
LEMMA CloseStep ==
    ASSUME StreamInv, LogicClosed, DestroyConn, UNCHANGED <<kind, wire, dispatched>>
    PROVE  StreamInv'
<1>1. data' = <<>> /\ parsing' = FALSE /\ part' = FALSE /\ open' = FALSE
  BY DEF LogicClosed, DestroyConn
<1>2. StreamTypes'
  <2>1. data' \in Seq(Cells)
    BY <1>1
  <2> QED
    BY <1>1, <2>1 DEF StreamInv, StreamTypes
<1>3. InOrder'
  BY <1>1 DEF StreamInv, InOrder, LenOK, SumOK
<1> QED
  BY <1>1, <1>2, <1>3 DEF StreamInv, LoopHasData, PartWatched

\* Reading keeps the stream together.
LEMMA ReadStep ==
    ASSUME StreamInv, NEW n \in 1..Len(wire), ReadCallback(n)
    PROVE  StreamInv'
<1>1. /\ data' = data \o SubSeq(wire, 1, n) /\ wire' = SubSeq(wire, n + 1, Len(wire))
      /\ parsing' = TRUE /\ open = TRUE /\ UNCHANGED <<kind, part, open, dispatched>>
  BY DEF ReadCallback, NormalRead, BufferRead, StreamInv, StreamTypes
<1>2. data \in Seq(Cells) /\ wire \in Seq(Cells)
  BY DEF StreamInv, StreamTypes
<1>3. data' \in Seq(Cells) /\ wire' \in Seq(Cells) /\ data' # <<>> /\ data' \o wire' = data \o wire
  <2>1. ASSUME NEW d \in Seq(Cells), NEW w \in Seq(Cells), NEW k \in 1..Len(w)
        PROVE  /\ d \o SubSeq(w, 1, k) \in Seq(Cells) /\ SubSeq(w, k + 1, Len(w)) \in Seq(Cells)
               /\ d \o SubSeq(w, 1, k) # <<>>
               /\ (d \o SubSeq(w, 1, k)) \o SubSeq(w, k + 1, Len(w)) = d \o w
    BY ReadMoves
  <2>2. /\ data \o SubSeq(wire, 1, n) \in Seq(Cells) /\ SubSeq(wire, n + 1, Len(wire)) \in Seq(Cells)
        /\ data \o SubSeq(wire, 1, n) # <<>>
        /\ (data \o SubSeq(wire, 1, n)) \o SubSeq(wire, n + 1, Len(wire)) = data \o wire
    BY <1>2, <2>1, Zenon
  <2> QED
    BY <1>1, <2>2, Zenon
<1>4. StreamTypes'
  BY <1>1, <1>3 DEF StreamInv, StreamTypes
<1>5. InOrder'
  BY <1>1, <1>3 DEF StreamInv, InOrder, LenOK, SumOK
<1> QED
  BY <1>1, <1>3, <1>4, <1>5 DEF StreamInv, LoopHasData, PartWatched

\* A message of the list of those handed on.
LEMMA CountedList ==
    ASSUME NEW d \in Seq(Nat), d = [i \in 1..Len(d) |-> i]
    PROVE  /\ Append(d, Len(d) + 1) \in Seq(Nat) /\ Len(Append(d, Len(d) + 1)) = Len(d) + 1
           /\ Append(d, Len(d) + 1) = [i \in 1..(Len(d) + 1) |-> i]
<1>1. PICK e : e = [i \in 1..(Len(d) + 1) |-> i]
  OBVIOUS
<1>2. Len(d) \in Nat
  OBVIOUS
<1>3. e \in Seq(Nat) /\ Len(e) = Len(d) + 1 /\ \A i \in 1..(Len(d) + 1) : e[i] = i
  BY <1>1, <1>2
<1>4. Append(d, Len(d) + 1) \in Seq(Nat) /\ Len(Append(d, Len(d) + 1)) = Len(d) + 1
  OBVIOUS
<1>5. ASSUME NEW i \in 1..(Len(d) + 1) PROVE Append(d, Len(d) + 1)[i] = i
  <2>1. CASE i <= Len(d)
    <3>1. Append(d, Len(d) + 1)[i] = d[i] /\ i \in 1..Len(d)
      BY <1>2, <2>1
    <3>2. [k \in 1..Len(d) |-> k][i] = i
      BY <3>1
    <3> QED
      BY <3>1, <3>2, Zenon
  <2>2. CASE i = Len(d) + 1
    BY <2>2
  <2> QED
    BY <1>2, <2>1, <2>2
<1>6. Append(d, Len(d) + 1) = e
  BY <1>3, <1>4, <1>5, SeqEqual
<1> QED
  BY <1>1, <1>4, <1>6

\* Handing on the first message.
LEMMA WholeStep ==
    ASSUME StreamInv, parsing = TRUE, "whole" \in IsWholeMsg(data, LenOK), DecodeMsg(data, SumOK),
           WholeMsg, UNCHANGED <<kind, wire>>
    PROVE  StreamInv'
<1> USE CodecAssumption
<1>1. open = TRUE /\ data # <<>>
  BY DEF StreamInv, LoopHasData
<1>2. PICK n : n = Len(dispatched)
  OBVIOUS
<1>3. n \in Nat /\ n + 1 \in Msgs /\ data[1].msg = n + 1
  BY <1>1, <1>2, FirstMsg DEF StreamInv, StreamTypes
<1>4. MsgCells <= Len(data) /\ LenOK[n + 1] /\ SumOK[n + 1]
  BY <1>1, <1>2, WholeIsNext
<1>5. dispatched \in Seq(Nat) /\ dispatched = [i \in 1..Len(dispatched) |-> i]
  BY DEF StreamInv, StreamTypes, InOrder
<1>6. dispatched' = Append(dispatched, n + 1)
  BY <1>3 DEF WholeMsg
<1>7. dispatched' \in Seq(Nat) /\ Len(dispatched') = n + 1 /\ dispatched' = [i \in 1..(n + 1) |-> i]
  BY <1>2, <1>5, <1>6, CountedList
<1>8. \A i \in 1..Len(dispatched') : LenOK'[i] /\ SumOK'[i]
  <2>1. LenOK' = LenOK /\ SumOK' = SumOK
    BY DEF LenOK, SumOK
  <2>2. \A i \in 1..n : LenOK[i] /\ SumOK[i]
    BY <1>2 DEF StreamInv, InOrder
  <2>3. \A i \in 1..(n + 1) : i \in 1..n \/ i = n + 1
    BY <1>3
  <2> QED
    BY <1>4, <1>7, <2>1, <2>2, <2>3, Zenon
<1>9. data \in Seq(Cells) /\ wire \in Seq(Cells) /\ kind \in [Msgs -> Kinds] /\ wire' = wire /\ kind' = kind
  BY DEF StreamInv, StreamTypes
<1>10. CASE open'
  <2>1. data' = SubSeq(data, MsgCells + 1, Len(data)) /\ part' = FALSE /\ parsing' = (data' # <<>>)
    BY <1>10 DEF WholeMsg, KeepRest, Left
  <2>2. open' = TRUE
    BY <1>1, <1>10 DEF WholeMsg, OnClientMsg, SendToClient, DestroyConn
  <2>3. MsgCells \in Nat \ {0} /\ n * MsgCells \in Nat /\ (n + 1) * MsgCells = n * MsgCells + MsgCells
    BY <1>3 DEF MsgCells
  <2>4. data' \in Seq(Cells)
    BY <1>9, <2>1, <2>3, EndOfSeq
  <2>5. data \o wire = SubSeq(Stream, n * MsgCells + 1, Len(Stream))
    BY <1>1, <1>2 DEF StreamInv, InOrder
  <2>6. data' \o wire = SubSeq(Stream, (n * MsgCells + MsgCells) + 1, Len(Stream))
    <3>1. SubSeq(data, MsgCells + 1, Len(data)) \o wire
            = SubSeq(data \o wire, MsgCells + 1, Len(data \o wire))
      <4>1. MsgCells \in 0..Len(data)
        BY <1>4, <1>9, <2>3
      <4>2. PICK M : M = MsgCells
        OBVIOUS
      <4>3. SubSeq(data, M + 1, Len(data)) \o wire = SubSeq(data \o wire, M + 1, Len(data \o wire))
        BY <1>9, <4>1, <4>2, DropOfConcat
      <4> QED
        BY <4>2, <4>3
    <3>2. n * MsgCells \in 0..Len(Stream) /\ MsgCells \in 0..(Len(Stream) - n * MsgCells)
      <4>1. (n + 1) * MsgCells <= N * MsgCells
        BY <1>3, <2>3, StreamAssumption, TimesMonotone DEF Msgs
      <4> QED
        BY <2>3, <4>1, StreamType
    <3>3. SubSeq(SubSeq(Stream, n * MsgCells + 1, Len(Stream)), MsgCells + 1,
                 Len(SubSeq(Stream, n * MsgCells + 1, Len(Stream))))
            = SubSeq(Stream, (n * MsgCells + MsgCells) + 1, Len(Stream))
      BY <3>2, StreamType, DropOfDrop
    <3> QED
      BY <2>1, <2>5, <3>1, <3>3, Zenon
  <2>7. InOrder'
    <3>1. dispatched' = [i \in 1..Len(dispatched') |-> i]
      BY <1>7
    <3>2. data' \o wire' = SubSeq(Stream, Len(dispatched') * MsgCells + 1, Len(Stream))
      BY <1>7, <1>9, <2>3, <2>6
    <3> QED
      BY <1>8, <3>1, <3>2 DEF InOrder
  <2>8. StreamTypes'
    BY <1>7, <1>9, <2>1, <2>2, <2>4 DEF StreamTypes
  <2> QED
    BY <2>1, <2>2, <2>7, <2>8 DEF StreamInv, LoopHasData, PartWatched
<1>11. CASE ~open'
  <2>1. data' = <<>> /\ part' = FALSE /\ parsing' = FALSE
    BY <1>11 DEF WholeMsg, LogicClosed
  <2>2. open' = FALSE
    BY <1>1, <1>11 DEF WholeMsg, OnClientMsg, SendToClient, DestroyConn
  <2>3. InOrder'
    BY <1>7, <1>8, <2>2 DEF InOrder
  <2>4. StreamTypes'
    <3>1. data' \in Seq(Cells)
      BY <2>1
    <3> QED
      BY <1>7, <1>9, <2>1, <2>2, <3>1 DEF StreamTypes
  <2> QED
    BY <2>1, <2>3, <2>4 DEF StreamInv, LoopHasData, PartWatched
<1> QED
  BY <1>10, <1>11

\* A message whose checksum is wrong stays, unwatched.
LEMMA UndecodableStep ==
    ASSUME StreamInv, parsing = TRUE, "whole" \in IsWholeMsg(data, LenOK), ~DecodeMsg(data, SumOK),
           UndecodableMsg, UNCHANGED <<kind, wire>>
    PROVE  StreamInv'
<1>1. open = TRUE /\ data # <<>>
  BY DEF StreamInv, LoopHasData
<1>2. data[1].msg = Len(dispatched) + 1 /\ Len(dispatched) + 1 \in Msgs
  BY <1>1, FirstMsg
<1>3. ~SumOK[data[1].msg]
  BY <1>1, <1>2, WholeIsNext
<1>4. kind[data[1].msg] = "badsum"
  BY <1>2, <1>3 DEF SumOK
<1>5. UNCHANGED <<data, dispatched, open>> /\ part' = FALSE /\ parsing' = FALSE
  BY DEF UndecodableMsg, SendToClient
<1>6. StreamTypes' /\ InOrder'
  BY <1>5 DEF StreamInv, StreamTypes, InOrder, LenOK, SumOK
<1>7. PartWatched'
  BY <1>1, <1>4, <1>5 DEF PartWatched
<1> QED
  BY <1>5, <1>6, <1>7 DEF StreamInv, LoopHasData

\* One turn of the loop.
LEMMA LoopStep ==
    ASSUME StreamInv, OnRecvClientData
    PROVE  StreamInv'
<1>1. parsing = TRUE /\ UNCHANGED <<kind, wire>>
  BY DEF OnRecvClientData, StreamInv, StreamTypes
<1>2. PICK said \in IsWholeMsg(data, LenOK) :
        \/ said = "invalid" /\ InvalidMsg
        \/ said = "part" /\ PartMsg
        \/ said = "whole" /\ IF DecodeMsg(data, SumOK) THEN WholeMsg ELSE UndecodableMsg
  BY DEF OnRecvClientData
<1>3. CASE InvalidMsg
  BY <1>1, <1>3, CloseStep DEF InvalidMsg
<1>4. CASE PartMsg
  <2>1. UNCHANGED <<data, open, dispatched>> /\ part' = TRUE /\ parsing' = FALSE
    BY <1>4 DEF PartMsg
  <2>2. open = TRUE
    BY <1>1 DEF StreamInv, LoopHasData
  <2>3. StreamTypes' /\ InOrder'
    BY <1>1, <2>1 DEF StreamInv, StreamTypes, InOrder, LenOK, SumOK
  <2> QED
    BY <2>1, <2>2, <2>3 DEF StreamInv, LoopHasData, PartWatched
<1>5. CASE said = "whole" /\ DecodeMsg(data, SumOK) /\ WholeMsg
  BY <1>1, <1>2, <1>5, WholeStep
<1>6. CASE said = "whole" /\ ~DecodeMsg(data, SumOK) /\ UndecodableMsg
  BY <1>1, <1>2, <1>6, UndecodableStep
<1> QED
  BY <1>2, <1>3, <1>4, <1>5, <1>6

\* Every step keeps the invariant.
LEMMA StreamStep ==
    ASSUME StreamInv, [Next]_vars
    PROVE  StreamInv'
<1>1. CASE Reads
  BY <1>1, ReadStep DEF Reads
<1>2. CASE OnRecvClientData
  BY <1>2, LoopStep
<1>3. CASE PartMsgTimeout \/ CloseEvent
  BY <1>3, CloseStep DEF PartMsgTimeout, CloseEvent
<1>4. CASE Writes
  BY <1>4, InSame DEF Writes, WriteCallback, BufferWrite
<1>5. CASE PeerCloses \/ Stop \/ UNCHANGED vars
  BY <1>5, InSame DEF PeerCloses, Stop, vars
<1>6. CASE \E m \in Msgs : WorkAnswers(m)
  <2>1. UNCHANGED <<kind, inVars, open, dispatched>>
    BY <1>6 DEF WorkAnswers, SendToClient
  <2> QED
    BY <2>1, InSame
<1> QED
  BY <1>1, <1>2, <1>3, <1>4, <1>5, <1>6 DEF Next

\* A fresh connection.
LEMMA StreamInitially == Init => StreamInv
<1> SUFFICES ASSUME Init PROVE StreamInv
  OBVIOUS
<1>1. MsgCells \in Nat
  BY CodecAssumption DEF MsgCells
<1>2. data = <<>> /\ wire = Stream /\ dispatched = <<>> /\ Len(dispatched) = 0
  BY DEF Init
<1>3. <<>> \o Stream = Stream /\ SubSeq(Stream, 1, Len(Stream)) = Stream
  <2>1. ASSUME NEW s \in Seq(Cells) PROVE <<>> \o s = s /\ SubSeq(s, 1, Len(s)) = s
    OBVIOUS
  <2> QED
    BY <2>1, StreamType
<1>4. InOrder
  <2>1. dispatched = [i \in 1..Len(dispatched) |-> i]
    BY <1>2
  <2>2. data \o wire = SubSeq(Stream, Len(dispatched) * MsgCells + 1, Len(Stream))
    BY <1>1, <1>2, <1>3
  <2> QED
    BY <1>2, <2>1, <2>2 DEF InOrder
<1>5. StreamTypes
  <2>1. data \in Seq(Cells) /\ dispatched \in Seq(Nat)
    BY <1>2
  <2> QED
    BY <1>2, <2>1, StreamType DEF Init, StreamTypes
<1> QED
  BY <1>4, <1>5 DEF StreamInv, Init, LoopHasData, PartWatched

\* The invariant of the receiving side.
THEOREM StreamInvariant == Spec => []StreamInv
<1>1. StreamInv /\ [Next]_vars => StreamInv'
  BY StreamStep
<1> QED
  BY <1>1, StreamInitially, PTL DEF Spec

\* OnRecvClientData hands the client's messages on once each and in order, none
\* behind one that is not accepted, and loses none while the connection lasts,
\* for any number, kind and size of messages and wherever the reads cut them.
THEOREM MessagesInOrder == Spec => []InOrder
<1>1. StreamInv => InOrder
  BY DEF StreamInv
<1> QED
  BY <1>1, StreamInvariant, PTL

\* Data left in a connection outside OnRecvClientData is watched by
\* part_msg_mgr_, or begins with a message that cannot be decoded.
THEOREM RestIsWatched == Spec => []PartWatched
<1>1. StreamInv => PartWatched
  BY DEF StreamInv
<1> QED
  BY <1>1, StreamInvariant, PTL

-----------------------------------------------------------------------------
\* Lists of items that are sent: what is on a send list together.

\* Induction over the numbers up to n.
LEMMA UpTo ==
    ASSUME NEW n \in Nat, NEW P, 0 \in P, \A i \in 1..n : i - 1 \in P => i \in P
    PROVE  \A i \in 0..n : i \in P
<1>1. PICK T : T = (0..n) \ P
  OBVIOUS
<1>2. ASSUME T # {} PROVE FALSE
  <2>1. T \subseteq Nat
    BY <1>1
  <2>2. PICK x \in T : \A y \in T : x <= y
    BY <1>2, <2>1, LeastNumber
  <2>3. x \in 0..n /\ x \notin P
    BY <1>1
  <2>4. x \in 1..n
    BY <2>3
  <2>5. x - 1 \in 0..n /\ x - 1 \notin T
    BY <2>2, <2>4
  <2>6. x - 1 \in P
    BY <1>1, <2>5
  <2> QED
    BY <2>3, <2>4, <2>6
<1> QED
  BY <1>1, <1>2

\* Joining two sequences, and joining nothing.
LEMMA JoinsType == ASSUME NEW S, NEW s \in Seq(S), NEW t \in Seq(S)
                   PROVE s \o t \in Seq(S) /\ <<>> \o s = s /\ s \o <<>> = s
  OBVIOUS

Join(s, t) == s \o t

\* How three are joined makes no difference.
LEMMA JoinThree ==
    ASSUME NEW S, NEW s \in Seq(S), NEW t \in Seq(S), NEW u \in Seq(S)
    PROVE  Join(Join(s, t), u) = Join(s, Join(t, u))
  BY SMTT(60) DEF Join

\* f[i] is what the first i items of a list are together.
Joins(f, l, n) == f[0] = <<>> /\ \A i \in 1..n : f[i] = f[i - 1] \o l[i]

\* There is such a function for every list, by induction over its length.
LEMMA JoinExists ==
    ASSUME NEW S, NEW l \in Seq(Seq(S))
    PROVE  \E f \in [0..Len(l) -> Seq(S)] : Joins(f, l, Len(l))
<1> DEFINE Good(n) == \E f \in [0..n -> Seq(S)] : Joins(f, l, n)
           P == {n \in 0..Len(l) : Good(n)}
<1>1. Good(0)
  <2>1. PICK f : f = [i \in 0..0 |-> <<>>]
    OBVIOUS
  <2>2. f \in [0..0 -> Seq(S)] /\ Joins(f, l, 0)
    BY <2>1 DEF Joins
  <2> QED
    BY <2>2
<1>2. ASSUME NEW n \in 1..Len(l), Good(n - 1) PROVE Good(n)
  <2>1. PICK f \in [0..(n - 1) -> Seq(S)] : Joins(f, l, n - 1)
    BY <1>2
  <2>2. l[n] \in Seq(S) /\ f[n - 1] \in Seq(S)
    OBVIOUS
  <2>3. PICK new : new = f[n - 1] \o l[n]
    OBVIOUS
  <2>4. new \in Seq(S)
    BY <2>2, <2>3, JoinsType
  <2>5. PICK g : g = [i \in 0..n |-> IF i = n THEN new ELSE f[i]]
    OBVIOUS
  <2>6. g \in [0..n -> Seq(S)]
    BY <2>4, <2>5
  <2>7. g[0] = <<>>
    BY <2>1, <2>5 DEF Joins
  <2>8. ASSUME NEW i \in 1..n PROVE g[i] = g[i - 1] \o l[i]
    <3>1. g[i - 1] = f[i - 1]
      BY <2>5
    <3>2. CASE i = n
      <4>1. g[i] = new
        BY <2>5, <3>2
      <4> QED
        BY <2>3, <3>1, <3>2, <4>1
    <3>3. CASE i # n
      <4>1. g[i] = f[i] /\ i \in 1..(n - 1)
        BY <2>5, <3>3
      <4>2. f[i] = f[i - 1] \o l[i]
        BY <2>1, <4>1, Zenon DEF Joins
      <4> QED
        BY <3>1, <4>1, <4>2
    <3> QED
      BY <3>2, <3>3
  <2>9. Joins(g, l, n)
    BY <2>7, <2>8, Zenon DEF Joins
  <2> QED
    BY <2>6, <2>9
<1>3. \A n \in 0..Len(l) : n \in P
  <2> HIDE DEF Good
  <2>1. 0 \in P /\ Len(l) \in Nat
    BY <1>1
  <2>2. \A n \in 1..Len(l) : n - 1 \in P => n \in P
    BY <1>2
  <2> HIDE DEF P
  <2> QED
    BY <2>1, <2>2, UpTo
<1>4. Good(Len(l))
  <2> HIDE DEF Good
  <2> QED
    BY <1>3
<1> QED
  BY <1>4

\* What FlattenSeq makes of a list is what all its items are together.
LEMMA FlatJoins ==
    ASSUME NEW S, NEW l \in Seq(Seq(S)), NEW f \in [0..Len(l) -> Seq(S)], Joins(f, l, Len(l))
    PROVE  Flat(l) = f[Len(l)]
<1>1. CASE Len(l) = 0
  <2>1. l = <<>>
    BY <1>1
  <2> QED
    BY <1>1, <2>1 DEF Flat, FlattenSeq, Joins
<1>2. CASE Len(l) > 0
  <2> DEFINE Is(h) == h = [i \in 1..Len(l) |-> IF i = 1 THEN l[i] ELSE h[i - 1] \o l[i]]
             flatten == CHOOSE h : Is(h)
  <2>0. ASSUME NEW i \in 1..Len(l)
        PROVE  /\ l[i] \in Seq(S) /\ f[i] = f[i - 1] \o l[i]
               /\ i = 1 => f[i] = l[i]
    <3>1. l[i] \in Seq(S)
      OBVIOUS
    <3>2. f[i] = f[i - 1] \o l[i]
      BY Zenon DEF Joins
    <3>3. ASSUME i = 1 PROVE f[i] = l[i]
      <4>1. f[i - 1] = <<>>
        BY <3>3 DEF Joins
      <4>2. <<>> \o l[i] = l[i]
        BY <3>1, JoinsType
      <4> QED
        BY <3>2, <4>1, <4>2
    <3> QED
      BY <3>1, <3>2, <3>3
  <2>1. \E h : Is(h)
    <3>1. PICK h : h = [i \in 1..Len(l) |-> f[i]]
      OBVIOUS
    <3>2. ASSUME NEW i \in 1..Len(l) PROVE h[i] = IF i = 1 THEN l[i] ELSE h[i - 1] \o l[i]
      <4>1. h[i] = f[i]
        BY <3>1
      <4>2. CASE i = 1
        BY <2>0, <4>1, <4>2
      <4>3. CASE i # 1
        <5>1. h[i - 1] = f[i - 1]
          BY <3>1, <4>3
        <5>2. f[i] = f[i - 1] \o l[i]
          BY <2>0, Zenon
        <5> QED
          BY <4>1, <4>3, <5>1, <5>2
      <4> QED
        BY <4>2, <4>3
    <3>3. h = [i \in 1..Len(l) |-> IF i = 1 THEN l[i] ELSE h[i - 1] \o l[i]]
      BY <3>1, <3>2
    <3> QED
      BY <3>3
  <2>2. Is(flatten)
    BY <2>1
  <2>3. PICK h : h = flatten /\ Is(h)
    BY <2>2
  <2>4. ASSUME NEW i \in 1..Len(l) PROVE h[i] = IF i = 1 THEN l[i] ELSE h[i - 1] \o l[i]
    BY <2>3
  <2>5. \A i \in 0..Len(l) : i \in 1..Len(l) => h[i] = f[i]
    <3> DEFINE P == {i \in 0..Len(l) : i \in 1..Len(l) => h[i] = f[i]}
    <3>1. 0 \in P /\ Len(l) \in Nat
      OBVIOUS
    <3>2. ASSUME NEW i \in 1..Len(l), i - 1 \in P PROVE i \in P
      <4>1. CASE i = 1
        <5>1. h[i] = l[i] /\ f[i] = l[i]
          BY <2>0, <2>4, <4>1
        <5> QED
          BY <5>1
      <4>2. CASE i # 1
        <5>1. h[i - 1] = f[i - 1]
          BY <3>2, <4>2
        <5>2. h[i] = h[i - 1] \o l[i]
          BY <2>4, <4>2
        <5>3. f[i] = f[i - 1] \o l[i]
          BY <2>0, Zenon
        <5>4. h[i] = f[i]
          BY <5>1, <5>2, <5>3
        <5> QED
          BY <5>4
      <4> QED
        BY <4>1, <4>2
    <3>3. \A i \in 0..Len(l) : i \in P
      <4> HIDE DEF P
      <4> QED
        BY <3>1, <3>2, UpTo
    <3> QED
      BY <3>3
  <2>6. Flat(l) = flatten[Len(l)]
    <3>1. Len(l) # 0
      BY <1>2
    <3> QED
      BY <3>1, Zenon DEF Flat, FlattenSeq
  <2>7. Len(l) \in 1..Len(l)
    BY <1>2
  <2>8. h[Len(l)] = f[Len(l)]
    BY <2>5, <2>7
  <2> HIDE DEF flatten, Is
  <2> QED
    BY <2>3, <2>6, <2>8
<1> QED
  BY <1>1, <1>2

\* Joining the items of two lists.
LEMMA FlatConcat ==
    ASSUME NEW S, NEW l \in Seq(Seq(S)), NEW m \in Seq(Seq(S))
    PROVE  Flat(l) \in Seq(S) /\ Flat(l \o m) = Flat(l) \o Flat(m)
<1>1. PICK f \in [0..Len(l) -> Seq(S)] : Joins(f, l, Len(l))
  BY JoinExists
<1>2. PICK g \in [0..Len(m) -> Seq(S)] : Joins(g, m, Len(m))
  BY JoinExists
<1>3. Len(l) \in Nat /\ Len(m) \in Nat /\ Len(l \o m) = Len(l) + Len(m) /\ l \o m \in Seq(Seq(S))
  OBVIOUS
<1>4. PICK a \in Seq(S) : a = f[Len(l)] /\ a = Flat(l)
  <2>1. Flat(l) = f[Len(l)]
    BY <1>1, FlatJoins
  <2>2. f[Len(l)] \in Seq(S)
    <3>1. Len(l) \in 0..Len(l)
      BY <1>3
    <3> QED
      BY <3>1
  <2> QED
    BY <2>1, <2>2
<1>5. PICK h : h = [i \in 0..(Len(l) + Len(m)) |-> IF i <= Len(l) THEN f[i] ELSE a \o g[i - Len(l)]]
  OBVIOUS
<1>6. ASSUME NEW i \in 0..Len(l) PROVE h[i] = f[i] /\ h[i] \in Seq(S)
  <2>1. i \in 0..(Len(l) + Len(m)) /\ i <= Len(l)
    BY <1>3
  <2>2. h[i] = f[i]
    BY <1>5, <2>1
  <2>3. f[i] \in Seq(S)
    OBVIOUS
  <2> QED
    BY <2>2, <2>3
<1>7. ASSUME NEW i \in 0..Len(m)
      PROVE  h[Len(l) + i] = a \o g[i] /\ h[Len(l) + i] \in Seq(S)
  <2>1. g[i] \in Seq(S) /\ a \o g[i] \in Seq(S)
    BY JoinsType
  <2>2. CASE i = 0
    <3>1. g[i] = <<>> /\ a \o <<>> = a
      BY <1>2, <2>2, JoinsType DEF Joins
    <3>2. h[Len(l) + i] = a
      <4>1. Len(l) + i = Len(l) /\ Len(l) \in 0..Len(l)
        BY <1>3, <2>2
      <4>2. h[Len(l)] = f[Len(l)]
        BY <1>6, <4>1
      <4> QED
        BY <1>4, <4>1, <4>2
    <3> QED
      BY <3>1, <3>2
  <2>3. CASE i # 0
    <3>1. Len(l) + i \in 0..(Len(l) + Len(m)) /\ ~(Len(l) + i <= Len(l)) /\ Len(l) + i - Len(l) = i
      BY <1>3, <2>3
    <3>2. h[Len(l) + i] = a \o g[i]
      BY <1>5, <3>1
    <3> QED
      BY <2>1, <3>2
  <2> QED
    BY <2>2, <2>3
<1>8. h \in [0..Len(l \o m) -> Seq(S)]
  <2>1. ASSUME NEW i \in 0..(Len(l) + Len(m)) PROVE h[i] \in Seq(S)
    <3>1. CASE i <= Len(l)
      BY <1>3, <1>6, <3>1
    <3>2. CASE i > Len(l)
      <4>1. PICK j \in 0..Len(m) : i = Len(l) + j
        <5>1. i - Len(l) \in 0..Len(m) /\ i = Len(l) + (i - Len(l))
          BY <1>3, <3>2
        <5> QED
          BY <5>1
      <4> QED
        BY <1>7, <4>1
    <3> QED
      BY <1>3, <3>1, <3>2
  <2> QED
    BY <1>3, <1>5, <2>1
<1>9. h[0] = <<>>
  BY <1>1, <1>3, <1>6 DEF Joins
<1>10. ASSUME NEW i \in 1..Len(l) PROVE h[i] = h[i - 1] \o (l \o m)[i]
  <2>1. (l \o m)[i] = l[i]
    OBVIOUS
  <2>2. h[i] = f[i] /\ h[i - 1] = f[i - 1]
    BY <1>3, <1>6
  <2>3. f[i] = f[i - 1] \o l[i]
    BY <1>1, Zenon DEF Joins
  <2> QED
    BY <2>1, <2>2, <2>3
<1>11. ASSUME NEW i \in 1..Len(m) PROVE h[Len(l) + i] = h[Len(l) + (i - 1)] \o (l \o m)[Len(l) + i]
  <2>1. (l \o m)[Len(l) + i] = m[i] /\ m[i] \in Seq(S)
    OBVIOUS
  <2>2. h[Len(l) + i] = a \o g[i] /\ h[Len(l) + (i - 1)] = a \o g[i - 1] /\ g[i - 1] \in Seq(S)
    <3>1. i \in 0..Len(m) /\ i - 1 \in 0..Len(m)
      BY <1>3
    <3>2. PICK j \in 0..Len(m) : j = i - 1
      BY <3>1
    <3>3. h[Len(l) + j] = a \o g[j] /\ g[j] \in Seq(S)
      BY <1>7
    <3>4. h[Len(l) + i] = a \o g[i]
      BY <1>7, <3>1
    <3> QED
      BY <3>2, <3>3, <3>4
  <2>3. g[i] = g[i - 1] \o m[i]
    BY <1>2, Zenon DEF Joins
  <2>4. (a \o g[i - 1]) \o m[i] = a \o (g[i - 1] \o m[i])
    <3>1. PICK u \in Seq(S) : u = g[i - 1]
      BY <2>2
    <3>2. PICK v \in Seq(S) : v = m[i]
      BY <2>1
    <3>3. Join(Join(a, u), v) = Join(a, Join(u, v))
      BY JoinThree
    <3> QED
      BY <3>1, <3>2, <3>3, Zenon DEF Join
  <2> QED
    BY <2>1, <2>2, <2>3, <2>4
<1>12. ASSUME NEW i \in 1..Len(l \o m) PROVE h[i] = h[i - 1] \o (l \o m)[i]
  <2>1. CASE i <= Len(l)
    <3>1. i \in 1..Len(l)
      BY <1>3, <2>1
    <3> QED
      BY <1>10, <3>1, Zenon
  <2>2. CASE i > Len(l)
    <3>1. PICK j \in 1..Len(m) : i = Len(l) + j /\ i - 1 = Len(l) + (j - 1)
      <4>1. i - Len(l) \in 1..Len(m) /\ i = Len(l) + (i - Len(l)) /\ i - 1 = Len(l) + (i - Len(l) - 1)
        BY <1>3, <2>2
      <4> QED
        BY <4>1
    <3> QED
      BY <1>11, <3>1
  <2>3. i <= Len(l) \/ i > Len(l)
    BY <1>3
  <2> QED
    BY <2>1, <2>2, <2>3, Zenon
<1>13. Joins(h, l \o m, Len(l \o m))
  BY <1>9, <1>12, Zenon DEF Joins
<1>14. Flat(l \o m) = h[Len(l \o m)]
  BY <1>3, <1>8, <1>13, FlatJoins
<1>15. Flat(m) = g[Len(m)]
  BY <1>2, FlatJoins
<1>16. h[Len(l) + Len(m)] = a \o g[Len(m)]
  BY <1>3, <1>7
<1> QED
  BY <1>3, <1>4, <1>14, <1>15, <1>16

\* A list of one item, or of none.
LEMMA FlatOne ==
    ASSUME NEW S, NEW a \in Seq(S)
    PROVE  Flat(<<a>>) = a /\ Flat(<<>>) = <<>>
<1>1. PICK l : l = <<a>>
  OBVIOUS
<1>2. l \in Seq(Seq(S)) /\ Len(l) = 1 /\ l[1] = a
  BY <1>1
<1>3. PICK f : f = [i \in 0..1 |-> IF i = 0 THEN <<>> ELSE a]
  OBVIOUS
<1>4. f \in [0..Len(l) -> Seq(S)] /\ f[0] = <<>> /\ f[1] = a
  BY <1>2, <1>3
<1>5. ASSUME NEW i \in 1..Len(l) PROVE f[i] = f[i - 1] \o l[i]
  <2>1. i = 1 /\ i - 1 = 0
    BY <1>2
  <2>2. <<>> \o a = a
    BY JoinsType
  <2> QED
    BY <1>2, <1>4, <2>1, <2>2
<1>6. Joins(f, l, Len(l))
  BY <1>4, <1>5, Zenon DEF Joins
<1>7. Flat(l) = a
  BY <1>2, <1>4, <1>6, FlatJoins
<1>8. Flat(<<>>) = <<>>
  BY DEF Flat, FlattenSeq
<1> QED
  BY <1>1, <1>7, <1>8

-----------------------------------------------------------------------------
\* Cutting a sequence in two.
LEMMA SplitAt ==
    ASSUME NEW S, NEW s \in Seq(S), NEW t \in 0..Len(s)
    PROVE  /\ SubSeq(s, 1, t) \in Seq(S) /\ SubSeq(s, t + 1, Len(s)) \in Seq(S)
           /\ Len(SubSeq(s, 1, t)) = t
           /\ SubSeq(s, 1, t) \o SubSeq(s, t + 1, Len(s)) = s
<1>1. CASE t = 0
  BY <1>1
<1>2. CASE t # 0
  <2>1. t \in 1..Len(s) /\ <<>> \in Seq(S)
    BY <1>2
  <2>2. PICK x : x = SubSeq(s, 1, t)
    OBVIOUS
  <2>3. PICK y : y = SubSeq(s, t + 1, Len(s))
    OBVIOUS
  <2>4. x \in Seq(S) /\ Len(x) = t
    BY <2>1, <2>2
  <2>5. y \in Seq(S) /\ (<<>> \o x) \o y = <<>> \o s
    BY <2>1, <2>2, <2>3, ReadMoves
  <2>6. <<>> \o x = x /\ <<>> \o s = s
    BY <2>4, JoinsType
  <2> QED
    BY <2>2, <2>3, <2>4, <2>5, <2>6
<1> QED
  BY <1>1, <1>2

\* What is behind a place in the second of two sequences.
LEMMA DropPast ==
    ASSUME NEW S, NEW x \in Seq(S), NEW y \in Seq(S), NEW o \in 0..Len(y)
    PROVE  SubSeq(x \o y, (Len(x) + o) + 1, Len(x \o y)) = SubSeq(y, o + 1, Len(y))
<1>1. PICK s : s = x \o y
  OBVIOUS
<1>2. s \in Seq(S) /\ Len(s) = Len(x) + Len(y)
  BY <1>1, ConcatCells
<1>3. PICK k \in Nat : k = Len(x)
  OBVIOUS
<1>4. k \in 0..Len(s) /\ o \in 0..(Len(s) - k)
  BY <1>2, <1>3
<1>5. SubSeq(s, k + 1, Len(s)) = y
  <2>1. k \in 0..Len(x)
    BY <1>3
  <2>2. SubSeq(x, k + 1, Len(x)) \o y = SubSeq(s, k + 1, Len(s))
    BY <1>1, <2>1, DropOfConcat, Zenon
  <2>3. SubSeq(x, k + 1, Len(x)) = <<>>
    BY <1>3, EndOfSeq
  <2>4. <<>> \o y = y
    BY JoinsType
  <2> QED
    BY <2>2, <2>3, <2>4
<1>6. SubSeq(SubSeq(s, k + 1, Len(s)), o + 1, Len(SubSeq(s, k + 1, Len(s)))) = SubSeq(s, (k + o) + 1, Len(s))
  BY <1>2, <1>4, DropOfDrop
<1> QED
  BY <1>1, <1>3, <1>5, <1>6, Zenon

\* The greatest of the numbers up to n that have a property.
LEMMA MaxUpTo ==
    ASSUME NEW n \in Nat, NEW K, K \subseteq 0..n, K # {}
    PROVE  Max(K) \in K /\ \A k \in K : k <= Max(K)
<1>1. PICK T : T = {j \in 0..n : n - j \in K}
  OBVIOUS
<1>2. T # {} /\ T \subseteq Nat
  <2>1. PICK k \in K : TRUE
    OBVIOUS
  <2>2. PICK j : j = n - k
    OBVIOUS
  <2>3. j \in 0..n /\ n - j = k
    BY <2>2
  <2>4. j \in T
    BY <1>1, <2>3
  <2>5. \A y \in T : y \in Nat
    BY <1>1
  <2>6. T \subseteq Nat
    BY <2>5, Zenon
  <2> QED
    BY <2>4, <2>6
<1>3. PICK x \in T : \A y \in T : x <= y
  BY <1>2, LeastNumber
<1>4. n - x \in K
  BY <1>1
<1>5. ASSUME NEW k \in K PROVE n - x >= k
  <2>1. PICK j : j = n - k
    OBVIOUS
  <2>2. j \in 0..n /\ n - j = k
    BY <2>1
  <2>3. j \in T
    BY <1>1, <2>2
  <2>4. x <= j /\ x \in 0..n /\ k \in 0..n
    BY <1>1, <1>3, <2>3
  <2> QED
    BY <2>1, <2>4
<1>6. \E m \in K : \A k \in K : m >= k
  BY <1>4, <1>5
<1>7. PICK m : m = Max(K)
  OBVIOUS
<1>8. m \in K /\ \A k \in K : m >= k
  BY <1>6, <1>7 DEF Max
<1>9. \A k \in K : k <= m
  BY <1>8
<1> QED
  BY <1>7, <1>8, <1>9

\* What AfterWrite leaves on the list are the cells behind the first t.
LEMMA CutList ==
    ASSUME NEW S, send_list \in Seq(Seq(S)), NEW t \in 0..Len(Flat(send_list))
    PROVE  /\ AfterWrite(t) \in Seq(Seq(S)) /\ Items(ItemsSent(t) + 1) \in Seq(Seq(S))
           /\ Flat(AfterWrite(t)) = SubSeq(Flat(send_list), t + 1, Len(Flat(send_list)))
<1>1. PICK l \in Seq(Seq(S)) : l = send_list
  OBVIOUS
<1>2. PICK n \in Nat : n = Len(l)
  OBVIOUS
<1>3. ASSUME NEW k \in 0..n
      PROVE  /\ SubSeq(l, 1, k) \in Seq(Seq(S)) /\ SubSeq(l, k + 1, n) \in Seq(Seq(S))
             /\ Len(SubSeq(l, 1, k)) = k
             /\ SubSeq(l, 1, k) \o SubSeq(l, k + 1, n) = l
  BY <1>2, SplitAt
<1>4. Flat(l) \in Seq(S) /\ t \in 0..Len(Flat(l))
  BY <1>1, FlatConcat
<1>5. PICK K : K = {k \in 0..n : Len(Flat(SubSeq(l, 1, k))) <= t}
  OBVIOUS
<1>6. 0 \in K
  <2>1. SubSeq(l, 1, 0) = <<>>
    OBVIOUS
  <2>2. Flat(<<>>) = <<>>
    BY DEF Flat, FlattenSeq
  <2>3. Len(<<>>) <= t /\ 0 \in 0..n
    BY <1>4
  <2>4. Len(Flat(SubSeq(l, 1, 0))) <= t
    BY <2>1, <2>2, <2>3, Zenon
  <2> QED
    BY <1>5, <2>3, <2>4
<1>7. PICK k : k = ItemsSent(t)
  OBVIOUS
<1>8. k \in K /\ \A j \in K : j <= k
  <2>1. ItemsSent(t) = Max(K)
    BY <1>1, <1>2, <1>5 DEF ItemsSent
  <2>2. K \subseteq 0..n
    BY <1>5
  <2>3. K # {}
    BY <1>6
  <2>4. Max(K) \in K /\ \A j \in K : j <= Max(K)
    BY <2>2, <2>3, MaxUpTo
  <2>5. k = Max(K)
    BY <1>7, <2>1, Zenon
  <2> QED
    BY <2>4, <2>5
<1>9. PICK p : p = SubSeq(l, 1, k)
  OBVIOUS
<1>10. k \in 0..n /\ p \in Seq(Seq(S)) /\ Flat(p) \in Seq(S) /\ Len(Flat(p)) <= t
  <2>1. k \in 0..n /\ Len(Flat(p)) <= t
    BY <1>5, <1>8, <1>9
  <2>2. p \in Seq(Seq(S))
    BY <1>3, <1>9, <2>1
  <2> QED
    BY <2>1, <2>2, FlatConcat
<1>11. Items(k + 1) = SubSeq(l, k + 1, n) /\ Items(k + 2) = SubSeq(l, k + 2, n)
  BY <1>1, <1>2 DEF Items
<1>12. Items(k + 1) \in Seq(Seq(S))
  BY <1>3, <1>10, <1>11
<1>13. CASE k = n
  <2>1. p = l
    BY <1>2, <1>9, <1>13
  <2>2. t = Len(Flat(l))
    BY <1>4, <1>10, <2>1
  <2>3. SubSeq(Flat(l), t + 1, Len(Flat(l))) = <<>>
    BY <1>4, <2>2, EndOfSeq
  <2>4. AfterWrite(t) = <<>>
    BY <1>1, <1>2, <1>7, <1>13 DEF AfterWrite
  <2>5. Flat(<<>>) = <<>> /\ <<>> \in Seq(Seq(S))
    BY DEF Flat, FlattenSeq
  <2> QED
    BY <1>1, <1>7, <1>12, <2>3, <2>4, <2>5
<1>14. CASE k # n
  <2>1. k + 1 \in 0..n /\ k + 1 \in 1..n /\ k \in Nat
    BY <1>10, <1>14
  <2>2. PICK a \in Seq(S) : a = l[k + 1]
    BY <1>2, <2>1
  <2>3. PICK r : r = SubSeq(l, (k + 1) + 1, n)
    OBVIOUS
  <2>4. PICK q : q = SubSeq(l, 1, k + 1)
    OBVIOUS
  <2>5. r \in Seq(Seq(S)) /\ q \in Seq(Seq(S)) /\ q \o r = l
    BY <1>3, <2>1, <2>3, <2>4
  <2>6. q = p \o <<a>> /\ <<a>> \in Seq(Seq(S))
    <3>1. <<a>> \in Seq(Seq(S)) /\ Len(<<a>>) = 1 /\ <<a>>[1] = a
      OBVIOUS
    <3>2. Len(q) = k + 1 /\ \A i \in 1..(k + 1) : q[i] = l[i]
      BY <1>2, <2>1, <2>4
    <3>3. Len(p) = k /\ \A i \in 1..k : p[i] = l[i]
      BY <1>2, <1>9, <1>10
    <3>4. PICK c : c = p \o <<a>>
      OBVIOUS
    <3>5. c \in Seq(Seq(S)) /\ Len(c) = k + 1
      BY <1>10, <3>1, <3>3, <3>4, ConcatCells
    <3>6. (\A i \in 1..k : c[i] = p[i]) /\ c[k + 1] = a
      <4>1. PICK e \in Seq(Seq(S)) : e = <<a>> /\ Len(e) = 1 /\ e[1] = a
        BY <3>1
      <4>2. \A i \in 1..Len(p) : c[i] = p[i]
        BY <1>10, <3>4, <4>1, ConcatCells
      <4>3. \A i \in 1..Len(e) : c[Len(p) + i] = e[i]
        BY <1>10, <3>4, <4>1, ConcatCells
      <4>4. 1 \in 1..Len(e)
        BY <4>1
      <4>5. c[Len(p) + 1] = e[1]
        BY <4>3, <4>4
      <4> QED
        BY <3>3, <4>1, <4>2, <4>5
    <3>7. ASSUME NEW i \in 1..(k + 1) PROVE c[i] = q[i]
      <4>1. CASE i = k + 1
        BY <2>2, <3>2, <3>6, <4>1
      <4>2. CASE i # k + 1
        <5>1. i \in 1..k
          BY <2>1, <4>2
        <5> QED
          BY <3>2, <3>3, <3>6, <5>1
      <4> QED
        BY <4>1, <4>2
    <3>8. c = q
      BY <2>5, <3>2, <3>5, <3>7, SeqEqual
    <3> QED
      BY <3>1, <3>4, <3>8
  <2>7. PICK x \in Seq(S) : x = Flat(p)
    BY <1>10
  <2>8. PICK z \in Seq(S) : z = Flat(r)
    BY <2>5, FlatConcat
  <2>9. Flat(q) = x \o a
    <3>1. Flat(q) = Flat(p) \o Flat(<<a>>)
      BY <1>10, <2>6, FlatConcat
    <3>2. Flat(<<a>>) = a
      BY FlatOne
    <3> QED
      BY <2>7, <3>1, <3>2
  <2>10. PICK y \in Seq(S) : y = a \o z
    BY JoinsType
  <2>11. Flat(l) = x \o y
    <3>1. Flat(l) = Flat(q) \o Flat(r)
      BY <2>5, FlatConcat
    <3>2. Join(Join(x, a), z) = Join(x, Join(a, z))
      BY JoinThree
    <3> QED
      BY <2>8, <2>9, <2>10, <3>1, <3>2, Zenon DEF Join
  <2>12. PICK o : o = t - Len(x)
    OBVIOUS
  <2>13. o \in 0..Len(a) /\ t = Len(x) + o
    <3>1. k + 1 \notin K
      BY <1>8, <2>1
    <3>2. ~(Len(Flat(q)) <= t)
      BY <1>5, <2>1, <2>4, <3>1
    <3>3. Len(x \o a) = Len(x) + Len(a)
      BY ConcatCells
    <3>4. Len(x) <= t /\ Len(x) \in Nat /\ Len(a) \in Nat /\ t \in Nat
      BY <1>4, <1>10, <2>7
    <3> QED
      BY <2>9, <2>12, <3>2, <3>3, <3>4
  <2>14. Len(y) = Len(a) + Len(z) /\ o \in 0..Len(y)
    <3>1. Len(y) = Len(a) + Len(z)
      BY <2>10, ConcatCells
    <3> QED
      BY <2>13, <3>1
  <2>15. SubSeq(Flat(l), t + 1, Len(Flat(l))) = SubSeq(y, o + 1, Len(y))
    <3>1. SubSeq(x \o y, (Len(x) + o) + 1, Len(x \o y)) = SubSeq(y, o + 1, Len(y))
      BY <2>14, DropPast
    <3> QED
      BY <2>11, <2>13, <3>1, Zenon
  <2>16. SubSeq(a, o + 1, Len(a)) \o z = SubSeq(y, o + 1, Len(y))
    BY <2>10, <2>13, DropOfConcat
  <2>17. PICK b : b = SubSeq(a, o + 1, Len(a))
    OBVIOUS
  <2>18. b \in Seq(S)
    BY <2>13, <2>17, EndOfSeq
  <2>19. AfterWrite(t) = <<b>> \o r
    <3>1. Items(k + 2) = r
      BY <1>11, <2>1, <2>3
    <3>2. AfterWrite(t) = <<SubSeq(l[k + 1], (t - Len(Flat(p))) + 1, Len(l[k + 1]))>> \o Items(k + 2)
      BY <1>1, <1>2, <1>7, <1>9, <1>14 DEF AfterWrite
    <3> QED
      BY <2>2, <2>7, <2>12, <2>17, <3>1, <3>2
  <2>20. <<b>> \in Seq(Seq(S)) /\ <<b>> \o r \in Seq(Seq(S))
    <3>1. <<b>> \in Seq(Seq(S))
      BY <2>18
    <3> QED
      BY <2>5, <3>1, JoinsType
  <2>21. Flat(<<b>> \o r) = b \o z
    <3>1. Flat(<<b>> \o r) = Flat(<<b>>) \o Flat(r)
      BY <2>5, <2>20, FlatConcat
    <3>2. Flat(<<b>>) = b
      BY <2>18, FlatOne
    <3> QED
      BY <2>8, <3>1, <3>2
  <2> QED
    BY <1>1, <1>7, <1>12, <2>15, <2>16, <2>17, <2>19, <2>20, <2>21
<1> QED
  BY <1>13, <1>14

-----------------------------------------------------------------------------
\* The sending side: what was accepted is what was delivered and what is still
\* on the list, while the connection is open and the client there.
SendTypes ==
    /\ accepted \in Seq(Cells) /\ delivered \in Seq(Cells) /\ send_list \in Seq(Seq(Cells))
    /\ peer_up \in BOOLEAN

SendInv ==
    /\ SendTypes
    /\ open = TRUE /\ peer_up = TRUE => accepted = delivered \o Flat(send_list)

chanVars == <<accepted, delivered, open>>

\* A sequence is a prefix of itself and of what is joined to it.
LEMMA PrefixOfJoin ==
    ASSUME NEW S, NEW a \in Seq(S), NEW b \in Seq(S)
    PROVE  IsPrefix(a, a) /\ IsPrefix(a, a \o b)
<1>1. IsPrefix(a, a)
  BY DEF IsPrefix
<1>2. PICK c : c = a \o b
  OBVIOUS
<1>3. c \in Seq(S) /\ Len(c) = Len(a) + Len(b) /\ Len(a) <= Len(c)
  BY <1>2, ConcatCells
<1>4. \A i \in 1..Len(a) : c[i] = a[i]
  BY <1>2, ConcatCells
<1>5. SubSeq(a, 1, Len(a)) = a
  OBVIOUS
<1>6. SubSeq(c, 1, Len(a)) = a
  <2>1. PICK e : e = SubSeq(c, 1, Len(a))
    OBVIOUS
  <2>2. e \in Seq(S) /\ Len(e) = Len(a) /\ \A i \in 1..Len(a) : e[i] = c[i]
    BY <1>3, <2>1
  <2>3. e = a
    BY <1>4, <2>2, SeqEqual
  <2> QED
    BY <2>1, <2>3
<1>7. IsPrefix(a, c)
  BY <1>3, <1>5, <1>6 DEF IsPrefix
<1> QED
  BY <1>1, <1>2, <1>7

\* An encoded message is made of cells.
LEMMA EncodeType == ASSUME NEW m \in Msgs PROVE EncodeMsg(m) \in Seq(Cells)
<1>1. MsgCells \in Nat
  BY CodecAssumption DEF MsgCells
<1> QED
  BY <1>1 DEF EncodeMsg, Cells

\* SendToClient adds a message at the end, or refuses it.
LEMMA SendStep ==
    ASSUME SendInv, open = TRUE, NEW m \in Msgs, SendToClient(m), peer_up' = peer_up
    PROVE  SendInv' /\ (Channel!Accept \/ UNCHANGED chanVars)
<1>1. PICK ok \in BOOLEAN :
        /\ IF conn_type = "normal" THEN NormalSend(m, ok) ELSE BufferSend(m, ok)
        /\ accepted' = IF ok THEN accepted \o EncodeMsg(m) ELSE accepted
  BY DEF SendToClient
<1>2. UNCHANGED <<open, delivered>>
  BY DEF SendToClient
<1>3. CASE ok = FALSE
  <2>1. UNCHANGED <<send_list, accepted>>
    BY <1>1, <1>3 DEF NormalSend, BufferSend
  <2> QED
    BY <1>2, <2>1 DEF SendInv, SendTypes, chanVars
<1>4. CASE ok = TRUE
  <2>1. PICK e \in Seq(Cells) : e = EncodeMsg(m)
    BY EncodeType
  <2>2. send_list' = Append(send_list, e) /\ accepted' = accepted \o e
    BY <1>1, <1>4, <2>1 DEF NormalSend, BufferSend
  <2>3. PICK l \in Seq(Seq(Cells)) : l = send_list
    BY DEF SendInv, SendTypes
  <2>4. PICK a \in Seq(Cells) : a = accepted
    BY DEF SendInv, SendTypes
  <2>5. PICK d \in Seq(Cells) : d = delivered
    BY DEF SendInv, SendTypes
  <2>6. <<e>> \in Seq(Seq(Cells)) /\ send_list' = l \o <<e>>
    BY <2>2, <2>3
  <2>7. Flat(l) \in Seq(Cells) /\ Flat(l \o <<e>>) = Flat(l) \o e
    <3>1. Flat(l) \in Seq(Cells) /\ Flat(l \o <<e>>) = Flat(l) \o Flat(<<e>>)
      BY <2>6, FlatConcat
    <3>2. Flat(<<e>>) = e
      BY FlatOne
    <3> QED
      BY <3>1, <3>2
  <2>8. SendTypes'
    <3>1. a \o e \in Seq(Cells) /\ l \o <<e>> \in Seq(Seq(Cells))
      BY <2>6, JoinsType
    <3> QED
      BY <1>2, <2>2, <2>4, <2>6, <3>1 DEF SendInv, SendTypes
  <2>9. ASSUME peer_up = TRUE PROVE accepted' = delivered' \o Flat(send_list')
    <3>1. PICK f \in Seq(Cells) : f = Flat(l)
      BY <2>7
    <3>2. a = d \o f
      BY <2>3, <2>4, <2>5, <2>9, <3>1 DEF SendInv
    <3>3. Join(Join(d, f), e) = Join(d, Join(f, e))
      BY JoinThree
    <3>4. a \o e = d \o (f \o e)
      BY <3>2, <3>3, Zenon DEF Join
    <3> QED
      BY <1>2, <2>2, <2>4, <2>5, <2>6, <2>7, <3>1, <3>4, Zenon
  <2>10. IsPrefix(accepted, accepted')
    BY <2>2, <2>4, PrefixOfJoin
  <2>11. Channel!Accept
    BY <1>2, <2>10 DEF Channel!Accept, Channel!IsPrefix, IsPrefix
  <2> QED
    BY <2>8, <2>9, <2>11 DEF SendInv
<1> QED
  BY <1>3, <1>4

\* The end of the connection, which may have accepted an error message before.
LEMMA EndStep ==
    ASSUME SendInv, open = TRUE, DestroyConn, peer_up' = peer_up,
           \/ accepted' = accepted
           \/ \E m \in Msgs : accepted' = accepted \o EncodeMsg(m)
    PROVE  SendInv' /\ Channel!Close
<1>1. open' = FALSE /\ send_list' = <<>> /\ delivered' = delivered
  BY DEF DestroyConn, NormalFinalize, BufferFinalize
<1>2. PICK a \in Seq(Cells) : a = accepted
  BY DEF SendInv, SendTypes
<1>3. PICK e \in Seq(Cells) : accepted' = a \/ accepted' = a \o e
  <2>1. CASE accepted' = accepted
    <3>1. <<>> \in Seq(Cells)
      OBVIOUS
    <3> QED
      BY <1>2, <2>1, <3>1
  <2>2. CASE \E m \in Msgs : accepted' = accepted \o EncodeMsg(m)
    BY <1>2, <2>2, EncodeType
  <2> QED
    BY <2>1, <2>2
<1>4. accepted' \in Seq(Cells) /\ IsPrefix(accepted, accepted')
  <2>1. a \o e \in Seq(Cells)
    BY JoinsType
  <2>2. IsPrefix(a, a) /\ IsPrefix(a, a \o e)
    BY PrefixOfJoin
  <2> QED
    BY <1>2, <1>3, <2>1, <2>2
<1>5. SendInv'
  <2>1. <<>> \in Seq(Seq(Cells))
    OBVIOUS
  <2> QED
    BY <1>1, <1>4, <2>1 DEF SendInv, SendTypes
<1>6. Channel!Close
  BY <1>1, <1>4 DEF Channel!Close, Channel!IsPrefix, IsPrefix
<1> QED
  BY <1>5, <1>6

\* The socket takes the first t cells of the list; what is left stays on it,
\* unless the client is gone.
LEMMA TakenStep ==
    ASSUME SendInv, open = TRUE, peer_up = TRUE, open' = open, accepted' = accepted,
           NEW t \in 0..Len(Flat(send_list)),
           delivered' = delivered \o SubSeq(Flat(send_list), 1, t),
           send_list' \in Seq(Seq(Cells)), peer_up' \in BOOLEAN,
           peer_up' = TRUE =>
               Flat(send_list') = SubSeq(Flat(send_list), t + 1, Len(Flat(send_list)))
    PROVE  SendInv' /\ Channel!Deliver
<1>1. PICK d \in Seq(Cells) : d = delivered
  BY DEF SendInv, SendTypes
<1>2. PICK f \in Seq(Cells) : f = Flat(send_list) /\ accepted = d \o f
  BY <1>1, FlatConcat DEF SendInv, SendTypes
<1>3. PICK x : x = SubSeq(f, 1, t)
  OBVIOUS
<1>4. PICK y : y = SubSeq(f, t + 1, Len(f))
  OBVIOUS
<1>5. x \in Seq(Cells) /\ y \in Seq(Cells) /\ x \o y = f
  <2>1. t \in 0..Len(f)
    BY <1>2
  <2> QED
    BY <1>3, <1>4, <2>1, SplitAt
<1>6. PICK e \in Seq(Cells) : e = d \o x
  BY <1>5, JoinsType
<1>7. d \o f = e \o y
  <2>1. Join(Join(d, x), y) = Join(d, Join(x, y))
    BY <1>5, JoinThree
  <2> QED
    BY <1>5, <1>6, <2>1, Zenon DEF Join
<1>8. delivered' = e
  BY <1>1, <1>2, <1>3, <1>6
<1>9. SendInv'
  <2>1. SendTypes'
    BY <1>8 DEF SendInv, SendTypes
  <2>2. ASSUME peer_up' = TRUE PROVE accepted' = delivered' \o Flat(send_list')
    <3>1. Flat(send_list') = y
      BY <1>2, <1>4, <2>2
    <3> QED
      BY <1>2, <1>7, <1>8, <3>1
  <2> QED
    BY <2>1, <2>2 DEF SendInv
<1>10. IsPrefix(delivered, delivered')
  <2>1. IsPrefix(d, d \o x)
    BY <1>5, PrefixOfJoin
  <2> QED
    BY <1>1, <1>6, <1>8, <2>1
<1>11. IsPrefix(delivered', accepted)
  <2>1. IsPrefix(e, e \o y)
    BY <1>5, PrefixOfJoin
  <2> QED
    BY <1>2, <1>7, <1>8, <2>1
<1>12. Channel!Deliver
  BY <1>10, <1>11 DEF Channel!Deliver, Channel!IsPrefix, IsPrefix
<1> QED
  BY <1>9, <1>12

\* WriteCallback of a NormalConn and the writing of a bufferevent.
LEMMA WriteStep ==
    ASSUME SendInv, open \in BOOLEAN, Writes
    PROVE  SendInv' /\ Channel!Deliver
<1>1. PICK t \in 0..Len(Flat(send_list)) : WriteCallback(t) \/ BufferWrite(t)
  BY DEF Writes
<1>2. open = TRUE /\ peer_up = TRUE /\ open' = open /\ accepted' = accepted
      /\ delivered' = delivered \o SubSeq(Flat(send_list), 1, t)
  <2>1. open = TRUE /\ peer_up = TRUE
    BY <1>1 DEF WriteCallback, BufferWrite, SendInv, SendTypes
  <2>2. open' = open /\ accepted' = accepted
    BY <1>1 DEF WriteCallback, BufferWrite
  <2>3. delivered' = delivered \o SubSeq(Flat(send_list), 1, t)
    BY <1>1 DEF WriteCallback, BufferWrite
  <2> QED
    BY <2>1, <2>2, <2>3
<1>3. send_list \in Seq(Seq(Cells))
  BY DEF SendInv, SendTypes
<1>4. PICK c : c = SubSeq(Flat(send_list), t + 1, Len(Flat(send_list)))
  OBVIOUS
<1>5. AfterWrite(t) \in Seq(Seq(Cells)) /\ Items(ItemsSent(t) + 1) \in Seq(Seq(Cells))
      /\ Flat(AfterWrite(t)) = c
  BY <1>3, <1>4, CutList
<1>6. send_list' \in Seq(Seq(Cells)) /\ peer_up' \in BOOLEAN
      /\ (peer_up' = TRUE => Flat(send_list') = c)
  <2>1. CASE send_list' = AfterWrite(t) /\ peer_up' = peer_up
    BY <1>2, <1>5, <2>1
  <2>2. CASE peer_up' = FALSE /\ send_list' = Items(ItemsSent(t) + 1)
    BY <1>5, <2>2
  <2>3. CASE BufferWrite(t)
    <3>1. send_list' = <<c>> /\ peer_up' = peer_up
      BY <1>4, <2>3 DEF BufferWrite
    <3>2. Flat(send_list) \in Seq(Cells)
      BY <1>3, FlatConcat
    <3>3. c \in Seq(Cells)
      BY <1>4, <3>2, SplitAt
    <3>4. <<c>> \in Seq(Seq(Cells)) /\ Flat(<<c>>) = c
      BY <3>3, FlatOne
    <3> QED
      BY <1>2, <3>1, <3>4
  <2> QED
    BY <1>1, <2>1, <2>2, <2>3 DEF WriteCallback
<1> QED
  BY <1>2, <1>4, <1>6, TakenStep

\* Every step keeps the invariant and is one of ByteChannel's, or changes
\* nothing of it.
LEMMA ChannelStep ==
    ASSUME StreamInv, SendInv, [Next]_vars
    PROVE  SendInv' /\ [Channel!Next]_chanVars
<1>1. open \in BOOLEAN /\ parsing \in BOOLEAN /\ peer_up \in BOOLEAN
  BY DEF StreamInv, StreamTypes, SendInv, SendTypes
<1>2. ASSUME UNCHANGED <<accepted, delivered, open, send_list>>, peer_up' \in BOOLEAN,
             peer_up' = TRUE => peer_up = TRUE
      PROVE  SendInv' /\ UNCHANGED chanVars
  BY <1>2 DEF SendInv, SendTypes, chanVars
<1>3. CASE Reads
  BY <1>1, <1>2, <1>3 DEF Reads, ReadCallback, outVars
<1>4. CASE OnRecvClientData
  <2>1. parsing = TRUE /\ peer_up' = peer_up
    BY <1>1, <1>4 DEF OnRecvClientData
  <2>2. open = TRUE /\ data # <<>>
    BY <2>1 DEF StreamInv, LoopHasData
  <2>3. PICK m \in Msgs : m = data[1].msg
    BY <2>2, FirstMsg
  <2>4. PICK said : \/ said = "invalid" /\ InvalidMsg
                    \/ said = "part" /\ PartMsg
                    \/ said = "whole" /\ IF DecodeMsg(data, SumOK) THEN WholeMsg ELSE UndecodableMsg
    BY <1>4 DEF OnRecvClientData
  <2>5. CASE InvalidMsg
    <3>1. DestroyConn /\ (accepted' = accepted \/ accepted' = accepted \o EncodeMsg(m))
      BY <2>3, <2>5 DEF InvalidMsg
    <3> QED
      BY <2>1, <2>2, <3>1, EndStep DEF Channel!Next
  <2>6. CASE PartMsg
    BY <1>1, <1>2, <2>1, <2>6 DEF PartMsg, outVars
  <2>7. CASE UndecodableMsg
    <3>1. SendToClient(m)
      BY <2>3, <2>7 DEF UndecodableMsg
    <3> QED
      BY <2>1, <2>2, <3>1, SendStep DEF Channel!Next
  <2>8. CASE WholeMsg
    <3>1. OnClientMsg(m)
      BY <2>3, <2>8 DEF WholeMsg
    <3>2. CASE SendToClient(m)
      BY <2>1, <2>2, <3>2, SendStep DEF Channel!Next
    <3>3. CASE DestroyConn /\ accepted' = accepted
      BY <2>1, <2>2, <3>3, EndStep DEF Channel!Next
    <3>4. CASE UNCHANGED <<open, outVars>>
      BY <1>1, <1>2, <2>1, <3>4 DEF outVars
    <3> QED
      BY <3>1, <3>2, <3>3, <3>4 DEF OnClientMsg
  <2> QED
    BY <2>4, <2>5, <2>6, <2>7, <2>8
<1>5. CASE PartMsgTimeout \/ CloseEvent
  <2>1. open = TRUE /\ DestroyConn /\ peer_up' = peer_up /\ accepted' = accepted
    BY <1>1, <1>5 DEF PartMsgTimeout, CloseEvent
  <2> QED
    BY <2>1, EndStep DEF Channel!Next
<1>6. CASE Writes
  BY <1>1, <1>6, WriteStep DEF Channel!Next
<1>7. CASE PeerCloses \/ Stop \/ UNCHANGED vars
  BY <1>1, <1>2, <1>7 DEF PeerCloses, Stop, vars, outVars
<1>8. CASE \E m \in Msgs : WorkAnswers(m)
  <2>1. PICK m \in Msgs : WorkAnswers(m)
    BY <1>8
  <2>2. peer_up' = peer_up
    BY <2>1 DEF WorkAnswers
  <2>3. CASE open = TRUE
    <3>1. SendToClient(m)
      BY <2>1, <2>3 DEF WorkAnswers
    <3> QED
      BY <2>2, <2>3, <3>1, SendStep DEF Channel!Next
  <2>4. CASE open = FALSE
    BY <1>1, <1>2, <2>1, <2>2, <2>4 DEF WorkAnswers, outVars
  <2> QED
    BY <1>1, <2>3, <2>4
<1> QED
  BY <1>3, <1>4, <1>5, <1>6, <1>7, <1>8 DEF Next

\* The bytes given to Send reach the client once each and in order, whatever
\* the socket takes at a time and wherever it cuts an item of send_list_: every
\* connection implements ByteChannel (NormalConn::Send and WriteCallback,
\* BufferEventConn, Finalize of both).
THEOREM SendingImplementsChannel == Spec => SendsInOrder
<1>1. Init => SendInv /\ Channel!Init
  <2>1. <<>> \in Seq(Cells) /\ <<>> \in Seq(Seq(Cells)) /\ <<>> \o <<>> = <<>>
    OBVIOUS
  <2>2. Flat(<<>>) = <<>>
    BY DEF Flat, FlattenSeq
  <2> QED
    BY <2>1, <2>2 DEF Init, SendInv, SendTypes, Channel!Init
<1>2. StreamInv /\ SendInv /\ [Next]_vars => SendInv'
  BY ChannelStep
<1>3. StreamInv /\ SendInv /\ [Next]_vars => [Channel!Next]_<<accepted, delivered, open>>
  BY ChannelStep DEF chanVars
<1>4. Spec => []SendInv
  BY <1>1, <1>2, StreamInvariant, PTL DEF Spec
<1> QED
  BY <1>1, <1>3, <1>4, StreamInvariant, PTL DEF Spec, SendsInOrder, Channel!Spec
=============================================================================
