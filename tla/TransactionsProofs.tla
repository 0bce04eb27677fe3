------------------------- MODULE TransactionsProofs -------------------------
(***************************************************************************)
(* Proofs about RecordTimeoutMgr, for every set of keys and values, every  *)
(* timeout and every movement of the clock; and about TransCenter with its *)
(* RecordTimeoutMgr, for any peers, ids, timeouts and any behaviour of the *)
(* sinks.                                                                  *)
(***************************************************************************)
EXTENDS Transactions, WellFoundedInduction, TLAPS

-----------------------------------------------------------------------------
\* RecordTimeoutMgr.

\* What a key with a record has.
LEMMA RecordFields ==
  ASSUME RTMTypeOK, NEW k \in Keys, Exists(k)
  PROVE  /\ record[k] \in Records
         /\ record[k].v \in Values
         /\ record[k].upsert_time \in 0..MaxTime
         /\ record[k].timeout_sec \in Timeouts
<1>1. record[k] \in Records
  BY DEF RTMTypeOK, Exists, Slots
<1>2. QED
  BY <1>1 DEF Records

\* A record just made has its place in record_hash_map_.
LEMMA RecordIsSlot ==
  ASSUME NEW v \in Values, NEW at \in 0..MaxTime, NEW sec \in Timeouts
  PROVE  Record(v, at, sec) \in Records
BY DEF Record, Records

\* An expiry time is one of Times.
LEMMA ExpiryInTimes ==
  ASSUME RTMTypeOK, NEW k \in Keys, Exists(k)
  PROVE  Expiry(k) \in Times
<1>1. record[k].upsert_time \in 0..MaxTime /\ record[k].timeout_sec \in 0..MaxTime
  BY RecordFields, TimeAssumption
<1>2. QED
  BY <1>1, TimeAssumption DEF Expiry, Times

\* What UpsertRecord and RemoveRecord do to the index, their maps agreeing.
LEMMA UnindexedRemoves ==
  ASSUME RTMTypeOK, IndexMatches, NEW k \in Keys, Exists(k)
  PROVE  Unindexed(k) = [p \in Times \X Keys |-> IF p[2] = k THEN 0 ELSE index[p]]
<1>1. Expiry(k) \in Times
  BY ExpiryInTimes
<1>2. ASSUME NEW p \in Times \X Keys
      PROVE  Unindexed(k)[p] = IF p[2] = k THEN 0 ELSE index[p]
  <2>1. PICK e \in Times, u \in Keys : p = <<e, u>>
    OBVIOUS
  <2>2. index[<<e, u>>] = IF Exists(u) /\ Expiry(u) = e THEN 1 ELSE 0
    BY DEF IndexMatches
  <2>3. CASE <<e, u>> = <<Expiry(k), k>>
    BY <1>1, <2>1, <2>2, <2>3 DEF Unindexed, RTMTypeOK
  <2>4. CASE <<e, u>> # <<Expiry(k), k>>
    BY <1>1, <2>1, <2>2, <2>4 DEF Unindexed, RTMTypeOK
  <2>5. QED
    BY <2>3, <2>4
<1>3. QED
  BY <1>2 DEF Unindexed, RTMTypeOK

\* The scan looks at every due entry before it stops.
LEMMA DueIsMet ==
  ASSUME RTMTypeOK
  PROVE  Due \subseteq Met
<1> SUFFICES ASSUME NEW p \in Due, NEW q \in Times \X Keys, index[q] > 0, q[1] < p[1]
             PROVE  q \in Due
  BY DEF Due, Met
<1>1. p[1] \in Nat /\ q[1] \in Nat /\ p[1] <= now
  BY DEF Due, Times
<1>2. QED
  BY <1>1, TimeAssumption DEF Due, RTMTypeOK

\* Every call and callback of RecordTimeoutMgr keeps the types.
LEMMA RTMTypesStep == RTMTypeOK /\ [RTMNext]_rtmVars => RTMTypeOK'
<1> SUFFICES ASSUME RTMTypeOK, [RTMNext]_rtmVars
             PROVE  RTMTypeOK'
  OBVIOUS
<1> USE TimeAssumption DEF RTMTypeOK
<1>0. ASSUME NEW k \in Keys, Exists(k)
      PROVE  Unindexed(k) \in [Times \X Keys -> Nat]
  <2>1. Expiry(k) \in Times
    BY <1>0, ExpiryInTimes
  <2>2. index[<<Expiry(k), k>>] \in Nat
    BY <2>1
  <2>3. (IF index[<<Expiry(k), k>>] > 0 THEN index[<<Expiry(k), k>>] - 1
         ELSE index[<<Expiry(k), k>>]) \in Nat
    BY <2>2
  <2>4. QED
    BY <2>3 DEF Unindexed
<1>1. ASSUME NEW k \in Keys, NEW v \in Values, NEW s \in Timeouts, UpsertRecord(k, v, s)
      PROVE  RTMTypeOK'
  <2>1. now + s \in Times
    BY DEF Times
  <2>2. CASE Exists(k)
    <3>1. Record(record[k].v, now, s) \in Slots
      BY <2>2, RecordFields, RecordIsSlot DEF Slots
    <3>2. record' \in [Keys -> Slots]
      BY <1>1, <2>2, <3>1 DEF UpsertRecord
    <3>3. index' \in [Times \X Keys -> Nat]
      BY <1>0, <1>1, <2>1, <2>2 DEF UpsertRecord
    <3>4. QED
      BY <1>1, <3>2, <3>3 DEF UpsertRecord
  <2>3. CASE ~Exists(k)
    <3>1. Record(v, now, s) \in Slots
      BY RecordIsSlot DEF Slots
    <3>2. record' \in [Keys -> Slots]
      BY <1>1, <2>3, <3>1 DEF UpsertRecord
    <3>3. QED
      BY <1>1, <2>1, <2>3, <3>2 DEF UpsertRecord
  <2>4. QED
    BY <2>2, <2>3
<1>2. ASSUME NEW k \in Keys, RemoveRecord(k)
      PROVE  RTMTypeOK'
  BY <1>0, <1>2 DEF RemoveRecord, Slots
<1>3. ASSUME NEW k \in Keys, OnTimeout(k)
      PROVE  RTMTypeOK'
  BY <1>3 DEF OnTimeout, Slots
<1>4. CASE Activate \/ Freeze
  BY <1>4 DEF Activate, Freeze
<1>5. CASE Finalize
  BY <1>5 DEF Finalize, Slots
<1>6. CASE OnTimer
  <2>1. ASSUME NEW k \in DueKeys
        PROVE  Exists(k) /\ k \in Keys
    <3>1. PICK p \in Due : k = p[2]
      BY DEF DueKeys
    <3>2. p \in Met
      BY DueIsMet
    <3>3. QED
      BY <1>6, <3>1, <3>2 DEF OnTimer, Stray, Due
  <2>2. ASSUME NEW k \in DueKeys
        PROVE  Record(record[k].v, 0, record[k].timeout_sec) \in Slots
    <3>1. record[k].v \in Values /\ record[k].timeout_sec \in Timeouts
      BY <2>1, RecordFields
    <3>2. 0 \in 0..MaxTime
      OBVIOUS
    <3>3. QED
      BY <3>1, <3>2, RecordIsSlot DEF Slots
  <2>3. batch' \in [Keys -> Slots]
    BY <1>6, <2>2 DEF OnTimer, Slots
  <2>4. record' \in [Keys -> Slots]
    BY <1>6 DEF OnTimer, Slots
  <2>5. QED
    BY <1>6, <2>3, <2>4 DEF OnTimer
<1>7. ASSUME NEW n \in 0..MaxTime, SetClock(n)
      PROVE  RTMTypeOK'
  BY <1>7 DEF SetClock
<1>8. CASE UNCHANGED rtmVars
  BY <1>8 DEF rtmVars
<1>9. QED
  BY <1>1, <1>2, <1>3, <1>4, <1>5, <1>6, <1>7, <1>8 DEF RTMNext

\* Types, and with them the maps: TypeOK alone does not bound the index.
THEOREM RTMTypes == RTMSpec => []RTMTypeOK
<1>1. RTMInit => RTMTypeOK
  <2> SUFFICES ASSUME RTMInit
               PROVE  RTMTypeOK
    OBVIOUS
  <2>1. now \in 0..MaxTime
    BY TimeAssumption DEF RTMInit
  <2>2. record \in [Keys -> Slots] /\ batch \in [Keys -> Slots]
    BY DEF RTMInit, Slots
  <2>3. index \in [Times \X Keys -> Nat]
    BY DEF RTMInit
  <2>4. active \in BOOLEAN
    BY DEF RTMInit
  <2>5. QED
    BY <2>1, <2>2, <2>3, <2>4 DEF RTMTypeOK
<1>2. RTMTypeOK /\ [RTMNext]_rtmVars => RTMTypeOK'
  BY RTMTypesStep
<1>3. QED
  BY <1>1, <1>2, PTL DEF RTMSpec

\* The two maps agree in every state, whatever keys, timeouts and clock: the
\* index has exactly one entry per record, at its expiry.
THEOREM MapsMatch == RTMSpec => []IndexMatches
<1>1. RTMInit => IndexMatches
  BY DEF RTMInit, IndexMatches, Exists
<1>2. RTMTypeOK /\ RTMTypeOK' /\ IndexMatches /\ [RTMNext]_rtmVars => IndexMatches'
  <2> SUFFICES ASSUME RTMTypeOK, RTMTypeOK', IndexMatches, [RTMNext]_rtmVars,
                      NEW e \in Times, NEW u \in Keys
               PROVE  (index[<<e, u>>] = IF Exists(u) /\ Expiry(u) = e THEN 1 ELSE 0)'
    BY DEF IndexMatches
  <2>0. index[<<e, u>>] = IF Exists(u) /\ Expiry(u) = e THEN 1 ELSE 0
    BY DEF IndexMatches
  <2>1. ASSUME NEW k \in Keys, NEW v \in Values, NEW s \in Timeouts, UpsertRecord(k, v, s)
        PROVE  (index[<<e, u>>] = IF Exists(u) /\ Expiry(u) = e THEN 1 ELSE 0)'
    <3>1. CASE u = k
      <4>1. now + s \in Times
        BY TimeAssumption DEF Times, RTMTypeOK
      <4>2. PICK w \in Values : record' = [record EXCEPT ![k] = Record(w, now, s)]
        BY <2>1, RecordFields DEF UpsertRecord
      <4>3. record'[k] = Record(w, now, s)
        BY <4>2 DEF RTMTypeOK
      <4>4. Record(w, now, s) \in Records
        BY RecordIsSlot DEF RTMTypeOK
      <4>5. Exists(k)' /\ Expiry(k)' = now + s
        BY <4>3, <4>4, NoRecordAssumption DEF Exists, Expiry, Record
      <4>6. CASE Exists(k)
        <5>1. index' = [Unindexed(k) EXCEPT ![<<now + s, k>>] = @ + 1]
          BY <2>1, <4>6 DEF UpsertRecord
        <5>2. Unindexed(k) = [p \in Times \X Keys |-> IF p[2] = k THEN 0 ELSE index[p]]
          BY <4>6, UnindexedRemoves
        <5>3. index'[<<e, k>>] = IF e = now + s THEN 1 ELSE 0
          BY <5>1, <5>2, <4>1
        <5>4. QED
          BY <3>1, <4>5, <5>3
      <4>7. CASE ~Exists(k)
        <5>1. index' = [index EXCEPT ![<<now + s, k>>] = @ + 1]
          BY <2>1, <4>7 DEF UpsertRecord
        <5>2. index[<<now + s, k>>] = 0 /\ index[<<e, k>>] = 0
          BY <4>1, <4>7 DEF IndexMatches
        <5>3. index'[<<e, k>>] = IF e = now + s THEN 1 ELSE 0
          BY <5>1, <5>2, <4>1 DEF RTMTypeOK
        <5>4. QED
          BY <3>1, <4>5, <5>3
      <4>8. QED
        BY <4>6, <4>7
    <3>2. CASE u # k
      <4>1. record'[u] = record[u]
        BY <2>1, <3>2 DEF UpsertRecord, RTMTypeOK
      <4>2. index'[<<e, u>>] = index[<<e, u>>]
        <5>1. CASE Exists(k)
          <6>1. Unindexed(k)[<<e, u>>] = index[<<e, u>>]
            BY <3>2, <5>1, UnindexedRemoves
          <6>2. DOMAIN Unindexed(k) = Times \X Keys
            BY DEF Unindexed, RTMTypeOK
          <6>3. QED
            BY <2>1, <3>2, <5>1, <6>1, <6>2 DEF UpsertRecord
        <5>2. CASE ~Exists(k)
          BY <2>1, <3>2, <5>2 DEF UpsertRecord, RTMTypeOK
        <5>3. QED
          BY <5>1, <5>2
      <4>3. QED
        BY <2>0, <4>1, <4>2 DEF Exists, Expiry
    <3>3. QED
      BY <3>1, <3>2
  <2>2. ASSUME NEW k \in Keys, RemoveRecord(k)
        PROVE  (index[<<e, u>>] = IF Exists(u) /\ Expiry(u) = e THEN 1 ELSE 0)'
    <3>1. CASE ~Exists(k)
      BY <2>0, <2>2, <3>1 DEF RemoveRecord, Exists, Expiry
    <3>2. CASE Exists(k)
      <4>1. index'[<<e, u>>] = IF u = k THEN 0 ELSE index[<<e, u>>]
        BY <2>2, <3>2, UnindexedRemoves DEF RemoveRecord
      <4>2. record'[u] = IF u = k THEN NoRecord ELSE record[u]
        BY <2>2, <3>2 DEF RemoveRecord, RTMTypeOK
      <4>3. QED
        BY <2>0, <4>1, <4>2 DEF Exists, Expiry
    <3>3. QED
      BY <3>1, <3>2
  <2>3. CASE OnTimer
    <3>1. CASE <<e, u>> \in Due
      <4>1. u \in DueKeys
        BY <3>1 DEF DueKeys
      <4>2. QED
        BY <2>3, <3>1, <4>1 DEF OnTimer, Exists
    <3>2. CASE <<e, u>> \notin Due
      <4>1. index'[<<e, u>>] = index[<<e, u>>]
        BY <2>3, <3>2 DEF OnTimer
      <4>2. CASE u \in DueKeys
        <5>1. PICK p \in Due : p[2] = u
          BY <4>2 DEF DueKeys
        <5>2. PICK t \in Times : p = <<t, u>>
          BY <5>1 DEF Due
        <5>3. index[<<t, u>>] > 0 /\ index[<<t, u>>] = IF Exists(u) /\ Expiry(u) = t THEN 1 ELSE 0
          BY <5>1, <5>2 DEF Due, IndexMatches
        <5>4. Expiry(u) = t /\ t # e
          BY <5>1, <5>2, <5>3, <3>2
        <5>5. index'[<<e, u>>] = 0
          BY <2>0, <4>1, <5>4
        <5>6. record'[u] = NoRecord
          BY <2>3, <4>2 DEF OnTimer
        <5>7. QED
          BY <5>5, <5>6 DEF Exists
      <4>3. CASE u \notin DueKeys
        BY <2>0, <2>3, <4>1, <4>3 DEF OnTimer, Exists, Expiry
      <4>4. QED
        BY <4>2, <4>3
    <3>3. QED
      BY <3>1, <3>2
  <2>4. CASE Finalize
    BY <2>4 DEF Finalize, Exists
  <2>5. CASE UNCHANGED <<record, index>>
    BY <2>0, <2>5 DEF Exists, Expiry
  <2>6. QED
    BY <2>1, <2>2, <2>3, <2>4, <2>5
       DEF RTMNext, Activate, Freeze, OnTimeout, SetClock, rtmVars
<1>3. QED
  BY <1>1, <1>2, RTMTypes, PTL DEF RTMSpec

\* OnTimer's scan ends in every state: the entry at which "continue" would spin
\* cannot be there, because the maps agree.
THEOREM ScanAlwaysEnds == RTMSpec => []ScanEnds
<1>1. RTMTypeOK /\ IndexMatches => ScanEnds
  <2> SUFFICES ASSUME RTMTypeOK, IndexMatches
               PROVE  ~Stray
    BY DEF ScanEnds
  <2>1. ASSUME NEW p \in Times \X Keys, index[p] > 0
        PROVE  Exists(p[2]) /\ Expiry(p[2]) = p[1] /\ index[p] = 1
    <3>1. PICK e \in Times, u \in Keys : p = <<e, u>>
      OBVIOUS
    <3>2. index[<<e, u>>] = IF Exists(u) /\ Expiry(u) = e THEN 1 ELSE 0
      BY DEF IndexMatches
    <3>3. QED
      BY <2>1, <3>1, <3>2
  <2>2. ASSUME NEW p \in Times \X Keys, NEW q \in Times \X Keys,
               index[p] > 0, index[q] > 0, p[2] = q[2]
        PROVE  p = q
    <3>1. p[1] = q[1]
      BY <2>1, <2>2
    <3>2. QED
      BY <2>2, <3>1
  <2>3. QED
    BY <2>1, <2>2 DEF Stray, Met, Due
<1>2. QED
  BY <1>1, RTMTypes, MapsMatch, PTL

-----------------------------------------------------------------------------
\* TransCenter and its RecordTimeoutMgr.

Live(id) == trans[id] # NoTrans
Ending(id) == calling # NoCall /\ calling.op \in {"rsp", "timeout"} /\ calling.id = id

\* What the tables say of one transaction.  An id beyond the cursor was never
\* used; a live transaction was not cancelled, and its sink was told an end
\* only in the callback that runs; a record belongs to a live transaction,
\* and what is in the batch, or being told its timeout, has no record.
TransMatches(id) ==
    /\ Live(id) \/ id \in ended \cup cancelled \/ batch[id] # NoRecord => id <= cursor
    /\ Live(id) => id \notin cancelled
    /\ Live(id) /\ id \in ended => Ending(id)
    /\ record[id] # NoRecord => Live(id) /\ batch[id] = NoRecord
    /\ calling # NoCall /\ calling.id = id =>
         id <= cursor /\ (calling.op = "timeout" => record[id] = NoRecord)
    /\ id \in inuse <=> Live(id)
    /\ Live(id) /\ trans[id].timeout_sec > 0 =>
         \/ record[id] # NoRecord
         \/ batch[id] # NoRecord
         \/ calling # NoCall /\ calling.op = "timeout" /\ calling.id = id

\* peer_trans_id_map_ lists the live transactions of each peer.
PeersMatch ==
    \A p \in Peers, id \in T!Ids : id \in by_peer[p] <=> Live(id) /\ trans[id].peer = p

\* The inductive invariant behind TransSound and OneEnd.
TransInv ==
    /\ T!TransTypeOK
    /\ PeersMatch
    /\ \A id \in T!Ids : TransMatches(id)

-----------------------------------------------------------------------------
\* The calls TransCenter makes of rsp_msg_mgr_ are those of RecordTimeoutMgr.
LEMMA SameMgr ==
  /\ T!R!RTMInit <=> RTMInit
  /\ T!R!OnTimer <=> OnTimer
  /\ T!R!Finalize <=> Finalize
  /\ T!R!Activate <=> Activate
  /\ T!R!Freeze <=> Freeze
  /\ \A k, v, s : T!R!UpsertRecord(k, v, s) <=> UpsertRecord(k, v, s)
  /\ \A k : T!R!RemoveRecord(k) <=> RemoveRecord(k)
  /\ \A k : T!R!OnTimeout(k) <=> OnTimeout(k)
  /\ \A n : T!R!SetClock(n) <=> SetClock(n)
<1>1. T!Ids = Keys
  BY WiringAssumption DEF T!Ids
<1>2. T!R!RTMInit <=> RTMInit
  BY <1>1 DEF RTMInit, T!R!RTMInit, Times, T!R!Times
<1>3. T!R!OnTimer <=> OnTimer
  BY <1>1 DEF T!R!OnTimer, OnTimer, Quiet, T!R!Quiet, Stray, T!R!Stray, Met, T!R!Met, Due,
     T!R!Due, DueKeys, T!R!DueKeys, Exists, T!R!Exists, Record, T!R!Record, Times, T!R!Times
<1>4. T!R!Finalize <=> Finalize
  BY <1>1 DEF T!R!Finalize, Finalize, Quiet, T!R!Quiet, Times, T!R!Times
<1>5. \A k, v, s : T!R!UpsertRecord(k, v, s) <=> UpsertRecord(k, v, s)
  BY DEF T!R!UpsertRecord, UpsertRecord, Exists, T!R!Exists, Record, T!R!Record,
     Unindexed, T!R!Unindexed, Expiry, T!R!Expiry
<1>6. \A k : T!R!RemoveRecord(k) <=> RemoveRecord(k)
  BY DEF T!R!RemoveRecord, RemoveRecord, Exists, T!R!Exists,
     Unindexed, T!R!Unindexed, Expiry, T!R!Expiry
<1>7. \A k : T!R!OnTimeout(k) <=> OnTimeout(k)
  BY DEF T!R!OnTimeout, OnTimeout
<1>8. /\ T!R!Activate <=> Activate
      /\ T!R!Freeze <=> Freeze
      /\ \A n : T!R!SetClock(n) <=> SetClock(n)
  BY DEF T!R!Activate, Activate, T!R!Freeze, Freeze, T!R!SetClock, SetClock
<1>9. QED
  BY <1>2, <1>3, <1>4, <1>5, <1>6, <1>7, <1>8

-----------------------------------------------------------------------------
\* Every step of TransCenter is, for its RecordTimeoutMgr, one of that
\* component's steps or none.
LEMMA MgrStep ==
  ASSUME TransInv, RTMTypeOK, [T!TransNext]_T!transVars
  PROVE  [RTMNext]_rtmVars
<1>0. T!Ids = Keys /\ T!Ids = Values /\ TransTimeouts = Timeouts
  BY WiringAssumption DEF T!Ids
<1>1. ASSUME NEW id \in T!Ids, NEW p \in Peers, NEW t \in TransTimeouts \cup {-1},
             T!RecordTransCtx(id, p, t)
      PROVE  [RTMNext]_rtmVars
  <2>1. CASE t > 0
    <3>1. UpsertRecord(id, id, t) /\ t \in Timeouts
      BY <1>0, <1>1, <2>1, SameMgr DEF T!RecordTransCtx
    <3>2. QED
      BY <1>0, <3>1 DEF RTMNext
  <2>2. CASE ~(t > 0)
    BY <1>1, <2>2 DEF T!RecordTransCtx, T!rtmVars, rtmVars
  <2>3. QED
    BY <2>1, <2>2
<1>2. ASSUME NEW id \in T!Ids, T!Drop(id)
      PROVE  [RTMNext]_rtmVars
  <2>1. CASE T!GetTransCtx(id)
    <3>1. RemoveRecord(id)
      BY <1>2, <2>1, SameMgr DEF T!Drop
    <3>2. QED
      BY <1>0, <3>1 DEF RTMNext
  <2>2. CASE ~T!GetTransCtx(id)
    BY <1>2, <2>2 DEF T!Drop, T!rtmVars, rtmVars
  <2>3. QED
    BY <2>1, <2>2
<1>3. ASSUME NEW id \in T!Ids, T!OnTimeout(id)
      PROVE  [RTMNext]_rtmVars
  <2>1. OnTimeout(id)
    BY <1>3, SameMgr DEF T!OnTimeout
  <2>2. QED
    BY <1>0, <2>1 DEF RTMNext
<1>4. CASE T!OnTimer
  <2>1. OnTimer
    BY <1>4, SameMgr DEF T!OnTimer
  <2>2. QED
    BY <2>1 DEF RTMNext
<1>5. CASE T!Tick
  <2>1. SetClock(now + 1) /\ now + 1 \in 0..MaxTime
    BY <1>5, SameMgr, TimeAssumption DEF T!Tick, RTMTypeOK
  <2>2. QED
    BY <2>1 DEF RTMNext
<1>6. CASE T!Activate \/ T!Freeze \/ T!Release
  <2>1. Activate \/ Freeze \/ Finalize
    BY <1>6, SameMgr DEF T!Activate, T!Freeze, T!Release
  <2>2. QED
    BY <2>1 DEF RTMNext
<1>7. CASE UNCHANGED T!rtmVars
  BY <1>7 DEF T!rtmVars, rtmVars
<1>8. CASE UNCHANGED T!transVars
  BY <1>7, <1>8 DEF T!transVars
<1>9. CASE T!RspReturned
  <2>1. calling.id \in T!Ids
    BY <1>9 DEF T!RspReturned, TransInv, T!TransTypeOK
  <2>2. QED
    BY <1>2, <1>9, <2>1 DEF T!RspReturned
<1>10. ASSUME NEW id \in T!Ids, T!CancelTrans(id)
       PROVE  [RTMNext]_rtmVars
  BY <1>2, <1>10 DEF T!CancelTrans
<1>11. ASSUME NEW id \in T!Ids, T!RecordWithoutSink(id) \/ T!OnRecvRsp(id)
       PROVE  [RTMNext]_rtmVars
  BY <1>7, <1>11 DEF T!RecordWithoutSink, T!OnRecvRsp
<1>12. ASSUME NEW op, NEW p, T!OnPeer(op, p)
       PROVE  [RTMNext]_rtmVars
  BY <1>7, <1>12 DEF T!OnPeer
<1>13. CASE T!TimeoutReturned \/ T!PeerReturned
  BY <1>7, <1>13 DEF T!TimeoutReturned, T!PeerReturned
<1>14. QED
  BY <1>1, <1>3, <1>4, <1>5, <1>6, <1>8, <1>9, <1>10, <1>11, <1>12, <1>13
     DEF T!TransNext, T!Returned

-----------------------------------------------------------------------------
\* The fields of a live transaction and of the running callback.
LEMMA TransFields ==
  ASSUME TransInv, NEW id \in T!Ids, Live(id)
  PROVE  /\ trans[id] \in T!Trans
         /\ trans[id].peer \in Peers
         /\ trans[id].timeout_sec \in Int
<1>1. trans[id] \in T!Trans
  BY DEF TransInv, T!TransTypeOK, Live
<1>2. trans[id].peer \in Peers /\ trans[id].timeout_sec \in TransTimeouts \cup {-1}
  BY <1>1 DEF T!Trans
<1>3. TransTimeouts \cup {-1} \subseteq Int
  BY TransAssumption, TimeAssumption
<1>4. QED
  BY <1>1, <1>2, <1>3, Zenon

\* What a running call of a sink holds.
LEMMA CallFields ==
  ASSUME TransInv, calling # NoCall
  PROVE  calling.id \in T!Ids /\ calling.peer \in Peers
BY DEF TransInv, T!TransTypeOK

\* RemoveTrans takes the transaction out of all three tables, or finds it gone.
LEMMA RemoveTransEffect ==
  ASSUME TransInv, NEW id \in T!Ids, T!RemoveTrans(id)
  PROVE  /\ trans' = [trans EXCEPT ![id] = NoTrans]
         /\ inuse' = inuse \ {id}
         /\ cursor' = cursor
         /\ by_peer' \in [Peers -> SUBSET T!Ids]
         /\ \A p \in Peers : by_peer'[p] = by_peer[p] \ {id}
<1>0. /\ trans \in [T!Ids -> T!Trans \cup {NoTrans}]
      /\ by_peer \in [Peers -> SUBSET T!Ids]
  BY DEF TransInv, T!TransTypeOK
<1>1. id \in inuse <=> Live(id)
  BY DEF TransInv, TransMatches
<1>2. \A p \in Peers : id \in by_peer[p] => Live(id) /\ trans[id].peer = p
  BY DEF TransInv, PeersMatch
<1>3. CASE Live(id)
  <2>1. /\ by_peer' = [by_peer EXCEPT ![trans[id].peer] = @ \ {id}]
        /\ T!S!Free(id)
        /\ trans' = [trans EXCEPT ![id] = NoTrans]
    BY <1>3 DEF T!RemoveTrans, T!GetTransCtx, Live
  <2>2. trans[id].peer \in Peers
    BY <1>3, TransFields
  <2>3. \A p \in Peers : by_peer'[p] = by_peer[p] \ {id}
    BY <1>0, <1>2, <2>1, <2>2
  <2>4. QED
    BY <1>0, <2>1, <2>2, <2>3 DEF T!S!Free
<1>4. CASE ~Live(id)
  <2>1. UNCHANGED <<trans, by_peer, cursor, inuse>>
    BY <1>4 DEF T!RemoveTrans, T!GetTransCtx, Live, T!tableVars, T!idVars
  <2>2. trans = [trans EXCEPT ![id] = NoTrans]
    BY <1>0, <1>4 DEF Live
  <2>3. \A p \in Peers : by_peer[p] = by_peer[p] \ {id}
    BY <1>2, <1>4
  <2>4. QED
    BY <1>0, <1>1, <1>4, <2>1, <2>2, <2>3
<1>5. QED
  BY <1>3, <1>4

\* CancelTrans takes its timeout record too.
LEMMA DropEffect ==
  ASSUME TransInv, RTMTypeOK, NEW id \in T!Ids, T!Drop(id)
  PROVE  /\ T!RemoveTrans(id)
         /\ record' = [record EXCEPT ![id] = NoRecord]
         /\ batch' = batch
<1>0. record \in [T!Ids -> Slots]
  BY WiringAssumption DEF RTMTypeOK, T!Ids
<1>1. CASE T!GetTransCtx(id)
  <2>1. RemoveRecord(id)
    BY <1>1, SameMgr DEF T!Drop
  <2>2. QED
    BY <1>0, <2>1 DEF RemoveRecord, Exists, T!Drop
<1>2. CASE ~T!GetTransCtx(id)
  <2>1. record[id] = NoRecord
    BY <1>2 DEF TransInv, TransMatches, Live, T!GetTransCtx
  <2>2. UNCHANGED <<record, batch>>
    BY <1>2 DEF T!Drop, T!rtmVars
  <2>3. QED
    BY <1>0, <2>1, <2>2 DEF T!Drop
<1>3. QED
  BY <1>1, <1>2

\* RecordTransCtx uses an id that no table knows.
LEMMA RecordKeepsInv ==
  ASSUME TransInv, RTMTypeOK, NEW id \in T!Ids, NEW p \in Peers,
         NEW t \in TransTimeouts \cup {-1}, T!RecordTransCtx(id, p, t)
  PROVE  TransInv'
<1> DEFINE new == [peer |-> p, timeout_sec |-> t]
<1>0. /\ trans \in [T!Ids -> T!Trans \cup {NoTrans}]
      /\ by_peer \in [Peers -> SUBSET T!Ids]
      /\ record \in [T!Ids -> Slots]
      /\ cursor \in (SeqMin - 1)..SeqMax
      /\ inuse \subseteq T!Ids
  BY WiringAssumption DEF TransInv, T!TransTypeOK, RTMTypeOK, T!Ids
<1>1. /\ id > cursor /\ cursor' = id /\ inuse' = inuse \cup {id}
      /\ trans' = [trans EXCEPT ![id] = new]
      /\ by_peer' = [by_peer EXCEPT ![p] = @ \cup {id}]
      /\ UNCHANGED <<calling, ended, cancelled, broken>>
  BY DEF T!RecordTransCtx, T!Fresh, T!S!Alloc
<1>2. new \in T!Trans /\ new # NoTrans /\ new.peer = p /\ new.timeout_sec = t
  BY TransAssumption DEF T!Trans
<1> HIDE DEF new
<1>3. /\ ~Live(id) /\ id \notin ended \cup cancelled /\ batch[id] = NoRecord
      /\ record[id] = NoRecord /\ id \notin inuse
      /\ calling # NoCall => calling.id # id
  <2>1. TransMatches(id) /\ id \in Int /\ cursor \in Int /\ ~(id <= cursor)
    BY <1>0, <1>1, TransAssumption DEF TransInv, T!Ids
  <2>2. QED
    BY <2>1 DEF TransMatches
<1>4. batch' = batch /\ record' = [record EXCEPT ![id] = IF t > 0 THEN Record(id, now, t) ELSE NoRecord]
  <2>1. CASE t > 0
    <3>1. UpsertRecord(id, id, t)
      BY <2>1, SameMgr DEF T!RecordTransCtx
    <3>2. QED
      BY <1>3, <2>1, <3>1 DEF UpsertRecord, Exists
  <2>2. CASE ~(t > 0)
    <3>1. UNCHANGED <<record, batch>>
      BY <2>2 DEF T!RecordTransCtx, T!rtmVars
    <3>2. QED
      BY <1>0, <1>3, <2>2, <3>1
  <2>3. QED
    BY <2>1, <2>2
<1>5. T!TransTypeOK'
  <2>1. trans' \in [T!Ids -> T!Trans \cup {NoTrans}]
    BY <1>0, <1>1, <1>2
  <2>2. by_peer' \in [Peers -> SUBSET T!Ids]
    BY <1>0, <1>1
  <2>3. cursor' \in (SeqMin - 1)..SeqMax /\ inuse' \subseteq T!Ids
    BY <1>0, <1>1, TransAssumption DEF T!Ids
  <2>4. QED
    BY <1>1, <2>1, <2>2, <2>3 DEF TransInv, T!TransTypeOK
<1>6. PeersMatch'
  <2> SUFFICES ASSUME NEW q \in Peers, NEW j \in T!Ids
               PROVE  j \in by_peer'[q] <=> trans'[j] # NoTrans /\ trans'[j].peer = q
    BY DEF PeersMatch, Live
  <2>1. j \in by_peer[q] <=> trans[j] # NoTrans /\ trans[j].peer = q
    BY DEF TransInv, PeersMatch, Live
  <2>2. CASE j = id
    BY <1>0, <1>1, <1>2, <1>3, <2>1, <2>2 DEF Live
  <2>3. CASE j # id
    BY <1>0, <1>1, <2>1, <2>3
  <2>4. QED
    BY <2>2, <2>3
<1>7. ASSUME NEW j \in T!Ids PROVE TransMatches(j)'
  <2>0. TransMatches(j) /\ cursor \in Int /\ id \in Int /\ j \in Int
    BY <1>0, TransAssumption DEF TransInv, T!Ids
  <2>1. CASE j = id
    <3>1. t > 0 => record'[id] # NoRecord
      <4>1. ASSUME t > 0 PROVE Record(id, now, t) \in Records
        BY <4>1, WiringAssumption, RecordIsSlot DEF T!Ids, RTMTypeOK
      <4>2. QED
        BY <1>0, <1>4, <4>1, NoRecordAssumption
    <3>2. trans'[id] = new /\ id \in inuse'
      BY <1>0, <1>1
    <3>3. QED
      BY <1>1, <1>2, <1>3, <1>4, <2>0, <2>1, <3>1, <3>2 DEF TransMatches, Live, Ending
  <2>2. CASE j # id
    <3>1. /\ trans'[j] = trans[j] /\ record'[j] = record[j] /\ batch'[j] = batch[j]
          /\ (j \in inuse' <=> j \in inuse)
      BY <1>0, <1>1, <1>4, <2>2
    <3>2. j <= cursor => j <= cursor'
      BY <1>1, <2>0
    <3>3. QED
      BY <1>1, <2>0, <3>1, <3>2 DEF TransMatches, Live, Ending
  <2>3. QED
    BY <2>1, <2>2
<1>8. QED
  BY <1>5, <1>6, <1>7 DEF TransInv

\* A transaction leaves the tables: by CancelTrans, or when the callback that
\* told its end returns.
LEMMA RemoveKeepsInv ==
  ASSUME TransInv, RTMTypeOK, NEW id \in T!Ids, T!RemoveTrans(id),
         batch' = batch,
         record' = [record EXCEPT ![id] = NoRecord],
         ended' = ended,
         \/ Live(id) /\ calling' = calling /\ cancelled' = cancelled \cup {id}
         \/ calling' = NoCall /\ cancelled' = cancelled /\ (calling # NoCall => calling.id = id),
         broken' = broken
  PROVE  TransInv'
<1>0. /\ trans \in [T!Ids -> T!Trans \cup {NoTrans}]
      /\ record \in [T!Ids -> Slots]
      /\ cursor \in (SeqMin - 1)..SeqMax
      /\ inuse \subseteq T!Ids /\ cancelled \subseteq T!Ids
  BY WiringAssumption DEF TransInv, T!TransTypeOK, RTMTypeOK, T!Ids
<1>1. /\ trans' = [trans EXCEPT ![id] = NoTrans]
      /\ inuse' = inuse \ {id}
      /\ cursor' = cursor
      /\ by_peer' \in [Peers -> SUBSET T!Ids]
      /\ \A p \in Peers : by_peer'[p] = by_peer[p] \ {id}
  BY RemoveTransEffect
<1>2. T!TransTypeOK'
  <2>1. trans' \in [T!Ids -> T!Trans \cup {NoTrans}]
    BY <1>0, <1>1
  <2>2. inuse' \subseteq T!Ids /\ cancelled' \subseteq T!Ids
    BY <1>0, <1>1
  <2>3. QED
    BY <1>1, <2>1, <2>2 DEF TransInv, T!TransTypeOK
<1>3. PeersMatch'
  <2> SUFFICES ASSUME NEW q \in Peers, NEW j \in T!Ids
               PROVE  j \in by_peer'[q] <=> trans'[j] # NoTrans /\ trans'[j].peer = q
    BY DEF PeersMatch, Live
  <2>1. j \in by_peer[q] <=> trans[j] # NoTrans /\ trans[j].peer = q
    BY DEF TransInv, PeersMatch, Live
  <2>2. QED
    BY <1>0, <1>1, <2>1
<1>4. ASSUME NEW j \in T!Ids PROVE TransMatches(j)'
  <2>0. TransMatches(j) /\ TransMatches(id)
    BY DEF TransInv
  <2>1. CASE j = id
    <3>1. trans'[j] = NoTrans /\ j \notin inuse' /\ record'[j] = NoRecord
      BY <1>0, <1>1, <2>1
    <3>2. Live(j) \/ j \in ended \cup cancelled \/ batch[j] # NoRecord
             \/ (calling # NoCall /\ calling.id = j) => j <= cursor
      BY <2>0 DEF TransMatches
    <3>3. QED
      BY <1>1, <2>1, <3>1, <3>2 DEF TransMatches, Live, Ending
  <2>2. CASE j # id
    <3>1. /\ trans'[j] = trans[j] /\ record'[j] = record[j] /\ batch'[j] = batch[j]
          /\ (j \in inuse' <=> j \in inuse) /\ (j \in cancelled' <=> j \in cancelled)
      BY <1>0, <1>1, <2>2
    <3>2. QED
      BY <1>1, <2>0, <2>2, <3>1 DEF TransMatches, Live, Ending
  <2>3. QED
    BY <2>1, <2>2
<1>5. QED
  BY <1>2, <1>3, <1>4 DEF TransInv

\* A set of ids has a least one, and Min is it.
LEMMA MinIsIn ==
  ASSUME NEW A, A \subseteq T!Ids, A # {}
  PROVE  T!Min(A) \in A
<1>1. A \subseteq Nat
  BY TransAssumption DEF T!Ids
<1>2. PICK x \in A : \A y \in A : ~(<<y, x>> \in OpToRel(<, Nat))
  BY <1>1, NatLessThanWellFounded, WFMin
<1>3. ASSUME NEW y \in A PROVE x <= y
  <2>1. CASE y < x
    <3>1. <<y, x>> \in Nat \X Nat /\ <<y, x>>[1] < <<y, x>>[2]
      BY <1>1, <2>1
    <3>2. <<y, x>> \in OpToRel(<, Nat)
      BY <3>1, Zenon DEF OpToRel
    <3>3. QED
      BY <1>2, <3>2
  <2>2. QED
    BY <1>1, <2>1
<1>4. QED
  BY <1>3 DEF T!Min

\* Outside the callbacks that tell an end, no live transaction was told one.
LEMMA NoneEnded ==
  ASSUME TransInv, calling = NoCall \/ T!InPeerLoop, NEW j \in T!Ids, Live(j)
  PROVE  j \notin ended \cup cancelled
BY DEF TransInv, TransMatches, Ending, T!InPeerLoop

\* The callback of a live transaction's sink begins.
LEMMA CallKeepsInv ==
  ASSUME TransInv, calling = NoCall \/ T!InPeerLoop,
         NEW id \in T!Ids, Live(id), NEW op \in {"rsp", "timeout", "connected", "closed"},
         T!CallSink(op, id), UNCHANGED <<T!tableVars, record, cancelled, broken>>,
         \/ op # "timeout" /\ batch' = batch
         \/ op = "timeout" /\ batch[id] # NoRecord /\ batch' = [batch EXCEPT ![id] = NoRecord],
         RTMTypeOK
  PROVE  TransInv' /\ calling'.id = id
<1> DEFINE call == T!Call(op, id, trans[id].peer)
<1>0. /\ UNCHANGED <<trans, by_peer, cursor, inuse, record, cancelled, broken>>
      /\ batch \in [T!Ids -> Slots]
  BY WiringAssumption DEF T!tableVars, T!idVars, RTMTypeOK, T!Ids
<1>1. calling' = call /\ ended' = IF op \in {"rsp", "timeout"} THEN ended \cup {id} ELSE ended
  BY DEF T!CallSink
<1>2. /\ call \in [op : {"rsp", "timeout", "connected", "closed"}, id : T!Ids, peer : Peers]
      /\ call.op = op /\ call.id = id /\ call # NoCall
  BY TransFields, TransAssumption DEF T!Call, T!Ids
<1> HIDE DEF call
<1>3. T!TransTypeOK'
  BY <1>0, <1>1, <1>2 DEF TransInv, T!TransTypeOK
<1>4. PeersMatch'
  BY <1>0 DEF TransInv, PeersMatch, Live
<1>5. ASSUME NEW j \in T!Ids PROVE TransMatches(j)'
  <2>0. TransMatches(j) /\ (Live(j) => j \notin ended \cup cancelled)
    BY NoneEnded DEF TransInv
  <2>1. CASE j = id
    <3>1. /\ j <= cursor /\ (op = "timeout" => record[j] = NoRecord)
      BY <2>0, <2>1 DEF TransMatches
    <3>2. op # "timeout" => batch'[j] = batch[j] /\ ~(calling # NoCall /\ calling.op = "timeout")
      BY DEF T!InPeerLoop
    <3>3. batch'[j] # NoRecord => batch[j] # NoRecord
      BY <1>0
    <3>4. QED
      BY <1>0, <1>1, <1>2, <2>0, <2>1, <3>1, <3>2, <3>3 DEF TransMatches, Live, Ending
  <2>2. CASE j # id
    <3>1. batch'[j] = batch[j] /\ (j \in ended' <=> j \in ended)
      BY <1>0, <1>1, <2>2
    <3>2. ~(calling # NoCall /\ calling.op = "timeout")
      BY DEF T!InPeerLoop
    <3>3. QED
      BY <1>0, <1>1, <1>2, <2>0, <2>2, <3>1, <3>2 DEF TransMatches, Live, Ending
  <2>3. QED
    BY <2>1, <2>2
<1>6. QED
  BY <1>1, <1>2, <1>3, <1>4, <1>5 DEF TransInv

\* The scan of the expiry timer moves due records into the batch.
LEMMA ScanKeepsInv ==
  ASSUME TransInv, RTMTypeOK, T!OnTimer
  PROVE  TransInv'
<1>0. /\ OnTimer /\ calling = NoCall
      /\ UNCHANGED <<trans, by_peer, cursor, inuse, calling, ended, cancelled, broken>>
      /\ Keys = T!Ids
  BY SameMgr, WiringAssumption DEF T!OnTimer, T!InLoop, T!tableVars, T!idVars, T!Ids
<1>1. ASSUME NEW k \in DueKeys
      PROVE  Exists(k) /\ k \in Keys
  <2>1. PICK p \in Due : k = p[2]
    BY DEF DueKeys
  <2>2. p \in Met
    BY DueIsMet
  <2>3. QED
    BY <1>0, <2>1, <2>2 DEF OnTimer, Stray, Due
<1>2. ASSUME NEW k \in DueKeys
      PROVE  Record(record[k].v, 0, record[k].timeout_sec) # NoRecord
  <2>1. record[k].v \in Values /\ record[k].timeout_sec \in Timeouts
    BY <1>1, RecordFields
  <2>2. 0 \in 0..MaxTime
    BY TimeAssumption
  <2>3. QED
    BY <2>1, <2>2, RecordIsSlot, NoRecordAssumption
<1>3. T!TransTypeOK'
  BY <1>0 DEF TransInv, T!TransTypeOK
<1>4. PeersMatch'
  BY <1>0 DEF TransInv, PeersMatch, Live
<1>5. ASSUME NEW j \in T!Ids PROVE TransMatches(j)'
  <2>0. TransMatches(j) /\ batch[j] = NoRecord
    BY <1>0 DEF TransInv, OnTimer, Quiet
  <2>1. CASE j \in DueKeys
    <3>1. record'[j] = NoRecord /\ batch'[j] # NoRecord /\ record[j] # NoRecord
      BY <1>0, <1>1, <1>2, <2>1 DEF OnTimer, Exists
    <3>2. QED
      BY <1>0, <2>0, <3>1 DEF TransMatches, Live, Ending
  <2>2. CASE j \notin DueKeys
    <3>1. record'[j] = record[j] /\ batch'[j] = NoRecord
      BY <1>0, <2>2 DEF OnTimer
    <3>2. QED
      BY <1>0, <2>0, <3>1 DEF TransMatches, Live, Ending
  <2>3. QED
    BY <2>1, <2>2
<1>6. QED
  BY <1>3, <1>4, <1>5 DEF TransInv

-----------------------------------------------------------------------------
\* What a step does about callbacks: none begins, or the sink of a live
\* transaction is called whose end was neither told nor asked for.
CallsLiveOnly ==
    calling' # calling /\ calling' # NoCall => calling'.id \notin cancelled \cup ended

\* Every step of TransCenter keeps the invariant and calls live sinks only.
LEMMA TransInvStep ==
  ASSUME TransInv, RTMTypeOK, [T!TransNext]_T!transVars
  PROVE  TransInv' /\ CallsLiveOnly
<1>1. ASSUME NEW id \in T!Ids, NEW p \in Peers, NEW t \in TransTimeouts \cup {-1},
             T!RecordTransCtx(id, p, t)
      PROVE  TransInv' /\ CallsLiveOnly
  BY <1>1, RecordKeepsInv DEF T!RecordTransCtx, CallsLiveOnly
<1>2. ASSUME NEW id \in T!Ids, T!CancelTrans(id)
      PROVE  TransInv' /\ CallsLiveOnly
  <2>1. /\ T!Drop(id) /\ Live(id) /\ cancelled' = cancelled \cup {id}
        /\ UNCHANGED <<calling, ended, broken>>
    BY <1>2 DEF T!CancelTrans, T!GetTransCtx, Live
  <2>2. TransInv'
    BY <2>1, DropEffect, RemoveKeepsInv
  <2>3. QED
    BY <2>1, <2>2 DEF CallsLiveOnly
<1>3. ASSUME NEW id \in T!Ids, T!OnRecvRsp(id)
      PROVE  TransInv' /\ CallsLiveOnly
  <2>1. /\ calling = NoCall /\ Live(id) /\ T!CallSink("rsp", id)
        /\ UNCHANGED <<T!tableVars, record, batch, cancelled, broken>>
    BY <1>3 DEF T!OnRecvRsp, T!InLoop, T!GetTransCtx, Live, T!rtmVars
  <2>2. TransInv' /\ calling'.id = id
    BY <2>1, CallKeepsInv
  <2>3. QED
    BY <2>1, <2>2, NoneEnded DEF CallsLiveOnly
<1>4. ASSUME NEW id \in T!Ids, T!OnTimeout(id)
      PROVE  TransInv' /\ CallsLiveOnly
  <2>1. /\ calling = NoCall /\ batch[id] # NoRecord /\ batch' = [batch EXCEPT ![id] = NoRecord]
        /\ UNCHANGED <<T!tableVars, record, cancelled, broken>>
    BY <1>4, SameMgr DEF T!OnTimeout, OnTimeout
  <2>2. CASE Live(id)
    <3>1. T!CallSink("timeout", id)
      BY <1>4, <2>2 DEF T!OnTimeout, T!GetTransCtx, Live
    <3>2. TransInv' /\ calling'.id = id
      BY <2>1, <2>2, <3>1, CallKeepsInv
    <3>3. QED
      BY <2>1, <2>2, <3>2, NoneEnded DEF CallsLiveOnly
  <2>3. CASE ~Live(id)
    <3>1. UNCHANGED <<trans, by_peer, cursor, inuse, calling, ended>>
      BY <1>4, <2>1, <2>3 DEF T!OnTimeout, T!GetTransCtx, Live, T!tableVars, T!idVars
    <3>2. T!TransTypeOK' /\ PeersMatch'
      BY <2>1, <3>1 DEF TransInv, T!TransTypeOK, PeersMatch, Live
    <3>3. ASSUME NEW j \in T!Ids PROVE TransMatches(j)'
      <4>1. TransMatches(j) /\ batch \in [T!Ids -> Slots]
        BY WiringAssumption DEF TransInv, RTMTypeOK, T!Ids
      <4>2. batch'[j] = IF j = id THEN NoRecord ELSE batch[j]
        BY <2>1, <4>1
      <4>3. QED
        BY <2>1, <2>3, <3>1, <4>1, <4>2 DEF TransMatches, Live, Ending
    <3>4. QED
      BY <3>1, <3>2, <3>3 DEF TransInv, CallsLiveOnly
  <2>4. QED
    BY <2>2, <2>3
<1>5. ASSUME NEW op \in {"connected", "closed"}, NEW p \in Peers, T!OnPeer(op, p)
      PROVE  TransInv' /\ CallsLiveOnly
  <2>1. /\ calling = NoCall
        /\ UNCHANGED <<T!tableVars, record, batch, cancelled, broken>>
    BY <1>5 DEF T!OnPeer, T!InLoop, T!rtmVars
  <2>2. CASE by_peer[p] # {} /\ T!CallSink(op, T!Min(by_peer[p]))
    <3>1. by_peer[p] \subseteq T!Ids
      BY DEF TransInv, T!TransTypeOK
    <3>2. T!Min(by_peer[p]) \in by_peer[p]
      BY <2>2, <3>1, MinIsIn
    <3>3. T!Min(by_peer[p]) \in T!Ids /\ Live(T!Min(by_peer[p]))
      BY <3>1, <3>2 DEF TransInv, PeersMatch
    <3>4. TransInv' /\ calling'.id = T!Min(by_peer[p])
      BY <2>1, <2>2, <3>3, CallKeepsInv
    <3>5. QED
      BY <2>1, <3>3, <3>4, NoneEnded DEF CallsLiveOnly
  <2>3. CASE UNCHANGED <<calling, ended>>
    BY <2>1, <2>3 DEF TransInv, T!TransTypeOK, PeersMatch, TransMatches, Live, Ending,
                      T!tableVars, T!idVars, CallsLiveOnly
  <2>4. QED
    BY <1>5, <2>2, <2>3 DEF T!OnPeer, T!TellPeer
<1>6. CASE T!PeerReturned
  <2>1. /\ T!InPeerLoop /\ calling # NoCall /\ calling.id \in T!Ids /\ calling.peer \in Peers
        /\ calling.op \in {"connected", "closed"}
        /\ UNCHANGED <<T!tableVars, record, batch, cancelled>>
    BY <1>6, CallFields DEF T!PeerReturned, T!InPeerLoop, T!rtmVars
  <2> DEFINE after == {id \in by_peer[calling.peer] : id > calling.id}
  <2>2. CASE after # {} /\ T!CallSink(calling.op, T!Min(after)) /\ UNCHANGED broken
    <3>1. after \subseteq T!Ids
      BY <2>1 DEF TransInv, T!TransTypeOK
    <3>2. T!Min(after) \in after
      BY <2>2, <3>1, MinIsIn
    <3>3. T!Min(after) \in T!Ids /\ Live(T!Min(after))
      BY <2>1, <3>1, <3>2 DEF TransInv, PeersMatch
    <3> HIDE DEF after
    <3>4. TransInv' /\ calling'.id = T!Min(after)
      BY <2>1, <2>2, <3>3, CallKeepsInv
    <3>5. QED
      BY <2>1, <3>3, <3>4, NoneEnded DEF CallsLiveOnly
  <2>3. CASE calling' = NoCall /\ UNCHANGED ended /\ broken' \in BOOLEAN
    <3>1. T!TransTypeOK' /\ PeersMatch'
      BY <2>1, <2>3 DEF TransInv, T!TransTypeOK, PeersMatch, Live, T!tableVars, T!idVars
    <3>2. ASSUME NEW j \in T!Ids PROVE TransMatches(j)'
      <4>1. TransMatches(j) /\ (Live(j) => j \notin ended \cup cancelled) /\ calling.op # "timeout"
        BY <2>1, NoneEnded DEF TransInv
      <4>2. QED
        BY <2>1, <2>3, <4>1 DEF TransMatches, Live, Ending, T!tableVars, T!idVars
    <3>3. QED
      BY <2>3, <3>1, <3>2 DEF TransInv, CallsLiveOnly
  <2>4. broken \in BOOLEAN
    BY DEF TransInv, T!TransTypeOK
  <2>5. QED
    BY <1>6, <2>2, <2>3, <2>4 DEF T!PeerReturned
<1>7. CASE T!RspReturned
  <2>1. /\ calling # NoCall /\ calling.id \in T!Ids /\ T!Drop(calling.id)
        /\ calling' = NoCall /\ UNCHANGED <<ended, cancelled, broken>>
    BY <1>7, CallFields DEF T!RspReturned
  <2>2. TransInv'
    BY <2>1, DropEffect, RemoveKeepsInv
  <2>3. QED
    BY <2>1, <2>2 DEF CallsLiveOnly
<1>8. CASE T!TimeoutReturned
  <2>1. /\ calling # NoCall /\ calling.id \in T!Ids /\ T!RemoveTrans(calling.id)
        /\ calling' = NoCall /\ UNCHANGED <<record, batch, ended, cancelled, broken>>
        /\ calling.op = "timeout"
    BY <1>8, CallFields DEF T!TimeoutReturned, T!rtmVars
  <2>2. record' = [record EXCEPT ![calling.id] = NoRecord]
    <3>1. record[calling.id] = NoRecord
      BY <2>1 DEF TransInv, TransMatches
    <3>2. record \in [T!Ids -> Slots]
      BY WiringAssumption DEF RTMTypeOK, T!Ids
    <3>3. QED
      BY <2>1, <3>1, <3>2
  <2>3. TransInv'
    BY <2>1, <2>2, RemoveKeepsInv
  <2>4. QED
    BY <2>1, <2>3 DEF CallsLiveOnly
<1>9. ASSUME NEW id \in T!Ids, T!RecordWithoutSink(id)
      PROVE  TransInv' /\ CallsLiveOnly
  <2>1. /\ id > cursor /\ cursor' = id
        /\ UNCHANGED <<trans, by_peer, inuse, record, batch, calling, ended, cancelled, broken>>
    BY <1>9 DEF T!RecordWithoutSink, T!rtmVars
  <2>2. cursor \in Int /\ cursor' \in (SeqMin - 1)..SeqMax
    BY <2>1, TransAssumption DEF TransInv, T!TransTypeOK, T!Ids
  <2>3. T!TransTypeOK' /\ PeersMatch'
    BY <2>1, <2>2 DEF TransInv, T!TransTypeOK, PeersMatch, Live
  <2>4. ASSUME NEW j \in T!Ids PROVE TransMatches(j)'
    <3>1. TransMatches(j) /\ (j <= cursor => j <= cursor')
      BY <2>1, <2>2, TransAssumption DEF TransInv, T!Ids
    <3>2. QED
      BY <2>1, <3>1 DEF TransMatches, Live, Ending
  <2>5. QED
    BY <2>1, <2>3, <2>4 DEF TransInv, CallsLiveOnly
<1>10. CASE T!OnTimer
  BY <1>10, ScanKeepsInv DEF T!OnTimer, CallsLiveOnly
<1>11. CASE T!Release
  <2>1. /\ Finalize /\ calling = NoCall /\ Keys = T!Ids
        /\ trans' = [id \in T!Ids |-> NoTrans] /\ by_peer' = [p \in Peers |-> {}] /\ inuse' = {}
        /\ cancelled' = cancelled \cup {id \in T!Ids : Live(id)}
        /\ UNCHANGED <<cursor, calling, ended, broken>>
    BY <1>11, SameMgr, WiringAssumption DEF T!Release, T!GetTransCtx, Live, T!Ids
  <2>2. record' = [k \in T!Ids |-> NoRecord] /\ batch' = batch
    BY <2>1 DEF Finalize
  <2>3. T!TransTypeOK'
    BY <2>1 DEF TransInv, T!TransTypeOK
  <2>4. PeersMatch'
    BY <2>1 DEF PeersMatch, Live
  <2>5. ASSUME NEW j \in T!Ids PROVE TransMatches(j)'
    <3>1. TransMatches(j)
      BY DEF TransInv
    <3>2. trans'[j] = NoTrans /\ record'[j] = NoRecord /\ batch'[j] = batch[j] /\ j \notin inuse'
      BY <2>1, <2>2
    <3>3. QED
      BY <2>1, <3>1, <3>2 DEF TransMatches, Live, Ending
  <2>6. QED
    BY <2>1, <2>3, <2>4, <2>5 DEF TransInv, CallsLiveOnly
<1>12. CASE UNCHANGED <<trans, by_peer, cursor, inuse, record, batch, calling, ended,
                        cancelled, broken>>
  <2>1. T!TransTypeOK' /\ PeersMatch'
    BY <1>12 DEF TransInv, T!TransTypeOK, PeersMatch, Live
  <2>2. ASSUME NEW j \in T!Ids PROVE TransMatches(j)'
    <3>1. TransMatches(j)
      BY DEF TransInv
    <3>2. QED
      BY <1>12, <3>1 DEF TransMatches, Live, Ending
  <2>3. QED
    BY <1>12, <2>1, <2>2 DEF TransInv, CallsLiveOnly
<1>13. CASE T!Tick \/ T!Activate \/ T!Freeze
  <2>1. UNCHANGED <<record, batch>>
    BY <1>13, SameMgr DEF T!Tick, T!Activate, T!Freeze, SetClock, Activate, Freeze
  <2>2. QED
    BY <1>12, <1>13, <2>1 DEF T!Tick, T!Activate, T!Freeze, T!tableVars, T!idVars
<1>14. CASE UNCHANGED T!transVars
  BY <1>12, <1>14 DEF T!transVars, T!tableVars, T!idVars, T!rtmVars
<1>15. QED
  BY <1>1, <1>2, <1>3, <1>4, <1>5, <1>6, <1>7, <1>8, <1>9, <1>10, <1>11, <1>13, <1>14
     DEF T!TransNext, T!Returned

\* At first there is no transaction.
LEMMA TransInvInit == T!TransInit => TransInv /\ RTMTypeOK /\ RTMInit
<1> SUFFICES ASSUME T!TransInit PROVE TransInv /\ RTMTypeOK /\ RTMInit
  OBVIOUS
<1>1. RTMInit /\ Keys = T!Ids
  BY SameMgr, WiringAssumption DEF T!TransInit, T!Ids
<1>2. RTMTypeOK
  <2>1. now \in 0..MaxTime
    BY <1>1, TimeAssumption DEF RTMInit
  <2>2. QED
    BY <1>1, <2>1 DEF RTMInit, RTMTypeOK, Slots
<1>3. T!TransTypeOK
  <2>1. cursor \in (SeqMin - 1)..SeqMax /\ inuse \subseteq T!Ids
    BY TransAssumption DEF T!TransInit, T!S!SeqInit
  <2>2. /\ trans \in [T!Ids -> T!Trans \cup {NoTrans}]
        /\ by_peer \in [Peers -> SUBSET T!Ids]
    BY DEF T!TransInit
  <2>3. broken \in BOOLEAN
    BY DEF T!TransInit
  <2>4. calling = NoCall /\ cancelled \subseteq T!Ids
    BY DEF T!TransInit
  <2>5. QED
    BY <2>1, <2>2, <2>3, <2>4 DEF T!TransTypeOK
<1>4. PeersMatch
  BY DEF T!TransInit, PeersMatch, Live
<1>5. \A j \in T!Ids : TransMatches(j)
  BY <1>1 DEF T!TransInit, RTMInit, T!S!SeqInit, TransMatches, Live, Ending
<1>6. QED
  BY <1>1, <1>2, <1>3, <1>4, <1>5 DEF TransInv

\* The inductive invariant of the transaction tables and of the records.
THEOREM TransInvariant == T!TransSpec => [](TransInv /\ RTMTypeOK)
<1>1. TransInv /\ RTMTypeOK /\ [T!TransNext]_T!transVars => (TransInv /\ RTMTypeOK)'
  BY TransInvStep, MgrStep, RTMTypesStep
<1>2. QED
  BY <1>1, TransInvInit, PTL DEF T!TransSpec

\* TransCenter uses its RecordTimeoutMgr as that component allows: what is
\* proved of RecordTimeoutMgr under any use holds of the timeouts of
\* transactions (rsp_msg_mgr_).
THEOREM UsesRecordTimeoutMgr == T!TransSpec => RTMSpec
<1>1. TransInv /\ RTMTypeOK /\ [T!TransNext]_T!transVars => [RTMNext]_rtmVars
  BY MgrStep
<1>2. QED
  BY <1>1, TransInvInit, TransInvariant, PTL DEF T!TransSpec, RTMSpec

\* TransSound, for any peers, ids and timeouts: trans_hash_map_,
\* peer_trans_id_map_, trans_id_seq_ and the timeout records agree in every
\* state of TransCenter, a transaction with a timeout is always watched, and
\* the scan of the expiry timer ends.
THEOREM TransactionsSound == T!TransSpec => []TransSound
<1>1. TransInv => T!TablesAgree /\ T!TimeoutWatched
  <2> SUFFICES ASSUME TransInv PROVE T!TablesAgree /\ T!TimeoutWatched
    OBVIOUS
  <2>1. T!TransTypeOK
    BY DEF TransInv
  <2>2. inuse = {id \in T!Ids : T!GetTransCtx(id)}
    BY <2>1 DEF TransInv, TransMatches, Live, T!GetTransCtx, T!TransTypeOK
  <2>3. ASSUME NEW p \in Peers
        PROVE  by_peer[p] = {id \in T!Ids : T!GetTransCtx(id) /\ trans[id].peer = p}
    BY <2>1 DEF TransInv, PeersMatch, Live, T!GetTransCtx, T!TransTypeOK
  <2>4. \A id \in T!Ids : record[id] # NoRecord => T!GetTransCtx(id)
    BY DEF TransInv, TransMatches, Live, T!GetTransCtx
  <2>5. T!TimeoutWatched
    BY DEF TransInv, TransMatches, Live, T!GetTransCtx, T!TimeoutWatched
  <2>6. QED
    BY <2>1, <2>2, <2>3, <2>4, <2>5 DEF T!TablesAgree
<1>2. T!TransSpec => []ScanEnds
  BY UsesRecordTimeoutMgr, ScanAlwaysEnds, PTL
<1>3. QED
  BY <1>1, <1>2, TransInvariant, PTL DEF TransSound

\* The records of the transactions and their index agree, for any use of
\* TransCenter.
THEOREM TransIndexMatches == T!TransSpec => []IndexMatches
BY UsesRecordTimeoutMgr, MapsMatch, PTL

\* OneEnd, for any peers, ids and timeouts and whatever the sinks cancel: a
\* sink is called only for a transaction that was neither told its end nor
\* cancelled before.
THEOREM SinksToldOnce == T!TransSpec => T!OneEnd
<1>1. TransInv /\ RTMTypeOK /\ [T!TransNext]_T!transVars
        => [calling' # calling /\ calling' # NoCall
              => calling'.id \notin cancelled \cup ended]_T!transVars
  BY TransInvStep DEF CallsLiveOnly
<1>2. QED
  BY <1>1, TransInvariant, PTL DEF T!TransSpec, T!OneEnd

-----------------------------------------------------------------------------
\* The loops of OnConnected and OnClosed stand on a live transaction of the
\* peer they are about.
LoopOnLive ==
    /\ T!IteratorValid
    /\ T!InPeerLoop => Live(calling.id) /\ trans[calling.id].peer = calling.peer

\* A callback of a live transaction's sink begins: the loop stands on it.
LEMMA CallOnLive ==
  ASSUME TransInv, LoopOnLive, NEW id \in T!Ids, Live(id), NEW op, T!CallSink(op, id),
         UNCHANGED <<trans, broken>>
  PROVE  LoopOnLive'
<1>1. calling'.id = id /\ calling'.peer = trans[id].peer
  BY DEF T!CallSink, T!Call
<1>2. QED
  BY <1>1 DEF LoopOnLive, T!IteratorValid, Live

\* IteratorValid, for any peers, ids and timeouts, of logics that do not cancel
\* a transaction in its own OnConnected or OnClosed: whatever else their
\* callbacks record and cancel, the loops of TransCenter never use an iterator
\* that was erased.
THEOREM IteratorsStayValid ==
  ASSUME CancelsSelf = FALSE
  PROVE  T!TransSpec => []T!IteratorValid
<1>1. T!TransInit => LoopOnLive
  BY DEF T!TransInit, LoopOnLive, T!IteratorValid, T!InPeerLoop
<1>2. TransInv /\ RTMTypeOK /\ LoopOnLive /\ [T!TransNext]_T!transVars => LoopOnLive'
  <2> SUFFICES ASSUME TransInv, RTMTypeOK, LoopOnLive, [T!TransNext]_T!transVars
               PROVE  LoopOnLive'
    OBVIOUS
  <2>0. T!InPeerLoop => calling.id \in T!Ids /\ calling.peer \in Peers
    BY CallFields DEF T!InPeerLoop
  <2>1. ASSUME NEW id \in T!Ids, NEW p \in Peers, NEW t \in TransTimeouts \cup {-1},
               T!RecordTransCtx(id, p, t)
        PROVE  LoopOnLive'
    <3>1. id > cursor /\ UNCHANGED <<calling, broken>>
          /\ trans' = [trans EXCEPT ![id] = [peer |-> p, timeout_sec |-> t]]
      BY <2>1 DEF T!RecordTransCtx, T!Fresh
    <3>2. T!InPeerLoop => calling.id # id
      <4>1. T!InPeerLoop => calling.id <= cursor
        BY <2>0 DEF TransInv, TransMatches, T!InPeerLoop
      <4>2. cursor \in Int /\ id \in Int
        BY TransAssumption DEF TransInv, T!TransTypeOK, T!Ids
      <4>3. QED
        BY <3>1, <4>1, <4>2
    <3>3. T!InPeerLoop => trans'[calling.id] = trans[calling.id]
      BY <2>0, <3>1, <3>2 DEF TransInv, T!TransTypeOK
    <3>4. QED
      BY <3>1, <3>3 DEF LoopOnLive, T!IteratorValid, T!InPeerLoop, Live
  <2>2. ASSUME NEW id \in T!Ids, T!CancelTrans(id)
        PROVE  LoopOnLive'
    <3>1. /\ UNCHANGED <<calling, broken>> /\ T!RemoveTrans(id)
          /\ T!InPeerLoop => calling.id # id
      BY <2>2 DEF T!CancelTrans, T!Drop
    <3>2. trans' = [trans EXCEPT ![id] = NoTrans]
      BY <3>1, RemoveTransEffect
    <3>3. T!InPeerLoop => trans'[calling.id] = trans[calling.id]
      BY <2>0, <3>1, <3>2 DEF TransInv, T!TransTypeOK
    <3>4. QED
      BY <3>1, <3>3 DEF LoopOnLive, T!IteratorValid, T!InPeerLoop, Live
  <2>3. ASSUME NEW id \in T!Ids, T!OnRecvRsp(id)
        PROVE  LoopOnLive'
    BY <2>3, CallOnLive DEF T!OnRecvRsp, T!GetTransCtx, Live, T!tableVars
  <2>4. ASSUME NEW id \in T!Ids, T!OnTimeout(id)
        PROVE  LoopOnLive'
    <3>1. CASE Live(id)
      BY <2>4, <3>1, CallOnLive DEF T!OnTimeout, T!GetTransCtx, Live, T!tableVars
    <3>2. CASE ~Live(id)
      BY <2>4, <3>2 DEF T!OnTimeout, T!GetTransCtx, Live, T!tableVars, LoopOnLive,
                        T!IteratorValid, T!InPeerLoop
    <3>3. QED
      BY <3>1, <3>2
  <2>5. ASSUME NEW op \in {"connected", "closed"}, NEW p \in Peers, T!OnPeer(op, p)
        PROVE  LoopOnLive'
    <3>1. UNCHANGED <<trans, broken>>
      BY <2>5 DEF T!OnPeer, T!tableVars
    <3>2. CASE by_peer[p] # {} /\ T!CallSink(op, T!Min(by_peer[p]))
      <4>1. by_peer[p] \subseteq T!Ids
        BY DEF TransInv, T!TransTypeOK
      <4>2. T!Min(by_peer[p]) \in by_peer[p]
        BY <3>2, <4>1, MinIsIn
      <4>3. T!Min(by_peer[p]) \in T!Ids /\ Live(T!Min(by_peer[p]))
        BY <4>1, <4>2 DEF TransInv, PeersMatch
      <4>4. QED
        BY <3>1, <3>2, <4>3, CallOnLive
    <3>3. CASE UNCHANGED calling
      BY <3>1, <3>3 DEF LoopOnLive, T!IteratorValid, T!InPeerLoop, Live
    <3>4. QED
      BY <2>5, <3>2, <3>3 DEF T!OnPeer, T!TellPeer
  <2>6. CASE T!PeerReturned
    <3>1. T!InPeerLoop /\ UNCHANGED trans
      BY <2>6 DEF T!PeerReturned, T!tableVars
    <3>2. calling.id \in by_peer[calling.peer]
      BY <2>0, <3>1 DEF LoopOnLive, TransInv, PeersMatch
    <3> DEFINE after == {id \in by_peer[calling.peer] : id > calling.id}
    <3>3. CASE after # {} /\ T!CallSink(calling.op, T!Min(after)) /\ UNCHANGED broken
      <4>1. after \subseteq T!Ids
        BY <2>0, <3>1 DEF TransInv, T!TransTypeOK
      <4>2. T!Min(after) \in after
        BY <3>3, <4>1, MinIsIn
      <4>3. T!Min(after) \in T!Ids /\ Live(T!Min(after))
        BY <2>0, <3>1, <4>1, <4>2 DEF TransInv, PeersMatch
      <4> HIDE DEF after
      <4>4. QED
        BY <3>1, <3>3, <4>3, CallOnLive
    <3>4. CASE calling' = NoCall /\ UNCHANGED broken
      BY <3>4 DEF LoopOnLive, T!IteratorValid, T!InPeerLoop
    <3>5. QED
      BY <2>6, <3>2, <3>3, <3>4 DEF T!PeerReturned
  <2>7. CASE calling' = NoCall /\ UNCHANGED broken
    BY <2>7 DEF LoopOnLive, T!IteratorValid, T!InPeerLoop
  <2>8. CASE T!RspReturned \/ T!TimeoutReturned \/ T!Release
    BY <2>7, <2>8 DEF T!RspReturned, T!TimeoutReturned, T!Release
  <2>9. CASE UNCHANGED <<trans, calling, broken>>
    BY <2>9 DEF LoopOnLive, T!IteratorValid, T!InPeerLoop, Live
  <2>10. ASSUME NEW id \in T!Ids, T!RecordWithoutSink(id)
         PROVE  LoopOnLive'
    BY <2>9, <2>10 DEF T!RecordWithoutSink
  <2>11. CASE T!OnTimer \/ T!Tick \/ T!Activate \/ T!Freeze
    BY <2>9, <2>11 DEF T!OnTimer, T!Tick, T!Activate, T!Freeze, T!tableVars
  <2>12. CASE UNCHANGED T!transVars
    BY <2>9, <2>12 DEF T!transVars, T!tableVars
  <2>13. QED
    BY <2>1, <2>2, <2>3, <2>4, <2>5, <2>6, <2>8, <2>10, <2>11, <2>12
       DEF T!TransNext, T!Returned
<1>3. LoopOnLive => T!IteratorValid
  BY DEF LoopOnLive
<1>4. QED
  BY <1>1, <1>2, <1>3, TransInvariant, PTL DEF T!TransSpec
=============================================================================
