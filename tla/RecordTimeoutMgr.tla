-------------------------- MODULE RecordTimeoutMgr --------------------------
(***************************************************************************)
(* timer_axis/inc/record_timeout_mgr.h: records that expire timeout_sec    *)
(* after their last upsert.  record_hash_map_ holds the records,           *)
(* timeout_multimap_ indexes their keys by expiry time; a timer scans the  *)
(* index.  The records found expired are first taken out of both and then  *)
(* handed one by one to OnTimeout, which may upsert and remove records.    *)
(* All calls come from the one thread that owns the timer.                 *)
(***************************************************************************)
EXTENDS Naturals

CONSTANTS Keys, Values,
          Timeouts,   \* the timeout_sec that are used
          MaxTime,    \* bound on the clock
          NoRecord    \* what a key without record has

ASSUME TimeAssumption == MaxTime \in Nat /\ Timeouts \subseteq 0..MaxTime

VARIABLES
    now,       \* time(nullptr)
    record,    \* record_hash_map_
    index,     \* timeout_multimap_: index[<<e, k>>] entries of k at e
    batch,     \* timeout_records, those OnTimeout was not yet called for
    active     \* the expiry check timer is set

rtmVars == <<now, record, index, batch, active>>

Times == 0..(2 * MaxTime)  \* expiry times

Record(v, at, sec) == [v |-> v, upsert_time |-> at, timeout_sec |-> sec]
Records == [v : Values, upsert_time : 0..MaxTime, timeout_sec : Timeouts]

ASSUME NoRecordAssumption == NoRecord \notin Records

Slots == Records \cup {NoRecord}

Exists(k) == record[k] # NoRecord

\* The expiry time of k's record.
Expiry(k) == record[k].upsert_time + record[k].timeout_sec

RTMInit ==
    /\ now = 0
    /\ record = [k \in Keys |-> NoRecord]
    /\ index = [p \in Times \X Keys |-> 0]
    /\ batch = [k \in Keys |-> NoRecord]
    /\ active = FALSE

\* The index with k's entry at its expiry erased, one if there are several.
Unindexed(k) ==
    [index EXCEPT ![<<Expiry(k), k>>] = IF @ > 0 THEN @ - 1 ELSE @]

UpsertRecord(k, v, sec) ==
    /\ \/ /\ Exists(k)
          /\ record' = [record EXCEPT ![k] = Record(record[k].v, now, sec)]
          /\ index' = [Unindexed(k) EXCEPT ![<<now + sec, k>>] = @ + 1]
       \/ /\ ~Exists(k)
          /\ record' = [record EXCEPT ![k] = Record(v, now, sec)]
          /\ index' = [index EXCEPT ![<<now + sec, k>>] = @ + 1]
    /\ UNCHANGED <<now, batch, active>>

\* Mutant: the index entry stays.
RemoveKeepsEntry(k) ==
    /\ record' = [record EXCEPT ![k] = NoRecord]
    /\ UNCHANGED <<now, index, batch, active>>

RemoveRecord(k) ==
    /\ \/ /\ Exists(k)
          /\ index' = Unindexed(k)
          /\ record' = [record EXCEPT ![k] = NoRecord]
       \/ ~Exists(k) /\ UNCHANGED <<record, index>>
    /\ UNCHANGED <<now, batch, active>>

Activate == active' = TRUE /\ UNCHANGED <<now, record, index, batch>>

Freeze == active' = FALSE /\ UNCHANGED <<now, record, index, batch>>

\* Between two callbacks of the event loop.
Quiet == \A k \in Keys : batch[k] = NoRecord

Finalize ==
    /\ ~active /\ Quiet
    /\ record' = [k \in Keys |-> NoRecord]
    /\ index' = [p \in Times \X Keys |-> 0]
    /\ UNCHANGED <<now, batch, active>>

\* The entries the scan takes: those that are due.
Due == {p \in Times \X Keys : p[1] <= now /\ index[p] > 0}

\* The entries the scan looks at: those, and one of the earliest others.
Met == {p \in Times \X Keys :
           /\ index[p] > 0
           /\ \A q \in Times \X Keys : index[q] > 0 /\ q[1] < p[1] => q \in Due}

\* The scan meets an entry whose key has no record, or has just lost it to an
\* earlier entry.  It then goes on for ever: "continue" does not advance.
Stray ==
    \/ \E p \in Met : ~Exists(p[2])
    \/ \E p \in Due : index[p] > 1
    \/ \E p \in Due, q \in Met : q # p /\ q[2] = p[2]

DueKeys == {p[2] : p \in Due}

\* OnTimer: the due records leave both maps for the local batch.
OnTimer ==
    /\ active /\ Quiet /\ ~Stray
    /\ batch' = [k \in Keys |-> IF k \in DueKeys
                                THEN Record(record[k].v, 0, record[k].timeout_sec)
                                ELSE NoRecord]
    /\ record' = [k \in Keys |-> IF k \in DueKeys THEN NoRecord ELSE record[k]]
    /\ index' = [p \in Times \X Keys |-> IF p \in Due THEN 0 ELSE index[p]]
    /\ UNCHANGED <<now, active>>

\* OnTimeout is called for one record of the batch, in no particular order.
OnTimeout(k) ==
    /\ batch[k] # NoRecord
    /\ batch' = [batch EXCEPT ![k] = NoRecord]
    /\ UNCHANGED <<now, record, index, active>>

\* The wall clock moves on; it may also be set back.
SetClock(n) ==
    /\ now' = n
    /\ UNCHANGED <<record, index, batch, active>>

RTMNext ==
    \/ \E k \in Keys : \E v \in Values : \E s \in Timeouts : UpsertRecord(k, v, s)
    \/ \E k \in Keys : RemoveRecord(k) \/ OnTimeout(k)
    \/ Activate \/ Freeze \/ Finalize \/ OnTimer
    \/ \E n \in 0..MaxTime : SetClock(n)

RTMSpec == RTMInit /\ [][RTMNext]_rtmVars

-----------------------------------------------------------------------------
\* Types of RecordTimeoutMgr's maps and of the batch OnTimer delivers.
RTMTypeOK ==
    /\ now \in 0..MaxTime
    /\ record \in [Keys -> Slots]
    /\ index \in [Times \X Keys -> Nat]
    /\ batch \in [Keys -> Slots]
    /\ active \in BOOLEAN

\* The two maps agree: every record has exactly one index entry, at its
\* upsert_time + timeout_sec, and there is no other entry, whatever upserts,
\* removals and clock changes come between two scans.
IndexMatches ==
    \A e \in Times, k \in Keys :
        index[<<e, k>>] = IF Exists(k) /\ Expiry(k) = e THEN 1 ELSE 0

\* OnTimer's scan always ends: it never meets an entry whose key has no record.
ScanEnds == ~Stray
=============================================================================
