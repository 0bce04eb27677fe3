---------------------------- MODULE Transactions ----------------------------
(***************************************************************************)
(* TransCenter together with the RecordTimeoutMgr that times its            *)
(* transactions out: what that promises is checked here where it is used.   *)
(***************************************************************************)
EXTENDS RecordTimeoutMgr, Integers

CONSTANTS Peers, SeqMin, SeqMax, TransTimeouts, CancelsSelf, NoTrans, NoCall

ASSUME TransAssumption ==
    /\ SeqMin \in Nat /\ SeqMax \in Nat /\ SeqMin > 0 /\ SeqMax > SeqMin
    /\ TransTimeouts \subseteq 1..MaxTime
    /\ CancelsSelf \in BOOLEAN
    /\ NoTrans \notin [peer : Peers, timeout_sec : TransTimeouts \cup {-1}]
    /\ NoCall \notin [op : {"rsp", "timeout", "connected", "closed"},
                      id : SeqMin..SeqMax, peer : Peers]

\* rsp_msg_mgr_ is keyed by transaction id, and the value is the id.
ASSUME WiringAssumption ==
    Keys = SeqMin..SeqMax /\ Values = SeqMin..SeqMax /\ Timeouts = TransTimeouts

VARIABLES trans, by_peer, cursor, inuse, calling, ended, cancelled, broken

T == INSTANCE TransCenter

Ids == SeqMin..SeqMax

Spec == T!TransFairSpec

-----------------------------------------------------------------------------
\* The tables, the ids in use and the timeout records agree, a transaction
\* with a timeout is always watched, and the scan of the expiry timer ends.
TransSound == T!TablesAgree /\ T!TimeoutWatched /\ ScanEnds

\* A transaction that asked for a timeout ends, and a sink is told of one end
\* of its transaction and of nothing after it.
EndsOnce == T!OneEnd /\ T!TransEnds
=============================================================================
