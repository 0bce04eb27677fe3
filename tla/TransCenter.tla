---------------------------- MODULE TransCenter -----------------------------
(***************************************************************************)
(* trans_center: the asynchronous transactions of one thread.  A logic     *)
(* that sends a request and wants the answer records a transaction; its id *)
(* travels with the request.  The transaction ends with the response, with *)
(* its timeout (a RecordTimeoutMgr) or with CancelTrans, and while it      *)
(* lasts its sink is told of the peer's connects and closes.  All calls    *)
(* come from one thread, but a sink's callback may record and cancel       *)
(* transactions, the one it is called for included.                        *)
(***************************************************************************)
EXTENDS Integers, Sequences, FiniteSets, FiniteSetsExt

CONSTANTS Peers,
          SeqMin, SeqMax,  \* transaction ids
          TransTimeouts,   \* the timeout_sec > 0 that are asked for
          MaxTime,         \* bound on the clock
          CancelsSelf,     \* logics cancel a transaction in its own
                           \* OnConnected / OnClosed
          NoRecord, NoTrans, NoCall

VARIABLES
    trans,      \* trans_hash_map_
    by_peer,    \* peer_trans_id_map_
    cursor, inuse,                      \* trans_id_seq_
    now, record, index, batch, active,  \* rsp_msg_mgr_
    calling,    \* the sink's callback that runs, NoCall outside
    ended,      \* history: transactions whose sink got the end
    cancelled,  \* history: transactions ended by CancelTrans
    broken      \* an invalid iterator was used

idVars == <<cursor, inuse>>
rtmVars == <<now, record, index, batch, active>>
tableVars == <<trans, by_peer, idVars>>
transVars == <<tableVars, rtmVars, calling, ended, cancelled, broken>>

Ids == SeqMin..SeqMax

S == INSTANCE SeqNum
R == INSTANCE RecordTimeoutMgr WITH Keys <- Ids, Values <- Ids, Timeouts <- TransTimeouts

Trans == [peer : Peers, timeout_sec : TransTimeouts \cup {-1}]
Call(op, id, p) == [op |-> op, id |-> id, peer |-> p]

TransInit ==
    /\ trans = [id \in Ids |-> NoTrans]
    /\ by_peer = [p \in Peers |-> {}]
    /\ S!SeqInit
    /\ R!RTMInit
    /\ calling = NoCall
    /\ ended = {}
    /\ cancelled = {}
    /\ broken = FALSE

GetTransCtx(id) == trans[id] # NoTrans

\* The thread is between two callbacks of its event loop.
InLoop == active /\ calling = NoCall /\ R!Quiet /\ ~broken

\* A logic runs: in a callback of its sink, or in another one of the loop.
LogicRuns == InLoop \/ (calling # NoCall /\ ~broken)

\* Ids are not used twice: a number comes back only after all the others were
\* in use, which no transaction lives to see.
Fresh(id) == S!Alloc(id) /\ id > cursor

-----------------------------------------------------------------------------
\* Mutant: no timeout record.
RecordUnwatched(id, p, t) ==
    /\ LogicRuns
    /\ now + t <= MaxTime
    /\ Fresh(id)
    /\ trans' = [trans EXCEPT ![id] = [peer |-> p, timeout_sec |-> t]]
    /\ by_peer' = [by_peer EXCEPT ![p] = @ \cup {id}]
    /\ UNCHANGED <<rtmVars, calling, ended, cancelled, broken>>

\* RecordTransCtx with a sink.
RecordTransCtx(id, p, t) ==
    /\ LogicRuns
    /\ now + t <= MaxTime
    /\ Fresh(id)
    /\ trans' = [trans EXCEPT ![id] = [peer |-> p, timeout_sec |-> t]]
    /\ by_peer' = [by_peer EXCEPT ![p] = @ \cup {id}]
    /\ IF t > 0 THEN R!UpsertRecord(id, id, t) ELSE UNCHANGED rtmVars
    /\ UNCHANGED <<calling, ended, cancelled, broken>>

\* RecordTransCtx without: the transaction is cancelled at once, its id is
\* returned all the same.
RecordWithoutSink(id) ==
    /\ LogicRuns
    /\ S!IsNext(id) /\ id > cursor
    /\ cursor' = id
    /\ UNCHANGED <<trans, by_peer, inuse, rtmVars, calling, ended, cancelled, broken>>

\* RemoveTrans, nothing if the transaction is gone.
RemoveTrans(id) ==
    IF GetTransCtx(id)
    THEN /\ by_peer' = [by_peer EXCEPT ![trans[id].peer] = @ \ {id}]
         /\ S!Free(id)
         /\ trans' = [trans EXCEPT ![id] = NoTrans]
    ELSE UNCHANGED tableVars

\* CancelTrans, as the code calls it.
Drop(id) ==
    /\ RemoveTrans(id)
    /\ IF GetTransCtx(id) THEN R!RemoveRecord(id) ELSE UNCHANGED rtmVars

\* In the loops of OnConnected and OnClosed.
InPeerLoop == calling # NoCall /\ calling.op \in {"connected", "closed"}

\* A logic calls CancelTrans.
CancelTrans(id) ==
    /\ LogicRuns
    /\ GetTransCtx(id)
    /\ InPeerLoop /\ calling.id = id => CancelsSelf
    /\ Drop(id)
    /\ cancelled' = cancelled \cup {id}
    /\ UNCHANGED <<calling, ended, broken>>

-----------------------------------------------------------------------------
\* The sink's callback op is called.
CallSink(op, id) ==
    /\ calling' = Call(op, id, trans[id].peer)
    /\ ended' = IF op \in {"rsp", "timeout"} THEN ended \cup {id} ELSE ended

\* OnRecvRsp: the sink is told, if the transaction still exists.
OnRecvRsp(id) ==
    /\ InLoop
    /\ GetTransCtx(id)
    /\ CallSink("rsp", id)
    /\ UNCHANGED <<tableVars, rtmVars, cancelled, broken>>

\* It returns, the transaction ends.
RspReturned ==
    /\ calling # NoCall /\ calling.op = "rsp"
    /\ Drop(calling.id)
    /\ calling' = NoCall
    /\ UNCHANGED <<ended, cancelled, broken>>

\* The expiry check.
OnTimer ==
    /\ InLoop
    /\ R!OnTimer
    /\ UNCHANGED <<tableVars, calling, ended, cancelled, broken>>

\* Mutant: the expired transaction is neither told nor removed.
OnTimeoutForgets(id) ==
    /\ calling = NoCall /\ ~broken
    /\ R!OnTimeout(id)
    /\ UNCHANGED <<tableVars, calling, ended, cancelled, broken>>

\* OnTimeout of an expired record: an earlier callback of the same batch may
\* have ended the transaction.
OnTimeout(id) ==
    /\ calling = NoCall /\ ~broken
    /\ R!OnTimeout(id)
    /\ IF GetTransCtx(id) THEN CallSink("timeout", id) ELSE UNCHANGED <<calling, ended>>
    /\ UNCHANGED <<tableVars, cancelled, broken>>

TimeoutReturned ==
    /\ calling # NoCall /\ calling.op = "timeout"
    /\ RemoveTrans(calling.id)
    /\ calling' = NoCall
    /\ UNCHANGED <<rtmVars, ended, cancelled, broken>>

\* OnConnected, OnClosed: the transactions of the peer, in the order of ids.
TellPeer(op, p) ==
    \/ by_peer[p] = {} /\ UNCHANGED <<calling, ended>>
    \/ by_peer[p] # {} /\ CallSink(op, Min(by_peer[p]))

OnPeer(op, p) ==
    /\ InLoop
    /\ TellPeer(op, p)
    /\ UNCHANGED <<tableVars, rtmVars, cancelled, broken>>

\* The callback returns and the iterator moves on, also to transactions
\* recorded meanwhile; the one it points to may be gone.
PeerReturned ==
    /\ InPeerLoop
    /\ LET after == {id \in by_peer[calling.peer] : id > calling.id}
       IN \/ /\ calling.id \in by_peer[calling.peer] /\ after # {}
             /\ CallSink(calling.op, Min(after))
             /\ UNCHANGED broken
          \/ /\ calling.id \in by_peer[calling.peer] /\ after = {}
             /\ calling' = NoCall
             /\ UNCHANGED <<ended, broken>>
          \/ /\ calling.id \notin by_peer[calling.peer]
             /\ broken' = TRUE /\ calling' = NoCall
             /\ UNCHANGED ended
    /\ UNCHANGED <<tableVars, rtmVars, cancelled>>

-----------------------------------------------------------------------------
\* The clock moves on.
Tick ==
    /\ InLoop
    /\ now < MaxTime /\ R!SetClock(now + 1)
    /\ UNCHANGED <<tableVars, calling, ended, cancelled, broken>>

Activate ==
    /\ cursor = SeqMin - 1 /\ ~active
    /\ R!Activate
    /\ UNCHANGED <<tableVars, calling, ended, cancelled, broken>>

Freeze ==
    /\ InLoop
    /\ R!Freeze
    /\ UNCHANGED <<tableVars, calling, ended, cancelled, broken>>

\* Finalize and Release: every transaction is cancelled.
Release ==
    /\ ~active /\ calling = NoCall /\ R!Finalize
    /\ trans' = [id \in Ids |-> NoTrans]
    /\ by_peer' = [p \in Peers |-> {}]
    /\ inuse' = {}
    /\ cancelled' = cancelled \cup {id \in Ids : GetTransCtx(id)}
    /\ UNCHANGED <<cursor, calling, ended, broken>>

Returned == RspReturned \/ TimeoutReturned \/ PeerReturned

TransNext ==
    \/ \E id \in Ids, p \in Peers, t \in TransTimeouts \cup {-1} : RecordTransCtx(id, p, t)
    \/ \E id \in Ids : \/ RecordWithoutSink(id) \/ CancelTrans(id)
                       \/ OnRecvRsp(id) \/ OnTimeout(id)
    \/ \E op \in {"connected", "closed"}, p \in Peers : OnPeer(op, p)
    \/ OnTimer \/ Returned
    \/ Tick \/ Activate \/ Freeze \/ Release

TransSpec == TransInit /\ [][TransNext]_transVars

\* The clock moves whatever the loop does, the check timer is periodic,
\* callbacks return.
TransFairSpec ==
    /\ TransSpec
    /\ SF_transVars(Tick) /\ SF_transVars(OnTimer)
    /\ WF_transVars(\E id \in Ids : OnTimeout(id))
    /\ WF_transVars(Returned)

-----------------------------------------------------------------------------
\* Types of the transaction tables and of the running callback.
TransTypeOK ==
    /\ trans \in [Ids -> Trans \cup {NoTrans}]
    /\ by_peer \in [Peers -> SUBSET Ids]
    /\ cursor \in (SeqMin - 1)..SeqMax
    /\ inuse \subseteq Ids
    /\ calling \in [op : {"rsp", "timeout", "connected", "closed"}, id : Ids,
                    peer : Peers] \cup {NoCall}
    /\ cancelled \subseteq Ids
    /\ broken \in BOOLEAN

\* The table of transactions, the ids in use, the peers' sets and the timeout
\* records describe the same transactions, in every state.
TablesAgree ==
    /\ TransTypeOK
    /\ inuse = {id \in Ids : GetTransCtx(id)}
    /\ \A p \in Peers :
         by_peer[p] = {id \in Ids : GetTransCtx(id) /\ trans[id].peer = p}
    /\ \A id \in Ids : record[id] # NoRecord => GetTransCtx(id)

\* A transaction ends once: its sink gets the response or the timeout, never
\* both nor one twice, and nothing at all after that or after CancelTrans,
\* also when one batch of timeouts holds transactions whose sinks cancel each
\* other and when the answer comes late.
OneEnd ==
    [][calling' # calling /\ calling' # NoCall
         => calling'.id \notin cancelled \cup ended]_transVars

\* A transaction that asked for a timeout cannot be forgotten: it has its
\* record, or its timeout is about to be delivered.
TimeoutWatched ==
    \A id \in Ids : GetTransCtx(id) /\ trans[id].timeout_sec > 0 =>
        \/ record[id] # NoRecord
        \/ batch[id] # NoRecord
        \/ calling # NoCall /\ calling.op = "timeout" /\ calling.id = id

\* The iterators of OnConnected and OnClosed stay valid.
IteratorValid == ~broken

\* A transaction that asked for a timeout ends, unless the thread stops or an
\* invalid iterator was used.
TransEnds ==
    \A id \in Ids :
        (GetTransCtx(id) /\ trans[id].timeout_sec > 0)
            ~> (~GetTransCtx(id) \/ ~active \/ broken)
=============================================================================
