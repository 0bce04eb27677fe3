----------------------------- MODULE TransTable -----------------------------
(***************************************************************************)
(* The transactions of TransCenter as the clients of the same thread use   *)
(* them: which ones are live, and what their sinks were told.              *)
(***************************************************************************)
EXTENDS Integers, Sequences, FiniteSets

CONSTANT MaxId   \* bound: transaction ids 1..MaxId are used

ASSUME TransTableAssumption == MaxId \in Nat

VARIABLES
    live,      \* transactions GetTransCtx finds: each has a sink
    next_id,   \* the id RecordTransCtx returns next
    peer,      \* the peer of a transaction
    told       \* history: what the sink of a transaction was told last

Ids == 1..MaxId
tableVars == <<live, next_id, peer, told>>

TableInit ==
    /\ live = {} /\ next_id = 1
    /\ peer = [id \in Ids |-> "none"]
    /\ told = [id \in Ids |-> "nothing"]

\* RecordTransCtx; ok: what the caller does with it succeeds and CancelTrans
\* does not take it back.  Without a sink nobody waits for the answer:
\* RecordTransCtx itself cancels the transaction, and returns its id all the same.
RecordTransCtx(id, of, sink, ok) ==
    /\ id = next_id /\ id \in Ids
    /\ next_id' = id + 1
    /\ live' = IF ok /\ sink THEN live \cup {id} ELSE live
    /\ peer' = [peer EXCEPT ![id] = of]
    /\ UNCHANGED told

\* The sink is told the end of id and CancelTrans removes it.
EndTrans(id, how) ==
    /\ live' = live \ {id}
    /\ told' = IF id \in live THEN [told EXCEPT ![id] = how] ELSE told
    /\ UNCHANGED <<next_id, peer>>

\* OnClosed of a peer: the sinks of its transactions are told.
TellSinks(of, how) ==
    /\ told' = [id \in Ids |-> IF id \in live /\ peer[id] = of THEN how ELSE told[id]]
    /\ UNCHANGED <<live, next_id, peer>>
=============================================================================
