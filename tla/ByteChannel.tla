---------------------------- MODULE ByteChannel -----------------------------
(***************************************************************************)
(* What a connection promises of the bytes given to Send: the peer gets    *)
(* them once each and in order, never a byte that was not given, until the *)
(* connection is closed.  What was not delivered by then is lost.          *)
(***************************************************************************)
EXTENDS Sequences, SequencesExt

VARIABLES accepted, delivered, up

Init == accepted = <<>> /\ delivered = <<>> /\ up = TRUE

Accept ==
    /\ up /\ up' = TRUE
    /\ IsPrefix(accepted, accepted')
    /\ UNCHANGED delivered

Deliver ==
    /\ up /\ up' = TRUE
    /\ IsPrefix(delivered, delivered') /\ IsPrefix(delivered', accepted)
    /\ UNCHANGED accepted

Close ==
    /\ up /\ ~up'
    /\ IsPrefix(accepted, accepted')
    /\ UNCHANGED delivered

Next == Accept \/ Deliver \/ Close

Spec == Init /\ [][Next]_<<accepted, delivered, up>>
=============================================================================
