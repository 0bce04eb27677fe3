------------------------------- MODULE SeqNum -------------------------------
(***************************************************************************)
(* base/inc/seq_num.h: the numbers seq_min..seq_max, handed out in cyclic  *)
(* order, skipping those in use.  Connection ids and transaction ids are   *)
(* such numbers.                                                           *)
(***************************************************************************)
EXTENDS Integers

CONSTANTS SeqMin, SeqMax

\* SeqNum() throws for other parameters.
ASSUME SeqAssumption ==
    SeqMin \in Nat /\ SeqMax \in Nat /\ SeqMin > 0 /\ SeqMax > SeqMin

VARIABLES cursor,   \* cursor_
          inuse     \* inuse_seqs_

Seqs == SeqMin..SeqMax

SeqInit == cursor = SeqMin - 1 /\ inuse = {}

\* Mutant: the search does not go round the end.
IsNextNoWrap(s) ==
    /\ s \in Seqs \ inuse
    /\ s > cursor
    /\ (cursor + 1)..(s - 1) \subseteq inuse

\* What Alloc's loop stops at: every number between the cursor and s, round
\* the end if need be, is in use and s is not.
IsNext(s) ==
    /\ s \in Seqs \ inuse
    /\ \/ /\ s > cursor
          /\ (cursor + 1)..(s - 1) \subseteq inuse
       \/ /\ s <= cursor
          /\ ((cursor + 1)..SeqMax) \cup (SeqMin..(s - 1)) \subseteq inuse

\* Mutant: the smallest free number is taken.
AllocSmallest(s) ==
    /\ s \in Seqs \ inuse /\ SeqMin..(s - 1) \subseteq inuse
    /\ cursor' = s /\ inuse' = inuse \cup {s}

\* Alloc returning s.
Alloc(s) == IsNext(s) /\ cursor' = s /\ inuse' = inuse \cup {s}

\* Alloc returning INVALID_SEQ_NUM.
AllocFails == inuse = Seqs /\ UNCHANGED <<cursor, inuse>>

Free(s) == inuse' = inuse \ {s} /\ UNCHANGED cursor

Reset == cursor' = SeqMin - 1 /\ inuse' = {}
=============================================================================
