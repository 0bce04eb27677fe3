---------------------------- MODULE SeqNumReuse -----------------------------
(***************************************************************************)
(* How soon SeqNum hands a freed number out again.  Queued tasks and late  *)
(* answers name a connection or a transaction by its number and are not    *)
(* withdrawn when it is freed: what protects them is that the cursor goes  *)
(* all the way round first.                                                *)
(***************************************************************************)
EXTENDS SeqNum

VARIABLE touched  \* history: touched[s], the numbers in use at some time
                  \* since s was last allocated ({} before that)

seqVars == <<cursor, inuse, touched>>

ReuseInit == SeqInit /\ touched = [s \in Seqs |-> {}]

Touch(s) ==
    touched' = [u \in Seqs |-> IF u = s THEN inuse \cup {s}
                               ELSE IF touched[u] = {} THEN {}
                               ELSE touched[u] \cup {s}]

ReuseNext ==
    \/ \E s \in Seqs : Alloc(s) /\ Touch(s)
    \/ \E s \in Seqs : Free(s) /\ UNCHANGED touched
    \/ AllocFails /\ UNCHANGED touched
    \/ Reset /\ touched' = [s \in Seqs |-> {}]

ReuseSpec == ReuseInit /\ [][ReuseNext]_seqVars

-----------------------------------------------------------------------------
\* Types of SeqNum: cursor_ and the numbers in use stay in the range.
SeqTypeOK ==
    /\ cursor \in (SeqMin - 1)..SeqMax
    /\ inuse \subseteq Seqs
    /\ touched \in [Seqs -> SUBSET Seqs]

\* Alloc finds a number whenever one is free: its loop ends, and
\* INVALID_SEQ_NUM is returned only when all are in use.
AllocFindsFree == inuse # Seqs => \E s \in Seqs : IsNext(s)

\* A number is handed out again only after every other number has been in use
\* since: Alloc never falls back to a number freed a moment ago.
FullCircle ==
    [][\A s \in Seqs :
          (s \in inuse' \ inuse /\ touched[s] # {}) => touched[s] = Seqs]_seqVars

\* The numbers the cursor has passed since it was at s.
Passed(s) ==
    IF s <= cursor THEN s..cursor ELSE (s..SeqMax) \cup (SeqMin..cursor)

\* Why FullCircle holds: since s was allocated, everything the cursor passed
\* and everything in use now has been in use.
CircleInv ==
    \A s \in Seqs : touched[s] # {} =>
        /\ cursor \in Seqs
        /\ inuse \subseteq touched[s]
        /\ Passed(s) \subseteq touched[s]
=============================================================================
