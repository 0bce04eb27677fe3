----------------------------- MODULE MCAppFrame -----------------------------
(* The global thread g and one work thread w, each pushing to the other     *)
(* (SetThreadsRelationship relates them both ways).  Inside OnStop only w    *)
(* pushes, to g.                                                             *)
EXTENDS AppFrame, TLC

CONSTANTS g, w

MCThreads == {g, w}
MCGroups == {<<g>>, <<w>>}
MCGroupSeq == <<<<g>>, <<w>>>>
MCRelated == (g :> {<<w>>}) @@ (w :> {<<g>>, <<w>>})
MCStopRelated == (g :> {}) @@ (w :> {<<g>>})

\* What README.md allows the groups (work to every group and its own, global
\* to work), used inside OnStop as well.
CyclicStopRelated == (g :> {<<w>>}) @@ (w :> {<<g>>, <<w>>})

MCNotices == [t \in MCThreads |-> [s |-> 1, r |-> MaxReloads, e |-> 1]]
=============================================================================
