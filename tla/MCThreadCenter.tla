--------------------------- MODULE MCThreadCenter ---------------------------
(* An io group <<t1>> and a work group <<t2>>, and a third group with both   *)
(* threads for broadcasts.  Inside OnStop only t1 pushes, to t2: the pushes  *)
(* made under the mutex form no cycle.                                       *)
EXTENDS ThreadCenter, TLC

CONSTANTS t1, t2

MCThreads == {t1, t2}
MCGroups == {<<t1>>, <<t2>>, <<t1, t2>>}
MCRelated == (t1 :> {<<t2>>, <<t1, t2>>}) @@ (t2 :> {<<t1>>})

\* One producer is enough to fill a pipe.
OneProducer == (t1 :> {<<t2>>, <<t1, t2>>}) @@ (t2 :> {})

MCStopRelated == (t1 :> {<<t2>>}) @@ (t2 :> {})

\* Every kind of notification for t2 / none.
AllNotices == (t1 :> [s |-> 0, r |-> 0, e |-> 1])
              @@ (t2 :> [s |-> 1, r |-> 1, e |-> 1])
NoNotices == [t \in MCThreads |-> [s |-> 0, r |-> 0, e |-> 0]]
=============================================================================
