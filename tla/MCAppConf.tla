------------------------------ MODULE MCAppConf -----------------------------
(***************************************************************************)
(* Every configuration with thread counts -1, 0 and 1 is started; four are *)
(* followed further, into what their threads' schedulers do.               *)
(***************************************************************************)
EXTENDS Dispatch

MCCounts == {-1, 0, 1, 2}

\* A configuration with these threads, logics everywhere and addresses for
\* the io groups that have threads.
WithThreads(global, count) ==
    [global |-> global,
     count |-> [k \in Counted |-> IF k \in DOMAIN count THEN count[k] ELSE 0],
     logics |-> [k \in Counted |-> TRUE],
     addr |-> [k \in IOs |-> k \in DOMAIN count]]

MCBusy ==
    {WithThreads(TRUE, [work |-> 2, proto_tcp |-> 1]),
     WithThreads(FALSE, [work |-> 1, proto_tcp |-> 1, web |-> 1]),
     WithThreads(TRUE, [proto_tcp |-> 2]),
     WithThreads(TRUE, [work |-> 1, burden |-> 2, tcp |-> 1])}

MCStartConfs ==
    [global : BOOLEAN, count : [Counted -> {-1, 0, 1}],
     logics : [Counted -> BOOLEAN], addr : [IOs -> BOOLEAN]] \cup MCBusy
=============================================================================
