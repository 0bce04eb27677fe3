---------------------------- MODULE MCModuleLife ----------------------------
EXTENDS ModuleLife

\* Configurations LoadAndCheckConf accepts: every kind of threads, with and
\* without the global logic the others use, and a group of two threads.
Counts(ks, n) == [k \in Kinds |-> IF k \in ks THEN n ELSE 0]

MCLogics == <<"logic">>
MCConfs == {[count |-> Counts({"global", "work", "proto"}, 1), common |-> TRUE],
            [count |-> Counts({"global", "work", "burden", "tcp"}, 1), common |-> FALSE],
            [count |-> Counts({"global", "web"}, 1), common |-> TRUE],
            [count |-> Counts({"tcp"}, 2), common |-> TRUE]}
=============================================================================
