---------------------------- MODULE MCConfWatch -----------------------------
EXTENDS ConfWatch

Text(n, s) == [i64 |-> n, f64 |-> n, str |-> s]

\* A file with few values, and one with others, two logics and an empty one.
MCDocs ==
    << [tcp_inactive_conn_life |-> <<Text(30, "30")>>, work_thread_count |-> <<Text(2, "2")>>],
       [tcp_inactive_conn_life |-> <<Text(90, "90")>>, web_use_bufferevent |-> <<Text(0, "no")>>,
        work_logic_so |-> <<Text(0, "a.so"), Text(0, ""), Text(0, "b.so")>>]
       @@ ("logic/value" :> <<Text(7, "7")>>) >>
=============================================================================
