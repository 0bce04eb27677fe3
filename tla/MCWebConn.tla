----------------------------- MODULE MCWebConn ------------------------------
EXTENDS WebConn

CONSTANTS c1, c2

Post == <<"u1", "u2", "h", "b", "e">>
Short == <<"u1", "u2", "h", "e">>
Get == <<"u1", "u2", "g">>
Form == <<"u1", "u2", "f", "b", "e">>
Upgrade == <<"u1", "u2", "up">>
Pair(a, b) == [c \in {c1, c2} |-> IF c = c1 THEN a ELSE b]

\* Requests that follow one another and requests that are no more; multipart
\* requests before and beside others; fragments with a ping between them.
MCScripts ==
    {Pair(Post \o Short, <<>>), Pair(Get \o <<"x">>, Short),
     Pair(Form \o Short, Form), Pair(Form, Short),
     Pair(Upgrade \o <<"t0", "d", "p", "d", "n1", "d">>, <<>>),
     Pair(Upgrade \o <<"t1", "d", "c", "d">>, Get)}
=============================================================================
