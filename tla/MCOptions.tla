----------------------------- MODULE MCOptions -----------------------------
(* Instances of Options for TLC: two fields, a name that another extends,  *)
(* values of one and of two words, cookies.                                *)
EXTENDS Options

MCName == {"a", "b", "a-"}
MCExtends == {<<"a-", "a">>}

One == <<"x">>
Two == <<"y", "z">>
Pair(n, v) == [name |-> n, value |-> v]
Lists(S, n) == UNION {[1 .. k -> S] : k \in 0 .. n}

MCRequests ==
    [get : Lists({Pair("a", One), Pair("b", Two)}, 2) \cup
             { <<Pair("a", Two), Pair("a-", One), Pair("a", One)>>,
               <<Pair("a-", One), Pair("a", <<>>), Pair("b", One)>>,
               <<Pair("a", <<>>), Pair("a", Two), Pair("a", One)>> },
     post : { <<>>, <<Pair("a", One)>> },
     cookie : { <<>>, <<Pair(<<"k">>, Two), Pair(<<"l">>, One), Pair(<<"k">>, One)>> }]
=============================================================================
