---------------------------- MODULE MCUtterances ----------------------------
EXTENDS Utterances, RulePacks

MCThresholds == [asr |-> 70, quantity |-> 70, location |-> 70, item |-> 60]
MCNumbers == (0..250) \cup {7 * k : k \in 36..178} \cup {111 * k : k \in 10..99}
             \cup {1007 * k : k \in 10..140}
MCPacks == [en |-> English, es |-> Spanish]

Open(ws) == [k \in DOMAIN ws |-> [w |-> ws[k], end |-> FALSE]]
Closed(ws) == [k \in DOMAIN ws |-> [w |-> ws[k], end |-> k = Len(ws)]]

MCPhrases ==
    {Open(ws) : ws \in {<<"in", "bin", "a-14">>, <<"on", "the", "aisle", "five">>,
        <<"bin", "a">>, <<"five", "boxes", "of">>, <<"about", "twenty">>, <<"several">>,
        <<"hundred">>, <<"a", "box", "of">>, <<"bolts">>, <<"no">>, <<"and">>}}
    \cup {Closed(ws) : ws \in {<<"bolts">>, <<"no">>}}

MCNames == UNION {[1..n -> {"b", "e", "s", "-"}] : n \in 1..3}
           \cup {<<"b", "o", "l", "t">>, <<"b", "o", "l", "t", "s">>, <<"a", "-", "1", "4">>,
                 <<"a", "1", "4">>, <<"a", "-", "1", "5">>, <<"b", "o", "x", "e", "s">>}
=============================================================================
