------------------------- MODULE MC_WorkQuiescence -------------------------
(* Two workers of one scheduler, or a worker of a scheduler and a worker of *)
(* the sub-scheduler in its graph.                                          *)
EXTENDS WorkQuiescence, TLC

CONSTANTS w1, w2, x, y, outer, sub

OneHome   == (w1 :> outer) @@ (w2 :> outer)
NestHome  == (w1 :> outer) @@ (w2 :> sub)
NoSubs    == [s \in {outer} |-> <<>>]
Nested    == (outer :> <<sub>>) @@ (sub :> <<>>)
OwnOnly   == {<<s, s>> : s \in Schedulers}
OnOuter   == {<<outer, outer>>, <<sub, outer>>}
=============================================================================
