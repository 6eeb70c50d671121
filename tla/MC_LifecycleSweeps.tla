------------------------- MODULE MC_LifecycleSweeps -------------------------
(* Two blocks, one of which blocks in work(), each on a worker of its own.  *)
EXTENDS LifecycleSweeps

CONSTANTS b1, b2, w1, w2, c1, c2

Order == <<b1, b2>>
Owner == (b1 :> w1) @@ (b2 :> w2)

Calls     == (c1 :> {"runAndWait", "start", "resume"}) @@ (c2 :> {"pause", "stop", "reset"})
InPairs   == (c1 :> {"start", "pause", "reset"}) @@ (c2 :> {"stop", "resume"})
Overtake  == (c1 :> {"start", "pause"}) @@ (c2 :> {"resume"})
Rerun     == (c1 :> {"runAndWait"}) @@ (c2 :> {"stop"})
=============================================================================
