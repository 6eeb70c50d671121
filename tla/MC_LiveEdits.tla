----------------------------- MODULE MC_LiveEdits -----------------------------
(* A graph and its blocks around a run: the job lists and the primed loops    *)
(* that a start computes, and what callers change while the run is active,    *)
(* the settings of a block and the wiring of the graph.  `subject` is the one *)
(* a behaviour exercises, the others stay in one initial state.               *)
EXTENDS SettingsStore, GraphEdit, ExecutionOrder, TLC

CONSTANTS p, q, r,    \* blocks of the wiring
          a, b, c,    \* outputs
          x, y,       \* inputs
          u, i, d, g, \* blocks of the loops and the lists
          o1, o2      \* outputs

VARIABLE subject

editVars == <<settingsVars, graphVars, loopVars, orderVars, subject>>

\* p feeds r and q, q and r feed r and q: a chain, a fork and a swap of either input.
MCHolder == a :> p @@ b :> q @@ c :> r @@ x :> r @@ y :> q
MCPairs == {<<a, x>>, <<a, y>>, <<b, x>>, <<c, y>>}

\* i writes two samples for one, d one for two; g has no edge.
MCNodes == <<u, i, g, d>>
MCTakes == u :> 1 @@ i :> 1 @@ d :> 2 @@ g :> 1
MCGives == u :> 1 @@ i :> 2 @@ d :> 1 @@ g :> 1
MCEdges(outs) == [src : {u, i, d}, out : outs, dst : {u, i, d}]
\* Any three edges, and any four with one ring per block.  The two outputs of a block are alike.
MCGraphs ==
  {graph \in UNION {kSubset(k, MCEdges({o1, o2})) : k \in 0..3} \cup kSubset(4, MCEdges({o1})) :
     \A e \in graph : \E f \in graph : f.src = e.src /\ f.out = o1}

Init ==
  /\ subject \in {"settings", "wiring", "loops", "order"}
  /\ SettingsInit /\ GraphInit /\ LoopsInit /\ OrderInit
  /\ subject # "settings" => store = AfterInit([k \in Keys |-> 0], Empty)
  /\ subject \notin {"loops", "order"} => edges = {}
  /\ subject = "order" => edges \subseteq MCEdges({o1})   \* it looks at no outputs
  /\ groups \subseteq (IF subject = "order" THEN {g, d} ELSE {})
  /\ subject # "order" => traversal = "Simple"

Next ==
  /\ UNCHANGED subject
  /\ \/ subject = "settings" /\ SettingsNext /\ UNCHANGED <<graphVars, loopVars, orderVars>>
     \/ subject = "wiring" /\ GraphNext /\ UNCHANGED <<settingsVars, loopVars, orderVars>>
     \/ subject = "loops" /\ LoopsNext /\ UNCHANGED <<settingsVars, graphVars, orderVars>>
     \/ subject = "order" /\ OrderNext /\ UNCHANGED <<settingsVars, graphVars, loopVars>>

Spec == Init /\ [][Next]_editVars
=============================================================================
