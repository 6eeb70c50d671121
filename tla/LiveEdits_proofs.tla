---------------------------- MODULE LiveEdits_proofs ----------------------------
(***************************************************************************)
(* What callers change around a run, for any number of edits: the wiring   *)
(* of a graph and the settings of a block.                                 *)
(*                                                                         *)
(* The four parts of WiringKept hold together: a removal tears a port down *)
(* only as long as every reader is listed (ReadersListed) and one edge     *)
(* takes an input (InputsTakenOnce), and a restart finds the edges whose   *)
(* input holds nothing only as long as no input holds the ring of another  *)
(* output (InputsAsListed).  The readers of a source that runs are called  *)
(* as every reader is, as long as a worker is left (ReadersAreServed).     *)
(*                                                                         *)
(* Of the settings, what an apply takes before it releases the lock has to *)
(* fit whatever store it meets afterwards (SettingsInv): sorted sets, a    *)
(* default context that keeps a present one, an active context that has    *)
(* one.  That set() stops a key from following tags rests on one entry of  *)
(* autoUpdate per stored set and on what a reset saved of them (FollowInv).*)
(***************************************************************************)
EXTENDS GraphEdit, SettingsStore, SequenceTheorems, FiniteSetTheorems, WellFoundedInduction, TLAPS

-----------------------------------------------------------------------------
(* The wiring. *)

States == {"ABSENT", "ZOMBIE", "STOPPED", "REQUESTED_STOP", "RUNNING", "ERROR"}
Edges == [src : Outs, dst : Ins, as : Namings, state : {"Waiting", "Connected"}]
Nets == [edges : SUBSET Edges, reads : [Ins -> Outs \cup {None}]]

Types ==
  /\ net \in Nets /\ blockState \in [Blocks -> States]
  /\ served \in SUBSET Blocks /\ running \in BOOLEAN

\* A listed edge joins two blocks of the graph.
EdgesInGraph == \A e \in net.edges : InGraph(Holder[e.src]) /\ InGraph(Holder[e.dst])

\* The input of an edge reads the edge's output or nothing.  Before a run the input of a
\* waiting edge may still hold the ring of a block that was removed.
InputsAsListed ==
  \A e \in net.edges : running \/ e.state = "Connected" => net.reads[e.dst] \in {e.src, None}

\* A block that is called in a run has a worker, and so has one whose input holds a ring,
\* until the last worker has left.
CalledAreServed == running => \A b \in Blocks : blockState[b] \in {"RUNNING", "REQUESTED_STOP"} => b \in served
ReadersAreServed == running /\ served # {} => \A i \in Ins : InConnected(net, i) => Holder[i] \in served

GraphInv ==
  /\ Types /\ EdgesInGraph /\ InputsTakenOnce /\ ReadersListed /\ InputsAsListed
  /\ EdgesCarry /\ CalledAreServed /\ ReadersAreServed

-----------------------------------------------------------------------------
(* What the operators on the wiring do. *)

LEMMA Releasing ==
  ASSUME NEW n \in Nets, NEW I, NEW m, m = releaseInputs(n, I)
  PROVE  /\ m \in Nets /\ m.edges = n.edges
         /\ \A i \in Ins : m.reads[i] = IF i \in I THEN None ELSE n.reads[i]
BY DEF releaseInputs, Nets

LEMMA ReleasingOutputs ==
  ASSUME NEW n \in Nets, NEW O, NEW m, m = releaseOutputs(n, O)
  PROVE  /\ m \in Nets /\ m.edges = n.edges
         /\ \A i \in Ins : m.reads[i] = IF n.reads[i] \in O THEN None ELSE n.reads[i]
<1> DEFINE I == {i \in Ins : n.reads[i] \in O}
<1>1. m = releaseInputs(n, I)
  BY DEF releaseOutputs
<1> QED
  BY <1>1, Releasing

\* Joining pairs of ports, no input twice.
LEMMA Connecting ==
  ASSUME NEW n \in Nets, NEW pairs \in SUBSET (Outs \X Ins), NEW m, m = connectPorts(n, pairs),
         \A s, t \in pairs : s[2] = t[2] => s = t
  PROVE  /\ m \in Nets /\ m.edges = n.edges
         /\ \A t \in pairs : m.reads[t[2]] = t[1]
         /\ \A i \in Ins : (\A t \in pairs : t[2] # i) => m.reads[i] = n.reads[i]
<1> DEFINE from(i) == CHOOSE t \in pairs : t[2] = i
           reads == [i \in Ins |-> IF \E t \in pairs : t[2] = i THEN from(i)[1] ELSE n.reads[i]]
<1>1. m.edges = n.edges /\ m.reads = reads /\ m = [edges |-> n.edges, reads |-> reads]
  BY DEF connectPorts, Nets
<1>2. ASSUME NEW t \in pairs PROVE from(t[2]) = t
  OBVIOUS
<1>3. \A t \in pairs : t[2] \in Ins /\ t[1] \in Outs
  OBVIOUS
<1> HIDE DEF from
<1>4. \A t \in pairs : reads[t[2]] = t[1]
  BY <1>2, <1>3
<1>5. \A i \in Ins : (\A t \in pairs : t[2] # i) => reads[i] = n.reads[i]
  OBVIOUS
<1>6. ASSUME NEW i \in Ins PROVE reads[i] \in Outs \cup {None}
  <2>1. CASE \E t \in pairs : t[2] = i
    <3>1. PICK t \in pairs : t[2] = i
      BY <2>1
    <3> HIDE DEF reads
    <3> QED BY <3>1, <1>3, <1>4
  <2>2. CASE \A t \in pairs : t[2] # i
    <3> HIDE DEF reads
    <3> QED BY <2>2, <1>5 DEF Nets
  <2> QED BY <2>1, <2>2
<1>7. reads \in [Ins -> Outs \cup {None}]
  BY <1>6
<1> HIDE DEF reads
<1> QED
  BY <1>1, <1>4, <1>5, <1>7 DEF Nets

LEMMA Applying ==
  ASSUME NEW n \in Nets, NEW W \in SUBSET n.edges, NEW m, m = applyEdges(n, W),
         \A d, e \in W : d.dst = e.dst => d = e
  PROVE  /\ m \in Nets
         /\ m.edges = (n.edges \ W) \cup {[e EXCEPT !.state = "Connected"] : e \in W}
         /\ \A e \in W : m.reads[e.dst] = e.src
         /\ \A i \in Ins : (\A e \in W : e.dst # i) => m.reads[i] = n.reads[i]
<1> DEFINE from(i) == CHOOSE e \in W : e.dst = i
           reads == [i \in Ins |-> IF \E e \in W : e.dst = i THEN from(i).src ELSE n.reads[i]]
           edges == (n.edges \ W) \cup {[e EXCEPT !.state = "Connected"] : e \in W}
<1>1. m = [edges |-> edges, reads |-> reads]
  BY DEF applyEdges
<1>2. ASSUME NEW e \in W PROVE from(e.dst) = e
  OBVIOUS
<1>3. \A e \in W : e \in Edges /\ e.dst \in Ins /\ e.src \in Outs
  BY DEF Nets, Edges
<1> HIDE DEF from
<1>4. \A e \in W : reads[e.dst] = e.src
  BY <1>2, <1>3
<1>5. \A i \in Ins : (\A e \in W : e.dst # i) => reads[i] = n.reads[i]
  OBVIOUS
<1>6. ASSUME NEW i \in Ins PROVE reads[i] \in Outs \cup {None}
  <2>1. CASE \E e \in W : e.dst = i
    <3>1. PICK e \in W : e.dst = i
      BY <2>1
    <3> HIDE DEF reads
    <3> QED BY <3>1, <1>3, <1>4
  <2>2. CASE \A e \in W : e.dst # i
    <3> HIDE DEF reads
    <3> QED BY <2>2, <1>5 DEF Nets
  <2> QED BY <2>1, <2>2
<1>7. reads \in [Ins -> Outs \cup {None}]
  BY <1>6
<1>8. \A e \in W : [e EXCEPT !.state = "Connected"] \in Edges
  BY <1>3 DEF Edges
<1>9. edges \in SUBSET Edges
  BY <1>8 DEF Nets
<1> HIDE DEF reads, edges
<1>10. m \in Nets /\ m.edges = edges /\ m.reads = reads
  BY <1>1, <1>7, <1>9 DEF Nets
<1> QED
  BY <1>4, <1>5, <1>10 DEF edges

\* An edge that is applied keeps its ports.
LEMMA AppliedEdges ==
  ASSUME NEW n \in Nets, NEW W \in SUBSET n.edges,
         NEW d \in (n.edges \ W) \cup {[e EXCEPT !.state = "Connected"] : e \in W}
  PROVE  \E e \in n.edges : /\ d.src = e.src /\ d.dst = e.dst
                            /\ e \in W => d = [e EXCEPT !.state = "Connected"]
                            /\ e \notin W => d = e
<1>1. \A e \in W : e \in Edges
  BY DEF Nets
<1>2. \A e \in W : LET f == [e EXCEPT !.state = "Connected"] IN f.src = e.src /\ f.dst = e.dst
  BY <1>1 DEF Edges
<1> QED
  BY <1>2

-----------------------------------------------------------------------------
LEMMA InitKept == GraphInit => GraphInv
<1> SUFFICES ASSUME GraphInit PROVE GraphInv
  OBVIOUS
<1>1. net.edges = {} /\ net \in Nets /\ \A i \in Ins : net.reads[i] = None
  BY DEF GraphInit, Nets
<1> QED
  BY <1>1 DEF GraphInit, GraphInv, Types, States, EdgesInGraph, InputsTakenOnce, ReadersListed, InputsAsListed, EdgesCarry,
              CalledAreServed, ReadersAreServed, InConnected

\* An edit that adds no edge and joins no ports, in a run or out of it.
LEMMA NothingJoined ==
  ASSUME GraphInv, net' \in Nets, net'.edges \subseteq net.edges,
         \A i \in Ins : net'.reads[i] \in {net.reads[i], None}, running' => running
  PROVE  InputsTakenOnce' /\ InputsAsListed'
BY DEF GraphInv, Types, Nets, Edges, InputsTakenOnce, InputsAsListed


LEMMA ConnectKept ==
  ASSUME GraphInv, NEW pair \in Pairs, NEW as \in Namings, Connect(pair, as)
  PROVE  GraphInv'
<1> DEFINE new == NewEdge(pair, as)
<1> USE DEF GraphInv
<1>1. /\ ~running /\ ~running' /\ net'.edges = net.edges \cup {new} /\ net'.reads = net.reads
      /\ net' = [net EXCEPT !.edges = @ \cup {new}]
      /\ blockState' = blockState /\ served' = served /\ running' = running
  BY DEF Connect, Types, Nets
<1>2. pair[1] \in Outs /\ pair[2] \in Ins
  BY PortsHeld
<1>3. new \in Edges /\ new.src = pair[1] /\ new.dst = pair[2] /\ new.state = "Waiting"
  BY <1>2 DEF NewEdge, Edges
<1> HIDE DEF new
<1>4. Types'
  BY <1>1, <1>3 DEF Types, Nets
<1>5. EdgesInGraph'
  BY <1>1, <1>3 DEF EdgesInGraph, InGraph, Connect
<1>6. InputsTakenOnce'
  <2>1. \A e \in net.edges : e.dst # new.dst
    BY DEF Connect, hasSameInput, new
  <2> QED BY <1>1, <2>1 DEF InputsTakenOnce
<1>7. ReadersListed'
  BY <1>1 DEF ReadersListed, InConnected
<1>8. InputsAsListed'
  BY <1>1, <1>3 DEF InputsAsListed
<1> QED
  BY <1>1, <1>4, <1>5, <1>6, <1>7, <1>8 DEF EdgesCarry, CalledAreServed, ReadersAreServed

-----------------------------------------------------------------------------
(* The steps of blocks and workers. *)

LEMMA FinishKept ==
  ASSUME GraphInv, NEW b \in Blocks, Finish(b) \/ CallStopped(b)
  PROVE  GraphInv'
<1> USE DEF GraphInv
<1>1. /\ running /\ running' /\ blockState' = [blockState EXCEPT ![b] = "STOPPED"]
      /\ net' = releaseInputs(net, InsOf(b)) /\ served' = served /\ InGraph(b)
  BY DEF Finish, CallStopped, InGraph, StoppedOrStopping
<1>2. /\ net' \in Nets /\ net'.edges = net.edges
      /\ \A i \in Ins : net'.reads[i] = IF i \in InsOf(b) THEN None ELSE net.reads[i]
  BY <1>1, Releasing DEF Types
<1>3. /\ blockState' \in [Blocks -> States] /\ blockState'[b] = "STOPPED" /\ blockState[b] # "ZOMBIE" /\ InGraph(b)'
      /\ \A d \in Blocks \ {b} : blockState'[d] = blockState[d]
  BY <1>1 DEF Types, States, InGraph
<1>4. Types'
  BY <1>1, <1>2, <1>3 DEF Types
<1>5. EdgesInGraph'
  BY <1>1, <1>2, <1>3 DEF EdgesInGraph, InGraph, Types
<1>6. InputsTakenOnce' /\ InputsAsListed'
  BY <1>1, <1>2, NothingJoined
<1>7. ReadersListed'
  BY <1>1, <1>2, <1>3, PortsHeld DEF ReadersListed, InConnected, Types, Nets
<1>8. EdgesCarry'
  BY <1>1, <1>2, <1>3, PortsHeld DEF EdgesCarry, InsOf, Types, Nets, Edges
<1>9. CalledAreServed' /\ ReadersAreServed'
  BY <1>1, <1>2, <1>3 DEF CalledAreServed, ReadersAreServed, InConnected
<1> QED
  BY <1>4, <1>5, <1>6, <1>7, <1>8, <1>9

LEMMA LoseReadersKept ==
  ASSUME GraphInv, NEW b \in Blocks, LoseReaders(b)
  PROVE  GraphInv'
<1> USE DEF GraphInv
<1>1. /\ running /\ running' /\ blockState' = [blockState EXCEPT ![b] = "REQUESTED_STOP"]
      /\ net' = net /\ served' = served /\ b \in served /\ blockState[b] = "RUNNING"
  BY DEF LoseReaders
<1>2. /\ blockState' \in [Blocks -> States] /\ blockState'[b] = "REQUESTED_STOP"
      /\ \A d \in Blocks \ {b} : blockState'[d] = blockState[d]
  BY <1>1 DEF Types, States
<1>3. Types' /\ EdgesInGraph' /\ InputsTakenOnce' /\ InputsAsListed'
  BY <1>1, <1>2 DEF Types, EdgesInGraph, InGraph, InputsTakenOnce, InputsAsListed
<1>4. ReadersListed'
  BY <1>1, <1>2, PortsHeld DEF ReadersListed, InConnected, Types, Nets
<1>5. EdgesCarry'
  BY <1>1, <1>2, PortsHeld DEF EdgesCarry, Types, Nets, Edges
<1>6. CalledAreServed' /\ ReadersAreServed'
  BY <1>1, <1>2 DEF CalledAreServed, ReadersAreServed, InConnected
<1> QED
  BY <1>3, <1>4, <1>5, <1>6

\* A block whose worker leaves holds no ring and is not called.
LEMMA LeaveKept ==
  ASSUME GraphInv, NEW b \in Blocks, Leave(b)
  PROVE  GraphInv'
<1> USE DEF GraphInv
<1>1. /\ blockState[b] = "STOPPED" /\ served' = served \ {b}
      /\ net' = net /\ blockState' = blockState /\ running' = running
      /\ \A i \in InsOf(b) : ~InConnected(net, i)
  BY DEF Leave
<1>2. /\ Types' /\ EdgesInGraph' /\ InputsTakenOnce' /\ InputsAsListed' /\ ReadersListed' /\ EdgesCarry'
  BY <1>1 DEF Types, EdgesInGraph, InGraph, InputsTakenOnce, InputsAsListed, ReadersListed, EdgesCarry, InConnected
<1>3. CalledAreServed' /\ ReadersAreServed'
  BY <1>1 DEF CalledAreServed, ReadersAreServed, InConnected, InsOf
<1> QED
  BY <1>2, <1>3

LEMMA RemoveBlockKept ==
  ASSUME GraphInv, NEW b \in Blocks, RemoveBlock(b)
  PROVE  GraphInv'
<1> USE DEF GraphInv
<1>1. /\ blockState' = [blockState EXCEPT ![b] = "ZOMBIE"] /\ served' = served /\ running' = running
      /\ net' = [net EXCEPT !.edges = {e \in @ : b \notin {Holder[e.src], Holder[e.dst]}}]
  BY DEF RemoveBlock
<1>2. /\ net' \in Nets /\ net'.reads = net.reads
      /\ net'.edges = {e \in net.edges : b \notin {Holder[e.src], Holder[e.dst]}}
  BY <1>1 DEF Types, Nets
<1>3. /\ blockState' \in [Blocks -> States] /\ blockState'[b] = "ZOMBIE"
      /\ \A d \in Blocks \ {b} : blockState'[d] = blockState[d]
  BY <1>1 DEF Types, States
<1>4. Types'
  BY <1>1, <1>2, <1>3 DEF Types
<1>5. EdgesInGraph'
  BY <1>2, <1>3, PortsHeld DEF EdgesInGraph, InGraph, Types, Nets, Edges
<1>6. InputsTakenOnce' /\ InputsAsListed'
  BY <1>1, <1>2, NothingJoined DEF Types, Nets
<1>7. ReadersListed'
  BY <1>2, <1>3, PortsHeld DEF ReadersListed, InConnected, Types, Nets
<1>8. EdgesCarry'
  BY <1>1, <1>2, <1>3, PortsHeld DEF EdgesCarry, Types, Nets, Edges
<1>9. CalledAreServed' /\ ReadersAreServed'
  BY <1>1, <1>2, <1>3 DEF CalledAreServed, ReadersAreServed, InConnected
<1> QED
  BY <1>4, <1>5, <1>6, <1>7, <1>8, <1>9

LEMMA DropZombieKept ==
  ASSUME GraphInv, NEW b \in Blocks, DropZombie(b)
  PROVE  GraphInv'
<1> USE DEF GraphInv
<1> DEFINE mid == releaseInputs(net, InsOf(b))
<1>1. /\ blockState' = [blockState EXCEPT ![b] = "ABSENT"] /\ served' = served \ {b} /\ running' = running
      /\ net' = releaseOutputs(mid, OutsOf(b)) /\ blockState[b] = "ZOMBIE"
  BY DEF DropZombie
<1>2. /\ mid \in Nets /\ mid.edges = net.edges
      /\ \A i \in Ins : mid.reads[i] = IF i \in InsOf(b) THEN None ELSE net.reads[i]
  BY Releasing DEF Types
<1> HIDE DEF mid
<1>3. /\ net' \in Nets /\ net'.edges = net.edges
      /\ \A i \in Ins : net'.reads[i] = IF mid.reads[i] \in OutsOf(b) THEN None ELSE mid.reads[i]
  BY <1>1, <1>2, ReleasingOutputs
<1>4. \A i \in Ins : net'.reads[i] # None => net'.reads[i] = net.reads[i] /\ Holder[i] # b /\ Holder[net.reads[i]] # b
  BY <1>2, <1>3 DEF InsOf, OutsOf, Types, Nets
<1>5. /\ blockState' \in [Blocks -> States] /\ blockState'[b] = "ABSENT"
      /\ \A d \in Blocks \ {b} : blockState'[d] = blockState[d]
  BY <1>1 DEF Types, States
<1>6. \A e \in net.edges : Holder[e.src] \in Blocks \ {b} /\ Holder[e.dst] \in Blocks \ {b}
  BY <1>1, PortsHeld DEF EdgesInGraph, InGraph, Types, Nets, Edges
<1>7. Types'
  BY <1>1, <1>3, <1>5 DEF Types
<1>8. EdgesInGraph'
  BY <1>3, <1>5, <1>6 DEF EdgesInGraph, InGraph
<1>9. InputsTakenOnce' /\ InputsAsListed'
  BY <1>1, <1>3, <1>4, NothingJoined
<1>10. ReadersListed'
  BY <1>3, <1>4, <1>5, PortsHeld DEF ReadersListed, InConnected, Types, Nets
<1>11. EdgesCarry'
  <2>1. ASSUME running, NEW e \in net.edges, blockState'[Holder[e.src]] = "RUNNING", blockState'[Holder[e.dst]] = "RUNNING"
        PROVE  net'.reads[e.dst] = e.src
    <3>1. net.reads[e.dst] = e.src /\ e.dst \in Ins /\ e.src \in Outs
      BY <2>1, <1>5, <1>6 DEF EdgesCarry, Types, Nets, Edges
    <3>2. mid.reads[e.dst] = e.src
      BY <3>1, <1>2, <1>6 DEF InsOf
    <3> QED BY <3>1, <3>2, <1>3, <1>6 DEF OutsOf
  <2> QED BY <2>1, <1>1, <1>3 DEF EdgesCarry
<1>12. CalledAreServed' /\ ReadersAreServed'
  BY <1>1, <1>4, <1>5 DEF CalledAreServed, ReadersAreServed, InConnected
<1> QED
  BY <1>7, <1>8, <1>9, <1>10, <1>11, <1>12

LEMMA EmplaceBlockKept ==
  ASSUME GraphInv, NEW b \in Blocks, EmplaceBlock(b)
  PROVE  GraphInv'
<1> USE DEF GraphInv
<1>1. PICK s \in joinRun :
        /\ blockState' = [blockState EXCEPT ![b] = s]
        /\ served' = (IF s = "RUNNING" THEN served \cup {b} ELSE served) /\ running' = running
        /\ net' = net /\ blockState[b] = "ABSENT"
        /\ s \in {"RUNNING", "STOPPED", "ERROR"} /\ (s = "RUNNING" => running /\ served # {})
  BY DEF EmplaceBlock, joinRun
<1>2. /\ blockState' \in [Blocks -> States] /\ blockState'[b] = s
      /\ \A d \in Blocks \ {b} : blockState'[d] = blockState[d]
  BY <1>1 DEF Types, States
<1>3. \A e \in net.edges : Holder[e.src] \in Blocks \ {b} /\ Holder[e.dst] \in Blocks \ {b}
  BY <1>1, PortsHeld DEF EdgesInGraph, InGraph, Types, Nets, Edges
<1>4. Types'
  BY <1>1, <1>2 DEF Types
<1>5. EdgesInGraph' /\ EdgesCarry'
  BY <1>1, <1>2, <1>3 DEF EdgesInGraph, InGraph, EdgesCarry
<1>6. InputsTakenOnce' /\ InputsAsListed'
  BY <1>1 DEF InputsTakenOnce, InputsAsListed
<1>7. ReadersListed'
  BY <1>1, <1>2, PortsHeld DEF ReadersListed, InConnected, Types, Nets
<1>8. CalledAreServed' /\ ReadersAreServed'
  BY <1>1, <1>2 DEF CalledAreServed, ReadersAreServed, InConnected
<1> QED
  BY <1>4, <1>5, <1>6, <1>7, <1>8

-----------------------------------------------------------------------------
(* A run begins and ends. *)

\* The edges still waiting are connected, and the others keep their inputs.
LEMMA PendingConnected ==
  ASSUME NEW n \in Nets, NEW m, m = connectPendingEdges(n), \A d, e \in n.edges : d.dst = e.dst => d = e
  PROVE  /\ m \in Nets /\ \A d \in m.edges : d.state = "Connected"
         /\ \A d \in m.edges : \E e \in n.edges :
              d.src = e.src /\ d.dst = e.dst /\ d.as = e.as /\ m.reads[e.dst] = IF e.state = "Waiting" THEN e.src ELSE n.reads[e.dst]
         /\ \A e \in n.edges : \E d \in m.edges : d.src = e.src /\ d.dst = e.dst
         /\ \A i \in Ins : \/ m.reads[i] = n.reads[i]
                           \/ \E e \in n.edges : e.state = "Waiting" /\ e.dst = i /\ m.reads[i] = e.src
<1> DEFINE W == {e \in n.edges : e.state = "Waiting"}
           on(e) == [e EXCEPT !.state = "Connected"]
<1>1. W \in SUBSET n.edges /\ m = applyEdges(n, W) /\ \A d, e \in W : d.dst = e.dst => d = e
  BY DEF connectPendingEdges
<1>2. /\ m \in Nets /\ m.edges = (n.edges \ W) \cup {on(e) : e \in W}
      /\ \A e \in W : m.reads[e.dst] = e.src
      /\ \A i \in Ins : (\A e \in W : e.dst # i) => m.reads[i] = n.reads[i]
  BY <1>1, Applying
<1>3. \A e \in n.edges : e \in Edges /\ e.dst \in Ins /\ e.state \in {"Waiting", "Connected"}
  BY DEF Nets, Edges
<1>4. \A e \in n.edges : on(e).src = e.src /\ on(e).dst = e.dst /\ on(e).as = e.as /\ on(e).state = "Connected"
  BY <1>3 DEF Edges
<1>5. \A e \in n.edges : m.reads[e.dst] = IF e.state = "Waiting" THEN e.src ELSE n.reads[e.dst]
  BY <1>2, <1>3
<1> HIDE DEF on
<1>6. \A d \in m.edges : \E e \in n.edges : (d = e /\ e.state # "Waiting") \/ d = on(e)
  BY <1>2
<1>7. \A d \in m.edges : d.state = "Connected"
  BY <1>3, <1>4, <1>6
<1>8. \A e \in n.edges : \E d \in m.edges : d.src = e.src /\ d.dst = e.dst
  BY <1>2, <1>4
<1>9. \A i \in Ins : \/ m.reads[i] = n.reads[i]
                     \/ \E e \in n.edges : e.state = "Waiting" /\ e.dst = i /\ m.reads[i] = e.src
  BY <1>2
<1>10. \A d \in m.edges : \E e \in n.edges :
         d.src = e.src /\ d.dst = e.dst /\ d.as = e.as /\ m.reads[e.dst] = IF e.state = "Waiting" THEN e.src ELSE n.reads[e.dst]
  BY <1>4, <1>5, <1>6
<1> QED
  BY <1>2, <1>7, <1>8, <1>9, <1>10

\* Two edges of one input stay one edge when all of them are connected.
LEMMA ConnectedOnce ==
  ASSUME NEW n \in Nets, NEW m \in Nets, \A d, e \in n.edges : d.dst = e.dst => d = e,
         \A d \in m.edges : d.state = "Connected",
         \A d \in m.edges : \E e \in n.edges : d.src = e.src /\ d.dst = e.dst /\ d.as = e.as
  PROVE  \A d, e \in m.edges : d.dst = e.dst => d = e
BY DEF Nets, Edges

LEMMA StartKept ==
  ASSUME GraphInv, Start
  PROVE  GraphInv'
<1> USE DEF GraphInv
<1> DEFINE cut == disconnectAllEdges(net)
           off(e) == [e EXCEPT !.state = "Waiting"]
<1>1. /\ running' = TRUE /\ net' = connectPendingEdges(cut) /\ served' = {b \in Blocks : InGraph(b)}
      /\ blockState' = [b \in Blocks |-> IF InGraph(b) THEN "RUNNING" ELSE blockState[b]]
  BY DEF Start
<1>2. \A e \in net.edges : e \in Edges
  BY DEF Types, Nets
<1>3. \A e \in net.edges : off(e) \in Edges /\ off(e).src = e.src /\ off(e).dst = e.dst /\ off(e).state = "Waiting"
  BY <1>2 DEF Edges
<1>4. cut.edges = {off(e) : e \in net.edges} /\ cut.reads = [i \in Ins |-> None]
      /\ cut = [edges |-> {off(e) : e \in net.edges}, reads |-> [i \in Ins |-> None]]
  BY DEF disconnectAllEdges
<1> HIDE DEF off, cut
<1>5. cut \in Nets
  BY <1>3, <1>4 DEF Nets
<1>6. \A d \in cut.edges : \E e \in net.edges : d = off(e) /\ d.src = e.src /\ d.dst = e.dst /\ d.state = "Waiting"
  BY <1>3, <1>4
<1>7. \A d, e \in cut.edges : d.dst = e.dst => d = e
  BY <1>6 DEF InputsTakenOnce
<1>8. /\ net' \in Nets /\ \A d \in net'.edges : d.state = "Connected"
      /\ \A d \in net'.edges : \E e \in cut.edges :
           d.src = e.src /\ d.dst = e.dst /\ d.as = e.as /\ net'.reads[e.dst] = IF e.state = "Waiting" THEN e.src ELSE cut.reads[e.dst]
      /\ \A e \in cut.edges : \E d \in net'.edges : d.src = e.src /\ d.dst = e.dst
      /\ \A i \in Ins : \/ net'.reads[i] = cut.reads[i]
                        \/ \E e \in cut.edges : e.state = "Waiting" /\ e.dst = i /\ net'.reads[i] = e.src
  BY <1>1, <1>5, <1>7, PendingConnected
<1>9. \A d \in net'.edges : net'.reads[d.dst] = d.src
  BY <1>6, <1>8
<1>10. \A d \in net'.edges : \E e \in net.edges : d.src = e.src /\ d.dst = e.dst
  BY <1>6, <1>8
<1>11. \A i \in Ins : net'.reads[i] # None => \E d \in net'.edges : d.dst = i /\ net'.reads[i] = d.src
  BY <1>4, <1>8
<1>12. /\ blockState' \in [Blocks -> States]
       /\ \A b \in Blocks : blockState'[b] = IF InGraph(b) THEN "RUNNING" ELSE blockState[b]
  BY <1>1 DEF Types, States
<1>13. \A d \in net'.edges : d.dst \in Ins /\ Holder[d.dst] \in Blocks /\ Holder[d.src] \in Blocks
                             /\ InGraph(Holder[d.dst]) /\ InGraph(Holder[d.src])
  BY <1>8, <1>10, PortsHeld DEF EdgesInGraph, Nets, Edges
<1>14. Types'
  BY <1>1, <1>8, <1>12 DEF Types
<1>15. EdgesInGraph'
  BY <1>12, <1>13 DEF EdgesInGraph, InGraph
<1>16. InputsTakenOnce'
  BY <1>5, <1>7, <1>8, ConnectedOnce DEF InputsTakenOnce
<1>17. ReadersListed' /\ InputsAsListed' /\ EdgesCarry'
  BY <1>9, <1>11 DEF ReadersListed, InputsAsListed, EdgesCarry, InConnected
<1>18. CalledAreServed'
  BY <1>1, <1>12 DEF CalledAreServed, InGraph
<1>19. ReadersAreServed'
  BY <1>1, <1>11, <1>13 DEF ReadersAreServed, InConnected
<1> QED
  BY <1>14, <1>15, <1>16, <1>17, <1>18, <1>19

LEMMA StopKept ==
  ASSUME GraphInv, Stop
  PROVE  GraphInv'
<1> USE DEF GraphInv
<1>1. /\ running /\ running' = FALSE /\ served' = {}
      /\ blockState' = [b \in Blocks |-> IF InGraph(b) /\ blockState[b] # "ERROR" THEN "STOPPED" ELSE blockState[b]]
  BY DEF Stop
<1>2. PICK B \in SUBSET served : net' = releaseInputs(net, allInputs(B))
  BY DEF Stop
<1>3. /\ net' \in Nets /\ net'.edges = net.edges
      /\ \A i \in Ins : net'.reads[i] \in {net.reads[i], None}
  BY <1>2, Releasing DEF Types
<1>4. /\ blockState' \in [Blocks -> States]
      /\ \A b \in Blocks : InGraph(b)' <=> InGraph(b)
      /\ \A b \in Blocks : blockState[b] = "ZOMBIE" => blockState'[b] = "ZOMBIE"
  BY <1>1 DEF Types, States, InGraph
<1>5. Types'
  BY <1>1, <1>3, <1>4 DEF Types
<1>6. EdgesInGraph'
  BY <1>3, <1>4, PortsHeld DEF EdgesInGraph, Types, Nets, Edges
<1>7. InputsTakenOnce' /\ InputsAsListed'
  BY <1>1, <1>3, NothingJoined
<1>8. ReadersListed'
  BY <1>3, <1>4, PortsHeld DEF ReadersListed, InConnected, Types, Nets
<1> QED
  BY <1>1, <1>5, <1>6, <1>7, <1>8 DEF EdgesCarry, CalledAreServed, ReadersAreServed

LEMMA ResumeKept ==
  ASSUME GraphInv, ~ResumeIntoEnded, PauseAndResume
  PROVE  GraphInv'
<1> USE DEF GraphInv
<1>1. /\ running /\ running' = running /\ net' = connectPendingEdges(net)
      /\ blockState' = blockState /\ served' = served
      /\ \A e \in net.edges : e.state = "Waiting" => Holder[e.dst] \in served
  BY DEF PauseAndResume
<1>2. net \in Nets /\ \A d, e \in net.edges : d.dst = e.dst => d = e
  BY DEF Types, InputsTakenOnce
<1>3. /\ net' \in Nets /\ \A d \in net'.edges : d.state = "Connected"
      /\ \A d \in net'.edges : \E e \in net.edges :
           d.src = e.src /\ d.dst = e.dst /\ d.as = e.as /\ net'.reads[e.dst] = IF e.state = "Waiting" THEN e.src ELSE net.reads[e.dst]
      /\ \A e \in net.edges : \E d \in net'.edges : d.src = e.src /\ d.dst = e.dst
      /\ \A i \in Ins : \/ net'.reads[i] = net.reads[i]
                        \/ \E e \in net.edges : e.state = "Waiting" /\ e.dst = i /\ net'.reads[i] = e.src
  BY <1>1, <1>2, PendingConnected
<1>4. Types'
  BY <1>1, <1>3 DEF Types
<1>5. EdgesInGraph'
  BY <1>1, <1>3 DEF EdgesInGraph, InGraph
<1>6. InputsTakenOnce'
  BY <1>2, <1>3, ConnectedOnce DEF InputsTakenOnce
<1>7. ReadersListed'
  BY <1>1, <1>3 DEF ReadersListed, InConnected
<1>8. InputsAsListed'
  BY <1>1, <1>3 DEF InputsAsListed
<1>9. EdgesCarry'
  BY <1>1, <1>3 DEF EdgesCarry
<1>10. CalledAreServed'
  BY <1>1 DEF CalledAreServed
<1>11. ReadersAreServed'
  BY <1>1, <1>3 DEF ReadersAreServed, InConnected
<1> QED
  BY <1>4, <1>5, <1>6, <1>7, <1>8, <1>9, <1>10, <1>11

-----------------------------------------------------------------------------
(* An edge is taken out of the list. *)

\* A reader of the port whose edge goes is one more than the records that stay account for.
LEMMA ListedReaderIsHeld ==
  ASSUME GraphInv, NEW o \in Outs, NEW I, NEW e \in requestedEdges(o, I), net.reads[e.dst] = o
  PROVE  holdsReader(o, I)
<1> USE DEF GraphInv
<1> DEFINE K == keptReaders(o, I)
           R == Readers(net, o)
           f == [d \in K |-> d.dst]
<1>1. \A d \in net.edges : d.dst \in Ins /\ d.src \in Outs
  BY DEF Types, Nets, Edges
<1>2. e \in net.edges /\ e.dst \in I /\ e.dst \in R /\ InConnected(net, e.dst)
  BY <1>1, PortsHeld DEF requestedEdges, Readers, InConnected
<1>3. IsFiniteSet(R) /\ Cardinality(R) \in Nat
  <2>1. R \in SUBSET Ins
    BY DEF Readers
  <2> QED BY <2>1, PortsHeld, FS_Subset, FS_CardinalityType
<1>4. /\ IsFiniteSet(R \ {e.dst}) /\ Cardinality(R \ {e.dst}) = Cardinality(R) - 1
  BY <1>2, <1>3, FS_RemoveElement
<1>5. ASSUME NEW d \in K PROVE d.dst \in R \ {e.dst}
  <2>1. d \in net.edges /\ d.src = o /\ d.dst \notin I /\ d.state = "Connected" /\ InConnected(net, d.dst)
    BY DEF keptReaders
  <2> QED BY <1>1, <1>2, <2>1 DEF InputsAsListed, InConnected, Readers
<1>6. \A c, d \in K : f[c] = f[d] => c = d
  BY DEF keptReaders, InputsTakenOnce
<1> HIDE DEF K, R
<1>7. f \in Injection(K, R \ {e.dst})
  BY <1>5, <1>6 DEF Injection, IsInjective
<1> HIDE DEF f
<1>8. IsFiniteSet(K) /\ Cardinality(K) <= Cardinality(R \ {e.dst})
  BY <1>4, <1>7, FS_Injection
<1>9. Cardinality(R) > Cardinality(K)
  BY <1>3, <1>4, <1>8, FS_CardinalityType
<1> QED
  BY <1>2, <1>9 DEF holdsReader, K, R

LEMMA RecordErased ==
  ASSUME GraphInv, NEW o \in Outs, NEW I, RemoveEdge(o, I), ~holdsReader(o, I)
  PROVE  GraphInv'
<1> USE DEF GraphInv
<1>1. /\ blockState' = blockState /\ served' = served /\ running' = running /\ net' = erased(o, I)
  BY DEF RemoveEdge
<1>2. /\ net' \in Nets /\ net'.reads = net.reads /\ net'.edges = net.edges \ requestedEdges(o, I)
  BY <1>1 DEF erased, Types, Nets
<1>3. Types' /\ EdgesInGraph' /\ CalledAreServed' /\ ReadersAreServed' /\ EdgesCarry'
  BY <1>1, <1>2 DEF Types, EdgesInGraph, InGraph, CalledAreServed, ReadersAreServed, InConnected, EdgesCarry
<1>4. InputsTakenOnce' /\ InputsAsListed'
  BY <1>1, <1>2 DEF InputsTakenOnce, InputsAsListed
<1>5. \A e \in requestedEdges(o, I) : e.src = o /\ net.reads[e.dst] # o
  BY ListedReaderIsHeld DEF requestedEdges
<1>6. ReadersListed'
  BY <1>1, <1>2, <1>5 DEF ReadersListed, InConnected
<1> QED
  BY <1>3, <1>4, <1>6

LEMMA PortTornDown ==
  ASSUME GraphInv, NEW o \in Outs, NEW I, RemoveEdge(o, I), holdsReader(o, I)
  PROVE  GraphInv'
<1> USE DEF GraphInv
<1> DEFINE n == erased(o, I)
           cut == releaseOutputs(n, {o})
           W == readingEdges(o, I)
           on(e) == [e EXCEPT !.state = "Connected"]
           kept == net.edges \ requestedEdges(o, I)
<1>1. /\ blockState' = blockState /\ served' = served /\ running' = running /\ net' = applyEdges(cut, W)
  BY DEF RemoveEdge
<1>2. n \in Nets /\ n.edges = kept /\ n.reads = net.reads
  BY DEF erased, Types, Nets
<1> HIDE DEF n
<1>3. /\ cut \in Nets /\ cut.edges = kept
      /\ \A i \in Ins : cut.reads[i] = IF net.reads[i] = o THEN None ELSE net.reads[i]
  BY <1>2, ReleasingOutputs
<1> HIDE DEF cut
<1>4. /\ W \in SUBSET kept /\ \A e \in W : e.src = o /\ net.reads[e.dst] # None
      /\ \A e \in kept \ W : e.src = o => net.reads[e.dst] = None
  BY DEF readingEdges, requestedEdges, InConnected
<1>5. \A d, e \in kept : d.dst = e.dst => d = e
  BY DEF InputsTakenOnce
<1>6. \A e \in kept : e \in net.edges /\ e.dst \in Ins /\ e.src \in Outs /\ e.src # None
  BY PortsHeld DEF Types, Nets, Edges
<1> HIDE DEF W, kept
<1>7. /\ net' \in Nets /\ net'.edges = (kept \ W) \cup {on(e) : e \in W}
      /\ \A e \in W : net'.reads[e.dst] = e.src
      /\ \A i \in Ins : (\A e \in W : e.dst # i) => net'.reads[i] = cut.reads[i]
  BY <1>1, <1>3, <1>4, <1>5, Applying
<1>8. \A d \in net'.edges : \E e \in kept : d.src = e.src /\ d.dst = e.dst /\ (e \in W => d = on(e)) /\ (e \notin W => d = e)
  BY <1>3, <1>4, <1>7, AppliedEdges
<1>9. \A e \in W : on(e).src = e.src /\ on(e).dst = e.dst
  BY <1>4, <1>6 DEF Types, Nets, Edges
<1> HIDE DEF on
<1>10. \A e \in kept : \E d \in net'.edges : d.src = e.src /\ d.dst = e.dst
  BY <1>7, <1>9
<1>11. ASSUME NEW e \in kept \ W PROVE net'.reads[e.dst] = IF net.reads[e.dst] = o THEN None ELSE net.reads[e.dst]
  BY <1>3, <1>4, <1>5, <1>6, <1>7
<1>12. Types'
  BY <1>1, <1>7 DEF Types
<1>13. EdgesInGraph'
  BY <1>1, <1>6, <1>8 DEF EdgesInGraph, InGraph
<1>14. InputsTakenOnce'
  BY <1>5, <1>8 DEF InputsTakenOnce
<1>15. ReadersListed'
  <2>1. ASSUME NEW i \in Ins, net'.reads[i] # None,
               ~ \E b \in {Holder[i], Holder[net'.reads[i]]} : blockState[b] = "ZOMBIE"
        PROVE  \E d \in net'.edges : d.src = net'.reads[i] /\ d.dst = i
    <3>1. CASE \E e \in W : e.dst = i
      BY <3>1, <1>4, <1>7, <1>10
    <3>2. CASE \A e \in W : e.dst # i
      <4>1. net'.reads[i] = net.reads[i] /\ net.reads[i] # o
        BY <3>2, <2>1, <1>3, <1>7
      <4>2. PICK e \in net.edges : e.src = net.reads[i] /\ e.dst = i
        BY <2>1, <4>1 DEF ReadersListed, InConnected
      <4>3. e \in kept
        BY <4>1, <4>2 DEF kept, requestedEdges
      <4> QED BY <4>1, <4>2, <4>3, <1>10
    <3> QED BY <3>1, <3>2
  <2> QED BY <2>1, <1>1 DEF ReadersListed, InConnected
<1>16. InputsAsListed'
  <2>1. ASSUME NEW d \in net'.edges, running \/ d.state = "Connected" PROVE net'.reads[d.dst] \in {d.src, None}
    <3>1. PICK e \in kept : d.src = e.src /\ d.dst = e.dst /\ (e \in W => d = on(e)) /\ (e \notin W => d = e)
      BY <1>8
    <3>2. CASE e \in W
      BY <3>1, <3>2, <1>7
    <3>3. CASE e \notin W
      BY <2>1, <3>1, <3>3, <1>6, <1>11 DEF InputsAsListed
    <3> QED BY <3>2, <3>3
  <2> QED BY <2>1, <1>1 DEF InputsAsListed
<1>17. EdgesCarry'
  <2>1. ASSUME running, NEW e \in kept, blockState[Holder[e.src]] = "RUNNING", blockState[Holder[e.dst]] = "RUNNING"
        PROVE  net'.reads[e.dst] = e.src
    <3>1. net.reads[e.dst] = e.src
      BY <2>1, <1>6 DEF EdgesCarry
    <3>2. CASE e \in W
      BY <3>2, <1>7
    <3>3. CASE e \notin W
      BY <3>1, <3>3, <1>4, <1>6, <1>11
    <3> QED BY <3>2, <3>3
  <2> QED BY <2>1, <1>1, <1>8 DEF EdgesCarry
<1>18. CalledAreServed'
  BY <1>1 DEF CalledAreServed
<1>19. ReadersAreServed'
  <2>1. \A i \in Ins : net'.reads[i] # None => net.reads[i] # None
    BY <1>3, <1>4, <1>7
  <2> QED BY <2>1, <1>1 DEF ReadersAreServed, InConnected
<1> QED
  BY <1>12, <1>13, <1>14, <1>15, <1>16, <1>17, <1>18, <1>19

-----------------------------------------------------------------------------
(* The edits that restart stopped blocks. *)

\* Whether a block is called after a restart that the blocks B join.
ComesBack(b, B) == b \in B \/ (~StoppedOrStopping(b) /\ blockState[b] # "ERROR")

\* A restart connects an edge when its input holds nothing, a block of it joins and both
\* are called after it; where a block is refused or fails, what it had connected is
\* released again, and so are all inputs of one that fails.
Restored(n, B, refused, failed, m) ==
  /\ m \in Nets /\ m.edges = n.edges
  /\ \A i \in Ins : Holder[i] \in failed => m.reads[i] = None
  /\ \A i \in Ins : n.reads[i] # None /\ Holder[i] \notin failed => m.reads[i] = n.reads[i]
  /\ \A e \in n.edges :
       /\ n.reads[e.dst] = None /\ {Holder[e.src], Holder[e.dst]} \cap B # {}
       /\ {Holder[e.src], Holder[e.dst]} \cap (refused \cup failed) = {}
       /\ ComesBack(Holder[e.src], B) /\ ComesBack(Holder[e.dst], B)
       => m.reads[e.dst] = e.src
  /\ \A i \in Ins : \/ m.reads[i] \in {n.reads[i], None}
                    \/ \E e \in n.edges : e.dst = i /\ m.reads[i] = e.src /\ ComesBack(Holder[i], B)

LEMMA Restarting ==
  ASSUME NEW n \in Nets, \A d, e \in n.edges : d.dst = e.dst => d = e, NEW R, NEW B, NEW refused, NEW failed,
         NEW m, m = restarted(n, reconnects(n, R, B), refused, failed)
  PROVE  Restored(n, B, refused, failed, m)
<1> DEFINE joined == {e \in n.edges : /\ n.reads[e.dst] = None
                                      /\ {Holder[e.src], Holder[e.dst]} \cap B # {}
                                      /\ ComesBack(Holder[e.src], B) /\ ComesBack(Holder[e.dst], B)}
           pairs == reconnects(n, R, B)
           mid == connectPorts(n, pairs)
           I == refusedInputs(pairs, refused) \cup allInputs(failed)
<1>1. \A e \in n.edges : e.dst \in Ins /\ e.src \in Outs
  BY DEF Nets, Edges
<1>2. pairs = {<<e.src, e.dst>> : e \in joined}
  BY DEF reconnects, InConnected, ComesBack
<1>3. joined \subseteq n.edges /\ \A e \in joined : n.reads[e.dst] = None /\ ComesBack(Holder[e.dst], B)
  OBVIOUS
<1>4. \A e \in n.edges :
        /\ n.reads[e.dst] = None /\ {Holder[e.src], Holder[e.dst]} \cap B # {}
        /\ ComesBack(Holder[e.src], B) /\ ComesBack(Holder[e.dst], B)
        => e \in joined
  OBVIOUS
<1>5. m = releaseInputs(mid, I)
  BY DEF restarted
<1> HIDE DEF joined, pairs
<1>6. pairs \in SUBSET (Outs \X Ins) /\ \A s, t \in pairs : s[2] = t[2] => s = t
  BY <1>1, <1>2, <1>3
<1>7. \A e \in joined : <<e.src, e.dst>> \in pairs
  BY <1>2
<1>8. \A t \in pairs : \E e \in joined : t[1] = e.src /\ t[2] = e.dst
  BY <1>2
<1> HIDE DEF mid
<1>9. /\ mid \in Nets /\ mid.edges = n.edges
      /\ \A t \in pairs : mid.reads[t[2]] = t[1]
      /\ \A i \in Ins : (\A t \in pairs : t[2] # i) => mid.reads[i] = n.reads[i]
  BY <1>6, Connecting DEF mid
<1>10. /\ \A e \in joined : mid.reads[e.dst] = e.src
       /\ \A i \in Ins : (\A e \in joined : e.dst # i) => mid.reads[i] = n.reads[i]
  <2>1. \A e \in joined : mid.reads[e.dst] = e.src
    <3>1. ASSUME NEW e \in joined PROVE mid.reads[e.dst] = e.src
      <4>1. <<e.src, e.dst>>[1] = e.src /\ <<e.src, e.dst>>[2] = e.dst
        OBVIOUS
      <4> QED BY <4>1, <1>7, <1>9
    <3> QED BY <3>1
  <2> QED BY <2>1, <1>8, <1>9
<1>11. /\ \A i \in Ins : Holder[i] \in failed => i \in I
       /\ \A i \in Ins : i \in I => Holder[i] \in failed \/ \E e \in joined : e.dst = i
       /\ \A e \in joined : {Holder[e.src], Holder[e.dst]} \cap (refused \cup failed) = {} => e.dst \notin I
  <2>1. ASSUME NEW i \in Ins, i \in refusedInputs(pairs, refused)
        PROVE  \E e \in joined : e.dst = i /\ {Holder[e.src], Holder[e.dst]} \cap refused # {}
    BY <2>1, <1>8 DEF refusedInputs
  <2>2. \A i \in Ins : i \in allInputs(failed) <=> Holder[i] \in failed
    BY DEF allInputs
  <2> QED BY <2>1, <2>2, <1>1, <1>3
<1> HIDE DEF I
<1>12. /\ m \in Nets /\ m.edges = n.edges
       /\ \A i \in Ins : m.reads[i] = IF i \in I THEN None ELSE mid.reads[i]
  BY <1>5, <1>9, Releasing
<1>13. \A i \in Ins : Holder[i] \in failed => m.reads[i] = None
  BY <1>11, <1>12
<1>14. \A i \in Ins : n.reads[i] # None /\ Holder[i] \notin failed => m.reads[i] = n.reads[i]
  BY <1>3, <1>10, <1>11, <1>12
<1>15. \A e \in joined : {Holder[e.src], Holder[e.dst]} \cap (refused \cup failed) = {} => m.reads[e.dst] = e.src
  BY <1>1, <1>3, <1>10, <1>11, <1>12
<1>16. \A i \in Ins : \/ m.reads[i] \in {n.reads[i], None}
                      \/ \E e \in n.edges : e.dst = i /\ m.reads[i] = e.src /\ ComesBack(Holder[i], B)
  BY <1>3, <1>10, <1>12
<1> QED
  BY <1>4, <1>12, <1>13, <1>14, <1>15, <1>16 DEF Restored

\* Where every worker has left a run, no block is called.
LEMMA NobodyCalled ==
  ASSUME GraphInv, running, served = {}
  PROVE  \A b \in Blocks : blockState[b] \notin {"RUNNING", "REQUESTED_STOP"}
BY DEF GraphInv, CalledAreServed

LEMMA Emplacing ==
  ASSUME GraphInv, NEW pair \in Pairs, NEW as \in Namings, NEW n, n = emplaced(net, NewEdge(pair, as)),
         InGraph(Holder[pair[1]]), InGraph(Holder[pair[2]])
  PROVE  /\ n \in Nets /\ \A d, e \in n.edges : d.dst = e.dst => d = e
         /\ \A e \in n.edges : (e \in net.edges /\ e.dst # pair[2]) \/ e = NewEdge(pair, as)
         /\ NewEdge(pair, as) \in n.edges /\ n.reads[pair[2]] = pair[1]
         /\ \A e \in net.edges : e.dst # pair[2] => e \in n.edges
         /\ \A i \in Ins \ {pair[2]} : n.reads[i] = net.reads[i]
         /\ pair[1] \in Outs /\ pair[2] \in Ins /\ pair[1] # None
<1> USE DEF GraphInv
<1> DEFINE new == NewEdge(pair, as)
           listed == [net EXCEPT !.edges = {d \in @ : ~hasSameInput(d, new)} \cup {new}]
<1>1. pair[1] \in Outs /\ pair[2] \in Ins /\ pair[1] # None
  BY PortsHeld
<1>2. new \in Edges /\ new.src = pair[1] /\ new.dst = pair[2]
  BY <1>1 DEF NewEdge, Edges
<1>3. n = connectPorts(listed, {<<pair[1], pair[2]>>})
  BY <1>2 DEF emplaced
<1> HIDE DEF new
<1>4. /\ listed \in Nets /\ listed.reads = net.reads
      /\ listed.edges = {d \in net.edges : d.dst # pair[2]} \cup {new}
  BY <1>2 DEF hasSameInput, Types, Nets
<1> HIDE DEF listed
<1> DEFINE pairs == {<<pair[1], pair[2]>>}
<1>5. /\ n \in Nets /\ n.edges = listed.edges
      /\ \A t \in pairs : n.reads[t[2]] = t[1]
      /\ \A i \in Ins : (\A t \in pairs : t[2] # i) => n.reads[i] = listed.reads[i]
  <2>1. pairs \in SUBSET (Outs \X Ins)
    BY <1>1
  <2>2. \A s, t \in pairs : s[2] = t[2] => s = t
    OBVIOUS
  <2>3. n = connectPorts(listed, pairs)
    BY <1>3
  <2> HIDE DEF pairs
  <2> QED BY <2>1, <2>2, <2>3, <1>4, Connecting
<1>6. n.reads[pair[2]] = pair[1] /\ \A i \in Ins \ {pair[2]} : n.reads[i] = net.reads[i]
  <2>1. \A t \in pairs : t[1] = pair[1] /\ t[2] = pair[2]
    OBVIOUS
  <2>2. <<pair[1], pair[2]>> \in pairs
    OBVIOUS
  <2> HIDE DEF pairs
  <2> QED BY <2>1, <2>2, <1>4, <1>5
<1>7. \A d, e \in n.edges : d.dst = e.dst => d = e
  BY <1>2, <1>4, <1>5 DEF InputsTakenOnce
<1> QED
  BY <1>1, <1>4, <1>5, <1>6, <1>7 DEF new

\* What an edit in a run hands to the restart: the wiring n, in which the blocks R that have
\* stopped and the blocks J that join may lack their rings.
Restartable(n, R, J, states) ==
  /\ n \in Nets /\ \A d, e \in n.edges : d.dst = e.dst => d = e
  /\ R \in SUBSET Blocks /\ \A b \in R : StoppedOrStopping(b)
  /\ J \in SUBSET Blocks /\ R \cap J = {} /\ \A b \in J : InGraph(b) /\ states[b] = "RUNNING"
  /\ J # {} => served # {}
  /\ states \in [Blocks -> States] /\ \A b \in Blocks \ J : states[b] = blockState[b]
  /\ \A e \in n.edges : InGraph(Holder[e.src]) /\ InGraph(Holder[e.dst]) /\ n.reads[e.dst] \in {e.src, None}
  /\ \A i \in Ins : n.reads[i] # None =>
       \/ \E e \in n.edges : e.src = n.reads[i] /\ e.dst = i
       \/ \E b \in {Holder[i], Holder[n.reads[i]]} : blockState[b] = "ZOMBIE"
  /\ \A e \in n.edges : blockState[Holder[e.src]] = "RUNNING" /\ blockState[Holder[e.dst]] = "RUNNING"
                        /\ {Holder[e.src], Holder[e.dst]} \cap J = {} => n.reads[e.dst] = e.src
  /\ served # {} => \A i \in Ins : n.reads[i] # None => Holder[i] \in served \cup R \cup J

LEMMA NetPorts ==
  ASSUME NEW n \in Nets
  PROVE  /\ \A e \in n.edges : e.dst \in Ins /\ e.src \in Outs /\ e.src # None /\ Holder[e.src] \in Blocks /\ Holder[e.dst] \in Blocks
         /\ \A i \in Ins : Holder[i] \in Blocks /\ (n.reads[i] # None => Holder[n.reads[i]] \in Blocks)
BY PortsHeld DEF Nets, Edges

LEMMA RestartWithWorkers ==
  ASSUME GraphInv, running, running' = running, NEW n, NEW R, NEW J, NEW states, Restartable(n, R, J, states),
         served \cup J # {}, RestartStopped(n, R, J, states, served \cup J)
  PROVE  GraphInv'
<1> USE DEF GraphInv
<1>1. PICK failed \in SUBSET R :
        /\ net' = restarted(n, reconnects(n, R, R \cup J), failed, failed)
        /\ blockState' = [b \in Blocks |-> IF b \notin R THEN states[b] ELSE IF b \in failed THEN "ERROR" ELSE "RUNNING"]
        /\ served' = (served \cup J \cup R) \ failed
  BY DEF RestartStopped
<1>2. /\ n \in Nets /\ \A d, e \in n.edges : d.dst = e.dst => d = e
      /\ R \in SUBSET Blocks /\ J \in SUBSET Blocks /\ R \cap J = {} /\ served # {}
  BY DEF Restartable
<1>3. /\ net' \in Nets /\ net'.edges = n.edges
      /\ \A i \in Ins : Holder[i] \in failed => net'.reads[i] = None
      /\ \A i \in Ins : n.reads[i] # None /\ Holder[i] \notin failed => net'.reads[i] = n.reads[i]
      /\ \A e \in n.edges :
           /\ n.reads[e.dst] = None /\ {Holder[e.src], Holder[e.dst]} \cap (R \cup J) # {}
           /\ {Holder[e.src], Holder[e.dst]} \cap (failed \cup failed) = {}
           /\ ComesBack(Holder[e.src], R \cup J) /\ ComesBack(Holder[e.dst], R \cup J)
           => net'.reads[e.dst] = e.src
      /\ \A i \in Ins : \/ net'.reads[i] \in {n.reads[i], None}
                        \/ \E e \in n.edges : e.dst = i /\ net'.reads[i] = e.src /\ ComesBack(Holder[i], R \cup J)
  <2>1. Restored(n, R \cup J, failed, failed, net')
    BY <1>1, <1>2, Restarting
  <2> QED BY <2>1 DEF Restored
<1>4. \A b \in Blocks : blockState'[b] = IF b \notin R THEN states[b] ELSE IF b \in failed THEN "ERROR" ELSE "RUNNING"
  BY <1>1
<1>5. /\ \A b \in Blocks : InGraph(b) => InGraph(b)'
      /\ \A b \in Blocks : blockState[b] = "ZOMBIE" => blockState'[b] = "ZOMBIE"
  BY <1>2, <1>4 DEF Restartable, InGraph, StoppedOrStopping
<1>6. \A b \in Blocks : blockState'[b] \in {"RUNNING", "REQUESTED_STOP"}
        => b \notin failed /\ (b \in R \cup J \/ blockState'[b] = blockState[b])
  BY <1>2, <1>4 DEF Restartable
<1>7. \A b \in Blocks : ComesBack(b, R \cup J) /\ InGraph(b) => b \in R \cup J \/ blockState[b] = "RUNNING"
  BY DEF ComesBack, InGraph, StoppedOrStopping, Types, States
<1>8. \A e \in n.edges : /\ e.dst \in Ins /\ e.src # None /\ Holder[e.src] \in Blocks /\ Holder[e.dst] \in Blocks
                         /\ InGraph(Holder[e.src]) /\ InGraph(Holder[e.dst]) /\ n.reads[e.dst] \in {e.src, None}
  BY <1>2, NetPorts DEF Restartable
<1>9. Types'
  <2>1. blockState' \in [Blocks -> States]
    BY <1>1 DEF Restartable, States
  <2> QED BY <2>1, <1>1, <1>2, <1>3 DEF Types
<1>10. EdgesInGraph'
  BY <1>3, <1>5, <1>8 DEF EdgesInGraph
<1>11. InputsTakenOnce'
  BY <1>2, <1>3 DEF InputsTakenOnce
<1>12. ReadersListed'
  <2>1. ASSUME NEW i \in Ins, net'.reads[i] # None,
               ~ \E e \in n.edges : e.src = net'.reads[i] /\ e.dst = i
        PROVE  \E b \in {Holder[i], Holder[net'.reads[i]]} : blockState'[b] = "ZOMBIE"
    <3>1. net'.reads[i] = n.reads[i]
      BY <2>1, <1>3
    <3>2. \E b \in {Holder[i], Holder[n.reads[i]]} : blockState[b] = "ZOMBIE"
      BY <2>1, <3>1 DEF Restartable
    <3> QED BY <2>1, <3>1, <3>2, <1>2, <1>5, NetPorts
  <2> QED BY <2>1, <1>3 DEF ReadersListed, InConnected
<1>13. InputsAsListed'
  <2>1. ASSUME NEW e \in n.edges PROVE net'.reads[e.dst] \in {e.src, None}
    BY <1>2, <1>3, <1>8
  <2> QED BY <2>1, <1>3 DEF InputsAsListed
<1>14. EdgesCarry'
  <2>1. ASSUME NEW e \in n.edges, blockState'[Holder[e.src]] = "RUNNING", blockState'[Holder[e.dst]] = "RUNNING"
        PROVE  net'.reads[e.dst] = e.src
    <3>1. /\ {Holder[e.src], Holder[e.dst]} \cap (failed \cup failed) = {} /\ Holder[e.dst] \notin failed
          /\ Holder[e.src] \in R \cup J \/ blockState[Holder[e.src]] = "RUNNING"
          /\ Holder[e.dst] \in R \cup J \/ blockState[Holder[e.dst]] = "RUNNING"
      BY <2>1, <1>6, <1>8
    <3>2. CASE n.reads[e.dst] # None
      BY <3>1, <3>2, <1>3, <1>8
    <3>3. CASE n.reads[e.dst] = None /\ {Holder[e.src], Holder[e.dst]} \cap (R \cup J) # {}
      <4>1. ComesBack(Holder[e.src], R \cup J) /\ ComesBack(Holder[e.dst], R \cup J)
        BY <3>1 DEF ComesBack, StoppedOrStopping
      <4> QED BY <3>1, <3>3, <4>1, <1>3
    <3>4. CASE n.reads[e.dst] = None /\ {Holder[e.src], Holder[e.dst]} \cap (R \cup J) = {}
      BY <3>1, <3>4, <1>8 DEF Restartable
    <3> QED BY <3>2, <3>3, <3>4
  <2> QED BY <2>1, <1>3 DEF EdgesCarry
<1>15. CalledAreServed'
  <2>1. \A b \in Blocks : blockState[b] \in {"RUNNING", "REQUESTED_STOP"} => b \in served
    BY DEF CalledAreServed
  <2> QED BY <2>1, <1>1, <1>6 DEF CalledAreServed
<1>16. ReadersAreServed'
  <2>1. ASSUME NEW i \in Ins, net'.reads[i] # None PROVE Holder[i] \in served'
    <3>1. Holder[i] \notin failed
      BY <2>1, <1>3
    <3>2. CASE n.reads[i] # None
      BY <3>1, <3>2, <1>1, <1>2 DEF Restartable
    <3>3. CASE n.reads[i] = None
      <4>1. Holder[i] \in R \cup J \/ blockState[Holder[i]] = "RUNNING"
        BY SMTT(30), ZenonT(20), <2>1, <3>3, <1>3, <1>7, <1>8
      <4>2. Holder[i] \in Blocks
        BY <1>2, NetPorts
      <4>3. Holder[i] \in served \cup J \cup R
        BY <4>1, <4>2 DEF CalledAreServed
      <4> QED BY <3>1, <4>3, <1>1
    <3> QED BY <3>2, <3>3
  <2> QED BY <2>1 DEF ReadersAreServed, InConnected
<1> QED
  BY <1>9, <1>10, <1>11, <1>12, <1>13, <1>14, <1>15, <1>16

\* Where every worker has left, what would restart stays stopped or fails in its hook.
LEMMA RestartWithoutWorkers ==
  ASSUME GraphInv, running, running' = running, NEW n, NEW R, NEW states, Restartable(n, R, {}, states),
         served = {}, RestartStopped(n, R, {}, states, {})
  PROVE  GraphInv'
<1> USE DEF GraphInv
<1>1. PICK failed \in SUBSET R :
        /\ net' = restarted(n, reconnects(n, R, R \cup {}), R, failed)
        /\ blockState' = [b \in Blocks |-> IF b \notin R THEN states[b] ELSE IF b \in failed THEN "ERROR" ELSE "STOPPED"]
        /\ served' = {}
  BY DEF RestartStopped
<1>2. /\ n \in Nets /\ \A d, e \in n.edges : d.dst = e.dst => d = e
      /\ R \in SUBSET Blocks
  BY DEF Restartable
<1>3. /\ net' \in Nets /\ net'.edges = n.edges
      /\ \A i \in Ins : \/ net'.reads[i] \in {n.reads[i], None}
                        \/ \E e \in n.edges : e.dst = i /\ net'.reads[i] = e.src
  <2>1. Restored(n, R \cup {}, R, failed, net')
    BY <1>1, <1>2, Restarting
  <2> QED BY <2>1 DEF Restored
<1>4. /\ \A b \in Blocks : InGraph(b) => InGraph(b)'
      /\ \A b \in Blocks : blockState[b] = "ZOMBIE" => blockState'[b] = "ZOMBIE"
      /\ \A b \in Blocks : blockState'[b] \notin {"RUNNING", "REQUESTED_STOP"}
  BY <1>1, <1>2, NobodyCalled DEF Restartable, InGraph, StoppedOrStopping
<1>5. \A e \in n.edges : /\ e.dst \in Ins /\ e.src # None /\ Holder[e.src] \in Blocks /\ Holder[e.dst] \in Blocks
                         /\ InGraph(Holder[e.src]) /\ InGraph(Holder[e.dst]) /\ n.reads[e.dst] \in {e.src, None}
  BY <1>2, NetPorts DEF Restartable
<1>6. Types'
  <2>1. blockState' \in [Blocks -> States]
    BY <1>1 DEF Restartable, States
  <2> QED BY <2>1, <1>1, <1>3 DEF Types
<1>7. EdgesInGraph'
  BY <1>3, <1>4, <1>5 DEF EdgesInGraph
<1>8. InputsTakenOnce'
  BY <1>2, <1>3 DEF InputsTakenOnce
<1>9. ReadersListed'
  <2>1. ASSUME NEW i \in Ins, net'.reads[i] # None,
               ~ \E e \in n.edges : e.src = net'.reads[i] /\ e.dst = i
        PROVE  \E b \in {Holder[i], Holder[net'.reads[i]]} : blockState'[b] = "ZOMBIE"
    <3>1. net'.reads[i] = n.reads[i]
      BY <2>1, <1>3
    <3>2. \E b \in {Holder[i], Holder[n.reads[i]]} : blockState[b] = "ZOMBIE"
      BY <2>1, <3>1 DEF Restartable
    <3> QED BY <2>1, <3>1, <3>2, <1>2, <1>4, NetPorts
  <2> QED BY <2>1, <1>3 DEF ReadersListed, InConnected
<1>10. InputsAsListed'
  <2>1. ASSUME NEW e \in n.edges PROVE net'.reads[e.dst] \in {e.src, None}
    BY <1>2, <1>3, <1>5
  <2> QED BY <2>1, <1>3 DEF InputsAsListed
<1>11. EdgesCarry' /\ CalledAreServed' /\ ReadersAreServed'
  BY <1>1, <1>3, <1>4, <1>5 DEF EdgesCarry, CalledAreServed, ReadersAreServed
<1> QED
  BY <1>6, <1>7, <1>8, <1>9, <1>10, <1>11

LEMMA EmplaceEdgeKept ==
  ASSUME GraphInv, NEW pair \in Pairs, NEW as \in Namings, EmplaceEdge(pair, as)
  PROVE  GraphInv'
<1> USE DEF GraphInv
<1> DEFINE new == NewEdge(pair, as)
           n == emplaced(net, new)
           R == {b \in {Holder[pair[1]], Holder[pair[2]]} : StoppedOrStopping(b)}
<1>1. /\ InGraph(Holder[pair[1]]) /\ InGraph(Holder[pair[2]]) /\ blockState[Holder[pair[2]]] # "ERROR"
      /\ RestartStopped(n, R, {}, blockState, served) /\ running' = running
  BY DEF EmplaceEdge
<1>2. /\ n \in Nets /\ \A d, e \in n.edges : d.dst = e.dst => d = e
      /\ \A e \in n.edges : (e \in net.edges /\ e.dst # pair[2]) \/ e = new
      /\ new \in n.edges /\ n.reads[pair[2]] = pair[1]
      /\ \A e \in net.edges : e.dst # pair[2] => e \in n.edges
      /\ \A i \in Ins \ {pair[2]} : n.reads[i] = net.reads[i]
      /\ pair[1] \in Outs /\ pair[2] \in Ins /\ pair[1] # None
  BY <1>1, Emplacing
<1>3. new.src = pair[1] /\ new.dst = pair[2]
  BY <1>2 DEF NewEdge
<1>4. Holder[pair[1]] \in Blocks /\ Holder[pair[2]] \in Blocks
  BY <1>2, PortsHeld
<1> HIDE DEF new, n
<1>5. Types /\ net \in Nets /\ \A e \in net.edges : e.dst \in Ins /\ InGraph(Holder[e.src]) /\ InGraph(Holder[e.dst])
  BY DEF Types, Nets, Edges, EdgesInGraph
<1>6. \A e \in n.edges : e.src = n.reads[e.dst] \/ (e \in net.edges /\ e.dst # pair[2] /\ n.reads[e.dst] = net.reads[e.dst])
  <2>1. n.reads[new.dst] = new.src
    BY <1>2, <1>3
  <2>2. \A e \in net.edges : e.dst # pair[2] => e.dst \in Ins \ {pair[2]}
    BY <1>5
  <2> QED BY <2>1, <2>2, <1>2
<1>7. \A e \in n.edges : InGraph(Holder[e.src]) /\ InGraph(Holder[e.dst])
  BY <1>1, <1>2, <1>3, <1>5
<1>8. \A i \in Ins : n.reads[i] # None =>
        \/ \E e \in n.edges : e.src = n.reads[i] /\ e.dst = i
        \/ \E b \in {Holder[i], Holder[n.reads[i]]} : blockState[b] = "ZOMBIE"
  <2>1. ASSUME NEW i \in Ins, n.reads[i] # None, i # pair[2],
               ~ \E b \in {Holder[i], Holder[n.reads[i]]} : blockState[b] = "ZOMBIE"
        PROVE  \E e \in n.edges : e.src = n.reads[i] /\ e.dst = i
    <3>1. n.reads[i] = net.reads[i]
      BY <2>1, <1>2
    <3>2. PICK e \in net.edges : e.src = net.reads[i] /\ e.dst = i
      BY <2>1, <3>1 DEF ReadersListed, InConnected
    <3> QED BY <2>1, <3>1, <3>2, <1>2
  <2>2. new \in n.edges /\ new.src = n.reads[pair[2]] /\ new.dst = pair[2]
    BY <1>2, <1>3
  <2> QED BY <2>1, <2>2
<1>9. CASE ~running
  <2>1. net' = n /\ blockState' = blockState /\ served' = served
    BY <1>1, <1>9 DEF RestartStopped
  <2>2. Types' /\ EdgesInGraph' /\ InputsTakenOnce' /\ ReadersListed'
    BY <2>1, <1>1, <1>2, <1>5, <1>7, <1>8 DEF Types, EdgesInGraph, InGraph, InputsTakenOnce, ReadersListed, InConnected
  <2>3. InputsAsListed'
    BY <2>1, <1>1, <1>6, <1>9 DEF InputsAsListed
  <2> QED BY <2>2, <2>3, <1>1, <1>9 DEF EdgesCarry, CalledAreServed, ReadersAreServed
<1>10. CASE running
  <2>1. R \in SUBSET Blocks /\ \A b \in R : StoppedOrStopping(b)
    BY <1>4
  <2>2. served # {} => \A i \in Ins : n.reads[i] # None => Holder[i] \in served \cup R \cup {}
    <3>1. ASSUME NEW i \in Ins, n.reads[i] # None, served # {} PROVE Holder[i] \in served \cup R
      <4>1. CASE i # pair[2]
        BY <3>1, <4>1, <1>2, <1>10 DEF ReadersAreServed, InConnected
      <4>2. CASE i = pair[2]
        <5>1. StoppedOrStopping(Holder[i]) \/ blockState[Holder[i]] = "RUNNING"
          BY <4>2, <1>1, <1>4, <1>5 DEF Types, States, InGraph, StoppedOrStopping
        <5> QED BY <4>2, <5>1, <1>4, <1>10 DEF CalledAreServed
      <4> QED BY <4>1, <4>2
    <3> QED BY <3>1
  <2> HIDE DEF R
  <2>3. /\ \A e \in n.edges : n.reads[e.dst] \in {e.src, None}
        /\ \A e \in n.edges : blockState[Holder[e.src]] = "RUNNING" /\ blockState[Holder[e.dst]] = "RUNNING"
                              => n.reads[e.dst] = e.src
    BY <1>6, <1>10 DEF InputsAsListed, EdgesCarry
  <2>4. Restartable(n, R, {}, blockState)
    BY <2>1, <2>2, <2>3, <1>2, <1>5, <1>7, <1>8 DEF Restartable, Types
  <2>5. CASE served = {}
    <3>1. RestartStopped(n, R, {}, blockState, {})
      BY <1>1, <2>5
    <3> QED BY <3>1, <2>4, <2>5, <1>1, <1>10, RestartWithoutWorkers
  <2>6. CASE served # {}
    <3>1. served \cup {} = served
      OBVIOUS
    <3>2. RestartStopped(n, R, {}, blockState, served \cup {}) /\ served \cup {} # {}
      BY <1>1, <2>6, <3>1
    <3> QED BY <3>2, <2>4, <1>1, <1>10, RestartWithWorkers
  <2> QED BY <2>5, <2>6
<1> QED
  BY <1>9, <1>10

\* The replacement keeps the rings of the ports that edges name.
LEMMA TakingOver ==
  ASSUME GraphInv, NEW b \in Blocks, NEW n, n = takenOver(b)
  PROVE  /\ n \in Nets /\ n.edges = net.edges
         /\ \A i \in Ins : n.reads[i] \in {net.reads[i], None}
         /\ \A e \in net.edges : net.reads[e.dst] = e.src => n.reads[e.dst] = e.src
<1> USE DEF GraphInv
<1> DEFINE mid == releaseInputs(net, InsOf(b) \ namedPorts)
<1>1. n = releaseOutputs(mid, OutsOf(b) \ namedPorts)
  BY DEF takenOver
<1>2. /\ mid \in Nets /\ mid.edges = net.edges
      /\ \A i \in Ins : mid.reads[i] = IF i \in InsOf(b) \ namedPorts THEN None ELSE net.reads[i]
  BY Releasing DEF Types
<1> HIDE DEF mid
<1>3. /\ n \in Nets /\ n.edges = mid.edges
      /\ \A i \in Ins : n.reads[i] = IF mid.reads[i] \in OutsOf(b) \ namedPorts THEN None ELSE mid.reads[i]
  BY <1>1, <1>2, ReleasingOutputs
<1>4. \A e \in net.edges : e.src \in namedPorts /\ e.dst \in namedPorts /\ e.dst \in Ins
  BY NetPorts DEF namedPorts, Types
<1> QED
  BY <1>2, <1>3, <1>4

LEMMA ReplaceBlockKept ==
  ASSUME GraphInv, NEW b \in Blocks, ReplaceBlock(b)
  PROVE  GraphInv'
<1> USE DEF GraphInv
<1> DEFINE n == takenOver(b)
           R == {d \in neighbours(b) \ {b} : StoppedOrStopping(d)}
           states == [blockState EXCEPT ![b] = IF running THEN "RUNNING" ELSE "STOPPED"]
<1>1. InGraph(b) /\ running' = running
  BY DEF ReplaceBlock
<1>2. /\ n \in Nets /\ n.edges = net.edges
      /\ \A i \in Ins : n.reads[i] \in {net.reads[i], None}
      /\ \A e \in net.edges : net.reads[e.dst] = e.src => n.reads[e.dst] = e.src
  BY TakingOver
<1> HIDE DEF n
<1>3. /\ \A e \in net.edges : Holder[e.src] \in Blocks /\ Holder[e.dst] \in Blocks /\ e.dst \in Ins
      /\ \A i \in Ins : Holder[i] \in Blocks /\ (net.reads[i] # None => Holder[net.reads[i]] \in Blocks)
  BY NetPorts DEF Types
<1>4. \A i \in Ins : n.reads[i] # None =>
        \/ \E e \in n.edges : e.src = n.reads[i] /\ e.dst = i
        \/ \E d \in {Holder[i], Holder[n.reads[i]]} : blockState[d] = "ZOMBIE"
  BY <1>2 DEF ReadersListed, InConnected
<1>5. CASE /\ running => served # {}
           /\ RestartStopped(n, R, {b}, states, IF running THEN served \cup {b} ELSE served)
  <2>1. /\ states \in [Blocks -> States] /\ states[b] = (IF running THEN "RUNNING" ELSE "STOPPED")
        /\ \A d \in Blocks \ {b} : states[d] = blockState[d]
    BY DEF Types, States
  <2> HIDE DEF states
  <2>2. CASE ~running
    <3>1. net' = n /\ blockState' = states /\ served' = served
      BY <1>5, <2>2 DEF RestartStopped
    <3>2. Types'
      BY <3>1, <2>1, <1>1, <1>2 DEF Types
    <3>3. EdgesInGraph'
      BY <3>1, <2>1, <2>2, <1>2, <1>3 DEF EdgesInGraph, InGraph
    <3>4. InputsTakenOnce' /\ InputsAsListed'
      BY <3>1, <1>1, <1>2, NothingJoined
    <3>5. ReadersListed'
      <4>1. \A d \in Blocks : blockState[d] = "ZOMBIE" => blockState'[d] = "ZOMBIE"
        BY <3>1, <2>1, <1>1 DEF InGraph
      <4> QED BY <4>1, <3>1, <1>2, <1>3, <1>4 DEF ReadersListed, InConnected
    <3> QED BY <3>2, <3>3, <3>4, <3>5, <1>1, <2>2 DEF EdgesCarry, CalledAreServed, ReadersAreServed
  <2>3. CASE running
    <3>1. R \in SUBSET Blocks /\ (\A d \in R : StoppedOrStopping(d)) /\ R \cap {b} = {}
      BY <1>3 DEF neighbours
    <3> HIDE DEF R
    <3>2. /\ \A e \in n.edges : n.reads[e.dst] \in {e.src, None}
          /\ \A e \in n.edges : blockState[Holder[e.src]] = "RUNNING" /\ blockState[Holder[e.dst]] = "RUNNING"
                                => n.reads[e.dst] = e.src
      BY <1>2, <1>3, <2>3 DEF InputsAsListed, EdgesCarry
    <3>3. \A i \in Ins : n.reads[i] # None => Holder[i] \in served \cup R \cup {b}
      BY <1>2, <1>5, <2>3 DEF ReadersAreServed, InConnected
    <3>4. Restartable(n, R, {b}, states)
      BY <3>1, <3>2, <3>3, <2>1, <2>3, <1>1, <1>2, <1>4, <1>5 DEF Restartable, EdgesInGraph, InputsTakenOnce
    <3>5. RestartStopped(n, R, {b}, states, served \cup {b}) /\ served \cup {b} # {}
      BY <1>5, <2>3
    <3> QED BY <3>4, <3>5, <1>1, <2>3, RestartWithWorkers
  <2> QED BY <2>2, <2>3
<1>6. CASE /\ running
           /\ net' = releaseInputs(n, InsOf(b))
           /\ blockState' = [blockState EXCEPT ![b] = "ERROR"]
           /\ served' = served \ {b}
  <2>1. /\ net' \in Nets /\ net'.edges = net.edges
        /\ \A i \in Ins : net'.reads[i] = IF i \in InsOf(b) THEN None ELSE n.reads[i]
    BY <1>2, <1>6, Releasing
  <2>2. /\ blockState' \in [Blocks -> States] /\ blockState'[b] = "ERROR"
        /\ \A d \in Blocks \ {b} : blockState'[d] = blockState[d]
    BY <1>6 DEF Types, States
  <2>3. Types'
    BY <2>1, <2>2, <1>1, <1>6 DEF Types
  <2>4. EdgesInGraph'
    BY <2>1, <2>2, <1>3 DEF EdgesInGraph, InGraph
  <2>5. InputsTakenOnce' /\ InputsAsListed'
    BY <2>1, <1>1, <1>2, NothingJoined
  <2>6. ReadersListed'
    <3>1. \A d \in Blocks : blockState[d] = "ZOMBIE" => blockState'[d] = "ZOMBIE"
      BY <2>2, <1>1 DEF InGraph
    <3> QED BY <3>1, <2>1, <1>2, <1>3, <1>4 DEF ReadersListed, InConnected
  <2>7. EdgesCarry'
    BY <2>1, <2>2, <1>2, <1>3, <1>6 DEF EdgesCarry, InsOf
  <2>8. CalledAreServed' /\ ReadersAreServed'
    BY <2>1, <2>2, <1>1, <1>2, <1>6 DEF CalledAreServed, ReadersAreServed, InConnected, InsOf
  <2> QED BY <2>3, <2>4, <2>5, <2>6, <2>7, <2>8
<1>7. CASE /\ running /\ served = {}
           /\ net' = n
           /\ blockState' = [blockState EXCEPT ![b] = "STOPPED"]
           /\ served' = served \ {b}
  <2>1. /\ blockState' \in [Blocks -> States] /\ blockState'[b] = "STOPPED"
        /\ \A d \in Blocks \ {b} : blockState'[d] = blockState[d]
    BY <1>7 DEF Types, States
  <2>2. Types'
    BY <2>1, <1>1, <1>2, <1>7 DEF Types
  <2>3. EdgesInGraph'
    BY <2>1, <1>2, <1>3, <1>7 DEF EdgesInGraph, InGraph
  <2>4. InputsTakenOnce' /\ InputsAsListed'
    BY <1>1, <1>2, <1>7, NothingJoined
  <2>5. ReadersListed'
    <3>1. \A d \in Blocks : blockState[d] = "ZOMBIE" => blockState'[d] = "ZOMBIE"
      BY <2>1, <1>1 DEF InGraph
    <3> QED BY <3>1, <1>2, <1>3, <1>4, <1>7 DEF ReadersListed, InConnected
  <2>6. \A d \in Blocks : blockState'[d] \notin {"RUNNING", "REQUESTED_STOP"}
    BY <2>1, <1>7, NobodyCalled
  <2>7. EdgesCarry' /\ CalledAreServed' /\ ReadersAreServed'
    BY <2>6, <1>2, <1>3, <1>7 DEF EdgesCarry, CalledAreServed, ReadersAreServed
  <2> QED BY <2>2, <2>3, <2>4, <2>5, <2>7
<1> QED
  BY <1>5, <1>6, <1>7 DEF ReplaceBlock, n

-----------------------------------------------------------------------------
LEMMA StepsKept ==
  ASSUME Removable \subseteq Blocks, Replaceable \subseteq Blocks, ~ResumeIntoEnded, GraphInv, [GraphNext]_graphVars
  PROVE  GraphInv'
<1>1. CASE \E pair \in Pairs, as \in Namings : Connect(pair, as) \/ EmplaceEdge(pair, as)
  BY <1>1, ConnectKept, EmplaceEdgeKept
<1>2. CASE \E o \in Outs : RemoveEdge(o, Ins) \/ \E i \in Ins : RemoveEdge(o, {i})
  BY <1>2, RecordErased, PortTornDown
<1>3. CASE \E b \in Removable : RemoveBlock(b) \/ DropZombie(b) \/ EmplaceBlock(b)
  BY <1>3, RemoveBlockKept, DropZombieKept, EmplaceBlockKept
<1>4. CASE \E b \in Replaceable : ReplaceBlock(b)
  BY <1>4, ReplaceBlockKept
<1>5. CASE \E b \in Blocks : Finish(b) \/ LoseReaders(b) \/ CallStopped(b) \/ Leave(b)
  BY <1>5, FinishKept, LoseReadersKept, LeaveKept
<1>6. CASE Start \/ Stop \/ PauseAndResume
  BY <1>6, StartKept, StopKept, ResumeKept
<1>7. CASE UNCHANGED graphVars
  BY <1>7 DEF graphVars, GraphInv, Types, EdgesInGraph, InGraph, InputsTakenOnce, ReadersListed, InputsAsListed, EdgesCarry,
              CalledAreServed, ReadersAreServed, InConnected
<1> QED
  BY <1>1, <1>2, <1>3, <1>4, <1>5, <1>6, <1>7 DEF GraphNext

LEMMA NobodyGatesFollows == GraphInv => NobodyGates
<1> SUFFICES ASSUME GraphInv, running, NEW i \in Ins, InConnected(net, i), blockState[Holder[net.reads[i]]] = "RUNNING"
             PROVE  Holder[i] \in served
  BY DEF NobodyGates
<1>1. Holder[net.reads[i]] \in Blocks
  BY NetPorts DEF GraphInv, Types, InConnected
<1>2. served # {}
  BY <1>1 DEF GraphInv, CalledAreServed
<1> QED
  BY <1>2 DEF GraphInv, ReadersAreServed

\* For any blocks, ports and edges, and any number of edits: an input is taken by one edge,
\* every reader on a ring has its edge unless a block of it was removed, running blocks
\* joined by an edge are joined by a ring, and a source that runs is read only by blocks
\* that a worker calls.  A resume() that finds waiting edges into blocks no worker calls any
\* more is left out, as in the run: it connects them, and the source then waits for a reader
\* that nothing calls.
THEOREM WiringStays ==
  ASSUME Removable \subseteq Blocks, Replaceable \subseteq Blocks, ~ResumeIntoEnded
  PROVE  GraphSpec => []WiringKept
<1>1. GraphInv /\ [GraphNext]_graphVars => GraphInv'
  BY StepsKept
<1>2. GraphInv => WiringKept
  BY NobodyGatesFollows DEF GraphInv, WiringKept
<1> QED
  BY <1>1, <1>2, InitKept, PTL DEF GraphSpec

-----------------------------------------------------------------------------
(* The settings. *)

\* The values of the members, a stored set, and the fields of a store.
Vals == [Keys -> Values]
Sets == [time : Nat, values : Vals]
StoreFields == {"member", "active", "defaults", "stored", "autoUpdate", "coupled", "activeCtx", "activated",
                "before", "autoBefore", "staged", "tagged", "changed"}

\* What may be staged; a context and a time; one of those or none.
IsBatch(f) == DOMAIN f \subseteq Keys \cup Controls /\ \A k \in Keys \cap DOMAIN f : f[k] \in Values
IsCtx(x) == x.context \in Names /\ x = Ctx(x.time, x.context)
IsNamed(ctx) == ctx = NoCtx \/ IsCtx(ctx)

IsStore(s) ==
  /\ DOMAIN s = StoreFields
  /\ s.member \in Vals /\ s.active \in Vals /\ s.defaults \in Vals
  /\ s.stored \in [Names -> Seq(Sets)]
  /\ IsCtx(s.activeCtx) /\ IsNamed(s.before)
  /\ IsBatch(s.staged) /\ s.changed \in BOOLEAN /\ s.activated \in BOOLEAN

\* The times of a context's sets, which are sorted by them.
Times(v) == {v[k].time : k \in DOMAIN v}
SortedVec(v) == \A i, j \in DOMAIN v : i < j => v[i].time <= v[j].time
DistinctVec(v) == \A i, j \in DOMAIN v : v[i].time = v[j].time => i = j
Sorted(s) == \A c \in Names : SortedVec(s.stored[c])

\* The context has a set that is valid now.
IsPresent(s, c) == \E t \in Times(s.stored[c]) : t <= now

\* The order of the stored sets; the default context never loses its present values.
Ordered(s) == IsStore(s) /\ Sorted(s) /\ IsPresent(s, Default)

\* The two other parts of SettingsCoherent, with the flag of an activation.
ActiveStored(s) == s.stored[s.activeCtx.context] # <<>>

Noticed(s) == /\ s.activated => DOMAIN s.staged # {}
              /\ DOMAIN s.staged # {} => s.changed

\* What a call under the lock keeps, and what most leave as it was.
Leads(s, r) ==
  /\ Ordered(r) /\ (ActiveStored(s) => ActiveStored(r)) /\ (Noticed(s) => Noticed(r))
  /\ \A c \in Names : IsPresent(s, c) => IsPresent(r, c)

SameFields(s, r) == r.member = s.member /\ r.active = s.active /\ r.defaults = s.defaults

-----------------------------------------------------------------------------
(* Numbers and sorted sequences. *)

LEMMA Least ==
  ASSUME NEW T \in SUBSET Nat, T # {}
  PROVE  \E m \in T : \A j \in T : m <= j
<1> DEFINE Less == OpToRel(<, Nat)
<1>1. IsWellFoundedOn(Less, Nat)
  BY NatLessThanWellFounded
<1>2. PICK m \in T : \A j \in T : ~(<<j, m>> \in Less)
  <2> HIDE DEF Less
  <2> QED BY <1>1, WFMin
<1>3. ASSUME NEW j \in T PROVE m <= j
  <2> SUFFICES ASSUME j < m PROVE FALSE
    BY DEF OpToRel
  <2>1. <<j, m>> \in Less
    BY DEF OpToRel
  <2> QED BY <2>1, <1>2
<1> QED BY <1>3

LEMMA Greatest ==
  ASSUME NEW n \in Nat, NEW T \in SUBSET (1 .. n), T # {}
  PROVE  \E m \in T : \A j \in T : j <= m
<1> DEFINE U == {n - k : k \in T}
<1>0. T # {} /\ \A k \in T : k \in Nat /\ n - k \in Nat
  OBVIOUS
<1>1. U \in SUBSET Nat /\ U # {}
  BY <1>0
<1>2. PICK u \in U : \A j \in U : u <= j
  <2> HIDE DEF U
  <2> QED BY <1>1, Least
<1>3. PICK m \in T : u = n - m
  BY <1>2
<1>4. ASSUME NEW j \in T PROVE j <= m
  <2>1. n - j \in U
    OBVIOUS
  <2>2. n - m <= n - j
    BY <1>2, <1>3, <2>1
  <2> QED BY <1>0, <2>2
<1> QED BY <1>4

\* How many sets of a context come before a time.
LEMMA SetsOf ==
  ASSUME NEW v \in Seq(Sets)
  PROVE  /\ Len(v) \in Nat /\ DOMAIN v = 1 .. Len(v)
         /\ \A k \in 1 .. Len(v) : v[k] \in Sets /\ v[k].time \in Nat /\ v[k].values \in Vals
<1>1. \A k \in 1 .. Len(v) : v[k] \in Sets
  BY ElementOfSeq
<1>2. \A e \in Sets : e.time \in Nat /\ e.values \in Vals
  BY DEF Sets
<1> QED BY <1>1, <1>2, LenProperties

LEMMA SetsBefore ==
  ASSUME NEW v \in Seq(Sets), SortedVec(v), NEW n \in Nat, NEW L, L = Cardinality({k \in DOMAIN v : v[k].time < n})
  PROVE  /\ L \in Nat /\ L <= Len(v)
         /\ \A k \in 1 .. Len(v) : k <= L <=> v[k].time < n
<1> DEFINE B == {k \in DOMAIN v : v[k].time < n}
           T == DOMAIN v \ B
<1>1. Len(v) \in Nat /\ DOMAIN v = 1 .. Len(v) /\ \A k \in 1 .. Len(v) : v[k].time \in Nat
  BY SetsOf
<1>2. CASE T = {}
  <2>1. B = 1 .. Len(v)
    BY <1>1, <1>2
  <2>2. L = Len(v)
    <3>1. Cardinality(1 .. Len(v)) = Len(v)
      BY <1>1, FS_Interval
    <3> HIDE DEF B, T
    <3> QED BY <2>1, <3>1 DEF B
  <2>3. \A k \in 1 .. Len(v) : v[k].time < n
    BY <1>1, <1>2
  <2> HIDE DEF B, T
  <2>6. Len(v) \in Nat /\ Len(v) <= Len(v) /\ \A k \in 1 .. Len(v) : k <= Len(v)
    BY <1>1
  <2>4. L \in Nat /\ L <= Len(v)
    BY <2>6, <2>2, Zenon
  <2>5. ASSUME NEW k \in 1 .. Len(v) PROVE k <= L
    BY <2>6, <2>2, Zenon
  <2> QED BY <2>3, <2>4, <2>5
<1>3. CASE T # {}
  <2>1. T \in SUBSET Nat
    BY <1>1
  <2>2. PICK m \in T : \A j \in T : m <= j
    <3> HIDE DEF T
    <3> QED BY <2>1, <1>3, Least
  <2>3. m \in 1 .. Len(v) /\ ~(v[m].time < n)
    BY <1>1
  <2>4. \A k \in 1 .. Len(v) : k \in B <=> k < m
    <3>1. ASSUME NEW k \in 1 .. Len(v), k < m PROVE k \in B
      BY <1>1, <2>2, <2>3, <3>1
    <3>2. ASSUME NEW k \in 1 .. Len(v), k \in B PROVE k < m
      <4> SUFFICES ASSUME m <= k PROVE FALSE
        BY <1>1, <2>3
      <4>1. m = k \/ v[m].time <= v[k].time
        BY <1>1, <2>3 DEF SortedVec
      <4> QED BY <1>1, <2>3, <3>2, <4>1
    <3> QED BY <3>1, <3>2
  <2>5. B = 1 .. m - 1
    BY <1>1, <2>3, <2>4
  <2>6. L = m - 1
    <3>1. m \in Nat /\ m - 1 \in Int /\ 1 \in Int /\ m >= 1
      BY <1>1, <2>3
    <3>2. Cardinality(1 .. m - 1) = m - 1
      BY <3>1, FS_Interval
    <3> HIDE DEF B, T
    <3> QED BY <2>5, <3>2 DEF B
  <2>7. \A k \in 1 .. Len(v) : k < m <=> v[k].time < n
    BY <1>1, <2>4
  <2> HIDE DEF B, T
  <2>8. L \in Nat /\ L <= Len(v)
    BY <1>1, <2>3, <2>6
  <2>9. \A k \in 1 .. Len(v) : k <= L <=> k < m
    BY <1>1, <2>3, <2>6
  <2> QED BY <2>7, <2>8, <2>9
<1> QED BY <1>2, <1>3

\* A part of a sequence of sets.
LEMMA Part ==
  ASSUME NEW v \in Seq(Sets), NEW a \in Int, NEW b \in Int, 1 <= a, a <= b + 1, b <= Len(v), NEW r, r = SubSeq(v, a, b)
  PROVE  /\ r \in Seq(Sets) /\ Len(r) = b - a + 1 /\ DOMAIN r = 1 .. Len(r)
         /\ \A k \in 1 .. Len(r) : r[k] = v[a + k - 1]
<1>1. Len(v) \in Nat /\ \A i \in a .. b : v[i] \in Sets
  BY LenProperties, ElementOfSeq
<1>2. /\ r \in Seq(Sets) /\ Len(r) = IF a <= b THEN b - a + 1 ELSE 0
      /\ \A k \in 1 .. b - a + 1 : r[k] = v[a + k - 1]
  BY <1>1, SubSeqProperties
<1>3. DOMAIN r = 1 .. Len(r)
  BY <1>2, LenProperties
<1> QED BY <1>2, <1>3

LEMMA Inserting ==
  ASSUME NEW v \in Seq(Sets), SortedVec(v), NEW e \in Sets, NEW r,
         r = InsertAt(v, Cardinality({k \in DOMAIN v : v[k].time < e.time}) + 1, e)
  PROVE  /\ r \in Seq(Sets) /\ SortedVec(r)
         /\ Times(r) = Times(v) \cup {e.time}
         /\ DistinctVec(v) /\ e.time \notin Times(v) => DistinctVec(r)
<1> DEFINE L == Cardinality({k \in DOMAIN v : v[k].time < e.time})
           a == SubSeq(v, 1, L)
           b == SubSeq(v, L + 1, Len(v))
<1>1. Len(v) \in Nat /\ DOMAIN v = 1 .. Len(v) /\ \A k \in 1 .. Len(v) : v[k] \in Sets /\ v[k].time \in Nat
  BY SetsOf
<1>2. e.time \in Nat
  BY DEF Sets
<1>3. /\ L \in Nat /\ L <= Len(v)
      /\ \A k \in 1 .. Len(v) : k <= L <=> v[k].time < e.time
  BY <1>2, SetsBefore
<1> HIDE DEF L
<1>4. r = a \o <<e>> \o b
  <2>1. (L + 1) - 1 = L
    BY <1>3
  <2> HIDE DEF a, b
  <2>2. r = SubSeq(v, 1, (L + 1) - 1) \o <<e>> \o SubSeq(v, L + 1, Len(v))
    BY DEF InsertAt, L
  <2> QED BY <2>1, <2>2 DEF a, b
<1>5. /\ a \in Seq(Sets) /\ Len(a) = L /\ \A k \in 1 .. L : a[k] = v[k]
  <2>1. Len(a) = L - 1 + 1 /\ a \in Seq(Sets) /\ \A k \in 1 .. Len(a) : a[k] = v[1 + k - 1]
    <3>1. 1 \in Int /\ L \in Int /\ 1 <= 1 /\ 1 <= L + 1 /\ L <= Len(v)
      BY <1>1, <1>3
    <3> QED BY <3>1, Part
  <2> HIDE DEF a
  <2> QED BY <1>3, <2>1
<1>6. /\ b \in Seq(Sets) /\ Len(b) = Len(v) - L /\ \A k \in 1 .. Len(v) - L : b[k] = v[L + k]
  <2>1. Len(b) = Len(v) - (L + 1) + 1 /\ b \in Seq(Sets) /\ \A k \in 1 .. Len(b) : b[k] = v[(L + 1) + k - 1]
    <3>1. L + 1 \in Int /\ Len(v) \in Int /\ 1 <= L + 1 /\ L + 1 <= Len(v) + 1 /\ Len(v) <= Len(v)
      BY <1>1, <1>3
    <3> QED BY <3>1, Part
  <2> HIDE DEF b
  <2> QED BY <1>1, <1>3, <2>1
<1> HIDE DEF a, b
<1>7. /\ a \o <<e>> \in Seq(Sets) /\ Len(a \o <<e>>) = L + 1
      /\ \A k \in 1 .. L + 1 : (a \o <<e>>)[k] = IF k <= L THEN v[k] ELSE e
  <2>1. <<e>> \in Seq(Sets) /\ Len(<<e>>) = 1 /\ <<e>>[1] = e
    OBVIOUS
  <2>2. /\ a \o <<e>> \in Seq(Sets) /\ Len(a \o <<e>>) = L + 1
        /\ \A k \in 1 .. L + 1 : (a \o <<e>>)[k] = IF k <= L THEN a[k] ELSE <<e>>[k - L]
    BY <1>5, <2>1, ConcatProperties
  <2>3. ASSUME NEW k \in 1 .. L + 1 PROVE (a \o <<e>>)[k] = IF k <= L THEN v[k] ELSE e
    <3>1. CASE k <= L
      BY <1>3, <1>5, <2>2, <3>1
    <3>2. CASE k = L + 1
      BY <1>3, <2>1, <2>2, <3>2
    <3>3. k <= L \/ k = L + 1
      BY <1>3
    <3> QED BY <3>1, <3>2, <3>3
  <2> QED BY <2>2, <2>3
<1>8. /\ r \in Seq(Sets) /\ Len(r) = Len(v) + 1
      /\ \A k \in 1 .. Len(v) + 1 : r[k] = IF k <= L THEN v[k] ELSE IF k = L + 1 THEN e ELSE v[k - 1]
  <2> DEFINE f == a \o <<e>>
  <2>1. f \in Seq(Sets) /\ Len(f) = L + 1 /\ \A k \in 1 .. L + 1 : f[k] = IF k <= L THEN v[k] ELSE e
    BY <1>7
  <2>2. r = f \o b
    BY <1>4
  <2> HIDE DEF f
  <2>3. /\ r \in Seq(Sets) /\ Len(r) = Len(f) + Len(b)
        /\ \A k \in 1 .. Len(f) + Len(b) : r[k] = IF k <= Len(f) THEN f[k] ELSE b[k - Len(f)]
    <3>1. f \in Seq(Sets) /\ b \in Seq(Sets)
      BY <2>1, <1>6
    <3>2. /\ f \o b \in Seq(Sets) /\ Len(f \o b) = Len(f) + Len(b)
          /\ \A k \in 1 .. Len(f) + Len(b) : (f \o b)[k] = IF k <= Len(f) THEN f[k] ELSE b[k - Len(f)]
      BY <3>1, ConcatProperties
    <3> QED BY <2>2, <3>2
  <2>4. Len(f) + Len(b) = Len(v) + 1
    BY <1>1, <1>3, <1>6, <2>1
  <2>5. ASSUME NEW k \in 1 .. Len(v) + 1
        PROVE  r[k] = IF k <= L THEN v[k] ELSE IF k = L + 1 THEN e ELSE v[k - 1]
    <3>1. CASE k <= L + 1
      BY SMTT(30), <1>3, <2>1, <2>3, <2>4, <3>1
    <3>2. CASE k > L + 1
      <4>1. k - (L + 1) \in 1 .. Len(v) - L /\ L + (k - (L + 1)) = k - 1
        BY <1>1, <1>3, <3>2
      <4>2. r[k] = b[k - (L + 1)]
        <5>1. k \in 1 .. Len(f) + Len(b) /\ ~(k <= Len(f)) /\ Len(f) = L + 1
          BY <1>1, <1>3, <2>1, <2>4, <3>2
        <5> QED BY <2>3, <5>1
      <4>3. b[k - (L + 1)] = v[k - 1]
        BY <1>6, <4>1
      <4> QED BY <1>3, <3>2, <4>2, <4>3
    <3> QED BY <1>3, <3>1, <3>2
  <2> QED BY <2>3, <2>4, <2>5
<1>9. DOMAIN r = 1 .. Len(v) + 1
  BY <1>8, LenProperties
<1>10. SortedVec(r)
  <2> SUFFICES ASSUME NEW i \in 1 .. Len(v) + 1, NEW j \in 1 .. Len(v) + 1, i < j
               PROVE  r[i].time <= r[j].time
    BY <1>9 DEF SortedVec
  <2>1. \A p, q \in 1 .. Len(v) : p <= q => v[p].time <= v[q].time
    BY <1>1 DEF SortedVec
  <2>2. CASE j <= L
    BY <1>1, <1>3, <1>8, <2>1, <2>2
  <2>3. CASE j = L + 1
    BY <1>1, <1>2, <1>3, <1>8, <2>3
  <2>4. CASE j > L + 1 /\ i <= L
    <3>1. j - 1 \in 1 .. Len(v) /\ i \in 1 .. Len(v) /\ i <= j - 1
      BY <1>1, <1>3, <2>4
    <3>2. r[j] = v[j - 1] /\ r[i] = v[i]
      BY <1>3, <1>8, <2>4
    <3> QED BY <2>1, <3>1, <3>2
  <2>5. CASE j > L + 1 /\ i = L + 1
    <3>1. j - 1 \in 1 .. Len(v) /\ ~(v[j - 1].time < e.time)
      BY <1>1, <1>3, <2>5
    <3>2. r[j] = v[j - 1] /\ r[i] = e
      BY SMTT(30), <1>3, <1>8, <2>5
    <3>3. e.time \in Nat /\ v[j - 1].time \in Nat
      BY <1>1, <1>2, <3>1
    <3> QED BY <3>1, <3>2, <3>3
  <2>6. CASE j > L + 1 /\ i > L + 1
    <3>1. j - 1 \in 1 .. Len(v) /\ i - 1 \in 1 .. Len(v) /\ i - 1 <= j - 1
      BY <1>1, <1>3, <2>6
    <3>2. r[j] = v[j - 1] /\ r[i] = v[i - 1]
      BY <1>3, <1>8, <2>6
    <3> QED BY <2>1, <3>1, <3>2
  <2> QED BY <1>3, <2>2, <2>3, <2>4, <2>5, <2>6
<1>11. Times(r) = Times(v) \cup {e.time}
  <2>1. ASSUME NEW k \in 1 .. Len(v) + 1 PROVE r[k].time \in Times(v) \cup {e.time}
    <3>1. CASE k <= L
      <4>1. k \in 1 .. Len(v)
        BY <1>1, <1>3, <3>1
      <4>2. k \in DOMAIN v /\ r[k] = v[k]
        BY <1>1, <1>8, <3>1, <4>1
      <4> QED BY <4>2 DEF Times
    <3>2. CASE k = L + 1
      BY <1>3, <1>8, <3>2
    <3>3. CASE k > L + 1
      <4>1. k - 1 \in 1 .. Len(v)
        BY <1>1, <1>3, <3>3
      <4>2. k - 1 \in DOMAIN v /\ r[k] = v[k - 1]
        BY <1>1, <1>3, <1>8, <3>3, <4>1
      <4> QED BY <4>2 DEF Times
    <3> QED BY <1>3, <3>1, <3>2, <3>3
  <2>2. ASSUME NEW k \in 1 .. Len(v) PROVE v[k].time \in Times(r)
    <3>1. CASE k <= L
      <4>1. k \in DOMAIN r /\ r[k] = v[k]
        BY <1>1, <1>3, <1>8, <1>9, <3>1
      <4> QED BY <4>1 DEF Times
    <3>2. CASE k > L
      <4>1. k + 1 \in 1 .. Len(v) + 1 /\ r[k + 1] = v[k]
        BY <1>1, <1>3, <1>8, <3>2
      <4> QED BY <1>9, <4>1 DEF Times
    <3> QED BY <1>3, <3>1, <3>2
  <2>3. e.time \in Times(r)
    <3>1. L + 1 \in 1 .. Len(v) + 1 /\ r[L + 1] = e
      BY <1>1, <1>3, <1>8
    <3> QED BY <1>9, <3>1 DEF Times
  <2> QED BY <1>1, <1>9, <2>1, <2>2, <2>3 DEF Times
<1>12. ASSUME DistinctVec(v), e.time \notin Times(v) PROVE DistinctVec(r)
  <2> DEFINE from(k) == IF k <= L THEN k ELSE k - 1
  <2>1. ASSUME NEW k \in 1 .. Len(v) + 1, k # L + 1 PROVE from(k) \in DOMAIN v /\ r[k] = v[from(k)]
    <3>1. from(k) \in 1 .. Len(v)
      BY <1>1, <1>3, <2>1
    <3>2. r[k] = v[from(k)]
      BY <1>3, <1>8, <2>1
    <3> QED BY <1>1, <3>1, <3>2
  <2>2. L + 1 \in 1 .. Len(v) + 1 /\ r[L + 1] = e
    BY <1>1, <1>3, <1>8
  <2> SUFFICES ASSUME NEW i \in 1 .. Len(v) + 1, NEW j \in 1 .. Len(v) + 1, r[i].time = r[j].time PROVE i = j
    BY <1>9 DEF DistinctVec
  <2>3. CASE i = L + 1 /\ j # L + 1
    BY <1>12, <2>1, <2>2, <2>3 DEF Times
  <2>4. CASE j = L + 1 /\ i # L + 1
    BY <1>12, <2>1, <2>2, <2>4 DEF Times
  <2>5. CASE i # L + 1 /\ j # L + 1
    <3>1. from(i) = from(j)
      <4>1. from(i) \in DOMAIN v /\ from(j) \in DOMAIN v /\ v[from(i)].time = v[from(j)].time
        BY <2>1, <2>5
      <4> HIDE DEF from
      <4> QED BY <4>1, <1>12 DEF DistinctVec
    <3> QED BY <1>3, <2>5, <3>1
  <2> QED BY <2>3, <2>4, <2>5
<1> QED BY <1>8, <1>10, <1>11, <1>12

\* A sequence that has some of the sets of another, in its order.
LEMMA Picking ==
  ASSUME NEW v \in Seq(Sets), SortedVec(v), NEW r \in Seq(Sets), NEW m \in [1 .. Len(r) -> 1 .. Len(v)],
         \A k \in 1 .. Len(r) : r[k].time = v[m[k]].time,
         \A i, j \in 1 .. Len(r) : i < j => m[i] < m[j]
  PROVE  SortedVec(r) /\ Times(r) \subseteq Times(v) /\ (DistinctVec(v) => DistinctVec(r))
<1>1. DOMAIN v = 1 .. Len(v) /\ DOMAIN r = 1 .. Len(r) /\ Len(r) \in Nat
  BY SetsOf
<1>2. SortedVec(r)
  <2> SUFFICES ASSUME NEW i \in 1 .. Len(r), NEW j \in 1 .. Len(r), i < j PROVE r[i].time <= r[j].time
    BY <1>1 DEF SortedVec
  <2>1. m[i] \in DOMAIN v /\ m[j] \in DOMAIN v /\ m[i] < m[j]
    BY <1>1
  <2>2. v[m[i]].time <= v[m[j]].time
    BY <2>1 DEF SortedVec
  <2> QED BY <2>2
<1>3. Times(r) \subseteq Times(v)
  <2> SUFFICES ASSUME NEW k \in 1 .. Len(r) PROVE r[k].time \in Times(v)
    BY <1>1 DEF Times
  <2>1. m[k] \in DOMAIN v
    BY <1>1
  <2> QED BY <2>1 DEF Times
<1>4. ASSUME DistinctVec(v) PROVE DistinctVec(r)
  <2> SUFFICES ASSUME NEW i \in 1 .. Len(r), NEW j \in 1 .. Len(r), r[i].time = r[j].time PROVE i = j
    BY <1>1 DEF DistinctVec
  <2>1. m[i] \in DOMAIN v /\ m[j] \in DOMAIN v /\ v[m[i]].time = v[m[j]].time
    BY <1>1
  <2>2. m[i] = m[j]
    BY <2>1, <1>4 DEF DistinctVec
  <2>3. ~(i < j) /\ ~(j < i)
    BY <2>2
  <2> QED BY <1>1, <2>3
<1> QED BY <1>2, <1>3, <1>4

LEMMA Removing ==
  ASSUME NEW v \in Seq(Sets), SortedVec(v), NEW at \in DOMAIN v, NEW r, r = RemoveAt(v, at)
  PROVE  /\ r \in Seq(Sets) /\ SortedVec(r) /\ Times(r) \subseteq Times(v)
         /\ Times(v) \subseteq Times(r) \cup {v[at].time}
         /\ DistinctVec(v) => DistinctVec(r) /\ v[at].time \notin Times(r)
<1> DEFINE a == SubSeq(v, 1, at - 1)
           b == SubSeq(v, at + 1, Len(v))
           m == [k \in 1 .. Len(r) |-> IF k < at THEN k ELSE k + 1]
<1>1. Len(v) \in Nat /\ DOMAIN v = 1 .. Len(v) /\ at \in 1 .. Len(v)
  BY SetsOf
<1>2. /\ a \in Seq(Sets) /\ Len(a) = at - 1 /\ \A k \in 1 .. at - 1 : a[k] = v[k]
  <2>1. Len(a) = (at - 1) - 1 + 1 /\ a \in Seq(Sets) /\ \A k \in 1 .. Len(a) : a[k] = v[1 + k - 1]
    <3>1. 1 \in Int /\ at - 1 \in Int /\ 1 <= 1 /\ 1 <= (at - 1) + 1 /\ at - 1 <= Len(v)
      BY <1>1
    <3> QED BY <3>1, Part
  <2> HIDE DEF a
  <2> QED BY <1>1, <2>1
<1>3. /\ b \in Seq(Sets) /\ Len(b) = Len(v) - at /\ \A k \in 1 .. Len(v) - at : b[k] = v[at + k]
  <2>1. Len(b) = Len(v) - (at + 1) + 1 /\ b \in Seq(Sets) /\ \A k \in 1 .. Len(b) : b[k] = v[(at + 1) + k - 1]
    <3>1. at + 1 \in Int /\ Len(v) \in Int /\ 1 <= at + 1 /\ at + 1 <= Len(v) + 1 /\ Len(v) <= Len(v)
      BY <1>1
    <3> QED BY <3>1, Part
  <2> HIDE DEF b
  <2>2. Len(v) - (at + 1) + 1 = Len(v) - at
    BY <1>1
  <2>3. Len(b) = Len(v) - at
    BY <2>1, <2>2
  <2>4. ASSUME NEW k \in 1 .. Len(v) - at PROVE b[k] = v[at + k]
    <3>1. (at + 1) + k - 1 = at + k
      BY <1>1
    <3>2. b[k] = v[(at + 1) + k - 1]
      BY <2>1, <2>3
    <3> QED BY <3>1, <3>2
  <2> QED BY <2>1, <2>3, <2>4
<1>4. r = a \o b
  BY DEF RemoveAt
<1> HIDE DEF a, b
<1>5. /\ r \in Seq(Sets) /\ Len(r) = Len(v) - 1
      /\ \A k \in 1 .. Len(v) - 1 : r[k] = IF k < at THEN v[k] ELSE v[k + 1]
  <2>1. /\ a \o b \in Seq(Sets) /\ Len(a \o b) = Len(a) + Len(b)
        /\ \A k \in 1 .. Len(a) + Len(b) : (a \o b)[k] = IF k <= Len(a) THEN a[k] ELSE b[k - Len(a)]
    BY <1>2, <1>3, ConcatProperties
  <2>2. Len(a) + Len(b) = Len(v) - 1
    BY <1>1, <1>2, <1>3
  <2>3. ASSUME NEW k \in 1 .. Len(v) - 1 PROVE r[k] = IF k < at THEN v[k] ELSE v[k + 1]
    <3>1. CASE k < at
      <4>1. k \in 1 .. at - 1 /\ k <= Len(a)
        BY <1>1, <1>2, <3>1
      <4> QED BY <1>2, <1>4, <2>1, <2>2, <3>1, <4>1
    <3>2. CASE ~(k < at)
      <4>1. k - (at - 1) \in 1 .. Len(v) - at /\ at + (k - (at - 1)) = k + 1 /\ ~(k <= Len(a))
        BY <1>1, <1>2, <3>2
      <4>2. r[k] = b[k - (at - 1)]
        BY <1>2, <1>4, <2>1, <2>2, <4>1
      <4> QED BY <1>3, <3>2, <4>1, <4>2
    <3> QED BY <3>1, <3>2
  <2> QED BY <1>4, <2>1, <2>2, <2>3
<1>6. /\ m \in [1 .. Len(r) -> 1 .. Len(v)]
      /\ \A k \in 1 .. Len(r) : r[k].time = v[m[k]].time
      /\ \A i, j \in 1 .. Len(r) : i < j => m[i] < m[j]
      /\ \A k \in 1 .. Len(r) : m[k] # at
  BY <1>1, <1>5
<1> HIDE DEF m
<1>7. SortedVec(r) /\ Times(r) \subseteq Times(v) /\ (DistinctVec(v) => DistinctVec(r))
  BY <1>5, <1>6, Picking
<1>8. DOMAIN r = 1 .. Len(r)
  BY <1>5, LenProperties
<1>9. Times(v) \subseteq Times(r) \cup {v[at].time}
  <2> SUFFICES ASSUME NEW k \in 1 .. Len(v), k # at PROVE v[k].time \in Times(r)
    BY <1>1 DEF Times
  <2>1. CASE k < at
    <3>1. k \in DOMAIN r /\ r[k] = v[k]
      BY <1>1, <1>5, <1>8, <2>1
    <3> QED BY <3>1 DEF Times
  <2>2. CASE k > at
    <3>1. k - 1 \in DOMAIN r /\ r[k - 1] = v[k]
      BY <1>1, <1>5, <1>8, <2>2
    <3> QED BY <3>1 DEF Times
  <2> QED BY <1>1, <2>1, <2>2
<1>10. ASSUME DistinctVec(v) PROVE v[at].time \notin Times(r)
  <2> SUFFICES ASSUME NEW k \in 1 .. Len(r) PROVE r[k].time # v[at].time
    BY <1>8 DEF Times
  <2>1. m[k] \in DOMAIN v /\ m[k] # at /\ r[k].time = v[m[k]].time
    BY <1>1, <1>6
  <2> QED BY <1>10, <2>1 DEF DistinctVec
<1> QED BY <1>5, <1>7, <1>9, <1>10

\* The rest of a sequence from one of its sets on.
LEMMA Cutting ==
  ASSUME NEW v \in Seq(Sets), SortedVec(v), NEW f \in 1 .. Len(v), NEW r, r = SubSeq(v, f, Len(v))
  PROVE  /\ r \in Seq(Sets) /\ r # <<>> /\ SortedVec(r) /\ Times(r) \subseteq Times(v)
         /\ \A k \in 1 .. Len(v) : k < f \/ v[k].time \in Times(r)
         /\ DistinctVec(v) => DistinctVec(r) /\ \A k \in 1 .. f - 1 : v[k].time \notin Times(r)
<1> DEFINE m == [k \in 1 .. Len(r) |-> f + k - 1]
<1>1. Len(v) \in Nat /\ DOMAIN v = 1 .. Len(v) /\ f \in Nat /\ f >= 1 /\ f <= Len(v)
  BY SetsOf
<1>2. /\ r \in Seq(Sets) /\ Len(r) = Len(v) - f + 1 /\ DOMAIN r = 1 .. Len(r)
      /\ \A k \in 1 .. Len(r) : r[k] = v[f + k - 1]
  <2>1. f \in Int /\ Len(v) \in Int /\ 1 <= f /\ f <= Len(v) + 1 /\ Len(v) <= Len(v)
    BY <1>1
  <2> QED BY <2>1, Part
<1>3. /\ m \in [1 .. Len(r) -> 1 .. Len(v)]
      /\ \A k \in 1 .. Len(r) : r[k].time = v[m[k]].time /\ m[k] >= f
      /\ \A i, j \in 1 .. Len(r) : i < j => m[i] < m[j]
  BY <1>1, <1>2
<1> HIDE DEF m
<1>4. SortedVec(r) /\ Times(r) \subseteq Times(v) /\ (DistinctVec(v) => DistinctVec(r))
  BY <1>2, <1>3, Picking
<1>5. ASSUME NEW k \in 1 .. Len(v), k >= f PROVE v[k].time \in Times(r)
  <2>1. k - f + 1 \in 1 .. Len(r) /\ f + (k - f + 1) - 1 = k
    BY <1>1, <1>2, <1>5
  <2>2. r[k - f + 1] = v[k]
    BY <1>2, <2>1
  <2> QED BY <1>2, <2>1, <2>2 DEF Times
<1>6. r # <<>>
  <2>1. Len(r) # 0
    BY <1>1, <1>2
  <2> QED BY <2>1
<1>7. ASSUME DistinctVec(v), NEW k \in 1 .. f - 1 PROVE v[k].time \notin Times(r)
  <2> SUFFICES ASSUME NEW j \in 1 .. Len(r) PROVE r[j].time # v[k].time
    BY <1>2 DEF Times
  <2>1. m[j] \in DOMAIN v /\ k \in DOMAIN v /\ m[j] # k /\ r[j].time = v[m[j]].time
    <3>1. m[j] \in 1 .. Len(v) /\ m[j] >= f /\ r[j].time = v[m[j]].time
      BY <1>3
    <3>2. k \in 1 .. Len(v) /\ k < f
      BY <1>1
    <3> QED BY <1>1, <3>1, <3>2
  <2> QED BY <1>7, <2>1 DEF DistinctVec
<1>8. \A k \in 1 .. Len(v) : k < f \/ v[k].time \in Times(r)
  BY <1>1, <1>5
<1> QED BY <1>2, <1>4, <1>6, <1>7, <1>8

\* The first set a pruning keeps: one that is valid, if there is one.
FirstKept(v, n) ==
  LET lower == Cardinality({k \in DOMAIN v : v[k].time < n}) + 1
  IN IF lower > Len(v) THEN Len(v) ELSE IF v[lower].time = n THEN lower ELSE IF lower > 2 THEN lower - 1 ELSE 1

LEMMA Keeping ==
  ASSUME NEW v \in Seq(Sets), SortedVec(v), v # <<>>, NEW n \in Nat
  PROVE  /\ FirstKept(v, n) \in 1 .. Len(v) /\ \A k \in 1 .. FirstKept(v, n) - 1 : v[k].time < n
         /\ (\E t \in Times(v) : t <= n) => v[FirstKept(v, n)].time <= n
<1> DEFINE L == Cardinality({k \in DOMAIN v : v[k].time < n})
           f == FirstKept(v, n)
<1>1. Len(v) \in Nat /\ DOMAIN v = 1 .. Len(v) /\ \A k \in 1 .. Len(v) : v[k].time \in Nat
  BY SetsOf
<1>2. Len(v) >= 1
  BY <1>1, EmptySeq
<1>3. /\ L \in Nat /\ L <= Len(v) /\ \A k \in 1 .. Len(v) : k <= L <=> v[k].time < n
  BY SetsBefore
<1>4. f = IF L + 1 > Len(v) THEN Len(v) ELSE IF v[L + 1].time = n THEN L + 1 ELSE IF L + 1 > 2 THEN L ELSE 1
  <2>1. f = IF L + 1 > Len(v) THEN Len(v) ELSE IF v[L + 1].time = n THEN L + 1 ELSE IF L + 1 > 2 THEN (L + 1) - 1 ELSE 1
    BY DEF FirstKept
  <2>2. (L + 1) - 1 = L
    BY <1>3
  <2> QED BY <2>1, <2>2, Zenon
<1> HIDE DEF L, f
<1>5. f \in 1 .. Len(v) /\ f <= L + 1
  BY <1>1, <1>2, <1>3, <1>4
<1>6. \A k \in 1 .. f - 1 : v[k].time < n
  BY <1>1, <1>3, <1>5
<1>7. ASSUME NEW t \in Times(v), t <= n PROVE v[f].time <= n
  <2>1. PICK k \in 1 .. Len(v) : v[k].time = t
    BY <1>1 DEF Times
  <2>2. CASE f <= L
    BY <1>1, <1>3, <1>5, <2>2
  <2>3. CASE f = L + 1 /\ v[L + 1].time = n
    BY <1>1, <1>5, <2>3
  <2>4. CASE f > L /\ ~(f = L + 1 /\ v[L + 1].time = n)
    <3>1. f = 1 /\ L = 0
      <4>1. f = L + 1 /\ ~(L + 1 > Len(v)) /\ v[L + 1].time # n
        BY <1>1, <1>3, <1>5, <2>4
      <4>2. f = IF L + 1 > 2 THEN L ELSE 1
        BY <1>4, <4>1
      <4> QED BY <1>3, <4>1, <4>2
    <3>2. f = k \/ v[f].time <= v[k].time
      BY <1>1, <1>5, <3>1 DEF SortedVec
    <3> QED BY <1>1, <1>5, <1>7, <2>1, <3>2
  <2> QED BY <1>3, <1>5, <2>2, <2>3, <2>4
<1> QED BY <1>5, <1>6, <1>7 DEF f

-----------------------------------------------------------------------------
(* Searching. *)

LEMMA Searching ==
  ASSUME NEW s, IsStore(s), NEW c \in Names, NEW t \in Nat, NEW best, best = findBestMatch(s, c, t)
  PROVE  \/ best = NoCtx /\ \A u \in Times(s.stored[c]) : ~(u <= t)
         \/ /\ best = Ctx(best.time, c) /\ best # NoCtx
            /\ best.time \in Times(s.stored[c]) /\ best.time <= t
<1> DEFINE v == s.stored[c]
           valid == {k \in DOMAIN v : v[k].time <= t}
<1>1. v \in Seq(Sets) /\ Len(v) \in Nat /\ DOMAIN v = 1 .. Len(v) /\ \A k \in 1 .. Len(v) : v[k].time \in Nat
  BY SetsOf DEF IsStore
<1>2. CASE valid = {}
  BY <1>2 DEF findBestMatch, Times
<1>3. CASE valid # {}
  <2>1. \E k \in valid : \A j \in valid : j <= k
    <3>1. valid \in SUBSET (1 .. Len(v))
      BY <1>1
    <3> HIDE DEF valid, v
    <3> QED BY <1>1, <1>3, <3>1, Greatest
  <2>2. PICK k \in valid : best = Ctx(v[k].time, c)
    BY <1>3, <2>1 DEF findBestMatch
  <2>3. c # ""
    BY SettingsAssumption DEF Names, Default
  <2>4. best.time = v[k].time /\ best.context = c
    BY <2>2 DEF Ctx
  <2>5. best = Ctx(best.time, c) /\ best # NoCtx
    <3>1. NoCtx.context = ""
      BY DEF NoCtx
    <3> QED BY <2>2, <2>3, <2>4, <3>1
  <2>6. v[k].time \in Times(v) /\ v[k].time <= t
    BY <2>2 DEF Times
  <2> QED BY <2>4, <2>5, <2>6
<1> QED BY <1>2, <1>3

LEMMA FirstSet ==
  ASSUME NEW v \in Seq(Sets), NEW t \in Times(v)
  PROVE  \E m \in DOMAIN v : v[m].time = t /\ \A j \in 1 .. m - 1 : v[j].time # t
<1> DEFINE T == {k \in DOMAIN v : v[k].time = t}
<1>1. Len(v) \in Nat /\ DOMAIN v = 1 .. Len(v)
  BY SetsOf
<1>2. T # {} /\ T \in SUBSET Nat
  BY <1>1 DEF Times
<1>3. PICK m \in T : \A j \in T : m <= j
  <2> HIDE DEF T
  <2> QED BY <1>2, Least
<1>4. ASSUME NEW j \in 1 .. m - 1 PROVE v[j].time # t
  <2>1. j \in DOMAIN v /\ ~(m <= j)
    BY <1>1, <1>3
  <2> QED BY <1>3, <2>1
<1> QED BY <1>3, <1>4

LEMMA StoredSet ==
  ASSUME NEW s, IsStore(s), NEW ctx, ctx.context \in Names, ctx.time \in Times(s.stored[ctx.context])
  PROVE  getStored(s, ctx) \in Vals
<1> DEFINE v == s.stored[ctx.context]
<1>1. v \in Seq(Sets) /\ Len(v) \in Nat /\ DOMAIN v = 1 .. Len(v) /\ \A k \in 1 .. Len(v) : v[k].values \in Vals
  BY SetsOf DEF IsStore
<1>2. \E m \in DOMAIN v : v[m].time = ctx.time /\ \A j \in 1 .. m - 1 : v[j].time # ctx.time
  BY <1>1, FirstSet
<1> QED BY ZenonT(30), <1>1, <1>2 DEF getStored

LEMMA IsStoredSays ==
  ASSUME NEW s, IsStore(s), NEW ctx, ctx.context \in Names
  PROVE  IsStored(s, ctx) <=> ctx.time \in Times(s.stored[ctx.context])
BY DEF IsStored, Times

LEMMA DefaultIsAName == Default \in Names /\ Default = "default" /\ "" \notin Names
BY SettingsAssumption DEF Names, Default

\* A context with no sets has no present ones.
LEMMA PresentIsStored ==
  ASSUME NEW s, NEW c, IsPresent(s, c)
  PROVE  s.stored[c] # <<>> /\ Times(s.stored[c]) # {}
<1>1. DOMAIN <<>> = {}
  OBVIOUS
<1>2. PICK t \in Times(s.stored[c]) : t <= now
  BY DEF IsPresent
<1>3. PICK k \in DOMAIN s.stored[c] : s.stored[c][k].time = t
  BY <1>2 DEF Times
<1> QED BY <1>1, <1>2, <1>3

-----------------------------------------------------------------------------
(* The calls under the lock. *)

LEMMA Onward ==
  ASSUME NEW s, NEW r, NEW q, Leads(s, r), SameFields(s, r), Leads(r, q), SameFields(r, q)
  PROVE  Leads(s, q) /\ SameFields(s, q)
BY DEF Leads, SameFields

\* A call that leaves the stored sets alone.
LEMMA Steady ==
  ASSUME NEW s, Ordered(s), NEW r, DOMAIN r = StoreFields, SameFields(s, r), r.stored = s.stored,
         IsCtx(r.activeCtx), IsNamed(r.before), IsBatch(r.staged), r.changed \in BOOLEAN, r.activated \in BOOLEAN,
         ActiveStored(s) => ActiveStored(r), Noticed(s) => Noticed(r)
  PROVE  Leads(s, r) /\ SameFields(s, r)
<1>1. IsStore(r)
  BY DEF IsStore, SameFields, Ordered
<1>2. Sorted(r) /\ \A c \in Names : IsPresent(s, c) => IsPresent(r, c)
  BY DEF Ordered, Sorted, IsPresent
<1> QED BY <1>1, <1>2, DefaultIsAName DEF Leads, Ordered

LEMMA OverBatch ==
  ASSUME NEW n, NEW m, IsBatch(n), IsBatch(m)
  PROVE  IsBatch(Over(n, m)) /\ DOMAIN Over(n, m) = DOMAIN n \cup DOMAIN m
BY DEF IsBatch, Over

LEMMA WithoutBatch ==
  ASSUME NEW m, IsBatch(m), NEW D
  PROVE  IsBatch(Without(m, D))
BY DEF IsBatch, Without

LEMMA ValsAreBatch == \A f \in Vals : IsBatch(f) /\ DOMAIN f = Keys
BY DEF Vals, IsBatch

LEMMA Staging ==
  ASSUME NEW s, Ordered(s), NEW vals, IsBatch(vals), NEW r, r = setStagedImpl(s, vals)
  PROVE  /\ Leads(s, r) /\ SameFields(s, r)
         /\ r.stored = s.stored /\ r.activeCtx = s.activeCtx /\ r.before = s.before /\ r.autoUpdate = s.autoUpdate
         /\ r.autoBefore = s.autoBefore /\ r.staged = Over(vals, s.staged) /\ r.activated = s.activated
<1>1. /\ DOMAIN r = StoreFields /\ SameFields(s, r)
      /\ r.stored = s.stored /\ r.activeCtx = s.activeCtx /\ r.before = s.before /\ r.autoUpdate = s.autoUpdate
      /\ r.autoBefore = s.autoBefore /\ r.staged = Over(vals, s.staged) /\ r.activated = s.activated
      /\ r.changed = (s.changed \/ DOMAIN r.staged # {})
  BY DEF setStagedImpl, Ordered, IsStore, StoreFields, SameFields
<1>2. IsBatch(s.staged) /\ IsBatch(r.staged) /\ DOMAIN r.staged = DOMAIN vals \cup DOMAIN s.staged
  <2>1. IsBatch(s.staged)
    BY DEF Ordered, IsStore
  <2>2. IsBatch(Over(vals, s.staged)) /\ DOMAIN Over(vals, s.staged) = DOMAIN vals \cup DOMAIN s.staged
    BY <2>1, OverBatch
  <2>3. r.staged = Over(vals, s.staged)
    BY <1>1
  <2> QED BY <2>1, <2>2, <2>3
<1>3. Noticed(s) => Noticed(r)
  BY <1>1, <1>2 DEF Noticed
<1>4. ActiveStored(s) => ActiveStored(r)
  BY <1>1 DEF ActiveStored
<1>5. IsCtx(r.activeCtx) /\ IsNamed(r.before) /\ r.changed \in BOOLEAN /\ r.activated \in BOOLEAN
  BY <1>1 DEF Ordered, IsStore
<1> QED BY <1>1, <1>2, <1>3, <1>4, <1>5, Steady

Found(s, c, best) ==
  \/ best = NoCtx
  \/ best = Ctx(best.time, c) /\ best # NoCtx /\ best.time \in Times(s.stored[c])

LEMMA CtxIs ==
  ASSUME NEW t, NEW c \in Names
  PROVE  IsCtx(Ctx(t, c)) /\ Ctx(t, c).context = c /\ Ctx(t, c).time = t
BY DEF IsCtx, Ctx

LEMMA FoundIsNamed ==
  ASSUME NEW s, NEW c \in Names, NEW best, Found(s, c, best)
  PROVE  IsNamed(best) /\ (best # NoCtx => best.context = c /\ IsCtx(best))
<1>1. CASE best = NoCtx
  BY <1>1 DEF IsNamed
<1>2. CASE best # NoCtx
  <2>1. best = Ctx(best.time, c)
    BY <1>2 DEF Found
  <2>2. Ctx(best.time, c).context = c
    BY CtxIs
  <2>3. best.context = c /\ IsCtx(best)
    BY <2>1, <2>2 DEF IsCtx
  <2> QED BY <2>3 DEF IsNamed
<1> QED BY <1>1, <1>2

LEMMA Activating ==
  ASSUME NEW s, Ordered(s), NEW c \in Names, NEW best, Found(s, c, best), NEW r, r = activateSet(s, c, best)
  PROVE  /\ Leads(s, r) /\ SameFields(s, r) /\ r.stored = s.stored /\ r.autoBefore = s.autoBefore
         /\ best # NoCtx => ActiveStored(r)
<1> DEFINE known == [s EXCEPT !.autoUpdate = IF best \in DOMAIN @ THEN @ ELSE Over(@, Only(best, Keys))]
           fixed == Without(getStored(s, best), known.autoUpdate[best])
           st == setStagedImpl(known, fixed)
<1>1. CASE best = NoCtx \/ best = s.activeCtx
  <2>1. r = s
    BY <1>1 DEF activateSet
  <2>2. best # NoCtx => ActiveStored(s)
    <3> SUFFICES ASSUME best # NoCtx PROVE ActiveStored(s)
      OBVIOUS
    <3>1. best.context = c /\ Times(s.stored[c]) # {} /\ best = s.activeCtx
      BY <1>1 DEF Found, Ctx
    <3>2. DOMAIN <<>> = {}
      OBVIOUS
    <3> QED BY <3>1, <3>2 DEF ActiveStored, Times
  <2> QED BY <2>1, <2>2 DEF Leads, SameFields
<1>2. CASE best # NoCtx /\ best # s.activeCtx
  <2>1. best.context = c /\ best.time \in Times(s.stored[c]) /\ s.stored[c] # <<>>
    <3>1. best.context = c /\ best.time \in Times(s.stored[c])
      BY <1>2 DEF Found, Ctx
    <3>2. DOMAIN <<>> = {}
      OBVIOUS
    <3> QED BY <3>1, <3>2 DEF Times
  <2>2. getStored(s, best) \in Vals
    BY <2>1, StoredSet DEF Ordered
  <2>3. IsBatch(getStored(s, best)) /\ IsBatch(fixed) /\ DOMAIN getStored(s, best) # {}
    BY <2>2, ValsAreBatch, WithoutBatch, SettingsAssumption
  <2>4. CASE c = s.activeCtx.context
    <3>1. r = [st EXCEPT !.activeCtx = best, !.changed = TRUE]
      BY <1>2, <2>4 DEF activateSet
    <3>2. /\ DOMAIN known = StoreFields /\ SameFields(s, known) /\ known.stored = s.stored /\ known.activeCtx = s.activeCtx
          /\ known.before = s.before /\ known.staged = s.staged /\ known.changed = s.changed /\ known.activated = s.activated
          /\ known.autoBefore = s.autoBefore
      BY DEF Ordered, IsStore, StoreFields, SameFields
    <3> HIDE DEF known, fixed
    <3>3. Leads(s, known)
      BY <3>2, Steady DEF Ordered, IsStore, ActiveStored, Noticed
    <3>4. /\ Leads(known, st) /\ SameFields(known, st)
          /\ st.stored = known.stored /\ st.before = known.before /\ st.autoBefore = known.autoBefore
          /\ st.staged = Over(fixed, known.staged) /\ st.activated = known.activated
      BY <2>3, <3>3, Staging DEF Leads
    <3>5. IsBatch(known.staged) /\ DOMAIN st.staged = DOMAIN fixed \cup DOMAIN known.staged
      <4>1. IsBatch(known.staged)
        BY <3>3 DEF Leads, Ordered, IsStore
      <4> QED BY ZenonT(30), <2>3, <3>4, <4>1, OverBatch
    <3> HIDE DEF st
    <3>6. Leads(s, st) /\ SameFields(s, st) /\ st.stored = s.stored /\ st.autoBefore = s.autoBefore
      BY <3>2, <3>3, <3>4, Onward
    <3>7. /\ DOMAIN r = StoreFields /\ SameFields(st, r) /\ r.stored = st.stored /\ r.activeCtx = best /\ r.before = st.before
          /\ r.staged = st.staged /\ r.changed = TRUE /\ r.activated = st.activated /\ r.autoBefore = st.autoBefore
      BY <3>1, <3>6 DEF Leads, Ordered, IsStore, StoreFields, SameFields
    <3>8. ActiveStored(r)
      BY <2>1, <3>6, <3>7 DEF ActiveStored
    <3>9. Noticed(st) => Noticed(r)
      BY <3>7 DEF Noticed
    <3>10. Leads(st, r)
      <4>1. IsCtx(best)
        BY <1>2, FoundIsNamed
      <4> QED BY <3>6, <3>7, <3>8, <3>9, <4>1, Steady DEF Leads, Ordered, IsStore
    <3> QED BY <3>6, <3>7, <3>8, <3>10, Onward
  <2>5. CASE c # s.activeCtx.context
    <3>1. r = [s EXCEPT !.staged = Over(@, getStored(s, best)), !.before = IF s.activated THEN @ ELSE s.activeCtx,
                        !.activeCtx = best, !.activated = TRUE, !.changed = TRUE]
      BY <1>2, <2>5 DEF activateSet
    <3>2. /\ DOMAIN r = StoreFields /\ SameFields(s, r) /\ r.stored = s.stored /\ r.activeCtx = best
          /\ r.before \in {s.before, s.activeCtx} /\ r.autoBefore = s.autoBefore
          /\ r.staged = Over(s.staged, getStored(s, best)) /\ r.changed = TRUE /\ r.activated = TRUE
      BY <3>1 DEF Ordered, IsStore, StoreFields, SameFields
    <3>3. IsBatch(r.staged) /\ DOMAIN r.staged # {}
      <4>1. IsBatch(s.staged)
        BY DEF Ordered, IsStore
      <4>2. IsBatch(r.staged) /\ DOMAIN r.staged = DOMAIN s.staged \cup DOMAIN getStored(s, best)
        <5>1. /\ IsBatch(Over(s.staged, getStored(s, best)))
              /\ DOMAIN Over(s.staged, getStored(s, best)) = DOMAIN s.staged \cup DOMAIN getStored(s, best)
          BY <2>3, <4>1, OverBatch
        <5> QED BY <3>2, <5>1
      <4> QED BY <2>3, <4>2
    <3>4. ActiveStored(r) /\ Noticed(r)
      BY <2>1, <3>2, <3>3 DEF ActiveStored, Noticed
    <3>5. IsNamed(r.before) /\ IsCtx(r.activeCtx)
      <4>1. IsCtx(best)
        BY <1>2, FoundIsNamed
      <4> QED BY <3>2, <4>1 DEF Ordered, IsStore, IsNamed
    <3> QED BY <3>2, <3>3, <3>4, <3>5, Steady
  <2> QED BY <2>4, <2>5
<1> QED BY <1>1, <1>2

\* A call that changes the stored sets, and who follows in them, alone.
Restocks(s, r) ==
  /\ DOMAIN r = StoreFields /\ SameFields(s, r)
  /\ r.activeCtx = s.activeCtx /\ r.before = s.before /\ r.staged = s.staged
  /\ r.changed = s.changed /\ r.activated = s.activated /\ r.autoBefore = s.autoBefore

LEMMA Restocking ==
  ASSUME NEW s, Ordered(s), NEW r, Restocks(s, r), r.stored \in [Names -> Seq(Sets)],
         \A c \in Names : /\ SortedVec(r.stored[c]) /\ (s.stored[c] # <<>> => r.stored[c] # <<>>)
                          /\ IsPresent(s, c) => IsPresent(r, c)
  PROVE  Leads(s, r) /\ SameFields(s, r)
<1>1. IsStore(r)
  BY DEF Restocks, Ordered, IsStore, SameFields
<1>2. Ordered(r)
  BY <1>1, DefaultIsAName DEF Ordered, Sorted
<1>3. (ActiveStored(s) => ActiveStored(r)) /\ (Noticed(s) => Noticed(r))
  BY DEF Restocks, ActiveStored, Noticed, Ordered, IsStore, IsCtx
<1> QED BY <1>2, <1>3 DEF Leads, Restocks

LEMMA Adding ==
  ASSUME NEW s, Ordered(s), NEW vals \in Vals, NEW t \in Nat, NEW c \in Names, NEW r, r = addStoredParameters(s, vals, Ctx(t, c))
  PROVE  /\ Restocks(s, r) /\ Leads(s, r) /\ SameFields(s, r)
         /\ \A d \in Names \ {c} : r.stored[d] = s.stored[d]
         /\ Times(r.stored[c]) = Times(s.stored[c]) \cup {t} /\ r.stored[c] # <<>>
         /\ DistinctVec(s.stored[c]) /\ t \notin Times(s.stored[c]) => DistinctVec(r.stored[c])
         /\ r.autoUpdate = Over(s.autoUpdate, Only(Ctx(t, c), getAutoUpdate(s, c, t)))
<1> DEFINE v == s.stored[c]
           e == [time |-> t, values |-> vals]
           w == InsertAt(v, Cardinality({k \in DOMAIN v : v[k].time < t}) + 1, e)
<1>1. Ctx(t, c).context = c /\ Ctx(t, c).time = t
  BY DEF Ctx
<1>2. r = [s EXCEPT !.autoUpdate = Over(@, Only(Ctx(t, c), getAutoUpdate(s, c, t))),
                    !.stored[c] = InsertAt(@, Cardinality({k \in DOMAIN v : v[k].time < t}) + 1, e)]
  BY <1>1 DEF addStoredParameters
<1>3. r.stored = [s.stored EXCEPT ![c] = w] /\ r.autoUpdate = Over(s.autoUpdate, Only(Ctx(t, c), getAutoUpdate(s, c, t))) /\ Restocks(s, r)
  BY <1>2 DEF Ordered, IsStore, StoreFields, SameFields, Restocks
<1>4. e \in Sets /\ e.time = t /\ v \in Seq(Sets) /\ SortedVec(v)
  BY DEF Sets, Ordered, IsStore, Sorted
<1>5. /\ w \in Seq(Sets) /\ SortedVec(w) /\ Times(w) = Times(v) \cup {t}
      /\ DistinctVec(v) /\ t \notin Times(v) => DistinctVec(w)
  <2>1. w = InsertAt(v, Cardinality({k \in DOMAIN v : v[k].time < e.time}) + 1, e)
    BY <1>4
  <2> HIDE DEF v, e, w
  <2>2. /\ w \in Seq(Sets) /\ SortedVec(w) /\ Times(w) = Times(v) \cup {e.time}
        /\ DistinctVec(v) /\ e.time \notin Times(v) => DistinctVec(w)
    BY <1>4, <2>1, Inserting
  <2> QED BY <1>4, <2>2
<1>6. w # <<>>
  <2>1. Times(w) # {}
    BY <1>5
  <2>2. DOMAIN <<>> = {}
    OBVIOUS
  <2> HIDE DEF w
  <2> QED BY <2>1, <2>2 DEF Times
<1> HIDE DEF w
<1>7. r.stored \in [Names -> Seq(Sets)] /\ r.stored[c] = w /\ \A d \in Names \ {c} : r.stored[d] = s.stored[d]
  BY <1>3, <1>5 DEF Ordered, IsStore
<1>8. ASSUME NEW d \in Names
      PROVE  /\ SortedVec(r.stored[d]) /\ (s.stored[d] # <<>> => r.stored[d] # <<>>)
             /\ IsPresent(s, d) => IsPresent(r, d)
  <2>1. CASE d = c
    BY <1>5, <1>6, <1>7, <2>1 DEF IsPresent
  <2>2. CASE d # c
    BY <1>7, <2>2 DEF IsPresent, Ordered, Sorted
  <2> QED BY <2>1, <2>2
<1>9. Leads(s, r) /\ SameFields(s, r)
  BY <1>3, <1>7, <1>8, Restocking
<1> QED BY <1>3, <1>5, <1>6, <1>7, <1>9

Pruned(v) == IF v = <<>> THEN <<>> ELSE SubSeq(v, FirstKept(v, now), Len(v))
CutTimes(v) == {v[k].time : k \in 1 .. FirstKept(v, now) - 1}
CutSets(v, c) == {Ctx(v[k].time, c) : k \in 1 .. FirstKept(v, now) - 1}

LEMMA Pruning ==
  ASSUME NEW s, Ordered(s), now \in Nat, NEW r, r = removeExpiredStoredParameters(s)
  PROVE  /\ Restocks(s, r) /\ Leads(s, r) /\ SameFields(s, r)
         /\ r.stored = [c \in Names |-> Pruned(s.stored[c])]
         /\ r.autoUpdate = Without(s.autoUpdate, UNION {CutSets(s.stored[c], c) : c \in Names})
<1>1. r = [s EXCEPT !.stored = [c \in Names |-> IF @[c] = <<>> THEN <<>> ELSE SubSeq(@[c], FirstKept(@[c], now), Len(@[c]))],
                    !.autoUpdate = Without(@, UNION {CutSets(s.stored[c], c) : c \in Names})]
  BY SMTT(30) DEF removeExpiredStoredParameters, FirstKept, CutSets
<1>2. /\ r.stored = [c \in Names |-> Pruned(s.stored[c])] /\ Restocks(s, r)
      /\ r.autoUpdate = Without(s.autoUpdate, UNION {CutSets(s.stored[c], c) : c \in Names})
  BY <1>1 DEF Ordered, IsStore, StoreFields, SameFields, Restocks, Pruned
<1>3. ASSUME NEW c \in Names
      PROVE  /\ r.stored[c] \in Seq(Sets) /\ SortedVec(r.stored[c]) /\ (s.stored[c] # <<>> => r.stored[c] # <<>>)
             /\ IsPresent(s, c) => IsPresent(r, c)
  <2> DEFINE v == s.stored[c]
             f == FirstKept(v, now)
             w == r.stored[c]
  <2>1. v \in Seq(Sets) /\ SortedVec(v) /\ w = Pruned(v)
    BY <1>2 DEF Ordered, IsStore, Sorted
  <2>2. CASE v = <<>>
    <3>1. w = v
      BY <2>1, <2>2 DEF Pruned
    <3> QED BY <2>1, <2>2, <3>1 DEF IsPresent
  <2>3. CASE v # <<>>
    <3>1. f \in 1 .. Len(v) /\ ((\E t \in Times(v) : t <= now) => v[f].time <= now)
      BY <2>1, <2>3, Keeping
    <3>2. w = SubSeq(v, f, Len(v))
      BY <2>1, <2>3 DEF Pruned
    <3> HIDE DEF v, f, w
    <3>3. w \in Seq(Sets) /\ w # <<>> /\ SortedVec(w) /\ \A k \in 1 .. Len(v) : k < f \/ v[k].time \in Times(w)
      BY <2>1, <3>1, <3>2, Cutting
    <3>4. v[f].time \in Times(w)
      <4>1. ~(f < f)
        BY <2>1, <3>1, SetsOf
      <4> QED BY <3>1, <3>3, <4>1
    <3>5. (\E t \in Times(v) : t <= now) => \E t \in Times(w) : t <= now
      BY <3>1, <3>4
    <3> QED BY <3>3, <3>5 DEF IsPresent, v, w
  <2> QED BY <2>2, <2>3
<1>4. r.stored \in [Names -> Seq(Sets)]
  <2>1. r.stored = [c \in Names |-> r.stored[c]]
    BY <1>2
  <2> QED BY <1>3, <2>1
<1>5. Leads(s, r) /\ SameFields(s, r)
  BY <1>2, <1>3, <1>4, Restocking
<1> QED BY <1>2, <1>5

\* What a search finds.
LEMMA Finding ==
  ASSUME NEW s, Ordered(s), NEW c \in Names, now \in Nat
  PROVE  /\ Found(s, c, findBestMatch(s, c, now))
         /\ IsPresent(s, c) => findBestMatch(s, c, now) # NoCtx
BY Searching DEF Found, Ordered, IsPresent

LEMMA ActivatingContext ==
  ASSUME NEW s, Ordered(s), NEW c \in Names, now \in Nat, NEW r, r = activateContextImpl(s, c, now)
  PROVE  /\ Leads(s, r) /\ SameFields(s, r) /\ r.stored = s.stored /\ r.autoBefore = s.autoBefore
         /\ IsPresent(s, c) => ActiveStored(r)
<1> DEFINE best == findBestMatch(s, c, now)
<1>1. Found(s, c, best) /\ (IsPresent(s, c) => best # NoCtx)
  BY Finding
<1>2. r = activateSet(s, c, best)
  BY DEF activateContextImpl
<1> HIDE DEF best
<1> QED BY <1>1, <1>2, Activating

LEMMA OverVals ==
  ASSUME NEW n, NEW m \in Vals, DOMAIN n \subseteq Keys, \A k \in DOMAIN n : n[k] \in Values
  PROVE  Over(n, m) \in Vals
<1>1. DOMAIN m = Keys /\ \A k \in Keys : m[k] \in Values
  BY DEF Vals
<1>2. Over(n, m) = [k \in Keys |-> IF k \in DOMAIN n THEN n[k] ELSE m[k]]
  BY <1>1 DEF Over
<1> QED BY <1>1, <1>2 DEF Vals

\* The values a set() takes over: of the set found for its context and time, or the defaults.
BaseOf(s, c, t) ==
  LET best == findBestMatch(s, c, t) IN IF best = NoCtx THEN s.defaults ELSE getStored(s, best)

LEMMA BasesAreVals ==
  ASSUME NEW s, Ordered(s), NEW c \in Names, NEW t \in Nat
  PROVE  BaseOf(s, c, t) \in Vals
<1> DEFINE best == findBestMatch(s, c, t)
<1>1. IsStore(s)
  BY DEF Ordered
<1>2. \/ best = NoCtx
      \/ best = Ctx(best.time, c) /\ best.time \in Times(s.stored[c])
  BY <1>1, Searching
<1> HIDE DEF best
<1>3. CASE best = NoCtx
  BY <1>1, <1>3 DEF BaseOf, best, IsStore
<1>4. CASE best = Ctx(best.time, c) /\ best.time \in Times(s.stored[c])
  <2>1. best.context = c
    BY <1>4 DEF Ctx
  <2>2. getStored(s, best) \in Vals
    BY <1>1, <1>4, <2>1, StoredSet
  <2> QED BY <1>1, <2>2 DEF BaseOf, best, IsStore
<1> QED BY <1>2, <1>3, <1>4

\* A call that changes who follows, and nothing else.
LEMMA Following ==
  ASSUME NEW s, Ordered(s), NEW r, Restocks(s, r), r.stored = s.stored
  PROVE  Leads(s, r) /\ SameFields(s, r)
<1>1. ASSUME NEW c \in Names PROVE SortedVec(r.stored[c]) /\ (IsPresent(s, c) => IsPresent(r, c))
  BY DEF Ordered, Sorted, IsPresent
<1>2. r.stored \in [Names -> Seq(Sets)]
  BY DEF Ordered, IsStore
<1> QED BY <1>1, <1>2, Restocking

LEMMA Setting ==
  ASSUME NEW s, Ordered(s), NEW k \in Keys, NEW v \in Values, NEW t \in Nat, NEW c \in Names, now \in Nat,
         NEW r, r = setImpl(s, Only(k, v), Ctx(t, c))
  PROVE  Leads(s, r) /\ SameFields(s, r)
<1> DEFINE ctx == Ctx(t, c)
           vals == Only(k, v)
           following == (IF ctx \in DOMAIN s.autoUpdate THEN s.autoUpdate[ctx] ELSE getAutoUpdate(s, c, t)) \ DOMAIN vals
           s1 == [s EXCEPT !.autoUpdate = Over(Only(ctx, following), @)]
           s2 == addStoredParameters(s1, Over(vals, BaseOf(s, c, t)), ctx)
<1>1. ctx.context = c /\ ctx.time = t
  BY DEF Ctx
<1>2. r = removeExpiredStoredParameters(s2)
  BY <1>1 DEF setImpl, BaseOf
<1>3. Restocks(s, s1) /\ s1.stored = s.stored
  BY DEF Restocks, Ordered, IsStore, StoreFields, SameFields
<1> HIDE DEF s1
<1>4. Leads(s, s1) /\ SameFields(s, s1)
  BY <1>3, Following
<1>5. Over(vals, BaseOf(s, c, t)) \in Vals
  <2>1. DOMAIN vals = {k} /\ vals[k] = v
    BY DEF Only
  <2> HIDE DEF vals
  <2> QED BY <2>1, BasesAreVals, OverVals
<1> HIDE DEF vals
<1>6. Leads(s1, s2) /\ SameFields(s1, s2)
  BY <1>4, <1>5, Adding DEF Leads
<1> HIDE DEF s2
<1>7. Leads(s2, r) /\ SameFields(s2, r)
  BY <1>2, <1>6, Pruning DEF Leads
<1> QED BY <1>4, <1>6, <1>7, Onward

\* The context that was removed, or is not the active one, is left.
HasLeft(s, r) ==
  /\ Ordered(r) /\ ActiveStored(r) /\ SameFields(s, r) /\ (Noticed(s) => Noticed(r))
  /\ r.stored = s.stored /\ r.autoBefore = s.autoBefore

LEMMA Leaving ==
  ASSUME NEW s, Ordered(s), now \in Nat, NEW ctx, s.activeCtx.context = ctx.context \/ ActiveStored(s),
         NEW r, r = leaveContext(s, ctx)
  PROVE  HasLeft(s, r)
<1> USE DEF HasLeft
<1> DEFINE m == [s EXCEPT !.before = IF @ = ctx THEN findBestMatch(s, Default, now) ELSE @]
           a == activateContextImpl(m, Default, now)
<1>1. /\ DOMAIN m = StoreFields /\ SameFields(s, m) /\ m.stored = s.stored /\ m.activeCtx = s.activeCtx
      /\ m.before \in {s.before, findBestMatch(s, Default, now)} /\ m.staged = s.staged /\ m.changed = s.changed
      /\ m.activated = s.activated /\ m.autoBefore = s.autoBefore
  BY DEF Ordered, IsStore, StoreFields, SameFields
<1>2. IsNamed(m.before)
  <2>1. Found(s, Default, findBestMatch(s, Default, now))
    BY Finding, DefaultIsAName
  <2>2. IsNamed(findBestMatch(s, Default, now))
    BY <2>1, DefaultIsAName, FoundIsNamed
  <2> QED BY <1>1, <2>2 DEF Ordered, IsStore
<1> HIDE DEF m
<1>3. Leads(s, m)
  BY <1>1, <1>2, Steady DEF Ordered, IsStore, ActiveStored, Noticed
<1>4. CASE s.activeCtx.context = ctx.context
  <2>1. r = [a EXCEPT !.before = NoCtx]
    BY <1>4 DEF leaveContext, m
  <2>2. Leads(m, a) /\ SameFields(m, a) /\ a.stored = m.stored /\ ActiveStored(a) /\ a.autoBefore = m.autoBefore
    <3>1. Ordered(m) /\ IsPresent(m, Default)
      BY <1>3 DEF Leads, Ordered
    <3> HIDE DEF a
    <3> QED BY <3>1, DefaultIsAName, ActivatingContext DEF a
  <2> HIDE DEF a
  <2>3. /\ DOMAIN r = StoreFields /\ SameFields(a, r) /\ r.stored = a.stored /\ r.activeCtx = a.activeCtx /\ r.before = NoCtx
        /\ r.staged = a.staged /\ r.changed = a.changed /\ r.activated = a.activated /\ r.autoBefore = a.autoBefore
    BY <2>1, <2>2 DEF Leads, Ordered, IsStore, StoreFields, SameFields
  <2>4. ActiveStored(r) /\ (Noticed(a) => Noticed(r)) /\ IsNamed(r.before)
    BY <2>2, <2>3 DEF ActiveStored, Noticed, IsNamed
  <2>5. Leads(a, r)
    BY <2>2, <2>3, <2>4, Steady DEF Leads, Ordered, IsStore
  <2>6. Leads(s, r) /\ SameFields(s, r)
    BY <1>1, <1>3, <2>2, <2>3, <2>5, Onward
  <2> QED BY <1>1, <2>2, <2>3, <2>4, <2>6 DEF Leads
<1>5. CASE s.activeCtx.context # ctx.context
  <2>1. r = m
    BY <1>5 DEF leaveContext, m
  <2> QED BY <1>1, <1>3, <1>5, <2>1 DEF Leads
<1> QED BY <1>4, <1>5

\* Two stores with the same sets.
LEMMA Alike ==
  ASSUME NEW s, Ordered(s), NEW r, DOMAIN r = StoreFields, r.stored = s.stored,
         r.member \in Vals, r.active \in Vals, r.defaults \in Vals,
         IsCtx(r.activeCtx), IsNamed(r.before), IsBatch(r.staged), r.changed \in BOOLEAN, r.activated \in BOOLEAN
  PROVE  /\ Ordered(r) /\ \A c \in Names : IsPresent(s, c) => IsPresent(r, c)
         /\ r.activeCtx = s.activeCtx /\ ActiveStored(s) => ActiveStored(r)
<1>1. IsStore(r)
  BY DEF IsStore, Ordered
<1>2. Sorted(r) /\ \A c \in Names : IsPresent(s, c) => IsPresent(r, c)
  BY DEF Ordered, Sorted, IsPresent
<1>3. r.activeCtx = s.activeCtx /\ ActiveStored(s) => ActiveStored(r)
  BY DEF ActiveStored
<1> QED BY <1>1, <1>2, <1>3, DefaultIsAName DEF Ordered

\* A call that removes a context leaves the others and an active one.
LEMMA RemovingContext ==
  ASSUME NEW s, Ordered(s), ActiveStored(s), now \in Nat, NEW ctx, ctx.context \in Names, ctx.context # Default,
         IsStored(s, ctx), NEW r, r = removeContextImpl(s, ctx)
  PROVE  /\ Ordered(r) /\ ActiveStored(r) /\ SameFields(s, r) /\ (Noticed(s) => Noticed(r))
         /\ \A c \in Names \ {ctx.context} : IsPresent(s, c) => IsPresent(r, c)
<1> DEFINE v == s.stored[ctx.context]
           First(k) == v[k].time = ctx.time /\ \A j \in 1 .. k - 1 : v[j].time # ctx.time
           at == CHOOSE k \in DOMAIN v : First(k)
           gone == [s EXCEPT !.stored[ctx.context] = RemoveAt(@, at), !.autoUpdate = Without(@, {ctx})]
<1>1. v \in Seq(Sets) /\ SortedVec(v)
  BY DEF Ordered, IsStore, Sorted
<1>2. at \in DOMAIN v
  <2>1. ctx.time \in Times(v)
    BY IsStoredSays DEF Ordered
  <2>2. \E k \in DOMAIN v : First(k)
    <3> HIDE DEF v
    <3> QED BY <1>1, <2>1, FirstSet
  <2> HIDE DEF First
  <2> QED BY <2>2
<1>3. r = leaveContext(gone, ctx)
  BY DEF removeContextImpl
<1> HIDE DEF at
<1>4. /\ gone.stored = [s.stored EXCEPT ![ctx.context] = RemoveAt(v, at)]
      /\ Restocks(s, gone)
  BY DEF Ordered, IsStore, StoreFields, SameFields, Restocks
<1> HIDE DEF gone
<1>5. RemoveAt(v, at) \in Seq(Sets) /\ SortedVec(RemoveAt(v, at))
  <2> HIDE DEF v
  <2> QED BY <1>1, <1>2, Removing
<1>6. /\ gone.stored \in [Names -> Seq(Sets)] /\ SortedVec(gone.stored[ctx.context])
      /\ \A c \in Names \ {ctx.context} : gone.stored[c] = s.stored[c]
  BY <1>4, <1>5 DEF Ordered, IsStore
<1>7. \A c \in Names \ {ctx.context} : IsPresent(s, c) => IsPresent(gone, c)
  BY <1>6 DEF IsPresent
<1>8. Ordered(gone)
  <2>1. IsStore(gone)
    BY <1>4, <1>6 DEF Restocks, SameFields, Ordered, IsStore
  <2>2. Sorted(gone)
    BY <1>6 DEF Ordered, Sorted
  <2> QED BY <1>7, <2>1, <2>2, DefaultIsAName DEF Ordered
<1>9. gone.activeCtx.context = ctx.context \/ ActiveStored(gone)
  BY <1>4, <1>6 DEF Restocks, ActiveStored, Ordered, IsStore
<1>10. /\ Ordered(r) /\ ActiveStored(r) /\ SameFields(gone, r) /\ (Noticed(gone) => Noticed(r)) /\ r.stored = gone.stored
  <2> HIDE DEF v, First
  <2>1. HasLeft(gone, r)
    BY <1>3, <1>8, <1>9, Leaving
  <2> QED BY <2>1 DEF HasLeft
<1>11. SameFields(s, r) /\ (Noticed(s) => Noticed(r))
  BY <1>4, <1>10 DEF Restocks, SameFields, Noticed
<1>12. \A c \in Names \ {ctx.context} : IsPresent(s, c) => IsPresent(r, c)
  BY <1>7, <1>10 DEF IsPresent
<1> QED BY <1>10, <1>11, <1>12

\* Only who follows a tag, and what a tag staged, changes.
Marks(s, r) ==
  /\ DOMAIN r = StoreFields /\ SameFields(s, r) /\ r.stored = s.stored
  /\ r.activeCtx = s.activeCtx /\ r.before = s.before /\ r.staged = s.staged
  /\ r.changed = s.changed /\ r.activated = s.activated

LEMMA Marking ==
  ASSUME NEW s, Ordered(s), NEW r, Marks(s, r)
  PROVE  Leads(s, r) /\ SameFields(s, r)
<1>1. (ActiveStored(s) => ActiveStored(r)) /\ (Noticed(s) => Noticed(r))
  BY DEF Marks, ActiveStored, Noticed
<1> QED BY <1>1, Steady DEF Marks, Ordered, IsStore

LEMMA StagingDefaults ==
  ASSUME NEW s, Ordered(s), now \in Nat, NEW r, r = stageDefaultsImpl(s)
  PROVE  Leads(s, r) /\ SameFields(s, r) /\ ActiveStored(r)
<1> DEFINE s1 == addStoredParameters(s, s.defaults, Ctx(now, Default))
           s2 == activateContextImpl(s1, Default, now)
<1>1. r = followAll(s2)
  BY DEF stageDefaultsImpl
<1>2. Leads(s, s1) /\ SameFields(s, s1)
  <2>1. s.defaults \in Vals /\ Default \in Names
    BY DefaultIsAName DEF Ordered, IsStore
  <2> HIDE DEF s1
  <2> QED BY <2>1, Adding DEF s1
<1> HIDE DEF s1
<1>3. Leads(s1, s2) /\ SameFields(s1, s2) /\ ActiveStored(s2)
  <2>1. Ordered(s1) /\ IsPresent(s1, Default)
    BY <1>2 DEF Leads, Ordered
  <2> HIDE DEF s2
  <2> QED BY <2>1, DefaultIsAName, ActivatingContext DEF s2
<1> HIDE DEF s2
<1>4. Marks(s2, r)
  BY <1>1, <1>3 DEF followAll, Leads, Ordered, IsStore, StoreFields, SameFields, Marks
<1>5. Leads(s2, r) /\ SameFields(s2, r) /\ ActiveStored(r)
  BY <1>3, <1>4, Marking DEF Leads
<1> QED BY <1>2, <1>3, <1>5, Onward

-----------------------------------------------------------------------------
(* Tags. *)

LEMMA ControlsApart == Keys \cap Controls = {}
BY SettingsAssumption DEF Controls

LEMMA StagingTag ==
  ASSUME NEW s, Ordered(s), NEW ctx, NEW moved \in BOOLEAN, NEW vals, IsBatch(vals), DOMAIN vals \subseteq Keys,
         NEW controls \in SUBSET Controls, NEW c, NEW r, r = stageTag(s, ctx, moved, vals, controls, c)
  PROVE  Leads(s, r) /\ SameFields(s, r)
<1> DEFINE follows == IF IsStored(s, ctx) THEN s.autoUpdate[ctx] ELSE getAutoUpdate(s, ctx.context, now)
           taken == {k \in DOMAIN vals \cap s.coupled \cap follows : moved \/ s.active[k] # vals[k]}
           some == taken # {} \/ controls # {}
           new == [k \in taken \cup controls |-> IF k \in taken THEN vals[k] ELSE 1]
           changed == IF c = "" /\ ~some /\ DOMAIN s.staged = {} THEN FALSE ELSE s.changed \/ moved \/ some
<1>1. r = [s EXCEPT !.staged = Over(new, @), !.tagged = @ \cup taken, !.changed = changed]
  BY DEF stageTag, Ordered, IsStore, StoreFields
<1>2. taken \subseteq DOMAIN vals
  OBVIOUS
<1> HIDE DEF follows, taken
<1>3. IsBatch(new) /\ DOMAIN new = taken \cup controls
  BY <1>2, ControlsApart DEF IsBatch
<1> HIDE DEF new, changed
<1>4. /\ DOMAIN r = StoreFields /\ SameFields(s, r) /\ r.stored = s.stored /\ r.activeCtx = s.activeCtx /\ r.before = s.before
      /\ r.staged = Over(new, s.staged) /\ r.changed = changed /\ r.activated = s.activated
  BY <1>1 DEF Ordered, IsStore, StoreFields, SameFields
<1>5. IsBatch(r.staged) /\ DOMAIN r.staged = taken \cup controls \cup DOMAIN s.staged
  <2>1. IsBatch(s.staged)
    BY DEF Ordered, IsStore
  <2>2. IsBatch(Over(new, s.staged)) /\ DOMAIN Over(new, s.staged) = DOMAIN new \cup DOMAIN s.staged
    BY <1>3, <2>1, OverBatch
  <2> QED BY <1>3, <1>4, <2>2
<1>6. changed \in BOOLEAN
  BY DEF changed, Ordered, IsStore
<1>7. Noticed(s) => Noticed(r)
  <2> SUFFICES ASSUME Noticed(s) PROVE Noticed(r)
    OBVIOUS
  <2>1. r.activated => DOMAIN r.staged # {}
    BY <1>4, <1>5 DEF Noticed
  <2>2. ASSUME DOMAIN r.staged # {} PROVE changed
    BY <1>5, <2>2 DEF changed, Noticed
  <2> QED BY <1>4, <2>1, <2>2 DEF Noticed
<1>8. ActiveStored(s) => ActiveStored(r)
  BY <1>4 DEF ActiveStored
<1> QED BY <1>4, <1>5, <1>6, <1>7, <1>8, Steady DEF Ordered, IsStore

LEMMA TaggingIn ==
  ASSUME NEW s, NEW known, Ordered(known), NEW best, NEW vals, IsBatch(vals), DOMAIN vals \subseteq Keys,
         NEW controls \in SUBSET Controls, NEW c, NEW r, r = autoUpdateIn(s, known, best, vals, controls, c)
  PROVE  Leads(known, r) /\ SameFields(known, r)
<1> DEFINE ctx == IF best = NoCtx THEN known.activeCtx ELSE best
           f == followedSet(known, ctx)
<1>1. r = stageTag(f, ctx, s.activeCtx # ctx, vals, controls, c)
  BY DEF autoUpdateIn
<1> HIDE DEF ctx
<1>2. Marks(known, f)
  BY DEF followedSet, Ordered, IsStore, StoreFields, SameFields, Marks
<1> HIDE DEF f
<1>3. Leads(known, f) /\ SameFields(known, f)
  BY <1>2, Marking
<1>4. Leads(f, r) /\ SameFields(f, r)
  <2>1. Ordered(f) /\ (s.activeCtx # ctx) \in BOOLEAN
    BY <1>3 DEF Leads
  <2> DEFINE moved == s.activeCtx # ctx
  <2>2. r = stageTag(f, ctx, moved, vals, controls, c) /\ moved \in BOOLEAN
    BY <1>1
  <2> HIDE DEF moved
  <2> QED BY <2>1, <2>2, StagingTag
<1> QED BY <1>3, <1>4, Onward

\* A tag leaves what it staged noticed, and the active context stored.
LEMMA Tagging ==
  ASSUME NEW s, Ordered(s), now \in Nat, NEW vals, IsBatch(vals), DOMAIN vals \subseteq Keys,
         NEW controls \in SUBSET Controls, NEW c \in Names \cup {""}, NEW r, r = autoUpdate(s, vals, controls, c)
  PROVE  Leads(s, r) /\ SameFields(s, r)
<1> DEFINE act == activateContextImpl(s, c, now)
           known == stagedByTag(s, act)
           best == findBestMatch(known, c, now)
<1>1. CASE c = ""
  <2>1. r = autoUpdateIn(s, s, NoCtx, vals, controls, c)
    BY <1>1 DEF autoUpdate
  <2> QED BY <2>1, TaggingIn
<1>2. CASE c # ""
  <2>1. r = autoUpdateIn(s, known, best, vals, controls, c)
    BY <1>2 DEF autoUpdate
  <2>2. Leads(s, act) /\ SameFields(s, act)
    <3> HIDE DEF act
    <3> QED BY <1>2, ActivatingContext DEF act
  <2> HIDE DEF act
  <2>3. Marks(act, known)
    BY <2>2 DEF stagedByTag, Leads, Ordered, IsStore, StoreFields, SameFields, Marks
  <2> HIDE DEF known
  <2>4. Leads(act, known) /\ SameFields(act, known)
    BY <2>2, <2>3, Marking DEF Leads
  <2> HIDE DEF best
  <2>5. Leads(known, r) /\ SameFields(known, r)
    BY <2>1, <2>4, TaggingIn DEF Leads
  <2> QED BY <2>2, <2>4, <2>5, Onward
<1> QED BY <1>1, <1>2

LEMMA Coupling ==
  ASSUME NEW s, Ordered(s), NEW k, NEW on, NEW r, r = setTagCouplings(s, k, on)
  PROVE  Leads(s, r) /\ SameFields(s, r)
<1>1. Marks(s, r)
  BY DEF setTagCouplings, Ordered, IsStore, StoreFields, SameFields, Marks
<1> QED BY <1>1, Marking

-----------------------------------------------------------------------------
(* The apply. *)

\* Between the calls, and while a callback runs, the store is good.
Good(s) == Ordered(s) /\ ActiveStored(s) /\ Noticed(s) /\ s.active = s.member
Keeps(s, r) == \A c \in Names : IsPresent(s, c) => IsPresent(r, c)

\* What an apply took, for the store to be restored from it.
IsApply(l) ==
  /\ l.old \in Vals /\ IsCtx(l.ctx) /\ IsNamed(l.before)
  /\ IsBatch(l.staged) /\ DOMAIN l.staged \subseteq Keys

LEMMA GoodLeads ==
  ASSUME NEW s, Good(s), NEW r, Leads(s, r), SameFields(s, r)
  PROVE  Good(r) /\ Keeps(s, r)
BY DEF Good, Leads, SameFields, Keeps

LEMMA Taking ==
  ASSUME NEW s, Ordered(s), NEW r, r = TakeStaged(s)
  PROVE  /\ Ordered(r) /\ Noticed(r) /\ (ActiveStored(s) => ActiveStored(r)) /\ Keeps(s, r)
         /\ IsBatch(r.staged) /\ r.before = NoCtx
<1>1. /\ DOMAIN r = StoreFields /\ SameFields(s, r) /\ r.stored = s.stored /\ r.activeCtx = s.activeCtx /\ r.before = NoCtx
      /\ r.staged = Empty /\ r.changed = s.changed /\ r.activated = FALSE
  BY DEF TakeStaged, Ordered, IsStore, StoreFields, SameFields
<1>2. IsBatch(Empty) /\ DOMAIN Empty = {} /\ IsNamed(NoCtx)
  BY DEF Empty, IsBatch, IsNamed
<1>3. Noticed(r)
  BY <1>1, <1>2 DEF Noticed
<1>4. Ordered(r) /\ (ActiveStored(s) => ActiveStored(r)) /\ Keeps(s, r)
  BY <1>1, <1>2, Alike DEF Keeps, Ordered, IsStore, SameFields
<1> QED BY <1>1, <1>2, <1>3, <1>4

\* The batch of an apply.
LEMMA Batching ==
  ASSUME NEW s, s.member \in Vals, IsBatch(s.staged), IsNamed(s.before),
         NEW staged, IsBatch(staged.staged), IsNamed(staged.before),
         NEW held, Ordered(held), ActiveStored(held), Noticed(held),
         NEW resets \in BOOLEAN, NEW b, b = ApplyBatch(s, held, staged, resets)
  PROVE  Good(b.store) /\ Keeps(held, b.store) /\ IsApply(b.local)
<1> DEFINE values == IF resets THEN Over(s.staged, staged.staged) ELSE s.staged
           took == {k \in DOMAIN values \cap Keys : values[k] \notin Forbidden}
           member == [k \in Keys |-> IF k \in took THEN values[k] ELSE s.member[k]]
           batch == [k \in {k \in took : s.member[k] # values[k]} |-> values[k]]
           before == IF s.before # NoCtx THEN s.before ELSE IF resets THEN staged.before ELSE NoCtx
<1>1. IsBatch(values)
  BY OverBatch
<1> HIDE DEF values
<1>2. member \in Vals
  BY <1>1 DEF Vals, IsBatch
<1>3. IsBatch(batch) /\ DOMAIN batch \subseteq Keys
  BY <1>1 DEF IsBatch
<1>4. IsNamed(before)
  BY DEF IsNamed
<1>5. /\ b.store = [held EXCEPT !.member = member, !.active = member]
      /\ b.local.old = s.member /\ b.local.staged = batch /\ b.local.before = before /\ b.local.ctx = held.activeCtx
  BY DEF ApplyBatch, values
<1> HIDE DEF member, batch, before, took
<1> DEFINE r == b.store
<1>6. /\ DOMAIN r = StoreFields /\ r.member = member /\ r.active = member /\ r.defaults = held.defaults
      /\ r.stored = held.stored /\ r.activeCtx = held.activeCtx /\ r.before = held.before
      /\ r.staged = held.staged /\ r.changed = held.changed /\ r.activated = held.activated
  BY <1>5 DEF Ordered, IsStore, StoreFields
<1> HIDE DEF r
<1>7. Ordered(r) /\ ActiveStored(r) /\ Keeps(held, r)
  BY <1>2, <1>6, Alike DEF Keeps, Ordered, IsStore
<1>8. Noticed(r) /\ r.active = r.member
  BY <1>6 DEF Noticed
<1>9. IsApply(b.local)
  BY <1>3, <1>4, <1>5 DEF IsApply, Ordered, IsStore
<1> QED BY <1>7, <1>8, <1>9 DEF Good, r

LEMMA Beginning ==
  ASSUME NEW s, Ordered(s), ActiveStored(s), now \in Nat, NEW b, b = BeginApply(s)
  PROVE  Good(b.store) /\ Keeps(s, b.store) /\ IsApply(b.local)
<1> DEFINE taken == TakeStaged(s)
           staged == stageDefaultsImpl(taken)
           left == TakeStaged(staged)
           held == removeExpiredStoredParameters(left)
<1>0. s.member \in Vals /\ IsBatch(s.staged) /\ IsNamed(s.before)
  BY DEF Ordered, IsStore
<1>1. Ordered(taken) /\ Noticed(taken) /\ ActiveStored(taken) /\ Keeps(s, taken)
  BY Taking
<1> HIDE DEF taken
<1>2. CASE "reset" \in DOMAIN s.staged /\ refusedDefaults(taken) = {}
  <2>1. b = ApplyBatch(s, held, staged, TRUE)
    BY <1>2 DEF BeginApply, ApplyReset, taken
  <2>2. Leads(taken, staged) /\ Ordered(staged) /\ ActiveStored(staged) /\ Keeps(taken, staged)
    <3>1. Leads(taken, staged) /\ ActiveStored(staged)
      <4> HIDE DEF staged
      <4> QED BY <1>1, StagingDefaults DEF staged
    <3> QED BY <3>1 DEF Leads, Keeps
  <2> HIDE DEF staged
  <2>3. Ordered(left) /\ Noticed(left) /\ ActiveStored(left) /\ Keeps(staged, left)
    BY <2>2, Taking
  <2> HIDE DEF left
  <2>4. Ordered(held) /\ Noticed(held) /\ ActiveStored(held) /\ Keeps(left, held)
    <3>1. Leads(left, held)
      <4> HIDE DEF held
      <4> QED BY <2>3, Pruning DEF held
    <3> QED BY <2>3, <3>1 DEF Leads, Keeps
  <2> HIDE DEF held
  <2>5. IsBatch(staged.staged) /\ IsNamed(staged.before)
    BY <2>2 DEF Ordered, IsStore
  <2>6. Good(b.store) /\ Keeps(held, b.store) /\ IsApply(b.local)
    BY <1>0, <2>1, <2>4, <2>5, Batching
  <2> QED BY <1>1, <2>2, <2>3, <2>4, <2>6 DEF Keeps
<1>3. CASE ~("reset" \in DOMAIN s.staged /\ refusedDefaults(taken) = {})
  <2>1. b = ApplyBatch(s, taken, s, FALSE)
    BY <1>3 DEF BeginApply, taken
  <2>2. Good(b.store) /\ Keeps(taken, b.store) /\ IsApply(b.local)
    BY <1>0, <1>1, <2>1, Batching
  <2> QED BY <1>1, <2>2 DEF Keeps
<1> QED BY <1>2, <1>3

LEMMA Ending ==
  ASSUME NEW s, Good(s), NEW a, NEW r, r = EndApply(s, a)
  PROVE  Good(r) /\ Keeps(s, r)
<1>1. /\ DOMAIN r = StoreFields /\ r.member = s.member /\ r.active = s.member /\ r.defaults \in {s.member, s.defaults}
      /\ r.stored = s.stored /\ r.activeCtx = s.activeCtx /\ r.before = s.before
      /\ r.staged = s.staged /\ r.changed = (DOMAIN s.staged # {}) /\ r.activated = s.activated
  BY DEF EndApply, Good, Ordered, IsStore, StoreFields
<1>2. Ordered(r) /\ ActiveStored(r) /\ Keeps(s, r)
  BY <1>1, Alike DEF Good, Keeps, Ordered, IsStore
<1>3. Noticed(r)
  BY <1>1 DEF Good, Noticed
<1> QED BY <1>1, <1>2, <1>3 DEF Good

LEMMA Undoing ==
  ASSUME NEW v \in Seq(Sets), NEW w, w = [k \in DOMAIN v |-> w[k]], \A k \in DOMAIN v : w[k] \in Sets
  PROVE  w \in Seq(Sets) /\ DOMAIN w = DOMAIN v
<1>1. Len(v) \in Nat /\ DOMAIN v = 1 .. Len(v)
  BY SetsOf
<1>2. DOMAIN w = DOMAIN v
  OBVIOUS
<1>3. w \in [1 .. Len(v) -> Sets]
  BY <1>1, Zenon
<1>4. w \in Seq(Sets)
  BY <1>1, <1>3, SeqDef
<1> QED BY <1>2, <1>4

\* The times of the sets and who follows in them are left as they are.
Retimes(s, r) ==
  /\ r.autoUpdate = s.autoUpdate /\ r.autoBefore = s.autoBefore
  /\ \A d \in Names : /\ Times(r.stored[d]) = Times(s.stored[d])
                      /\ DistinctVec(s.stored[d]) => DistinctVec(r.stored[d])

LEMMA RestoringRefused ==
  ASSUME NEW s, Good(s), NEW a, IsApply(a), NEW r, r = restoreRefusedImpl(s, a)
  PROVE  Ordered(r) /\ ActiveStored(r) /\ Noticed(r) /\ Keeps(s, r) /\ Retimes(s, r)
<1> DEFINE back == {k \in DOMAIN a.staged : a.old[k] \notin Forbidden}
           c == a.ctx.context
           v == s.stored[c]
           at == {k \in DOMAIN v : v[k].time = a.ctx.time /\ \A j \in 1 .. k - 1 : v[j].time # a.ctx.time}
           Undo(vals) == [k \in Keys |-> IF k \in back /\ vals[k] = a.staged[k] THEN a.old[k] ELSE vals[k]]
           member == [k \in Keys |-> IF k \in back THEN a.old[k] ELSE s.member[k]]
           w == [k \in DOMAIN v |-> [time |-> v[k].time, values |-> IF k \in at THEN Undo(v[k].values) ELSE v[k].values]]
           u == IF a.activated THEN v ELSE w
<1>1. c \in Names /\ v \in Seq(Sets) /\ SortedVec(v) /\ a.old \in Vals
  BY DEF IsApply, IsCtx, Good, Ordered, IsStore, Sorted
<1>2. member \in Vals
  BY <1>1 DEF Vals, Good, Ordered, IsStore
<1>3. \A f \in Vals : Undo(f) \in Vals
  BY <1>1 DEF Vals
<1>4. r = [s EXCEPT !.member = member, !.stored[c] = u]
  BY Zenon DEF restoreRefusedImpl
<1> HIDE DEF at, Undo, back
<1>5. w \in Seq(Sets) /\ DOMAIN w = DOMAIN v /\ \A k \in DOMAIN v : w[k].time = v[k].time
  <2> HIDE DEF v
  <2>1. ASSUME NEW k \in DOMAIN v PROVE w[k] \in Sets /\ w[k].time = v[k].time
    <3>1. v[k] \in Sets /\ v[k].values \in Vals
      BY <1>1, SetsOf
    <3>2. Undo(v[k].values) \in Vals
      BY <1>3, <3>1
    <3>3. w[k] = [time |-> v[k].time, values |-> IF k \in at THEN Undo(v[k].values) ELSE v[k].values]
      OBVIOUS
    <3> QED BY <3>1, <3>2, <3>3 DEF Sets
  <2>2. w = [k \in DOMAIN v |-> w[k]]
    OBVIOUS
  <2> HIDE DEF w
  <2>3. w \in Seq(Sets) /\ DOMAIN w = DOMAIN v
    BY <1>1, <2>1, <2>2, Undoing
  <2> QED BY <2>1, <2>3
<1> HIDE DEF w, member
<1>6. u \in Seq(Sets) /\ DOMAIN u = DOMAIN v /\ (\A k \in DOMAIN v : u[k].time = v[k].time)
  BY <1>1, <1>5
<1> HIDE DEF u, v, c
<1>7. SortedVec(u) /\ Times(u) = Times(v) /\ (v # <<>> => u # <<>>) /\ (DistinctVec(v) => DistinctVec(u))
  <2>1. DOMAIN <<>> = {} /\ (DOMAIN u = {} => u = <<>>) /\ (DOMAIN v = {} => v = <<>>)
    <3>1. \A q \in Seq(Sets) : DOMAIN q = {} => q = <<>>
      <4> SUFFICES ASSUME NEW q \in Seq(Sets), DOMAIN q = {} PROVE q = <<>>
        OBVIOUS
      <4>1. Len(q) \in Nat /\ DOMAIN q = 1 .. Len(q)
        BY SetsOf
      <4>2. Len(q) = 0
        BY <4>1
      <4> QED BY <4>2, EmptySeq
    <3>2. DOMAIN <<>> = {}
      OBVIOUS
    <3> QED BY <1>1, <1>6, <3>1, <3>2
  <2>2. SortedVec(u)
    BY <1>1, <1>6 DEF SortedVec
  <2>3. Times(u) = Times(v)
    BY <1>6 DEF Times
  <2>4. DistinctVec(v) => DistinctVec(u)
    BY <1>6 DEF DistinctVec
  <2> QED BY <1>6, <2>1, <2>2, <2>3, <2>4
<1>8. /\ DOMAIN r = StoreFields /\ r.member = member /\ r.active = s.active /\ r.defaults = s.defaults
      /\ r.stored = [s.stored EXCEPT ![c] = u] /\ r.activeCtx = s.activeCtx /\ r.before = s.before
      /\ r.staged = s.staged /\ r.changed = s.changed /\ r.activated = s.activated
      /\ r.autoUpdate = s.autoUpdate /\ r.autoBefore = s.autoBefore
  BY <1>4 DEF Good, Ordered, IsStore, StoreFields
<1>9. ASSUME NEW d \in Names
      PROVE  /\ r.stored[d] \in Seq(Sets) /\ SortedVec(r.stored[d]) /\ Times(r.stored[d]) = Times(s.stored[d])
             /\ s.stored[d] # <<>> => r.stored[d] # <<>>
             /\ DistinctVec(s.stored[d]) => DistinctVec(r.stored[d])
  <2>1. CASE d = c
    <3>1. r.stored[d] = u /\ s.stored[d] = v
      BY <1>1, <1>8, <2>1 DEF v, Good, Ordered, IsStore
    <3> QED BY <1>6, <1>7, <3>1
  <2>2. CASE d # c
    <3>1. r.stored[d] = s.stored[d]
      BY <1>8, <2>2 DEF Good, Ordered, IsStore
    <3> QED BY <3>1 DEF Good, Ordered, IsStore, Sorted
  <2> QED BY <2>1, <2>2
<1>10. r.stored \in [Names -> Seq(Sets)]
  BY <1>8, <1>9 DEF Good, Ordered, IsStore
<1>11. Keeps(s, r)
  BY <1>9 DEF Keeps, IsPresent
<1>12. IsStore(r)
  BY <1>2, <1>8, <1>10 DEF Good, Ordered, IsStore
<1>13. Ordered(r)
  BY <1>9, <1>11, <1>12, DefaultIsAName DEF Good, Ordered, Sorted, Keeps
<1>14. ActiveStored(r) /\ Noticed(r)
  BY <1>8, <1>9 DEF Good, ActiveStored, Noticed, Ordered, IsStore
<1>15. Retimes(s, r)
  BY <1>8, <1>9 DEF Retimes
<1> QED BY <1>11, <1>13, <1>14, <1>15

LEMMA RestoringContext ==
  ASSUME NEW s, Ordered(s), ActiveStored(s), now \in Nat, NEW a, IsApply(a), NEW r, r = restoreContext(s, a)
  PROVE  Leads(s, r)
<1>1. CASE a.before = NoCtx
  <2>1. r = s
    BY <1>1 DEF restoreContext
  <2> QED BY <2>1 DEF Leads
<1>2. CASE a.before # NoCtx
  <2> DEFINE earlier == a.before
             found == findBestMatch(s, Default, now)
             restored == IF s.stored[earlier.context] # <<>> THEN earlier ELSE found
             active == IF s.activeCtx = a.ctx /\ restored # NoCtx THEN restored ELSE s.activeCtx
             before == IF s.before = a.ctx THEN restored ELSE s.before
  <2>1. r = [s EXCEPT !.activeCtx = active, !.before = before]
    BY <1>2 DEF restoreContext, restoreContextImpl, Ordered, IsStore, StoreFields
  <2>2. IsNamed(restored) /\ (restored # NoCtx => IsCtx(restored) /\ restored.context \in Names /\ s.stored[restored.context] # <<>>)
    <3>1. IsCtx(earlier) /\ earlier.context \in Names
      BY <1>2 DEF IsApply, IsNamed, IsCtx
    <3>2. Found(s, Default, found)
      BY Finding, DefaultIsAName
    <3> HIDE DEF found
    <3>3. IsNamed(found) /\ (found # NoCtx => found.context = Default /\ IsCtx(found))
      BY <3>2, DefaultIsAName, FoundIsNamed
    <3>4. s.stored[Default] # <<>>
      BY PresentIsStored DEF Ordered
    <3> QED BY <3>1, <3>3, <3>4, DefaultIsAName DEF IsApply
  <2> HIDE DEF restored, found
  <2>3. IsCtx(active) /\ s.stored[active.context] # <<>> /\ IsNamed(before)
    BY <2>2 DEF ActiveStored, Ordered, IsStore
  <2> HIDE DEF active, before
  <2>4. /\ DOMAIN r = StoreFields /\ SameFields(s, r) /\ r.stored = s.stored /\ r.activeCtx = active /\ r.before = before
        /\ r.staged = s.staged /\ r.changed = s.changed /\ r.activated = s.activated
    BY <2>1 DEF Ordered, IsStore, StoreFields, SameFields
  <2>5. ActiveStored(r) /\ (Noticed(s) => Noticed(r))
    BY <2>3, <2>4 DEF ActiveStored, Noticed
  <2> QED BY <2>3, <2>4, <2>5, Steady DEF Ordered, IsStore
<1> QED BY <1>1, <1>2

\* A refused apply restores a good store.
LEMMA Refusing ==
  ASSUME NEW s, Good(s), now \in Nat, NEW a, IsApply(a), NEW r, r = RefuseApply(s, a)
  PROVE  Good(r) /\ Keeps(s, r)
<1> DEFINE s1 == restoreRefusedImpl(s, a)
           s2 == restoreContext(s1, a)
           s3 == restoreFollowing(s2, a)
<1>0. r = reportRefused(s3, a)
  BY DEF RefuseApply
<1>1. Ordered(s1) /\ ActiveStored(s1) /\ Noticed(s1) /\ Keeps(s, s1)
  BY RestoringRefused
<1> HIDE DEF s1
<1>2. Leads(s1, s2)
  <2> HIDE DEF s2
  <2> QED BY <1>1, RestoringContext DEF s2
<1> HIDE DEF s2
<1>3. Leads(s2, s3)
  <2>1. CASE a.autoBefore = <<>>
    <3>1. s3 = s2
      BY <2>1 DEF restoreFollowing
    <3> QED BY <1>2, <3>1 DEF Leads
  <2>2. CASE a.autoBefore # <<>>
    <3>1. Marks(s2, s3)
      BY <1>2, <2>2 DEF restoreFollowing, Marks, Leads, Ordered, IsStore, StoreFields, SameFields
    <3> HIDE DEF s3
    <3> QED BY <1>2, <3>1, Marking DEF Leads
  <2> QED BY <2>1, <2>2
<1> HIDE DEF s3
<1>4. Ordered(s3) /\ ActiveStored(s3) /\ Noticed(s3) /\ Keeps(s, s3)
  BY <1>1, <1>2, <1>3 DEF Leads, Keeps
<1>5. /\ DOMAIN r = StoreFields /\ r.member = s3.member /\ r.active = s3.member /\ r.defaults \in {s3.member, s3.defaults}
      /\ r.stored = s3.stored /\ r.activeCtx = s3.activeCtx /\ r.before = s3.before
      /\ r.staged = s3.staged /\ r.changed \in {s3.changed, DOMAIN s3.staged # {}} /\ r.activated = s3.activated
  BY <1>0, <1>4 DEF reportRefused, Ordered, IsStore, StoreFields
<1>6. Ordered(r) /\ ActiveStored(r) /\ Keeps(s3, r)
  BY <1>4, <1>5, Alike DEF Keeps, Ordered, IsStore
<1>7. Noticed(r)
  BY <1>4, <1>5 DEF Noticed
<1> QED BY <1>4, <1>5, <1>6, <1>7 DEF Good, Keeps

-----------------------------------------------------------------------------
(* The specification. *)

\* The invariant: the store is good, and so is what each running apply has taken.
AppliesGood ==
  DOMAIN applies = Appliers /\ \A a \in Appliers : applies[a].pc = "callback" => IsApply(applies[a])

SettingsInv == now \in Nat /\ Good(store) /\ AppliesGood

\* A sequence of one set that is valid.
LEMMA FirstSets ==
  ASSUME NEW vals \in Vals, NEW v, v = <<[time |-> 1, values |-> vals]>>
  PROVE  v \in Seq(Sets) /\ SortedVec(v) /\ v # <<>> /\ Times(v) = {1}
<1>1. [time |-> 1, values |-> vals] \in Sets
  BY DEF Sets
<1>2. v \in Seq(Sets) /\ DOMAIN v = {1} /\ v[1].time = 1
  BY <1>1
<1>3. DOMAIN <<>> = {}
  OBVIOUS
<1> QED BY <1>2, <1>3 DEF SortedVec, Times

LEMMA NoSets == <<>> \in Seq(Sets) /\ SortedVec(<<>>)
<1>1. DOMAIN <<>> = {} /\ <<>> \in Seq(Sets)
  OBVIOUS
<1> QED BY <1>1 DEF SortedVec

LEMMA OnlyOne ==
  ASSUME NEW k \in Keys, NEW v \in Values
  PROVE  IsBatch(Only(k, v)) /\ DOMAIN Only(k, v) = {k} /\ Only(k, v)[k] = v
BY DEF IsBatch, Only

LEMMA EmptyBatch == IsBatch(Empty) /\ DOMAIN Empty = {}
BY DEF IsBatch, Empty

LEMMA Starting ==
  ASSUME now = 2, NEW d \in [Keys -> Fields], NEW p, IsBatch(p), DOMAIN p \subseteq Keys, NEW r, r = AfterInit(d, p)
  PROVE  Good(r) /\ r.member = d /\ r.staged = p
<1> DEFINE v == <<[time |-> 1, values |-> Over(p, d)]>>
<1>1. d \in Vals
  BY SettingsAssumption DEF Vals
<1>2. Over(p, d) \in Vals
  <2>1. \A k \in DOMAIN p : p[k] \in Values
    BY DEF IsBatch
  <2> QED BY <1>1, <2>1, OverVals
<1>3. v \in Seq(Sets) /\ SortedVec(v) /\ v # <<>> /\ Times(v) = {1}
  BY <1>2, FirstSets
<1>4. r.stored = [c \in Names |-> IF c = Default THEN v ELSE <<>>]
  BY DEF AfterInit
<1> HIDE DEF v
<1>5. /\ DOMAIN r = StoreFields /\ r.member = d /\ r.active = d /\ r.defaults = d
      /\ r.activeCtx = Ctx(1, Default) /\ r.before = NoCtx /\ r.staged = p /\ r.changed = TRUE /\ r.activated = FALSE
  BY DEF AfterInit, StoreFields
<1>6. r.activeCtx.context = Default /\ IsCtx(r.activeCtx) /\ Default \in Names
  <2>1. Ctx(1, Default).context = Default /\ IsCtx(Ctx(1, Default))
    BY CtxIs, DefaultIsAName
  <2> QED BY <1>5, <2>1, DefaultIsAName
<1>7. /\ r.stored \in [Names -> Seq(Sets)] /\ r.stored[Default] = v
      /\ \A c \in Names : SortedVec(r.stored[c])
  BY <1>3, <1>4, <1>6, NoSets
<1>8. IsStore(r)
  BY <1>1, <1>5, <1>6, <1>7 DEF IsStore, IsNamed
<1>9. IsPresent(r, Default)
  <2>1. 1 \in Times(r.stored[Default]) /\ 1 <= now
    BY <1>3, <1>7
  <2> QED BY <2>1 DEF IsPresent
<1>10. ActiveStored(r) /\ Noticed(r)
  BY <1>3, <1>5, <1>6, <1>7 DEF ActiveStored, Noticed
<1> QED BY <1>5, <1>7, <1>8, <1>9, <1>10 DEF Good, Ordered, Sorted

LEMMA MovingOn ==
  ASSUME now \in Nat, NEW s, Good(s), s.staged = Empty, ~s.activated, NEW c \in Contexts, NEW k \in Keys, NEW x \in Values,
         NEW r, r = InContext(s, c, Only(k, x))
  PROVE  Good(r)
<1> DEFINE held == Over(Only(k, x), s.member)
           v == <<[time |-> 1, values |-> held]>>
<1>1. held \in Vals
  <2>1. s.member \in Vals
    BY DEF Good, Ordered, IsStore
  <2>2. DOMAIN Only(k, x) \subseteq Keys /\ \A j \in DOMAIN Only(k, x) : Only(k, x)[j] \in Values
    BY DEF Only
  <2> QED BY <2>1, <2>2, OverVals
<1>2. c \in Names /\ c # Default
  BY SettingsAssumption DEF Names, Default
<1>3. /\ DOMAIN r = StoreFields /\ r.member = held /\ r.active = held /\ r.defaults = s.defaults
      /\ r.stored = [s.stored EXCEPT ![c] = v] /\ r.activeCtx = Ctx(1, c) /\ r.before = s.before
      /\ r.staged = Empty /\ r.changed = FALSE /\ r.activated = FALSE
  BY DEF InContext, Good, Ordered, IsStore, StoreFields
<1> HIDE DEF held
<1>4. v \in Seq(Sets) /\ SortedVec(v) /\ v # <<>>
  BY <1>1, FirstSets
<1> HIDE DEF v
<1>5. r.activeCtx.context = c /\ IsCtx(r.activeCtx)
  BY <1>2, <1>3, CtxIs
<1>6. /\ r.stored \in [Names -> Seq(Sets)] /\ r.stored[c] = v /\ r.stored[Default] = s.stored[Default]
      /\ \A e \in Names : SortedVec(r.stored[e])
  BY <1>2, <1>3, <1>4, DefaultIsAName DEF Good, Ordered, IsStore, Sorted
<1>7. IsStore(r)
  BY <1>1, <1>2, <1>3, <1>5, <1>6, EmptyBatch DEF IsStore, Good, Ordered
<1>8. IsPresent(r, Default)
  BY <1>6 DEF IsPresent, Good, Ordered
<1>9. ActiveStored(r) /\ Noticed(r)
  BY <1>3, <1>4, <1>5, <1>6, EmptyBatch DEF ActiveStored, Noticed
<1> QED BY <1>3, <1>6, <1>7, <1>8, <1>9 DEF Good, Ordered, Sorted

LEMMA InitGood == SettingsInit => SettingsInv
<1> SUFFICES ASSUME SettingsInit PROVE SettingsInv
  OBVIOUS
<1>1. now = 2 /\ now \in Nat
  BY DEF SettingsInit
<1>2. AppliesGood
  BY DEF SettingsInit, AppliesGood, NoApply
<1>3. PICK d \in [Keys -> Fields], k \in Keys, v \in Values \ Forbidden :
        \/ store \in {AfterInit(d, Empty), AfterInit(d, Only(k, v))}
        \/ \E c \in Contexts : store = InContext(AfterInit(d, Empty), c, Only(k, v))
  BY DEF SettingsInit
<1>4. Good(AfterInit(d, Empty)) /\ AfterInit(d, Empty).staged = Empty
  BY <1>1, EmptyBatch, Starting
<1>5. Good(AfterInit(d, Only(k, v)))
  <2>1. IsBatch(Only(k, v)) /\ DOMAIN Only(k, v) \subseteq Keys
    BY DEF Only, IsBatch
  <2> QED BY <1>1, <2>1, Starting
<1>6. ~AfterInit(d, Empty).activated
  BY DEF AfterInit
<1>7. \A c \in Contexts : Good(InContext(AfterInit(d, Empty), c, Only(k, v)))
  BY <1>1, <1>4, <1>6, MovingOn
<1> QED BY <1>1, <1>2, <1>3, <1>4, <1>5, <1>7 DEF SettingsInv

-----------------------------------------------------------------------------
(* The steps. *)

LEMMA SetStep ==
  ASSUME SettingsInv, NEW c \in Names, NEW k \in Keys, NEW v \in Values, NEW t \in {now, now + 1}, Set(c, t, k, v)
  PROVE  Good(store') /\ Keeps(store, store')
<1>1. now \in Nat /\ t \in Nat /\ Good(store) /\ Ordered(store)
  BY DEF SettingsInv, Good
<1>2. store' = setImpl(store, Only(k, v), Ctx(t, c))
  BY DEF Set
<1>3. Leads(store, store') /\ SameFields(store, store')
  BY <1>1, <1>2, Setting
<1> QED BY <1>1, <1>3, GoodLeads

LEMMA StagedStep ==
  ASSUME SettingsInv, NEW k \in Keys, NEW v \in Values, SetStaged(k, v)
  PROVE  Good(store') /\ Keeps(store, store')
<1>1. Good(store) /\ Ordered(store)
  BY DEF SettingsInv, Good
<1>2. store' = setStagedImpl(store, Only(k, v))
  BY DEF SetStaged
<1>3. Leads(store, store') /\ SameFields(store, store')
  BY <1>1, <1>2, OnlyOne, Staging
<1> QED BY <1>1, <1>3, GoodLeads

LEMMA ActivateStep ==
  ASSUME SettingsInv, NEW c \in Names, ActivateContext(c)
  PROVE  Good(store') /\ Keeps(store, store')
<1>1. now \in Nat /\ Good(store) /\ Ordered(store)
  BY DEF SettingsInv, Good
<1>2. store' = activateContextImpl(store, c, now)
  BY DEF ActivateContext
<1>3. Leads(store, store') /\ SameFields(store, store')
  BY <1>1, <1>2, ActivatingContext
<1> QED BY <1>1, <1>3, GoodLeads

\* Only the context of the set that is removed may lose its present values.
LEMMA RemoveStep ==
  ASSUME SettingsInv, NEW c \in Contexts, NEW t \in 1 .. MaxTime, RemoveContext(Ctx(t, c))
  PROVE  Good(store') /\ \A d \in Names \ {c} : IsPresent(store, d) => IsPresent(store', d)
<1> DEFINE ctx == Ctx(t, c)
<1>1. now \in Nat /\ Good(store) /\ Ordered(store) /\ ActiveStored(store) /\ Noticed(store)
  BY DEF SettingsInv, Good
<1>2. ctx.context = c /\ c \in Names
  BY DEF Ctx, Names
<1>3. ctx.context # Default /\ IsStored(store, ctx) /\ store' = removeContextImpl(store, ctx)
  BY DEF RemoveContext
<1> HIDE DEF ctx
<1>4. /\ Ordered(store') /\ ActiveStored(store') /\ SameFields(store, store') /\ Noticed(store')
      /\ \A d \in Names \ {ctx.context} : IsPresent(store, d) => IsPresent(store', d)
  BY <1>1, <1>2, <1>3, RemovingContext
<1> QED BY <1>1, <1>2, <1>4 DEF Good, SameFields

LEMMA TagStep ==
  ASSUME SettingsInv, NEW vals, IsBatch(vals), DOMAIN vals \subseteq Keys, NEW controls \in SUBSET Controls,
         NEW c \in Names \cup {""}, TagArrives(vals, controls, c)
  PROVE  Good(store') /\ Keeps(store, store')
<1>1. now \in Nat /\ Good(store) /\ Ordered(store)
  BY DEF SettingsInv, Good
<1>2. store' = autoUpdate(store, vals, controls, c)
  BY DEF TagArrives
<1>3. Leads(store, store') /\ SameFields(store, store')
  BY <1>1, <1>2, Tagging
<1> QED BY <1>1, <1>3, GoodLeads

LEMMA CoupleStep ==
  ASSUME SettingsInv, NEW k, NEW on, Couple(k, on)
  PROVE  Good(store') /\ Keeps(store, store')
<1>1. Good(store) /\ Ordered(store)
  BY DEF SettingsInv, Good
<1>2. store' = setTagCouplings(store, k, on)
  BY DEF Couple
<1>3. Leads(store, store') /\ SameFields(store, store')
  BY <1>1, <1>2, Coupling
<1> QED BY <1>1, <1>3, GoodLeads

\* The pruning that follows an apply of resetDefaults().
LEMMA AfterApplying ==
  ASSUME NEW s, Good(s), now \in Nat, NEW resets, NEW r, r = AfterApply(s, resets)
  PROVE  Good(r) /\ Keeps(s, r)
<1>1. CASE resets
  <2>1. r = removeExpiredStoredParameters(s)
    BY <1>1 DEF AfterApply
  <2>2. Leads(s, r) /\ SameFields(s, r)
    BY <2>1, Pruning DEF Good
  <2> QED BY <2>2, GoodLeads
<1>2. CASE ~resets
  BY <1>2 DEF AfterApply, Keeps
<1> QED BY <1>1, <1>2

\* An apply that begins in s, of which the store is the present one or the defaults staged.
LEMMA Running ==
  ASSUME SettingsInv, NEW a \in Appliers, NEW s, Ordered(s), ActiveStored(s), Keeps(store, s), NEW resets, Run(a, s, resets)
  PROVE  Good(store') /\ Keeps(store, store') /\ AppliesGood'
<1> DEFINE b == BeginApply(s)
           e == EndApply(b.store, b.local)
           l == Over(b.local, [pins |-> pins, resets |-> resets])
<1>1. Good(b.store) /\ Keeps(s, b.store) /\ IsApply(b.local)
  <2>1. now \in Nat
    BY DEF SettingsInv
  <2> HIDE DEF b
  <2> QED BY <2>1, Beginning DEF b
<1>2. \/ store' = AfterApply(e, resets) /\ UNCHANGED applies
      \/ store' = b.store /\ applies' = [applies EXCEPT ![a] = l]
  BY DEF Run
<1>3. {"old", "ctx", "before", "staged"} \subseteq DOMAIN b.local
  BY DEF BeginApply, ApplyReset, ApplyBatch
<1> HIDE DEF b
<1>4. IsApply(l)
  <2>1. l.old = b.local.old /\ l.ctx = b.local.ctx /\ l.before = b.local.before /\ l.staged = b.local.staged
    BY <1>3 DEF Over
  <2> HIDE DEF l
  <2> QED BY <1>1, <2>1 DEF IsApply
<1> HIDE DEF l
<1>5. CASE store' = AfterApply(e, resets) /\ UNCHANGED applies
  <2>1. Good(e) /\ Keeps(b.store, e)
    BY <1>1, Ending
  <2>2. now \in Nat
    BY DEF SettingsInv
  <2> HIDE DEF e
  <2>3. Good(store') /\ Keeps(b.store, store')
    BY <1>5, <2>1, <2>2, AfterApplying DEF Keeps
  <2> QED BY <1>1, <1>5, <2>3 DEF Keeps, SettingsInv, AppliesGood
<1>6. CASE store' = b.store /\ applies' = [applies EXCEPT ![a] = l]
  <2>1. AppliesGood'
    BY <1>4, <1>6 DEF SettingsInv, AppliesGood
  <2> QED BY <1>1, <1>6, <2>1 DEF Keeps
<1> QED BY <1>2, <1>5, <1>6

LEMMA ApplyStep ==
  ASSUME SettingsInv, NEW a \in Appliers, Apply(a)
  PROVE  Good(store') /\ Keeps(store, store') /\ AppliesGood'
<1>1. Ordered(store) /\ ActiveStored(store) /\ Keeps(store, store)
  BY DEF SettingsInv, Good, Keeps
<1>2. Run(a, store, FALSE)
  BY DEF Apply
<1> QED BY <1>1, <1>2, Running

LEMMA ResetStep ==
  ASSUME SettingsInv, NEW a \in Appliers, ResetDefaults(a)
  PROVE  Good(store') /\ Keeps(store, store') /\ AppliesGood'
<1>1. now \in Nat /\ Ordered(store) /\ ActiveStored(store) /\ Good(store)
  BY DEF SettingsInv, Good
<1>2. CASE UNCHANGED <<store, applies, pins>>
  BY <1>1, <1>2 DEF Keeps, SettingsInv, AppliesGood
<1>3. CASE \E s \in {stageDefaultsImpl(store)} : Run(a, [s EXCEPT !.staged = Without(@, {"reset"})], TRUE)
  <2> DEFINE s == stageDefaultsImpl(store)
             r == [s EXCEPT !.staged = Without(@, {"reset"})]
  <2>1. Run(a, r, TRUE)
    BY <1>3
  <2>2. Leads(store, s) /\ ActiveStored(s)
    <3> HIDE DEF s
    <3> QED BY <1>1, StagingDefaults DEF s
  <2> HIDE DEF s
  <2>3. /\ DOMAIN r = StoreFields /\ r.stored = s.stored /\ r.member = s.member /\ r.active = s.active /\ r.defaults = s.defaults
        /\ r.activeCtx = s.activeCtx /\ r.before = s.before /\ r.staged = Without(s.staged, {"reset"})
        /\ r.changed = s.changed /\ r.activated = s.activated
    BY <2>2 DEF Leads, Ordered, IsStore, StoreFields
  <2> HIDE DEF r
  <2>4. IsBatch(r.staged)
    BY <2>2, <2>3, WithoutBatch DEF Leads, Ordered, IsStore
  <2>5. Ordered(r) /\ ActiveStored(r) /\ Keeps(s, r)
    BY <2>2, <2>3, <2>4, Alike DEF Keeps, Leads, Ordered, IsStore
  <2>6. Keeps(store, r)
    BY <2>2, <2>5 DEF Keeps, Leads
  <2> QED BY <2>1, <2>5, <2>6, Running
<1> QED BY <1>2, <1>3 DEF ResetDefaults

LEMMA ReturnStep ==
  ASSUME SettingsInv, NEW a \in Appliers, CallbackReturns(a) \/ CallbackThrows(a)
  PROVE  Good(store') /\ Keeps(store, store') /\ AppliesGood'
<1>1. now \in Nat /\ Good(store) /\ AppliesGood
  BY DEF SettingsInv
<1>2. IsApply(applies[a]) /\ applies' = [applies EXCEPT ![a] = NoApply]
  BY <1>1 DEF CallbackReturns, CallbackThrows, AppliesGood
<1>3. AppliesGood'
  BY <1>1, <1>2 DEF AppliesGood, NoApply
<1>4. ASSUME NEW e, Good(e), Keeps(store, e), NEW resets, store' = AfterApply(e, resets)
      PROVE  Good(store') /\ Keeps(store, store')
  BY <1>1, <1>4, AfterApplying DEF Keeps
<1>5. CASE CallbackReturns(a)
  <2> DEFINE e == EndApply(store, applies[a])
  <2>1. store' = AfterApply(e, applies[a].resets)
    BY <1>5 DEF CallbackReturns
  <2>2. Good(e) /\ Keeps(store, e)
    BY <1>1, Ending
  <2> HIDE DEF e
  <2> QED BY <1>3, <1>4, <2>1, <2>2
<1>6. CASE CallbackThrows(a)
  <2> DEFINE e == RefuseApply(store, applies[a])
             ends == applies[a].resets /\ taggedOnly(applies[a])
  <2>1. store' = AfterApply(e, ends)
    BY <1>6 DEF CallbackThrows
  <2>2. Good(e) /\ Keeps(store, e)
    BY <1>1, <1>2, Refusing
  <2> HIDE DEF e, ends
  <2> QED BY <1>3, <1>4, <2>1, <2>2
<1> QED BY <1>5, <1>6

\* What holds of the store now holds later too.
LEMMA Later ==
  ASSUME now \in Nat, now' \in Nat, now <= now', Good(store')
  PROVE  Good(store)'
<1>1. \A t \in Nat : t <= now => t <= now'
  BY SMT
<1>2. Ordered(store')
  BY DEF Good
<1>3. IsStore(store)' /\ Sorted(store)'
  BY <1>2 DEF Ordered, IsStore, Sorted
<1>4. IsPresent(store, Default)'
  <2>1. PICK t \in Times(store'.stored[Default]) : t <= now
    BY <1>2 DEF Ordered, IsPresent
  <2>2. t \in Nat
    <3>1. store'.stored[Default] \in Seq(Sets)
      BY <1>2, DefaultIsAName DEF Ordered, IsStore
    <3> QED BY <3>1, SetsOf DEF Times
  <2> QED BY <1>1, <2>1, <2>2 DEF IsPresent
<1>5. (ActiveStored(store) /\ Noticed(store))' /\ store'.active = store'.member
  BY DEF Good, ActiveStored, Noticed
<1> QED BY <1>3, <1>4, <1>5 DEF Good, Ordered

LEMMA Stepping ==
  ASSUME SettingsInv, SettingsNext
  PROVE  /\ SettingsInv'
         /\ \A d \in Names : IsPresent(store, d) =>
              IsPresent(store', d) \/ \E t \in 1 .. MaxTime : RemoveContext(Ctx(t, d))
<1> DEFINE Kept == \A d \in Names : IsPresent(store, d) =>
                     IsPresent(store', d) \/ \E t \in 1 .. MaxTime : RemoveContext(Ctx(t, d))
<1>0. ASSUME Good(store'), AppliesGood', UNCHANGED now PROVE SettingsInv'
  <2>1. now' \in Nat /\ now <= now' /\ now \in Nat
    BY <1>0 DEF SettingsInv
  <2>2. Good(store)'
    BY <1>0, <2>1, Later
  <2> QED BY <1>0, <2>1, <2>2 DEF SettingsInv
<1>1. ASSUME Good(store'), Keeps(store, store'), UNCHANGED <<applies, now>> PROVE SettingsInv' /\ Kept
  <2>1. AppliesGood'
    BY <1>1 DEF SettingsInv, AppliesGood
  <2> QED BY <1>0, <1>1, <2>1 DEF Keeps
<1>2. ASSUME NEW c \in Names, NEW k \in Keys, NEW v \in Values, NEW t \in {now, now + 1},
             Set(c, t, k, v) \/ SetRefused(c, t, v)
      PROVE  SettingsInv' /\ Kept
  <2>1. CASE Set(c, t, k, v)
    <3>1. UNCHANGED <<applies, now>>
      BY <2>1 DEF Set
    <3> QED BY <1>1, <2>1, <3>1, SetStep
  <2>2. CASE SetRefused(c, t, v)
    <3>1. UNCHANGED <<applies, now>> /\ Good(store') /\ Keeps(store, store')
      BY <2>2 DEF SetRefused, SettingsInv, Keeps
    <3> QED BY <1>1, <3>1
  <2> QED BY <1>2, <2>1, <2>2
<1>3. ASSUME NEW k \in Keys, NEW v \in Values, SetStaged(k, v) PROVE SettingsInv' /\ Kept
  <2>1. UNCHANGED <<applies, now>>
    BY <1>3 DEF SetStaged
  <2> QED BY <1>1, <1>3, <2>1, StagedStep
<1>4. ASSUME NEW c \in Names, ActivateContext(c) PROVE SettingsInv' /\ Kept
  <2>1. UNCHANGED <<applies, now>>
    BY <1>4 DEF ActivateContext
  <2> QED BY <1>1, <1>4, <2>1, ActivateStep
<1>5. ASSUME NEW c \in Contexts, NEW t \in 1 .. MaxTime, RemoveContext(Ctx(t, c)) PROVE SettingsInv' /\ Kept
  <2>1. UNCHANGED <<applies, now>>
    BY <1>5 DEF RemoveContext
  <2>2. AppliesGood'
    BY <2>1 DEF SettingsInv, AppliesGood
  <2>3. Good(store') /\ \A d \in Names \ {c} : IsPresent(store, d) => IsPresent(store', d)
    BY <1>5, RemoveStep
  <2>4. Kept
    BY <1>5, <2>3
  <2> QED BY <1>0, <2>1, <2>2, <2>3, <2>4
<1>6. ASSUME NEW vals, IsBatch(vals), DOMAIN vals \subseteq Keys, NEW controls \in SUBSET Controls,
             NEW c \in Names \cup {""}, TagArrives(vals, controls, c)
      PROVE  SettingsInv' /\ Kept
  <2>1. UNCHANGED <<applies, now>>
    BY <1>6 DEF TagArrives
  <2>2. Good(store') /\ Keeps(store, store')
    BY <1>6, TagStep
  <2> QED BY <1>1, <2>1, <2>2
<1>7. ASSUME NEW k \in Keys, NEW on \in BOOLEAN, Couple(k, on) PROVE SettingsInv' /\ Kept
  <2>1. UNCHANGED <<applies, now>>
    BY <1>7 DEF Couple
  <2> QED BY <1>1, <1>7, <2>1, CoupleStep
<1>8. ASSUME NEW a \in Appliers, Apply(a) \/ ResetDefaults(a) \/ CallbackReturns(a) \/ CallbackThrows(a)
      PROVE  SettingsInv' /\ Kept
  <2>1. UNCHANGED now
    BY <1>8 DEF Apply, ResetDefaults, CallbackReturns, CallbackThrows
  <2>2. Good(store') /\ Keeps(store, store') /\ AppliesGood'
    BY <1>8, ApplyStep, ResetStep, ReturnStep
  <2> QED BY <1>0, <2>1, <2>2 DEF Keeps
<1>9. ASSUME Tick PROVE SettingsInv' /\ Kept
  <2>1. now \in Nat /\ now' = now + 1 /\ store' = store /\ applies' = applies
    BY <1>9 DEF Tick, SettingsInv
  <2>2. Good(store') /\ AppliesGood' /\ Kept
    BY <2>1 DEF SettingsInv, AppliesGood
  <2>3. Good(store)'
    BY <2>1, <2>2, Later
  <2> QED BY <2>1, <2>2, <2>3 DEF SettingsInv
<1>10. ASSUME NEW k \in Keys, NEW v \in Values, NEW c \in Names \cup {""}, TagArrives(Only(k, v), {}, c)
       PROVE  SettingsInv' /\ Kept
  <2>1. IsBatch(Only(k, v)) /\ DOMAIN Only(k, v) \subseteq Keys
    BY DEF Only, IsBatch
  <2> HIDE DEF Kept
  <2> QED BY <1>6, <1>10, <2>1
<1>11. ASSUME NEW x \in SUBSET Controls, TagArrives(Empty, x, "") PROVE SettingsInv' /\ Kept
  <2> HIDE DEF Kept
  <2> QED BY <1>6, <1>11, EmptyBatch
<1> HIDE DEF Kept
<1>12. SettingsInv' /\ Kept
  BY <1>2, <1>3, <1>4, <1>5, <1>7, <1>8, <1>9, <1>10, <1>11 DEF SettingsNext
<1> QED BY <1>12 DEF Kept

LEMMA SettingsInvariant == SettingsSpec => []SettingsInv
<1>1. SettingsInit => SettingsInv
  BY InitGood
<1>2. SettingsInv /\ [SettingsNext]_settingsVars => SettingsInv'
  <2> SUFFICES ASSUME SettingsInv, [SettingsNext]_settingsVars PROVE SettingsInv'
    OBVIOUS
  <2>1. CASE SettingsNext
    BY <2>1, Stepping
  <2>2. CASE UNCHANGED settingsVars
    BY <2>2 DEF settingsVars, SettingsInv, AppliesGood, Good, Ordered, IsStore, Sorted, IsPresent, ActiveStored, Noticed
  <2> QED BY <2>1, <2>2
<1> QED BY <1>1, <1>2, PTL DEF SettingsSpec

\* get() returns what the block's members hold, the active context has a stored set,
\* and whatever is staged or activated is noticed by the next work() call, whichever
\* settings, tags, contexts, removals and resets meet an apply that has released the
\* lock for settingsChanged(), and whether the block takes the batch or refuses it.
THEOREM SettingsStayCoherent == SettingsSpec => []SettingsCoherent
<1>1. SettingsInv => SettingsCoherent
  BY DEF SettingsInv, Good, SettingsCoherent, ActiveIsRead, ActiveContextStored, StagedIsNoticed, ActiveStored, Noticed
<1> QED BY <1>1, SettingsInvariant, PTL

\* A context that has a set valid now keeps one through every step but its removal.
THEOREM PresentSetsKept == SettingsSpec => PresentSetKept
<1>1. ASSUME NEW s, Ordered(s), NEW c \in Names, now \in Nat PROVE findBestMatch(s, c, now) # NoCtx <=> IsPresent(s, c)
  BY <1>1, Searching DEF Ordered, IsPresent
<1>2. SettingsInv /\ [SettingsNext]_settingsVars => [KeepsPresentSets]_settingsVars
  <2> SUFFICES ASSUME SettingsInv, SettingsNext PROVE KeepsPresentSets
    OBVIOUS
  <2> SUFFICES ASSUME NEW c \in Names, findBestMatch(store, c, now) # NoCtx, ~\E t \in 1 .. MaxTime : RemoveContext(Ctx(t, c))
               PROVE  findBestMatch(store', c, now) # NoCtx
    BY DEF KeepsPresentSets
  <2>1. now \in Nat /\ Ordered(store)
    BY DEF SettingsInv, Good
  <2>2. IsPresent(store, c)
    BY <1>1, <2>1
  <2>3. IsPresent(store', c)
    BY <2>2, Stepping
  <2>4. IsStore(store')
    BY Stepping DEF SettingsInv, Good, Ordered, IsStore
  <2> QED BY <2>1, <2>3, <2>4, Searching DEF IsPresent
<1> QED BY <1>2, SettingsInvariant, PTL DEF SettingsSpec, PresentSetKept

-----------------------------------------------------------------------------
(* Who follows: where no two sets of a context have one time, the sets that   *)
(* are stored are those that have an entry in autoUpdate.                     *)

\* Every stored set has an entry, and every entry a set.
Tracked(s) ==
  /\ \A c \in Names : \A t \in Times(s.stored[c]) : Ctx(t, c) \in DOMAIN s.autoUpdate
  /\ \A x \in DOMAIN s.autoUpdate : IsCtx(x) /\ x.time \in Times(s.stored[x.context])
Distinct(s) == \A c \in Names : DistinctVec(s.stored[c])
Follows(s) == Tracked(s) /\ Distinct(s)

\* A pinned key of a stored set does not follow, and no set comes back at its time.
Pinned(s, P) ==
  \A p \in P : /\ p[1] \in Names /\ p[2] \in Nat
               /\ IF p[2] \in Times(s.stored[p[1]]) THEN p[3] \notin s.autoUpdate[Ctx(p[2], p[1])] ELSE p[2] < now

\* ... nor does it in what an apply that resets has saved.
SavedAs(followed, P, s) ==
  followed # <<>> => \A p \in P :
    /\ p[1] \in Names /\ p[2] \in Nat
    /\ IF Ctx(p[2], p[1]) \in DOMAIN followed[1] THEN p[3] \notin followed[1][Ctx(p[2], p[1])]
       ELSE p[2] < now /\ p[2] \notin Times(s.stored[p[1]])
Saved(l, s) == SavedAs(l.autoBefore, l.pins, s)

\* Sets go only when their time has passed, and the others keep who follows.
Prunes(s, r) ==
  \A c \in Names : \A t \in Times(s.stored[c]) \cup Times(r.stored[c]) :
    IF t \in Times(r.stored[c]) THEN t \in Times(s.stored[c]) /\ r.autoUpdate[Ctx(t, c)] = s.autoUpdate[Ctx(t, c)]
    ELSE t < now
NewTimes(s, r) == \A c \in Names : \A t \in Times(r.stored[c]) : t \in Times(s.stored[c]) \/ ~(t < now)
Stands(s, r) == r.stored = s.stored /\ r.autoUpdate = s.autoUpdate /\ r.autoBefore = s.autoBefore

LEMMA PruningPins ==
  ASSUME NEW s, NEW r, Prunes(s, r), NEW P, Pinned(s, P)
  PROVE  Pinned(r, P)
<1> SUFFICES ASSUME NEW p \in P
             PROVE  /\ p[1] \in Names /\ p[2] \in Nat
                    /\ IF p[2] \in Times(r.stored[p[1]]) THEN p[3] \notin r.autoUpdate[Ctx(p[2], p[1])] ELSE p[2] < now
  BY DEF Pinned
<1>1. /\ p[1] \in Names /\ p[2] \in Nat
      /\ IF p[2] \in Times(s.stored[p[1]]) THEN p[3] \notin s.autoUpdate[Ctx(p[2], p[1])] ELSE p[2] < now
  BY DEF Pinned
<1> QED BY <1>1 DEF Prunes

LEMMA SavedStays ==
  ASSUME NEW s, NEW r, NewTimes(s, r), NEW followed, NEW P, SavedAs(followed, P, s)
  PROVE  SavedAs(followed, P, r)
BY DEF SavedAs, NewTimes

LEMMA StandsPrunes ==
  ASSUME NEW s, NEW r, Stands(s, r)
  PROVE  Prunes(s, r) /\ NewTimes(s, r) /\ (Follows(s) => Follows(r))
BY DEF Stands, Prunes, NewTimes, Follows, Tracked, Distinct

LEMMA PrunesOnward ==
  ASSUME NEW s, NEW r, NEW q, Prunes(s, r), Prunes(r, q)
  PROVE  Prunes(s, q)
BY DEF Prunes

LEMMA PrunesIsOld ==
  ASSUME NEW s, NEW r, Prunes(s, r)
  PROVE  NewTimes(s, r)
BY DEF Prunes, NewTimes

LEMMA StoredIsTracked ==
  ASSUME NEW s, Tracked(s), NEW x, IsCtx(x)
  PROVE  x \in DOMAIN s.autoUpdate <=> x.time \in Times(s.stored[x.context])
<1>1. x.context \in Names /\ x = Ctx(x.time, x.context)
  BY DEF IsCtx
<1> QED BY <1>1 DEF Tracked

LEMMA ActivatingStands ==
  ASSUME NEW s, Ordered(s), Tracked(s), NEW c \in Names, NEW best, Found(s, c, best), NEW r, r = activateSet(s, c, best)
  PROVE  Stands(s, r)
<1> DEFINE known == [s EXCEPT !.autoUpdate = IF best \in DOMAIN @ THEN @ ELSE Over(@, Only(best, Keys))]
           fixed == Without(getStored(s, best), known.autoUpdate[best])
           st == setStagedImpl(known, fixed)
<1>1. r.stored = s.stored /\ r.autoBefore = s.autoBefore
  BY Activating
<1>2. CASE best = NoCtx \/ best = s.activeCtx
  <2>1. r = s
    BY <1>2 DEF activateSet
  <2> QED BY <2>1 DEF Stands
<1>3. CASE ~(best = NoCtx \/ best = s.activeCtx)
  <2>1. best \in DOMAIN s.autoUpdate
    <3>1. IsCtx(best) /\ best.context = c
      BY <1>3, FoundIsNamed
    <3>2. best.time \in Times(s.stored[c])
      BY <1>3 DEF Found
    <3> QED BY <3>1, <3>2, StoredIsTracked
  <2>2. CASE c = s.activeCtx.context
    <3>1. r = [st EXCEPT !.activeCtx = best, !.changed = TRUE]
      BY <1>3, <2>2 DEF activateSet
    <3>2. DOMAIN known = StoreFields /\ known.autoUpdate = s.autoUpdate
      BY <2>1 DEF Ordered, IsStore, StoreFields
    <3> HIDE DEF known, fixed
    <3>3. DOMAIN st = StoreFields /\ st.autoUpdate = known.autoUpdate
      BY <3>2 DEF setStagedImpl, StoreFields
    <3> HIDE DEF st
    <3>4. r.autoUpdate = st.autoUpdate
      BY <3>1, <3>3 DEF StoreFields
    <3> QED BY <1>1, <3>2, <3>3, <3>4 DEF Stands
  <2>3. CASE c # s.activeCtx.context
    <3>1. r = [s EXCEPT !.staged = Over(@, getStored(s, best)), !.before = IF s.activated THEN @ ELSE s.activeCtx,
                        !.activeCtx = best, !.activated = TRUE, !.changed = TRUE]
      BY <1>3, <2>3 DEF activateSet
    <3>2. r.autoUpdate = s.autoUpdate
      BY <3>1 DEF Ordered, IsStore, StoreFields
    <3> QED BY <1>1, <3>2 DEF Stands
  <2> QED BY <2>2, <2>3
<1> QED BY <1>2, <1>3

LEMMA ActivatingContextStands ==
  ASSUME NEW s, Ordered(s), Tracked(s), NEW c \in Names, now \in Nat, NEW r, r = activateContextImpl(s, c, now)
  PROVE  Stands(s, r)
<1> DEFINE best == findBestMatch(s, c, now)
<1>1. Found(s, c, best)
  BY Finding
<1>2. r = activateSet(s, c, best)
  BY DEF activateContextImpl
<1> HIDE DEF best
<1> QED BY <1>1, <1>2, ActivatingStands

LEMMA TaggingInStands ==
  ASSUME NEW s, NEW known, Ordered(known), Tracked(known), NEW best, IsNamed(best), NEW vals, NEW controls, NEW c,
         NEW r, r = autoUpdateIn(s, known, best, vals, controls, c)
  PROVE  Stands(known, r)
<1> DEFINE ctx == IF best = NoCtx THEN known.activeCtx ELSE best
           f == followedSet(known, ctx)
<1>1. r = stageTag(f, ctx, s.activeCtx # ctx, vals, controls, c)
  BY DEF autoUpdateIn
<1>2. IsCtx(ctx)
  BY DEF IsNamed, Ordered, IsStore
<1> HIDE DEF ctx
<1>3. IsStored(known, ctx) => ctx \in DOMAIN known.autoUpdate
  <2>1. IsStored(known, ctx) => ctx.time \in Times(known.stored[ctx.context])
    BY <1>2, IsStoredSays DEF IsCtx, Ordered
  <2> QED BY <1>2, <2>1, StoredIsTracked
<1>4. DOMAIN f = StoreFields /\ Stands(known, f)
  BY <1>3 DEF followedSet, Stands, Ordered, IsStore, StoreFields
<1> HIDE DEF f
<1>5. Stands(f, r)
  BY <1>1, <1>4 DEF stageTag, Stands, StoreFields
<1> QED BY <1>4, <1>5 DEF Stands

LEMMA TaggingStands ==
  ASSUME NEW s, Ordered(s), Tracked(s), now \in Nat, NEW vals, NEW controls, NEW c \in Names \cup {""},
         NEW r, r = autoUpdate(s, vals, controls, c)
  PROVE  Stands(s, r)
<1> DEFINE act == activateContextImpl(s, c, now)
           known == stagedByTag(s, act)
           best == findBestMatch(known, c, now)
<1>1. CASE c = ""
  <2>1. r = autoUpdateIn(s, s, NoCtx, vals, controls, c)
    BY <1>1 DEF autoUpdate
  <2>2. IsNamed(NoCtx)
    BY DEF IsNamed
  <2> QED BY <2>1, <2>2, TaggingInStands
<1>2. CASE c # ""
  <2>1. r = autoUpdateIn(s, known, best, vals, controls, c)
    BY <1>2 DEF autoUpdate
  <2>2. Ordered(act) /\ Leads(s, act) /\ Stands(s, act)
    <3> HIDE DEF act
    <3>1. Leads(s, act)
      BY <1>2, ActivatingContext DEF act
    <3>2. Stands(s, act)
      BY <1>2, ActivatingContextStands DEF act
    <3> QED BY <3>1, <3>2 DEF Leads
  <2> HIDE DEF act
  <2>3. Marks(act, known) /\ Stands(act, known)
    BY <2>2 DEF stagedByTag, Ordered, IsStore, StoreFields, SameFields, Marks, Stands
  <2> HIDE DEF known
  <2>4. Ordered(known) /\ Tracked(known)
    <3>1. Ordered(known)
      BY <2>2, <2>3, Marking DEF Leads
    <3>2. Tracked(known)
      BY <2>2, <2>3 DEF Stands, Tracked
    <3> QED BY <3>1, <3>2
  <2>5. IsNamed(best)
    <3>1. Found(known, c, best)
      BY <1>2, <2>4, Finding
    <3> HIDE DEF best
    <3> QED BY <1>2, <3>1, FoundIsNamed
  <2> HIDE DEF best
  <2>6. Stands(known, r)
    BY <2>1, <2>4, <2>5, TaggingInStands
  <2> QED BY <2>2, <2>3, <2>6 DEF Stands
<1> QED BY <1>1, <1>2

\* A set that is added, of which who follows may be known before.
Expects(s, ctx) ==
  /\ \A d \in Names : \A u \in Times(s.stored[d]) : Ctx(u, d) \in DOMAIN s.autoUpdate
  /\ \A x \in DOMAIN s.autoUpdate : x = ctx \/ (IsCtx(x) /\ x.time \in Times(s.stored[x.context]))
Adds(s, r, t, c) ==
  /\ \A x \in DOMAIN s.autoUpdate : r.autoUpdate[x] = s.autoUpdate[x]
  /\ \A d \in Names : Times(r.stored[d]) = Times(s.stored[d]) \cup (IF d = c THEN {t} ELSE {})

LEMMA AddingFollows ==
  ASSUME NEW s, Ordered(s), Distinct(s), NEW vals \in Vals, NEW t \in Nat, NEW c \in Names, t \notin Times(s.stored[c]),
         Expects(s, Ctx(t, c)), NEW r, r = addStoredParameters(s, vals, Ctx(t, c))
  PROVE  Follows(r) /\ r.autoBefore = s.autoBefore /\ Adds(s, r, t, c)
<1> DEFINE ctx == Ctx(t, c)
           new == Only(ctx, getAutoUpdate(s, c, t))
<1>1. /\ Restocks(s, r)
      /\ \A d \in Names \ {c} : r.stored[d] = s.stored[d]
      /\ Times(r.stored[c]) = Times(s.stored[c]) \cup {t}
      /\ DistinctVec(s.stored[c]) /\ t \notin Times(s.stored[c]) => DistinctVec(r.stored[c])
      /\ r.autoUpdate = Over(s.autoUpdate, new)
  BY Adding
<1>2. IsCtx(ctx) /\ ctx.context = c /\ ctx.time = t
  BY CtxIs
<1>3. DOMAIN new = {ctx}
  BY DEF Only
<1> HIDE DEF new
<1>4. /\ DOMAIN r.autoUpdate = DOMAIN s.autoUpdate \cup {ctx}
      /\ \A x \in DOMAIN s.autoUpdate : r.autoUpdate[x] = s.autoUpdate[x]
  BY <1>1, <1>3 DEF Over
<1> HIDE DEF ctx
<1>5. \A d \in Names : Times(r.stored[d]) = Times(s.stored[d]) \cup (IF d = c THEN {t} ELSE {})
  <2> SUFFICES ASSUME NEW d \in Names PROVE Times(r.stored[d]) = Times(s.stored[d]) \cup (IF d = c THEN {t} ELSE {})
    OBVIOUS
  <2>1. CASE d = c
    BY <1>1, <2>1
  <2>2. CASE d # c
    <3>1. Times(r.stored[d]) = Times(s.stored[d])
      BY <1>1, <2>2
    <3> QED BY <2>2, <3>1
  <2> QED BY <2>1, <2>2
<1>6. Distinct(r)
  BY <1>1 DEF Distinct
<1>7. Tracked(r)
  <2>1. ASSUME NEW d \in Names, NEW u \in Times(r.stored[d]) PROVE Ctx(u, d) \in DOMAIN r.autoUpdate
    <3>1. CASE u \in Times(s.stored[d])
      BY <1>4, <3>1 DEF Expects
    <3>2. CASE u \notin Times(s.stored[d])
      <4>1. d = c /\ u = t
        BY <1>5, <2>1, <3>2
      <4> QED BY <1>4, <4>1 DEF ctx
    <3> QED BY <3>1, <3>2
  <2>2. ASSUME NEW x \in DOMAIN r.autoUpdate PROVE IsCtx(x) /\ x.time \in Times(r.stored[x.context])
    <3>1. CASE x = ctx
      BY <1>1, <1>2, <3>1
    <3>2. CASE x # ctx
      <4>1. IsCtx(x) /\ x.time \in Times(s.stored[x.context])
        BY <1>4, <2>2, <3>2 DEF ctx, Expects
      <4>2. x.context \in Names
        BY <4>1 DEF IsCtx
      <4> QED BY <1>5, <4>1, <4>2
    <3> QED BY <3>1, <3>2
  <2> QED BY <2>1, <2>2 DEF Tracked
<1> QED BY <1>1, <1>4, <1>5, <1>6, <1>7 DEF Follows, Restocks, Adds

\* What a pruning cuts off one context: the sets of times before the first one kept.
LEMMA PrunedTimes ==
  ASSUME NEW v \in Seq(Sets), SortedVec(v), DistinctVec(v), now \in Nat, NEW w, w = Pruned(v),
         NEW C, C = CutTimes(v)
  PROVE  DistinctVec(w) /\ Times(w) = Times(v) \ C /\ \A t \in C : t < now
<1>1. CASE v = <<>>
  <2>1. DOMAIN v = {} /\ Len(v) = 0
    BY <1>1
  <2>2. FirstKept(v, now) = 0
    <3>1. {k \in DOMAIN v : v[k].time < now} = {}
      BY <2>1
    <3>2. Cardinality({k \in DOMAIN v : v[k].time < now}) = 0
      BY <3>1, FS_EmptySet
    <3> QED BY <2>1, <3>2 DEF FirstKept
  <2>3. C = {}
    BY <2>2 DEF CutTimes
  <2>4. w = v
    BY <1>1 DEF Pruned
  <2> QED BY <2>3, <2>4
<1>2. CASE v # <<>>
  <2> DEFINE f == FirstKept(v, now)
  <2>1. f \in 1 .. Len(v) /\ \A k \in 1 .. f - 1 : v[k].time < now
    BY <1>2, Keeping
  <2>2. w = SubSeq(v, f, Len(v))
    BY <1>2 DEF Pruned
  <2> HIDE DEF f
  <2>3. /\ Times(w) \subseteq Times(v)
        /\ \A k \in 1 .. Len(v) : k < f \/ v[k].time \in Times(w)
        /\ DistinctVec(w) /\ \A k \in 1 .. f - 1 : v[k].time \notin Times(w)
    BY <2>1, <2>2, Cutting
  <2>4. Len(v) \in Nat /\ DOMAIN v = 1 .. Len(v)
    BY SetsOf
  <2>5. C = {v[k].time : k \in 1 .. f - 1}
    BY DEF f, CutTimes
  <2>6. ASSUME NEW t \in Times(v) \ C PROVE t \in Times(w)
    <3>1. PICK k \in 1 .. Len(v) : v[k].time = t
      BY <2>4 DEF Times
    <3>2. ASSUME k < f PROVE FALSE
      <4>1. k \in 1 .. f - 1
        BY <2>1, <2>4, <3>2
      <4>2. v[k].time \in C
        BY <2>5, <4>1
      <4> QED BY <2>6, <3>1, <4>2
    <3> QED BY <2>3, <3>1, <3>2
  <2>7. C \cap Times(w) = {} /\ \A t \in C : t < now
    BY <2>1, <2>3, <2>5
  <2> QED BY <2>3, <2>6, <2>7
<1> QED BY <1>1, <1>2

LEMMA PruningFollows ==
  ASSUME NEW s, Ordered(s), Follows(s), now \in Nat, NEW r, r = removeExpiredStoredParameters(s)
  PROVE  Follows(r) /\ Prunes(s, r) /\ r.autoBefore = s.autoBefore
<1> DEFINE Cut(c) == CutTimes(s.stored[c])
           gone == UNION {CutSets(s.stored[c], c) : c \in Names}
<1>1. /\ Restocks(s, r) /\ r.stored = [c \in Names |-> Pruned(s.stored[c])]
      /\ r.autoUpdate = Without(s.autoUpdate, gone)
  BY Pruning
<1>2. ASSUME NEW c \in Names
      PROVE  DistinctVec(r.stored[c]) /\ Times(r.stored[c]) = Times(s.stored[c]) \ Cut(c) /\ \A t \in Cut(c) : t < now
  <2> DEFINE v == s.stored[c]
             w == r.stored[c]
             C == Cut(c)
  <2>1. v \in Seq(Sets) /\ SortedVec(v) /\ DistinctVec(v) /\ w = Pruned(v)
    BY <1>1 DEF Ordered, IsStore, Sorted, Follows, Distinct
  <2>2. C = CutTimes(v)
    OBVIOUS
  <2> HIDE DEF v, w, C
  <2>3. DistinctVec(w) /\ Times(w) = Times(v) \ C /\ \A t \in C : t < now
    BY <2>1, <2>2, PrunedTimes, Zenon
  <2> QED BY <2>3 DEF v, w, C
<1>3. ASSUME NEW x, IsCtx(x) PROVE x \in gone <=> x.time \in Cut(x.context)
  <2>1. x.context \in Names /\ x = Ctx(x.time, x.context)
    BY <1>3 DEF IsCtx
  <2>2. ASSUME x \in gone PROVE x.time \in Cut(x.context)
    <3>1. PICK c \in Names : x \in CutSets(s.stored[c], c)
      BY <2>2
    <3>2. PICK k \in 1 .. FirstKept(s.stored[c], now) - 1 : x = Ctx(s.stored[c][k].time, c)
      BY <3>1 DEF CutSets
    <3>3. x.context = c /\ x.time = s.stored[c][k].time
      BY <3>2, CtxIs
    <3> QED BY <3>3 DEF CutTimes
  <2>3. ASSUME x.time \in Cut(x.context) PROVE x \in gone
    <3>1. PICK k \in 1 .. FirstKept(s.stored[x.context], now) - 1 : x.time = s.stored[x.context][k].time
      BY <2>3 DEF CutTimes
    <3>2. x \in CutSets(s.stored[x.context], x.context)
      BY <2>1, <3>1 DEF CutSets
    <3> QED BY <2>1, <3>2
  <2> QED BY <2>2, <2>3
<1>4. DOMAIN r.autoUpdate = DOMAIN s.autoUpdate \ gone /\ \A x \in DOMAIN r.autoUpdate : r.autoUpdate[x] = s.autoUpdate[x]
  <2> HIDE DEF gone
  <2> QED BY <1>1 DEF Without
<1> HIDE DEF gone, Cut
<1>5. Tracked(r)
  <2>1. ASSUME NEW c \in Names, NEW t \in Times(r.stored[c]) PROVE Ctx(t, c) \in DOMAIN r.autoUpdate
    <3>1. IsCtx(Ctx(t, c)) /\ Ctx(t, c).context = c /\ Ctx(t, c).time = t
      BY CtxIs
    <3>2. Ctx(t, c) \notin gone
      BY <1>2, <1>3, <2>1, <3>1
    <3>3. Ctx(t, c) \in DOMAIN s.autoUpdate
      BY <1>2, <2>1 DEF Follows, Tracked
    <3> QED BY <1>4, <3>2, <3>3
  <2>2. ASSUME NEW x \in DOMAIN r.autoUpdate PROVE IsCtx(x) /\ x.time \in Times(r.stored[x.context])
    <3>1. IsCtx(x) /\ x.time \in Times(s.stored[x.context]) /\ x \notin gone
      BY <1>4, <2>2 DEF Follows, Tracked
    <3>2. x.context \in Names
      BY <3>1 DEF IsCtx
    <3> QED BY <1>2, <1>3, <3>1, <3>2
  <2> QED BY <2>1, <2>2 DEF Tracked
<1>6. Prunes(s, r)
  <2> SUFFICES ASSUME NEW c \in Names, NEW t \in Times(s.stored[c]) \cup Times(r.stored[c])
               PROVE  IF t \in Times(r.stored[c]) THEN t \in Times(s.stored[c]) /\ r.autoUpdate[Ctx(t, c)] = s.autoUpdate[Ctx(t, c)]
                      ELSE t < now
    BY DEF Prunes
  <2>1. CASE t \in Times(r.stored[c])
    <3>1. Ctx(t, c) \in DOMAIN r.autoUpdate
      BY <1>5, <2>1 DEF Tracked
    <3> QED BY <1>2, <1>4, <2>1, <3>1
  <2>2. CASE t \notin Times(r.stored[c])
    BY <1>2, <2>2
  <2> QED BY <2>1, <2>2
<1> QED BY <1>1, <1>2, <1>5, <1>6 DEF Follows, Distinct, Restocks

\* A set() pins its key, and the set it derives the new one from lends its pins.
Grows(P, c, t, k, best, R) ==
  \A p \in R : p \in P \/ p = <<c, t, k>> \/ \E q \in P : q[1] = best.context /\ q[2] = best.time /\ p = <<c, t, q[3]>>

LEMMA SettingFollows ==
  ASSUME NEW s, Ordered(s), Follows(s), NEW k \in Keys, NEW v \in Values, now \in Nat, NEW t \in {now, now + 1}, NEW c \in Names,
         t \notin Times(s.stored[c]), NEW r, r = setImpl(s, Only(k, v), Ctx(t, c)),
         NEW P, Pinned(s, P), NEW best, best = findBestMatch(s, c, t),
         NEW R, Grows(P, c, t, k, best, R)
  PROVE  Follows(r) /\ NewTimes(s, r) /\ r.autoBefore = s.autoBefore /\ Pinned(r, R)
<1> DEFINE ctx == Ctx(t, c)
           vals == Only(k, v)
           following == (IF ctx \in DOMAIN s.autoUpdate THEN s.autoUpdate[ctx] ELSE getAutoUpdate(s, c, t)) \ DOMAIN vals
           s1 == [s EXCEPT !.autoUpdate = Over(Only(ctx, following), @)]
           base == Over(vals, BaseOf(s, c, t))
           s2 == addStoredParameters(s1, base, ctx)
<1>1. IsCtx(ctx) /\ ctx.context = c /\ ctx.time = t /\ t \in Nat /\ ~(t < now)
  BY CtxIs
<1>2. r = removeExpiredStoredParameters(s2)
  BY <1>1 DEF setImpl, BaseOf
<1>3. Restocks(s, s1) /\ s1.stored = s.stored /\ s1.autoUpdate = Over(Only(ctx, following), s.autoUpdate)
  BY DEF Restocks, Ordered, IsStore, StoreFields, SameFields
<1>4. base \in Vals
  <2>1. DOMAIN vals = {k} /\ vals[k] = v
    BY DEF Only
  <2> HIDE DEF vals
  <2> QED BY <2>1, BasesAreVals, OverVals
<1>5. DOMAIN vals = {k}
  BY DEF Only
<1>6. ctx \notin DOMAIN s.autoUpdate
  BY <1>1, StoredIsTracked DEF Follows
<1> DEFINE Q == {p \in P : p[1] = best.context /\ p[2] = best.time}
<1>7. k \notin following /\ \A p \in Q : p[3] \notin following
  <2>1. ASSUME NEW p \in Q PROVE p[3] \notin getAutoUpdate(s, c, t)
    <3>1. /\ p \in P /\ p[1] = best.context /\ p[2] = best.time /\ p[1] \in Names
          /\ IF p[2] \in Times(s.stored[p[1]]) THEN p[3] \notin s.autoUpdate[Ctx(p[2], p[1])] ELSE p[2] < now
      BY DEF Pinned
    <3>2. best = Ctx(best.time, c) /\ best.time \in Times(s.stored[c])
      <4>1. best # NoCtx
        <5>1. NoCtx.context = ""
          BY DEF NoCtx
        <5> QED BY <3>1, <5>1, DefaultIsAName
      <4> QED BY <1>1, <4>1, Searching DEF Ordered
    <3>3. best.context = c
      BY <3>2, CtxIs
    <3>4. p[3] \notin s.autoUpdate[best]
      BY <3>1, <3>2, <3>3
    <3>5. best \in DOMAIN s.autoUpdate
      BY <3>2 DEF Follows, Tracked
    <3>6. getAutoUpdate(s, c, t) = s.autoUpdate[best]
      BY <3>5 DEF getAutoUpdate
    <3> QED BY <3>4, <3>6
  <2> QED BY <1>5, <1>6, <2>1
<1> HIDE DEF s1, base, vals, following
<1>8. Ordered(s1) /\ Distinct(s1) /\ s1.autoBefore = s.autoBefore
  <2>1. Leads(s, s1)
    BY <1>3, Following
  <2> QED BY <1>3, <2>1 DEF Leads, Follows, Distinct, Restocks
<1>9. /\ DOMAIN s1.autoUpdate = DOMAIN s.autoUpdate \cup {ctx} /\ s1.autoUpdate[ctx] = following
      /\ \A x \in DOMAIN s.autoUpdate : s1.autoUpdate[x] = s.autoUpdate[x]
  <2> HIDE DEF ctx
  <2> QED BY <1>3, <1>6 DEF Over, Only
<1>10. /\ Follows(s2) /\ s2.autoBefore = s1.autoBefore
       /\ \A x \in DOMAIN s1.autoUpdate : s2.autoUpdate[x] = s1.autoUpdate[x]
       /\ \A d \in Names : Times(s2.stored[d]) = Times(s1.stored[d]) \cup (IF d = c THEN {t} ELSE {})
  <2>1. Expects(s1, Ctx(t, c))
    BY <1>3, <1>9 DEF Follows, Tracked, Expects
  <2>2. t \notin Times(s1.stored[c])
    BY <1>3
  <2> HIDE DEF s2
  <2>3. s2 = addStoredParameters(s1, base, Ctx(t, c))
    BY DEF s2
  <2> HIDE DEF ctx
  <2>4. Follows(s2) /\ s2.autoBefore = s1.autoBefore /\ Adds(s1, s2, t, c)
    BY <1>1, <1>4, <1>8, <2>1, <2>2, <2>3, AddingFollows
  <2> QED BY <2>4 DEF Adds
<1>11. Ordered(s2)
  <2> HIDE DEF s2
  <2>1. s2 = addStoredParameters(s1, base, Ctx(t, c))
    BY DEF s2
  <2>2. Leads(s1, s2)
    BY <1>1, <1>4, <1>8, <2>1, Adding
  <2> QED BY <2>2 DEF Leads
<1> HIDE DEF s2
<1>12. Pinned(s2, R)
  <2>1. ASSUME NEW p \in P
        PROVE  /\ p[1] \in Names /\ p[2] \in Nat
               /\ IF p[2] \in Times(s2.stored[p[1]]) THEN p[3] \notin s2.autoUpdate[Ctx(p[2], p[1])] ELSE p[2] < now
    <3>1. /\ p[1] \in Names /\ p[2] \in Nat
          /\ IF p[2] \in Times(s.stored[p[1]]) THEN p[3] \notin s.autoUpdate[Ctx(p[2], p[1])] ELSE p[2] < now
      BY DEF Pinned
    <3>2. CASE p[2] \in Times(s.stored[p[1]])
      <4>1. Ctx(p[2], p[1]) \in DOMAIN s.autoUpdate
        BY <3>1, <3>2 DEF Follows, Tracked
      <4>2. s2.autoUpdate[Ctx(p[2], p[1])] = s.autoUpdate[Ctx(p[2], p[1])]
        BY <1>9, <1>10, <4>1
      <4>3. p[2] \in Times(s2.stored[p[1]])
        BY <1>3, <1>10, <3>1, <3>2
      <4> QED BY <3>1, <3>2, <4>2, <4>3
    <3>3. CASE p[2] \notin Times(s.stored[p[1]])
      <4>1. p[2] < now
        BY <3>1, <3>3
      <4>2. p[2] # t
        BY <1>1, <4>1
      <4>3. p[2] \notin Times(s2.stored[p[1]])
        BY <1>3, <1>10, <3>1, <3>3, <4>2
      <4> QED BY <3>1, <4>1, <4>3
    <3> QED BY <3>2, <3>3
  <2>2. t \in Times(s2.stored[c]) /\ s2.autoUpdate[Ctx(t, c)] = following
    BY <1>9, <1>10
  <2>3. ASSUME NEW y, y = k \/ \E p \in Q : y = p[3]
        PROVE  LET p == <<c, t, y>> IN
               /\ p[1] \in Names /\ p[2] \in Nat
               /\ IF p[2] \in Times(s2.stored[p[1]]) THEN p[3] \notin s2.autoUpdate[Ctx(p[2], p[1])] ELSE p[2] < now
    BY <1>1, <1>7, <2>2, <2>3
  <2>4. ASSUME NEW p \in R PROVE p \in P \/ \E y : (y = k \/ \E q \in Q : y = q[3]) /\ p = <<c, t, y>>
    BY DEF Grows
  <2> QED BY <2>1, <2>3, <2>4 DEF Pinned
<1>13. Follows(r) /\ Prunes(s2, r) /\ r.autoBefore = s2.autoBefore
  BY <1>2, <1>10, <1>11, PruningFollows
<1>14. NewTimes(s, r)
  BY <1>1, <1>3, <1>10, <1>13 DEF NewTimes, Prunes
<1> QED BY <1>8, <1>10, <1>12, <1>13, <1>14, PruningPins

\* A reset keeps what followed before for a refusal.
LEMMA DefaultsFollow ==
  ASSUME NEW s, Ordered(s), Follows(s), now \in Nat, now \notin Times(s.stored[Default]), NEW r, r = stageDefaultsImpl(s),
         NEW P, Pinned(s, P)
  PROVE  Follows(r) /\ NewTimes(s, r) /\ r.autoBefore # <<>> /\ SavedAs(r.autoBefore, P, r)
<1> DEFINE s1 == addStoredParameters(s, s.defaults, Ctx(now, Default))
           s2 == activateContextImpl(s1, Default, now)
<1>0. s.defaults \in Vals /\ Default \in Names /\ ~(now < now)
  <2>1. s.defaults \in Vals /\ Default \in Names
    BY DefaultIsAName DEF Ordered, IsStore
  <2> QED BY <2>1
<1>1. r = followAll(s2)
  BY DEF stageDefaultsImpl
<1>2. Ordered(s1)
  <2> HIDE DEF s1
  <2>1. Leads(s, s1)
    BY <1>0, Adding DEF s1
  <2> QED BY <2>1 DEF Leads
<1>3. /\ Follows(s1) /\ s1.autoBefore = s.autoBefore
      /\ \A x \in DOMAIN s.autoUpdate : s1.autoUpdate[x] = s.autoUpdate[x]
      /\ \A d \in Names : Times(s1.stored[d]) = Times(s.stored[d]) \cup (IF d = Default THEN {now} ELSE {})
  <2>1. Expects(s, Ctx(now, Default)) /\ Distinct(s)
    BY DEF Follows, Tracked, Expects
  <2> HIDE DEF s1
  <2>2. s1 = addStoredParameters(s, s.defaults, Ctx(now, Default))
    BY DEF s1
  <2>3. Follows(s1) /\ s1.autoBefore = s.autoBefore /\ Adds(s, s1, now, Default)
    BY <1>0, <2>1, <2>2, AddingFollows
  <2> QED BY <2>3 DEF Adds
<1> HIDE DEF s1
<1>4. Stands(s1, s2) /\ Ordered(s2)
  <2> HIDE DEF s2
  <2>1. s2 = activateContextImpl(s1, Default, now)
    BY DEF s2
  <2>2. Stands(s1, s2)
    BY <1>0, <1>2, <1>3, <2>1, ActivatingContextStands DEF Follows
  <2>3. Leads(s1, s2)
    BY <1>0, <1>2, <2>1, ActivatingContext
  <2> QED BY <2>2, <2>3 DEF Leads
<1> HIDE DEF s2
<1>5. /\ r.stored = s2.stored /\ r.autoBefore = <<s2.autoUpdate>>
      /\ r.autoUpdate = [c \in DOMAIN s2.autoUpdate \cup {Ctx(now, Default)} |-> Keys]
  BY <1>1, <1>4 DEF followAll, Ordered, IsStore, StoreFields
<1>6. DOMAIN r.autoUpdate = DOMAIN s2.autoUpdate
  <2>1. now \in Times(s2.stored[Default])
    BY <1>0, <1>3, <1>4 DEF Stands
  <2>2. Ctx(now, Default) \in DOMAIN s2.autoUpdate
    BY <1>0, <1>3, <1>4, <2>1 DEF Stands, Follows, Tracked
  <2> QED BY <1>5, <2>2
<1>7. Follows(r)
  BY <1>3, <1>4, <1>5, <1>6 DEF Follows, Tracked, Distinct, Stands
<1>8. NewTimes(s, r)
  BY <1>0, <1>3, <1>4, <1>5 DEF NewTimes, Stands
<1>9. SavedAs(r.autoBefore, P, r)
  <2>1. r.autoBefore[1] = s1.autoUpdate /\ r.stored = s1.stored
    BY <1>4, <1>5 DEF Stands
  <2> SUFFICES ASSUME NEW p \in P
               PROVE  /\ p[1] \in Names /\ p[2] \in Nat
                      /\ IF Ctx(p[2], p[1]) \in DOMAIN s1.autoUpdate THEN p[3] \notin s1.autoUpdate[Ctx(p[2], p[1])]
                         ELSE p[2] < now /\ p[2] \notin Times(s1.stored[p[1]])
    BY <2>1 DEF SavedAs
  <2>2. /\ p[1] \in Names /\ p[2] \in Nat
        /\ IF p[2] \in Times(s.stored[p[1]]) THEN p[3] \notin s.autoUpdate[Ctx(p[2], p[1])] ELSE p[2] < now
    BY DEF Pinned
  <2>3. CASE p[2] \in Times(s.stored[p[1]])
    <3>1. Ctx(p[2], p[1]) \in DOMAIN s.autoUpdate
      BY <2>2, <2>3 DEF Follows, Tracked
    <3>2. p[2] \in Times(s1.stored[p[1]])
      BY <1>3, <2>2, <2>3
    <3>3. Ctx(p[2], p[1]) \in DOMAIN s1.autoUpdate
      BY <1>3, <2>2, <3>2 DEF Follows, Tracked
    <3>4. s1.autoUpdate[Ctx(p[2], p[1])] = s.autoUpdate[Ctx(p[2], p[1])]
      BY <1>3, <3>1
    <3> QED BY <2>2, <2>3, <3>3, <3>4
  <2>4. CASE p[2] \notin Times(s.stored[p[1]])
    <3>1. p[2] < now
      BY <2>2, <2>4
    <3>2. p[2] \notin Times(s1.stored[p[1]])
      BY <1>0, <1>3, <2>2, <2>4, <3>1
    <3>3. IsCtx(Ctx(p[2], p[1])) /\ Ctx(p[2], p[1]).context = p[1] /\ Ctx(p[2], p[1]).time = p[2]
      BY <2>2, CtxIs
    <3>4. Ctx(p[2], p[1]) \notin DOMAIN s1.autoUpdate
      BY <1>3, <3>2, <3>3, StoredIsTracked DEF Follows
    <3> QED BY <2>2, <3>1, <3>2, <3>4
  <2> QED BY <2>3, <2>4
<1>10. r.autoBefore # <<>>
  BY <1>5
<1> QED BY <1>7, <1>8, <1>9, <1>10

LEMMA LeavingStands ==
  ASSUME NEW s, Ordered(s), Tracked(s), now \in Nat, NEW ctx, NEW r, r = leaveContext(s, ctx)
  PROVE  Stands(s, r)
<1> DEFINE m == [s EXCEPT !.before = IF @ = ctx THEN findBestMatch(s, Default, now) ELSE @]
           a == activateContextImpl(m, Default, now)
<1>1. /\ DOMAIN m = StoreFields /\ SameFields(s, m) /\ Stands(s, m) /\ m.activeCtx = s.activeCtx
      /\ m.before \in {s.before, findBestMatch(s, Default, now)} /\ m.staged = s.staged /\ m.changed = s.changed
      /\ m.activated = s.activated
  BY DEF Ordered, IsStore, StoreFields, SameFields, Stands
<1>2. IsNamed(m.before)
  <2>1. Found(s, Default, findBestMatch(s, Default, now))
    BY Finding, DefaultIsAName
  <2>2. IsNamed(findBestMatch(s, Default, now))
    BY <2>1, DefaultIsAName, FoundIsNamed
  <2> QED BY <1>1, <2>2 DEF Ordered, IsStore
<1> HIDE DEF m
<1>3. Ordered(m) /\ Tracked(m)
  <2>1. Ordered(m)
    BY <1>1, <1>2, Alike DEF Ordered, IsStore, SameFields, Stands
  <2> QED BY <1>1, <2>1 DEF Stands, Tracked
<1>4. DOMAIN a = StoreFields /\ Stands(m, a)
  <2> HIDE DEF a
  <2>1. a = activateContextImpl(m, Default, now)
    BY DEF a
  <2>2. Leads(m, a) /\ Stands(m, a)
    BY <1>3, <2>1, DefaultIsAName, ActivatingContext, ActivatingContextStands
  <2> QED BY <2>2 DEF Leads, Ordered, IsStore
<1> HIDE DEF a
<1>5. r = IF s.activeCtx.context = ctx.context THEN [a EXCEPT !.before = NoCtx] ELSE m
  BY DEF leaveContext, m, a
<1> QED BY <1>1, <1>4, <1>5 DEF Stands, StoreFields

\* The keys pinned in the set that is removed are pinned no more.
Drops(P, ctx, R) == \A p \in R : p \in P /\ ~(p[1] = ctx.context /\ p[2] = ctx.time)

LEMMA RemovingFollows ==
  ASSUME NEW s, Ordered(s), ActiveStored(s), Follows(s), now \in Nat, NEW ctx, IsCtx(ctx), ctx.context # Default,
         IsStored(s, ctx), NEW r, r = removeContextImpl(s, ctx),
         NEW P, Pinned(s, P), NEW R, Drops(P, ctx, R)
  PROVE  Follows(r) /\ NewTimes(s, r) /\ r.autoBefore = s.autoBefore /\ Pinned(r, R)
<1> DEFINE v == s.stored[ctx.context]
           First(k) == v[k].time = ctx.time /\ \A j \in 1 .. k - 1 : v[j].time # ctx.time
           at == CHOOSE k \in DOMAIN v : First(k)
           gone == [s EXCEPT !.stored[ctx.context] = RemoveAt(@, at), !.autoUpdate = Without(@, {ctx})]
<1>0. ctx.context \in Names /\ ctx = Ctx(ctx.time, ctx.context)
  BY DEF IsCtx
<1>1. v \in Seq(Sets) /\ SortedVec(v) /\ DistinctVec(v)
  BY <1>0 DEF Ordered, IsStore, Sorted, Follows, Distinct
<1>2. at \in DOMAIN v /\ v[at].time = ctx.time
  <2>1. ctx.time \in Times(v)
    BY <1>0, IsStoredSays DEF Ordered
  <2>2. \E k \in DOMAIN v : First(k)
    <3> HIDE DEF v
    <3> QED BY <1>1, <2>1, FirstSet
  <2>3. at \in DOMAIN v /\ First(at)
    <3> HIDE DEF First
    <3> QED BY <2>2
  <2> QED BY <2>3, ZenonT(30)
<1>3. r = leaveContext(gone, ctx)
  BY DEF removeContextImpl
<1> HIDE DEF at
<1>4. /\ gone.stored = [s.stored EXCEPT ![ctx.context] = RemoveAt(v, at)] /\ gone.autoUpdate = Without(s.autoUpdate, {ctx})
      /\ Restocks(s, gone)
  BY DEF Ordered, IsStore, StoreFields, SameFields, Restocks
<1> DEFINE w == RemoveAt(v, at)
<1> HIDE DEF gone
<1>5. w \in Seq(Sets) /\ SortedVec(w) /\ DistinctVec(w) /\ Times(w) = Times(v) \ {ctx.time}
  <2> HIDE DEF v, w
  <2>1. w = RemoveAt(v, at)
    BY DEF w
  <2> QED BY <1>1, <1>2, <2>1, Removing
<1> HIDE DEF w
<1>6. /\ gone.stored \in [Names -> Seq(Sets)] /\ gone.stored[ctx.context] = w
      /\ \A c \in Names \ {ctx.context} : gone.stored[c] = s.stored[c]
  BY <1>0, <1>4, <1>5 DEF Ordered, IsStore, w
<1>7. Ordered(gone)
  <2>1. IsStore(gone)
    BY <1>4, <1>6 DEF Restocks, SameFields, Ordered, IsStore
  <2>2. Sorted(gone)
    BY <1>5, <1>6 DEF Ordered, Sorted
  <2>3. IsPresent(gone, Default)
    BY <1>6, DefaultIsAName DEF IsPresent, Ordered
  <2> QED BY <2>1, <2>2, <2>3 DEF Ordered
<1>8. \A c \in Names : Times(gone.stored[c]) = Times(s.stored[c]) \ (IF c = ctx.context THEN {ctx.time} ELSE {})
  <2> SUFFICES ASSUME NEW c \in Names
               PROVE  Times(gone.stored[c]) = Times(s.stored[c]) \ (IF c = ctx.context THEN {ctx.time} ELSE {})
    OBVIOUS
  <2>1. CASE c = ctx.context
    BY <1>5, <1>6, <2>1
  <2>2. CASE c # ctx.context
    <3>1. gone.stored[c] = s.stored[c]
      BY <1>6, <2>2
    <3> QED BY <2>2, <3>1
  <2> QED BY <2>1, <2>2
<1>9. DOMAIN gone.autoUpdate = DOMAIN s.autoUpdate \ {ctx} /\ \A x \in DOMAIN s.autoUpdate \ {ctx} : gone.autoUpdate[x] = s.autoUpdate[x]
  BY <1>4 DEF Without
<1>10. Tracked(gone)
  <2>1. ASSUME NEW c \in Names, NEW t \in Times(gone.stored[c]) PROVE Ctx(t, c) \in DOMAIN gone.autoUpdate
    <3>1. Ctx(t, c) \in DOMAIN s.autoUpdate
      BY <1>8, <2>1 DEF Follows, Tracked
    <3>2. Ctx(t, c).context = c /\ Ctx(t, c).time = t
      BY CtxIs
    <3>3. Ctx(t, c) # ctx
      BY <1>8, <2>1, <3>2
    <3> QED BY <1>9, <3>1, <3>3
  <2>2. ASSUME NEW x \in DOMAIN gone.autoUpdate PROVE IsCtx(x) /\ x.time \in Times(gone.stored[x.context])
    <3>1. IsCtx(x) /\ x.time \in Times(s.stored[x.context]) /\ x # ctx
      BY <1>9, <2>2 DEF Follows, Tracked
    <3>2. x.context \in Names /\ x = Ctx(x.time, x.context)
      BY <3>1 DEF IsCtx
    <3>3. ~(x.context = ctx.context /\ x.time = ctx.time)
      BY <1>0, <3>1, <3>2
    <3> QED BY <1>8, <3>1, <3>2, <3>3
  <2> QED BY <2>1, <2>2 DEF Tracked
<1>11. Follows(gone)
  BY <1>5, <1>6, <1>10 DEF Follows, Distinct
<1>12. Stands(gone, r)
  <2> HIDE DEF v, First
  <2> QED BY <1>3, <1>7, <1>10, LeavingStands
<1>13. Pinned(gone, R)
  <2> SUFFICES ASSUME NEW p \in R
               PROVE  /\ p[1] \in Names /\ p[2] \in Nat
                      /\ IF p[2] \in Times(gone.stored[p[1]]) THEN p[3] \notin gone.autoUpdate[Ctx(p[2], p[1])] ELSE p[2] < now
    BY DEF Pinned
  <2>1. /\ p[1] \in Names /\ p[2] \in Nat
        /\ IF p[2] \in Times(s.stored[p[1]]) THEN p[3] \notin s.autoUpdate[Ctx(p[2], p[1])] ELSE p[2] < now
    BY DEF Pinned, Drops
  <2>2. ~(p[1] = ctx.context /\ p[2] = ctx.time)
    BY DEF Drops
  <2>3. p[2] \in Times(gone.stored[p[1]]) <=> p[2] \in Times(s.stored[p[1]])
    BY <1>8, <2>1, <2>2
  <2>4. p[2] \in Times(s.stored[p[1]]) => gone.autoUpdate[Ctx(p[2], p[1])] = s.autoUpdate[Ctx(p[2], p[1])]
    <3>1. Ctx(p[2], p[1]).context = p[1] /\ Ctx(p[2], p[1]).time = p[2]
      BY <2>1, CtxIs
    <3>2. p[2] \in Times(s.stored[p[1]]) => Ctx(p[2], p[1]) \in DOMAIN s.autoUpdate
      BY <2>1 DEF Follows, Tracked
    <3> QED BY <1>9, <2>2, <3>1, <3>2
  <2> QED BY <2>1, <2>3, <2>4
<1>14. r.autoBefore = s.autoBefore
  BY <1>4, <1>12 DEF Stands, Restocks
<1>15. NewTimes(s, r)
  BY <1>8, <1>12 DEF Stands, NewTimes
<1> QED BY <1>11, <1>12, <1>13, <1>14, <1>15, StandsPrunes, PruningPins

\* What an apply takes: the sets as they are, unless it resets.
LEMMA BatchingStands ==
  ASSUME NEW s, NEW held, Ordered(held), NEW staged, NEW resets, NEW b, b = ApplyBatch(s, held, staged, resets)
  PROVE  Stands(held, b.store)
<1>1. \E m : b.store = [held EXCEPT !.member = m, !.active = m]
  BY ZenonT(30) DEF ApplyBatch
<1> QED BY <1>1 DEF Stands, Ordered, IsStore, StoreFields

\* An apply that resets nothing, or whose defaults are refused, and one that resets.
Resets(s) == "reset" \in DOMAIN s.staged /\ refusedDefaults(TakeStaged(s)) = {}

LEMMA TakingSets ==
  ASSUME NEW s, Ordered(s), NEW r, r = TakeStaged(s)
  PROVE  r.stored = s.stored /\ r.autoUpdate = s.autoUpdate /\ r.autoBefore = <<>>
BY DEF TakeStaged, Ordered, IsStore, StoreFields

LEMMA PlainBegins ==
  ASSUME NEW s, Ordered(s), ~Resets(s), NEW b, b = BeginApply(s)
  PROVE  /\ b.store.stored = s.stored /\ b.store.autoUpdate = s.autoUpdate /\ b.store.autoBefore = <<>>
         /\ b.local.autoBefore = s.autoBefore
<1> SUFFICES ASSUME NEW taken, taken = TakeStaged(s)
             PROVE  /\ b.store.stored = s.stored /\ b.store.autoUpdate = s.autoUpdate /\ b.store.autoBefore = <<>>
                    /\ b.local.autoBefore = s.autoBefore
  OBVIOUS
<1>1. b = ApplyBatch(s, taken, s, FALSE)
  BY DEF BeginApply, Resets
<1>2. Ordered(taken)
  BY Taking
<1>3. taken.stored = s.stored /\ taken.autoUpdate = s.autoUpdate /\ taken.autoBefore = <<>>
  BY TakingSets
<1>4. Stands(taken, b.store)
  BY <1>1, <1>2, BatchingStands
<1>5. b.local.autoBefore = s.autoBefore
  BY <1>1 DEF ApplyBatch
<1> QED BY <1>3, <1>4, <1>5 DEF Stands

LEMMA ResetBegins ==
  ASSUME NEW s, Ordered(s), Resets(s), Follows(s), now \in Nat, now \notin Times(s.stored[Default]), NEW P, Pinned(s, P),
         NEW b, b = BeginApply(s)
  PROVE  /\ Follows(b.store) /\ NewTimes(s, b.store) /\ b.store.autoBefore = <<>>
         /\ b.local.autoBefore # <<>> /\ SavedAs(b.local.autoBefore, P, b.store)
<1> DEFINE taken == TakeStaged(s)
           staged == stageDefaultsImpl(taken)
           left == TakeStaged(staged)
           held == removeExpiredStoredParameters(left)
<1>1. b = ApplyBatch(s, held, staged, TRUE)
  BY DEF BeginApply, ApplyReset, Resets
<1>2. /\ Ordered(taken) /\ Follows(taken) /\ Pinned(taken, P) /\ taken.stored = s.stored
  <2> HIDE DEF taken
  <2>1. Ordered(taken)
    BY Taking DEF taken
  <2>2. taken.stored = s.stored /\ taken.autoUpdate = s.autoUpdate
    BY TakingSets DEF taken
  <2> QED BY <2>1, <2>2 DEF Follows, Tracked, Distinct, Pinned
<1> HIDE DEF taken
<1>3. Ordered(staged) /\ Follows(staged) /\ NewTimes(taken, staged) /\ staged.autoBefore # <<>> /\ SavedAs(staged.autoBefore, P, staged)
  <2> HIDE DEF staged
  <2>1. staged = stageDefaultsImpl(taken) /\ now \notin Times(taken.stored[Default])
    BY <1>2 DEF staged
  <2>2. Ordered(staged)
    BY <1>2, <2>1, StagingDefaults DEF Leads
  <2> QED BY <1>2, <2>1, <2>2, DefaultsFollow
<1> HIDE DEF staged
<1>4. Ordered(left) /\ Follows(left) /\ left.stored = staged.stored /\ left.autoBefore = <<>>
  <2> HIDE DEF left
  <2>1. Ordered(left)
    BY <1>3, Taking DEF left
  <2>2. left.stored = staged.stored /\ left.autoUpdate = staged.autoUpdate /\ left.autoBefore = <<>>
    BY <1>3, TakingSets DEF left
  <2> QED BY <1>3, <2>1, <2>2 DEF Follows, Tracked, Distinct
<1> HIDE DEF left
<1>5. Ordered(held) /\ Follows(held) /\ Prunes(left, held) /\ held.autoBefore = <<>>
  <2> HIDE DEF held
  <2>1. held = removeExpiredStoredParameters(left)
    BY DEF held
  <2>2. Leads(left, held)
    BY <1>4, <2>1, Pruning
  <2>3. Follows(held) /\ Prunes(left, held) /\ held.autoBefore = left.autoBefore
    BY <1>4, <2>1, PruningFollows
  <2> QED BY <1>4, <2>2, <2>3 DEF Leads
<1> HIDE DEF held
<1>6. Stands(held, b.store) /\ b.local.autoBefore = staged.autoBefore
  <2>1. Stands(held, b.store)
    BY <1>1, <1>5, BatchingStands
  <2>2. b.local.autoBefore = staged.autoBefore
    BY <1>1 DEF ApplyBatch
  <2> QED BY <2>1, <2>2
<1>7. Follows(b.store)
  BY <1>5, <1>6, StandsPrunes
<1>8. NewTimes(staged, b.store)
  BY <1>4, <1>5, <1>6 DEF NewTimes, Prunes, Stands
<1>9. NewTimes(s, b.store)
  BY <1>2, <1>3, <1>8 DEF NewTimes
<1> QED BY <1>3, <1>5, <1>6, <1>7, <1>8, <1>9, SavedStays DEF Stands
LEMMA RetimesPrunes ==
  ASSUME NEW s, NEW r, Retimes(s, r)
  PROVE  Prunes(s, r) /\ NewTimes(s, r) /\ (Follows(s) => Follows(r))
<1>1. Prunes(s, r) /\ NewTimes(s, r)
  BY DEF Retimes, Prunes, NewTimes
<1>2. ASSUME Follows(s) PROVE Follows(r)
  <2>1. Distinct(r)
    BY <1>2 DEF Retimes, Follows, Distinct
  <2>2. ASSUME NEW x \in DOMAIN r.autoUpdate PROVE IsCtx(x) /\ x.time \in Times(r.stored[x.context])
    BY <1>2, <2>2 DEF Retimes, Follows, Tracked, IsCtx
  <2>3. \A c \in Names : \A t \in Times(r.stored[c]) : Ctx(t, c) \in DOMAIN r.autoUpdate
    BY <1>2 DEF Retimes, Follows, Tracked
  <2> QED BY <2>1, <2>2, <2>3 DEF Follows, Tracked
<1> QED BY <1>1, <1>2

LEMMA StagingStands ==
  ASSUME NEW s, Ordered(s), NEW vals, IsBatch(vals), NEW r, r = setStagedImpl(s, vals)
  PROVE  Stands(s, r)
BY Staging DEF Stands

LEMMA EndingStands ==
  ASSUME NEW s, Ordered(s), NEW a, NEW r, r = EndApply(s, a)
  PROVE  Stands(s, r)
BY DEF EndApply, Stands, Ordered, IsStore, StoreFields

\* What the pruning after an apply of resetDefaults() leaves of the sets that follow.
LEMMA AfterApplyFollows ==
  ASSUME NEW s, Ordered(s), Follows(s), now \in Nat, NEW P, Pinned(s, P), NEW resets, NEW r, r = AfterApply(s, resets)
  PROVE  Follows(r) /\ NewTimes(s, r) /\ r.autoBefore = s.autoBefore /\ Pinned(r, P)
<1>1. CASE resets
  <2>1. r = removeExpiredStoredParameters(s)
    BY <1>1 DEF AfterApply
  <2>2. Follows(r) /\ Prunes(s, r) /\ r.autoBefore = s.autoBefore
    BY <2>1, PruningFollows
  <2>3. NewTimes(s, r)
    BY <2>2 DEF Prunes, NewTimes
  <2>4. Pinned(r, P)
    BY <2>2, PruningPins
  <2> QED BY <2>2, <2>3, <2>4
<1>2. CASE ~resets
  BY <1>2 DEF AfterApply, NewTimes
<1> QED BY <1>1, <1>2

LEMMA ReportingStands ==
  ASSUME NEW s, Ordered(s), NEW a, NEW r, r = reportRefused(s, a)
  PROVE  Stands(s, r)
BY DEF reportRefused, Stands, Ordered, IsStore, StoreFields

LEMMA RestoringContextStands ==
  ASSUME NEW s, Ordered(s), NEW a, NEW r, r = restoreContext(s, a)
  PROVE  Stands(s, r)
BY DEF restoreContext, restoreContextImpl, Stands, Ordered, IsStore, StoreFields

\* A key coupled anew is pinned no more, whatever else is.
LEMMA CouplingFollows ==
  ASSUME NEW s, Ordered(s), Follows(s), NEW k, NEW on \in BOOLEAN, NEW r, r = setTagCouplings(s, k, on),
         NEW P, Pinned(s, P), NEW Q, Q = IF on THEN {p \in P : p[3] # k} ELSE P
  PROVE  Follows(r) /\ NewTimes(s, r) /\ r.autoBefore = s.autoBefore /\ Pinned(r, Q)
<1>1. /\ r.stored = s.stored /\ r.autoBefore = s.autoBefore
      /\ r.autoUpdate = IF on THEN [c \in DOMAIN s.autoUpdate |-> s.autoUpdate[c] \cup {k}] ELSE s.autoUpdate
  BY DEF setTagCouplings, Ordered, IsStore, StoreFields
<1>2. DOMAIN r.autoUpdate = DOMAIN s.autoUpdate
  BY <1>1
<1>3. Follows(r) /\ NewTimes(s, r)
  BY <1>1, <1>2 DEF Follows, Tracked, Distinct, NewTimes
<1>4. Pinned(r, Q)
  <2> SUFFICES ASSUME NEW p \in Q
               PROVE  /\ p[1] \in Names /\ p[2] \in Nat
                      /\ IF p[2] \in Times(r.stored[p[1]]) THEN p[3] \notin r.autoUpdate[Ctx(p[2], p[1])] ELSE p[2] < now
    BY DEF Pinned
  <2>1. p \in P /\ (on => p[3] # k)
    OBVIOUS
  <2>2. /\ p[1] \in Names /\ p[2] \in Nat
        /\ IF p[2] \in Times(s.stored[p[1]]) THEN p[3] \notin s.autoUpdate[Ctx(p[2], p[1])] ELSE p[2] < now
    BY <2>1 DEF Pinned
  <2>3. p[2] \in Times(s.stored[p[1]]) => Ctx(p[2], p[1]) \in DOMAIN s.autoUpdate
    BY <2>2 DEF Follows, Tracked
  <2> QED BY <1>1, <2>1, <2>2, <2>3
<1> QED BY <1>1, <1>3, <1>4

\* What followed before a refused reset follows again; the pins that come back are
\* those of the sets that are still stored.
LEMMA FollowingAgain ==
  ASSUME NEW s, Ordered(s), Follows(s), NEW a, Saved(a, s), NEW r, r = restoreFollowing(s, a),
         NEW P, Pinned(s, P), NEW Q,
         \A p \in Q : IF a.autoBefore = <<>> THEN p \in P
                      ELSE \/ p \in P /\ Ctx(p[2], p[1]) \notin DOMAIN a.autoBefore[1]
                           \/ p \in a.pins /\ p[2] \in Times(s.stored[p[1]])
  PROVE  Follows(r) /\ NewTimes(s, r) /\ r.autoBefore = s.autoBefore /\ Pinned(r, Q) /\ r.stored = s.stored
<1>1. CASE a.autoBefore = <<>>
  <2>1. r = s
    BY <1>1 DEF restoreFollowing
  <2>2. Pinned(s, Q) /\ NewTimes(s, s)
    BY <1>1 DEF Pinned, NewTimes
  <2> QED BY <2>1, <2>2
<1>2. CASE a.autoBefore # <<>>
  <2> DEFINE f == a.autoBefore[1]
  <2>1. /\ r.stored = s.stored /\ r.autoBefore = s.autoBefore
        /\ r.autoUpdate = [c \in DOMAIN s.autoUpdate |-> IF c \in DOMAIN f THEN f[c] ELSE s.autoUpdate[c]]
    BY <1>2 DEF restoreFollowing, Ordered, IsStore, StoreFields
  <2>2. DOMAIN r.autoUpdate = DOMAIN s.autoUpdate
    BY <2>1
  <2>3. Follows(r) /\ NewTimes(s, r)
    BY <2>1, <2>2 DEF Follows, Tracked, Distinct, NewTimes
  <2>4. Pinned(r, Q)
    <3> SUFFICES ASSUME NEW p \in Q
                 PROVE  /\ p[1] \in Names /\ p[2] \in Nat
                        /\ IF p[2] \in Times(r.stored[p[1]]) THEN p[3] \notin r.autoUpdate[Ctx(p[2], p[1])] ELSE p[2] < now
      BY DEF Pinned
    <3> DEFINE x == Ctx(p[2], p[1])
    <3>1. p[1] \in Names /\ p[2] \in Times(s.stored[p[1]]) => x \in DOMAIN s.autoUpdate
      BY DEF Follows, Tracked
    <3> HIDE DEF x
    <3>2. CASE p \in P /\ x \notin DOMAIN f
      <4>1. /\ p[1] \in Names /\ p[2] \in Nat
            /\ IF p[2] \in Times(s.stored[p[1]]) THEN p[3] \notin s.autoUpdate[x] ELSE p[2] < now
        BY <3>2 DEF Pinned, x
      <4> QED BY <2>1, <3>1, <3>2, <4>1 DEF x
    <3>3. CASE p \in a.pins /\ p[2] \in Times(s.stored[p[1]])
      <4>1. /\ p[1] \in Names /\ p[2] \in Nat
            /\ IF x \in DOMAIN f THEN p[3] \notin f[x] ELSE p[2] < now /\ p[2] \notin Times(s.stored[p[1]])
        BY <1>2, <3>3 DEF Saved, SavedAs, x
      <4>2. x \in DOMAIN s.autoUpdate /\ x \in DOMAIN f /\ p[3] \notin f[x]
        BY <3>1, <3>3, <4>1
      <4>3. r.autoUpdate[x] = f[x]
        BY <2>1, <4>2
      <4> QED BY <2>1, <3>3, <4>1, <4>2, <4>3 DEF x
    <3> QED BY <1>2, <3>2, <3>3 DEF x
  <2> QED BY <2>1, <2>3, <2>4
<1> QED BY <1>1, <1>2

\* The pins after a refusal.
Returns(s, a, P, Q) ==
  \A p \in Q : IF a.autoBefore = <<>> THEN p \in P
               ELSE \/ p \in P /\ Ctx(p[2], p[1]) \notin DOMAIN a.autoBefore[1]
                    \/ p \in a.pins /\ IsStored(s, Ctx(p[2], p[1]))

LEMMA RefusingFollows ==
  ASSUME NEW s, Good(s), Follows(s), now \in Nat, NEW a, IsApply(a), Saved(a, s), NEW r, r = RefuseApply(s, a),
         NEW P, Pinned(s, P), NEW Q,
         Returns(s, a, P, Q)
  PROVE  Follows(r) /\ NewTimes(s, r) /\ r.autoBefore = s.autoBefore /\ Pinned(r, Q)
<1> DEFINE s1 == restoreRefusedImpl(s, a)
           s2 == restoreContext(s1, a)
           s3 == restoreFollowing(s2, a)
<1>0. r = reportRefused(s3, a)
  BY DEF RefuseApply
<1>1. Ordered(s1) /\ ActiveStored(s1) /\ Retimes(s, s1)
  BY RestoringRefused
<1> HIDE DEF s1
<1>2. Ordered(s2) /\ Stands(s1, s2)
  <2> HIDE DEF s2
  <2>1. s2 = restoreContext(s1, a)
    BY DEF s2
  <2>2. Leads(s1, s2)
    BY <1>1, <2>1, RestoringContext
  <2> QED BY <1>1, <2>1, <2>2, RestoringContextStands DEF Leads
<1> HIDE DEF s2
<1>3. Retimes(s, s2)
  BY <1>1, <1>2 DEF Retimes, Stands
<1>4. Follows(s2) /\ NewTimes(s, s2) /\ Prunes(s, s2)
  BY <1>3, RetimesPrunes
<1>5. Pinned(s2, P) /\ Saved(a, s2)
  BY <1>4, PruningPins, SavedStays DEF Saved
<1>6. ASSUME NEW p \in Q
      PROVE  IF a.autoBefore = <<>> THEN p \in P
             ELSE \/ p \in P /\ Ctx(p[2], p[1]) \notin DOMAIN a.autoBefore[1]
                  \/ p \in a.pins /\ p[2] \in Times(s2.stored[p[1]])
  <2>1. IsStored(s, Ctx(p[2], p[1])) => p[2] \in Times(s2.stored[p[1]])
    <3> SUFFICES ASSUME IsStored(s, Ctx(p[2], p[1])) PROVE p[2] \in Times(s2.stored[p[1]])
      OBVIOUS
    <3>1. p[1] \in Names /\ Ctx(p[2], p[1]).context = p[1] /\ Ctx(p[2], p[1]).time = p[2]
      BY DEF IsStored, Ctx
    <3>2. p[2] \in Times(s.stored[p[1]])
      BY <3>1, IsStoredSays DEF Good, Ordered
    <3> QED BY <1>3, <3>1, <3>2 DEF Retimes
  <2> QED BY <2>1 DEF Returns
<1>7. Follows(s3) /\ NewTimes(s2, s3) /\ s3.autoBefore = s2.autoBefore /\ Pinned(s3, Q) /\ Ordered(s3)
  <2> HIDE DEF s3
  <2>1. s3 = restoreFollowing(s2, a)
    BY DEF s3
  <2>2. Follows(s3) /\ NewTimes(s2, s3) /\ s3.autoBefore = s2.autoBefore /\ Pinned(s3, Q)
    BY <1>2, <1>4, <1>5, <1>6, <2>1, FollowingAgain
  <2>3. s3 = s2 \/ Marks(s2, s3)
    BY <1>2, <2>1 DEF restoreFollowing, Marks, Ordered, IsStore, StoreFields, SameFields
  <2>4. Ordered(s3)
    BY <1>2, <2>3, Marking DEF Leads
  <2> QED BY <2>2, <2>4
<1> HIDE DEF s3
<1>8. Stands(s3, r)
  BY <1>0, <1>7, ReportingStands
<1>9. Follows(r) /\ Pinned(r, Q)
  BY <1>7, <1>8, StandsPrunes, PruningPins
<1>10. NewTimes(s, r)
  BY <1>4, <1>7, <1>8 DEF NewTimes, Stands
<1>11. r.autoBefore = s.autoBefore
  BY <1>3, <1>7, <1>8 DEF Stands, Retimes
<1> QED BY <1>9, <1>10, <1>11

-----------------------------------------------------------------------------
(* The pins, where no set is stored at the time of another of its context.    *)

\* The invariant of the pins: they hold in the store, and in what a reset that may yet
\* be refused would bring back.
FollowInv ==
  /\ Follows(store) /\ store.autoBefore = <<>> /\ Pinned(store, pins)
  /\ \A a \in Appliers : applies[a].pc = "callback" => Saved(applies[a], store)

\* What a step that leaves the applies alone has to do.
Carries(s, P, r, Q) == Follows(r) /\ NewTimes(s, r) /\ r.autoBefore = <<>> /\ Pinned(r, Q)

LEMMA StandsCarries ==
  ASSUME FollowInv, NEW r, Stands(store, r)
  PROVE  Carries(store, pins, r, pins)
<1>1. Prunes(store, r) /\ NewTimes(store, r) /\ Follows(r)
  BY StandsPrunes DEF FollowInv
<1>2. Pinned(r, pins)
  BY <1>1, PruningPins DEF FollowInv
<1> QED BY <1>1, <1>2 DEF Carries, FollowInv, Stands

LEMMA CarriesOn ==
  ASSUME FollowInv, UNCHANGED now, Carries(store, pins, store', pins'),
         \A a \in Appliers : applies'[a].pc = "callback" => applies'[a] = applies[a]
  PROVE  FollowInv'
<1>1. ASSUME NEW a \in Appliers, applies'[a].pc = "callback" PROVE Saved(applies'[a], store')
  <2>1. Saved(applies[a], store) /\ applies'[a] = applies[a]
    BY <1>1 DEF FollowInv
  <2> QED BY <2>1, SavedStays DEF Carries, Saved
<1>2. Follows(store)' /\ Pinned(store, pins)'
  BY DEF Carries, Follows, Tracked, Distinct, Pinned
<1>3. (\A a \in Appliers : applies[a].pc = "callback" => Saved(applies[a], store))'
  BY <1>1 DEF Saved, SavedAs
<1> QED BY <1>2, <1>3 DEF Carries, FollowInv

\* Where a time is free, no set has it.
LEMMA FreeTime ==
  ASSUME ~SameInstant, NEW s, s = store, IsStore(s), NEW c \in Names, NEW t, Free(Ctx(t, c))
  PROVE  t \notin Times(s.stored[c])
<1>1. Ctx(t, c).context = c /\ Ctx(t, c).time = t
  BY CtxIs
<1>2. ~IsStored(s, Ctx(t, c))
  BY DEF Free
<1> QED BY <1>1, <1>2, IsStoredSays

LEMMA SetCarries ==
  ASSUME ~SameInstant, SettingsInv, FollowInv, NEW c \in Names, NEW k \in Keys, NEW v \in Values, NEW t \in {now, now + 1}, Set(c, t, k, v)
  PROVE  Carries(store, pins, store', pins')
<1> DEFINE best == findBestMatch(store, c, t)
<1>1. Ordered(store) /\ IsStore(store) /\ now \in Nat
  BY DEF SettingsInv, Good, Ordered
<1>2. /\ store' = setImpl(store, Only(k, v), Ctx(t, c)) /\ Free(Ctx(t, c))
      /\ Grows(pins, c, t, k, best, pins')
  BY DEF Set, PinsOf, Grows
<1>3. t \notin Times(store.stored[c])
  BY <1>1, <1>2, FreeTime
<1>4. Follows(store) /\ Pinned(store, pins) /\ store.autoBefore = <<>>
  BY DEF FollowInv
<1>5. best = findBestMatch(store, c, t)
  OBVIOUS
<1> HIDE DEF best
<1>6. Follows(store') /\ NewTimes(store, store') /\ store'.autoBefore = store.autoBefore /\ Pinned(store', pins')
  BY <1>1, <1>2, <1>3, <1>4, <1>5, SettingFollows
<1> QED BY <1>2, <1>4, <1>6 DEF Carries

LEMMA RemoveCarries ==
  ASSUME SettingsInv, FollowInv, NEW c \in Contexts, NEW t \in 1 .. MaxTime, RemoveContext(Ctx(t, c))
  PROVE  Carries(store, pins, store', pins')
<1> DEFINE ctx == Ctx(t, c)
<1>1. Ordered(store) /\ ActiveStored(store) /\ now \in Nat
  BY DEF SettingsInv, Good
<1>2. IsCtx(ctx) /\ ctx.context # Default /\ IsStored(store, ctx) /\ store' = removeContextImpl(store, ctx)
  BY CtxIs DEF RemoveContext, Names
<1>3. Follows(store) /\ Pinned(store, pins) /\ store.autoBefore = <<>>
  BY DEF FollowInv
<1>4. Drops(pins, ctx, pins')
  BY DEF RemoveContext, PinsOf, Drops
<1> HIDE DEF ctx
<1>5. Follows(store') /\ NewTimes(store, store') /\ store'.autoBefore = store.autoBefore /\ Pinned(store', pins')
  BY <1>1, <1>2, <1>3, <1>4, RemovingFollows
<1> QED BY <1>2, <1>3, <1>5 DEF Carries

LEMMA CoupleCarries ==
  ASSUME SettingsInv, FollowInv, NEW k \in Keys, NEW on \in BOOLEAN, Couple(k, on)
  PROVE  Carries(store, pins, store', pins')
<1>1. Ordered(store)
  BY DEF SettingsInv, Good
<1>2. store' = setTagCouplings(store, k, on) /\ pins' = IF on THEN {p \in pins : p[3] # k} ELSE pins
  BY DEF Couple
<1>3. Follows(store) /\ Pinned(store, pins) /\ store.autoBefore = <<>>
  BY DEF FollowInv
<1>4. Follows(store') /\ NewTimes(store, store') /\ store'.autoBefore = store.autoBefore /\ Pinned(store', pins')
  BY <1>1, <1>2, <1>3, CouplingFollows
<1> QED BY <1>3, <1>4 DEF Carries

LEMMA TagCarries ==
  ASSUME SettingsInv, FollowInv, NEW vals, NEW controls, NEW c \in Names \cup {""}, TagArrives(vals, controls, c)
  PROVE  Carries(store, pins, store', pins')
<1>1. Ordered(store) /\ Tracked(store) /\ now \in Nat
  BY DEF SettingsInv, Good, FollowInv, Follows
<1>2. store' = autoUpdate(store, vals, controls, c) /\ pins' = pins
  BY DEF TagArrives
<1>3. Stands(store, store')
  BY <1>1, <1>2, TaggingStands
<1> QED BY <1>2, <1>3, StandsCarries

LEMMA ActivateCarries ==
  ASSUME SettingsInv, FollowInv, NEW c \in Names, ActivateContext(c)
  PROVE  Carries(store, pins, store', pins')
<1>1. Ordered(store) /\ Tracked(store) /\ now \in Nat
  BY DEF SettingsInv, Good, FollowInv, Follows
<1>2. store' = activateContextImpl(store, c, now) /\ pins' = pins
  BY DEF ActivateContext
<1>3. Stands(store, store')
  BY <1>1, <1>2, ActivatingContextStands
<1> QED BY <1>2, <1>3, StandsCarries

LEMMA StagedCarries ==
  ASSUME SettingsInv, FollowInv, NEW k \in Keys, NEW v \in Values, SetStaged(k, v)
  PROVE  Carries(store, pins, store', pins')
<1>1. Ordered(store) /\ IsBatch(Only(k, v))
  BY OnlyOne DEF SettingsInv, Good
<1>2. store' = setStagedImpl(store, Only(k, v)) /\ pins' = pins
  BY DEF SetStaged
<1>3. Stands(store, store')
  BY <1>1, <1>2, StagingStands
<1> QED BY <1>2, <1>3, StandsCarries

\* An apply begins in the store, or in the defaults of a reset that has pinned nothing.
LEMMA RunKeepsFollowing ==
  ASSUME SettingsInv, FollowInv, NEW a \in Appliers, NEW s, Ordered(s), ActiveStored(s), NEW resets \in BOOLEAN,
         Run(a, s, resets), UNCHANGED now,
         NEW b, b = BeginApply(s), Follows(b.store), NewTimes(store, b.store), b.store.autoBefore = <<>>,
         IF resets \/ b.local.autoBefore # <<>> THEN SavedAs(b.local.autoBefore, pins, b.store) ELSE Pinned(b.store, pins)
  PROVE  FollowInv'
<1> DEFINE e == EndApply(b.store, b.local)
           l == Over(b.local, [pins |-> pins, resets |-> resets])
<1>1. Pinned(b.store, pins')
  <2>1. pins' = IF resets \/ b.local.autoBefore # <<>> THEN {} ELSE pins
    BY DEF Run
  <2>2. Pinned(b.store, {})
    BY DEF Pinned
  <2> QED BY <2>1, <2>2
<1>2. \/ store' = AfterApply(e, resets) /\ UNCHANGED applies
      \/ store' = b.store /\ applies' = [applies EXCEPT ![a] = l]
  BY DEF Run
<1>3. Ordered(b.store)
  <2>1. Good(b.store)
    BY Beginning DEF SettingsInv
  <2> QED BY <2>1 DEF Good
<1>4. l.autoBefore = b.local.autoBefore /\ l.pins = pins
  <2>1. "autoBefore" \in DOMAIN b.local /\ "pins" \notin DOMAIN b.local
    BY SMTT(30) DEF BeginApply, ApplyReset, ApplyBatch
  <2> HIDE DEF e
  <2> QED BY <2>1 DEF Over
<1>5. Saved(l, b.store)
  <2>1. b.local.autoBefore = <<>> => SavedAs(b.local.autoBefore, pins, b.store)
    BY DEF SavedAs
  <2> QED BY <1>4, <2>1 DEF Saved
<1> HIDE DEF l
<1>6. CASE store' = AfterApply(e, resets) /\ UNCHANGED applies
  <2>1. Stands(b.store, e)
    BY <1>3, EndingStands
  <2>2. Ordered(e) /\ now \in Nat
    <3>1. Good(e)
      BY Beginning, Ending DEF SettingsInv
    <3> QED BY <3>1 DEF Good, SettingsInv
  <2> HIDE DEF e
  <2>3. Follows(e) /\ Pinned(e, pins')
    BY <1>1, <2>1, StandsPrunes, PruningPins
  <2>4. Follows(store') /\ NewTimes(e, store') /\ store'.autoBefore = e.autoBefore /\ Pinned(store', pins')
    BY <1>6, <2>2, <2>3, AfterApplyFollows
  <2>5. NewTimes(store, store') /\ store'.autoBefore = <<>>
    BY <2>1, <2>4 DEF NewTimes, Stands
  <2> QED BY <1>6, <2>4, <2>5, CarriesOn DEF Carries
<1>7. CASE store' = b.store /\ applies' = [applies EXCEPT ![a] = l]
  <2>1. ASSUME NEW d \in Appliers, applies'[d].pc = "callback" PROVE Saved(applies'[d], store')
    <3>1. CASE d = a
      BY <1>5, <1>7, <3>1 DEF SettingsInv, AppliesGood
    <3>2. CASE d # a
      <4>1. applies'[d] = applies[d]
        BY <1>7, <3>2 DEF SettingsInv, AppliesGood
      <4> QED BY <1>7, <2>1, <4>1, SavedStays DEF FollowInv, Saved
    <3> QED BY <3>1, <3>2
  <2>2. Follows(store)' /\ Pinned(store, pins)' /\ store'.autoBefore = <<>>
    BY <1>1, <1>7 DEF Follows, Tracked, Distinct, Pinned
  <2>3. (\A d \in Appliers : applies[d].pc = "callback" => Saved(applies[d], store))'
    BY <2>1 DEF Saved, SavedAs
  <2> QED BY <2>2, <2>3 DEF FollowInv
<1> QED BY <1>2, <1>6, <1>7

LEMMA ApplyKeepsFollowing ==
  ASSUME ~SameInstant, SettingsInv, FollowInv, NEW a \in Appliers, Apply(a)
  PROVE  FollowInv'
<1> SUFFICES ASSUME NEW b, b = BeginApply(store) PROVE FollowInv'
  OBVIOUS
<1>1. Ordered(store) /\ ActiveStored(store) /\ IsStore(store) /\ now \in Nat
  BY DEF SettingsInv, Good, Ordered
<1>2. Run(a, store, FALSE) /\ UNCHANGED now
  BY DEF Apply
<1>3. Follows(store) /\ Pinned(store, pins) /\ store.autoBefore = <<>>
  BY DEF FollowInv
<1>4. CASE ~Resets(store)
  <2>1. Stands(store, b.store) /\ b.local.autoBefore = <<>>
    BY <1>1, <1>3, <1>4, PlainBegins DEF Stands
  <2>2. Follows(b.store) /\ NewTimes(store, b.store) /\ b.store.autoBefore = <<>> /\ Pinned(b.store, pins)
    BY <2>1, StandsCarries DEF Carries
  <2> QED BY <1>1, <1>2, <2>1, <2>2, RunKeepsFollowing
<1>5. CASE Resets(store)
  <2>1. now \notin Times(store.stored[Default])
    <3>1. Free(Ctx(now, Default))
      BY <1>5 DEF Apply, Resets
    <3> QED BY <1>1, <3>1, FreeTime, DefaultIsAName
  <2>2. /\ Follows(b.store) /\ NewTimes(store, b.store) /\ b.store.autoBefore = <<>>
        /\ b.local.autoBefore # <<>> /\ SavedAs(b.local.autoBefore, pins, b.store)
    BY <1>1, <1>3, <1>5, <2>1, ResetBegins
  <2> QED BY <1>1, <1>2, <2>2, RunKeepsFollowing
<1> QED BY <1>4, <1>5

\* The defaults as resetDefaults() applies them.
Unreset(s, r) ==
  /\ Ordered(r) /\ ActiveStored(r) /\ ~Resets(r)
  /\ r.stored = s.stored /\ r.autoUpdate = s.autoUpdate /\ r.autoBefore = s.autoBefore

LEMMA ResetKeepsFollowing ==
  ASSUME ~SameInstant, SettingsInv, FollowInv, NEW a \in Appliers, ResetDefaults(a)
  PROVE  FollowInv'
<1>1. Ordered(store) /\ ActiveStored(store) /\ IsStore(store) /\ now \in Nat
  BY DEF SettingsInv, Good, Ordered
<1>2. UNCHANGED now /\ Free(Ctx(now, Default))
  BY DEF ResetDefaults
<1>3. CASE UNCHANGED <<store, applies, pins>>
  <2>1. Carries(store, pins, store', pins')
    BY <1>3, StandsCarries DEF Stands
  <2> QED BY <1>2, <1>3, <2>1, CarriesOn
<1>4. CASE \E s \in {stageDefaultsImpl(store)} : Run(a, [s EXCEPT !.staged = Without(@, {"reset"})], TRUE)
  <2> SUFFICES ASSUME NEW s, s = stageDefaultsImpl(store), Run(a, [s EXCEPT !.staged = Without(@, {"reset"})], TRUE)
               PROVE  FollowInv'
    BY <1>4
  <2>1. Leads(store, s) /\ ActiveStored(s) /\ Ordered(s)
    BY <1>1, StagingDefaults DEF Leads
  <2>2. now \notin Times(store.stored[Default])
    BY <1>1, <1>2, FreeTime, DefaultIsAName
  <2>3. Follows(s) /\ NewTimes(store, s) /\ s.autoBefore # <<>> /\ SavedAs(s.autoBefore, pins, s)
    BY <1>1, <2>2, DefaultsFollow DEF FollowInv
  <2> DEFINE q == [s EXCEPT !.staged = Without(@, {"reset"})]
  <2>4. Unreset(s, q)
    <3>1. /\ DOMAIN q = StoreFields /\ q.stored = s.stored /\ q.member = s.member /\ q.active = s.active /\ q.defaults = s.defaults
          /\ q.activeCtx = s.activeCtx /\ q.before = s.before /\ q.staged = Without(s.staged, {"reset"})
          /\ q.changed = s.changed /\ q.activated = s.activated
          /\ q.autoUpdate = s.autoUpdate /\ q.autoBefore = s.autoBefore
      BY <2>1 DEF Ordered, IsStore, StoreFields
    <3> HIDE DEF q
    <3>2. IsBatch(q.staged)
      BY <2>1, <3>1, WithoutBatch DEF Ordered, IsStore
    <3>3. Ordered(q) /\ (ActiveStored(s) => ActiveStored(q))
      BY <2>1, <3>1, <3>2, Alike DEF Ordered, IsStore
    <3>4. ~Resets(q)
      BY <3>1 DEF Resets, Without
    <3> QED BY <2>1, <3>1, <3>3, <3>4 DEF Unreset
  <2> SUFFICES ASSUME NEW r, Unreset(s, r), Run(a, r, TRUE), NEW b, b = BeginApply(r)
               PROVE  FollowInv'
    <3>1. Run(a, q, TRUE)
      OBVIOUS
    <3> HIDE DEF q
    <3> QED BY <2>4, <3>1
  <2>5. Ordered(r) /\ ActiveStored(r) /\ ~Resets(r) /\ r.stored = s.stored /\ r.autoUpdate = s.autoUpdate /\ r.autoBefore = s.autoBefore
    BY DEF Unreset
  <2>7. /\ b.store.stored = s.stored /\ b.store.autoUpdate = s.autoUpdate /\ b.store.autoBefore = <<>>
        /\ b.local.autoBefore = s.autoBefore
    <3>1. /\ b.store.stored = r.stored /\ b.store.autoUpdate = r.autoUpdate /\ b.store.autoBefore = <<>>
          /\ b.local.autoBefore = r.autoBefore
      BY <2>5, PlainBegins
    <3> QED BY <2>5, <3>1
  <2>8. Follows(b.store) /\ NewTimes(store, b.store) /\ NewTimes(s, b.store)
    BY <2>3, <2>7 DEF Follows, Tracked, Distinct, NewTimes
  <2>9. SavedAs(b.local.autoBefore, pins, b.store)
    BY <2>3, <2>7, <2>8, SavedStays
  <2> QED BY <1>2, <2>5, <2>7, <2>8, <2>9, RunKeepsFollowing
<1> QED BY <1>3, <1>4 DEF ResetDefaults

LEMMA ReturnKeepsFollowing ==
  ASSUME SettingsInv, FollowInv, NEW a \in Appliers, CallbackReturns(a) \/ CallbackThrows(a)
  PROVE  FollowInv'
<1>1. Ordered(store) /\ Good(store) /\ now \in Nat
  BY DEF SettingsInv, Good
<1>2. /\ applies[a].pc = "callback" /\ applies' = [applies EXCEPT ![a] = NoApply] /\ UNCHANGED now
      /\ IsApply(applies[a]) /\ Saved(applies[a], store)
  BY DEF CallbackReturns, CallbackThrows, SettingsInv, AppliesGood, FollowInv
<1>3. ASSUME NEW d \in Appliers, applies'[d].pc = "callback" PROVE applies'[d] = applies[d]
  BY <1>2, <1>3 DEF SettingsInv, AppliesGood, NoApply
<1>4. ASSUME NEW e, Good(e), Carries(store, pins, e, pins'), NEW resets, store' = AfterApply(e, resets)
      PROVE  FollowInv'
  <2>1. Ordered(e) /\ Follows(e) /\ Pinned(e, pins')
    BY <1>4 DEF Good, Carries
  <2>2. Follows(store') /\ NewTimes(e, store') /\ store'.autoBefore = e.autoBefore /\ Pinned(store', pins')
    BY <1>1, <1>4, <2>1, AfterApplyFollows
  <2>3. Carries(store, pins, store', pins')
    BY <1>4, <2>2 DEF Carries, NewTimes
  <2> QED BY <1>2, <1>3, <2>3, CarriesOn
<1>5. CASE CallbackReturns(a)
  <2> DEFINE e == EndApply(store, applies[a])
  <2>1. store' = AfterApply(e, applies[a].resets) /\ pins' = pins
    BY <1>5 DEF CallbackReturns
  <2>2. Stands(store, e) /\ Good(e)
    BY <1>1, EndingStands, Ending
  <2> HIDE DEF e
  <2>3. Carries(store, pins, e, pins')
    BY <2>1, <2>2, StandsCarries
  <2> QED BY <1>4, <2>1, <2>2, <2>3
<1>6. CASE CallbackThrows(a)
  <2> DEFINE e == RefuseApply(store, applies[a])
             ends == applies[a].resets /\ taggedOnly(applies[a])
  <2>1. store' = AfterApply(e, ends)
    BY <1>6 DEF CallbackThrows
  <2>2. Good(e)
    BY <1>1, <1>2, Refusing
  <2>3. Returns(store, applies[a], pins, pins')
    BY <1>6 DEF CallbackThrows, Returns
  <2>4. Follows(store) /\ Pinned(store, pins) /\ store.autoBefore = <<>>
    BY DEF FollowInv
  <2>5. Follows(e) /\ NewTimes(store, e) /\ e.autoBefore = store.autoBefore /\ Pinned(e, pins')
    BY <1>1, <1>2, <2>3, <2>4, RefusingFollows
  <2> HIDE DEF e, ends
  <2>6. Carries(store, pins, e, pins')
    BY <2>4, <2>5 DEF Carries
  <2> QED BY <1>4, <2>1, <2>6, <2>2
<1> QED BY <1>5, <1>6

LEMMA TickKeepsFollowing ==
  ASSUME SettingsInv, FollowInv, Tick
  PROVE  FollowInv'
<1>1. now \in Nat /\ now' = now + 1 /\ store' = store /\ applies' = applies /\ pins' = pins
  BY DEF Tick, SettingsInv
<1>2. \A t \in Nat : t < now => t < now'
  BY <1>1
<1>3. (Follows(store) /\ store.autoBefore = <<>>)'
  BY <1>1 DEF FollowInv, Follows, Tracked, Distinct
<1>4. Pinned(store, pins)'
  BY <1>1, <1>2 DEF FollowInv, Pinned
<1>5. (\A a \in Appliers : applies[a].pc = "callback" => Saved(applies[a], store))'
  BY <1>1, <1>2 DEF FollowInv, Saved, SavedAs
<1> QED BY <1>3, <1>4, <1>5 DEF FollowInv

LEMMA InitFollows == SettingsInit => FollowInv
<1> SUFFICES ASSUME SettingsInit PROVE FollowInv
  OBVIOUS
<1>1. now = 2 /\ \A a \in Appliers : applies[a].pc # "callback"
  BY DEF SettingsInit, NoApply
<1>2. ASSUME NEW vals, NEW v, v = <<[time |-> 1, values |-> vals]>> PROVE Times(v) = {1} /\ DistinctVec(v)
  <2>1. DOMAIN v = {1} /\ v[1].time = 1
    BY <1>2
  <2> QED BY <2>1 DEF Times, DistinctVec
<1>3. Times(<<>>) = {} /\ DistinctVec(<<>>)
  <2>1. DOMAIN <<>> = {}
    OBVIOUS
  <2> QED BY <2>1 DEF Times, DistinctVec
<1>4. ASSUME NEW d, NEW p, NEW r, r = AfterInit(d, p)
      PROVE  /\ Follows(r) /\ r.autoBefore = <<>> /\ DOMAIN r = StoreFields /\ DOMAIN r.stored = Names
             /\ Times(r.stored[Default]) = {1} /\ \A c \in Contexts : r.stored[c] = <<>>
             /\ r.autoUpdate = Only(Ctx(1, Default), Keys)
  <2> DEFINE v == <<[time |-> 1, values |-> Over(p, d)]>>
  <2>1. /\ r.stored = [c \in Names |-> IF c = Default THEN v ELSE <<>>] /\ r.autoBefore = <<>>
        /\ r.autoUpdate = Only(Ctx(1, Default), Keys) /\ DOMAIN r = StoreFields
    BY <1>4 DEF AfterInit, StoreFields
  <2>2. Times(v) = {1} /\ DistinctVec(v)
    BY <1>2
  <2> HIDE DEF v
  <2>3. \A c \in Contexts : c \in Names /\ c # Default
    BY SettingsAssumption DEF Names, Default
  <2>4. \A c \in Names : Times(r.stored[c]) = (IF c = Default THEN {1} ELSE {}) /\ DistinctVec(r.stored[c])
    BY <1>3, <2>1, <2>2
  <2>5. DOMAIN r.autoUpdate = {Ctx(1, Default)}
    BY <2>1 DEF Only
  <2>6. IsCtx(Ctx(1, Default)) /\ Ctx(1, Default).context = Default /\ Ctx(1, Default).time = 1
    BY CtxIs, DefaultIsAName
  <2>7. Follows(r)
    BY <2>4, <2>5, <2>6, DefaultIsAName DEF Follows, Tracked, Distinct
  <2> QED BY <2>1, <2>3, <2>4, <2>7, DefaultIsAName
<1>5. ASSUME NEW d, NEW p, store = AfterInit(d, p), pins = {} PROVE FollowInv
  <2>1. Follows(store) /\ store.autoBefore = <<>>
    BY <1>4, <1>5
  <2> QED BY <1>1, <1>5, <2>1 DEF FollowInv, Pinned
<1>6. ASSUME NEW d, NEW c \in Contexts, NEW k \in Keys, NEW x, pins = {<<c, 1, k>>},
             store = InContext(AfterInit(d, Empty), c, Only(k, x))
      PROVE  FollowInv
  <2> DEFINE s == AfterInit(d, Empty)
             held == Over(Only(k, x), s.member)
             v == <<[time |-> 1, values |-> held]>>
  <2>1. /\ Follows(s) /\ s.autoBefore = <<>> /\ DOMAIN s = StoreFields /\ DOMAIN s.stored = Names
        /\ s.stored[c] = <<>> /\ s.autoUpdate = Only(Ctx(1, Default), Keys)
    BY <1>4
  <2> HIDE DEF s
  <2>2. Times(v) = {1} /\ DistinctVec(v)
    BY <1>2
  <2>3. /\ store.stored = [s.stored EXCEPT ![c] = v] /\ store.autoBefore = s.autoBefore
        /\ store.autoUpdate = Over(Only(Ctx(1, c), Keys \ {k}), s.autoUpdate)
    <3>1. DOMAIN Only(k, x) = {k}
      BY DEF Only
    <3> QED BY <1>6, <2>1, <3>1 DEF InContext, StoreFields, s
  <2> HIDE DEF v
  <2>4. c \in Names /\ c # Default /\ IsCtx(Ctx(1, c)) /\ Ctx(1, c).context = c /\ Ctx(1, c).time = 1
    <3>1. c \in Names /\ c # Default
      BY SettingsAssumption DEF Names, Default
    <3> QED BY <3>1, CtxIs
  <2>5. /\ DOMAIN store.autoUpdate = DOMAIN s.autoUpdate \cup {Ctx(1, c)} /\ store.autoUpdate[Ctx(1, c)] = Keys \ {k}
    BY <2>3 DEF Over, Only
  <2>6. \A e \in Names : /\ Times(store.stored[e]) = IF e = c THEN {1} ELSE Times(s.stored[e])
                         /\ DistinctVec(store.stored[e])
    BY <2>1, <2>2, <2>3, <2>4 DEF Follows, Distinct
  <2>7. Times(s.stored[c]) = {}
    BY <1>3, <2>1
  <2>8. Tracked(store)
    <3>1. ASSUME NEW e \in Names, NEW t \in Times(store.stored[e]) PROVE Ctx(t, e) \in DOMAIN store.autoUpdate
      BY <2>1, <2>5, <2>6, <3>1 DEF Follows, Tracked
    <3>2. ASSUME NEW y \in DOMAIN store.autoUpdate PROVE IsCtx(y) /\ y.time \in Times(store.stored[y.context])
      <4>1. CASE y = Ctx(1, c)
        BY <2>4, <2>6, <4>1
      <4>2. CASE y \in DOMAIN s.autoUpdate
        <5>1. IsCtx(y) /\ y.context \in Names /\ y.time \in Times(s.stored[y.context])
          BY <2>1, <4>2 DEF Follows, Tracked, IsCtx
        <5> QED BY <2>6, <2>7, <5>1
      <4> QED BY <2>5, <3>2, <4>1, <4>2
    <3> QED BY <3>1, <3>2 DEF Tracked
  <2>9. Pinned(store, pins)
    BY <1>1, <1>6, <2>4, <2>5, <2>6 DEF Pinned
  <2> QED BY <1>1, <2>1, <2>3, <2>6, <2>8, <2>9 DEF FollowInv, Follows, Distinct
<1> QED BY <1>5, <1>6 DEF SettingsInit

LEMMA KeepsFollowing ==
  ASSUME ~SameInstant, SettingsInv, FollowInv, SettingsNext
  PROVE  FollowInv'
<1>1. ASSUME Carries(store, pins, store', pins'), UNCHANGED <<applies, now>> PROVE FollowInv'
  BY <1>1, CarriesOn
<1>2. ASSUME NEW c \in Names, NEW k \in Keys, NEW v \in Values, NEW t \in {now, now + 1},
             Set(c, t, k, v) \/ SetRefused(c, t, v)
      PROVE  FollowInv'
  <2>1. CASE Set(c, t, k, v)
    <3>1. UNCHANGED <<applies, now>>
      BY <2>1 DEF Set
    <3> QED BY <1>1, <2>1, <3>1, SetCarries
  <2>2. CASE SetRefused(c, t, v)
    <3>1. UNCHANGED <<applies, now>> /\ Stands(store, store') /\ pins' = pins
      BY <2>2 DEF SetRefused, Stands
    <3> QED BY <1>1, <3>1, StandsCarries
  <2> QED BY <1>2, <2>1, <2>2
<1>3. ASSUME NEW k \in Keys, NEW v \in Values, SetStaged(k, v) PROVE FollowInv'
  <2>1. UNCHANGED <<applies, now>>
    BY <1>3 DEF SetStaged
  <2> QED BY <1>1, <1>3, <2>1, StagedCarries
<1>4. ASSUME NEW c \in Names, ActivateContext(c) PROVE FollowInv'
  <2>1. UNCHANGED <<applies, now>>
    BY <1>4 DEF ActivateContext
  <2> QED BY <1>1, <1>4, <2>1, ActivateCarries
<1>5. ASSUME NEW c \in Contexts, NEW t \in 1 .. MaxTime, RemoveContext(Ctx(t, c)) PROVE FollowInv'
  <2>1. UNCHANGED <<applies, now>>
    BY <1>5 DEF RemoveContext
  <2> QED BY <1>1, <1>5, <2>1, RemoveCarries
<1>6. ASSUME NEW vals, NEW controls, NEW c \in Names \cup {""}, TagArrives(vals, controls, c) PROVE FollowInv'
  <2>1. UNCHANGED <<applies, now>>
    BY <1>6 DEF TagArrives
  <2> QED BY <1>1, <1>6, <2>1, TagCarries
<1>7. ASSUME NEW k \in Keys, NEW on \in BOOLEAN, Couple(k, on) PROVE FollowInv'
  <2>1. UNCHANGED <<applies, now>>
    BY <1>7 DEF Couple
  <2> QED BY <1>1, <1>7, <2>1, CoupleCarries
<1>8. ASSUME NEW a \in Appliers, Apply(a) \/ ResetDefaults(a) \/ CallbackReturns(a) \/ CallbackThrows(a)
      PROVE  FollowInv'
  BY <1>8, ApplyKeepsFollowing, ResetKeepsFollowing, ReturnKeepsFollowing
<1>9. CASE Tick
  BY <1>9, TickKeepsFollowing
<1>10. ASSUME NEW c \in Names \cup {""}, NEW k \in Keys, NEW v \in Values, TagArrives(Only(k, v), {}, c) PROVE FollowInv'
  BY <1>6, <1>10
<1>11. ASSUME NEW x \in SUBSET Controls, TagArrives(Empty, x, "") PROVE FollowInv'
  BY <1>6, <1>11
<1> QED BY <1>2, <1>3, <1>4, <1>5, <1>7, <1>8, <1>9, <1>10, <1>11 DEF SettingsNext

\* Where no set is stored at the very time of another of its context: a setting that
\* set() stored does not follow its tag key in that set, nor in one derived from it,
\* until a reset or a new coupling, whatever is pruned, removed, activated or tagged
\* and whichever applies are refused, those that had reset included.
THEOREM SetsStopFollowing ==
  ASSUME ~SameInstant
  PROVE  SettingsSpec => []SetStopsFollowing
<1>1. SettingsInit => FollowInv
  BY InitFollows
<1>2. SettingsInv /\ FollowInv /\ [SettingsNext]_settingsVars => FollowInv'
  <2> SUFFICES ASSUME SettingsInv, FollowInv, [SettingsNext]_settingsVars PROVE FollowInv'
    OBVIOUS
  <2>1. CASE SettingsNext
    BY <2>1, KeepsFollowing
  <2>2. CASE UNCHANGED settingsVars
    <3>1. Carries(store, pins, store', pins')
      BY <2>2, StandsCarries DEF settingsVars, Stands
    <3> QED BY <2>2, <3>1, CarriesOn DEF settingsVars
  <2> QED BY <2>1, <2>2
<1>3. SettingsInv /\ FollowInv => SetStopsFollowing
  <2> SUFFICES ASSUME SettingsInv, FollowInv, NEW p \in pins, IsStored(store, Ctx(p[2], p[1]))
               PROVE  Ctx(p[2], p[1]) \in DOMAIN store.autoUpdate /\ p[3] \notin store.autoUpdate[Ctx(p[2], p[1])]
    BY DEF SetStopsFollowing
  <2>1. /\ p[1] \in Names /\ p[2] \in Nat
        /\ IF p[2] \in Times(store.stored[p[1]]) THEN p[3] \notin store.autoUpdate[Ctx(p[2], p[1])] ELSE p[2] < now
    BY DEF FollowInv, Pinned
  <2>2. Ctx(p[2], p[1]).context = p[1] /\ Ctx(p[2], p[1]).time = p[2]
    BY <2>1, CtxIs
  <2>3. p[2] \in Times(store.stored[p[1]])
    BY <2>1, <2>2, IsStoredSays DEF SettingsInv, Good, Ordered
  <2> QED BY <2>1, <2>3 DEF FollowInv, Follows, Tracked
<1> QED BY <1>1, <1>2, <1>3, SettingsInvariant, PTL DEF SettingsSpec
=============================================================================
