----------------------------- MODULE GraphEdit -----------------------------
(***************************************************************************)
(* A graph's edge list, the rings of its ports and the blocks that work on  *)
(* them: Graph.hpp, Graph.cpp and Port.hpp, with the edits Scheduler.hpp    *)
(* makes for a message while a run is active.                               *)
(*                                                                          *)
(* An output port owns a ring once it is sized or connected; an input reads *)
(* the ring it was connected to last. An input whose output was             *)
(* disconnected or given a new ring holds a ring without writer, which      *)
(* isConnected() treats as no ring, so it is None here. Every edit runs     *)
(* under the scheduler's quiescence, no block inside work(): one action is  *)
(* a whole edit. A worker has one job list of one block. All ports carry    *)
(* streams of one type, and no edge is added past the input checks          *)
(* (addEdge()). The sizes of the rings are left out.                        *)
(***************************************************************************)
EXTENDS Integers, FiniteSets

CONSTANTS Blocks, Outs, Ins,
          Holder,       \* Holder[p]: the block that holds port p
          Optional,     \* the outputs declared Optional
          Pairs,        \* the <<output, input>> pairs an edge may join
          Namings,        \* the ways an edge may name its input: by index, by name
          Removable,    \* the blocks that are removed and added again
          Replaceable,  \* the blocks that are replaced
          ResumeIntoEnded, \* whether a resume() finds waiting edges into blocks that no worker calls any more
          MaxEdits,     \* bound on the edits of a behaviour
          None          \* no output

ASSUME PortsHeld ==
  /\ Holder \in [Outs \cup Ins -> Blocks] /\ None \notin Outs /\ Pairs \subseteq Outs \X Ins
  /\ IsFiniteSet(Ins)

VARIABLES net,      \* [edges, reads]: the edge list, and the output whose ring each input reads
          blockState,
          served,   \* blocks a worker of the run still calls
          running,  \* a run is active
          nEdits

graphVars == <<net, blockState, served, running, nEdits>>

InsOf(b) == {i \in Ins : Holder[i] = b}
OutsOf(b) == {o \in Outs : Holder[o] = b}
InGraph(b) == blockState[b] \notin {"ABSENT", "ZOMBIE"}
StoppedOrStopping(b) == blockState[b] \in {"STOPPED", "REQUESTED_STOP"}

(* A port's view of its ring. *)
Readers(n, o) == {i \in Ins : n.reads[i] = o}
OutConnected(n, o) == Readers(n, o) # {}
InConnected(n, i) == n.reads[i] # None

NewEdge(pair, as) == [src |-> pair[1], dst |-> pair[2], as |-> as, state |-> "Waiting"]

(* hasSameInput(): one input named by index in one edge and by name in the other is one input. *)
hasSameInput(e, d) == e.dst = d.dst

(* applyEdgeConnection() of each edge in W: its input reads the output's ring. *)
applyEdges(n, W) ==
  [edges |-> (n.edges \ W) \cup {[e EXCEPT !.state = "Connected"] : e \in W},
   reads |-> [i \in Ins |-> IF \E e \in W : e.dst = i THEN (CHOOSE e \in W : e.dst = i).src ELSE n.reads[i]]]

(* DynamicPort::connect() of each pair: the record of an edge stays as it is. *)
connectPorts(n, pairs) ==
  [n EXCEPT !.reads = [i \in Ins |-> IF \E p \in pairs : p[2] = i THEN (CHOOSE p \in pairs : p[2] = i)[1] ELSE @[i]]]

releaseInputs(n, I) == [n EXCEPT !.reads = [i \in Ins |-> IF i \in I THEN None ELSE @[i]]]

(* An output that releases its ring leaves its readers without writer. *)
releaseOutputs(n, O) == releaseInputs(n, {i \in Ins : n.reads[i] \in O})

connectPendingEdges(n) == applyEdges(n, {e \in n.edges : e.state = "Waiting"})

disconnectAllEdges(n) ==
  [edges |-> {[e EXCEPT !.state = "Waiting"] : e \in n.edges}, reads |-> [i \in Ins |-> None]]

(* restartStoppedEndpoints(): the edges of a stopped endpoint, or of the    *)
(* block that joins, whose input holds no ring are connected when the       *)
(* blocks at both ends run after the edit.                                  *)
reconnects(n, restarting, reconnecting) ==
  {<<e.src, e.dst>> : e \in {e \in n.edges :
     /\ ~InConnected(n, e.dst)
     /\ {Holder[e.src], Holder[e.dst]} \cap reconnecting # {}
     /\ \A b \in {Holder[e.src], Holder[e.dst]} : b \in reconnecting \/ (~StoppedOrStopping(b) /\ blockState[b] # "ERROR")}}

(* The restart of the stopped blocks R when the blocks of `failed` fail in a lifecycle hook. *)
refusedInputs(pairs, refused) == {p[2] : p \in {p \in pairs : {Holder[p[1]], Holder[p[2]]} \cap refused # {}}}
allInputs(B) == {i \in Ins : Holder[i] \in B}

restarted(n, pairs, refused, failed) ==
  releaseInputs(connectPorts(n, pairs), refusedInputs(pairs, refused) \cup allInputs(failed))

(* Where no worker remains, a block that a hook has not failed stays stopped. *)
RestartStopped(n, R, joining, states, workers) ==
  IF ~running THEN net' = n /\ blockState' = states /\ served' = workers
  ELSE \E failed \in SUBSET R :
         /\ net' = restarted(n, reconnects(n, R, R \cup joining), IF workers = {} THEN R ELSE failed, failed)
         /\ blockState' = [b \in Blocks |-> IF b \notin R THEN states[b]
                                            ELSE IF b \in failed THEN "ERROR"
                                            ELSE IF workers = {} THEN "STOPPED" ELSE "RUNNING"]
         /\ served' = IF workers = {} THEN {} ELSE (workers \cup R) \ failed

Edit == nEdits < MaxEdits /\ nEdits' = nEdits + 1

--------------------------------------------------------------------------
(* Graph::connect(), before the run: refused when a listed edge ends at the input. *)
Connect(pair, as) ==
  /\ Edit /\ ~running
  /\ InGraph(Holder[pair[1]]) /\ InGraph(Holder[pair[2]])
  /\ \A e \in net.edges : ~hasSameInput(e, NewEdge(pair, as))
  /\ net' = [net EXCEPT !.edges = @ \cup {NewEdge(pair, as)}]
  /\ UNCHANGED <<blockState, served, running>>

(* emplaceEdge(): the ports are connected at once, the record stays waiting, *)
(* and a listed edge into the input is displaced.                            *)
emplaced(n, e) ==
  connectPorts([n EXCEPT !.edges = {d \in @ : ~hasSameInput(d, e)} \cup {e}], {<<e.src, e.dst>>})

EmplaceEdge(pair, as) ==
  /\ Edit
  /\ InGraph(Holder[pair[1]]) /\ InGraph(Holder[pair[2]]) /\ blockState[Holder[pair[2]]] # "ERROR"
  /\ RestartStopped(emplaced(net, NewEdge(pair, as)), {b \in {Holder[pair[1]], Holder[pair[2]]} : StoppedOrStopping(b)},
                    {}, blockState, served)
  /\ UNCHANGED running

(* removeEdgeBySourcePort(): the port is torn down when a requested input is *)
(* connected and the port has more readers than the kept records account     *)
(* for; kept edges whose inputs were connected are then connected again.     *)
requestedEdges(o, I) == {e \in net.edges : e.src = o /\ e.dst \in I}
keptReaders(o, I) == {e \in net.edges : e.src = o /\ e.dst \notin I /\ e.state = "Connected" /\ InConnected(net, e.dst)}

(* mutant: every kept edge is connected again, whether its input was connected or not. *)
readingEdgesAll(o, I) == {e \in net.edges : e.src = o /\ e.dst \notin I}

readingEdges(o, I) == {e \in net.edges : e.src = o /\ e.dst \notin I /\ InConnected(net, e.dst)}

holdsReader(o, I) ==
  /\ \E e \in requestedEdges(o, I) : InConnected(net, e.dst)
  /\ Cardinality(Readers(net, o)) > Cardinality(keptReaders(o, I))

erased(o, I) == [net EXCEPT !.edges = @ \ requestedEdges(o, I)]

RemoveEdge(o, I) ==
  /\ Edit
  /\ InGraph(Holder[o]) /\ requestedEdges(o, I) # {}
  /\ net' = IF holdsReader(o, I)
              THEN applyEdges(releaseOutputs(erased(o, I), {o}), readingEdges(o, I))
              ELSE erased(o, I)
  /\ UNCHANGED <<blockState, served, running>>

(* removeBlockByName() and makeZombie(): the edges go, the block keeps its   *)
(* rings until a worker has stopped it.                                      *)
RemoveBlock(b) ==
  /\ Edit /\ InGraph(b)
  /\ net' = [net EXCEPT !.edges = {e \in @ : b \notin {Holder[e.src], Holder[e.dst]}}]
  /\ blockState' = [blockState EXCEPT ![b] = "ZOMBIE"]
  /\ UNCHANGED <<served, running>>

(* cleanupZombieBlocks(), or the drop of a block that no worker reaches. *)
DropZombie(b) ==
  /\ blockState[b] = "ZOMBIE"
  /\ net' = releaseOutputs(releaseInputs(net, InsOf(b)), OutsOf(b))
  /\ blockState' = [blockState EXCEPT ![b] = "ABSENT"]
  /\ served' = served \ {b}
  /\ UNCHANGED <<running, nEdits>>

(* What joinRun() makes of a block: it runs while a worker remains to call it, *)
(* unless a hook fails; a hook may fail and the last worker leave then.        *)
joinRun == IF ~running THEN {"STOPPED"} ELSE {"ERROR", IF served = {} THEN "STOPPED" ELSE "RUNNING"}

(* emplaceBlock(), and adoptBlock() in a run. *)
EmplaceBlock(b) ==
  /\ Edit /\ blockState[b] = "ABSENT"
  /\ \E s \in joinRun :
       /\ blockState' = [blockState EXCEPT ![b] = s]
       /\ served' = IF s = "RUNNING" THEN served \cup {b} ELSE served
  /\ UNCHANGED <<net, running>>

(* replaceBlock(): the new block takes the rings of the ports that edges     *)
(* name. Its other ports are new. A hook that fails leaves it in ERROR, and  *)
(* it then releases its inputs. Where no worker remains the run does not     *)
(* take it, it stays in the graph and no neighbour restarts.                 *)
namedPorts == UNION {{e.src, e.dst} : e \in net.edges}
takenOver(b) == releaseOutputs(releaseInputs(net, InsOf(b) \ namedPorts), OutsOf(b) \ namedPorts)
neighbours(b) ==
  {Holder[e.src] : e \in {e \in net.edges : Holder[e.dst] = b}} \cup {Holder[e.dst] : e \in {e \in net.edges : Holder[e.src] = b}}

ReplaceBlock(b) ==
  /\ Edit /\ InGraph(b)
  /\ \/ /\ running => served # {}
        /\ RestartStopped(takenOver(b), {d \in neighbours(b) \ {b} : StoppedOrStopping(d)}, {b},
                          [blockState EXCEPT ![b] = IF running THEN "RUNNING" ELSE "STOPPED"],
                          IF running THEN served \cup {b} ELSE served)
     \/ /\ running
        /\ \/ blockState' = [blockState EXCEPT ![b] = "ERROR"] /\ net' = releaseInputs(takenOver(b), InsOf(b))
           \/ served = {} /\ blockState' = [blockState EXCEPT ![b] = "STOPPED"] /\ net' = takenOver(b)
        /\ served' = served \ {b}
  /\ UNCHANGED running

--------------------------------------------------------------------------
(* A block's call reports DONE: its stream ended. It releases its inputs. *)
Finish(b) ==
  /\ running /\ blockState[b] = "RUNNING" /\ b \in served
  /\ blockState' = [blockState EXCEPT ![b] = "STOPPED"]
  /\ net' = releaseInputs(net, InsOf(b))
  /\ UNCHANGED <<served, running, nEdits>>

(* hasNoDownStreamConnectedChildren(): no mandatory output has a reader. *)
LoseReaders(b) ==
  /\ running /\ blockState[b] = "RUNNING" /\ b \in served
  /\ OutsOf(b) \ Optional # {}
  /\ \A o \in OutsOf(b) \ Optional : ~OutConnected(net, o)
  /\ blockState' = [blockState EXCEPT ![b] = "REQUESTED_STOP"]
  /\ UNCHANGED <<net, served, running, nEdits>>

(* The next call of a stopping or stopped block releases its inputs and reports DONE. *)
CallStopped(b) ==
  /\ running /\ StoppedOrStopping(b) /\ b \in served
  /\ blockState[b] = "REQUESTED_STOP" \/ \E i \in InsOf(b) : InConnected(net, i)
  /\ blockState' = [blockState EXCEPT ![b] = "STOPPED"]
  /\ net' = releaseInputs(net, InsOf(b))
  /\ UNCHANGED <<served, running, nEdits>>

(* The worker of a block that is done leaves its loop. *)
Leave(b) ==
  /\ blockState[b] = "STOPPED" /\ b \in served
  /\ \A i \in InsOf(b) : ~InConnected(net, i)
  /\ served' = served \ {b}
  /\ UNCHANGED <<net, blockState, running, nEdits>>

(* start(): every edge is connected anew and every block runs. *)
Start ==
  /\ ~running
  /\ running' = TRUE
  /\ net' = connectPendingEdges(disconnectAllEdges(net))
  /\ blockState' = [b \in Blocks |-> IF InGraph(b) THEN "RUNNING" ELSE blockState[b]]
  /\ served' = {b \in Blocks : InGraph(b)}
  /\ UNCHANGED nEdits

(* stop(): the workers that still call a block let it release its inputs. *)
Stop ==
  /\ running
  /\ running' = FALSE
  /\ \E B \in SUBSET served : net' = releaseInputs(net, allInputs(B))
  /\ blockState' = [b \in Blocks |-> IF InGraph(b) /\ blockState[b] # "ERROR" THEN "STOPPED" ELSE blockState[b]]
  /\ served' = {}
  /\ UNCHANGED nEdits

(* pause() and resume(): resume() connects the edges still waiting. *)
PauseAndResume ==
  /\ Edit /\ running
  /\ ResumeIntoEnded \/ \A e \in net.edges : e.state = "Waiting" => Holder[e.dst] \in served
  /\ net' = connectPendingEdges(net)
  /\ UNCHANGED <<blockState, served, running>>

GraphInit ==
  /\ net = [edges |-> {}, reads |-> [i \in Ins |-> None]]
  /\ blockState = [b \in Blocks |-> "STOPPED"]
  /\ served = {}
  /\ running = FALSE
  /\ nEdits = 0

GraphNext ==
  \/ \E pair \in Pairs, as \in Namings : Connect(pair, as) \/ EmplaceEdge(pair, as)
  \/ \E o \in Outs : RemoveEdge(o, Ins) \/ \E i \in Ins : RemoveEdge(o, {i})
  \/ \E b \in Removable : RemoveBlock(b) \/ DropZombie(b) \/ EmplaceBlock(b)
  \/ \E b \in Replaceable : ReplaceBlock(b)
  \/ \E b \in Blocks : Finish(b) \/ LoseReaders(b) \/ CallStopped(b) \/ Leave(b)
  \/ Start \/ Stop \/ PauseAndResume

GraphSpec == GraphInit /\ [][GraphNext]_graphVars

--------------------------------------------------------------------------
(* An input is taken by at most one listed edge. *)
InputsTakenOnce == \A d, e \in net.edges : d.dst = e.dst => d = e

(* Every reader on a ring has an edge in the list, unless its source or its block was removed. *)
ReadersListed ==
  \A i \in Ins : InConnected(net, i) =>
    \/ \E e \in net.edges : e.src = net.reads[i] /\ e.dst = i
    \/ \E b \in {Holder[i], Holder[net.reads[i]]} : blockState[b] = "ZOMBIE"

(* Two running blocks joined by a listed edge are joined by a ring. *)
EdgesCarry ==
  running => \A e \in net.edges :
    blockState[Holder[e.src]] = "RUNNING" /\ blockState[Holder[e.dst]] = "RUNNING" => net.reads[e.dst] = e.src

(* No reader holds a running source that nothing will read or release. *)
NobodyGates ==
  running => \A i \in Ins : InConnected(net, i) /\ blockState[Holder[net.reads[i]]] = "RUNNING" => Holder[i] \in served

(* The wiring the edits keep, whatever their order and whichever blocks stop meanwhile, *)
(* as long as no resume() finds a waiting edge into a block that no worker calls any    *)
(* more (ResumeIntoEnded).                                                              *)
WiringKept == InputsTakenOnce /\ ReadersListed /\ EdgesCarry /\ NobodyGates
=============================================================================
