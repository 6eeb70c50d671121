------------------------------ MODULE GraphLoops ------------------------------
(* Feedback loops of a flow graph.  A start or a resume searches the graph    *)
(* depth first (Graph.hpp, detectFeedbackLoops), computes for every loop it   *)
(* finds how many samples the loop needs (calculateLoopPrimingSize), and      *)
(* writes that many into the ring of the edge that closes it (primeLoop and   *)
(* primePort of Block.hpp).  Then the blocks run.                             *)
(*                                                                            *)
(* An edge has an input of its own.  The edges that leave one output share    *)
(* its ring.  Hash maps give the search its order, so it looks at the edges   *)
(* of a block in any order.  Strides and minimum sizes of ports keep their    *)
(* defaults.  The int32 product of the rates is taken as exact.               *)
EXTENDS Integers, FiniteSets, Sequences, SequencesExt

CONSTANTS Nodes,       \* the blocks, in the order in which the graph holds them
          Outputs,        \* the outputs that a block can have
          Takes,       \* input_chunk_size of each block
          Gives,       \* output_chunk_size of each block
          Graphs,      \* the sets of edges to look at
          Capacity,    \* samples that a ring holds
          MaxPrimings  \* bound: one start and the resumes after it

VARIABLES
  edges,      \* the edges of the flattened graph, all connected
  visited,    \* white, gray or black, for every block
  path,       \* the blocks from the root of the search to the current one
  pathEdges,  \* the edges between them
  left,       \* the edges of every block that the search has still to look at
  loops,      \* the loops found, each a sequence of edges
  reported,   \* the loops that an error message named
  avail,      \* the samples that wait at the end of each edge
  started,    \* the blocks run, the search is over
  nPrimings   \* starts and resumes so far

searchVars == <<visited, path, pathEdges, left, loops>>
loopVars == <<edges, searchVars, reported, avail, started, nPrimings>>

Members == ToSet(Nodes)
Edges == [src : Members, out : Outputs, dst : Members]

ASSUME LoopsAssumption ==
  /\ Takes \in [Members -> Nat \ {0}] /\ Gives \in [Members -> Nat \ {0}]
  /\ Graphs \subseteq SUBSET Edges
  /\ Capacity \in Nat \ {0} /\ MaxPrimings \in Nat \ {0}

-----------------------------------------------------------------------------
From(b) == {e \in edges : e.src = b}
Into(b) == {e \in edges : e.dst = b}
Ring(e) == {f \in edges : f.src = e.src /\ f.out = e.out}   \* the readers of e's ring
Space(e) == Capacity - Max({avail[f] : f \in Ring(e)})

LoopsInit ==
  /\ edges \in Graphs
  /\ visited = [b \in Members |-> "white"]
  /\ path = <<>> /\ pathEdges = <<>> /\ loops = <<>>
  /\ left = [b \in Members |-> {}]
  /\ reported = {}
  /\ avail = [e \in edges |-> 0]
  /\ started = FALSE
  /\ nPrimings = 1

Visit(b) ==
  /\ visited' = [visited EXCEPT ![b] = "gray"]
  /\ path' = Append(path, b)

\* The next block of the graph that no search has reached.
NextRoot ==
  /\ path = <<>>
  /\ \E i \in DOMAIN Nodes :
        /\ visited[Nodes[i]] = "white"
        /\ \A j \in 1..(i - 1) : visited[Nodes[j]] # "white"
        /\ Visit(Nodes[i])
        /\ left' = [left EXCEPT ![Nodes[i]] = From(Nodes[i])]
  /\ UNCHANGED <<edges, pathEdges, loops, reported, avail, started, nPrimings>>

\* The edges of the loop that e closes, in their order.
Cycle(e) == SubSeq(Append(pathEdges, e), SelectInSeq(path, LAMBDA b : b = e.dst), Len(path))

BackEdge(e) ==
  /\ visited[e.dst] = "gray"
  /\ loops' = Append(loops, Cycle(e))
  /\ left' = [left EXCEPT ![e.src] = @ \ {e}]
  /\ UNCHANGED <<visited, path, pathEdges>>

TreeEdge(e) ==
  /\ visited[e.dst] = "white"
  /\ Visit(e.dst)
  /\ left' = [left EXCEPT ![e.src] = @ \ {e}, ![e.dst] = From(e.dst)]
  /\ pathEdges' = Append(pathEdges, e)
  /\ UNCHANGED loops

SeenEdge(e) ==
  /\ visited[e.dst] = "black"
  /\ left' = [left EXCEPT ![e.src] = @ \ {e}]
  /\ UNCHANGED <<visited, path, pathEdges, loops>>

LookAt ==
  /\ path # <<>>
  /\ \E e \in left[Last(path)] : BackEdge(e) \/ TreeEdge(e) \/ SeenEdge(e)
  /\ UNCHANGED <<edges, reported, avail, started, nPrimings>>

Backtrack ==
  /\ path # <<>> /\ left[Last(path)] = {}
  /\ visited' = [visited EXCEPT ![Last(path)] = "black"]
  /\ path' = Front(path)
  /\ pathEdges' = IF pathEdges = <<>> THEN <<>> ELSE Front(pathEdges)
  /\ UNCHANGED <<edges, left, loops, reported, avail, started, nPrimings>>

-----------------------------------------------------------------------------
RateIsStable(loop) ==
  FoldLeft(LAMBDA n, e : n * Takes[e.dst], 1, loop) = FoldLeft(LAMBDA n, e : n * Gives[e.dst], 1, loop)

(* mutant: the size misses the chunks of the loop's inputs *)
PrimingByFirstBlock(loop) == Max({1, Takes[loop[1].src] \div Gives[loop[1].src]})

calculateLoopPrimingSize(loop) ==
  Max({1, Takes[loop[1].src] \div Gives[loop[1].src]} \cup {Takes[loop[i].dst] : i \in DOMAIN loop})

\* The edge that closes the loop.  Its ring gets the samples, and every reader of the ring sees them.
PrimedAt(loop) == Last(loop)

\* One loop of the list, with the samples that the loops before it have left: seen is [avail, reported].
primeLoop(seen, loop) ==
  LET ring == Ring(PrimedAt(loop))
      n    == calculateLoopPrimingSize(loop)
      fits == Max({seen.avail[f] : f \in ring}) + n <= Capacity
  IN IF RateIsStable(loop) /\ fits
     THEN [seen EXCEPT !.avail = [e \in edges |-> IF e \in ring THEN @[e] + n ELSE @[e]]]
     ELSE [seen EXCEPT !.reported = @ \cup {loop}]

primeFeedbackPorts ==
  /\ path = <<>> /\ ~started
  /\ \A b \in Members : visited[b] = "black"
  /\ LET done == FoldLeft(primeLoop, [avail |-> avail, reported |-> reported], loops)
     IN avail' = done.avail /\ reported' = done.reported
  /\ started' = TRUE
  /\ UNCHANGED <<edges, searchVars, nPrimings>>

-----------------------------------------------------------------------------
\* A call of work(): whole chunks, at most what all inputs hold and all rings take.
work(b) ==
  /\ started
  /\ From(b) \cup Into(b) # {}
  /\ \E n \in 1..Capacity :
        /\ \A e \in Into(b) : avail[e] >= n * Takes[b]
        /\ \A e \in From(b) : Space(e) >= n * Gives[b]
        /\ avail' = [e \in edges |-> avail[e] - (IF e.dst = b THEN n * Takes[b] ELSE 0)
                                              + (IF e.src = b THEN n * Gives[b] ELSE 0)]
  /\ UNCHANGED <<edges, searchVars, reported, started, nPrimings>>

\* A pause, and the resume's search; the rings keep their samples.
searchAgain ==
  /\ started /\ nPrimings < MaxPrimings
  /\ nPrimings' = nPrimings + 1
  /\ started' = FALSE
  /\ visited' = [b \in Members |-> "white"]
  /\ loops' = <<>>
  /\ UNCHANGED <<edges, path, pathEdges, left, reported, avail>>

LoopsNext == NextRoot \/ LookAt \/ Backtrack \/ primeFeedbackPorts \/ searchAgain \/ \E b \in Members : work(b)

LoopsSpec == LoopsInit /\ [][LoopsNext]_loopVars

-----------------------------------------------------------------------------
\* Every block of S waits for samples that only blocks of S can write.
Starved(S) == S # {} /\ \A b \in S : \E e \in Into(b) : e.src \in S /\ avail[e] < Takes[b]

\* The blocks of S can be called so often that no edge between them gains or
\* loses samples in the long run.
RatesAgree(S) ==
  \E calls \in [S -> 1..Capacity] :
     \A e \in edges : {e.src, e.dst} \subseteq S => calls[e.src] * Gives[e.src] = calls[e.dst] * Takes[e.dst]

\* A started graph holds no loop that waits for itself, unless the priming of
\* a loop of it was reported as failed or no rates suit it
\* (connectPendingEdges() of Scheduler.hpp primes the loops the search lists:
\* one that shares its blocks with others, hangs off another root or leads
\* from a block back to itself must not be left out, and the size must reach
\* its largest chunk).
NoLoopStarves ==
  started =>
    \A S \in SUBSET Members :
       Starved(S) /\ RatesAgree(S) => \E loop \in reported : {Last(loop).src, Last(loop).dst} \subseteq S
=============================================================================
