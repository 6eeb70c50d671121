---------------------------- MODULE ExecutionOrder ----------------------------
(* The job lists that the shipped schedulers compute when they initialize:    *)
(* customInit() of Simple, BreadthFirst and DepthFirst, findSourceBlocks(),   *)
(* nJobLists() and batchBlocks().  The graph is the one of GraphLoops.  The   *)
(* adjacency list is a hash map, so the edges of a block come in any order;   *)
(* source blocks are sorted by their names, here by the order of the graph.   *)
EXTENDS GraphLoops

CONSTANTS MaxThreads   \* bound: threads of the pool

VARIABLES
  traversal,  \* which scheduler initializes
  groups,     \* the blocks that are block groups
  blockList,  \* the blocks in the order in which they were found
  pending,    \* BreadthFirst: the queue.  DepthFirst: the sources still to visit
  reached,    \* BreadthFirst: the blocks ever queued
  stack,      \* DepthFirst: the blocks whose visits are not over
  unseen,     \* DepthFirst: the edges of each such block still to follow
  jobLists    \* the execution order, empty until it is known

orderVars == <<traversal, groups, blockList, pending, reached, stack, unseen, jobLists>>

ASSUME OrderAssumption == MaxThreads \in Nat \ {0}

-----------------------------------------------------------------------------
\* The blocks with an edge from them and none to them, sorted.
findSourceBlocks == SelectSeq(Nodes, LAMBDA b : From(b) # {} /\ Into(b) = {})

OrderInit ==
  /\ traversal \in {"Simple", "BreadthFirst", "DepthFirst"}
  /\ groups \in SUBSET Members
  /\ blockList = IF traversal = "Simple" THEN Nodes ELSE <<>>
  /\ pending = IF traversal = "Simple" THEN <<>> ELSE findSourceBlocks
  /\ reached = ToSet(pending)
  /\ stack = <<>> /\ unseen = [b \in Members |-> {}]
  /\ jobLists = <<>>

\* BreadthFirst: the block at the head of the queue, and every block that its edges reach first.
Dequeue ==
  /\ traversal = "BreadthFirst" /\ pending # <<>>
  /\ LET next == Head(pending)
         new  == {e.dst : e \in From(next)} \ reached
     IN \E found \in SetToSeqs(new) :
           /\ pending' = Tail(pending) \o found
           /\ reached' = reached \cup new
           /\ blockList' = Append(blockList, next)
  /\ UNCHANGED <<traversal, groups, stack, unseen, jobLists>>

Enter(b) ==
  /\ blockList' = Append(blockList, b)
  /\ stack' = Append(stack, b)

\* DepthFirst: the next source, if no earlier one led to it.
VisitSource ==
  /\ traversal = "DepthFirst" /\ stack = <<>> /\ pending # <<>>
  /\ pending' = Tail(pending)
  /\ LET next == Head(pending)
     IN IF next \in ToSet(blockList) THEN UNCHANGED <<blockList, stack, unseen>>
        ELSE Enter(next) /\ unseen' = [unseen EXCEPT ![next] = From(next)]
  /\ UNCHANGED <<traversal, groups, reached, jobLists>>

FollowEdge ==
  /\ stack # <<>>
  /\ \E e \in unseen[Last(stack)] :
        IF e.dst \in ToSet(blockList)
        THEN unseen' = [unseen EXCEPT ![e.src] = @ \ {e}] /\ UNCHANGED <<blockList, stack>>
        ELSE Enter(e.dst) /\ unseen' = [unseen EXCEPT ![e.src] = @ \ {e}, ![e.dst] = From(e.dst)]
  /\ UNCHANGED <<traversal, groups, pending, reached, jobLists>>

EndVisit ==
  /\ stack # <<>> /\ unseen[Last(stack)] = {}
  /\ stack' = Front(stack)
  /\ UNCHANGED <<traversal, groups, blockList, pending, reached, unseen, jobLists>>

-----------------------------------------------------------------------------
WorksOnItsOwn(b) == b \notin groups
countWorkingBlocks(list) == Len(SelectSeq(list, WorksOnItsOwn))

\* free is what the other tasks of the pool leave of its threads.
nJobLists(free, list) == Min({Max({free, 1}), Max({countWorkingBlocks(list), 1})})

\* The slice of the i-th block of a list, counted from 1.
SliceOf(i, list, n) ==
  LET nWorking == Max({countWorkingBlocks(list), 1})
      before   == countWorkingBlocks(SubSeq(list, 1, i - 1))
      ordinal  == Min({before, nWorking - 1})
  IN ((ordinal + 1) * n - 1) \div nWorking + 1

batchBlocks(list, n) ==
  [k \in 1..n |-> LET members == {i \in DOMAIN list : SliceOf(i, list, n) = k}
                  IN [j \in 1..Cardinality(members) |-> list[SetToSortSeq(members, <)[j]]]]

(* mutant: a traversal lists what the sources lead to *)
NoLeftover == <<>>

\* The blocks that no source leads to, in the order of the graph.
Leftover == SelectSeq(Nodes, LAMBDA b : b \notin ToSet(blockList))

customInit ==
  /\ jobLists = <<>> /\ stack = <<>> /\ pending = <<>>
  /\ blockList' = blockList \o Leftover
  /\ \E free \in 0..MaxThreads : jobLists' = batchBlocks(blockList', nJobLists(free, blockList'))
  /\ UNCHANGED <<traversal, groups, pending, reached, stack, unseen>>

OrderNext == Dequeue \/ VisitSource \/ FollowEdge \/ EndVisit \/ customInit

-----------------------------------------------------------------------------
\* Whatever the graph looks like - fans, loops without a source, blocks
\* without an edge, groups - each block is in one job list, once, and the lists
\* share the blocks that work to within one: no worker is started for a list
\* without work of its own while another list has two such blocks
\* (batchBlocks() and the customInit()s of Scheduler.hpp).
JobListsShareBlocks ==
  jobLists # <<>> =>
    LET all == FlattenSeq(jobLists)
    IN /\ Len(all) = Len(Nodes) /\ ToSet(all) = Members
       /\ \A i, j \in DOMAIN jobLists : countWorkingBlocks(jobLists[i]) <= countWorkingBlocks(jobLists[j]) + 1
=============================================================================
