---------------------------- MODULE MC_Contention ----------------------------
(* What several threads contend for, side by side: the slots of a ring whose  *)
(* reader stays, and the run of a scheduler.  `subject` is the one a          *)
(* behaviour exercises, the other stays in one initial state.                 *)
EXTENDS MC_MultiProducerRing

CONSTANTS t1, t2,   \* threads outside the scheduler
          w1, w2,   \* threads of the pool
          Nobody

VARIABLES setup, run, pool, programs, asked, subject

\* Either t1 starts the scheduler and swaps its graph, or messages do.
MCRunSetups ==
  {[owner |-> o, nJobLists |-> bounds[1], maxRequests |-> bounds[2]] : o \in {t1, "messages"}, bounds \in {<<1, 4>>, <<2, 3>>}}

Ownership == INSTANCE RunOwnership
  WITH todo <- programs, Outside <- {t1, t2}, Pool <- {w1, w2}, Setups <- MCRunSetups, NoThread <- Nobody

runVars == <<setup, run, pool, programs, asked>>
contentionVars == <<vars, runVars, subject>>

ContentionInit ==
  /\ subject \in {"ring", "run"}
  /\ Init /\ Ownership!RunInit
  /\ subject # "run" => setup.owner = t1 /\ setup.nJobLists = 1

ContentionNext ==
  /\ UNCHANGED subject
  /\ \/ subject = "ring" /\ Next /\ UNCHANGED runVars
     \/ subject = "run" /\ Ownership!RunNext /\ UNCHANGED vars
     \/ subject = "run" /\ Ownership!Quiet /\ UNCHANGED <<vars, runVars>>   \* nobody asks for more

ContentionSpec == ContentionInit /\ [][ContentionNext]_contentionVars

GraphIsLeftAlone == Ownership!GraphIsLeftAlone
StopHolds == Ownership!StopHolds
=============================================================================
