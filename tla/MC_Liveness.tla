------------------------------ MODULE MC_Liveness ------------------------------
(* What must eventually happen, side by side: the end of a block's stream,    *)
(* the calls of a thread pool, and the return of the workers of a scheduler   *)
(* to their blocks once the calls that kept them out have returned.           *)
(* `subject` is the one a behaviour exercises; its fairness is that of its    *)
(* own module.                                                                *)
EXTENDS MC_BlockWork, MC_WorkQuiescence, ThreadPool

VARIABLE subject

liveVars == <<workVars, poolVars, vars, subject>>

MCPoolBounds == {<<1, 2>>, <<1, 1>>}

LiveInit ==
  /\ subject \in {"work", "pool", "scheduler"}
  /\ WorkInit /\ PoolInit /\ Init
  /\ subject # "work" => cfg = Bare(Plain, 2)
  /\ subject # "pool" => pool.max = 1

LiveNext ==
  /\ UNCHANGED subject
  /\ \/ subject = "work" /\ WorkNext /\ UNCHANGED <<poolVars, vars>>
     \/ subject = "pool" /\ PoolNext /\ UNCHANGED <<workVars, vars>>
     \/ subject = "scheduler" /\ Next /\ UNCHANGED <<workVars, poolVars>>

\* WorkFairness, PoolFairness and the Fairness of WorkQuiescence, each for the behaviours of its subject.
LiveFairness ==
  /\ WF_workVars(subject = "work" /\ (Begin \/ Size \/ Finish))
  /\ \A i \in Ins : WF_workVars(subject = "work" /\ Deliver(i))
  /\ WF_workVars(subject = "work" /\ \E n \in 1 .. cfg.outRing : Take(n))
  /\ WF_poolVars(subject = "pool" /\ Stopping)
  /\ \A c \in Callers : WF_poolVars(subject = "pool" /\ PoolCallStep(c))
  /\ \A w \in Ids : /\ WF_poolVars(subject = "pool" /\ PoolWorkerStep(w))
                    /\ WF_poolVars(subject = "pool" /\ FinishTask(w))
  /\ \A w \in Workers : WF_vars(subject = "scheduler" /\ WorkerStep(w))
  /\ \A t \in Threads : WF_vars(subject = "scheduler" /\ CallStep(t)) /\ SF_vars(subject = "scheduler" /\ Lock(t))

LiveSpec == LiveInit /\ [][LiveNext]_liveVars /\ LiveFairness

WorkersReturn == subject = "scheduler" => WorkersComeBack
=============================================================================
