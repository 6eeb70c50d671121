------------------------------ MODULE MC_Workers ------------------------------
(* What a run's workers hold and what they wait for, side by side: the job  *)
(* lists under edits and stops, and the parks of idle workers.  `subject`   *)
(* is the one a behaviour exercises, the other stays in one initial state.  *)
EXTENDS JobLists, ParkWake

CONSTANTS w1, w2, b1, b2, b3, c1

VARIABLE subject

workersVars == <<vars, parkVars, subject>>

\* Two workers with a block each, and a block to add or to replace one with.
Initial == (b1 :> w1) @@ (b2 :> w2) @@ (b3 :> NoWorker)

\* w1's block feeds w2's.
MCNextOf == w1 :> w2 @@ w2 :> NoThread

Pool(crew, ratio, samples, may) ==
  [crew |-> crew, single |-> FALSE, due |-> 2, spin |-> 0, ratio |-> ratio, samples |-> samples, may |-> may]

\* A pool with each kind of call, a pool whose blocks publish, and a single worker.
MCSetups ==
  {Pool({w1, w2}, 2, 1, {}), Pool({w1, w2}, 2, 0, {"message", "service"}), Pool({w1}, 1, 1, {"pause", "resume"}),
   Pool({w1, w2}, 1, 0, {"message", "stop"}), Pool({w1, w2}, 1, 0, {"emit"}),
   [crew |-> {w1}, single |-> TRUE, due |-> 1, spin |-> 9, ratio |-> 2, samples |-> 1,
    may |-> {"message", "pause", "resume", "stop"}]}

ASSUME SetupsSuffice == \A s \in MCSetups : WakesSuffice(s)

WorkersInit ==
  /\ subject \in {"lists", "parks"}
  /\ Init /\ ParkInit
  /\ subject # "parks" => setup = Pool({w1, w2}, 1, 0, {"emit"})

WorkersNext ==
  /\ UNCHANGED subject
  /\ \/ subject = "lists" /\ Next /\ UNCHANGED parkVars
     \/ subject = "parks" /\ ParkNext /\ UNCHANGED vars

WorkersSpec == WorkersInit /\ [][WorkersNext]_workersVars
=============================================================================
