------------------------------ MODULE MC_Messages ------------------------------
(* The way of requests and replies, and the timer task that wakes the workers *)
(* of a source, side by side.  `subject` is the one a behaviour exercises.    *)
EXTENDS MessageFlow, TimerTask

CONSTANT c1
VARIABLE subject

mcVars == <<messageVars, timerVars, subject>>

\* One request that every block handles, and one that makes the child's callback throw.
MCRequests == {<<"get", Everyone>>, <<"bad", c1>>}

Init ==
  /\ subject \in {"messages", "timer"}
  /\ MessagesInit /\ TimerInit
  /\ subject # "messages" => listening

Next ==
  /\ UNCHANGED subject
  /\ \/ subject = "messages" /\ MessagesNext /\ UNCHANGED timerVars
     \/ subject = "timer" /\ TimerNext /\ UNCHANGED messageVars

Spec == Init /\ [][Next]_mcVars
=============================================================================
