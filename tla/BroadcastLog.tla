---------------------------- MODULE BroadcastLog ----------------------------
(***************************************************************************)
(* What a gr::CircularBuffer promises to a reader that stays attached: a   *)
(* bounded log of samples.  Samples are numbered in the order in which     *)
(* they become readable, every reader is shown each of them once and in    *)
(* order, what an open span shows does not change until the span is        *)
(* released, and the writers are never more than Size samples ahead of     *)
(* the slowest of these readers.                                           *)
(***************************************************************************)
EXTENDS Integers, Sequences

CONSTANTS
  Size,       \* the capacity of the buffer in samples
  Residents   \* the readers that stay attached

VARIABLES
  published,  \* the number of samples that are readable
  pos,        \* per reader: the number of samples it has consumed
  view        \* per reader: the samples its open span shows, by number

logVars == <<published, pos, view>>

LogTypeOK ==
  /\ published \in Nat
  /\ pos \in [Residents -> Nat]
  /\ view \in [Residents -> Seq(Nat)]

LogInit ==
  /\ published = 0
  /\ pos = [r \in Residents |-> 0]
  /\ view = [r \in Residents |-> <<>>]

\* k samples become readable at once
Publish(k) ==
  /\ \A r \in Residents : published + k <= pos[r] + Size
  /\ published' = published + k
  /\ UNCHANGED <<pos, view>>

\* reader r acquires everything that is readable
Open(r) ==
  /\ view' = [view EXCEPT ![r] =
                [i \in 1..(published - pos[r]) |-> pos[r] + i - 1]]
  /\ UNCHANGED <<published, pos>>

\* reader r releases its span and consumes the first k samples of it
Close(r, k) ==
  /\ k <= Len(view[r])
  /\ pos' = [pos EXCEPT ![r] = @ + k]
  /\ view' = [view EXCEPT ![r] = <<>>]
  /\ UNCHANGED published

LogNext ==
  \/ \E k \in 1..Size : Publish(k)
  \/ \E r \in Residents : Open(r)
  \/ \E r \in Residents : \E k \in 0..Size : Close(r, k)

LogSpec == LogInit /\ [][LogNext]_logVars
=============================================================================
