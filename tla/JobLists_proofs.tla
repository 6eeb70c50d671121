--------------------------- MODULE JobLists_proofs ---------------------------
(***************************************************************************)
(* One worker calls a block, and a running block has a worker: for any     *)
(* number of workers, blocks and edits.  What the workers that are left    *)
(* hold is apart (HeldApart); that a restart keeps it so rests on the      *)
(* recorded lists: an endpoint that has stopped and is held is recorded    *)
(* with its holder (Recorded, QueuedIsListed), and so the edit prefers the *)
(* list of that worker (Preferred).  A block that runs is held by a worker *)
(* that is left, or is the one the edit is about to queue (Running).       *)
(***************************************************************************)
EXTENDS JobLists, SequenceTheorems, WellFoundedInduction, TLAPS

States == {"INITIALISED", "RUNNING", "REQUESTED_STOP", "STOPPED", "ERROR"}
Places == {"top", "messages", "edit", "cleanup", "adopt", "record", "state", "work", "working", "close", "leave", "gone"}
JoinSteps == {"active", "open", "start", "queue"}

Types ==
  /\ graph \subseteq Blocks /\ zombies \subseteq Blocks
  /\ bstate \in [Blocks -> States]
  /\ order \in [Workers -> SUBSET Blocks] /\ local \in [Workers -> SUBSET Blocks]
  /\ queue \in [Workers -> Seq(Blocks)] /\ taken \in [Workers -> Seq(Blocks)]
  /\ closed \in [Workers -> BOOLEAN] /\ finishing \in [Workers -> BOOLEAN]
  /\ withdrawn \in Seq(Blocks) /\ pc \in [Workers -> Places]

Joins(b) == todo \in JoinSteps /\ joining = b

-----------------------------------------------------------------------------
(* The edit. *)

\* An edit is at a step of its kind, takes out a block of the graph and puts in one that
\* never ran.
EditShape ==
  /\ editor \in Workers \cup {NoWorker} /\ (editor = NoWorker <=> todo = "none")
  /\ \A w \in Workers : editor = w => pc[w] = "edit"
  /\ old \in Blocks \cup {NoBlock} /\ new \in Blocks \cup {NoBlock} /\ joining \in Blocks \cup {NoBlock}
  /\ stopped \subseteq Blocks /\ new \notin stopped
  /\ held \in [Blocks -> Workers \cup {NoWorker}]
  /\ todo \in {"none", "request", "await", "relink", "endpoints", "lock", "settle", "restart", "withdraw", "unlock",
               "stopOld", "unqueue", "bury", "release", "end"} \cup JoinSteps
  /\ todo \in {"none", "request", "await", "endpoints"} \/ (old = NoBlock) # (new = NoBlock) => stopped = {}
  /\ todo = "relink" => old # NoBlock \/ new # NoBlock
  /\ todo \in {"stopOld", "unqueue", "bury"} => old # NoBlock
  /\ todo \in {"endpoints", "lock", "settle", "restart", "withdraw", "unlock"} => (old = NoBlock) = (new = NoBlock)
  /\ todo \in JoinSteps \cup {"withdraw"} => joining \in Blocks /\ joining \notin stopped
  /\ todo \in JoinSteps /\ joining # new => (old = NoBlock) = (new = NoBlock)
  /\ todo = "withdraw" => joining # new

Relinks  == todo \in {"request", "await", "endpoints", "lock", "relink"}
Restarts == todo \in {"restart", "withdraw"} \/ (todo \in JoinSteps /\ joining # new)

EditBlocks ==
  /\ Relinks => /\ new # NoBlock => bstate[new] = "INITIALISED" /\ new \notin graph
                /\ old # NoBlock => old # new
  /\ todo = "release" /\ old = NoBlock /\ new # NoBlock => bstate[new] = "INITIALISED"
  /\ Joins(new) => /\ todo # "queue" => bstate[new] = "INITIALISED"
                   /\ \A w \in Workers : new \notin Held(w)
  /\ todo \notin {"none", "request", "await", "endpoints", "lock", "relink", "release", "end"} => old \notin graph
  /\ todo \in {"unqueue", "bury"} => bstate[old] # "RUNNING" /\ (wasActive => bstate[old] # "INITIALISED")
  /\ Restarts => \A e \in stopped : bstate[e] = "STOPPED"
  /\ todo \in {"active", "open", "start"} /\ joining # new => bstate[joining] = "STOPPED"
  /\ todo = "queue" => bstate[joining] = "RUNNING"
  /\ todo = "withdraw" => bstate[joining] \in {"STOPPED", "ERROR"}

\* No worker is inside work() while an edit restarts endpoints or replaces a block.
Excluded ==
  /\ todo \in {"await", "relink", "endpoints", "lock", "settle", "restart", "withdraw", "unlock", "stopOld", "unqueue",
               "bury", "release"} \/ (todo \in JoinSteps /\ ~(old = NoBlock /\ new # NoBlock)) => quiet
  /\ quiet => todo = "await" \/ \A w \in Workers : pc[w] # "working"

-----------------------------------------------------------------------------
(* The workers. *)

\* Who has closed its list has left with an empty queue.
Leaves ==
  /\ \A w \in Workers : closed[w] <=> pc[w] \in {"leave", "gone"}
  /\ \A w \in Workers : closed[w] => queue[w] = <<>>
  /\ \A w \in Workers : pc[w] # "record" => taken[w] = <<>>
  /\ \A w \in Workers : (pc[w] \in {"messages", "edit"} => ~finishing[w]) /\ (pc[w] = "close" => finishing[w])

HeldApart == \A v, w \in Workers : v # w /\ ~closed[v] /\ ~closed[w] => Held(v) \cap Held(w) = {}

OrdersApart == \A v, w \in Workers : v # w => order[v] \cap order[w] = {}

\* A block that never ran is nowhere.
Untouched ==
  \A b \in Blocks : bstate[b] = "INITIALISED" =>
    b \notin zombies /\ \A w \in Workers : b \notin Held(w) /\ b \notin order[w]

\* Only failed blocks are withdrawn, only removed ones are zombies.
Dropped == (\A b \in ToSet(withdrawn) : bstate[b] = "ERROR") /\ zombies \cap graph = {}

Recorded == \A w \in Workers : ~closed[w] => \A b \in local[w] : bstate[b] = "ERROR" \/ b \in order[w]

QueuedIsListed ==
  \A w \in Workers : ~closed[w] =>
    \A b \in graph \cap (ToSet(taken[w]) \cup ToSet(queue[w])) :
      bstate[b] \in {"STOPPED", "REQUESTED_STOP"} => b \in local[w]

\* The edit prefers the list of the worker that holds the block.
Preferred ==
  \A b \in Blocks : b \in stopped \/ Joins(b) =>
    \A w \in Workers : ~closed[w] /\ b \in Held(w) => held[b] = w

Running ==
  \A b \in graph : bstate[b] = "RUNNING" =>
    (\E w \in Workers : ~closed[w] /\ b \in Held(w)) \/ (todo = "queue" /\ b = joining)

\* A worker that is about to leave has no block that runs but those it is yet to take.
Finished ==
  \A w \in Workers : finishing[w] /\ pc[w] \in {"cleanup", "adopt", "close"} =>
    \A b \in local[w] : bstate[b] = "RUNNING" => b \in ToSet(queue[w]) \/ (todo = "queue" /\ b = joining)

ListPart == HeldApart /\ OrdersApart /\ Untouched /\ Dropped /\ Recorded /\ QueuedIsListed
EditPart == EditShape /\ EditBlocks /\ Excluded /\ Preferred
RunInv   == Types /\ EditPart /\ Leaves /\ ListPart /\ Running /\ Finished

\* Once the run is over, a worker that is still to call its blocks takes no more.
ListsInv ==
  /\ running \in BOOLEAN /\ pc \in [Workers -> Places] /\ local = [w \in Workers |-> local[w]]
  /\ OneWorkerPerBlock
  /\ running => RunInv /\ swept = "no"

-----------------------------------------------------------------------------
(* Sequences as sets of blocks. *)

LEMMA SetOfAppend ==
  ASSUME NEW S, NEW s \in Seq(S), NEW x \in S
  PROVE  Append(s, x) \in Seq(S) /\ ToSet(Append(s, x)) = ToSet(s) \cup {x}
<1>1. /\ Append(s, x) \in Seq(S) /\ Len(Append(s, x)) = Len(s) + 1 /\ Len(s) \in Nat
      /\ \A i \in 1 .. Len(s) : Append(s, x)[i] = s[i]
      /\ Append(s, x)[Len(s) + 1] = x
  BY AppendProperties, LenProperties
<1>2. DOMAIN s = 1 .. Len(s) /\ DOMAIN Append(s, x) = 1 .. Len(s) + 1
  BY <1>1, LenProperties
<1>3. QED
  BY <1>1, <1>2 DEF ToSet

LEMMA SetOfSeq ==
  ASSUME NEW S
  PROVE  /\ \A s \in Seq(S) : ToSet(s) \subseteq S /\ (ToSet(s) = {} => s = <<>>)
         /\ ToSet(<<>>) = {}
<1>1. ASSUME NEW s \in Seq(S) PROVE ToSet(s) \subseteq S /\ (ToSet(s) = {} => s = <<>>)
  <2>1. DOMAIN s = 1 .. Len(s) /\ Len(s) \in Nat /\ \A i \in 1 .. Len(s) : s[i] \in S
    BY LenProperties, ElementOfSeq
  <2>2. s # <<>> => 1 \in 1 .. Len(s)
    BY <2>1, EmptySeq
  <2>3. QED
    BY <2>1, <2>2 DEF ToSet
<1>2. ToSet(<<>>) = {}
  BY DEF ToSet
<1>3. QED
  BY <1>1, <1>2

\* The first entry of a block is taken out of a queue, no other block's.
LEMMA SetOfRest ==
  ASSUME NEW S, NEW s \in Seq(S), NEW x
  PROVE  /\ RemoveFirst(s, x) \in Seq(S)
         /\ ToSet(RemoveFirst(s, x)) \subseteq ToSet(s)
         /\ ToSet(s) \ {x} \subseteq ToSet(RemoveFirst(s, x))
<1>1. Len(s) \in Nat /\ DOMAIN s = 1 .. Len(s) /\ \A i \in 1 .. Len(s) : s[i] \in S
  BY LenProperties, ElementOfSeq
<1>2. CASE ~\E i \in 1 .. Len(s) : s[i] = x
  BY <1>2 DEF RemoveFirst
<1>3. CASE \E i \in 1 .. Len(s) : s[i] = x
  <2> DEFINE I == {i \in 1 .. Len(s) : s[i] = x}
             Less == {ss \in Nat \X Nat : ss[1] < ss[2]}
  <2>1. I \subseteq Nat /\ I # {}
    BY <1>1, <1>3
  <2>2. IsWellFoundedOn(Less, Nat)
    BY NatLessThanWellFounded DEF OpToRel
  <2>3. PICK m \in I : \A j \in I : ~(<<j, m>> \in Less)
    <3> HIDE DEF Less, I
    <3>1. QED
      BY <2>1, <2>2, WFMin
  <2>4. ASSUME NEW j \in I PROVE m <= j
    <3> SUFFICES ASSUME j < m PROVE FALSE
      BY <2>1
    <3>1. <<j, m>> \in Nat \X Nat /\ <<j, m>>[1] = j /\ <<j, m>>[2] = m
      BY <2>1
    <3>2. <<j, m>> \in Less
      BY <3>1
    <3>3. QED
      BY <3>2, <2>3
  <2>5. Min(I) \in I
    BY <2>3, <2>4 DEF Min
  <2>6. SelectInSeq(s, LAMBDA v : v = x) = Min(I)
    BY <2>1 DEF SelectInSeq
  <2>7. PICK k : k = Min(I)
    OBVIOUS
  <2>8. k \in 1 .. Len(s) /\ s[k] = x
    BY <2>5, <2>7
  <2>9. RemoveFirst(s, x) = RemoveAt(s, k)
    BY <1>3, <2>6, <2>7 DEF RemoveFirst
  <2> DEFINE r == [i \in 1 .. Len(s) - 1 |-> IF i < k THEN s[i] ELSE s[i + 1]]
  <2>10. RemoveAt(s, k) = r
    <3> DEFINE a == SubSeq(s, 1, k - 1)
               b == SubSeq(s, k + 1, Len(s))
    <3>1. a \in Seq(S) /\ Len(a) = k - 1 /\ \A i \in 1 .. k - 1 : a[i] = s[i]
      BY <1>1, <2>8
    <3>2. b \in Seq(S) /\ Len(b) = Len(s) - k /\ \A i \in 1 .. Len(s) - k : b[i] = s[k + i]
      <4>1. k + 1 \in Int /\ Len(s) \in Int /\ k \in Int /\ \A i \in k + 1 .. Len(s) : s[i] \in S
        BY <1>1, <2>8
      <4>2. /\ b \in Seq(S) /\ Len(b) = IF k + 1 <= Len(s) THEN Len(s) - (k + 1) + 1 ELSE 0
            /\ \A i \in 1 .. Len(s) - (k + 1) + 1 : b[i] = s[(k + 1) + i - 1]
        BY <4>1, SubSeqProperties, SMTT(20)
      <4> HIDE DEF b
      <4>3. \A i \in 1 .. Len(s) - k : i \in 1 .. Len(s) - (k + 1) + 1 /\ (k + 1) + i - 1 = k + i
        BY <4>1
      <4>4. QED
        BY <4>1, <4>2, <4>3, <2>8
    <3> HIDE DEF a, b
    <3>3. a \o b \in Seq(S) /\ Len(a \o b) = Len(s) - 1
      <4>1. a \o b \in Seq(S) /\ Len(a \o b) = Len(a) + Len(b)
        BY <3>1, <3>2, ConcatProperties
      <4>2. QED
        BY <4>1, <3>1, <3>2, <1>1, <2>8
    <3>4. ASSUME NEW i \in 1 .. Len(s) - 1 PROVE (a \o b)[i] = r[i]
      <4>1. (a \o b)[i] = IF i <= k - 1 THEN a[i] ELSE b[i - (k - 1)]
        <5>1. i \in 1 .. Len(a) + Len(b)
          BY <3>1, <3>2, <1>1, <2>8, SMTT(20)
        <5>2. QED
          BY <5>1, <3>1, <3>2, ConcatProperties, SMTT(20)
      <4>2. r[i] = IF i <= k - 1 THEN s[i] ELSE s[i + 1]
        BY <1>1, <2>8
      <4> HIDE DEF r
      <4>3. CASE i <= k - 1
        <5>1. i \in 1 .. k - 1
          BY <4>3, <1>1, <2>8
        <5>2. QED
          BY <4>1, <4>2, <4>3, <5>1, <3>1
      <4>4. CASE ~(i <= k - 1)
        <5>1. i - (k - 1) \in 1 .. Len(s) - k /\ k + (i - (k - 1)) = i + 1
          BY <4>4, <1>1, <2>8
        <5>2. QED
          BY <4>1, <4>2, <4>4, <5>1, <3>2
      <4>5. QED
        BY <4>3, <4>4
    <3>5. r \in Seq(S) /\ Len(r) = Len(s) - 1
      BY <1>1, <2>8
    <3>6. RemoveAt(s, k) = a \o b
      BY DEF RemoveAt, a, b
    <3> HIDE DEF r
    <3>7. QED
      BY <3>3, <3>4, <3>5, <3>6, SeqEqual
  <2>11. r \in Seq(S) /\ DOMAIN r = 1 .. Len(s) - 1
    BY <1>1, <2>8
  <2>12. ASSUME NEW i \in 1 .. Len(s), s[i] # x PROVE s[i] \in ToSet(r)
    <3>1. CASE i < k
      <4>1. i \in 1 .. Len(s) - 1 /\ r[i] = s[i]
        BY <3>1, <1>1, <2>8
      <4>2. QED
        BY <4>1, <2>11 DEF ToSet
    <3>2. CASE i > k
      <4>1. i - 1 \in 1 .. Len(s) - 1 /\ r[i - 1] = s[i]
        BY <3>2, <1>1, <2>8
      <4>2. QED
        BY <4>1, <2>11 DEF ToSet
    <3>3. QED
      BY <3>1, <3>2, <2>8, <2>12, <1>1
  <2>13. \A i \in 1 .. Len(s) - 1 : r[i] \in ToSet(s)
    BY <1>1, <2>8 DEF ToSet
  <2>14. ToSet(r) \subseteq ToSet(s)
    BY <2>11, <2>13 DEF ToSet
  <2>15. ToSet(s) \ {x} \subseteq ToSet(r)
    BY <2>12, <1>1 DEF ToSet
  <2>16. QED
    BY <2>9, <2>10, <2>11, <2>14, <2>15
<1>4. QED
  BY <1>2, <1>3

-----------------------------------------------------------------------------
(* What a step of a worker leaves as it is. *)

LEMMA HeldInBlocks ==
  ASSUME Types, NEW w \in Workers
  PROVE  Held(w) \subseteq Blocks /\ ToSet(queue[w]) \subseteq Blocks /\ ToSet(taken[w]) \subseteq Blocks
<1>1. queue[w] \in Seq(Blocks) /\ taken[w] \in Seq(Blocks) /\ local[w] \subseteq Blocks
  BY DEF Types
<1>2. QED
  BY <1>1, SetOfSeq DEF Held

\* Of the edit: a worker outside of it gives up blocks at most, and stops those it calls
\* or that are asked to stop.
LEMMA EditKept ==
  ASSUME RunInv, NEW w \in Workers, UNCHANGED <<graph, edit>>,
         pc[w] # "edit", NEW l \in Places, pc' = [pc EXCEPT ![w] = l],
         l = "working" => pc[w] = "working" \/ ~quiet,
         \A v \in Workers : Held(v)' \subseteq Held(v) /\ (closed[v] => closed'[v]),
         \A b \in Blocks : \/ bstate'[b] = bstate[b]
                           \/ bstate'[b] = "STOPPED" /\ bstate[b] = "REQUESTED_STOP"
                           \/ bstate'[b] = "STOPPED" /\ bstate[b] = "RUNNING" /\ pc[w] = "working" /\ b \in local[w]
  PROVE  EditPart'
<1>1. UNCHANGED <<editor, old, new, nEdits, todo, joining, stopped, held, wasActive, quiet, graph>>
  BY DEF edit, target, guards
<1>2. pc \in [Workers -> Places] /\ EditShape /\ EditBlocks /\ Excluded /\ Preferred
  BY DEF RunInv, EditPart, Types
<1>3. EditShape'
  BY <1>1, <1>2 DEF EditShape
<1>4. Excluded'
  <2>1. ASSUME quiet, todo # "await", NEW v \in Workers PROVE pc'[v] # "working"
    BY <1>2, <2>1 DEF Excluded
  <2>2. QED
    BY <1>1, <1>2, <2>1 DEF Excluded
<1>5. Preferred'
  BY <1>1, <1>2 DEF Preferred, Joins
<1>6. todo = "queue" => bstate'[joining] = "RUNNING"
  <2> SUFFICES ASSUME todo = "queue" PROVE bstate'[joining] = "RUNNING"
    OBVIOUS
  <2>1. bstate[joining] = "RUNNING" /\ joining \in Blocks /\ todo \in JoinSteps
    BY <1>2 DEF EditBlocks, EditShape, JoinSteps
  <2>2. CASE old = NoBlock /\ new # NoBlock
    <3>1. joining = new
      BY <2>1, <2>2, <1>2 DEF EditShape
    <3>2. joining \notin local[w]
      BY <2>1, <3>1, <1>2 DEF EditBlocks, Joins, Held
    <3>3. QED
      BY <2>1, <3>2
  <2>3. CASE ~(old = NoBlock /\ new # NoBlock)
    BY <2>1, <2>3, <1>2 DEF Excluded
  <2>4. QED
    BY <2>2, <2>3
<1>7. EditBlocks'
  <2>1. old \in Blocks \cup {NoBlock} /\ new \in Blocks \cup {NoBlock} /\ joining \in Blocks \cup {NoBlock} /\ stopped \subseteq Blocks
    BY <1>2 DEF EditShape
  <2>2. \A b \in Blocks : /\ bstate[b] \in {"INITIALISED", "STOPPED", "ERROR"} => bstate'[b] = bstate[b]
                          /\ bstate[b] # "RUNNING" => bstate'[b] # "RUNNING"
                          /\ bstate[b] # "INITIALISED" => bstate'[b] # "INITIALISED"
    OBVIOUS
  <2>3. Relinks' = Relinks /\ Restarts' = Restarts /\ Joins(new)' = Joins(new)
    BY <1>1 DEF Relinks, Restarts, Joins
  <2>4. /\ Relinks => /\ new # NoBlock => bstate'[new] = "INITIALISED" /\ new \notin graph
                      /\ old # NoBlock => old # new
        /\ todo = "release" /\ old = NoBlock /\ new # NoBlock => bstate'[new] = "INITIALISED"
    BY <1>2, <2>1, <2>2 DEF EditBlocks
  <2>5. Joins(new) => /\ todo # "queue" => bstate'[new] = "INITIALISED"
                      /\ \A v \in Workers : new \notin Held(v)'
    <3>1. Joins(new) => new \in Blocks
      BY <1>2 DEF Joins, EditShape
    <3>2. QED
      BY <3>1, <1>2, <2>2 DEF EditBlocks
  <2>6. todo \in {"unqueue", "bury"} => bstate'[old] # "RUNNING" /\ (wasActive => bstate'[old] # "INITIALISED")
    <3>1. todo \in {"unqueue", "bury"} => old \in Blocks
      BY <1>2, <2>1 DEF EditShape
    <3>2. QED
      BY <3>1, <1>2, <2>2 DEF EditBlocks
  <2>7. Restarts => \A e \in stopped : bstate'[e] = "STOPPED"
    BY <1>2, <2>1, <2>2 DEF EditBlocks
  <2>8. /\ todo \in {"active", "open", "start"} /\ joining # new => bstate'[joining] = "STOPPED"
        /\ todo = "withdraw" => bstate'[joining] \in {"STOPPED", "ERROR"}
    <3>1. todo \in {"active", "open", "start", "withdraw"} => joining \in Blocks
      BY <1>2 DEF EditShape, JoinSteps
    <3>2. QED
      BY <3>1, <1>2, <2>2 DEF EditBlocks
  <2>9. QED
    BY <1>1, <1>2, <1>6, <2>3, <2>4, <2>5, <2>6, <2>7, <2>8 DEF EditBlocks
<1>8. QED
  BY <1>3, <1>4, <1>5, <1>7 DEF EditPart

\* Of the lists: a step that leaves them and the states of the blocks.
LEMMA ListKept ==
  ASSUME RunInv, UNCHANGED <<graph, bstate, order, queue, closed, zombies, withdrawn, local, taken>>
  PROVE  ListPart' /\ (UNCHANGED <<todo, joining>> => Running')
<1>1. \A w \in Workers : Held(w)' = Held(w)
  BY DEF Held
<1>2. HeldApart' /\ OrdersApart' /\ Untouched' /\ Dropped' /\ Recorded' /\ QueuedIsListed'
  BY <1>1 DEF RunInv, ListPart, HeldApart, OrdersApart, Untouched, Dropped, Recorded, QueuedIsListed
<1>3. UNCHANGED <<todo, joining>> => Running'
  BY <1>1 DEF RunInv, Running
<1>4. QED
  BY <1>2, <1>3 DEF ListPart

\* A worker that goes on in its loop has not closed its list.
LEMMA IsOpen ==
  ASSUME RunInv, NEW w \in Workers, pc[w] \notin {"leave", "gone"}
  PROVE  ~closed[w]
  BY DEF RunInv, Leaves

LEMMA PassKeeps ==
  ASSUME RunInv, running, running', NEW w \in Workers, Top(w) \/ Messages(w) \/ ReadState(w)
  PROVE  RunInv'
<1>1. /\ UNCHANGED <<running, swept, graph, bstate, lists, local, taken, edit>>
      /\ pc[w] \in {"top", "messages", "state"}
      /\ \E l \in {"work", "messages", "cleanup"} :
           /\ pc' = [pc EXCEPT ![w] = l]
           /\ l = "messages" => finishing'[w] = FALSE
           /\ l = "cleanup" => pc[w] = "messages" /\ finishing' = finishing
      /\ finishing' = finishing \/ finishing' = [finishing EXCEPT ![w] = FALSE]
  <2>1. CASE Top(w)
    BY <2>1 DEF Top, Goto, RunInv, Types
  <2>2. CASE Messages(w)
    BY <2>2 DEF Messages, Goto
  <2>3. CASE ReadState(w)
    BY <2>3 DEF ReadState, Goto
  <2>4. QED
    BY <2>1, <2>2, <2>3
<1>2. PICK l \in {"work", "messages", "cleanup"} :
        /\ pc' = [pc EXCEPT ![w] = l]
        /\ l = "messages" => finishing'[w] = FALSE
        /\ l = "cleanup" => pc[w] = "messages" /\ finishing' = finishing
  BY <1>1
<1>3. UNCHANGED <<order, queue, closed, zombies, withdrawn, graph, bstate, local, taken, todo, joining>>
  BY <1>1 DEF lists, edit
<1>4. Types'
  BY <1>1, <1>2, <1>3 DEF RunInv, Types, Places
<1>5. EditPart'
  <2>1. \A v \in Workers : Held(v)' \subseteq Held(v)
    BY <1>3 DEF Held
  <2>2. QED
    BY <1>1, <1>2, <1>3, <2>1, EditKept DEF Places
<1>6. ListPart' /\ Running'
  BY <1>3, ListKept
<1>7. Leaves'
  BY <1>1, <1>2, <1>3 DEF RunInv, Types, Leaves
<1>8. Finished'
  BY <1>1, <1>2, <1>3 DEF RunInv, Types, Finished, Leaves
<1>9. QED
  BY <1>4, <1>5, <1>6, <1>7, <1>8 DEF RunInv

LEMMA CleanupKeeps ==
  ASSUME RunInv, running, running', NEW w \in Workers, cleanupZombieBlocks(w)
  PROVE  RunInv'
<1> DEFINE D == Deletable(w)
<1>1. D \subseteq zombies /\ D \subseteq local[w]
  BY DEF Deletable
<1>2. /\ UNCHANGED <<graph, bstate, queue, closed, withdrawn, taken, finishing, edit>>
      /\ pc[w] = "cleanup" /\ pc' = [pc EXCEPT ![w] = "adopt"]
      /\ zombies' = zombies \ D /\ local' = [local EXCEPT ![w] = local[w] \ D]
      /\ order' = [i \in Workers |-> order[i] \ D]
  BY DEF cleanupZombieBlocks, Goto, Without
<1> HIDE DEF D
<1>3. ~closed[w]
  BY <1>2, IsOpen
<1>4. Types /\ EditPart /\ Leaves /\ HeldApart /\ OrdersApart /\ Untouched /\ Dropped /\ Recorded /\ QueuedIsListed /\ Running /\ Finished
  BY DEF RunInv, ListPart
<1>5. Types'
  BY <1>2, <1>4 DEF Types, Places
<1>6. \A v \in Workers : local'[v] = (IF v = w THEN local[w] \ D ELSE local[v])
  BY <1>2, <1>4 DEF Types
<1>7. \A v \in Workers : Held(v)' \subseteq Held(v) /\ Held(v) \ D \subseteq Held(v)'
  BY <1>2, <1>6 DEF Held
<1>8. \A v \in Workers : ~closed[v] /\ v # w => D \cap Held(v) = {}
  BY <1>1, <1>3, <1>4 DEF HeldApart, Held
<1>9. D \cap graph = {}
  BY <1>1, <1>4 DEF Dropped
<1>10. EditPart'
  BY <1>2, <1>7, EditKept DEF Places
<1>11. Leaves'
  BY <1>2, <1>4 DEF Leaves, Types
<1>12. HeldApart'
  BY <1>2, <1>4, <1>7 DEF HeldApart
<1>13. OrdersApart' /\ Untouched' /\ Dropped'
  BY <1>2, <1>4, <1>7 DEF OrdersApart, Untouched, Dropped
<1>14. Recorded'
  BY <1>2, <1>4, <1>6, <1>8 DEF Recorded, Held
<1>15. QueuedIsListed'
  BY <1>2, <1>4, <1>6, <1>9 DEF QueuedIsListed
<1>16. Running'
  <2>1. UNCHANGED <<todo, joining>>
    BY <1>2 DEF edit
  <2>2. QED
    BY <1>2, <1>4, <1>7, <1>9, <2>1 DEF Running
<1>17. Finished'
  <2>1. UNCHANGED <<todo, joining>>
    BY <1>2 DEF edit
  <2>2. QED
    BY <1>2, <1>4, <1>6, <2>1 DEF Finished, Types
<1>18. QED
  BY <1>5, <1>10, <1>11, <1>12, <1>13, <1>14, <1>15, <1>16, <1>17 DEF RunInv, ListPart

LEMMA TakeKeeps ==
  ASSUME RunInv, running, running', NEW w \in Workers, Take(w)
  PROVE  RunInv'
<1>1. /\ UNCHANGED <<graph, bstate, order, closed, zombies, withdrawn, local, finishing, edit>>
      /\ pc[w] = "adopt"
      /\ taken' = [taken EXCEPT ![w] = queue[w]] /\ queue' = [queue EXCEPT ![w] = <<>>]
  BY DEF Take
<1>2. PICK l \in {"record", "close", "state"} :
        /\ pc' = [pc EXCEPT ![w] = l]
        /\ l = "record" <=> queue[w] # <<>>
        /\ l = "close" => finishing[w]
  BY DEF Take, Goto
<1>3. Types /\ EditPart /\ Leaves /\ HeldApart /\ OrdersApart /\ Untouched /\ Dropped /\ Recorded /\ QueuedIsListed /\ Running /\ Finished
  BY DEF RunInv, ListPart
<1>4. Types'
  <2>1. queue' \in [Workers -> Seq(Blocks)] /\ taken' \in [Workers -> Seq(Blocks)]
    BY <1>1, <1>3 DEF Types
  <2>2. QED
    BY <1>1, <1>2, <1>3, <2>1 DEF Types, Places
<1>5. taken[w] = <<>> /\ ToSet(<<>>) = {}
  BY <1>1, <1>3, SetOfSeq DEF Leaves
<1>6. \A v \in Workers : ToSet(taken'[v]) \cup ToSet(queue'[v]) = ToSet(taken[v]) \cup ToSet(queue[v])
  BY <1>1, <1>3, <1>5 DEF Types
<1>7. \A v \in Workers : Held(v)' = Held(v)
  BY <1>1, <1>6 DEF Held
<1>8. EditPart'
  BY <1>1, <1>2, <1>7, EditKept DEF Places
<1>9. Leaves'
  BY <1>1, <1>2, <1>3 DEF Leaves, Types
<1>10. HeldApart' /\ OrdersApart' /\ Untouched' /\ Dropped' /\ Recorded'
  BY <1>1, <1>3, <1>7 DEF HeldApart, OrdersApart, Untouched, Dropped, Recorded
<1>11. QueuedIsListed'
  BY <1>1, <1>3, <1>6 DEF QueuedIsListed
<1>12. UNCHANGED <<todo, joining>>
  BY <1>1 DEF edit
<1>13. Running'
  BY <1>1, <1>3, <1>7, <1>12 DEF Running
<1>14. Finished'
  BY <1>1, <1>2, <1>3, <1>5, <1>12 DEF Finished, Types
<1>15. QED
  BY <1>4, <1>8, <1>9, <1>10, <1>11, <1>13, <1>14 DEF RunInv, ListPart

LEMMA RecordKeeps ==
  ASSUME RunInv, running, running', NEW w \in Workers, Record(w)
  PROVE  RunInv'
<1> DEFINE T == ToSet(taken[w])
<1>1. /\ UNCHANGED <<graph, bstate, queue, closed, zombies, withdrawn, finishing, edit>>
      /\ pc[w] = "record"
      /\ taken' = [taken EXCEPT ![w] = <<>>] /\ local' = [local EXCEPT ![w] = local[w] \cup T]
      /\ order' = [[i \in Workers |-> order[i] \ T] EXCEPT ![w] = order[w] \cup T]
  BY DEF Record, Without
<1>2. PICK l \in {"top", "state"} : pc' = [pc EXCEPT ![w] = l]
  BY DEF Record, Goto
<1>3. Types /\ EditPart /\ Leaves /\ HeldApart /\ OrdersApart /\ Untouched /\ Dropped /\ Recorded /\ QueuedIsListed /\ Running /\ Finished
  BY DEF RunInv, ListPart
<1>4. T \subseteq Blocks /\ ToSet(<<>>) = {} /\ T = ToSet(taken[w])
  BY <1>3, HeldInBlocks, SetOfSeq
<1> HIDE DEF T
<1>5. /\ \A v \in Workers : local'[v] = (IF v = w THEN local[w] \cup T ELSE local[v])
      /\ \A v \in Workers : order'[v] = (IF v = w THEN order[w] \cup T ELSE order[v] \ T)
      /\ \A v \in Workers : ToSet(taken'[v]) = (IF v = w THEN {} ELSE ToSet(taken[v]))
  BY <1>1, <1>3, <1>4 DEF Types
<1>6. Types'
  <2>1. taken' \in [Workers -> Seq(Blocks)] /\ local' \in [Workers -> SUBSET Blocks] /\ order' \in [Workers -> SUBSET Blocks]
    BY <1>1, <1>3, <1>4 DEF Types
  <2>2. QED
    BY <1>1, <1>2, <1>3, <2>1 DEF Types, Places
<1>7. \A v \in Workers : Held(v)' = Held(v)
  BY <1>1, <1>4, <1>5 DEF Held
<1>8. ~closed[w]
  BY <1>1, IsOpen
<1>9. \A v \in Workers : ~closed[v] /\ v # w => T \cap Held(v) = {}
  BY <1>3, <1>4, <1>8 DEF HeldApart, Held
<1>10. EditPart'
  BY <1>1, <1>2, <1>7, EditKept DEF Places
<1>11. Leaves'
  BY <1>1, <1>2, <1>3 DEF Leaves, Types
<1>12. HeldApart'
  BY <1>1, <1>3, <1>7 DEF HeldApart
<1>13. OrdersApart' /\ Dropped'
  BY <1>1, <1>3, <1>5 DEF OrdersApart, Dropped
<1>14. Untouched'
  BY <1>1, <1>3, <1>4, <1>5, <1>7 DEF Untouched, Held
<1>15. Recorded'
  BY <1>1, <1>3, <1>5, <1>9 DEF Recorded, Held
<1>16. QueuedIsListed'
  BY <1>1, <1>3, <1>5 DEF QueuedIsListed
<1>17. UNCHANGED <<todo, joining>>
  BY <1>1 DEF edit
<1>18. Running'
  BY <1>1, <1>3, <1>7, <1>17 DEF Running
<1>19. Finished'
  BY <1>1, <1>2, <1>3, <1>5, <1>17 DEF Finished, Types
<1>20. QED
  BY <1>6, <1>10, <1>11, <1>12, <1>13, <1>14, <1>15, <1>16, <1>18, <1>19 DEF RunInv, ListPart

LEMMA BeginWorkKeeps ==
  ASSUME RunInv, running, running', NEW w \in Workers, BeginWork(w)
  PROVE  RunInv'
<1>1. PICK D \in SUBSET ToSet(withdrawn) :
        /\ local' = [v \in Workers |-> IF v = w THEN local[w] \ D ELSE local[v]]
        /\ order' = [v \in Workers |-> order[v] \ D]
  <2>1. CASE Len(withdrawn) # seen[w]
    <3>1. local' = [local EXCEPT ![w] = local[w] \ ToSet(withdrawn)] /\ order' = [v \in Workers |-> order[v] \ ToSet(withdrawn)]
      BY <2>1 DEF BeginWork, Without
    <3>2. local' = [v \in Workers |-> IF v = w THEN local[w] \ ToSet(withdrawn) ELSE local[v]]
      BY <3>1 DEF RunInv, Types
    <3>3. QED
      BY <3>1, <3>2
  <2>2. CASE Len(withdrawn) = seen[w]
    <3>1. local' = local /\ order' = order
      BY <2>2 DEF BeginWork
    <3>2. local' = [v \in Workers |-> IF v = w THEN local[w] \ {} ELSE local[v]] /\ order' = [v \in Workers |-> order[v] \ {}]
      BY <3>1 DEF RunInv, Types
    <3>3. QED
      BY <3>2
  <2>3. QED
    BY <2>1, <2>2
<1>2. /\ UNCHANGED <<graph, bstate, queue, closed, zombies, withdrawn, taken, finishing, edit>>
      /\ pc[w] = "work" /\ ~quiet /\ pc' = [pc EXCEPT ![w] = "working"]
  BY DEF BeginWork, Goto
<1>3. Types /\ EditPart /\ Leaves /\ HeldApart /\ OrdersApart /\ Untouched /\ Dropped /\ Recorded /\ QueuedIsListed /\ Running /\ Finished
  BY DEF RunInv, ListPart
<1>4. /\ \A v \in Workers : local'[v] \subseteq local[v] /\ local[v] \ D \subseteq local'[v]
      /\ \A v \in Workers : order'[v] = order[v] \ D
  BY <1>1
<1>5. \A b \in D : bstate[b] = "ERROR"
  BY <1>1, <1>3 DEF Dropped
<1>6. Types'
  <2>1. local' \in [Workers -> SUBSET Blocks] /\ order' \in [Workers -> SUBSET Blocks]
    BY <1>1, <1>3 DEF Types
  <2>2. QED
    BY <1>2, <1>3, <2>1 DEF Types, Places
<1>7. \A v \in Workers : Held(v)' \subseteq Held(v) /\ Held(v) \ D \subseteq Held(v)'
  BY <1>2, <1>4 DEF Held
<1>8. EditPart'
  BY <1>2, <1>7, EditKept DEF Places
<1>9. Leaves'
  BY <1>2, <1>3 DEF Leaves, Types
<1>10. HeldApart' /\ OrdersApart' /\ Untouched' /\ Dropped'
  BY <1>2, <1>3, <1>4, <1>7 DEF HeldApart, OrdersApart, Untouched, Dropped
<1>11. Recorded' /\ QueuedIsListed'
  BY <1>2, <1>3, <1>4, <1>5 DEF Recorded, QueuedIsListed
<1>12. UNCHANGED <<todo, joining>>
  BY <1>2 DEF edit
<1>13. Running'
  BY <1>2, <1>3, <1>5, <1>7, <1>12 DEF Running
<1>14. Finished'
  BY <1>2, <1>3, <1>4, <1>12 DEF Finished, Types
<1>15. QED
  BY <1>6, <1>8, <1>9, <1>10, <1>11, <1>13, <1>14 DEF RunInv, ListPart

LEMMA EndWorkKeeps ==
  ASSUME RunInv, running, running', NEW w \in Workers, EndWork(w)
  PROVE  RunInv'
<1>1. /\ UNCHANGED <<graph, lists, local, taken, seen, edit>> /\ pc[w] = "working"
      /\ \E ended \in SUBSET local[w] :
           bstate' = [b \in Blocks |-> IF b \in local[w] /\ (bstate[b] = "REQUESTED_STOP" \/ (b \in ended /\ bstate[b] = "RUNNING"))
                                       THEN "STOPPED" ELSE bstate[b]]
  BY DEF EndWork
<1>2. PICK done \in BOOLEAN :
        /\ done = (\A b \in local[w] : bstate'[b] = "STOPPED")
        /\ finishing' = [finishing EXCEPT ![w] = done]
        /\ pc' = [pc EXCEPT ![w] = IF done THEN "cleanup" ELSE "top"]
  <2>1. ~\E b \in local[w] : bstate[b] = "ERROR"
    BY DEF EndWork
  <2>2. QED
    BY <2>1 DEF EndWork, Goto
<1>3. UNCHANGED <<order, queue, closed, zombies, withdrawn, todo, joining>>
  BY <1>1 DEF lists, edit
<1>4. Types /\ EditPart /\ Leaves /\ HeldApart /\ OrdersApart /\ Untouched /\ Dropped /\ Recorded /\ QueuedIsListed /\ Running /\ Finished
  BY DEF RunInv, ListPart
<1>5. /\ bstate' \in [Blocks -> States]
      /\ \A b \in Blocks : \/ bstate'[b] = bstate[b]
                           \/ /\ bstate'[b] = "STOPPED" /\ bstate[b] \in {"REQUESTED_STOP", "RUNNING"} /\ b \in local[w]
  BY <1>1, <1>4 DEF Types, States
<1>6. \A v \in Workers : Held(v)' = Held(v) /\ Held(v) \subseteq Blocks
  BY <1>1, <1>3, <1>4, HeldInBlocks DEF Held
<1>7. Types'
  BY <1>1, <1>2, <1>3, <1>4, <1>5 DEF Types, Places
<1>8. EditPart'
  <2>1. PICK l \in Places : l # "working" /\ pc' = [pc EXCEPT ![w] = l]
    BY <1>2 DEF Places
  <2>2. QED
    BY <1>1, <1>3, <1>5, <1>6, <2>1, EditKept
<1>9. Leaves'
  BY <1>1, <1>2, <1>3, <1>4 DEF Leaves, Types
<1>10. ~closed[w]
  BY <1>1, IsOpen
<1>11. HeldApart' /\ OrdersApart'
  BY <1>3, <1>4, <1>6 DEF HeldApart, OrdersApart
<1>12. Untouched'
  BY <1>3, <1>4, <1>5, <1>6 DEF Untouched
<1>13. Dropped'
  <2>1. ToSet(withdrawn) \subseteq Blocks
    BY <1>4, SetOfSeq DEF Types
  <2>2. QED
    BY <1>1, <1>3, <1>4, <1>5, <2>1 DEF Dropped
<1>14. Recorded'
  BY <1>1, <1>3, <1>4, <1>5 DEF Recorded, Types
<1>15. QueuedIsListed'
  <2> SUFFICES ASSUME NEW v \in Workers, ~closed[v], NEW b \in graph, b \in ToSet(taken[v]) \cup ToSet(queue[v]),
                      bstate'[b] \in {"STOPPED", "REQUESTED_STOP"}
               PROVE  b \in local[v]
    BY <1>1, <1>3 DEF QueuedIsListed
  <2>1. b \in Blocks /\ b \in Held(v)
    BY <1>4 DEF Types, Held
  <2>2. CASE bstate'[b] = bstate[b]
    BY <2>2, <1>4 DEF QueuedIsListed
  <2>3. CASE b \in local[w]
    <3>1. v = w
      BY <2>1, <2>3, <1>4, <1>10 DEF HeldApart, Held
    <3>2. QED
      BY <2>3, <3>1
  <2>4. QED
    BY <2>1, <2>2, <2>3, <1>5
<1>16. Running'
  BY <1>1, <1>3, <1>4, <1>5, <1>6 DEF Running, Types
<1>17. Finished'
  <2> SUFFICES ASSUME NEW v \in Workers, finishing'[v], pc'[v] \in {"cleanup", "adopt", "close"}, NEW b \in local[v], bstate'[b] = "RUNNING"
               PROVE  b \in ToSet(queue[v]) \/ (todo = "queue" /\ b = joining)
    BY <1>1, <1>3 DEF Finished
  <2>1. b \in Blocks
    BY <1>4 DEF Types
  <2>2. CASE v = w
    BY <2>2, <1>2, <1>4 DEF Types
  <2>3. CASE v # w
    <3>1. finishing[v] /\ pc[v] \in {"cleanup", "adopt", "close"} /\ bstate[b] = "RUNNING"
      BY <2>1, <2>3, <1>2, <1>4, <1>5 DEF Types
    <3>2. QED
      BY <3>1, <1>4 DEF Finished
  <2>4. QED
    BY <2>2, <2>3
<1>18. QED
  BY <1>7, <1>8, <1>9, <1>11, <1>12, <1>13, <1>14, <1>15, <1>16, <1>17 DEF RunInv, ListPart

LEMMA CloseKeeps ==
  ASSUME RunInv, running, running', NEW w \in Workers, Close(w)
  PROVE  RunInv'
<1>1. /\ UNCHANGED <<graph, bstate, order, queue, zombies, withdrawn, local, taken, finishing, seen, edit>>
      /\ pc[w] = "close"
      /\ closed' = [closed EXCEPT ![w] = closed[w] \/ queue[w] = <<>>]
      /\ pc' = [pc EXCEPT ![w] = IF queue[w] = <<>> THEN "leave" ELSE "top"]
  BY DEF Close, Goto
<1>2. UNCHANGED <<todo, joining>>
  BY <1>1 DEF edit
<1>3. Types /\ EditPart /\ Leaves /\ HeldApart /\ OrdersApart /\ Untouched /\ Dropped /\ Recorded /\ QueuedIsListed /\ Running /\ Finished
  BY DEF RunInv, ListPart
<1>4. ~closed[w] /\ taken[w] = <<>> /\ ToSet(<<>>) = {}
  BY <1>1, <1>3, IsOpen, SetOfSeq DEF Leaves
<1>5. /\ \A v \in Workers : v # w => closed'[v] = closed[v]
      /\ closed'[w] <=> queue[w] = <<>>
      /\ \A v \in Workers : closed[v] => closed'[v]
  BY <1>1, <1>3, <1>4 DEF Types
<1>6. \A v \in Workers : Held(v)' = Held(v)
  BY <1>1 DEF Held
<1>7. Types'
  BY <1>1, <1>3 DEF Types, Places
<1>8. EditPart'
  <2>1. PICK l \in Places : l # "working" /\ pc' = [pc EXCEPT ![w] = l]
    BY <1>1 DEF Places
  <2>2. pc[w] # "edit" /\ UNCHANGED <<graph, edit>> /\ \A b \in Blocks : bstate'[b] = bstate[b]
    BY <1>1
  <2>3. \A v \in Workers : Held(v)' \subseteq Held(v) /\ (closed[v] => closed'[v])
    BY <1>5, <1>6
  <2>4. QED
    BY <2>1, <2>2, <2>3, EditKept
<1>9. Leaves'
  BY <1>1, <1>3, <1>5 DEF Leaves, Types
<1>10. HeldApart' /\ OrdersApart' /\ Untouched' /\ Dropped'
  BY <1>1, <1>3, <1>5, <1>6 DEF HeldApart, OrdersApart, Untouched, Dropped
<1>11. Recorded' /\ QueuedIsListed'
  BY <1>1, <1>3, <1>5 DEF Recorded, QueuedIsListed
<1>12. Running'
  <2> SUFFICES ASSUME NEW b \in graph, bstate[b] = "RUNNING", ~(todo = "queue" /\ b = joining)
               PROVE  \E v \in Workers : ~closed'[v] /\ b \in Held(v)
    BY <1>1, <1>2, <1>6 DEF Running
  <2>1. PICK v \in Workers : ~closed[v] /\ b \in Held(v)
    BY <1>3 DEF Running
  <2>2. CASE v # w
    BY <2>1, <2>2, <1>5
  <2>3. CASE v = w /\ queue[w] # <<>>
    BY <2>1, <2>3, <1>5
  <2>4. CASE v = w /\ queue[w] = <<>>
    <3>1. b \in local[w]
      BY <2>1, <2>4, <1>4 DEF Held
    <3>2. finishing[w]
      BY <1>1, <1>3 DEF Leaves
    <3>3. QED
      BY <3>1, <3>2, <2>4, <1>1, <1>3, <1>4 DEF Finished
  <2>5. QED
    BY <2>2, <2>3, <2>4
<1>13. Finished'
  BY <1>1, <1>2, <1>3 DEF Finished, Types
<1>14. QED
  BY <1>7, <1>8, <1>9, <1>10, <1>11, <1>12, <1>13 DEF RunInv, ListPart

\* While the run is on, only a worker that has closed its list leaves, and it has nothing to
\* hand over.
LEMMA LeaveKeeps ==
  ASSUME RunInv, running, running', NEW w \in Workers, Leave(w)
  PROVE  RunInv'
<1>1. Types /\ EditPart /\ Leaves /\ HeldApart /\ OrdersApart /\ Untouched /\ Dropped /\ Recorded /\ QueuedIsListed /\ Running /\ Finished
  BY DEF RunInv, ListPart
<1>2. pc[w] = "leave" /\ closed[w] /\ queue[w] = <<>>
  BY <1>1 DEF Leave, Leaves
<1>3. /\ UNCHANGED <<graph, order, zombies, withdrawn, taken, finishing, seen, edit>>
      /\ pc' = [pc EXCEPT ![w] = "gone"] /\ queue' = queue /\ closed' = closed
      /\ local' = [local EXCEPT ![w] = {}]
  BY <1>1, <1>2 DEF Leave, Goto, Types
<1>4. bstate' \in [Blocks -> States] /\ \A b \in Blocks : bstate'[b] = bstate[b] \/ (bstate'[b] = "STOPPED" /\ bstate[b] = "REQUESTED_STOP")
  <2>1. bstate' = [b \in Blocks |-> IF InLoop = {w} /\ b \in graph \cap Blocking /\ bstate[b] = "REQUESTED_STOP"
                                    THEN "STOPPED" ELSE bstate[b]]
    BY DEF Leave
  <2>2. QED
    BY <2>1, <1>1 DEF Types, States
<1>5. UNCHANGED <<todo, joining>>
  BY <1>3 DEF edit
<1>6. \A v \in Workers : local'[v] = (IF v = w THEN {} ELSE local[v])
  BY <1>1, <1>3 DEF Types
<1>7. \A v \in Workers : Held(v)' \subseteq Held(v) /\ (~closed[v] => Held(v)' = Held(v)) /\ Held(v) \subseteq Blocks
  BY <1>1, <1>2, <1>3, <1>6, HeldInBlocks DEF Held
<1>8. Types'
  <2>1. local' \in [Workers -> SUBSET Blocks]
    BY <1>1, <1>3 DEF Types
  <2>2. QED
    BY <1>1, <1>3, <1>4, <2>1 DEF Types, Places
<1>9. EditPart'
  BY <1>2, <1>3, <1>4, <1>7, EditKept DEF Places
<1>10. Leaves'
  BY <1>1, <1>2, <1>3 DEF Leaves, Types
<1>11. HeldApart' /\ OrdersApart' /\ Untouched'
  BY <1>1, <1>3, <1>4, <1>7 DEF HeldApart, OrdersApart, Untouched
<1>12. Dropped'
  <2>1. ToSet(withdrawn) \subseteq Blocks
    BY <1>1, SetOfSeq DEF Types
  <2>2. QED
    BY <1>1, <1>3, <1>4, <2>1 DEF Dropped
<1>13. Recorded'
  BY <1>1, <1>2, <1>3, <1>4, <1>6 DEF Recorded, Types
<1>14. QueuedIsListed'
  BY <1>1, <1>2, <1>3, <1>4, <1>6 DEF QueuedIsListed, Types
<1>15. Running'
  BY <1>1, <1>3, <1>4, <1>5, <1>7 DEF Running, Types
<1>16. Finished'
  BY <1>1, <1>3, <1>4, <1>5, <1>6 DEF Finished, Types
<1>17. QED
  BY <1>8, <1>9, <1>10, <1>11, <1>12, <1>13, <1>14, <1>15, <1>16 DEF RunInv, ListPart

LEMMA BeginEditKeeps ==
  ASSUME RunInv, running, running', NEW w \in Workers, BeginEdit(w)
  PROVE  RunInv'
<1>1. /\ UNCHANGED <<graph, bstate, lists, local, taken, finishing, seen, joining, stopped, held, wasActive, guards>>
      /\ pc[w] = "messages" /\ pc' = [pc EXCEPT ![w] = "edit"] /\ editor = NoWorker /\ editor' = w /\ todo' = "request"
      /\ old' \in graph \cup {NoBlock} /\ new' \in {n \in Blocks \ graph : bstate[n] = "INITIALISED"} \cup {NoBlock}
  BY DEF BeginEdit, Goto, Proceed
<1>2. UNCHANGED <<order, queue, closed, zombies, withdrawn, quiet, childLock>>
  BY <1>1 DEF lists, guards
<1>3. Types /\ EditShape /\ EditBlocks /\ Excluded /\ Preferred /\ Leaves /\ Running /\ Finished
  BY DEF RunInv, EditPart
<1>4. todo = "none" /\ stopped = {}
  BY <1>1, <1>3 DEF EditShape
<1>5. Types'
  BY <1>1, <1>2, <1>3 DEF Types, Places
<1>6. EditShape'
  BY <1>1, <1>3, <1>4, ListsAssumption DEF EditShape, JoinSteps, Types
<1>7. EditBlocks'
  BY <1>1, <1>4, ListsAssumption DEF EditBlocks, Relinks, Restarts, Joins, JoinSteps
<1>8. Excluded'
  BY <1>1, <1>2, <1>3, <1>4 DEF Excluded, Types, JoinSteps
<1>9. Preferred'
  BY <1>1, <1>4 DEF Preferred, Joins, JoinSteps
<1>10. ListPart'
  BY <1>1, <1>2, ListKept
<1>11. Leaves'
  BY <1>1, <1>2, <1>3 DEF Leaves, Types
<1>12. Running'
  <2>1. \A v \in Workers : Held(v)' = Held(v)
    BY <1>1, <1>2 DEF Held
  <2>2. QED
    BY <1>1, <1>2, <1>3, <1>4, <2>1 DEF Running
<1>13. Finished'
  BY <1>1, <1>2, <1>3, <1>4 DEF Finished, Types
<1>14. QED
  BY <1>5, <1>6, <1>7, <1>8, <1>9, <1>10, <1>11, <1>12, <1>13 DEF RunInv, EditPart

LEMMA EndEditKeeps ==
  ASSUME RunInv, running, running', NEW w \in Workers, EndEdit(w)
  PROVE  RunInv'
<1>1. /\ UNCHANGED <<graph, bstate, lists, local, taken, finishing, seen, guards>>
      /\ pc' = [pc EXCEPT ![w] = "messages"] /\ editor = w /\ editor' = NoWorker /\ todo = "end" /\ todo' = "none"
      /\ old' = NoBlock /\ new' = NoBlock /\ joining' = NoBlock /\ stopped' = {}
      /\ held' = [b \in Blocks |-> NoWorker] /\ wasActive' = FALSE
  BY DEF EndEdit, Goto, At, Proceed
<1>2. UNCHANGED <<order, queue, closed, zombies, withdrawn, quiet, childLock>>
  BY <1>1 DEF lists, guards
<1>3. Types /\ EditShape /\ EditBlocks /\ Excluded /\ Preferred /\ Leaves /\ Running /\ Finished
  BY DEF RunInv, EditPart
<1>4. pc[w] = "edit" /\ \A v \in Workers : v # w => pc'[v] = pc[v]
  BY <1>1, <1>3 DEF EditShape
<1>5. Types'
  BY <1>1, <1>2, <1>3 DEF Types, Places
<1>6. EditShape'
  BY <1>1, <1>3, ListsAssumption DEF EditShape, JoinSteps
<1>7. EditBlocks'
  BY <1>1 DEF EditBlocks, Relinks, Restarts, Joins, JoinSteps
<1>8. Excluded'
  BY <1>1, <1>2, <1>3 DEF Excluded, Types, JoinSteps
<1>9. Preferred'
  BY <1>1 DEF Preferred, Joins, JoinSteps
<1>10. ListPart'
  BY <1>1, <1>2, ListKept
<1>11. Leaves'
  BY <1>1, <1>2, <1>3, <1>4 DEF Leaves, Types
<1>12. Running'
  <2>1. \A v \in Workers : Held(v)' = Held(v)
    BY <1>1, <1>2 DEF Held
  <2>2. QED
    BY <1>1, <1>2, <1>3, <2>1 DEF Running
<1>13. Finished'
  BY <1>1, <1>2, <1>3 DEF Finished, Types
<1>14. QED
  BY <1>5, <1>6, <1>7, <1>8, <1>9, <1>10, <1>11, <1>12, <1>13 DEF RunInv, EditPart

-----------------------------------------------------------------------------
(* What a step of the edit leaves as it is. *)

SameEnds == (old = NoBlock) = (new = NoBlock)

\* The steps of the four edits: a replacement and a new edge restart endpoints.
LEMMA StepsOfEdits ==
  /\ Steps["request"] = "await"
  /\ Steps["await"] = IF SameEnds THEN "endpoints" ELSE "relink"
  /\ SameEnds => /\ Steps["endpoints"] = "lock"
                 /\ Steps["lock"] = IF old = NoBlock THEN "settle" ELSE "relink"
                 /\ Steps["unlock"] = IF old = NoBlock THEN "release" ELSE "stopOld"
  /\ old # NoBlock => /\ Steps["relink"] = IF new = NoBlock THEN "stopOld" ELSE "active"
                      /\ Steps["stopOld"] = "unqueue" /\ Steps["unqueue"] = "bury" /\ Steps["bury"] = "release"
  /\ old = NoBlock /\ new # NoBlock => Steps["relink"] = "release"
  /\ Steps["release"] = IF old = NoBlock /\ new # NoBlock THEN "active" ELSE "end"
  /\ new # NoBlock => /\ Steps["joined"] = IF old = NoBlock THEN "end" ELSE "settle"
                      /\ Steps["refused"] = IF old = NoBlock THEN "end" ELSE "unlock"
<1>1. CASE old = NoBlock /\ new = NoBlock
  BY <1>1 DEF Steps, SameEnds, emplaceEdgeByMessage
<1>2. CASE old = NoBlock /\ new # NoBlock
  BY <1>2 DEF Steps, SameEnds, emplaceBlockByMessage
<1>3. CASE old # NoBlock /\ new = NoBlock
  BY <1>3 DEF Steps, SameEnds, removeBlockByMessage
<1>4. CASE old # NoBlock /\ new # NoBlock
  BY <1>4 DEF Steps, SameEnds, replaceBlockByMessage
<1>5. QED
  BY <1>1, <1>2, <1>3, <1>4

LEMMA WhereJoinLeads ==
  ASSUME EditShape, todo \in JoinSteps, NEW result \in {"no run", "refused", "queued"}, AfterJoin(result)
  PROVE  /\ joining = new => /\ new # NoBlock
                             /\ old = NoBlock => todo' = "end"
                             /\ old # NoBlock => todo' = IF result = "refused" THEN "unlock" ELSE "settle"
         /\ joining # new => SameEnds /\ todo' = IF result = "queued" THEN "restart" ELSE "withdraw"
<1>1. joining \in Blocks /\ (joining # new => SameEnds)
  BY DEF EditShape, SameEnds
<1>2. CASE joining = new
  <2>1. new # NoBlock
    BY <1>1, <1>2, ListsAssumption
  <2>2. todo' = Steps[IF result = "refused" THEN "refused" ELSE "joined"]
    BY <1>2 DEF AfterJoin, Proceed
  <2>3. QED
    BY <1>2, <2>1, <2>2, StepsOfEdits
<1>3. CASE joining # new
  BY <1>1, <1>3 DEF AfterJoin, Proceed
<1>4. QED
  BY <1>2, <1>3

\* Of the lists: a step of the edit that changes none of them, and stops blocks that are
\* asked to stop or are out of the graph.
LEMMA EditKeepsLists ==
  ASSUME RunInv, EditPart', todo # "queue", UNCHANGED <<graph, lists, worker>>,
         bstate' \in [Blocks -> States],
         \A b \in Blocks : \/ bstate'[b] = bstate[b]
                           \/ /\ bstate[b] \in {"RUNNING", "REQUESTED_STOP"} /\ bstate'[b] \in {"REQUESTED_STOP", "STOPPED"}
                              /\ b \in graph => bstate[b] = "REQUESTED_STOP"
  PROVE  RunInv'
<1>1. UNCHANGED <<order, queue, closed, zombies, withdrawn, pc, local, taken, finishing>>
  BY DEF lists, worker
<1>2. Types /\ Leaves /\ HeldApart /\ OrdersApart /\ Untouched /\ Dropped /\ Recorded /\ QueuedIsListed /\ Running /\ Finished
  BY DEF RunInv, ListPart
<1>3. \A w \in Workers : Held(w)' = Held(w) /\ Held(w) \subseteq Blocks
  BY <1>1, <1>2, HeldInBlocks DEF Held
<1>4. Types' /\ Leaves'
  BY <1>1, <1>2 DEF Types, Leaves
<1>5. HeldApart' /\ OrdersApart'
  BY <1>1, <1>2, <1>3 DEF HeldApart, OrdersApart
<1>6. Untouched'
  BY <1>1, <1>2, <1>3 DEF Untouched
<1>7. Dropped'
  <2>1. ToSet(withdrawn) \subseteq Blocks
    BY <1>2, SetOfSeq DEF Types
  <2>2. QED
    BY <1>1, <1>2, <2>1 DEF Dropped
<1>8. Recorded'
  BY <1>1, <1>2 DEF Recorded, Types
<1>9. QueuedIsListed'
  BY <1>1, <1>2 DEF QueuedIsListed, Types
<1>10. Running'
  <2> SUFFICES ASSUME NEW b \in graph, bstate'[b] = "RUNNING" PROVE \E w \in Workers : ~closed[w] /\ b \in Held(w)
    BY <1>1, <1>3 DEF Running
  <2>1. b \in Blocks /\ bstate[b] = "RUNNING"
    BY <1>2 DEF Types
  <2>2. QED
    BY <2>1, <1>2 DEF Running
<1>11. Finished'
  BY <1>1, <1>2 DEF Finished, Types
<1>12. QED
  BY <1>4, <1>5, <1>6, <1>7, <1>8, <1>9, <1>10, <1>11 DEF RunInv, ListPart

-----------------------------------------------------------------------------
(* The steps of the edit. *)

LEMMA ExcludeKeeps ==
  ASSUME RunInv, running, running', UNCHANGED <<running, swept, worker, target>>, Exclude
  PROVE  RunInv'
<1>1. UNCHANGED <<graph, bstate, lists, stopped, held, wasActive, pc, local, taken, editor, old, new, nEdits>>
  BY DEF Exclude, worker, target
<1>2. Types /\ EditShape /\ EditBlocks /\ Excluded /\ Preferred /\ Untouched
  BY DEF RunInv, EditPart, ListPart
<1>3. \/ todo = "request" /\ todo' = "await" /\ quiet' = TRUE /\ joining' = joining
      \/ /\ todo = "await" /\ todo' = (IF SameEnds THEN "endpoints" ELSE "relink") /\ quiet' = quiet /\ joining' = joining
         /\ \A w \in Workers : pc[w] # "working"
      \/ todo = "lock" /\ todo' = (IF old = NoBlock THEN "settle" ELSE "relink") /\ quiet' = quiet /\ joining' = joining
      \/ todo = "unlock" /\ todo' = (IF old = NoBlock THEN "release" ELSE "stopOld") /\ quiet' = quiet /\ joining' = joining
      \/ /\ todo = "release" /\ quiet' = FALSE
         /\ IF old = NoBlock /\ new # NoBlock THEN todo' = "active" /\ joining' = new ELSE todo' = "end" /\ joining' = joining
  <2>1. todo \in {"lock", "unlock"} => SameEnds
    BY <1>2 DEF EditShape, SameEnds
  <2>2. CASE At("request") /\ quiet' = TRUE /\ UNCHANGED childLock
    BY <2>2, StepsOfEdits DEF Exclude, At, Done, Proceed, joinRun
  <2>3. CASE At("await") /\ (\A w \in Workers : pc[w] # "working") /\ UNCHANGED guards
    <3>1. Steps[todo] = (IF SameEnds THEN "endpoints" ELSE "relink") /\ Steps[todo] # "active"
      BY <2>3, StepsOfEdits DEF At
    <3>2. QED
      BY <2>3, <3>1 DEF Exclude, At, Done, Proceed, guards
  <2>4. CASE At("lock") /\ ~childLock /\ childLock' = TRUE /\ UNCHANGED quiet
    <3>1. Steps[todo] = (IF old = NoBlock THEN "settle" ELSE "relink") /\ Steps[todo] # "active"
      BY <2>1, <2>4, StepsOfEdits DEF At
    <3>2. QED
      BY <2>4, <3>1 DEF Exclude, At, Done, Proceed
  <2>5. CASE At("unlock") /\ childLock' = FALSE /\ UNCHANGED quiet
    <3>1. Steps[todo] = (IF old = NoBlock THEN "release" ELSE "stopOld") /\ Steps[todo] # "active"
      BY <2>1, <2>5, StepsOfEdits DEF At
    <3>2. QED
      BY <2>5, <3>1 DEF Exclude, At, Done, Proceed
  <2>6. CASE At("release") /\ quiet' = FALSE /\ UNCHANGED childLock
    <3>1. Steps[todo] = IF old = NoBlock /\ new # NoBlock THEN "active" ELSE "end"
      BY <2>6, StepsOfEdits DEF At
    <3>2. QED
      BY <2>6, <3>1 DEF Exclude, At, Done, Proceed, joinRun
  <2>7. QED
    BY <2>2, <2>3, <2>4, <2>5, <2>6 DEF Exclude
<1>4. NoBlock \notin graph
  BY <1>2, ListsAssumption DEF Types
<1>5. /\ todo' \in JoinSteps => todo' = "active" /\ todo = "release" /\ joining' = new /\ new \in Blocks /\ bstate[new] = "INITIALISED"
                                /\ old = NoBlock
      /\ todo' # "active" => joining' = joining
  BY <1>2, <1>3 DEF JoinSteps, EditShape, EditBlocks
<1>6. EditShape'
  <2>1. todo \notin JoinSteps
    BY <1>3 DEF JoinSteps
  <2>2. QED
    BY <1>1, <1>2, <1>3, <1>5, <2>1, ListsAssumption DEF EditShape, JoinSteps, SameEnds
<1>7. todo' \in JoinSteps => \A w \in Workers : new \notin Held(w)
  BY <1>2, <1>5 DEF Untouched
<1>8. EditBlocks'
  <2>1. \A w \in Workers : Held(w)' = Held(w)
    <3>1. UNCHANGED queue
      BY <1>1 DEF lists
    <3>2. QED
      BY <1>1, <3>1 DEF Held
  <2>2. ~Restarts' /\ todo' \notin {"queue", "unqueue", "bury", "withdraw", "open", "start"}
    BY <1>1, <1>3, <1>5 DEF Restarts, JoinSteps
  <2>3. Relinks' => Relinks
    BY <1>3 DEF Relinks
  <2>4. todo' \notin {"none", "request", "await", "endpoints", "lock", "relink", "release", "end"} => old \notin graph
    BY <1>2, <1>3, <1>4 DEF EditBlocks
  <2>5. Joins(new)' => todo' = "active"
    BY <1>5 DEF Joins
  <2>6. todo' = "release" /\ old = NoBlock => new = NoBlock
    BY <1>2, <1>3 DEF EditShape
  <2>7. Relinks' => /\ new # NoBlock => bstate[new] = "INITIALISED" /\ new \notin graph
                    /\ old # NoBlock => old # new
    BY <1>2, <2>3 DEF EditBlocks
  <2>8. Joins(new)' => bstate[new] = "INITIALISED" /\ \A w \in Workers : new \notin Held(w)
    BY <1>5, <1>7, <2>5 DEF JoinSteps
  <2>9. todo' = "active" => joining' = new
    BY <1>5 DEF JoinSteps
  <2>10. QED
    BY <1>1, <2>1, <2>2, <2>4, <2>6, <2>7, <2>8, <2>9 DEF EditBlocks
<1>9. Excluded'
  BY <1>1, <1>2, <1>3, <1>5 DEF Excluded, JoinSteps
<1>10. Preferred'
  <2> SUFFICES ASSUME NEW b \in Blocks, b \in stopped \/ Joins(b)', NEW w \in Workers, ~closed[w], b \in Held(w)
               PROVE  held[b] = w
    BY <1>1 DEF Preferred, lists, Held
  <2>1. ~Joins(b)'
    BY <1>5, <1>7 DEF Joins
  <2>2. QED
    BY <2>1, <1>2 DEF Preferred
<1>11. todo # "queue"
  BY <1>3
<1>12. QED
  BY <1>1, <1>2, <1>6, <1>8, <1>9, <1>10, <1>11, EditKeepsLists DEF EditPart, Types

\* The stopped endpoints of an edge, or of a replaced block, prefer the list of the worker
\* that holds them: it has them recorded.
LEMMA EndpointsKeep ==
  ASSUME RunInv, running, running', UNCHANGED <<running, swept, worker, target>>, stoppedEndpoints
  PROVE  RunInv'
<1>1. /\ UNCHANGED <<graph, bstate, lists, wasActive, quiet, pc, local, taken, editor, old, new, nEdits>>
      /\ todo = "endpoints"
      /\ stopped' \in SUBSET {e \in graph \ {old} : bstate[e] \in {"STOPPED", "REQUESTED_STOP"}}
      /\ held' = [b \in Blocks |-> IF b \in stopped' THEN jobListHolding(b)
                                   ELSE IF b = new THEN jobListHolding(old) ELSE NoWorker]
  BY DEF stoppedEndpoints, worker, target, guards, At
<1>2. Types /\ EditShape /\ EditBlocks /\ Excluded /\ Recorded /\ QueuedIsListed /\ OrdersApart
  BY DEF RunInv, EditPart, ListPart
<1>3. SameEnds
  BY <1>1, <1>2 DEF EditShape, SameEnds
<1>4. todo' = "lock" /\ joining' = joining
  BY <1>1, <1>3, StepsOfEdits DEF stoppedEndpoints, Done, Proceed
<1>5. \A b : jobListHolding(b) \in Workers \cup {NoWorker}
  BY DEF jobListHolding
<1>6. EditShape'
  <2>1. held' \in [Blocks -> Workers \cup {NoWorker}]
    BY <1>1, <1>5
  <2>2. stopped' \subseteq Blocks /\ new \notin stopped'
    BY <1>1, <1>2, ListsAssumption DEF Types, EditBlocks, Relinks
  <2>3. QED
    BY <1>1, <1>2, <1>3, <1>4, <2>1, <2>2 DEF EditShape, JoinSteps, SameEnds
<1>7. EditBlocks'
  BY <1>1, <1>2, <1>4 DEF EditBlocks, Relinks, Restarts, Joins, JoinSteps
<1>8. Excluded'
  BY <1>1, <1>2, <1>4 DEF Excluded, JoinSteps
<1>9. Preferred'
  <2> SUFFICES ASSUME NEW b \in stopped', NEW w \in Workers, ~closed[w], b \in Held(w)
               PROVE  held'[b] = w
    BY <1>1, <1>4 DEF Preferred, Joins, JoinSteps, lists, Held
  <2>1. b \in graph /\ b \in Blocks /\ bstate[b] \in {"STOPPED", "REQUESTED_STOP"}
    BY <1>1, <1>2 DEF Types
  <2>2. b \in local[w]
    BY <2>1, <1>2 DEF QueuedIsListed, Held
  <2>3. b \in order[w]
    BY <2>1, <2>2, <1>2 DEF Recorded
  <2>4. \A v \in Workers : b \in order[v] => v = w
    BY <2>3, <1>2 DEF OrdersApart
  <2>5. jobListHolding(b) = w
    BY <2>3, <2>4 DEF jobListHolding
  <2>6. QED
    BY <2>1, <2>5, <1>1
<1>10. QED
  BY <1>1, <1>2, <1>6, <1>7, <1>8, <1>9, EditKeepsLists DEF EditPart, Types

\* A block that is put into the graph never ran.
LEMMA EditGraphKeeps ==
  ASSUME RunInv, running, running', UNCHANGED <<running, swept, worker, target>>, EditGraph
  PROVE  RunInv'
<1>1. /\ UNCHANGED <<bstate, lists, stopped, held, wasActive, quiet, pc, local, taken, finishing, editor, old, new, nEdits>>
      /\ todo = "relink" /\ graph' = (graph \ {old}) \cup ({new} \ {NoBlock})
  BY DEF EditGraph, worker, target, guards, At
<1>2. Types /\ EditShape /\ EditBlocks /\ Excluded /\ Preferred /\ Leaves /\ HeldApart /\ OrdersApart /\ Untouched /\ Dropped
      /\ Recorded /\ QueuedIsListed /\ Running /\ Finished
  BY DEF RunInv, EditPart, ListPart
<1>3. UNCHANGED <<order, queue, closed, zombies, withdrawn>>
  BY <1>1 DEF lists
<1>4. \/ old = NoBlock /\ new # NoBlock /\ todo' = "release" /\ joining' = joining
      \/ old # NoBlock /\ new = NoBlock /\ todo' = "stopOld" /\ joining' = joining
      \/ old # NoBlock /\ new # NoBlock /\ todo' = "active" /\ joining' = new
  <2>1. old # NoBlock \/ new # NoBlock
    BY <1>1, <1>2 DEF EditShape
  <2>2. QED
    BY <1>1, <2>1, StepsOfEdits DEF EditGraph, Done, Proceed, joinRun
<1>5. /\ new # NoBlock => new \in Blocks /\ bstate[new] = "INITIALISED" /\ new \notin zombies /\ \A w \in Workers : new \notin Held(w)
      /\ old # NoBlock => old \notin graph'
      /\ NoBlock \notin Blocks
  BY <1>1, <1>2, ListsAssumption DEF EditShape, EditBlocks, Relinks, Untouched, Types
<1>6. \A w \in Workers : Held(w)' = Held(w)
  BY <1>1, <1>3 DEF Held
<1>7. Types' /\ Leaves'
  BY <1>1, <1>2, <1>3, <1>5 DEF Types, Leaves
<1>8. EditShape'
  BY <1>1, <1>2, <1>4, <1>5 DEF EditShape, JoinSteps
<1>9. EditBlocks'
  <2>1. ~Relinks' /\ ~Restarts'
    BY <1>1, <1>4 DEF Relinks, Restarts, JoinSteps
  <2>2. QED
    BY <1>1, <1>4, <1>5, <1>6, <2>1 DEF EditBlocks, Joins, JoinSteps
<1>10. Excluded'
  BY <1>1, <1>2, <1>4 DEF Excluded, JoinSteps
<1>11. Preferred'
  BY <1>1, <1>2, <1>3, <1>4, <1>5, <1>6 DEF Preferred, Joins, JoinSteps
<1>12. HeldApart' /\ OrdersApart' /\ Untouched' /\ Recorded'
  BY <1>1, <1>2, <1>3, <1>6 DEF HeldApart, OrdersApart, Untouched, Recorded
<1>13. Dropped'
  BY <1>1, <1>2, <1>3, <1>5 DEF Dropped
<1>14. QueuedIsListed'
  BY <1>1, <1>2, <1>3, <1>5 DEF QueuedIsListed, Held
<1>15. Running'
  BY <1>1, <1>2, <1>3, <1>5, <1>6 DEF Running
<1>16. Finished'
  BY <1>1, <1>2, <1>3 DEF Finished
<1>17. QED
  BY <1>7, <1>8, <1>9, <1>10, <1>11, <1>12, <1>13, <1>14, <1>15, <1>16 DEF RunInv, EditPart, ListPart

LEMMA RestartKeeps ==
  ASSUME RunInv, running, running', UNCHANGED <<running, swept, worker, target>>, restartStoppedEndpoints
  PROVE  RunInv'
<1>1. UNCHANGED <<graph, lists, held, wasActive, quiet, pc, local, taken, editor, old, new, nEdits>>
  BY DEF restartStoppedEndpoints, worker, target, guards
<1>2. Types /\ EditShape /\ EditBlocks /\ Excluded /\ Preferred
  BY DEF RunInv, EditPart
<1>3. stopped \subseteq Blocks /\ new \notin stopped
  BY <1>2 DEF EditShape
<1>4. \/ /\ todo = "settle" /\ todo' = "restart" /\ joining' = joining
         /\ stopped' = {e \in stopped : bstate'[e] = "STOPPED"}
      \/ /\ todo = "restart" /\ bstate' = bstate
         /\ \E e \in stopped : stopped' = stopped \ {e} /\ todo' = "active" /\ joining' = e
      \/ todo = "restart" /\ bstate' = bstate /\ stopped' = stopped /\ todo' = "unlock" /\ joining' = joining
  BY DEF restartStoppedEndpoints, At, Proceed, joinRun
<1>5. /\ bstate' \in [Blocks -> States]
      /\ \A b \in Blocks : bstate'[b] = bstate[b] \/ (bstate[b] = "REQUESTED_STOP" /\ bstate'[b] = "STOPPED")
  <2>1. CASE bstate' = bstate
    BY <2>1, <1>2 DEF Types
  <2>2. CASE bstate' = [b \in Blocks |-> IF b \in stopped /\ bstate[b] = "REQUESTED_STOP" THEN "STOPPED" ELSE bstate[b]]
    BY <2>2, <1>2 DEF Types, States
  <2>3. QED
    BY <2>1, <2>2 DEF restartStoppedEndpoints
<1>6. SameEnds
  BY <1>2, <1>4 DEF EditShape, SameEnds
<1>7. EditShape'
  BY <1>1, <1>2, <1>3, <1>4, <1>6 DEF EditShape, JoinSteps, SameEnds
<1>8. EditBlocks'
  <2>1. ~Relinks' /\ ~Joins(new)' /\ todo' \notin {"queue", "unqueue", "bury", "withdraw", "release"}
    BY <1>1, <1>3, <1>4 DEF Relinks, Joins, JoinSteps
  <2>2. old \notin graph
    BY <1>2, <1>4 DEF EditBlocks
  <2>3. Restarts' => \A e \in stopped' : bstate'[e] = "STOPPED"
    BY <1>2, <1>4 DEF EditBlocks, Restarts
  <2>4. todo' \in {"active", "open", "start"} => bstate'[joining'] = "STOPPED"
    BY <1>2, <1>4 DEF EditBlocks, Restarts
  <2>5. QED
    BY <1>1, <2>1, <2>2, <2>3, <2>4 DEF EditBlocks
<1>9. Excluded'
  BY <1>1, <1>2, <1>4, <1>6 DEF Excluded, JoinSteps, SameEnds
<1>10. Preferred'
  <2>1. \A b \in Blocks : b \in stopped' \/ Joins(b)' => b \in stopped
    BY <1>4 DEF Joins, JoinSteps
  <2>2. QED
    BY <1>1, <1>2, <2>1 DEF Preferred, lists, Held
<1>11. todo # "queue"
  BY <1>4
<1>12. QED
  BY <1>1, <1>5, <1>7, <1>8, <1>9, <1>10, <1>11, EditKeepsLists DEF EditPart

\* The end of joinRun(): an endpoint that is not in the run again has stopped or failed.
LEMMA AfterJoinKeeps ==
  ASSUME EditShape, EditBlocks, Excluded, todo \in JoinSteps, Types,
         NEW result \in {"refused", "queued"}, AfterJoin(result),
         UNCHANGED <<graph, worker, target, joining, stopped, held, wasActive, guards>>,
         \A b \in stopped : bstate'[b] = bstate[b],
         joining # new /\ result = "refused" => bstate'[joining] \in {"STOPPED", "ERROR"}
  PROVE  EditShape' /\ EditBlocks' /\ Excluded' /\ todo' \notin JoinSteps
<1>1. UNCHANGED <<graph, editor, old, new, pc, joining, stopped, held, quiet, wasActive>>
  BY DEF worker, target, guards
<1>2. /\ joining = new => /\ new # NoBlock
                          /\ old = NoBlock => todo' = "end"
                          /\ old # NoBlock => todo' \in {"unlock", "settle"} /\ SameEnds
      /\ joining # new => SameEnds /\ todo' = IF result = "queued" THEN "restart" ELSE "withdraw"
  BY WhereJoinLeads DEF SameEnds
<1>3. /\ todo' \in {"end", "unlock", "settle", "restart", "withdraw"}
      /\ todo' = "end" \/ (SameEnds /\ ~(old = NoBlock /\ new # NoBlock))
  BY <1>2 DEF SameEnds
<1>4. joining \in Blocks /\ joining \notin stopped /\ stopped \subseteq Blocks
  BY DEF EditShape
<1>5. EditShape'
  BY <1>1, <1>2, <1>3, <1>4 DEF EditShape, JoinSteps, SameEnds
<1>6. EditBlocks'
  <2>1. ~Relinks' /\ ~Joins(new)' /\ todo' \notin {"release", "unqueue", "bury", "active", "open", "start", "queue"}
    BY <1>3 DEF Relinks, Joins, JoinSteps
  <2>2. old \notin graph
    BY DEF EditBlocks, JoinSteps
  <2>3. Restarts' => \A e \in stopped : bstate'[e] = "STOPPED"
    BY <1>2, <1>3 DEF EditBlocks, Restarts, JoinSteps
  <2>4. todo' = "withdraw" => bstate'[joining] \in {"STOPPED", "ERROR"}
    BY <1>2
  <2>5. QED
    BY <1>1, <2>1, <2>2, <2>3, <2>4 DEF EditBlocks
<1>7. Excluded'
  BY <1>1, <1>3 DEF Excluded, JoinSteps
<1>8. QED
  BY <1>3, <1>5, <1>6, <1>7 DEF JoinSteps

LEMMA CheckRunKeeps ==
  ASSUME RunInv, running, running', UNCHANGED <<running, swept, worker, target>>, CheckRun
  PROVE  RunInv'
<1>1. /\ UNCHANGED <<graph, bstate, lists, joining, stopped, held, wasActive, guards>>
      /\ \/ todo = "active" /\ todo' = "open"
         \/ todo = "open" /\ todo' = "start"
         \/ todo = "open" /\ AfterJoin("refused")
  BY DEF CheckRun, At, Proceed
<1>2. Types /\ EditShape /\ EditBlocks /\ Excluded /\ Preferred
  BY DEF RunInv, EditPart
<1>3. UNCHANGED <<editor, old, new, nEdits, pc, local, taken, queue, closed, quiet>>
  BY <1>1 DEF worker, target, lists, guards
<1>4. \A w \in Workers : Held(w)' = Held(w)
  BY <1>3 DEF Held
<1>5. EditShape' /\ EditBlocks' /\ Excluded'
  <2>1. CASE todo' \in {"open", "start"} /\ todo \in {"active", "open"}
    <3>1. EditShape'
      BY <2>1, <1>1, <1>2, <1>3 DEF EditShape, JoinSteps
    <3>2. EditBlocks'
      <4>1. ~Relinks' /\ (Restarts' <=> Restarts) /\ (Joins(new)' <=> Joins(new))
        BY <2>1, <1>1, <1>3 DEF Relinks, Restarts, Joins, JoinSteps
      <4>2. QED
        BY <2>1, <4>1, <1>1, <1>2, <1>3, <1>4 DEF EditBlocks
    <3>3. Excluded'
      BY <2>1, <1>1, <1>2, <1>3 DEF Excluded, JoinSteps
    <3>4. QED
      BY <3>1, <3>2, <3>3
  <2>2. CASE todo = "open" /\ AfterJoin("refused")
    <3>1. joining # new => bstate[joining] = "STOPPED"
      BY <2>2, <1>2 DEF EditBlocks
    <3>2. todo \in JoinSteps
      BY <2>2 DEF JoinSteps
    <3>3. QED
      BY <2>2, <3>1, <3>2, <1>1, <1>2, AfterJoinKeeps
  <2>3. QED
    BY <2>1, <2>2, <1>1
<1>6. Preferred'
  <2>1. \A b \in Blocks : b \in stopped' \/ Joins(b)' => b \in stopped \/ Joins(b)
    BY <1>1 DEF Joins, JoinSteps
  <2>2. QED
    BY <2>1, <1>1, <1>2, <1>3, <1>4 DEF Preferred
<1>7. todo # "queue"
  BY <1>1
<1>8. QED
  BY <1>1, <1>2, <1>5, <1>6, <1>7, EditKeepsLists DEF EditPart, Types

LEMMA StartKeeps ==
  ASSUME RunInv, running, running', UNCHANGED <<running, swept, worker, target>>, Start
  PROVE  RunInv'
<1>1. Types /\ EditShape /\ EditBlocks /\ Excluded /\ Preferred /\ Leaves /\ HeldApart /\ OrdersApart /\ Untouched /\ Dropped
      /\ Recorded /\ QueuedIsListed /\ Running /\ Finished
  BY DEF RunInv, EditPart, ListPart
<1>2. /\ UNCHANGED <<graph, lists, joining, stopped, held, wasActive, guards>> /\ todo = "start"
      /\ todo \in JoinSteps
  BY DEF Start, At, JoinSteps
<1>3. UNCHANGED <<order, queue, closed, zombies, withdrawn, pc, local, taken, finishing, editor, old, new, nEdits, quiet>>
  BY <1>2 DEF lists, worker, target, guards
<1>4. joining \in Blocks /\ joining \notin stopped /\ stopped \subseteq Blocks
  BY <1>1, <1>2 DEF EditShape
<1>5. bstate[joining] = IF joining = new THEN "INITIALISED" ELSE "STOPPED"
  BY <1>1, <1>2 DEF EditBlocks, Joins
<1>6. \/ bstate' = [bstate EXCEPT ![joining] = "RUNNING"] /\ todo' = "queue"
      \/ bstate' = [bstate EXCEPT ![joining] = "ERROR"] /\ AfterJoin("refused")
  BY <1>5 DEF Start, Proceed
<1>7. /\ bstate' \in [Blocks -> States] /\ \A b \in Blocks : b # joining => bstate'[b] = bstate[b]
      /\ bstate'[joining] \in {"RUNNING", "ERROR"}
      /\ bstate'[joining] = "RUNNING" => todo' = "queue"
  BY <1>1, <1>4, <1>6 DEF Types, States
<1>8. \A w \in Workers : Held(w)' = Held(w) /\ Held(w) \subseteq Blocks
  BY <1>1, <1>3, HeldInBlocks DEF Held
<1>9. Types' /\ Leaves'
  BY <1>1, <1>2, <1>3, <1>7 DEF Types, Leaves
<1>10. EditShape' /\ EditBlocks' /\ Excluded'
  <2>1. CASE bstate' = [bstate EXCEPT ![joining] = "RUNNING"] /\ todo' = "queue"
    <3>1. EditShape'
      BY <2>1, <1>1, <1>2, <1>3 DEF EditShape, JoinSteps
    <3>2. EditBlocks'
      <4>1. ~Relinks' /\ (Restarts' <=> Restarts) /\ (Joins(new)' <=> Joins(new))
        BY <2>1, <1>2, <1>3 DEF Relinks, Restarts, Joins, JoinSteps
      <4>2. \A e \in stopped : bstate'[e] = bstate[e]
        BY <1>4, <1>7
      <4>3. bstate'[joining] = "RUNNING"
        BY <2>1, <1>1, <1>4 DEF Types
      <4>4. QED
        BY <2>1, <4>1, <4>2, <4>3, <1>1, <1>2, <1>3, <1>8 DEF EditBlocks
    <3>3. Excluded'
      BY <2>1, <1>1, <1>2, <1>3 DEF Excluded, JoinSteps
    <3>4. QED
      BY <3>1, <3>2, <3>3
  <2>2. CASE bstate' = [bstate EXCEPT ![joining] = "ERROR"] /\ AfterJoin("refused")
    <3>1. bstate'[joining] = "ERROR" /\ \A b \in stopped : bstate'[b] = bstate[b]
      BY <2>2, <1>1, <1>4, <1>7 DEF Types
    <3>2. QED
      BY <2>2, <3>1, <1>1, <1>2, AfterJoinKeeps
  <2>3. QED
    BY <2>1, <2>2, <1>6
<1>11. Preferred'
  <2>1. \A b \in Blocks : b \in stopped' \/ Joins(b)' => b \in stopped \/ Joins(b)
    BY <1>2 DEF Joins, JoinSteps
  <2>2. QED
    BY <2>1, <1>1, <1>2, <1>3, <1>8 DEF Preferred
<1>12. HeldApart' /\ OrdersApart' /\ Untouched'
  BY <1>1, <1>3, <1>7, <1>8 DEF HeldApart, OrdersApart, Untouched
<1>13. Dropped' /\ Recorded' /\ QueuedIsListed'
  <2>1. ToSet(withdrawn) \subseteq Blocks /\ \A w \in Workers : local[w] \subseteq Blocks
    BY <1>1, SetOfSeq DEF Types
  <2>2. Dropped'
    BY <2>1, <1>1, <1>2, <1>3, <1>5, <1>7 DEF Dropped
  <2>3. Recorded'
    <3> SUFFICES ASSUME NEW w \in Workers, ~closed[w], NEW b \in local[w], bstate'[b] # "ERROR" PROVE b \in order[w]
      BY <1>3 DEF Recorded
    <3>1. bstate[b] # "ERROR"
      BY <2>1, <1>5, <1>7
    <3>2. QED
      BY <3>1, <1>1 DEF Recorded
  <2>4. QueuedIsListed'
    BY <1>1, <1>2, <1>3, <1>7 DEF QueuedIsListed, Types
  <2>5. QED
    BY <2>2, <2>3, <2>4
<1>14. Running'
  <2> SUFFICES ASSUME NEW b \in graph, bstate'[b] = "RUNNING"
               PROVE  (\E w \in Workers : ~closed[w] /\ b \in Held(w)) \/ (todo' = "queue" /\ b = joining)
    BY <1>2, <1>3, <1>8 DEF Running
  <2>1. QED
    BY <1>1, <1>2, <1>7 DEF Running, Types
<1>15. Finished'
  <2> SUFFICES ASSUME NEW w \in Workers, finishing[w], pc[w] \in {"cleanup", "adopt", "close"},
                      NEW b \in local[w], bstate'[b] = "RUNNING"
               PROVE  b \in ToSet(queue[w]) \/ (todo' = "queue" /\ b = joining)
    BY <1>2, <1>3 DEF Finished
  <2>1. b \in Blocks
    BY <1>1 DEF Types
  <2>2. QED
    BY <2>1, <1>1, <1>2, <1>7 DEF Finished
<1>16. QED
  BY <1>9, <1>10, <1>11, <1>12, <1>13, <1>14, <1>15 DEF RunInv, EditPart, ListPart

\* The block goes to the worker that holds it, if one does: no other worker that is left
\* comes to hold it.  With every list closed nobody is left.
LEMMA QueueKeeps ==
  ASSUME RunInv, running, running', UNCHANGED <<running, swept, worker, target>>, queueForAdoption
  PROVE  RunInv'
<1>1. Types /\ EditShape /\ EditBlocks /\ Excluded /\ Preferred /\ Leaves /\ HeldApart /\ OrdersApart /\ Untouched /\ Dropped
      /\ Recorded /\ QueuedIsListed /\ Running /\ Finished
  BY DEF RunInv, EditPart, ListPart
<1>2. /\ UNCHANGED <<graph, order, closed, zombies, withdrawn, joining, stopped, held, wasActive, guards>>
      /\ todo = "queue" /\ todo \in JoinSteps
  BY DEF queueForAdoption, At, JoinSteps
<1>3. UNCHANGED <<pc, local, taken, finishing, editor, old, new, nEdits, quiet>>
  BY <1>2 DEF worker, target, guards
<1>4. joining \in Blocks /\ joining \notin stopped /\ stopped \subseteq Blocks /\ bstate[joining] = "RUNNING"
  BY <1>1, <1>2 DEF EditShape, EditBlocks
<1>5. CASE /\ \E i \in Workers : /\ ~closed[i]
                                 /\ (held[joining] # NoWorker /\ ~closed[held[joining]]) => i = held[joining]
                                 /\ queue' = [queue EXCEPT ![i] = Append(queue[i], joining)]
           /\ AfterJoin("queued") /\ UNCHANGED bstate
  <2>1. PICK i \in Workers : /\ ~closed[i]
                             /\ (held[joining] # NoWorker /\ ~closed[held[joining]]) => i = held[joining]
                             /\ queue' = [queue EXCEPT ![i] = Append(queue[i], joining)]
    BY <1>5
  <2>2. ASSUME NEW w \in Workers, ~closed[w], joining \in Held(w) PROVE w = i
    <3>1. held[joining] = w
      BY <2>2, <1>1, <1>2, <1>4 DEF Preferred, Joins
    <3>2. QED
      BY <3>1, <2>1, <2>2, ListsAssumption
  <2>3. \A w \in Workers : queue[w] \in Seq(Blocks)
    BY <1>1 DEF Types
  <2>4. Append(queue[i], joining) \in Seq(Blocks) /\ ToSet(Append(queue[i], joining)) = ToSet(queue[i]) \cup {joining}
    BY <2>3, <1>4, SetOfAppend
  <2>5. PICK q : q = Append(queue[i], joining)
    OBVIOUS
  <2>6. queue' = [w \in Workers |-> IF w = i THEN q ELSE queue[w]] /\ q \in Seq(Blocks) /\ ToSet(q) = ToSet(queue[i]) \cup {joining}
    BY <2>1, <2>4, <2>5, <1>1 DEF Types
  <2>7. /\ \A w \in Workers : w # i => ToSet(queue'[w]) = ToSet(queue[w]) /\ queue'[w] = queue[w]
        /\ ToSet(queue'[i]) = ToSet(queue[i]) \cup {joining}
    BY <2>6
  <2>8. /\ \A w \in Workers : w # i => Held(w)' = Held(w)
        /\ Held(i)' = Held(i) \cup {joining}
        /\ \A w \in Workers : Held(w) \subseteq Blocks
    BY <2>7, <1>1, <1>3, HeldInBlocks DEF Held
  <2>9. Types'
    BY <2>6, <1>1, <1>2, <1>3, <1>5 DEF Types
  <2>10. Leaves'
    BY <2>1, <2>7, <1>1, <1>2, <1>3 DEF Leaves
  <2>11. EditShape' /\ EditBlocks' /\ Excluded' /\ todo' \notin JoinSteps
    BY <1>1, <1>2, <1>5, AfterJoinKeeps
  <2>12. Preferred'
    <3> SUFFICES ASSUME NEW b \in stopped, NEW w \in Workers, ~closed[w], b \in Held(w)' PROVE held[b] = w
      BY <2>11, <1>2 DEF Preferred, Joins
    <3>1. b \in Held(w) /\ b \in Blocks
      BY <2>8, <1>4
    <3>2. QED
      BY <3>1, <1>1 DEF Preferred
  <2>13. HeldApart'
    <3> SUFFICES ASSUME NEW v \in Workers, NEW w \in Workers, v # w, ~closed[v], ~closed[w] PROVE Held(v)' \cap Held(w)' = {}
      BY <1>2 DEF HeldApart
    <3>1. Held(v) \cap Held(w) = {}
      BY <1>1 DEF HeldApart
    <3>2. QED
      BY <3>1, <2>2, <2>8
  <2>14. OrdersApart' /\ Dropped' /\ Recorded'
    BY <1>1, <1>2, <1>3, <1>5 DEF OrdersApart, Dropped, Recorded
  <2>15. Untouched'
    BY <2>8, <1>1, <1>2, <1>4, <1>5 DEF Untouched
  <2>16. QueuedIsListed'
    BY <2>7, <1>1, <1>2, <1>3, <1>4, <1>5 DEF QueuedIsListed
  <2>17. Running'
    <3> SUFFICES ASSUME NEW b \in graph, bstate[b] = "RUNNING" PROVE \E w \in Workers : ~closed[w] /\ b \in Held(w)'
      BY <1>2, <1>5 DEF Running
    <3>1. CASE b = joining
      BY <3>1, <2>1, <2>8
    <3>2. CASE b # joining
      BY <3>2, <2>8, <1>1 DEF Running
    <3>3. QED
      BY <3>1, <3>2
  <2>18. Finished'
    <3> SUFFICES ASSUME NEW w \in Workers, finishing[w], pc[w] \in {"cleanup", "adopt", "close"},
                        NEW b \in local[w], bstate[b] = "RUNNING"
                 PROVE  b \in ToSet(queue'[w])
      BY <1>2, <1>3, <1>5 DEF Finished
    <3>1. CASE b = joining
      <4>1. ~closed[w] /\ joining \in Held(w)
        BY <3>1, <1>1 DEF Leaves, Held
      <4>2. QED
        BY <4>1, <3>1, <2>2, <2>7
    <3>2. CASE b # joining
      BY <3>2, <2>7, <1>1 DEF Finished
    <3>3. QED
      BY <3>1, <3>2
  <2>19. QED
    BY <2>9, <2>10, <2>11, <2>12, <2>13, <2>14, <2>15, <2>16, <2>17, <2>18 DEF RunInv, EditPart, ListPart
<1>6. CASE /\ \A i \in Workers : closed[i]
           /\ bstate' = [bstate EXCEPT ![joining] = "STOPPED"] /\ AfterJoin("refused") /\ UNCHANGED queue
  <2>1. /\ bstate' \in [Blocks -> States] /\ bstate'[joining] = "STOPPED"
        /\ \A b \in Blocks : b # joining => bstate'[b] = bstate[b]
    BY <1>1, <1>4, <1>6 DEF Types, States
  <2>2. Types' /\ Leaves'
    BY <2>1, <1>1, <1>2, <1>3, <1>6 DEF Types, Leaves
  <2>3. EditShape' /\ EditBlocks' /\ Excluded'
    <3>1. \A b \in stopped : bstate'[b] = bstate[b]
      BY <2>1, <1>4
    <3>2. QED
      BY <3>1, <2>1, <1>1, <1>2, <1>6, AfterJoinKeeps
  <2>4. Preferred' /\ HeldApart' /\ Recorded' /\ QueuedIsListed'
    BY <1>2, <1>6 DEF Preferred, HeldApart, Recorded, QueuedIsListed
  <2>5. \A w \in Workers : Held(w)' = Held(w)
    BY <1>3, <1>6 DEF Held
  <2>6. OrdersApart' /\ Untouched'
    BY <2>1, <2>5, <1>1, <1>2 DEF OrdersApart, Untouched
  <2>7. Dropped'
    <3>1. ToSet(withdrawn) \subseteq Blocks
      BY <1>1, SetOfSeq DEF Types
    <3>2. QED
      BY <3>1, <2>1, <1>1, <1>2, <1>4 DEF Dropped
  <2>8. Running'
    BY <2>1, <1>1, <1>2, <1>6 DEF Running, Types
  <2>9. Finished'
    <3> SUFFICES ASSUME NEW w \in Workers, pc[w] \in {"cleanup", "adopt", "close"} PROVE FALSE
      BY <1>3 DEF Finished
    <3>1. QED
      BY <1>1, <1>6 DEF Leaves
  <2>10. QED
    BY <2>2, <2>3, <2>4, <2>6, <2>7, <2>8, <2>9 DEF RunInv, EditPart, ListPart
<1>7. QED
  BY <1>5, <1>6 DEF queueForAdoption

LEMMA WithdrawKeeps ==
  ASSUME RunInv, running, running', UNCHANGED <<running, swept, worker, target>>, withdrawFromRun
  PROVE  RunInv'
<1>1. Types /\ EditShape /\ EditBlocks /\ Excluded /\ Preferred /\ Leaves /\ HeldApart /\ OrdersApart /\ Untouched /\ Dropped
      /\ Recorded /\ QueuedIsListed /\ Running /\ Finished
  BY DEF RunInv, EditPart, ListPart
<1>2. /\ UNCHANGED <<graph, bstate, order, queue, closed, zombies, joining, stopped, held, wasActive, guards>>
      /\ todo = "withdraw" /\ todo' = "restart"
      /\ withdrawn' = IF bstate[joining] # "STOPPED" THEN Append(withdrawn, joining) ELSE withdrawn
  BY DEF withdrawFromRun, At, Proceed
<1>3. UNCHANGED <<pc, local, taken, finishing, editor, old, new, nEdits, quiet>>
  BY <1>2 DEF worker, target, guards
<1>4. joining \in Blocks /\ bstate[joining] \in {"STOPPED", "ERROR"}
  BY <1>1, <1>2 DEF EditShape, EditBlocks
<1>5. withdrawn' \in Seq(Blocks) /\ \A b \in ToSet(withdrawn') : bstate[b] = "ERROR"
  <2>1. CASE bstate[joining] # "STOPPED"
    <3>1. withdrawn' = Append(withdrawn, joining) /\ withdrawn \in Seq(Blocks)
      BY <2>1, <1>1, <1>2 DEF Types
    <3>2. withdrawn' \in Seq(Blocks) /\ ToSet(withdrawn') = ToSet(withdrawn) \cup {joining}
      BY <3>1, <1>4, SetOfAppend
    <3>3. QED
      BY <3>2, <2>1, <1>1, <1>4 DEF Dropped
  <2>2. CASE bstate[joining] = "STOPPED"
    BY <2>2, <1>1, <1>2 DEF Types, Dropped
  <2>3. QED
    BY <2>1, <2>2
<1>6. \A w \in Workers : Held(w)' = Held(w)
  BY <1>2, <1>3 DEF Held
<1>7. Types' /\ Leaves'
  BY <1>1, <1>2, <1>3, <1>5 DEF Types, Leaves
<1>8. EditShape'
  BY <1>1, <1>2, <1>3 DEF EditShape, JoinSteps
<1>9. EditBlocks'
  BY <1>1, <1>2, <1>3 DEF EditBlocks, Relinks, Restarts, Joins, JoinSteps
<1>10. Excluded'
  BY <1>1, <1>2, <1>3 DEF Excluded, JoinSteps
<1>11. Preferred'
  BY <1>1, <1>2, <1>6 DEF Preferred, Joins, JoinSteps
<1>12. HeldApart' /\ OrdersApart' /\ Untouched' /\ Dropped' /\ Recorded' /\ QueuedIsListed'
  BY <1>1, <1>2, <1>3, <1>5, <1>6 DEF HeldApart, OrdersApart, Untouched, Dropped, Recorded, QueuedIsListed
<1>13. Running' /\ Finished'
  BY <1>1, <1>2, <1>3, <1>6 DEF Running, Finished
<1>14. QED
  BY <1>7, <1>8, <1>9, <1>10, <1>11, <1>12, <1>13 DEF RunInv, EditPart, ListPart

\* The removed block is out of the graph, whoever still holds it.
LEMMA StopOldKeeps ==
  ASSUME RunInv, running, running', UNCHANGED <<running, swept, worker, target>>, StopOld
  PROVE  RunInv'
<1>1. /\ UNCHANGED <<graph, lists, stopped, held, quiet, pc, local, taken, editor, old, new, nEdits>>
      /\ todo = "stopOld" /\ bstate' = [bstate EXCEPT ![old] = stopChild(old)] /\ wasActive' = isActive(bstate[old])
  BY DEF StopOld, worker, target, guards, At
<1>2. Types /\ EditShape /\ EditBlocks /\ Excluded /\ Preferred
  BY DEF RunInv, EditPart
<1>3. old \in Blocks /\ old # NoBlock /\ old \notin graph
  BY <1>1, <1>2 DEF EditShape, EditBlocks
<1>4. todo' = "unqueue" /\ joining' = joining
  BY <1>1, <1>3, StepsOfEdits DEF StopOld, Done, Proceed
<1>5. bstate[old] \in States /\ bstate \in [Blocks -> States]
  BY <1>2, <1>3 DEF Types
<1>6. \/ stopChild(old) = bstate[old] /\ bstate[old] \notin {"RUNNING", "REQUESTED_STOP"} /\ ~isActive(bstate[old])
      \/ stopChild(old) \in {"REQUESTED_STOP", "STOPPED"} /\ bstate[old] \in {"RUNNING", "REQUESTED_STOP"}
  BY <1>5 DEF stopChild, isActive, States
<1>7. PICK x : x = stopChild(old)
  OBVIOUS
<1>8. bstate' = [b \in Blocks |-> IF b = old THEN x ELSE bstate[b]]
  BY <1>1, <1>5, <1>7
<1>9. bstate'[old] = x /\ \A b \in Blocks : b # old => bstate'[b] = bstate[b]
  BY <1>3, <1>8
<1>10. bstate' \in [Blocks -> States]
  BY <1>5, <1>6, <1>7, <1>8 DEF States
<1>11. EditShape'
  BY <1>1, <1>2, <1>4 DEF EditShape, JoinSteps
<1>12. EditBlocks'
  <2>1. bstate'[old] # "RUNNING" /\ (wasActive' => bstate'[old] # "INITIALISED")
    BY <1>1, <1>6, <1>7, <1>9 DEF isActive
  <2>2. QED
    BY <1>1, <1>3, <1>4, <2>1 DEF EditBlocks, Relinks, Restarts, Joins, JoinSteps
<1>13. Excluded'
  BY <1>1, <1>2, <1>4 DEF Excluded, JoinSteps
<1>14. Preferred'
  BY <1>1, <1>2, <1>4 DEF Preferred, Joins, JoinSteps, lists, Held
<1>15. \A b \in Blocks : \/ bstate'[b] = bstate[b]
                         \/ /\ bstate[b] \in {"RUNNING", "REQUESTED_STOP"} /\ bstate'[b] \in {"REQUESTED_STOP", "STOPPED"}
                            /\ b \in graph => bstate[b] = "REQUESTED_STOP"
  BY <1>3, <1>6, <1>7, <1>9
<1>16. QED
  BY <1>1, <1>10, <1>11, <1>12, <1>13, <1>14, <1>15, EditKeepsLists DEF EditPart

LEMMA UnqueueKeeps ==
  ASSUME RunInv, running, running', UNCHANGED <<running, swept, worker, target>>, Unqueue
  PROVE  RunInv'
<1>1. Types /\ EditShape /\ EditBlocks /\ Excluded /\ Preferred /\ Leaves /\ HeldApart /\ OrdersApart /\ Untouched /\ Dropped
      /\ Recorded /\ QueuedIsListed /\ Running /\ Finished
  BY DEF RunInv, EditPart, ListPart
<1>2. /\ UNCHANGED <<graph, bstate, order, closed, zombies, withdrawn, stopped, held, wasActive, guards>>
      /\ todo = "unqueue"
  BY DEF Unqueue, At
<1>3. UNCHANGED <<pc, local, taken, finishing, editor, old, new, nEdits, quiet>>
  BY <1>2 DEF worker, target, guards
<1>4. old \in Blocks /\ old # NoBlock /\ old \notin graph /\ bstate[old] # "RUNNING"
  BY <1>1, <1>2 DEF EditShape, EditBlocks
<1>5. todo' = "bury" /\ joining' = joining
  BY <1>2, <1>4, StepsOfEdits DEF Unqueue, Done, Proceed
<1>6. /\ queue' \in [Workers -> Seq(Blocks)]
      /\ \A w \in Workers : /\ ToSet(queue'[w]) \subseteq ToSet(queue[w]) /\ ToSet(queue[w]) \ {old} \subseteq ToSet(queue'[w])
                            /\ queue[w] = <<>> => queue'[w] = <<>>
  <2>1. CASE \E i \in Workers : old \in ToSet(queue[i])
    <3>1. PICK i \in Workers : old \in ToSet(queue[i]) /\ queue' = [queue EXCEPT ![i] = RemoveFirst(queue[i], old)]
      BY <2>1 DEF Unqueue
    <3>2. queue[i] \in Seq(Blocks)
      BY <1>1 DEF Types
    <3>3. PICK q : q = RemoveFirst(queue[i], old)
      OBVIOUS
    <3>4. q \in Seq(Blocks) /\ ToSet(q) \subseteq ToSet(queue[i]) /\ ToSet(queue[i]) \ {old} \subseteq ToSet(q)
      BY <3>2, <3>3, SetOfRest
    <3>5. queue' = [w \in Workers |-> IF w = i THEN q ELSE queue[w]]
      BY <3>1, <3>3, <1>1 DEF Types
    <3>6. queue[i] # <<>>
      BY <3>1, SetOfSeq
    <3>7. QED
      BY <3>4, <3>5, <3>6, <1>1 DEF Types
  <2>2. CASE ~\E i \in Workers : old \in ToSet(queue[i])
    BY <2>2, <1>1 DEF Unqueue, Types
  <2>3. QED
    BY <2>1, <2>2
<1>7. \A w \in Workers : Held(w)' \subseteq Held(w) /\ Held(w) \ {old} \subseteq Held(w)'
  BY <1>3, <1>6 DEF Held
<1>8. Types' /\ Leaves'
  BY <1>1, <1>2, <1>3, <1>6 DEF Types, Leaves
<1>9. EditShape'
  BY <1>1, <1>2, <1>3, <1>5 DEF EditShape, JoinSteps
<1>10. EditBlocks'
  BY <1>1, <1>2, <1>3, <1>4, <1>5 DEF EditBlocks, Relinks, Restarts, Joins, JoinSteps
<1>11. Excluded'
  BY <1>1, <1>2, <1>3, <1>5 DEF Excluded, JoinSteps
<1>12. Preferred'
  BY <1>1, <1>2, <1>5, <1>7 DEF Preferred, Joins, JoinSteps
<1>13. HeldApart' /\ OrdersApart' /\ Untouched' /\ Dropped' /\ Recorded'
  BY <1>1, <1>2, <1>3, <1>7 DEF HeldApart, OrdersApart, Untouched, Dropped, Recorded
<1>14. QueuedIsListed'
  BY <1>1, <1>2, <1>3, <1>6 DEF QueuedIsListed
<1>15. Running'
  BY <1>1, <1>2, <1>4, <1>7 DEF Running
<1>16. Finished'
  BY <1>1, <1>2, <1>3, <1>4, <1>6 DEF Finished
<1>17. QED
  BY <1>8, <1>9, <1>10, <1>11, <1>12, <1>13, <1>14, <1>15, <1>16 DEF RunInv, EditPart, ListPart

LEMMA BuryKeeps ==
  ASSUME RunInv, running, running', UNCHANGED <<running, swept, worker, target>>, Bury
  PROVE  RunInv'
<1>1. Types /\ EditShape /\ EditBlocks /\ Excluded /\ Preferred /\ Leaves /\ HeldApart /\ OrdersApart /\ Untouched /\ Dropped
      /\ Recorded /\ QueuedIsListed /\ Running /\ Finished
  BY DEF RunInv, EditPart, ListPart
<1>2. /\ UNCHANGED <<graph, bstate, order, queue, closed, withdrawn, stopped, held, wasActive, guards>>
      /\ todo = "bury"
      /\ zombies' = zombies \/ (zombies' = zombies \cup {old} /\ (wasActive \/ \E i \in Workers : old \in order[i]))
  BY DEF Bury, At
<1>3. UNCHANGED <<pc, local, taken, finishing, editor, old, new, nEdits, quiet>>
  BY <1>2 DEF worker, target, guards
<1>4. old \in Blocks /\ old # NoBlock /\ old \notin graph /\ (wasActive => bstate[old] # "INITIALISED")
  BY <1>1, <1>2 DEF EditShape, EditBlocks
<1>5. todo' = "release" /\ joining' = joining
  BY <1>2, <1>4, StepsOfEdits DEF Bury, Done, Proceed
<1>6. \A w \in Workers : Held(w)' = Held(w)
  BY <1>2, <1>3 DEF Held
<1>7. Types' /\ Leaves'
  BY <1>1, <1>2, <1>3, <1>4 DEF Types, Leaves
<1>8. EditShape'
  BY <1>1, <1>2, <1>3, <1>5 DEF EditShape, JoinSteps
<1>9. EditBlocks'
  BY <1>2, <1>3, <1>4, <1>5 DEF EditBlocks, Relinks, Restarts, Joins, JoinSteps
<1>10. Excluded'
  BY <1>1, <1>2, <1>3, <1>5 DEF Excluded, JoinSteps
<1>11. Preferred'
  BY <1>1, <1>2, <1>5, <1>6 DEF Preferred, Joins, JoinSteps
<1>12. HeldApart' /\ OrdersApart' /\ Recorded' /\ QueuedIsListed'
  BY <1>1, <1>2, <1>3, <1>6 DEF HeldApart, OrdersApart, Recorded, QueuedIsListed
<1>13. Untouched' /\ Dropped'
  BY <1>1, <1>2, <1>4, <1>6 DEF Untouched, Dropped
<1>14. Running' /\ Finished'
  BY <1>1, <1>2, <1>3, <1>6 DEF Running, Finished
<1>15. QED
  BY <1>7, <1>8, <1>9, <1>10, <1>11, <1>12, <1>13, <1>14 DEF RunInv, EditPart, ListPart

-----------------------------------------------------------------------------
(* The theorem. *)

\* A worker's step, whether or not the run is on: it ends no other worker's call and takes
\* no block that it is still to call once the run is over.
LEMMA WorkersApart ==
  ASSUME running \in BOOLEAN, pc \in [Workers -> Places], local = [v \in Workers |-> local[v]],
         NEW w \in Workers, WorkerStep(w) \/ BeginEdit(w)
  PROVE  /\ running' \in BOOLEAN /\ (running' => running) /\ swept' = swept /\ pc' \in [Workers -> Places]
         /\ local' = [v \in Workers |-> local'[v]]
         /\ \A v \in Workers : v # w => pc'[v] = pc[v] /\ local'[v] = local[v]
         /\ ~running' /\ pc'[w] \in {"work", "working"} => pc[w] = "work" /\ local'[w] \subseteq local[w]
<1>1. CASE Top(w)
  BY <1>1 DEF Top, Goto, Places
<1>2. CASE Messages(w)
  BY <1>2 DEF Messages, Goto, Places
<1>3. CASE cleanupZombieBlocks(w)
  BY <1>3 DEF cleanupZombieBlocks, Goto, Places
<1>4. CASE Take(w)
  BY <1>4 DEF Take, Goto, Places
<1>5. CASE Record(w)
  BY <1>5 DEF Record, Goto, Places
<1>6. CASE ReadState(w)
  BY <1>6 DEF ReadState, Goto, Places
<1>7. CASE BeginWork(w)
  <2>1. /\ running' = running /\ swept' = swept /\ pc[w] = "work" /\ pc' = [pc EXCEPT ![w] = "working"]
        /\ local' = local \/ local' = [local EXCEPT ![w] = local[w] \ ToSet(withdrawn)]
    BY <1>7 DEF BeginWork, Goto
  <2>2. QED
    BY <2>1 DEF Places
<1>8. CASE EndWork(w)
  <2>1. /\ local' = local /\ swept' = swept /\ (running' => running) /\ running' \in BOOLEAN
        /\ \E l \in {"leave", "cleanup", "top"} : pc' = [pc EXCEPT ![w] = l]
    BY <1>8 DEF EndWork, Goto
  <2>2. QED
    BY <2>1 DEF Places
<1>9. CASE Close(w)
  BY <1>9 DEF Close, Goto, Places
<1>10. CASE Leave(w)
  <2>1. running' = running /\ swept' = swept /\ pc' = [pc EXCEPT ![w] = "gone"] /\ local' = [local EXCEPT ![w] = {}]
    BY <1>10 DEF Leave, Goto
  <2>2. QED
    BY <2>1 DEF Places
<1>11. CASE EndEdit(w)
  BY <1>11 DEF EndEdit, Goto, Places
<1>12. CASE BeginEdit(w)
  BY <1>12 DEF BeginEdit, Goto, Places
<1>13. QED
  BY <1>1, <1>2, <1>3, <1>4, <1>5, <1>6, <1>7, <1>8, <1>9, <1>10, <1>11, <1>12 DEF WorkerStep

LEMMA WorkerKeeps ==
  ASSUME RunInv, running, running', NEW w \in Workers, WorkerStep(w) \/ BeginEdit(w)
  PROVE  RunInv'
<1>1. CASE Top(w) \/ Messages(w) \/ ReadState(w)
  BY <1>1, PassKeeps
<1>2. CASE cleanupZombieBlocks(w)
  BY <1>2, CleanupKeeps
<1>3. CASE Take(w)
  BY <1>3, TakeKeeps
<1>4. CASE Record(w)
  BY <1>4, RecordKeeps
<1>5. CASE BeginWork(w)
  BY <1>5, BeginWorkKeeps
<1>6. CASE EndWork(w)
  BY <1>6, EndWorkKeeps
<1>7. CASE Close(w)
  BY <1>7, CloseKeeps
<1>8. CASE Leave(w)
  BY <1>8, LeaveKeeps
<1>9. CASE EndEdit(w)
  BY <1>9, EndEditKeeps
<1>10. CASE BeginEdit(w)
  BY <1>10, BeginEditKeeps
<1>11. QED
  BY <1>1, <1>2, <1>3, <1>4, <1>5, <1>6, <1>7, <1>8, <1>9, <1>10 DEF WorkerStep

LEMMA EditStepKeeps ==
  ASSUME RunInv, running, running', EditStep
  PROVE  RunInv'
<1>0. UNCHANGED <<running, swept, worker, target>>
  BY DEF EditStep
<1>1. CASE Exclude
  BY <1>0, <1>1, ExcludeKeeps
<1>2. CASE stoppedEndpoints
  BY <1>0, <1>2, EndpointsKeep
<1>3. CASE EditGraph
  BY <1>0, <1>3, EditGraphKeeps
<1>4. CASE restartStoppedEndpoints
  BY <1>0, <1>4, RestartKeeps
<1>5. CASE CheckRun
  BY <1>0, <1>5, CheckRunKeeps
<1>6. CASE Start
  BY <1>0, <1>6, StartKeeps
<1>7. CASE queueForAdoption
  BY <1>0, <1>7, QueueKeeps
<1>8. CASE withdrawFromRun
  BY <1>0, <1>8, WithdrawKeeps
<1>9. CASE StopOld
  BY <1>0, <1>9, StopOldKeeps
<1>10. CASE Unqueue
  BY <1>0, <1>10, UnqueueKeeps
<1>11. CASE Bury
  BY <1>0, <1>11, BuryKeeps
<1>12. QED
  BY <1>1, <1>2, <1>3, <1>4, <1>5, <1>6, <1>7, <1>8, <1>9, <1>10, <1>11 DEF EditStep

LEMMA InitHasInv == Init => ListsInv
<1> SUFFICES ASSUME Init PROVE ListsInv
  OBVIOUS
<1>1. ToSet(<<>>) = {} /\ <<>> \in Seq(Blocks)
  BY SetOfSeq
<1>2. \A w \in Workers : Held(w) = {b \in Blocks : initial[b] = w} /\ order[w] = local[w] /\ local[w] = {b \in Blocks : initial[b] = w}
  BY <1>1 DEF Init, Held
<1>3. Types
  BY <1>1, ListsAssumption DEF Init, Types, States, Places
<1>4. EditPart
  <2>1. todo = "none" /\ stopped = {} /\ editor = NoWorker /\ quiet = FALSE
    BY DEF Init
  <2>2. EditShape
    BY <2>1, ListsAssumption DEF Init, EditShape, JoinSteps
  <2>3. EditBlocks /\ Excluded /\ Preferred
    BY <2>1 DEF EditBlocks, Relinks, Restarts, Joins, Excluded, Preferred, JoinSteps
  <2>4. QED
    BY <2>2, <2>3 DEF EditPart
<1>5. Leaves
  BY DEF Init, Leaves
<1>6. HeldApart /\ OrdersApart /\ Recorded
  BY <1>2 DEF HeldApart, OrdersApart, Recorded
<1>7. Untouched
  BY <1>2, ListsAssumption DEF Init, Untouched
<1>8. Dropped
  BY <1>1 DEF Init, Dropped
<1>9. QueuedIsListed
  BY <1>1 DEF Init, QueuedIsListed
<1>10. Running
  <2> SUFFICES ASSUME NEW b \in graph PROVE \E w \in Workers : ~closed[w] /\ b \in Held(w)
    BY DEF Running
  <2>1. b \in Blocks /\ initial[b] \in Workers
    BY ListsAssumption DEF Init
  <2>2. QED
    BY <2>1, <1>2 DEF Init
<1>11. Finished
  BY DEF Init, Finished
<1>12. OneWorkerPerBlock
  BY <1>2 DEF OneWorkerPerBlock
<1>13. running \in BOOLEAN /\ local = [w \in Workers |-> local[w]] /\ swept = "no"
  BY DEF Init
<1>14. QED
  BY <1>3, <1>4, <1>5, <1>6, <1>7, <1>8, <1>9, <1>10, <1>11, <1>12, <1>13 DEF ListsInv, RunInv, ListPart, Types

LEMMA RunHasOneWorker ==
  ASSUME RunInv
  PROVE  OneWorkerPerBlock /\ RunningBlockIsHeld
<1>1. \A w \in Workers : StillCalls(w) => ~closed[w]
  BY DEF RunInv, Leaves, StillCalls
<1>2. OneWorkerPerBlock
  BY <1>1 DEF RunInv, ListPart, HeldApart, Held, OneWorkerPerBlock
<1>3. RunningBlockIsHeld
  <2> SUFFICES ASSUME editor = NoWorker, NEW b \in graph, bstate[b] = "RUNNING" PROVE \E w \in InLoop : b \in Held(w)
    BY DEF RunningBlockIsHeld
  <2>1. todo = "none"
    BY DEF RunInv, EditPart, EditShape
  <2>2. PICK w \in Workers : ~closed[w] /\ b \in Held(w)
    BY <2>1 DEF RunInv, Running
  <2>3. w \in InLoop
    BY <2>2 DEF RunInv, Leaves, InLoop
  <2>4. QED
    BY <2>2, <2>3
<1>4. QED
  BY <1>2, <1>3

LEMMA StepKeepsInv ==
  ASSUME ListsInv, [Next]_vars
  PROVE  ListsInv'
<1>1. running \in BOOLEAN /\ pc \in [Workers -> Places] /\ local = [w \in Workers |-> local[w]]
      /\ OneWorkerPerBlock /\ (running => RunInv /\ swept = "no")
  BY DEF ListsInv
<1>2. CASE \E w \in Workers : WorkerStep(w) \/ BeginEdit(w)
  <2>1. PICK w \in Workers : WorkerStep(w) \/ BeginEdit(w)
    BY <1>2
  <2>2. /\ running' \in BOOLEAN /\ (running' => running) /\ swept' = swept /\ pc' \in [Workers -> Places]
        /\ local' = [v \in Workers |-> local'[v]]
        /\ \A v \in Workers : v # w => pc'[v] = pc[v] /\ local'[v] = local[v]
        /\ ~running' /\ pc'[w] \in {"work", "working"} => pc[w] = "work" /\ local'[w] \subseteq local[w]
    BY <1>1, <2>1, WorkersApart
  <2>3. running' => RunInv'
    BY <1>1, <2>1, <2>2, WorkerKeeps
  <2>4. CASE running'
    <3>1. OneWorkerPerBlock'
      BY <2>3, <2>4, RunHasOneWorker, PTL
    <3>2. QED
      BY <2>2, <2>3, <3>1 DEF ListsInv
  <2>5. CASE ~running'
    <3>1. \A v \in Workers : StillCalls(v)' => StillCalls(v) /\ local'[v] \subseteq local[v]
      BY <2>2, <2>5 DEF StillCalls
    <3>2. OneWorkerPerBlock'
      BY <3>1, <1>1 DEF OneWorkerPerBlock
    <3>3. QED
      BY <2>2, <2>3, <3>2 DEF ListsInv
  <2>6. QED
    BY <2>4, <2>5
<1>3. CASE EditStep
  <2>1. UNCHANGED <<running, swept, pc, local>>
    BY <1>3 DEF EditStep, worker
  <2>2. running' => RunInv'
    BY <1>1, <1>3, <2>1, EditStepKeeps
  <2>3. OneWorkerPerBlock'
    BY <1>1, <2>1 DEF OneWorkerPerBlock, StillCalls
  <2>4. QED
    BY <1>1, <2>1, <2>2, <2>3 DEF ListsInv
<1>4. CASE Retire \/ SweepBlocking \/ SweepAll
  <2>1. UNCHANGED <<pc, local>> /\ running' = FALSE
    BY <1>1, <1>4 DEF Retire, SweepBlocking, SweepAll, worker
  <2>2. OneWorkerPerBlock'
    BY <1>1, <2>1 DEF OneWorkerPerBlock, StillCalls
  <2>3. QED
    BY <1>1, <2>1, <2>2 DEF ListsInv
<1>5. CASE UNCHANGED vars
  <2>1. /\ UNCHANGED <<running, swept, graph, bstate, order, queue, closed, zombies, withdrawn, pc, local, taken, finishing>>
        /\ UNCHANGED <<editor, old, new, todo, joining, stopped, held, wasActive, quiet>>
    BY <1>5 DEF vars, lists, worker, edit, target, guards
  <2>2. \A w \in Workers : Held(w)' = Held(w)
    BY <2>1 DEF Held
  <2>3. RunInv => Types' /\ Leaves' /\ EditShape' /\ EditBlocks' /\ Excluded' /\ Preferred'
    BY <2>1, <2>2 DEF RunInv, EditPart, Types, Leaves, EditShape, EditBlocks, Excluded, Preferred, Relinks, Restarts, Joins
  <2>4. RunInv => ListPart' /\ Running'
    BY <2>1, ListKept
  <2>5. RunInv => Finished'
    BY <2>1 DEF RunInv, Finished
  <2>6. OneWorkerPerBlock'
    BY <1>1, <2>1 DEF OneWorkerPerBlock, StillCalls
  <2>7. QED
    BY <1>1, <2>1, <2>3, <2>4, <2>5, <2>6 DEF ListsInv, RunInv, EditPart
<1>6. QED
  BY <1>2, <1>3, <1>4, <1>5 DEF Next

\* No two workers that may still call blocks hold the same block, and while the run is on and
\* no edit is under way every block that runs has a worker: adoptions, hand-overs and restarts
\* leave a block on one list (Scheduler.hpp:3074-3076).
THEOREM BlocksHaveOneHolder == Spec => []OneHolderPerBlock
<1>1. ListsInv => OneHolderPerBlock
  BY RunHasOneWorker DEF ListsInv, OneHolderPerBlock, RunningBlockIsHeld
<1>2. QED
  BY <1>1, InitHasInv, StepKeepsInv, PTL DEF Spec

=============================================================================
