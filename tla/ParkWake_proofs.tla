--------------------------- MODULE ParkWake_proofs ---------------------------
(***************************************************************************)
(* Proofs about module ParkWake, for any workers, clients and samples: no   *)
(* wake is missed.  What a worker has read since the top of its pass, it    *)
(* need not be told; of everything that came later its `moved` or `woken`   *)
(* tells, or a call that is still to advance the sequence (Comes).  Once    *)
(* the sequence has moved under a worker that waits, the one who moved it   *)
(* is still to look for waiters or to notify them (Notified).               *)
(***************************************************************************)
EXTENDS ParkWake, SequenceTheorems, FiniteSetTheorems, TLAPS

-----------------------------------------------------------------------------
(* The steps that are left of a call *)

StepNames ==
  {"advanceWake", "advanceProgress", "seeWaiters", "notify", "store", "moveCursor", "seeWakes", "handle",
   "releasePass", "paused", "running", "stopping", "retire", "request", "release", "pauseBlocks", "runBlocks"}

\* The step that follows a step, but these, which any step or none may follow.
Alone == {"notify", "seeWakes", "handle", "releasePass", "request", "pauseBlocks"}
Successor(x) ==
  CASE x \in {"advanceWake", "advanceProgress"} -> "seeWaiters"
    [] x = "seeWaiters" -> "notify"
    [] x = "store" -> "moveCursor"
    [] x = "moveCursor" -> "seeWakes"
    [] x = "stopping" -> "retire"
    [] OTHER -> "advanceWake"

Posts == {"store", "moveCursor", "seeWakes"}
Pauses == {"paused", "running", "request", "release", "pauseBlocks", "runBlocks"}

HasStep(s, x) == \E i \in 1 .. Len(s) : s[i] = x

Later(s, x, y) == \A i \in 1 .. Len(s) : s[i] = x => \E j \in i .. Len(s) : s[j] = y

\* Requests are not nested in one call, and only a service that has not begun handles messages.
OnCourse(s) ==
  /\ \A i \in 1 .. Len(s) : s[i] \notin Alone => i < Len(s) /\ s[i + 1] = Successor(s[i])
  /\ Later(s, "running", "runBlocks") /\ Later(s, "request", "release")
  /\ \A i, j \in 1 .. Len(s) : s[i] = s[j] /\ s[i] \in {"request", "release"} => i = j
  /\ \A i, j \in 1 .. Len(s) : s[i] = "request" /\ s[j] = "release" => i < j
  /\ \A i \in 1 .. Len(s) : s[i] = "handle" => i = 1 /\ Len(s) = 2 /\ s[2] = "releasePass"

LEMMA TailIs ==
  ASSUME NEW s \in Seq(StepNames), s # <<>>
  PROVE  /\ Tail(s) \in Seq(StepNames) /\ Len(s) \in Nat /\ Len(s) > 0 /\ Len(Tail(s)) = Len(s) - 1
         /\ \A i \in 1 .. Len(Tail(s)) : Tail(s)[i] = s[i + 1]
         /\ Head(s) = s[1] /\ Head(s) \in StepNames
<1>1. Len(s) \in Nat /\ Len(s) # 0
  BY EmptySeq, LenProperties
<1>2. Tail(s) \in Seq(StepNames) /\ Len(Tail(s)) = Len(s) - 1 /\ Head(s) = s[1] /\ Head(s) \in StepNames
  BY HeadTailProperties
<1>3. \A i \in 1 .. Len(Tail(s)) : Tail(s)[i] = s[i + 1]
  BY <1>1, <1>2
<1>4. QED
  BY <1>1, <1>2, <1>3

\* What is left after a step is on course too, and is the same but for that step.
LEMMA TailOnCourse ==
  ASSUME NEW s \in Seq(StepNames), s # <<>>, OnCourse(s)
  PROVE  OnCourse(Tail(s)) /\ ~HasStep(Tail(s), "handle")
<1> DEFINE r == Tail(s)
<1>1. /\ r \in Seq(StepNames) /\ Len(s) \in Nat /\ Len(s) > 0 /\ Len(r) = Len(s) - 1
      /\ \A i \in 1 .. Len(r) : r[i] = s[i + 1]
  BY TailIs
<1> HIDE DEF r
<1>2. \A i \in 1 .. Len(r) : i + 1 \in 1 .. Len(s) /\ r[i] = s[i + 1]
  BY <1>1
<1>3. ASSUME NEW i \in 1 .. Len(r), r[i] \notin Alone PROVE i < Len(r) /\ r[i + 1] = Successor(r[i])
  <2>1. i + 1 \in 1 .. Len(s) /\ s[i + 1] \notin Alone
    BY <1>2, <1>3
  <2>2. i + 1 < Len(s) /\ s[(i + 1) + 1] = Successor(s[i + 1])
    BY <2>1, <1>1 DEF OnCourse
  <2>3. i + 1 \in 1 .. Len(r)
    BY <2>2, <1>1
  <2>4. r[i + 1] = s[(i + 1) + 1]
    BY <2>3, <1>2
  <2>5. QED
    BY <2>2, <2>3, <2>4, <1>1, <1>2
<1>4. ASSUME NEW x, NEW y, Later(s, x, y) PROVE Later(r, x, y)
  <2>1. SUFFICES ASSUME NEW i \in 1 .. Len(r), r[i] = x PROVE \E j \in i .. Len(r) : r[j] = y
    BY DEF Later
  <2>2. i + 1 \in 1 .. Len(s) /\ s[i + 1] = x
    BY <1>2, <2>1
  <2>3. PICK j \in i + 1 .. Len(s) : s[j] = y
    BY <2>2, <1>4 DEF Later
  <2>4. j - 1 \in i .. Len(r) /\ r[j - 1] = s[j]
    BY <2>3, <1>1
  <2>5. QED
    BY <2>3, <2>4
<1>5. Later(r, "running", "runBlocks") /\ Later(r, "request", "release")
  BY <1>4 DEF OnCourse
<1>6. ASSUME NEW i \in 1 .. Len(r) PROVE r[i] # "handle"
  <2>1. i + 1 \in 1 .. Len(s) /\ i + 1 # 1 /\ r[i] = s[i + 1]
    BY <1>2
  <2>2. s[i + 1] = "handle" => i + 1 = 1
    BY <2>1 DEF OnCourse
  <2>3. QED
    BY <2>1, <2>2
<1>7. ASSUME NEW i \in 1 .. Len(r), NEW j \in 1 .. Len(r)
      PROVE  /\ r[i] = r[j] /\ r[i] \in {"request", "release"} => i = j
             /\ r[i] = "request" /\ r[j] = "release" => i < j
  <2>1. i + 1 \in 1 .. Len(s) /\ j + 1 \in 1 .. Len(s) /\ r[i] = s[i + 1] /\ r[j] = s[j + 1]
    BY <1>2
  <2>2. /\ s[i + 1] = s[j + 1] /\ s[i + 1] \in {"request", "release"} => i + 1 = j + 1
        /\ s[i + 1] = "request" /\ s[j + 1] = "release" => i + 1 < j + 1
    BY <2>1 DEF OnCourse
  <2>3. QED
    BY <2>1, <2>2
<1>8. OnCourse(r)
  BY <1>3, <1>5, <1>6, <1>7 DEF OnCourse
<1>9. QED
  BY <1>6, <1>8 DEF r, HasStep

LEMMA TailKeeps ==
  ASSUME NEW s \in Seq(StepNames), s # <<>>, NEW x
  PROVE  /\ HasStep(Tail(s), x) => HasStep(s, x)
         /\ HasStep(s, x) /\ Head(s) # x => HasStep(Tail(s), x)
<1>1. /\ Len(s) \in Nat /\ Len(s) > 0 /\ Len(Tail(s)) = Len(s) - 1
      /\ \A i \in 1 .. Len(Tail(s)) : Tail(s)[i] = s[i + 1]
      /\ Head(s) = s[1]
  BY TailIs
<1>2. ASSUME NEW i \in 1 .. Len(Tail(s)), Tail(s)[i] = x PROVE HasStep(s, x)
  <2>1. i + 1 \in 1 .. Len(s) /\ s[i + 1] = x
    BY <1>1, <1>2
  <2>2. QED
    BY <2>1 DEF HasStep
<1>3. ASSUME NEW i \in 1 .. Len(s), s[i] = x, Head(s) # x PROVE HasStep(Tail(s), x)
  <2>1. i - 1 \in 1 .. Len(Tail(s)) /\ Tail(s)[i - 1] = x
    BY <1>1, <1>3
  <2>2. QED
    BY <2>1 DEF HasStep
<1>4. QED
  BY <1>2, <1>3 DEF HasStep

LEMMA WakeIs ==
  /\ wakeWorkers \in Seq(StepNames) /\ Len(wakeWorkers) = 3
  /\ wakeWorkers[1] = "advanceWake" /\ wakeWorkers[2] = "seeWaiters" /\ wakeWorkers[3] = "notify"
BY DEF wakeWorkers, StepNames

LEMMA WakeJoined ==
  ASSUME NEW r \in Seq(StepNames)
  PROVE  LET q == wakeWorkers \o r
         IN  /\ q \in Seq(StepNames) /\ Len(q) = 3 + Len(r)
             /\ q[1] = "advanceWake" /\ q[2] = "seeWaiters" /\ q[3] = "notify"
             /\ Len(r) \in Nat /\ \A i \in 1 .. Len(q) : i > 3 => q[i] = r[i - 3]
<1> DEFINE q == wakeWorkers \o r
<1>1. /\ wakeWorkers \in Seq(StepNames) /\ Len(wakeWorkers) = 3
      /\ wakeWorkers[1] = "advanceWake" /\ wakeWorkers[2] = "seeWaiters" /\ wakeWorkers[3] = "notify"
  BY WakeIs
<1>2. /\ q \in Seq(StepNames) /\ Len(q) = Len(wakeWorkers) + Len(r)
      /\ \A i \in 1 .. Len(wakeWorkers) + Len(r) : q[i] = IF i <= Len(wakeWorkers) THEN wakeWorkers[i] ELSE r[i - Len(wakeWorkers)]
  BY <1>1, ConcatProperties, Zenon
<1> HIDE DEF q
<1>3. Len(r) \in Nat
  BY LenProperties
<1>4. \A i \in 1 .. 3 + Len(r) : q[i] = IF i <= 3 THEN wakeWorkers[i] ELSE r[i - 3]
  BY <1>1, <1>2, Zenon
<1>5. q[1] = wakeWorkers[1] /\ q[2] = wakeWorkers[2] /\ q[3] = wakeWorkers[3]
  BY <1>3, <1>4
<1>6. q \in Seq(StepNames) /\ Len(q) = 3 + Len(r)
  BY <1>1, <1>2
<1>7. \A i \in 1 .. Len(q) : i > 3 => q[i] = r[i - 3]
  BY <1>3, <1>4, <1>6
<1>8. QED
  BY <1>1, <1>3, <1>5, <1>6, <1>7, Zenon DEF q

\* What follows a wake that comes before what is left of a call.
LEMMA AfterWake ==
  ASSUME NEW r \in Seq(StepNames), OnCourse(r), ~HasStep(r, "handle"), NEW s \in Seq(StepNames), Len(s) = 3 + Len(r),
         s[1] = "advanceWake", s[2] = "seeWaiters", s[3] = "notify",
         Len(r) \in Nat, \A i \in 1 .. Len(s) : i > 3 => s[i] = r[i - 3]
  PROVE  /\ s \in Seq(StepNames) /\ OnCourse(s) /\ ~HasStep(s, "handle")
         /\ s # <<>> /\ Head(s) = "advanceWake" /\ HasStep(s, "advanceWake")
         /\ \A x : HasStep(r, x) => HasStep(s, x)
         /\ \A x : HasStep(s, x) => HasStep(r, x) \/ x \in {"advanceWake", "seeWaiters", "notify"}
<1>1. Len(r) \in Nat
  OBVIOUS
<1>2. Len(s) = 3 + Len(r)
  OBVIOUS
<1>3. s[1] = "advanceWake" /\ s[2] = "seeWaiters" /\ s[3] = "notify"
  OBVIOUS
<1>4. \A i \in 1 .. Len(r) : s[i + 3] = r[i]
  OBVIOUS
<1>5. \A i \in 1 .. Len(s) : i \in {1, 2, 3} \/ (i - 3 \in 1 .. Len(r) /\ s[i] = r[i - 3])
  BY <1>1, <1>2, <1>4
<1>6. ASSUME NEW i \in 1 .. Len(s), s[i] \notin Alone PROVE i < Len(s) /\ s[i + 1] = Successor(s[i])
  <2>1. CASE i \in {1, 2, 3}
    <3>1. Successor("advanceWake") = "seeWaiters" /\ Successor("seeWaiters") = "notify" /\ "notify" \in Alone
      BY DEF Successor, Alone
    <3>2. i # 3
      BY <3>1, <1>6, <1>3
    <3>3. CASE i = 1
      BY <3>3, <3>1, <1>1, <1>2, <1>3
    <3>4. CASE i = 2
      BY <3>4, <3>1, <1>1, <1>2, <1>3
    <3>5. QED
      BY <3>2, <3>3, <3>4, <2>1
  <2>2. CASE i - 3 \in 1 .. Len(r) /\ s[i] = r[i - 3]
    <3>1. i - 3 < Len(r) /\ r[(i - 3) + 1] = Successor(r[i - 3])
      BY <2>2, <1>6 DEF OnCourse
    <3>2. (i - 3) + 1 \in 1 .. Len(r) /\ s[((i - 3) + 1) + 3] = r[(i - 3) + 1]
      BY <3>1, <2>2, <1>1, <1>2, <1>4
    <3>3. QED
      BY <3>1, <3>2, <2>2, <1>1, <1>2
  <2>3. QED
    BY <2>1, <2>2, <1>5
<1>7. ASSUME NEW x \in {"running", "request"}, NEW y, Later(r, x, y) PROVE Later(s, x, y)
  <2>1. SUFFICES ASSUME NEW i \in 1 .. Len(s), s[i] = x PROVE \E j \in i .. Len(s) : s[j] = y
    BY DEF Later
  <2>2. i - 3 \in 1 .. Len(r) /\ s[i] = r[i - 3]
    BY <1>3, <1>5, <1>7, <2>1
  <2>3. PICK j \in i - 3 .. Len(r) : r[j] = y
    BY <2>1, <2>2, <1>7 DEF Later
  <2>4. j \in 1 .. Len(r) /\ j + 3 \in i .. Len(s) /\ s[j + 3] = r[j]
    BY <2>2, <2>3, <1>1, <1>2, <1>4
  <2>5. QED
    BY <2>3, <2>4
<1>8. ASSUME NEW i \in 1 .. Len(s), NEW j \in 1 .. Len(s)
      PROVE  /\ s[i] = s[j] /\ s[i] \in {"request", "release"} => i = j
             /\ s[i] = "request" /\ s[j] = "release" => i < j
  <2>1. CASE i \in {1, 2, 3} \/ j \in {1, 2, 3}
    BY <2>1, <1>3
  <2>2. CASE i - 3 \in 1 .. Len(r) /\ s[i] = r[i - 3] /\ j - 3 \in 1 .. Len(r) /\ s[j] = r[j - 3]
    <3>1. /\ r[i - 3] = r[j - 3] /\ r[i - 3] \in {"request", "release"} => i - 3 = j - 3
          /\ r[i - 3] = "request" /\ r[j - 3] = "release" => i - 3 < j - 3
      BY <2>2 DEF OnCourse
    <3>2. QED
      BY <3>1, <2>2
  <2>3. QED
    BY <2>1, <2>2, <1>5
<1>9. OnCourse(s)
  <2>1. Later(s, "running", "runBlocks") /\ Later(s, "request", "release")
    BY <1>7 DEF OnCourse
  <2>2. \A i \in 1 .. Len(s) : s[i] # "handle"
    BY <1>3, <1>5 DEF HasStep
  <2>3. QED
    BY <1>6, <1>8, <2>1, <2>2 DEF OnCourse
<1>10. ASSUME NEW x, HasStep(r, x) PROVE HasStep(s, x)
  <2>1. PICK i \in 1 .. Len(r) : r[i] = x
    BY <1>10 DEF HasStep
  <2>2. i + 3 \in 1 .. Len(s) /\ s[i + 3] = x
    BY <2>1, <1>1, <1>2, <1>4
  <2>3. QED
    BY <2>2 DEF HasStep
<1>11. ASSUME NEW x, HasStep(s, x) PROVE HasStep(r, x) \/ x \in {"advanceWake", "seeWaiters", "notify"}
  BY <1>11, <1>3, <1>5 DEF HasStep
<1>12. s # <<>> /\ Head(s) = "advanceWake" /\ HasStep(s, "advanceWake")
  <2>1. 1 \in 1 .. Len(s) /\ s # <<>> /\ s \in Seq(StepNames)
    BY <1>1, <1>2, EmptySeq
  <2>2. Head(s) = s[1]
    BY <2>1
  <2>3. QED
    BY <2>1, <2>2, <1>3 DEF HasStep
<1>13. ~HasStep(s, "handle")
  BY <1>11, "handle" \notin {"advanceWake", "seeWaiters", "notify"}
<1>14. QED
  BY <1>2, <1>9, <1>10, <1>11, <1>12, <1>13

LEMMA StopIs ==
  stop = <<"stopping", "retire", "advanceWake", "seeWaiters", "notify">>
<1> DEFINE a == <<"stopping", "retire">>
           s == a \o wakeWorkers
<1>1. /\ a \in Seq(StepNames) /\ Len(a) = 2 /\ a[1] = "stopping" /\ a[2] = "retire"
  BY DEF StepNames
<1> HIDE DEF a
<1>2. /\ s \in Seq(StepNames) /\ Len(s) = 5
      /\ s[1] = "stopping" /\ s[2] = "retire" /\ s[3] = "advanceWake" /\ s[4] = "seeWaiters"
      /\ s[5] = "notify"
  <2>1. /\ s \in Seq(StepNames) /\ Len(s) = Len(a) + Len(wakeWorkers)
        /\ \A i \in 1 .. Len(a) + Len(wakeWorkers) : s[i] = IF i <= Len(a) THEN a[i] ELSE wakeWorkers[i - Len(a)]
    BY <1>1, WakeIs, ConcatProperties, Zenon
  <2> HIDE DEF s
  <2>2. QED
    BY <1>1, WakeIs, <2>1
<1> HIDE DEF s
<1>3. stop = s
  BY Zenon DEF stop, a, s
<1>4. QED
  BY <1>2, <1>3

LEMMA PauseIs ==
  pause = <<"paused", "advanceWake", "seeWaiters", "notify", "request", "pauseBlocks", "release",
            "advanceWake", "seeWaiters", "notify">>
<1> DEFINE a == <<"paused">>
           b == <<"request", "pauseBlocks", "release">>
           p1 == a \o wakeWorkers
           p2 == p1 \o b
           s == p2 \o wakeWorkers
<1>1. /\ a \in Seq(StepNames) /\ Len(a) = 1 /\ a[1] = "paused"
      /\ b \in Seq(StepNames) /\ Len(b) = 3 /\ b[1] = "request" /\ b[2] = "pauseBlocks" /\ b[3] = "release"
  BY DEF StepNames
<1> HIDE DEF a, b
<1>2. /\ p1 \in Seq(StepNames) /\ Len(p1) = 4
      /\ p1[1] = "paused" /\ p1[2] = "advanceWake" /\ p1[3] = "seeWaiters" /\ p1[4] = "notify"
  <2>1. /\ p1 \in Seq(StepNames) /\ Len(p1) = Len(a) + Len(wakeWorkers)
        /\ \A i \in 1 .. Len(a) + Len(wakeWorkers) : p1[i] = IF i <= Len(a) THEN a[i] ELSE wakeWorkers[i - Len(a)]
    BY <1>1, WakeIs, ConcatProperties, Zenon
  <2> HIDE DEF p1
  <2>2. QED
    BY <1>1, WakeIs, <2>1
<1> HIDE DEF p1
<1>3. /\ p2 \in Seq(StepNames) /\ Len(p2) = 7
      /\ p2[1] = "paused" /\ p2[2] = "advanceWake" /\ p2[3] = "seeWaiters" /\ p2[4] = "notify"
      /\ p2[5] = "request" /\ p2[6] = "pauseBlocks" /\ p2[7] = "release"
  <2>1. /\ p2 \in Seq(StepNames) /\ Len(p2) = Len(p1) + Len(b)
        /\ \A i \in 1 .. Len(p1) + Len(b) : p2[i] = IF i <= Len(p1) THEN p1[i] ELSE b[i - Len(p1)]
    BY <1>1, <1>2, ConcatProperties, Zenon
  <2> HIDE DEF p2
  <2>2. QED
    BY <1>1, <1>2, <2>1
<1> HIDE DEF p2
<1>4. /\ s \in Seq(StepNames) /\ Len(s) = 10
      /\ s[1] = "paused" /\ s[2] = "advanceWake" /\ s[3] = "seeWaiters" /\ s[4] = "notify"
      /\ s[5] = "request" /\ s[6] = "pauseBlocks" /\ s[7] = "release" /\ s[8] = "advanceWake"
      /\ s[9] = "seeWaiters" /\ s[10] = "notify"
  <2>1. /\ s \in Seq(StepNames) /\ Len(s) = Len(p2) + Len(wakeWorkers)
        /\ \A i \in 1 .. Len(p2) + Len(wakeWorkers) : s[i] = IF i <= Len(p2) THEN p2[i] ELSE wakeWorkers[i - Len(p2)]
    BY <1>3, WakeIs, ConcatProperties, Zenon
  <2> HIDE DEF s
  <2>2. QED
    BY <1>3, WakeIs, <2>1
<1> HIDE DEF s
<1>5. pause = s
  BY Zenon DEF pause, a, b, p1, p2, s
<1>6. QED
  BY <1>4, <1>5

LEMMA ResumeIs ==
  resume = <<"running", "advanceWake", "seeWaiters", "notify", "request", "release", "advanceWake",
            "seeWaiters", "notify", "runBlocks", "advanceWake", "seeWaiters", "notify">>
<1> DEFINE a == <<"running">>
           b == <<"request", "release">>
           c == <<"runBlocks">>
           p1 == a \o wakeWorkers
           p2 == p1 \o b
           p3 == p2 \o wakeWorkers
           p4 == p3 \o c
           s == p4 \o wakeWorkers
<1>1. /\ a \in Seq(StepNames) /\ Len(a) = 1 /\ a[1] = "running"
      /\ b \in Seq(StepNames) /\ Len(b) = 2 /\ b[1] = "request" /\ b[2] = "release"
      /\ c \in Seq(StepNames) /\ Len(c) = 1 /\ c[1] = "runBlocks"
  BY DEF StepNames
<1> HIDE DEF a, b, c
<1>2. /\ p1 \in Seq(StepNames) /\ Len(p1) = 4
      /\ p1[1] = "running" /\ p1[2] = "advanceWake" /\ p1[3] = "seeWaiters" /\ p1[4] = "notify"
  <2>1. /\ p1 \in Seq(StepNames) /\ Len(p1) = Len(a) + Len(wakeWorkers)
        /\ \A i \in 1 .. Len(a) + Len(wakeWorkers) : p1[i] = IF i <= Len(a) THEN a[i] ELSE wakeWorkers[i - Len(a)]
    BY <1>1, WakeIs, ConcatProperties, Zenon
  <2> HIDE DEF p1
  <2>2. QED
    BY <1>1, WakeIs, <2>1
<1> HIDE DEF p1
<1>3. /\ p2 \in Seq(StepNames) /\ Len(p2) = 6
      /\ p2[1] = "running" /\ p2[2] = "advanceWake" /\ p2[3] = "seeWaiters" /\ p2[4] = "notify"
      /\ p2[5] = "request" /\ p2[6] = "release"
  <2>1. /\ p2 \in Seq(StepNames) /\ Len(p2) = Len(p1) + Len(b)
        /\ \A i \in 1 .. Len(p1) + Len(b) : p2[i] = IF i <= Len(p1) THEN p1[i] ELSE b[i - Len(p1)]
    BY <1>1, <1>2, ConcatProperties, Zenon
  <2> HIDE DEF p2
  <2>2. QED
    BY <1>1, <1>2, <2>1
<1> HIDE DEF p2
<1>4. /\ p3 \in Seq(StepNames) /\ Len(p3) = 9
      /\ p3[1] = "running" /\ p3[2] = "advanceWake" /\ p3[3] = "seeWaiters" /\ p3[4] = "notify"
      /\ p3[5] = "request" /\ p3[6] = "release" /\ p3[7] = "advanceWake" /\ p3[8] = "seeWaiters"
      /\ p3[9] = "notify"
  <2>1. /\ p3 \in Seq(StepNames) /\ Len(p3) = Len(p2) + Len(wakeWorkers)
        /\ \A i \in 1 .. Len(p2) + Len(wakeWorkers) : p3[i] = IF i <= Len(p2) THEN p2[i] ELSE wakeWorkers[i - Len(p2)]
    BY <1>3, WakeIs, ConcatProperties, Zenon
  <2> HIDE DEF p3
  <2>2. QED
    BY <1>3, WakeIs, <2>1
<1> HIDE DEF p3
<1>5. /\ p4 \in Seq(StepNames) /\ Len(p4) = 10
      /\ p4[1] = "running" /\ p4[2] = "advanceWake" /\ p4[3] = "seeWaiters" /\ p4[4] = "notify"
      /\ p4[5] = "request" /\ p4[6] = "release" /\ p4[7] = "advanceWake" /\ p4[8] = "seeWaiters"
      /\ p4[9] = "notify" /\ p4[10] = "runBlocks"
  <2>1. /\ p4 \in Seq(StepNames) /\ Len(p4) = Len(p3) + Len(c)
        /\ \A i \in 1 .. Len(p3) + Len(c) : p4[i] = IF i <= Len(p3) THEN p3[i] ELSE c[i - Len(p3)]
    BY <1>1, <1>4, ConcatProperties, Zenon
  <2> HIDE DEF p4
  <2>2. QED
    BY <1>1, <1>4, <2>1
<1> HIDE DEF p4
<1>6. /\ s \in Seq(StepNames) /\ Len(s) = 13
      /\ s[1] = "running" /\ s[2] = "advanceWake" /\ s[3] = "seeWaiters" /\ s[4] = "notify"
      /\ s[5] = "request" /\ s[6] = "release" /\ s[7] = "advanceWake" /\ s[8] = "seeWaiters"
      /\ s[9] = "notify" /\ s[10] = "runBlocks" /\ s[11] = "advanceWake" /\ s[12] = "seeWaiters"
      /\ s[13] = "notify"
  <2>1. /\ s \in Seq(StepNames) /\ Len(s) = Len(p4) + Len(wakeWorkers)
        /\ \A i \in 1 .. Len(p4) + Len(wakeWorkers) : s[i] = IF i <= Len(p4) THEN p4[i] ELSE wakeWorkers[i - Len(p4)]
    BY <1>5, WakeIs, ConcatProperties, Zenon
  <2> HIDE DEF s
  <2>2. QED
    BY <1>5, WakeIs, <2>1
<1> HIDE DEF s
<1>7. resume = s
  BY Zenon DEF resume, a, b, c, p1, p2, p3, p4, s
<1>8. QED
  BY <1>6, <1>7

\* What the calls begin with.
LEMMA CallIs ==
  ASSUME NEW call \in {"message", "service", "stop", "pause", "resume"}, NEW s, s = CallSteps(call)
  PROVE  /\ s \in Seq(StepNames) /\ OnCourse(s)
         /\ HasStep(s, "release") => HasStep(s, "request")
         /\ \A x : HasStep(s, x) => /\ x \in Posts => call = "message"
                                    /\ x \in {"handle", "releasePass"} => call = "service"
                                    /\ x \in Pauses => call \in {"pause", "resume"}
<1>1. CASE call = "message"
  <2>1. s = <<"store", "moveCursor", "seeWakes">>
    BY <1>1 DEF CallSteps, publishMessage
  <2>2. s \in Seq(StepNames) /\ OnCourse(s)
    BY <2>1 DEF StepNames, OnCourse, Later, Successor, Alone
  <2>3. QED
    BY <2>1, <2>2, <1>1 DEF HasStep, Posts, Pauses
<1>2. CASE call = "service"
  <2>1. s = <<"handle", "releasePass">>
    BY <1>2 DEF CallSteps, runService
  <2>2. s \in Seq(StepNames) /\ OnCourse(s)
    BY <2>1 DEF StepNames, OnCourse, Later, Successor, Alone
  <2>3. QED
    BY <2>1, <2>2, <1>2 DEF HasStep, Posts, Pauses
<1>3. CASE call = "stop"
  <2>1. s = <<"stopping", "retire", "advanceWake", "seeWaiters", "notify">>
    BY <1>3, StopIs DEF CallSteps
  <2>2. s \in Seq(StepNames) /\ OnCourse(s)
    BY <2>1 DEF StepNames, OnCourse, Later, Successor, Alone
  <2>3. QED
    BY <2>1, <2>2, <1>3 DEF HasStep, Posts, Pauses
<1>4. CASE call = "pause"
  <2>1. s = <<"paused", "advanceWake", "seeWaiters", "notify", "request", "pauseBlocks", "release", "advanceWake", "seeWaiters", "notify">>
    BY <1>4, PauseIs DEF CallSteps
  <2>2. s \in Seq(StepNames) /\ OnCourse(s)
    BY <2>1 DEF StepNames, OnCourse, Later, Successor, Alone
  <2>3. QED
    BY <2>1, <2>2, <1>4 DEF HasStep, Posts, Pauses
<1>5. CASE call = "resume"
  <2>1. s = <<"running", "advanceWake", "seeWaiters", "notify", "request", "release", "advanceWake", "seeWaiters", "notify", "runBlocks", "advanceWake", "seeWaiters", "notify">>
    BY <1>5, ResumeIs DEF CallSteps
  <2>2. s \in Seq(StepNames) /\ OnCourse(s)
    BY <2>1 DEF StepNames, OnCourse, Later, Successor, Alone
  <2>3. QED
    BY <2>1, <2>2, <1>5 DEF HasStep, Posts, Pauses
<1>6. QED
  BY <1>1, <1>2, <1>3, <1>4, <1>5

-----------------------------------------------------------------------------
(* The invariant *)

Locations == {"register", "progress", "wake", "look", "adopt", "state", "traverse", "due", "confirm",
              "lock", "testProgress", "testWake", "asleep", "leave", "out"}
States == {"RUNNING", "PAUSED", "STOPPED"}
Committed == {"lock", "testProgress", "testWake", "asleep"}
Parking == {"confirm"} \cup Committed
Wakes == {"advanceWake", "seeWaiters", "notify"}

PassStates == [pc : Locations, moved : BOOLEAN, woken : BOOLEAN, idle : Nat, inactive : Nat, passes : Nat, active : States]

ParkTypes ==
  /\ setup \in Setups
  /\ pass \in [ParkWorkers -> PassStates]
  /\ steps \in [ParkThreads -> Seq(StepNames)]
  /\ ring \in [stored : Nat, cursor : Nat, handled : Nat, own : SUBSET Nat]
  /\ armed \in BOOLEAN
  /\ serving \in ParkThreads \cup {NoThread}
  /\ run \in [state : States, blocksRun : BOOLEAN, retired : BOOLEAN, requests : Int, runs : Nat]
  /\ given \in [ParkWorkers -> [samples : Nat, mail : Nat, blocks : Nat]]

\* A call under way is still to take a step; a thread's next step.
Comes(x) == \E t \in ParkThreads : HasStep(steps[t], x)
NextIs(t, x) == steps[t] # <<>> /\ Head(steps[t]) = x
NotifyComes == \E t \in ParkThreads : NextIs(t, "seeWaiters") \/ NextIs(t, "notify")
MessageWakeComes == Comes("advanceWake") \/ \E c \in Clients : NextIs(c, "seeWakes")
InRequest == {t \in ParkThreads : HasStep(steps[t], "release") /\ ~HasStep(steps[t], "request")}

\* What workers and clients have to do in their calls.
Courses ==
  /\ \A t \in ParkThreads : OnCourse(steps[t])
  /\ \A w \in ParkWorkers, x \in StepNames : HasStep(steps[w], x) =>
       /\ w \in setup.crew /\ x \notin Pauses \cup {"stopping", "retire"}
       /\ x \in Posts => "emit" \in setup.may
       /\ x = "handle" => pass[w].pc = "adopt"
  /\ \A c \in Clients, x \in StepNames : HasStep(steps[c], x) =>
       /\ x \in Posts => "message" \in setup.may
       /\ x \in {"handle", "releasePass"} => "service" \in setup.may
       /\ x \in Pauses => Pausing \cap setup.may # {}

Requests == IsFiniteSet(InRequest) /\ run.requests = Cardinality(InRequest)
Serving == serving # NoThread => HasStep(steps[serving], "releasePass") /\ ~HasStep(steps[serving], "handle")
RingSlots ==
  /\ ring.handled <= ring.cursor /\ ring.cursor <= ring.stored
  /\ Posting \cap setup.may = {} => ring.stored = 0
  /\ "message" \notin setup.may => ring.own = 1 .. ring.stored
BlocksRun == ~run.blocksRun => run.state # "RUNNING" \/ Comes("runBlocks")

Crew(w) == w \notin setup.crew => pass[w].pc = "out"
Armed(w) == pass[w].pc \notin {"out", "register"} => armed
Fresh(w) == pass[w].pc = "register" => pass[w].passes = 0

\* A sequence that moved under a worker that waits: its waiters are still to be notified.
Notified(w) ==
  (pass[w].pc = "testWake" /\ pass[w].moved) \/ (pass[w].pc = "asleep" /\ (pass[w].moved \/ pass[w].woken)) => NotifyComes

\* A pause or a stop under a worker that is about to wait.
StateSeen(w) ==
  pass[w].pc \in Committed /\ (run.state # "RUNNING" \/ run.retired) => pass[w].woken \/ Comes("advanceWake")

\* Samples that came after the block's work() was called, or that it could not take.
WorkSeen(w) ==
  pass[w].pc \in Parking \cup {"due"} /\ given[w].samples > 0 =>
    \/ pass[w].moved \/ pass[w].woken \/ Comes("advanceWake") \/ Comes("advanceProgress")
    \/ run.state # "RUNNING"
    \/ pass[w].pc = "due" /\ pass[w].active # "RUNNING"

\* A client's message that came after the worker looked for messages: the single worker handles it at once, a
\* pool's worker that left it to another one starts to count its idle passes anew.
LeftToOther(w) ==
  \/ pass[w].pc \in {"adopt", "state", "traverse"} /\ pass[w].idle = 0
  \/ pass[w].pc = "due" /\ pass[w].idle <= 1
MessageSeen(w) ==
  "message" \in setup.may /\ Unhandled /\ pass[w].pc \in {"adopt", "state", "traverse", "due"} \cup Parking =>
    \/ pass[w].woken \/ MessageWakeComes
    \/ setup.single /\ pass[w].pc = "adopt" /\ NextIs(w, "handle")
    \/ ~setup.single /\ LeftToOther(w)

\* A pool's worker that counts its idle passes towards a park reads messages in each.
PassesLeft(w) ==
  /\ setup.ratio = 1 => pass[w].passes = 0
  /\ /\ ~setup.single /\ Posting \cap setup.may # {}
     /\ pass[w].pc \in {"register", "progress", "wake", "look", "due", "confirm"}
     => pass[w].passes = 0 \/ pass[w].idle <= setup.spin

\* Messages for the worker's blocks and blocks to adopt, which it was given after it looked for them.
Given(w) == given[w].mail # 0 \/ given[w].blocks # 0
YetToLook(w) ==
  \/ pass[w].pc \in {"adopt", "leave", "out", "register"}
  \/ pass[w].pc \in {"progress", "wake", "look"} /\ (setup.single => pass[w].passes = 0)
IdlesOn(w) ==
  \/ pass[w].pc = "traverse" /\ pass[w].idle <= setup.spin
  \/ pass[w].pc = "due" /\ (pass[w].idle <= setup.spin + 1 \/ pass[w].active # "RUNNING")
GivenSeen(w) == Given(w) =>
  /\ Posting \cap setup.may # {}
  /\ YetToLook(w) \/ (~setup.single /\ (pass[w].woken \/ Comes("advanceWake") \/ IdlesOn(w)))

Watched(w) ==
  /\ Crew(w) /\ Armed(w) /\ Fresh(w)
  /\ Notified(w) /\ StateSeen(w) /\ WorkSeen(w) /\ MessageSeen(w) /\ PassesLeft(w) /\ GivenSeen(w)

ParkInv ==
  /\ ParkTypes /\ WakesSuffice(setup)
  /\ Courses /\ Requests /\ Serving /\ RingSlots /\ BlocksRun
  /\ \A w \in ParkWorkers : Watched(w)

-----------------------------------------------------------------------------
(* A step of one thread *)

\* Thread t took the steps `lost` or began a call, and has the steps `added` to take besides; no other thread's call changed.
Follows(t, lost, added) ==
  /\ steps' \in [ParkThreads -> Seq(StepNames)]
  /\ \A u \in ParkThreads : u # t => steps'[u] = steps[u]
  /\ steps[t] # <<>> => Head(steps[t]) \in lost
  /\ OnCourse(steps'[t])
  /\ \A x : HasStep(steps[t], x) /\ x \notin lost => HasStep(steps'[t], x)
  /\ \A x : HasStep(steps'[t], x) => HasStep(steps[t], x) \/ x \in added

LEMMA NextIsStep ==
  ASSUME ParkTypes, NEW t \in ParkThreads, steps[t] # <<>>
  PROVE  /\ steps[t] \in Seq(StepNames) /\ Head(steps[t]) \in StepNames /\ HasStep(steps[t], Head(steps[t]))
<1>1. steps[t] \in Seq(StepNames)
  BY DEF ParkTypes
<1>2. Len(steps[t]) \in Nat /\ Len(steps[t]) > 0 /\ Head(steps[t]) = steps[t][1] /\ Head(steps[t]) \in StepNames
  BY <1>1, TailIs
<1>3. 1 \in 1 .. Len(steps[t])
  BY <1>2
<1>4. QED
  BY <1>1, <1>2, <1>3 DEF HasStep

\* What is left of a call once its next step is taken.
LEMMA TailFollows ==
  ASSUME ParkTypes, NEW t \in ParkThreads, NEW x, Step(t, x), OnCourse(steps[t]), NEW r, r = Tail(steps[t])
  PROVE  /\ r \in Seq(StepNames) /\ OnCourse(r) /\ ~HasStep(r, "handle")
         /\ \A y : HasStep(r, y) => HasStep(steps[t], y)
         /\ \A y : HasStep(steps[t], y) /\ y # x => HasStep(r, y)
         /\ x \notin Alone => r # <<>> /\ Head(r) = Successor(x) /\ HasStep(r, Successor(x))
<1>1. steps[t] \in Seq(StepNames) /\ steps[t] # <<>> /\ Head(steps[t]) = x
  BY DEF ParkTypes, Step
<1>2. /\ r \in Seq(StepNames) /\ Len(steps[t]) \in Nat /\ Len(steps[t]) > 0 /\ Len(r) = Len(steps[t]) - 1
      /\ \A i \in 1 .. Len(r) : r[i] = steps[t][i + 1]
      /\ steps[t][1] = x
  BY <1>1, TailIs
<1>3. OnCourse(r) /\ ~HasStep(r, "handle")
  BY <1>1, TailOnCourse
<1>4. \A y : (HasStep(r, y) => HasStep(steps[t], y)) /\ (HasStep(steps[t], y) /\ y # x => HasStep(r, y))
  BY <1>1, TailKeeps
<1>5. ASSUME x \notin Alone PROVE r # <<>> /\ Head(r) = Successor(x) /\ HasStep(r, Successor(x))
  <2>1. 1 < Len(steps[t]) /\ steps[t][1 + 1] = Successor(x)
    <3>1. 1 \in 1 .. Len(steps[t])
      BY <1>2
    <3>2. QED
      BY <3>1, <1>2, <1>5 DEF OnCourse
  <2>2. 1 \in 1 .. Len(r) /\ r[1] = Successor(x)
    BY <2>1, <1>2
  <2>3. r # <<>>
    BY <2>2, <1>2, EmptySeq
  <2>4. Head(r) = r[1]
    BY <2>3, <1>2
  <2>5. QED
    BY <2>2, <2>3, <2>4 DEF HasStep
<1>6. QED
  BY <1>2, <1>3, <1>4, <1>5

LEMMA ThenNothing ==
  ASSUME ParkTypes, Courses, NEW t \in ParkThreads, NEW x, Step(t, x),
         Then(t, <<>>) \/ steps' = [steps EXCEPT ![t] = Tail(@)]
  PROVE  /\ Follows(t, {x}, {}) /\ steps'[t] = Tail(steps[t]) /\ ~HasStep(steps'[t], "handle")
         /\ x \notin Alone => NextIs(t, Successor(x))' /\ HasStep(steps'[t], Successor(x))
<1> DEFINE r == Tail(steps[t])
<1>1. OnCourse(steps[t]) /\ steps \in [ParkThreads -> Seq(StepNames)] /\ steps[t] # <<>> /\ Head(steps[t]) = x
  BY DEF Courses, ParkTypes, Step
<1>2. /\ r \in Seq(StepNames) /\ OnCourse(r) /\ ~HasStep(r, "handle")
      /\ \A y : HasStep(r, y) => HasStep(steps[t], y)
      /\ \A y : HasStep(steps[t], y) /\ y # x => HasStep(r, y)
      /\ x \notin Alone => r # <<>> /\ Head(r) = Successor(x) /\ HasStep(r, Successor(x))
  BY <1>1, TailFollows
<1>3. steps' = [steps EXCEPT ![t] = r]
  <2>1. <<>> \o r = r
    BY <1>2, ConcatEmptySeq, Zenon
  <2>2. CASE Then(t, <<>>)
    <3>1. steps' = [steps EXCEPT ![t] = <<>> \o r]
      BY <2>2 DEF Then
    <3>2. QED
      BY <2>1, <3>1, Zenon
  <2>3. CASE steps' = [steps EXCEPT ![t] = Tail(@)]
    BY <2>3
  <2>4. QED
    BY <2>2, <2>3
<1> HIDE DEF r
<1>4. steps'[t] = r /\ steps' \in [ParkThreads -> Seq(StepNames)] /\ \A u \in ParkThreads : u # t => steps'[u] = steps[u]
  BY <1>1, <1>2, <1>3
<1>5. steps'[t] = Tail(steps[t])
  BY <1>4 DEF r
<1>6. QED
  BY <1>1, <1>2, <1>4, <1>5 DEF Follows, NextIs

LEMMA ThenWake ==
  ASSUME ParkTypes, Courses, NEW t \in ParkThreads, NEW x, Step(t, x), Then(t, wakeWorkers)
  PROVE  Follows(t, {x}, Wakes) /\ ~HasStep(steps'[t], "handle") /\ HasStep(steps'[t], "advanceWake")
<1> DEFINE r == Tail(steps[t])
           s == wakeWorkers \o r
<1>1. OnCourse(steps[t]) /\ steps \in [ParkThreads -> Seq(StepNames)] /\ steps[t] # <<>> /\ Head(steps[t]) = x
  BY DEF Courses, ParkTypes, Step
<1>2. /\ r \in Seq(StepNames) /\ OnCourse(r) /\ ~HasStep(r, "handle")
      /\ \A y : HasStep(r, y) => HasStep(steps[t], y)
      /\ \A y : HasStep(steps[t], y) /\ y # x => HasStep(r, y)
  BY <1>1, TailFollows
<1>3. steps' = [steps EXCEPT ![t] = s]
  BY DEF Then
<1> HIDE DEF r
<1>4. /\ s \in Seq(StepNames) /\ Len(s) = 3 + Len(r) /\ Len(r) \in Nat
      /\ s[1] = "advanceWake" /\ s[2] = "seeWaiters" /\ s[3] = "notify"
      /\ \A i \in 1 .. Len(s) : i > 3 => s[i] = r[i - 3]
  BY <1>2, WakeJoined, Zenon
<1> HIDE DEF s
<1>5. /\ s \in Seq(StepNames) /\ OnCourse(s) /\ ~HasStep(s, "handle") /\ HasStep(s, "advanceWake")
      /\ \A y : HasStep(r, y) => HasStep(s, y)
      /\ \A y : HasStep(s, y) => HasStep(r, y) \/ y \in Wakes
  BY <1>2, <1>4, AfterWake DEF Wakes
<1>6. steps'[t] = s /\ steps' \in [ParkThreads -> Seq(StepNames)] /\ \A u \in ParkThreads : u # t => steps'[u] = steps[u]
  BY <1>1, <1>5, <1>3
<1>7. QED
  BY <1>1, <1>2, <1>5, <1>6 DEF Follows

\* The step after the next one is left out.
LEMMA ThenSkip ==
  ASSUME ParkTypes, Courses, NEW t \in ParkThreads, NEW x, Step(t, x), x \notin Alone,
         steps' = [steps EXCEPT ![t] = Tail(Tail(@))]
  PROVE  Follows(t, {x, Successor(x)}, {})
<1> DEFINE r == Tail(steps[t])
           s == Tail(r)
<1>1. OnCourse(steps[t]) /\ steps \in [ParkThreads -> Seq(StepNames)] /\ steps[t] # <<>> /\ Head(steps[t]) = x
  BY DEF Courses, ParkTypes, Step
<1>2. /\ r \in Seq(StepNames) /\ OnCourse(r) /\ r # <<>> /\ Head(r) = Successor(x)
      /\ \A y : HasStep(r, y) => HasStep(steps[t], y)
      /\ \A y : HasStep(steps[t], y) /\ y # x => HasStep(r, y)
  BY <1>1, TailFollows
<1>3. steps' = [steps EXCEPT ![t] = s]
  OBVIOUS
<1> HIDE DEF r
<1>4. s \in Seq(StepNames) /\ OnCourse(s)
  BY <1>2, TailIs, TailOnCourse
<1>5. \A y : (HasStep(s, y) => HasStep(r, y)) /\ (HasStep(r, y) /\ y # Successor(x) => HasStep(s, y))
  BY <1>2, TailKeeps
<1> HIDE DEF s
<1>6. steps'[t] = s /\ steps' \in [ParkThreads -> Seq(StepNames)] /\ \A u \in ParkThreads : u # t => steps'[u] = steps[u]
  BY <1>1, <1>4, <1>3
<1>7. QED
  BY <1>1, <1>2, <1>4, <1>5, <1>6 DEF Follows

LEMMA NothingLeft == \A x : ~HasStep(<<>>, x)
BY DEF HasStep

\* The message service is left at once to the thread that runs it.
LEMMA ThenRefuse ==
  ASSUME ParkTypes, Courses, NEW t \in ParkThreads, Step(t, "handle"), steps' = [steps EXCEPT ![t] = <<>>]
  PROVE  Follows(t, {"handle", "releasePass"}, {}) /\ steps'[t] = <<>>
<1>1. OnCourse(steps[t]) /\ steps \in [ParkThreads -> Seq(StepNames)] /\ steps[t] # <<>> /\ Head(steps[t]) = "handle"
  BY DEF Courses, ParkTypes, Step
<1>2. Len(steps[t]) \in Nat /\ Len(steps[t]) > 0 /\ steps[t][1] = "handle"
  BY <1>1, TailIs
<1>3. Len(steps[t]) = 2 /\ steps[t][2] = "releasePass"
  <2>1. 1 \in 1 .. Len(steps[t])
    BY <1>2
  <2>2. QED
    BY <2>1, <1>1, <1>2 DEF OnCourse
<1>4. \A x : HasStep(steps[t], x) => x \in {"handle", "releasePass"}
  <2>1. \A i \in 1 .. Len(steps[t]) : i = 1 \/ i = 2
    BY <1>3
  <2>2. QED
    BY <2>1, <1>2, <1>3 DEF HasStep
<1>5. OnCourse(<<>>) /\ <<>> \in Seq(StepNames)
  BY DEF OnCourse, Later
<1>6. steps'[t] = <<>> /\ steps' \in [ParkThreads -> Seq(StepNames)] /\ \A u \in ParkThreads : u # t => steps'[u] = steps[u]
  BY <1>1, <1>5
<1>7. QED
  BY <1>1, <1>4, <1>5, <1>6, NothingLeft DEF Follows

\* A call begins.
LEMMA Begins ==
  ASSUME ParkTypes, NEW t \in ParkThreads, steps[t] = <<>>, NEW s \in Seq(StepNames), OnCourse(s), NEW added,
         \A x : HasStep(s, x) => x \in added, steps' = [steps EXCEPT ![t] = s]
  PROVE  Follows(t, {}, added) /\ steps'[t] = s
<1>1. steps \in [ParkThreads -> Seq(StepNames)]
  BY DEF ParkTypes
<1>2. steps'[t] = s /\ steps' \in [ParkThreads -> Seq(StepNames)] /\ \A u \in ParkThreads : u # t => steps'[u] = steps[u]
  BY <1>1
<1>3. QED
  BY <1>2, NothingLeft DEF Follows

LEMMA BeginsNothing ==
  ASSUME ParkTypes, NEW t \in ParkThreads, steps[t] = <<>>, UNCHANGED steps
  PROVE  Follows(t, {}, {}) /\ steps'[t] = <<>>
<1>1. steps \in [ParkThreads -> Seq(StepNames)] /\ steps'[t] = <<>>
  BY DEF ParkTypes
<1>2. OnCourse(<<>>)
  BY DEF OnCourse, Later
<1>3. QED
  BY <1>1, <1>2, NothingLeft DEF Follows

LEMMA ComesStays ==
  ASSUME NEW t \in ParkThreads, NEW lost, NEW added, Follows(t, lost, added), NEW x, x \notin lost, Comes(x)
  PROVE  Comes(x)'
<1>1. PICK u \in ParkThreads : HasStep(steps[u], x)
  BY DEF Comes
<1>2. HasStep(steps'[u], x)
  BY <1>1 DEF Follows
<1>3. QED
  BY <1>2 DEF Comes

LEMMA NotifyStays ==
  ASSUME NEW t \in ParkThreads, NEW lost, NEW added, Follows(t, lost, added), "seeWaiters" \notin lost, "notify" \notin lost,
         NotifyComes
  PROVE  NotifyComes'
<1>1. PICK u \in ParkThreads : NextIs(u, "seeWaiters") \/ NextIs(u, "notify")
  BY DEF NotifyComes
<1>2. u # t
  BY <1>1 DEF Follows, NextIs
<1>3. steps'[u] = steps[u]
  BY <1>2 DEF Follows
<1>4. NextIs(u, "seeWaiters")' \/ NextIs(u, "notify")'
  BY <1>1, <1>3 DEF NextIs
<1>5. QED
  BY <1>4 DEF NotifyComes

LEMMA MessageWakeStays ==
  ASSUME NEW t \in ParkThreads, NEW lost, NEW added, Follows(t, lost, added), "advanceWake" \notin lost,
         ~(t \in Clients /\ NextIs(t, "seeWakes") /\ "seeWakes" \in lost), MessageWakeComes
  PROVE  MessageWakeComes'
<1>1. CASE Comes("advanceWake")
  <2>1. Comes("advanceWake")'
    BY <1>1, ComesStays
  <2>2. QED
    BY <2>1 DEF MessageWakeComes
<1>2. CASE \E c \in Clients : NextIs(c, "seeWakes")
  <2>1. PICK c \in Clients : NextIs(c, "seeWakes")
    BY <1>2
  <2>2. c # t /\ c \in ParkThreads
    BY <2>1 DEF Follows, NextIs, ParkThreads
  <2>3. steps'[c] = steps[c]
    BY <2>2 DEF Follows
  <2>4. NextIs(c, "seeWakes")'
    BY <2>1, <2>3 DEF NextIs
  <2>5. QED
    BY <2>4 DEF MessageWakeComes
<1>3. QED
  BY <1>1, <1>2 DEF MessageWakeComes

LEMMA RequestsStay ==
  ASSUME Requests, NEW t \in ParkThreads, NEW lost, NEW added, Follows(t, lost, added), lost \cap {"request", "release"} = {},
         "release" \in added => HasStep(steps'[t], "request"), "request" \in added => steps[t] = <<>>, run'.requests = run.requests
  PROVE  Requests'
<1>1. ASSUME NEW u \in ParkThreads
      PROVE  HasStep(steps'[u], "release") /\ ~HasStep(steps'[u], "request")
               <=> HasStep(steps[u], "release") /\ ~HasStep(steps[u], "request")
  <2>1. CASE u # t
    BY <2>1 DEF Follows
  <2>2. CASE u = t
    BY <2>2, NothingLeft DEF Follows
  <2>3. QED
    BY <2>1, <2>2
<1>2. InRequest' = InRequest
  BY <1>1 DEF InRequest
<1>3. QED
  BY <1>2 DEF Requests

LEMMA ServingStays ==
  ASSUME ParkTypes, Serving, NEW t \in ParkThreads, NEW lost, NEW added, Follows(t, lost, added), "releasePass" \notin lost,
         "handle" \in added => t # serving, UNCHANGED serving
  PROVE  Serving'
<1>1. SUFFICES ASSUME serving # NoThread
               PROVE  HasStep(steps'[serving], "releasePass") /\ ~HasStep(steps'[serving], "handle")
  BY DEF Serving
<1>2. HasStep(steps[serving], "releasePass") /\ ~HasStep(steps[serving], "handle") /\ serving \in ParkThreads
  BY <1>1 DEF Serving, ParkTypes
<1>3. CASE serving # t
  BY <1>2, <1>3 DEF Follows
<1>4. CASE serving = t
  BY <1>2, <1>4 DEF Follows
<1>5. QED
  BY <1>3, <1>4

LEMMA CoursesStay ==
  ASSUME ParkTypes, Courses, UNCHANGED setup, NEW t \in ParkThreads, NEW lost, NEW added, Follows(t, lost, added),
         \A w \in ParkWorkers : HasStep(steps'[w], "handle") => pass'[w].pc = "adopt",
         t \in ParkWorkers =>
           \A x \in added : /\ t \in setup.crew /\ x \notin Pauses \cup {"stopping", "retire"}
                            /\ x \in Posts => "emit" \in setup.may,
         t \in Clients =>
           \A x \in added : /\ x \in Posts => "message" \in setup.may
                            /\ x \in {"handle", "releasePass"} => "service" \in setup.may
                            /\ x \in Pauses => Pausing \cap setup.may # {}
  PROVE  Courses'
<1>1. \A u \in ParkThreads : OnCourse(steps'[u])
  BY DEF Courses, Follows
<1>2. ASSUME NEW u \in ParkThreads, NEW x, HasStep(steps'[u], x) PROVE HasStep(steps[u], x) \/ (u = t /\ x \in added)
  BY <1>2 DEF Follows
<1>3. ASSUME NEW w \in ParkWorkers, NEW x \in StepNames, HasStep(steps'[w], x)
      PROVE  /\ w \in setup'.crew /\ x \notin Pauses \cup {"stopping", "retire"}
             /\ x \in Posts => "emit" \in setup'.may
             /\ x = "handle" => pass'[w].pc = "adopt"
  <2>1. w \in ParkThreads
    BY DEF ParkThreads
  <2>2. CASE HasStep(steps[w], x)
    BY <1>3, <2>2 DEF Courses
  <2>3. CASE w = t /\ x \in added
    BY <1>3, <2>3
  <2>4. QED
    BY <1>2, <1>3, <2>1, <2>2, <2>3
<1>4. ASSUME NEW c \in Clients, NEW x \in StepNames, HasStep(steps'[c], x)
      PROVE  /\ x \in Posts => "message" \in setup'.may
             /\ x \in {"handle", "releasePass"} => "service" \in setup'.may
             /\ x \in Pauses => Pausing \cap setup'.may # {}
  <2>1. c \in ParkThreads
    BY DEF ParkThreads
  <2>2. CASE HasStep(steps[c], x)
    BY <1>4, <2>2 DEF Courses
  <2>3. CASE c = t /\ x \in added
    BY <1>4, <2>3
  <2>4. QED
    BY <1>2, <1>4, <2>1, <2>2, <2>3
<1>5. QED
  BY <1>1, <1>3, <1>4 DEF Courses

\* What a worker that the step is not about still knows.
LEMMA NotifiedStays ==
  ASSUME NEW t \in ParkThreads, NEW lost, NEW added, Follows(t, lost, added), "seeWaiters" \notin lost, "notify" \notin lost,
         NEW v \in ParkWorkers, pass'[v] = pass[v], Notified(v)
  PROVE  Notified(v)'
BY NotifyStays DEF Notified

\* What a step of another thread does to a worker at most.
Nudged(v) ==
  /\ pass'[v].pc = pass[v].pc \/ (pass[v].pc = "asleep" /\ pass'[v].pc = "lock")
  /\ pass'[v].idle = pass[v].idle /\ pass'[v].passes = pass[v].passes /\ pass'[v].active = pass[v].active
  /\ (pass[v].moved => pass'[v].moved) /\ (pass[v].woken => pass'[v].woken)

LEMMA StateSeenStays ==
  ASSUME NEW t \in ParkThreads, NEW lost, NEW added, Follows(t, lost, added), "advanceWake" \notin lost,
         NEW v \in ParkWorkers, Nudged(v), StateSeen(v),
         (run'.state = run.state /\ run'.retired = run.retired) \/ Comes("advanceWake")'
  PROVE  StateSeen(v)'
BY ComesStays DEF StateSeen, Nudged, Committed

LEMMA WorkSeenStays ==
  ASSUME NEW t \in ParkThreads, NEW lost, NEW added, Follows(t, lost, added), "advanceWake" \notin lost, "advanceProgress" \notin lost,
         NEW v \in ParkWorkers, Nudged(v), WorkSeen(v),
         run'.state = run.state \/ run'.state # "RUNNING" \/ Comes("advanceWake")',
         given'[v].samples = given[v].samples \/ Comes("advanceProgress")'
  PROVE  WorkSeen(v)'
BY ComesStays DEF WorkSeen, Nudged, Committed, Parking

LEMMA MessageSeenStays ==
  ASSUME NEW t \in ParkThreads, NEW lost, NEW added, Follows(t, lost, added), "advanceWake" \notin lost,
         ~(t \in Clients /\ NextIs(t, "seeWakes") /\ "seeWakes" \in lost),
         NEW v \in ParkWorkers, v = t => "handle" \notin lost \/ ~setup.single, Nudged(v), MessageSeen(v), UNCHANGED setup,
         Unhandled' => Unhandled
  PROVE  MessageSeen(v)'
<1>1. setup.single /\ NextIs(v, "handle") => NextIs(v, "handle")'
  <2>1. SUFFICES ASSUME setup.single, NextIs(v, "handle") PROVE NextIs(v, "handle")'
    OBVIOUS
  <2>2. v # t /\ v \in ParkThreads
    BY <2>1 DEF Follows, NextIs, ParkThreads
  <2>3. steps'[v] = steps[v]
    BY <2>2 DEF Follows
  <2>4. QED
    BY <2>1, <2>3 DEF NextIs
<1>2. LeftToOther(v) => LeftToOther(v)'
  BY DEF LeftToOther, Nudged
<1>3. QED
  BY <1>1, <1>2, MessageWakeStays DEF MessageSeen, Nudged, Committed, Parking

LEMMA GivenSeenStays ==
  ASSUME NEW t \in ParkThreads, NEW lost, NEW added, Follows(t, lost, added), "advanceWake" \notin lost,
         NEW v \in ParkWorkers, Nudged(v), GivenSeen(v), UNCHANGED setup,
         given'[v].mail = given[v].mail, given'[v].blocks = given[v].blocks
  PROVE  GivenSeen(v)'
<1>1. (Given(v)' <=> Given(v)) /\ (YetToLook(v) => YetToLook(v)') /\ (IdlesOn(v) => IdlesOn(v)')
  BY DEF Given, YetToLook, IdlesOn, Nudged
<1>2. QED
  BY <1>1, ComesStays DEF GivenSeen, Nudged

LEMMA PlaceStays ==
  ASSUME NEW v \in ParkWorkers, Nudged(v), UNCHANGED setup, armed /\ pass[v].pc \notin {"out", "register"} => armed',
         Crew(v), Armed(v), Fresh(v), PassesLeft(v)
  PROVE  Crew(v)' /\ Armed(v)' /\ Fresh(v)' /\ PassesLeft(v)'
BY DEF Crew, Armed, Fresh, PassesLeft, Nudged

\* A worker that the step is not about; of what the step may be about, the caller shows the conjunct.
LEMMA BystanderStays ==
  ASSUME NEW t \in ParkThreads, NEW lost, NEW added, Follows(t, lost, added), "advanceWake" \notin lost, "advanceProgress" \notin lost,
         NEW v \in ParkWorkers, Watched(v), Nudged(v), UNCHANGED setup,
         armed /\ pass[v].pc \notin {"out", "register"} => armed',
         ("seeWaiters" \notin lost /\ "notify" \notin lost /\ pass'[v] = pass[v]) \/ Notified(v)',
         ("seeWakes" \notin lost /\ "handle" \notin lost /\ (Unhandled' => Unhandled)) \/ MessageSeen(v)',
         (run'.state = run.state /\ run'.retired = run.retired) \/ Comes("advanceWake")',
         (given'[v].mail = given[v].mail /\ given'[v].blocks = given[v].blocks) \/ GivenSeen(v)',
         given'[v].samples = given[v].samples \/ Comes("advanceProgress")'
  PROVE  Watched(v)'
<1>1. /\ Crew(v) /\ Armed(v) /\ Fresh(v) /\ PassesLeft(v)
      /\ Notified(v) /\ StateSeen(v) /\ WorkSeen(v) /\ MessageSeen(v) /\ GivenSeen(v)
  BY DEF Watched
<1>2. Crew(v)' /\ Armed(v)' /\ Fresh(v)' /\ PassesLeft(v)'
  BY <1>1, PlaceStays
<1>3. Notified(v)'
  BY <1>1, NotifiedStays
<1>4. StateSeen(v)'
  BY <1>1, StateSeenStays
<1>5. WorkSeen(v)'
  BY <1>1, WorkSeenStays
<1>6. MessageSeen(v)'
  BY <1>1, MessageSeenStays
<1>7. GivenSeen(v)'
  BY <1>1, GivenSeenStays
<1>8. QED
  BY <1>2, <1>3, <1>4, <1>5, <1>6, <1>7 DEF Watched

\* A worker with which nothing happened.
LEMMA SameIsNudged ==
  ASSUME NEW v \in ParkWorkers, pass'[v] = pass[v]
  PROVE  Nudged(v)
BY DEF Nudged

LEMMA CourseGoesOn ==
  ASSUME NEW s \in Seq(StepNames), OnCourse(s)
  PROVE  /\ \A x : HasStep(s, x) /\ x \notin Alone => HasStep(s, Successor(x))
         /\ HasStep(s, "release") \/ HasStep(s, "runBlocks") => HasStep(s, "advanceWake")
<1>1. ASSUME NEW x, HasStep(s, x), x \notin Alone PROVE HasStep(s, Successor(x))
  <2>1. PICK i \in 1 .. Len(s) : s[i] = x
    BY <1>1 DEF HasStep
  <2>2. i < Len(s) /\ s[i + 1] = Successor(x)
    BY <2>1, <1>1 DEF OnCourse
  <2>3. i + 1 \in 1 .. Len(s)
    BY <2>2, LenProperties
  <2>4. QED
    BY <2>2, <2>3 DEF HasStep
<1>2. /\ "release" \notin Alone /\ "runBlocks" \notin Alone
      /\ Successor("release") = "advanceWake" /\ Successor("runBlocks") = "advanceWake"
  BY DEF Alone, Successor
<1>3. QED
  BY <1>1, <1>2

LEMMA CallGoesOn ==
  ASSUME NEW s \in Seq(StepNames), s # <<>>, OnCourse(s)
  PROVE  /\ Head(s) = "request" => ~HasStep(Tail(s), "request") /\ HasStep(Tail(s), "release")
         /\ Head(s) = "release" => HasStep(s, "release") /\ ~HasStep(s, "request") /\ ~HasStep(Tail(s), "release")
         /\ Head(s) = "running" => HasStep(Tail(s), "runBlocks")
<1> DEFINE r == Tail(s)
<1>1. /\ r \in Seq(StepNames) /\ Len(s) \in Nat /\ Len(s) > 0 /\ Len(r) = Len(s) - 1
      /\ \A i \in 1 .. Len(r) : r[i] = s[i + 1]
      /\ Head(s) = s[1]
  BY TailIs
<1>2. \A x : (HasStep(r, x) => HasStep(s, x)) /\ (HasStep(s, x) /\ Head(s) # x => HasStep(r, x))
  BY TailKeeps
<1> HIDE DEF r
<1>3. 1 \in 1 .. Len(s)
  BY <1>1
<1>4. ASSUME NEW x \in {"request", "release"}, Head(s) = x, HasStep(r, x) PROVE FALSE
  <2>1. PICK i \in 1 .. Len(r) : r[i] = x
    BY <1>4 DEF HasStep
  <2>2. i + 1 \in 1 .. Len(s) /\ s[i + 1] = x /\ s[1] = x
    BY <2>1, <1>1, <1>4
  <2>3. i + 1 = 1
    BY <2>2, <1>3 DEF OnCourse
  <2>4. QED
    BY <2>1, <2>3
<1>5. ASSUME NEW x, NEW y, x # y, Later(s, x, y), Head(s) = x PROVE HasStep(r, y)
  <2>1. PICK j \in 1 .. Len(s) : s[j] = y
    BY <1>1, <1>3, <1>5 DEF Later
  <2>2. HasStep(s, y)
    BY <2>1 DEF HasStep
  <2>3. QED
    BY <2>2, <1>2, <1>5
<1>6. Head(s) = "release" => ~HasStep(s, "request")
  <2>1. SUFFICES ASSUME Head(s) = "release", HasStep(s, "request") PROVE FALSE
    OBVIOUS
  <2>2. PICK j \in 1 .. Len(s) : s[j] = "request"
    BY <2>1 DEF HasStep
  <2>3. j < 1
    BY <2>1, <2>2, <1>1, <1>3 DEF OnCourse
  <2>4. QED
    BY <2>2, <2>3
<1>7. Head(s) = "release" => HasStep(s, "release")
  BY <1>1, <1>3 DEF HasStep
<1>8. Later(s, "running", "runBlocks") /\ Later(s, "request", "release")
  BY DEF OnCourse
<1>9. Head(s) = "request" => ~HasStep(r, "request") /\ HasStep(r, "release")
  BY <1>4, <1>5, <1>8
<1>10. Head(s) = "running" => HasStep(r, "runBlocks")
  BY <1>5, <1>8
<1>11. Head(s) = "release" => ~HasStep(r, "release")
  BY <1>4
<1>12. QED
  BY <1>6, <1>7, <1>9, <1>10, <1>11 DEF r

LEMMA CoursesAfter ==
  ASSUME ParkTypes, Courses, UNCHANGED setup, NEW t \in ParkThreads, steps[t] # <<>>, NEW lost, NEW added,
         Follows(t, lost, added), \A x \in added : x \in Wakes,
         \A w \in ParkWorkers : pass[w].pc = "adopt" => pass'[w].pc = "adopt"
  PROVE  Courses'
<1>1. \A x \in added : x \notin Pauses \cup {"stopping", "retire"} \cup Posts \cup {"handle", "releasePass"}
  BY DEF Wakes, Pauses, Posts
<1>2. ASSUME t \in ParkWorkers PROVE t \in setup.crew
  BY <1>2, NextIsStep DEF Courses
<1>3. ASSUME NEW w \in ParkWorkers, HasStep(steps'[w], "handle") PROVE pass'[w].pc = "adopt"
  <2>1. w \in ParkThreads /\ "handle" \in StepNames
    BY DEF ParkThreads, StepNames
  <2>2. HasStep(steps[w], "handle")
    BY <1>1, <1>3, <2>1 DEF Follows
  <2>3. QED
    BY <2>1, <2>2 DEF Courses
<1>4. QED
  BY <1>1, <1>2, <1>3, CoursesStay

LEMMA RingStays ==
  ASSUME RingSlots, UNCHANGED <<setup, ring>>
  PROVE  RingSlots' /\ (Unhandled' <=> Unhandled)
BY DEF RingSlots, Unhandled

LEMMA BlocksRunStays ==
  ASSUME BlocksRun, NEW t \in ParkThreads, NEW lost, NEW added, Follows(t, lost, added), "runBlocks" \notin lost,
         run'.state = run.state, run'.blocksRun = run.blocksRun
  PROVE  BlocksRun'
BY ComesStays DEF BlocksRun

\* What a step leaves alone that is about its call and about waiters only.
LEMMA CallStays ==
  ASSUME ParkInv, NEW t \in ParkThreads, steps[t] # <<>>, NEW lost, NEW added, Follows(t, lost, added),
         lost \cap {"request", "release", "runBlocks"} = {}, \A x \in added : x \in Wakes,
         \A w \in ParkWorkers : pass[w].pc = "adopt" => pass'[w].pc = "adopt", UNCHANGED <<setup, run>>
  PROVE  WakesSuffice(setup)' /\ Courses' /\ Requests' /\ BlocksRun'
<1>1. ParkTypes /\ WakesSuffice(setup) /\ Courses /\ Requests /\ BlocksRun
  BY DEF ParkInv
<1>2. WakesSuffice(setup)'
  BY <1>1 DEF WakesSuffice
<1>3. Courses'
  BY <1>1, CoursesAfter
<1>4. "request" \notin added /\ "release" \notin added /\ "runBlocks" \notin lost
  BY DEF Wakes
<1>5. Requests'
  BY <1>1, <1>4, RequestsStay
<1>6. BlocksRun'
  BY <1>1, <1>4, BlocksRunStays
<1>7. QED
  BY <1>2, <1>3, <1>5, <1>6

LEMMA AdvanceKeeps ==
  ASSUME ParkInv, NEW t \in ParkThreads, Advance(t)
  PROVE  ParkInv'
<1>1. ParkTypes /\ Courses /\ Serving /\ RingSlots /\ \A w \in ParkWorkers : Watched(w)
  BY DEF ParkInv
<1>2. PICK x \in {"advanceWake", "advanceProgress"} :
        /\ Step(t, x) /\ Then(t, <<>>)
        /\ pass' = [w \in ParkWorkers |-> IF x = "advanceWake" THEN [pass[w] EXCEPT !.woken = TRUE]
                                                               ELSE [pass[w] EXCEPT !.moved = TRUE]]
        /\ UNCHANGED <<setup, ring, armed, serving, run, given, calls>>
  BY DEF Advance
<1>3. steps[t] # <<>> /\ x \notin Alone /\ Successor(x) = "seeWaiters"
  BY <1>2 DEF Step, Alone, Successor
<1>4. Follows(t, {x}, {}) /\ NotifyComes'
  BY <1>1, <1>2, <1>3, ThenNothing DEF NotifyComes
<1>5. ASSUME NEW w \in ParkWorkers
      PROVE  /\ Nudged(w) /\ pass'[w].pc = pass[w].pc
             /\ IF x = "advanceWake" THEN pass'[w].woken ELSE pass'[w].moved
  BY <1>1, <1>2 DEF Nudged, ParkTypes, PassStates
<1>6. ParkTypes'
  <2>1. \A p \in PassStates : [p EXCEPT !.woken = TRUE] \in PassStates /\ [p EXCEPT !.moved = TRUE] \in PassStates
    BY DEF PassStates
  <2>2. pass' \in [ParkWorkers -> PassStates]
    BY <1>1, <1>2, <2>1 DEF ParkTypes
  <2>3. QED
    BY <1>1, <1>2, <1>4, <2>2 DEF ParkTypes, Follows
<1>7. WakesSuffice(setup)' /\ Courses' /\ Requests' /\ BlocksRun'
  <2>1. {x} \cap {"request", "release", "runBlocks"} = {}
    BY <1>2
  <2>2. QED
    BY <2>1, <1>2, <1>3, <1>4, <1>5, CallStays
<1>8. Serving' /\ RingSlots' /\ (Unhandled' <=> Unhandled)
  BY <1>1, <1>2, <1>4, ServingStays, RingStays
<1>9. ASSUME NEW w \in ParkWorkers PROVE Watched(w)'
  <2>1. /\ Crew(w) /\ Armed(w) /\ Fresh(w) /\ PassesLeft(w)
        /\ Notified(w) /\ StateSeen(w) /\ WorkSeen(w) /\ MessageSeen(w) /\ GivenSeen(w)
    BY <1>1 DEF Watched
  <2>2. Crew(w)' /\ Armed(w)' /\ Fresh(w)' /\ PassesLeft(w)'
    BY <1>2, <1>5, <2>1, PlaceStays
  <2>3. Notified(w)'
    BY <1>4 DEF Notified
  <2>4. CASE x = "advanceWake"
    <3>1. pass'[w].woken /\ pass'[w].pc = pass[w].pc
      BY <1>5, <2>4
    <3>2. StateSeen(w)' /\ WorkSeen(w)' /\ MessageSeen(w)'
      BY <3>1 DEF StateSeen, WorkSeen, MessageSeen
    <3>3. GivenSeen(w)'
      <4>1. (Given(w)' <=> Given(w)) /\ (YetToLook(w) => YetToLook(w)')
        BY <1>2, <1>5, <2>1 DEF Given, YetToLook, Nudged
      <4>2. QED
        BY <1>2, <2>1, <3>1, <4>1 DEF GivenSeen
    <3>4. QED
      BY <2>2, <2>3, <3>2, <3>3 DEF Watched
  <2>5. CASE x = "advanceProgress"
    <3>1. pass'[w].moved /\ Nudged(w)
      BY <1>5, <2>5
    <3>2. "advanceWake" \notin {x} /\ "seeWakes" \notin {x} /\ "handle" \notin {x}
      BY <2>5
    <3>3. StateSeen(w)'
      BY <1>2, <1>4, <2>1, <3>1, <3>2, StateSeenStays
    <3>4. WorkSeen(w)'
      BY <3>1 DEF WorkSeen
    <3>5. MessageSeen(w)'
      BY <1>2, <1>4, <1>8, <2>1, <3>1, <3>2, MessageSeenStays
    <3>6. GivenSeen(w)'
      BY <1>2, <1>4, <2>1, <3>1, <3>2, GivenSeenStays
    <3>7. QED
      BY <2>2, <2>3, <3>3, <3>4, <3>5, <3>6 DEF Watched
  <2>6. QED
    BY <1>2, <2>4, <2>5
<1>10. QED
  BY <1>6, <1>7, <1>8, <1>9 DEF ParkInv

LEMMA SeeWaitersKeeps ==
  ASSUME ParkInv, NEW t \in ParkThreads, SeeWaiters(t)
  PROVE  ParkInv'
<1>1. ParkTypes /\ Courses /\ Serving /\ RingSlots /\ \A w \in ParkWorkers : Watched(w)
  BY DEF ParkInv
<1>2. /\ Step(t, "seeWaiters") /\ steps[t] # <<>> /\ UNCHANGED <<setup, pass, ring, armed, serving, run, given, calls>>
      /\ steps' = [steps EXCEPT ![t] = IF Waiting = {} THEN Tail(Tail(@)) ELSE Tail(@)]
  BY DEF SeeWaiters, Step
<1>3. "seeWaiters" \notin Alone /\ Successor("seeWaiters") = "notify"
  BY DEF Alone, Successor
<1>4. PICK lost \in {{"seeWaiters"}, {"seeWaiters", "notify"}} : Follows(t, lost, {}) /\ (Waiting # {} => NotifyComes')
  <2>1. CASE Waiting = {}
    <3>1. steps' = [steps EXCEPT ![t] = Tail(Tail(@))]
      BY <1>2, <2>1
    <3>2. Follows(t, {"seeWaiters", "notify"}, {})
      BY <1>1, <1>2, <1>3, <3>1, ThenSkip
    <3>3. QED
      BY <2>1, <3>2
  <2>2. CASE Waiting # {}
    <3>1. steps' = [steps EXCEPT ![t] = Tail(@)]
      BY <1>2, <2>2
    <3>2. Follows(t, {"seeWaiters"}, {}) /\ NextIs(t, "notify")'
      BY SMTT(30), ZenonT(20), <1>1, <1>2, <1>3, <3>1, ThenNothing
    <3>3. NotifyComes'
      BY <3>2 DEF NotifyComes
    <3>4. QED
      BY <3>2, <3>3
  <2>3. QED
    BY <2>1, <2>2
<1>5. ParkTypes'
  BY <1>1, <1>2, <1>4 DEF ParkTypes, Follows
<1>6. /\ lost \cap {"request", "release", "runBlocks"} = {} /\ "advanceWake" \notin lost /\ "advanceProgress" \notin lost
      /\ "seeWakes" \notin lost /\ "handle" \notin lost /\ "releasePass" \notin lost
  BY <1>4
<1>7. WakesSuffice(setup)' /\ Courses' /\ Requests' /\ BlocksRun'
  BY <1>2, <1>4, <1>6, CallStays
<1>8. Serving' /\ RingSlots' /\ (Unhandled' <=> Unhandled)
  BY <1>1, <1>2, <1>4, <1>6, ServingStays, RingStays
<1>9. ASSUME NEW w \in ParkWorkers PROVE Watched(w)'
  <2>1. Nudged(w) /\ pass'[w] = pass[w] /\ Watched(w)
    BY <1>1, <1>2, SameIsNudged
  <2>2. Notified(w)'
    BY <1>2, <1>4, <2>1 DEF Notified, Waiting
  <2>3. QED
    BY <1>2, <1>4, <1>6, <1>8, <2>1, <2>2, BystanderStays
<1>10. QED
  BY <1>5, <1>7, <1>8, <1>9 DEF ParkInv

LEMMA NotifyKeeps ==
  ASSUME ParkInv, NEW t \in ParkThreads, notifyTimedWaiters(t)
  PROVE  ParkInv'
<1>1. ParkTypes /\ Courses /\ Serving /\ RingSlots /\ \A w \in ParkWorkers : Watched(w)
  BY DEF ParkInv
<1>2. /\ Step(t, "notify") /\ steps[t] # <<>> /\ Then(t, <<>>) /\ UNCHANGED <<setup, ring, armed, serving, run, given, calls>>
      /\ ~SlotHeld
      /\ pass' = [w \in ParkWorkers |-> IF pass[w].pc = "asleep" THEN [pass[w] EXCEPT !.pc = "lock"] ELSE pass[w]]
  BY DEF notifyTimedWaiters, Step
<1>3. Follows(t, {"notify"}, {})
  BY <1>1, <1>2, ThenNothing
<1>4. ASSUME NEW w \in ParkWorkers
      PROVE  Nudged(w) /\ pass'[w].pc \notin {"testWake", "asleep"} /\ (pass[w].pc = "adopt" => pass'[w].pc = "adopt")
  BY <1>1, <1>2 DEF Nudged, ParkTypes, PassStates, SlotHeld
<1>5. ParkTypes'
  <2>1. \A p \in PassStates : [p EXCEPT !.pc = "lock"] \in PassStates
    BY DEF PassStates, Locations
  <2>2. pass' \in [ParkWorkers -> PassStates]
    BY <1>1, <1>2, <2>1 DEF ParkTypes
  <2>3. QED
    BY <1>1, <1>2, <1>3, <2>2 DEF ParkTypes, Follows
<1>6. WakesSuffice(setup)' /\ Courses' /\ Requests' /\ BlocksRun'
  <2>1. {"notify"} \cap {"request", "release", "runBlocks"} = {}
    OBVIOUS
  <2>2. QED
    BY <2>1, <1>2, <1>3, <1>4, CallStays
<1>7. Serving' /\ RingSlots' /\ (Unhandled' <=> Unhandled)
  BY <1>1, <1>2, <1>3, ServingStays, RingStays
<1>8. ASSUME NEW w \in ParkWorkers PROVE Watched(w)'
  <2>1. Notified(w)'
    BY <1>4 DEF Notified
  <2>2. Watched(w) /\ Nudged(w)
    BY <1>1, <1>4
  <2>3. /\ "advanceWake" \notin {"notify"} /\ "advanceProgress" \notin {"notify"} /\ "seeWakes" \notin {"notify"}
        /\ "handle" \notin {"notify"}
    OBVIOUS
  <2>4. QED
    BY <1>2, <1>3, <1>7, <2>1, <2>2, <2>3, BystanderStays
<1>9. QED
  BY <1>5, <1>6, <1>7, <1>8 DEF ParkInv

LEMMA ReleasePassKeeps ==
  ASSUME ParkInv, NEW t \in ParkThreads, ReleasePass(t)
  PROVE  ParkInv'
<1>1. ParkTypes /\ Courses /\ RingSlots /\ \A w \in ParkWorkers : Watched(w)
  BY DEF ParkInv
<1>2. /\ Step(t, "releasePass") /\ steps[t] # <<>> /\ Then(t, <<>>) /\ UNCHANGED <<setup, pass, ring, armed, run, given, calls>>
      /\ serving' = NoThread
  BY DEF ReleasePass, Step
<1>3. Follows(t, {"releasePass"}, {})
  BY <1>1, <1>2, ThenNothing
<1>4. ParkTypes'
  BY <1>1, <1>2, <1>3 DEF ParkTypes, Follows
<1>5. WakesSuffice(setup)' /\ Courses' /\ Requests' /\ BlocksRun'
  <2>1. {"releasePass"} \cap {"request", "release", "runBlocks"} = {}
    OBVIOUS
  <2>2. QED
    BY <2>1, <1>2, <1>3, CallStays
<1>6. Serving' /\ RingSlots' /\ (Unhandled' <=> Unhandled)
  BY <1>1, <1>2, RingStays DEF Serving
<1>7. ASSUME NEW w \in ParkWorkers PROVE Watched(w)'
  <2>1. Nudged(w) /\ pass'[w] = pass[w] /\ Watched(w)
    BY <1>1, <1>2, SameIsNudged
  <2>2. QED
    BY <1>2, <1>3, <1>6, <2>1, BystanderStays
<1>8. QED
  BY <1>4, <1>5, <1>6, <1>7 DEF ParkInv

\* Only messages and blocks that publish fill the ring.
LEMMA WhoPosts ==
  ASSUME ParkTypes, Courses, NEW t \in ParkThreads, NEW x \in Posts, Step(t, x)
  PROVE  IF t \in ParkWorkers THEN "emit" \in setup.may ELSE "message" \in setup.may
<1>1. x \in StepNames /\ HasStep(steps[t], x)
  BY NextIsStep DEF Step
<1>2. t \in ParkWorkers \/ t \in Clients
  BY DEF ParkThreads
<1>3. QED
  BY <1>1, <1>2 DEF Courses

LEMMA StoreKeeps ==
  ASSUME ParkInv, NEW t \in ParkThreads, Store(t)
  PROVE  ParkInv'
<1>1. ParkTypes /\ Courses /\ Serving /\ RingSlots /\ \A w \in ParkWorkers : Watched(w)
  BY DEF ParkInv
<1>2. /\ Step(t, "store") /\ steps[t] # <<>> /\ Then(t, <<>>) /\ UNCHANGED <<setup, pass, armed, serving, run, given, calls>>
      /\ ring' = [ring EXCEPT !.stored = @ + 1, !.own = IF t \in ParkWorkers THEN @ \cup {ring.stored + 1} ELSE @]
  BY DEF Store, Step
<1>3. Follows(t, {"store"}, {})
  BY <1>1, <1>2, ThenNothing
<1>4. /\ ring \in [stored : Nat, cursor : Nat, handled : Nat, own : SUBSET Nat]
      /\ ring' \in [stored : Nat, cursor : Nat, handled : Nat, own : SUBSET Nat]
      /\ ring'.stored = ring.stored + 1 /\ ring'.cursor = ring.cursor /\ ring'.handled = ring.handled
      /\ ring'.own = IF t \in ParkWorkers THEN ring.own \cup {ring.stored + 1} ELSE ring.own
  <2>1. ring \in [stored : Nat, cursor : Nat, handled : Nat, own : SUBSET Nat]
    BY <1>1 DEF ParkTypes
  <2>2. ring.stored + 1 \in Nat /\ ring.own \cup {ring.stored + 1} \subseteq Nat
    BY <2>1
  <2>3. QED
    BY <2>1, <2>2, <1>2
<1>5. ParkTypes'
  BY <1>1, <1>2, <1>3, <1>4 DEF ParkTypes, Follows
<1>6. WakesSuffice(setup)' /\ Courses' /\ Requests' /\ BlocksRun'
  <2>1. {"store"} \cap {"request", "release", "runBlocks"} = {}
    OBVIOUS
  <2>2. QED
    BY <2>1, <1>2, <1>3, CallStays
<1>7. Serving' /\ (Unhandled' <=> Unhandled)
  BY <1>1, <1>2, <1>3, <1>4, ServingStays DEF Unhandled
<1>8. RingSlots'
  <2>1. IF t \in ParkWorkers THEN "emit" \in setup.may ELSE "message" \in setup.may
    BY <1>1, <1>2, WhoPosts DEF Posts
  <2>2. Posting \cap setup.may # {}
    BY <2>1 DEF Posting
  <2>3. "message" \notin setup.may => ring'.own = 1 .. ring'.stored
    <3>1. SUFFICES ASSUME "message" \notin setup.may PROVE ring'.own = 1 .. ring'.stored
      OBVIOUS
    <3>2. ring.own = 1 .. ring.stored /\ ring'.own = ring.own \cup {ring.stored + 1}
      BY <1>1, <1>4, <2>1, <3>1 DEF RingSlots
    <3>3. \A n \in Nat : (1 .. n) \cup {n + 1} = 1 .. n + 1
      OBVIOUS
    <3>4. QED
      BY <1>4, <3>2, <3>3
  <2>4. QED
    BY <1>1, <1>2, <1>4, <2>2, <2>3 DEF RingSlots
<1>9. ASSUME NEW w \in ParkWorkers PROVE Watched(w)'
  <2>1. Nudged(w) /\ pass'[w] = pass[w] /\ Watched(w)
    BY <1>1, <1>2, SameIsNudged
  <2>2. QED
    BY <1>2, <1>3, <1>7, <2>1, BystanderStays
<1>10. QED
  BY <1>5, <1>6, <1>7, <1>8, <1>9 DEF ParkInv

LEMMA MoveCursorKeeps ==
  ASSUME ParkInv, NEW t \in ParkThreads, MoveCursor(t)
  PROVE  ParkInv'
<1>1. ParkTypes /\ Courses /\ Serving /\ RingSlots /\ WakesSuffice(setup) /\ \A w \in ParkWorkers : Watched(w)
  BY DEF ParkInv
<1>2. /\ Step(t, "moveCursor") /\ steps[t] # <<>> /\ Head(steps[t]) = "moveCursor"
      /\ UNCHANGED <<setup, pass, armed, serving, run, given, calls>>
      /\ ring' = [ring EXCEPT !.cursor = ring.stored]
      /\ steps' = [steps EXCEPT ![t] = IF ring.stored = ring.cursor THEN Tail(Tail(@)) ELSE Tail(@)]
  BY DEF MoveCursor, Step
<1>3. "moveCursor" \notin Alone /\ Successor("moveCursor") = "seeWakes"
  BY DEF Alone, Successor
<1>4. PICK lost \in {{"moveCursor"}, {"moveCursor", "seeWakes"}} :
        Follows(t, lost, {}) /\ (ring.stored # ring.cursor => NextIs(t, "seeWakes")')
  <2>1. CASE ring.stored = ring.cursor
    <3>1. steps' = [steps EXCEPT ![t] = Tail(Tail(@))]
      BY <1>2, <2>1
    <3>2. Follows(t, {"moveCursor", "seeWakes"}, {})
      BY <1>1, <1>2, <1>3, <3>1, ThenSkip
    <3>3. QED
      BY <2>1, <3>2
  <2>2. CASE ring.stored # ring.cursor
    <3>1. steps' = [steps EXCEPT ![t] = Tail(@)]
      BY <1>2, <2>2
    <3>2. Follows(t, {"moveCursor"}, {}) /\ ("moveCursor" \notin Alone => NextIs(t, Successor("moveCursor"))')
      <4>1. ParkTypes /\ Courses /\ Step(t, "moveCursor")
        BY <1>1, <1>2
      <4>2. QED
        BY <4>1, <3>1, ThenNothing
    <3>3. QED
      BY <2>2, <3>2, <1>3
  <2>3. QED
    BY <2>1, <2>2
<1>5. /\ ring \in [stored : Nat, cursor : Nat, handled : Nat, own : SUBSET Nat]
      /\ ring' \in [stored : Nat, cursor : Nat, handled : Nat, own : SUBSET Nat]
      /\ ring'.stored = ring.stored /\ ring'.cursor = ring.stored /\ ring'.handled = ring.handled /\ ring'.own = ring.own
  BY <1>1, <1>2 DEF ParkTypes
<1>6. ParkTypes'
  BY <1>1, <1>2, <1>4, <1>5 DEF ParkTypes, Follows
<1>7. /\ lost \cap {"request", "release", "runBlocks"} = {} /\ "advanceWake" \notin lost /\ "advanceProgress" \notin lost
      /\ "seeWaiters" \notin lost /\ "notify" \notin lost /\ "handle" \notin lost /\ "releasePass" \notin lost
  BY <1>4
<1>8. WakesSuffice(setup)' /\ Courses' /\ Requests' /\ BlocksRun'
  BY <1>2, <1>4, <1>7, CallStays
<1>9. Serving'
  BY <1>1, <1>2, <1>4, <1>7, ServingStays
<1>10. RingSlots'
  BY <1>1, <1>2, <1>5 DEF RingSlots
<1>11. ASSUME NEW w \in ParkWorkers PROVE Watched(w)'
  <2>1. Nudged(w) /\ pass'[w] = pass[w] /\ Watched(w) /\ MessageSeen(w)
    BY <1>1, <1>2, SameIsNudged DEF Watched
  <2>2. MessageSeen(w)'
    <3>1. CASE ring.stored = ring.cursor
      <4>1. Unhandled' => Unhandled
        BY <3>1, <1>5 DEF Unhandled
      <4>2. ~NextIs(t, "seeWakes")
        BY <1>2 DEF NextIs
      <4>3. QED
        BY <1>2, <1>4, <1>7, <2>1, <4>1, <4>2, MessageSeenStays
    <3>2. CASE ring.stored # ring.cursor /\ "message" \in setup.may
      <4>1. t \in Clients
        BY <1>1, <1>2, <3>2, WhoPosts DEF Posts, WakesSuffice, Posting, ParkThreads
      <4>2. MessageWakeComes'
        BY <1>4, <3>2, <4>1 DEF MessageWakeComes
      <4>3. QED
        BY <4>2 DEF MessageSeen
    <3>3. CASE "message" \notin setup.may
      BY <1>2, <3>3 DEF MessageSeen
    <3>4. QED
      BY <3>1, <3>2, <3>3
  <2>3. QED
    BY <1>2, <1>4, <1>7, <2>1, <2>2, BystanderStays
<1>12. QED
  BY <1>6, <1>8, <1>9, <1>10, <1>11 DEF ParkInv

LEMMA SeeWakesKeeps ==
  ASSUME ParkInv, NEW t \in ParkThreads, SeeWakes(t)
  PROVE  ParkInv'
<1>1. ParkTypes /\ Courses /\ Serving /\ RingSlots /\ \A w \in ParkWorkers : Watched(w)
  BY DEF ParkInv
<1>2. /\ Step(t, "seeWakes") /\ steps[t] # <<>> /\ UNCHANGED <<setup, pass, ring, armed, serving, run, given, calls>>
      /\ Then(t, IF armed /\ t \in Clients THEN wakeWorkers ELSE <<>>)
  BY DEF SeeWakes, Step
<1>3. PICK added \in {{}, Wakes} : Follows(t, {"seeWakes"}, added) /\ (armed /\ t \in Clients => Comes("advanceWake")')
  <2>1. CASE armed /\ t \in Clients
    <3>1. Follows(t, {"seeWakes"}, Wakes) /\ HasStep(steps'[t], "advanceWake")
      BY <1>1, <1>2, <2>1, ThenWake
    <3>2. QED
      BY <3>1 DEF Comes
  <2>2. CASE ~(armed /\ t \in Clients)
    <3>1. Follows(t, {"seeWakes"}, {})
      BY <1>1, <1>2, <2>2, ThenNothing
    <3>2. QED
      BY <2>2, <3>1
  <2>3. QED
    BY <2>1, <2>2
<1>4. ParkTypes'
  BY <1>1, <1>2, <1>3 DEF ParkTypes, Follows
<1>5. \A x \in added : x \in Wakes
  BY <1>3
<1>6. WakesSuffice(setup)' /\ Courses' /\ Requests' /\ BlocksRun'
  <2>1. {"seeWakes"} \cap {"request", "release", "runBlocks"} = {}
    OBVIOUS
  <2>2. QED
    BY <2>1, <1>2, <1>3, <1>5, CallStays
<1>7. Serving' /\ RingSlots' /\ (Unhandled' <=> Unhandled)
  <2>1. "handle" \notin added
    BY <1>5 DEF Wakes
  <2>2. QED
    BY <2>1, <1>1, <1>2, <1>3, ServingStays, RingStays
<1>8. ASSUME NEW w \in ParkWorkers PROVE Watched(w)'
  <2>1. Nudged(w) /\ pass'[w] = pass[w] /\ Watched(w) /\ MessageSeen(w) /\ Armed(w)
    BY <1>1, <1>2, SameIsNudged DEF Watched
  <2>2. MessageSeen(w)'
    <3>1. CASE armed /\ t \in Clients
      BY <1>3, <3>1 DEF MessageSeen, MessageWakeComes
    <3>2. CASE ~armed
      BY <3>2, <2>1 DEF MessageSeen, Armed, Parking, Committed
    <3>3. CASE t \notin Clients
      BY <1>2, <1>3, <1>7, <2>1, <3>3, MessageSeenStays
    <3>4. QED
      BY <3>1, <3>2, <3>3
  <2>3. QED
    BY <1>2, <1>3, <1>7, <2>1, <2>2, BystanderStays
<1>9. QED
  BY <1>4, <1>6, <1>7, <1>8 DEF ParkInv

LEMMA ServiceCourse ==
  ASSUME ParkTypes, Courses, NEW t \in ParkThreads, Step(t, "handle")
  PROVE  /\ HasStep(steps[t], "handle") /\ HasStep(steps[t], "releasePass")
         /\ t \in ParkWorkers => t \in setup.crew /\ pass[t].pc = "adopt"
         /\ t \notin ParkWorkers => "service" \in setup.may
<1>1. OnCourse(steps[t]) /\ steps[t] \in Seq(StepNames) /\ steps[t] # <<>> /\ Head(steps[t]) = "handle"
  BY DEF Courses, ParkTypes, Step
<1>2. Len(steps[t]) \in Nat /\ Len(steps[t]) > 0 /\ steps[t][1] = "handle"
  BY <1>1, TailIs
<1>3. 1 \in 1 .. Len(steps[t]) /\ 2 \in 1 .. Len(steps[t]) /\ steps[t][2] = "releasePass"
  <2>1. 1 \in 1 .. Len(steps[t])
    BY <1>2
  <2>2. Len(steps[t]) = 2 /\ steps[t][2] = "releasePass"
    BY <2>1, <1>1, <1>2 DEF OnCourse
  <2>3. QED
    BY <2>1, <2>2
<1>4. HasStep(steps[t], "handle") /\ HasStep(steps[t], "releasePass")
  BY <1>2, <1>3 DEF HasStep
<1>5. "handle" \in StepNames /\ (t \in ParkWorkers \/ t \in Clients)
  BY DEF StepNames, ParkThreads
<1>6. QED
  BY <1>4, <1>5 DEF Courses

\* The one worker of a single-threaded run serves its messages, nobody else does.
LEMMA OneServes ==
  ASSUME ParkAssumption, ParkTypes, Courses, Serving, WakesSuffice(setup), NEW t \in ParkThreads, Step(t, "handle"), setup.single
  PROVE  /\ t \in ParkWorkers /\ pass[t].pc = "adopt" /\ serving = NoThread
         /\ \A w \in setup.crew : w = t
<1>1. t \in ParkWorkers /\ t \in setup.crew /\ pass[t].pc = "adopt" /\ HasStep(steps[t], "handle")
  BY ServiceCourse DEF WakesSuffice
<1>2. PICK u \in ParkWorkers : setup.crew = {u}
  BY DEF ParkAssumption, ParkTypes
<1>3. serving = NoThread
  <2>1. SUFFICES ASSUME serving # NoThread PROVE FALSE
    OBVIOUS
  <2>2. /\ serving \in ParkThreads /\ HasStep(steps[serving], "releasePass") /\ ~HasStep(steps[serving], "handle")
        /\ "releasePass" \in StepNames
    BY <2>1 DEF ParkTypes, Serving, StepNames
  <2>3. serving \in ParkWorkers
    BY <2>2 DEF Courses, WakesSuffice, ParkThreads
  <2>4. serving = u /\ t = u
    BY <2>2, <2>3, <1>1, <1>2 DEF Courses
  <2>5. QED
    BY <1>1, <2>2, <2>4
<1>4. QED
  BY <1>1, <1>2, <1>3

LEMMA HandleRefusedKeeps ==
  ASSUME ParkInv, ParkAssumption, NEW t \in ParkThreads, HandleMessages(t), serving # NoThread
  PROVE  ParkInv'
<1>1. ParkTypes /\ Courses /\ Serving /\ RingSlots /\ WakesSuffice(setup) /\ \A w \in ParkWorkers : Watched(w)
  BY DEF ParkInv
<1>2. /\ Step(t, "handle") /\ steps[t] # <<>> /\ steps' = [steps EXCEPT ![t] = <<>>]
      /\ UNCHANGED <<setup, pass, ring, armed, serving, run, given, calls>>
  BY DEF HandleMessages, Step
<1>3. Follows(t, {"handle", "releasePass"}, {}) /\ ~setup.single
  BY <1>1, <1>2, ThenRefuse, OneServes
<1>4. ParkTypes'
  BY <1>1, <1>2, <1>3 DEF ParkTypes, Follows
<1>5. WakesSuffice(setup)' /\ Courses' /\ Requests' /\ BlocksRun'
  <2>1. {"handle", "releasePass"} \cap {"request", "release", "runBlocks"} = {}
    OBVIOUS
  <2>2. QED
    BY <2>1, <1>2, <1>3, CallStays
<1>6. Serving'
  <2>1. /\ serving \in ParkThreads /\ HasStep(steps[serving], "releasePass") /\ ~HasStep(steps[serving], "handle")
    BY <1>1 DEF ParkTypes, Serving
  <2>2. serving # t
    BY <1>1, <1>2, <2>1, ServiceCourse
  <2>3. steps'[serving] = steps[serving]
    BY <1>3, <2>1, <2>2 DEF Follows
  <2>4. QED
    BY <1>2, <2>1, <2>3 DEF Serving
<1>7. RingSlots' /\ (Unhandled' <=> Unhandled)
  BY <1>1, <1>2, RingStays
<1>8. ASSUME NEW w \in ParkWorkers PROVE Watched(w)'
  <2>1. Nudged(w) /\ pass'[w] = pass[w] /\ Watched(w) /\ MessageSeen(w)
    BY <1>1, <1>2, SameIsNudged DEF Watched
  <2>2. MessageSeen(w)'
    BY <1>2, <1>3, <1>7, <2>1, MessageSeenStays
  <2>3. QED
    BY <1>2, <1>3, <2>1, <2>2, BystanderStays
<1>9. QED
  BY <1>4, <1>5, <1>6, <1>7, <1>8 DEF ParkInv

LEMMA HandleKeeps ==
  ASSUME ParkInv, ParkAssumption, NEW t \in ParkThreads, HandleMessages(t), serving = NoThread
  PROVE  ParkInv'
<1>1. ParkTypes /\ Courses /\ RingSlots /\ Serving /\ WakesSuffice(setup) /\ \A w \in ParkWorkers : Watched(w)
  BY DEF ParkInv
<1>2. /\ Step(t, "handle") /\ steps[t] # <<>> /\ serving' = t /\ ring' = [ring EXCEPT !.handled = ring.cursor]
      /\ UNCHANGED <<setup, pass, armed, run, calls>>
  BY DEF HandleMessages, Step
<1>3. PICK added \in {{}, Wakes} :
        /\ Follows(t, {"handle"}, added) /\ ~HasStep(steps'[t], "handle")
        /\ \/ UNCHANGED given
           \/ /\ Unhandled /\ Comes("advanceWake")'
              /\ \E w \in setup.crew, kind \in {"mail", "blocks"} : given' = [given EXCEPT ![w][kind] = 1]
  <2>1. CASE Unhandled
    <3>1. Then(t, wakeWorkers) /\ \E w \in setup.crew, kind \in {"mail", "blocks"} : given' = [given EXCEPT ![w][kind] = 1]
      BY <2>1 DEF HandleMessages
    <3>2. Follows(t, {"handle"}, Wakes) /\ ~HasStep(steps'[t], "handle") /\ HasStep(steps'[t], "advanceWake")
      BY <1>1, <1>2, <3>1, ThenWake
    <3>3. QED
      BY <2>1, <3>1, <3>2 DEF Comes
  <2>2. CASE ~Unhandled
    <3>1. Then(t, <<>>) /\ UNCHANGED given
      BY <2>2 DEF HandleMessages
    <3>2. Follows(t, {"handle"}, {}) /\ ~HasStep(steps'[t], "handle")
      BY <1>1, <1>2, <3>1, ThenNothing
    <3>3. QED
      BY <3>1, <3>2
  <2>3. QED
    BY <2>1, <2>2
<1>4. /\ ring \in [stored : Nat, cursor : Nat, handled : Nat, own : SUBSET Nat]
      /\ ring' \in [stored : Nat, cursor : Nat, handled : Nat, own : SUBSET Nat]
      /\ ring'.stored = ring.stored /\ ring'.cursor = ring.cursor /\ ring'.handled = ring.cursor /\ ring'.own = ring.own
  BY <1>1, <1>2 DEF ParkTypes
<1>5. /\ given' \in [ParkWorkers -> [samples : Nat, mail : Nat, blocks : Nat]]
      /\ \A w \in ParkWorkers : /\ given'[w].samples = given[w].samples
                                /\ w \in setup.crew \/ given'[w] = given[w]
  <2>1. given \in [ParkWorkers -> [samples : Nat, mail : Nat, blocks : Nat]]
    BY <1>1 DEF ParkTypes
  <2>2. CASE UNCHANGED given
    BY <2>1, <2>2
  <2>3. CASE \E w \in setup.crew, kind \in {"mail", "blocks"} : given' = [given EXCEPT ![w][kind] = 1]
    <3>1. PICK u \in setup.crew : given' = [given EXCEPT ![u]["mail"] = 1] \/ given' = [given EXCEPT ![u]["blocks"] = 1]
      BY <2>3
    <3>2. \A g \in [samples : Nat, mail : Nat, blocks : Nat] :
            /\ [g EXCEPT !["mail"] = 1] \in [samples : Nat, mail : Nat, blocks : Nat] /\ [g EXCEPT !["mail"] = 1].samples = g.samples
            /\ [g EXCEPT !["blocks"] = 1] \in [samples : Nat, mail : Nat, blocks : Nat]
            /\ [g EXCEPT !["blocks"] = 1].samples = g.samples
      OBVIOUS
    <3>3. u \in ParkWorkers => given'[u] = [given[u] EXCEPT !["mail"] = 1] \/ given'[u] = [given[u] EXCEPT !["blocks"] = 1]
      BY <2>1, <3>1
    <3>4. \A w \in ParkWorkers : w # u => given'[w] = given[w]
      BY <2>1, <3>1
    <3>5. given' \in [ParkWorkers -> [samples : Nat, mail : Nat, blocks : Nat]]
      <4>1. CASE given' = [given EXCEPT ![u]["mail"] = 1]
        BY <2>1, <3>2, <4>1
      <4>2. CASE given' = [given EXCEPT ![u]["blocks"] = 1]
        BY <2>1, <3>2, <4>2
      <4>3. QED
        BY <3>1, <4>1, <4>2
    <3>6. QED
      BY <2>1, <3>1, <3>2, <3>3, <3>4, <3>5
  <2>4. QED
    BY <1>3, <2>2, <2>3
<1>6. ParkTypes'
  BY <1>1, <1>2, <1>3, <1>4, <1>5 DEF ParkTypes, Follows
<1>7. \A x \in added : x \in Wakes
  BY <1>3
<1>8. WakesSuffice(setup)' /\ Courses' /\ Requests' /\ BlocksRun'
  <2>1. {"handle"} \cap {"request", "release", "runBlocks"} = {}
    OBVIOUS
  <2>2. QED
    BY <2>1, <1>2, <1>3, <1>7, CallStays
<1>9. Serving'
  <2>1. HasStep(steps[t], "releasePass")
    BY <1>1, <1>2, ServiceCourse
  <2>2. HasStep(steps'[t], "releasePass")
    BY <1>3, <2>1 DEF Follows
  <2>3. QED
    BY <1>2, <1>3, <2>2 DEF Serving
<1>10. RingSlots' /\ ~Unhandled'
  BY <1>1, <1>2, <1>4 DEF RingSlots, Unhandled
<1>11. ASSUME NEW w \in ParkWorkers PROVE Watched(w)'
  <2>1. Nudged(w) /\ pass'[w] = pass[w] /\ Watched(w) /\ GivenSeen(w)
    BY <1>1, <1>2, SameIsNudged DEF Watched
  <2>2. MessageSeen(w)'
    BY <1>10 DEF MessageSeen
  <2> Follows(t, {"handle"}, added) /\ given'[w].samples = given[w].samples
    BY <1>3, <1>5
  <2> /\ "advanceWake" \notin {"handle"} /\ "advanceProgress" \notin {"handle"} /\ "seeWaiters" \notin {"handle"}
      /\ "notify" \notin {"handle"}
    OBVIOUS
  <2>3. CASE given'[w] = given[w]
    BY <1>2, <2>1, <2>2, <2>3, BystanderStays
  <2>4. CASE given'[w] # given[w]
    <3>1. Unhandled /\ Comes("advanceWake")' /\ w \in setup.crew
      BY <1>3, <1>5, <2>4
    <3>2. Posting \cap setup.may # {}
      BY <3>1, <1>1, <1>4 DEF RingSlots, Unhandled
    <3>3. setup.single => YetToLook(w)'
      BY <1>1, <1>2, <2>1, <3>1, OneServes DEF YetToLook
    <3>4. GivenSeen(w)'
      BY <1>2, <3>1, <3>2, <3>3 DEF GivenSeen
    <3>5. QED
      BY <1>2, <2>1, <2>2, <3>4, BystanderStays
  <2>5. QED
    BY <2>3, <2>4
<1>12. QED
  BY <1>6, <1>8, <1>9, <1>10, <1>11 DEF ParkInv

\* A request that is granted joins those under way, and leaves them when it is released.
LEMMA ControlRequests ==
  ASSUME ParkTypes, Courses, Requests, NEW t \in ParkThreads, NEW x, Step(t, x), Follows(t, {x}, {}), steps'[t] = Tail(steps[t]),
         x = "request" => run'.requests = run.requests + 1,
         x = "release" => run'.requests = run.requests - 1,
         x \notin {"request", "release"} => run'.requests = run.requests
  PROVE  Requests'
<1>1. OnCourse(steps[t]) /\ steps[t] \in Seq(StepNames) /\ steps[t] # <<>> /\ Head(steps[t]) = x
  BY DEF Courses, ParkTypes, Step
<1>2. IsFiniteSet(InRequest) /\ run.requests = Cardinality(InRequest)
  BY DEF Requests
<1>3. \A u \in ParkThreads : u # t => steps'[u] = steps[u]
  BY DEF Follows
<1>4. CASE x = "request"
  <2>1. ~HasStep(steps'[t], "request") /\ HasStep(steps'[t], "release") /\ HasStep(steps[t], "request")
    BY <1>1, <1>4, CallGoesOn, NextIsStep
  <2>2. InRequest' = InRequest \cup {t} /\ t \notin InRequest
    BY <1>3, <2>1 DEF InRequest
  <2>3. IsFiniteSet(InRequest') /\ Cardinality(InRequest') = Cardinality(InRequest) + 1
    BY <1>2, <2>2, FS_AddElement
  <2>4. QED
    BY <1>2, <1>4, <2>3 DEF Requests
<1>5. CASE x = "release"
  <2>1. HasStep(steps[t], "release") /\ ~HasStep(steps[t], "request") /\ ~HasStep(steps'[t], "release")
    BY <1>1, <1>5, CallGoesOn
  <2>2. InRequest' = InRequest \ {t} /\ t \in InRequest
    BY <1>3, <2>1 DEF InRequest
  <2>3. IsFiniteSet(InRequest') /\ Cardinality(InRequest') = Cardinality(InRequest) - 1
    BY <1>2, <2>2, FS_RemoveElement
  <2>4. QED
    BY <1>2, <1>5, <2>3 DEF Requests
<1>6. CASE x \notin {"request", "release"}
  BY <1>6, RequestsStay
<1>7. QED
  BY <1>4, <1>5, <1>6

LEMMA ControlKeeps ==
  ASSUME ParkInv, NEW t \in ParkThreads, Control(t)
  PROVE  ParkInv'
<1>1. ParkTypes /\ Courses /\ Requests /\ Serving /\ RingSlots /\ BlocksRun /\ WakesSuffice(setup) /\ \A w \in ParkWorkers : Watched(w)
  BY DEF ParkInv
<1> DEFINE Runs == [state : States, blocksRun : BOOLEAN, retired : BOOLEAN, requests : Int, runs : Nat]
           Sets(x) ==
             /\ run' \in Runs
             /\ x \notin {"paused", "running", "stopping", "retire"} => run'.state = run.state /\ run'.retired = run.retired
             /\ x # "running" /\ run.state # "RUNNING" => run'.state # "RUNNING"
             /\ run'.requests = CASE x = "request" -> run.requests + 1 [] x = "release" -> run.requests - 1 [] OTHER -> run.requests
             /\ x \in {"pauseBlocks", "runBlocks"} \/ run'.blocksRun = run.blocksRun
             /\ x = "pauseBlocks" /\ ~run'.blocksRun => ~run.blocksRun \/ run'.state # "RUNNING"
             /\ x = "runBlocks" => run'.blocksRun
<1>2. /\ Then(t, <<>>) /\ steps[t] # <<>> /\ UNCHANGED <<setup, pass, ring, armed, serving, given, calls>>
  BY DEF Control, Step
<1>3. PICK x \in Pauses \cup {"stopping", "retire"} : Step(t, x) /\ Sets(x)
  <2>1. run \in Runs
    BY <1>1 DEF ParkTypes
  <2>2. CASE Step(t, "paused") /\ run' = [run EXCEPT !.state = IF @ = "RUNNING" THEN "PAUSED" ELSE @]
    <3>1. Sets("paused")
      BY <2>1, <2>2 DEF States
    <3>2. QED
      BY <2>2, <3>1 DEF Pauses
  <2>3. CASE Step(t, "running") /\ run' = [run EXCEPT !.state = IF @ = "PAUSED" THEN "RUNNING" ELSE @]
    <3>1. Sets("running")
      BY <2>1, <2>3 DEF States
    <3>2. QED
      BY <2>3, <3>1 DEF Pauses
  <2>4. CASE Step(t, "stopping") /\ run' = [run EXCEPT !.state = "STOPPED"]
    <3>1. Sets("stopping")
      BY <2>1, <2>4 DEF States
    <3>2. QED
      BY <2>4, <3>1 DEF Pauses
  <2>5. CASE Step(t, "retire") /\ run' = [run EXCEPT !.retired = TRUE]
    <3>1. Sets("retire")
      BY <2>1, <2>5 DEF States
    <3>2. QED
      BY <2>5, <3>1 DEF Pauses
  <2>6. CASE Step(t, "request") /\ run' = [run EXCEPT !.requests = @ + 1]
    <3>1. Sets("request")
      BY <2>1, <2>6 DEF States
    <3>2. QED
      BY <2>6, <3>1 DEF Pauses
  <2>7. CASE Step(t, "release") /\ run' = [run EXCEPT !.requests = @ - 1]
    <3>1. Sets("release")
      BY <2>1, <2>7 DEF States
    <3>2. QED
      BY <2>7, <3>1 DEF Pauses
  <2>8. CASE Step(t, "pauseBlocks") /\ run' = [run EXCEPT !.blocksRun = @ /\ run.state # "PAUSED"]
    <3>1. Sets("pauseBlocks")
      BY <2>1, <2>8 DEF States
    <3>2. QED
      BY <2>8, <3>1 DEF Pauses
  <2>9. CASE Step(t, "runBlocks") /\ run' = [run EXCEPT !.blocksRun = TRUE]
    <3>1. Sets("runBlocks")
      BY <2>1, <2>9 DEF States
    <3>2. QED
      BY <2>9, <3>1 DEF Pauses
  <2> HIDE DEF Sets
  <2>10. QED
    BY <2>2, <2>3, <2>4, <2>5, <2>6, <2>7, <2>8, <2>9 DEF Control
<1> HIDE DEF Runs
<1>4. /\ Follows(t, {x}, {}) /\ steps'[t] = Tail(steps[t])
      /\ x \notin Alone => HasStep(steps'[t], Successor(x))
  BY <1>1, <1>2, <1>3, ThenNothing
<1>5. steps'[t] \in Seq(StepNames) /\ OnCourse(steps'[t]) /\ steps[t] \in Seq(StepNames) /\ OnCourse(steps[t]) /\ Head(steps[t]) = x
  BY <1>1, <1>3, <1>4 DEF Follows, ParkTypes, Courses, Step
<1>6. x \in {"paused", "running", "stopping", "retire"} => Comes("advanceWake")'
  <2>1. /\ x \in {"paused", "running", "stopping", "retire"} => x \notin Alone
        /\ Successor("paused") = "advanceWake" /\ Successor("running") = "advanceWake" /\ Successor("retire") = "advanceWake"
        /\ Successor("stopping") = "retire" /\ "retire" \notin Alone
    BY DEF Alone, Successor
  <2>2. x \in {"paused", "running", "retire"} => HasStep(steps'[t], "advanceWake")
    BY <1>4, <2>1
  <2>3. x = "stopping" => HasStep(steps'[t], "advanceWake")
    BY <1>4, <1>5, <2>1, CourseGoesOn
  <2>4. QED
    BY <2>2, <2>3 DEF Comes
<1>7. ParkTypes'
  BY <1>1, <1>2, <1>3, <1>4 DEF ParkTypes, Follows, Runs
<1>8. WakesSuffice(setup)' /\ Courses'
  BY <1>1, <1>2, <1>4, CoursesAfter DEF WakesSuffice
<1>9. Requests'
  BY <1>1, <1>3, <1>4, ControlRequests
<1>10. BlocksRun'
  <2>1. SUFFICES ASSUME ~run'.blocksRun, run'.state = "RUNNING" PROVE Comes("runBlocks")'
    BY DEF BlocksRun
  <2>2. CASE x = "running"
    <3>1. HasStep(steps'[t], "runBlocks")
      BY <1>2, <1>4, <1>5, <2>2, CallGoesOn
    <3>2. QED
      BY <3>1 DEF Comes
  <2>3. CASE x # "running"
    <3>1. ~run.blocksRun /\ run.state = "RUNNING" /\ x # "runBlocks"
      BY <1>3, <2>1, <2>3
    <3>2. QED
      BY <1>1, <1>4, <3>1, ComesStays DEF BlocksRun
  <2>4. QED
    BY <2>2, <2>3
<1>11. /\ "advanceWake" \notin {x} /\ "advanceProgress" \notin {x} /\ "seeWaiters" \notin {x} /\ "notify" \notin {x}
       /\ "seeWakes" \notin {x} /\ "handle" \notin {x} /\ "releasePass" \notin {x}
  BY <1>3 DEF Pauses
<1>12. Serving' /\ RingSlots' /\ (Unhandled' <=> Unhandled)
  BY <1>1, <1>2, <1>4, <1>11, ServingStays, RingStays
<1>13. ASSUME NEW w \in ParkWorkers PROVE Watched(w)'
  <2>1. Nudged(w) /\ pass'[w] = pass[w] /\ Watched(w)
    BY <1>1, <1>2, SameIsNudged
  <2>2. (run'.state = run.state /\ run'.retired = run.retired) \/ Comes("advanceWake")'
    BY <1>3, <1>6
  <2>3. QED
    BY <1>2, <1>4, <1>11, <1>12, <2>1, <2>2, BystanderStays
<1>14. QED
  BY <1>7, <1>8, <1>9, <1>10, <1>12, <1>13 DEF ParkInv

LEMMA CallKeeps ==
  ASSUME ParkInv, ParkAssumption, NEW t \in Clients, Call(t)
  PROVE  ParkInv'
<1>1. ParkTypes /\ Courses /\ Requests /\ Serving /\ RingSlots /\ BlocksRun /\ WakesSuffice(setup) /\ \A w \in ParkWorkers : Watched(w)
  BY DEF ParkInv
<1>2. /\ t \in ParkThreads /\ t \notin ParkWorkers /\ steps[t] = <<>>
      /\ UNCHANGED <<setup, pass, ring, armed, serving, run, given>>
  BY DEF Call, ParkThreads, ParkAssumption
<1>3. PICK call \in setup.may \ {"emit"} : steps' = [steps EXCEPT ![t] = CallSteps(call)]
  BY DEF Call
<1>4. call \in {"message", "service", "stop", "pause", "resume"}
  BY <1>1 DEF ParkTypes, ParkAssumption
<1> DEFINE s == CallSteps(call)
           added == {x \in StepNames : HasStep(s, x)}
<1>5. /\ s \in Seq(StepNames) /\ OnCourse(s)
      /\ HasStep(s, "release") => HasStep(s, "request")
      /\ \A x : HasStep(s, x) => /\ x \in Posts => call = "message"
                                 /\ x \in {"handle", "releasePass"} => call = "service"
                                 /\ x \in Pauses => call \in {"pause", "resume"}
  BY <1>4, CallIs
<1>6. steps' = [steps EXCEPT ![t] = s]
  BY <1>3
<1> HIDE DEF s
<1>7. \A x : HasStep(s, x) => x \in added
  BY <1>5 DEF HasStep
<1>8. Follows(t, {}, added) /\ steps'[t] = s
  BY <1>1, <1>2, <1>5, <1>6, <1>7, Begins
<1>9. ParkTypes' /\ WakesSuffice(setup)'
  BY <1>1, <1>2, <1>8 DEF ParkTypes, Follows, Call
<1>10. Courses'
  <2>1. ASSUME NEW w \in ParkWorkers, HasStep(steps'[w], "handle") PROVE pass'[w].pc = "adopt"
    <3>1. w # t /\ w \in ParkThreads /\ "handle" \in StepNames
      BY <1>2 DEF ParkThreads, StepNames
    <3>2. HasStep(steps[w], "handle")
      BY <1>8, <2>1, <3>1 DEF Follows
    <3>3. QED
      BY <1>1, <1>2, <3>1, <3>2 DEF Courses
  <2>2. ASSUME NEW x \in added
        PROVE  /\ x \in Posts => "message" \in setup.may
               /\ x \in {"handle", "releasePass"} => "service" \in setup.may
               /\ x \in Pauses => Pausing \cap setup.may # {}
    BY <1>3, <1>5 DEF Pausing
  <2>3. QED
    BY <1>1, <1>2, <1>8, <2>1, <2>2, CoursesStay
<1>11. Requests'
  <2>1. "release" \in added => HasStep(steps'[t], "request")
    BY <1>5, <1>8
  <2>2. QED
    BY <1>1, <1>2, <1>8, <2>1, RequestsStay
<1>12. Serving' /\ RingSlots' /\ BlocksRun' /\ (Unhandled' <=> Unhandled)
  <2>1. Serving'
    <3>1. t # serving
      BY <1>1, <1>2, NothingLeft DEF Serving, ParkTypes, ParkAssumption
    <3>2. QED
      BY <1>1, <1>2, <1>8, <3>1, ServingStays
  <2>2. QED
    BY <1>1, <1>2, <1>8, <2>1, RingStays, BlocksRunStays
<1>13. ASSUME NEW w \in ParkWorkers PROVE Watched(w)'
  <2>1. Nudged(w) /\ pass'[w] = pass[w] /\ Watched(w)
    BY <1>1, <1>2, SameIsNudged
  <2>2. QED
    BY <1>2, <1>8, <1>12, <2>1, BystanderStays
<1>14. QED
  BY <1>9, <1>10, <1>11, <1>12, <1>13 DEF ParkInv

-----------------------------------------------------------------------------
(* A step of a worker's pass *)

\* What a step of a worker's pass leaves to be shown: what it does to the worker itself.
LEMMA PassStays ==
  ASSUME ParkInv, ParkAssumption, NEW w \in ParkWorkers, steps[w] = <<>>, NEW added, Follows(w, {}, added), pass[w].pc # "out",
         \A x \in added : /\ x \notin Pauses \cup {"stopping", "retire"}
                          /\ x \in Posts => "emit" \in setup.may
                          /\ x = "handle" => pass'[w].pc = "adopt",
         UNCHANGED <<setup, ring, run, serving>>,
         \A v \in ParkWorkers : v # w =>
           /\ pass'[v] = pass[v] /\ (armed /\ pass[v].pc \notin {"out", "register"} => armed')
           /\ given'[v].mail = given[v].mail /\ given'[v].blocks = given[v].blocks
           /\ given'[v].samples = given[v].samples \/ Comes("advanceProgress")',
         ParkTypes', Watched(w)'
  PROVE  ParkInv'
<1>1. ParkTypes /\ Courses /\ Requests /\ Serving /\ RingSlots /\ BlocksRun /\ WakesSuffice(setup) /\ \A v \in ParkWorkers : Watched(v)
  BY DEF ParkInv
<1>2. w \in ParkThreads /\ w \notin Clients /\ w \in setup.crew
  BY <1>1 DEF ParkThreads, ParkAssumption, Watched, Crew
<1>3. Courses'
  <2>1. ASSUME NEW v \in ParkWorkers, HasStep(steps'[v], "handle") PROVE pass'[v].pc = "adopt"
    <3>1. v \in ParkThreads /\ "handle" \in StepNames
      BY DEF ParkThreads, StepNames
    <3>2. CASE v = w
      BY <2>1, <3>2, NothingLeft DEF Follows
    <3>3. CASE v # w
      <4>1. steps'[v] = steps[v] /\ pass'[v] = pass[v]
        BY <3>1, <3>3 DEF Follows
      <4>2. QED
        BY <1>1, <2>1, <3>1, <4>1 DEF Courses
    <3>4. QED
      BY <3>2, <3>3
  <2>2. QED
    BY <1>1, <1>2, <2>1, CoursesStay
<1>4. Requests'
  <2>1. "request" \notin added /\ "release" \notin added
    BY DEF Pauses
  <2>2. QED
    BY <1>1, <1>2, <2>1, RequestsStay
<1>5. Serving'
  <2>1. serving # w
    BY <1>1, <1>2, NothingLeft DEF Serving, ParkAssumption
  <2>2. QED
    BY <1>1, <1>2, <2>1, ServingStays
<1>6. RingSlots' /\ BlocksRun' /\ (Unhandled' <=> Unhandled) /\ WakesSuffice(setup)'
  BY <1>1, <1>2, RingStays, BlocksRunStays DEF WakesSuffice
<1>7. ASSUME NEW v \in ParkWorkers PROVE Watched(v)'
  <2>1. CASE v = w
    BY <2>1
  <2>2. CASE v # w
    <3>1. Nudged(v) /\ Watched(v) /\ pass'[v] = pass[v]
      BY <1>1, <2>2, SameIsNudged
    <3>2. QED
      BY <1>2, <1>6, <2>2, <3>1, BystanderStays
  <2>3. QED
    BY <2>1, <2>2
<1>8. QED
  BY <1>3, <1>4, <1>5, <1>6, <1>7 DEF ParkInv

\* A step of a pass that calls nothing.
LEMMA QuietStays ==
  ASSUME ParkInv, ParkAssumption, NEW w \in ParkWorkers, steps[w] = <<>>, pass[w].pc # "out",
         UNCHANGED <<setup, steps, ring, run, serving, given>>,
         NEW p \in PassStates, pass' = [pass EXCEPT ![w] = p], armed' \in BOOLEAN,
         \A v \in ParkWorkers : v # w => (armed /\ pass[v].pc \notin {"out", "register"} => armed'),
         pass'[w] = p => Watched(w)'
  PROVE  ParkInv'
<1>1. ParkTypes /\ w \in ParkThreads
  BY DEF ParkInv, ParkThreads
<1>2. Follows(w, {}, {})
  BY <1>1, BeginsNothing
<1>3. pass' \in [ParkWorkers -> PassStates] /\ pass'[w] = p /\ \A v \in ParkWorkers : v # w => pass'[v] = pass[v]
  BY <1>1 DEF ParkTypes
<1>4. ParkTypes'
  BY <1>1, <1>3 DEF ParkTypes
<1>5. QED
  BY <1>2, <1>3, <1>4, PassStays

\* What is known of the worker that takes the step.
LEMMA WorkerIs ==
  ASSUME ParkInv, NEW w \in ParkWorkers
  PROVE  /\ pass \in [ParkWorkers -> PassStates] /\ pass[w] \in PassStates
         /\ w \in ParkThreads /\ armed \in BOOLEAN
         /\ Crew(w) /\ Armed(w) /\ Fresh(w) /\ PassesLeft(w)
         /\ Notified(w) /\ StateSeen(w) /\ WorkSeen(w) /\ MessageSeen(w) /\ GivenSeen(w)
BY DEF ParkInv, ParkTypes, Watched, ParkThreads

LEMMA RegisterKeeps ==
  ASSUME ParkInv, ParkAssumption, NEW w \in ParkWorkers, registerWake(w)
  PROVE  ParkInv'
<1> DEFINE p == [pass[w] EXCEPT !.pc = "progress"]
<1>1. /\ pass[w].pc = "register" /\ steps[w] = <<>> /\ armed' = TRUE
      /\ UNCHANGED <<setup, steps, ring, serving, run, given>>
      /\ pass' = [pass EXCEPT ![w].pc = "progress"]
  BY DEF registerWake, InPass, Move
<1>2. pass[w] \in PassStates /\ Crew(w) /\ Fresh(w) /\ GivenSeen(w) /\ PassesLeft(w)
  BY WorkerIs
<1>3. p \in PassStates /\ p.pc = "progress" /\ p.passes = 0 /\ pass' = [pass EXCEPT ![w] = p]
  BY <1>1, <1>2 DEF PassStates, Locations, Fresh
<1> HIDE DEF p
<1>4. ASSUME pass'[w] = p PROVE Watched(w)'
  <2>1. pass'[w].pc = "progress" /\ pass'[w].passes = 0
    BY <1>3, <1>4
  <2>2. Crew(w)' /\ Armed(w)' /\ Fresh(w)' /\ PassesLeft(w)'
    BY <1>1, <1>2, <2>1 DEF Crew, Armed, Fresh, PassesLeft
  <2>3. Notified(w)' /\ StateSeen(w)' /\ WorkSeen(w)' /\ MessageSeen(w)'
    BY <2>1 DEF Notified, StateSeen, WorkSeen, MessageSeen, Parking, Committed
  <2>4. GivenSeen(w)'
    BY <1>1, <1>2, <2>1 DEF GivenSeen, Given, YetToLook
  <2>5. QED
    BY <2>2, <2>3, <2>4 DEF Watched
<1>5. QED
  BY <1>1, <1>3, <1>4, QuietStays

LEMMA SetupIs ==
  ASSUME ParkAssumption, ParkInv
  PROVE  /\ setup.single \in BOOLEAN /\ setup.due \in Nat /\ setup.spin \in Nat /\ setup.ratio \in Nat \ {0}
         /\ ~setup.single => setup.due >= setup.spin + 2
         /\ WakesSuffice(setup)
BY DEF ParkAssumption, ParkInv, ParkTypes

LEMMA ReadSequencesKeeps ==
  ASSUME ParkInv, ParkAssumption, NEW w \in ParkWorkers, ReadSequences(w)
  PROVE  ParkInv'
<1>1. /\ steps[w] = <<>> /\ pass[w].pc \in {"progress", "wake"}
      /\ UNCHANGED <<setup, steps, ring, armed, serving, run, given>>
  BY DEF ReadSequences, InPass
<1>2. /\ pass[w] \in PassStates /\ Crew(w) /\ Armed(w) /\ GivenSeen(w) /\ PassesLeft(w) /\ armed \in BOOLEAN
  BY WorkerIs
<1>3. PICK p \in PassStates : /\ pass' = [pass EXCEPT ![w] = p] /\ p.idle = pass[w].idle /\ p.passes = pass[w].passes
                              /\ p.pc \in {"wake", "look"}
  <2>1. CASE InPass(w, "progress") /\ pass' = [pass EXCEPT ![w].pc = "wake", ![w].moved = FALSE]
    <3> DEFINE p == [pass[w] EXCEPT !.pc = "wake", !.moved = FALSE]
    <3>1. p \in PassStates /\ p.pc = "wake" /\ p.idle = pass[w].idle /\ p.passes = pass[w].passes
      BY <1>2 DEF PassStates, Locations
    <3>2. pass' = [pass EXCEPT ![w] = p]
      BY <2>1
    <3> HIDE DEF p
    <3>3. QED
      BY <3>1, <3>2
  <2>2. CASE InPass(w, "wake") /\ pass' = [pass EXCEPT ![w].pc = "look", ![w].woken = FALSE]
    <3> DEFINE p == [pass[w] EXCEPT !.pc = "look", !.woken = FALSE]
    <3>1. p \in PassStates /\ p.pc = "look" /\ p.idle = pass[w].idle /\ p.passes = pass[w].passes
      BY <1>2 DEF PassStates, Locations
    <3>2. pass' = [pass EXCEPT ![w] = p]
      BY <2>2
    <3> HIDE DEF p
    <3>3. QED
      BY <3>1, <3>2
  <2>3. QED
    BY <2>1, <2>2 DEF ReadSequences
<1>4. ASSUME pass'[w] = p PROVE Watched(w)'
  <2>1. /\ pass'[w].pc \in {"wake", "look"} /\ pass'[w].passes = pass[w].passes /\ pass'[w].idle = pass[w].idle
    BY <1>3, <1>4
  <2>2. Crew(w)' /\ Armed(w)' /\ Fresh(w)' /\ PassesLeft(w)'
    BY <1>1, <1>2, <2>1 DEF Crew, Armed, Fresh, PassesLeft
  <2>3. Notified(w)' /\ StateSeen(w)' /\ WorkSeen(w)' /\ MessageSeen(w)'
    BY <2>1 DEF Notified, StateSeen, WorkSeen, MessageSeen, Parking, Committed
  <2>4. GivenSeen(w)'
    <3>1. setup.single /\ YetToLook(w) => pass[w].passes = 0
      BY <1>1 DEF YetToLook
    <3>2. YetToLook(w)' <=> (setup.single => pass[w].passes = 0)
      BY <1>1, <2>1 DEF YetToLook
    <3>3. Given(w)' <=> Given(w)
      BY <1>1 DEF Given
    <3>4. QED
      BY <1>1, <1>2, <3>1, <3>2, <3>3 DEF GivenSeen
  <2>5. QED
    BY <2>2, <2>3, <2>4 DEF Watched
<1>5. QED
  BY <1>1, <1>2, <1>3, <1>4, QuietStays

LEMMA LookKeeps ==
  ASSUME ParkInv, ParkAssumption, NEW w \in ParkWorkers, LookForMessages(w)
  PROVE  ParkInv'
<1>1. /\ steps[w] = <<>> /\ pass[w].pc = "look" /\ UNCHANGED <<setup, ring, armed, serving, run, given>>
  BY DEF LookForMessages, InPass
<1>2. /\ pass \in [ParkWorkers -> PassStates] /\ pass[w] \in PassStates /\ w \in ParkThreads /\ armed \in BOOLEAN
      /\ Crew(w) /\ Armed(w) /\ GivenSeen(w) /\ PassesLeft(w)
  BY WorkerIs
<1>3. setup.single \in BOOLEAN /\ setup.spin \in Nat /\ setup.ratio \in Nat \ {0} /\ WakesSuffice(setup) /\ ParkTypes
  BY SetupIs DEF ParkInv
<1>4. CASE pass[w].passes = 0 \/ Unhandled
  <2> DEFINE p == [pass[w] EXCEPT !.pc = "adopt", !.idle = IF Unhandled THEN 0 ELSE @]
  <2>1. /\ p \in PassStates /\ p.pc = "adopt" /\ p.passes = pass[w].passes /\ (Unhandled => p.idle = 0)
    BY <1>2 DEF PassStates, Locations
  <2>2. pass' = [pass EXCEPT ![w] = p] /\ steps' = [steps EXCEPT ![w] = runService]
    BY <1>4 DEF LookForMessages
  <2> HIDE DEF p
  <2>3. /\ pass' \in [ParkWorkers -> PassStates] /\ pass'[w] = p /\ \A v \in ParkWorkers : v # w => pass'[v] = pass[v]
    BY <1>2, <2>1, <2>2
  <2>4. /\ runService \in Seq(StepNames) /\ OnCourse(runService) /\ runService # <<>> /\ Head(runService) = "handle"
        /\ \A x : HasStep(runService, x) => x \in {"handle", "releasePass"}
    BY DEF runService, StepNames, OnCourse, Later, Alone, Successor, HasStep
  <2>5. Follows(w, {}, {"handle", "releasePass"}) /\ steps'[w] = runService
    BY <1>1, <1>2, <1>3, <2>2, <2>4, Begins
  <2>6. ParkTypes'
    BY <1>1, <1>3, <2>3, <2>5 DEF ParkTypes, Follows
  <2>7. Watched(w)'
    <3>1. pass'[w].pc = "adopt" /\ pass'[w].passes = pass[w].passes /\ (Unhandled' => pass'[w].idle = 0)
      BY <1>1, <2>1, <2>3 DEF Unhandled
    <3>2. Crew(w)' /\ Armed(w)' /\ Fresh(w)' /\ PassesLeft(w)'
      BY <1>1, <1>2, <3>1 DEF Crew, Armed, Fresh, PassesLeft
    <3>3. Notified(w)' /\ StateSeen(w)' /\ WorkSeen(w)'
      BY <3>1 DEF Notified, StateSeen, WorkSeen, Parking, Committed
    <3>4. MessageSeen(w)'
      BY <1>1, <1>3, <2>4, <2>5, <3>1 DEF MessageSeen, NextIs, LeftToOther
    <3>5. GivenSeen(w)'
      BY <1>1, <1>2, <3>1 DEF GivenSeen, Given, YetToLook
    <3>6. QED
      BY <3>2, <3>3, <3>4, <3>5 DEF Watched
  <2>8. \A x \in {"handle", "releasePass"} :
          x \notin Pauses \cup {"stopping", "retire"} /\ x \notin Posts /\ (x = "handle" => pass'[w].pc = "adopt")
    BY <2>1, <2>3 DEF Pauses, Posts
  <2>9. QED
    BY <1>1, <1>2, <2>3, <2>5, <2>6, <2>7, <2>8, PassStays
<1>5. CASE ~(pass[w].passes = 0 \/ Unhandled)
  <2> DEFINE p == [pass[w] EXCEPT !.pc = "traverse", !.passes = @ - 1]
  <2>1. /\ p \in PassStates /\ p.pc = "traverse" /\ p.idle = pass[w].idle
    <3>1. \A q \in PassStates : q.passes # 0 => q.passes \in Nat /\ q.passes - 1 \in Nat
      BY DEF PassStates
    <3>2. \A q \in PassStates, n \in Nat : [q EXCEPT !.pc = "traverse", !.passes = n] \in PassStates
      BY DEF PassStates, Locations
    <3>3. p = [pass[w] EXCEPT !.pc = "traverse", !.passes = pass[w].passes - 1]
      OBVIOUS
    <3>4. p.pc = "traverse" /\ p.idle = pass[w].idle
      BY <1>2 DEF PassStates
    <3> HIDE DEF p
    <3>5. QED
      BY <1>2, <1>5, <3>1, <3>2, <3>3, <3>4
  <2>2. pass' = [pass EXCEPT ![w] = p] /\ UNCHANGED steps
    BY <1>5 DEF LookForMessages
  <2> HIDE DEF p
  <2>3. ASSUME pass'[w] = p PROVE Watched(w)'
    <3>1. pass'[w].pc = "traverse" /\ pass'[w].idle = pass[w].idle /\ ~Unhandled'
      BY <1>1, <1>5, <2>1, <2>3 DEF Unhandled
    <3>2. Crew(w)' /\ Armed(w)' /\ Fresh(w)' /\ PassesLeft(w)'
      BY <1>1, <1>2, <1>5, <3>1 DEF Crew, Armed, Fresh, PassesLeft
    <3>3. Notified(w)' /\ StateSeen(w)' /\ WorkSeen(w)' /\ MessageSeen(w)'
      BY <3>1 DEF Notified, StateSeen, WorkSeen, MessageSeen, Parking, Committed
    <3>4. GivenSeen(w)'
      <4>1. SUFFICES ASSUME Given(w) PROVE Posting \cap setup.may # {} /\ ~setup.single /\ pass[w].idle <= setup.spin
        BY <1>1, <3>1 DEF GivenSeen, Given, IdlesOn
      <4>2. Posting \cap setup.may # {} /\ ~setup.single
        BY <1>1, <1>2, <1>5, <4>1 DEF GivenSeen, YetToLook
      <4>3. QED
        BY <1>1, <1>2, <1>5, <4>2 DEF PassesLeft
    <3>5. QED
      BY <3>2, <3>3, <3>4 DEF Watched
  <2>4. QED
    BY <1>1, <1>2, <2>1, <2>2, <2>3, QuietStays
<1>6. QED
  BY <1>4, <1>5

LEMMA AdoptKeeps ==
  ASSUME ParkInv, ParkAssumption, NEW w \in ParkWorkers, AdoptAndRead(w)
  PROVE  ParkInv'
<1>1. /\ steps[w] = <<>> /\ pass[w].pc = "adopt" /\ UNCHANGED <<setup, ring, armed, serving, run>>
      /\ pass' = [pass EXCEPT ![w].pc = IF run.retired THEN "leave" ELSE "state"]
  BY DEF AdoptAndRead, InPass, Move
<1>2. /\ pass \in [ParkWorkers -> PassStates] /\ pass[w] \in PassStates /\ w \in ParkThreads /\ armed \in BOOLEAN
      /\ Crew(w) /\ Armed(w) /\ GivenSeen(w) /\ PassesLeft(w) /\ MessageSeen(w)
  BY WorkerIs
<1>3. ParkTypes /\ setup.single \in BOOLEAN
  BY SetupIs DEF ParkInv
<1> DEFINE p == [pass[w] EXCEPT !.pc = IF run.retired THEN "leave" ELSE "state"]
<1>4. /\ p \in PassStates /\ p.pc = IF run.retired THEN "leave" ELSE "state"
      /\ p.idle = pass[w].idle /\ p.passes = pass[w].passes /\ p.woken = pass[w].woken /\ pass' = [pass EXCEPT ![w] = p]
  BY <1>1, <1>2 DEF PassStates, Locations
<1> HIDE DEF p
<1>5. /\ pass' \in [ParkWorkers -> PassStates] /\ pass'[w] = p /\ \A v \in ParkWorkers : v # w => pass'[v] = pass[v]
  BY <1>2, <1>4
<1>6. PICK added \in {{}, Wakes} : Follows(w, {}, added)
  <2>1. CASE UNCHANGED steps
    BY <1>1, <1>2, <1>3, <2>1, BeginsNothing
  <2>2. CASE steps' = [steps EXCEPT ![w] = <<>>]
    <3>1. UNCHANGED steps
      BY <1>1, <1>2, <1>3, <2>2 DEF ParkTypes
    <3>2. QED
      BY <3>1, <2>1
  <2>3. CASE steps' = [steps EXCEPT ![w] = wakeWorkers]
    <3>1. /\ wakeWorkers \in Seq(StepNames) /\ OnCourse(wakeWorkers)
          /\ \A x : HasStep(wakeWorkers, x) => x \in Wakes
      BY DEF wakeWorkers, StepNames, OnCourse, Later, Alone, Successor, HasStep, Wakes
    <3>2. Follows(w, {}, Wakes)
      BY <1>1, <1>2, <1>3, <2>3, <3>1, Begins
    <3>3. QED
      BY <3>2
  <2>4. QED
    BY <2>1, <2>2, <2>3 DEF AdoptAndRead
<1>7. /\ given' \in [ParkWorkers -> [samples : Nat, mail : Nat, blocks : Nat]]
      /\ \A v \in ParkWorkers : v # w => given'[v] = given[v]
      /\ ~run.retired => ~Given(w)'
  <2>1. given \in [ParkWorkers -> [samples : Nat, mail : Nat, blocks : Nat]]
    BY <1>3 DEF ParkTypes
  <2>2. CASE run.retired
    BY <2>1, <2>2 DEF AdoptAndRead
  <2>3. CASE ~run.retired
    <3>1. given' = [given EXCEPT ![w] = [samples |-> @.samples + @.blocks, mail |-> 0, blocks |-> 0]]
      BY <2>3 DEF AdoptAndRead
    <3>2. given[w].samples + given[w].blocks \in Nat
      BY <2>1
    <3>3. QED
      BY <2>1, <3>1, <3>2 DEF Given
  <2>4. QED
    BY <2>2, <2>3
<1>8. ParkTypes'
  BY <1>1, <1>3, <1>5, <1>6, <1>7 DEF ParkTypes, Follows
<1>9. Watched(w)'
  <2>1. /\ pass'[w].pc = IF run.retired THEN "leave" ELSE "state"
        /\ pass'[w].idle = pass[w].idle /\ pass'[w].passes = pass[w].passes /\ pass'[w].woken = pass[w].woken
    BY <1>4, <1>5
  <2>2. Crew(w)' /\ Armed(w)' /\ Fresh(w)' /\ PassesLeft(w)'
    BY <1>1, <1>2, <2>1 DEF Crew, Armed, Fresh, PassesLeft
  <2>3. Notified(w)' /\ StateSeen(w)' /\ WorkSeen(w)'
    BY <2>1 DEF Notified, StateSeen, WorkSeen, Parking, Committed
  <2>4. MessageSeen(w)'
    <3>1. CASE run.retired
      BY <2>1, <3>1 DEF MessageSeen, Parking, Committed
    <3>2. CASE ~run.retired
      <4>1. MessageWakeComes => MessageWakeComes'
        BY <1>2, <1>6, MessageWakeStays
      <4>2. ~NextIs(w, "handle") /\ (Unhandled' <=> Unhandled)
        BY <1>1 DEF NextIs, Unhandled
      <4>3. LeftToOther(w) => LeftToOther(w)'
        BY <1>1, <2>1, <3>2 DEF LeftToOther
      <4>4. QED
        BY <1>1, <1>2, <2>1, <4>1, <4>2, <4>3 DEF MessageSeen
    <3>3. QED
      BY <3>1, <3>2
  <2>5. GivenSeen(w)'
    <3>1. CASE run.retired
      <4>1. Given(w)' <=> Given(w)
        BY <3>1 DEF AdoptAndRead, Given
      <4>2. QED
        BY <1>1, <1>2, <2>1, <3>1, <4>1 DEF GivenSeen, YetToLook
    <3>2. CASE ~run.retired
      BY <1>7, <3>2 DEF GivenSeen
    <3>3. QED
      BY <3>1, <3>2
  <2>6. QED
    BY <2>2, <2>3, <2>4, <2>5 DEF Watched
<1>10. \A x \in added : x \notin Pauses \cup {"stopping", "retire"} /\ x \notin Posts /\ x # "handle"
  BY <1>6 DEF Pauses, Posts, Wakes
<1>11. QED
  BY ZenonT(40), <1>1, <1>5, <1>6, <1>7, <1>8, <1>9, <1>10, PassStays

LEMMA RereadKeeps ==
  ASSUME ParkInv, ParkAssumption, NEW w \in ParkWorkers, RereadState(w)
  PROVE  ParkInv'
<1>1. /\ steps[w] = <<>> /\ pass[w].pc = "state" /\ UNCHANGED <<setup, steps, ring, armed, serving, run, given>>
  BY DEF RereadState, InPass
<1>2. /\ pass[w] \in PassStates /\ Crew(w) /\ Armed(w) /\ GivenSeen(w) /\ MessageSeen(w) /\ armed \in BOOLEAN
      /\ w \in ParkThreads /\ ParkTypes
  BY WorkerIs DEF ParkInv
<1>3. setup.single \in BOOLEAN /\ setup.spin \in Nat /\ setup.ratio \in Nat /\ setup.ratio - 1 \in Nat /\ run.state \in States
  BY SetupIs, <1>2 DEF ParkTypes
<1> DEFINE p == [pass[w] EXCEPT !.pc = IF run.retired THEN "leave" ELSE "traverse", !.active = run.state,
                                !.idle = IF pass[w].active = run.state THEN @ ELSE 0, !.passes = setup.ratio - 1]
<1>4. /\ p \in PassStates /\ p.pc \in {"leave", "traverse"} /\ p.passes = setup.ratio - 1 /\ p.woken = pass[w].woken
      /\ p.idle = pass[w].idle \/ p.idle = 0
  BY <1>2, <1>3 DEF PassStates, Locations
<1>5. pass' = [pass EXCEPT ![w] = p]
  BY DEF RereadState
<1> HIDE DEF p
<1>6. ASSUME pass'[w] = p PROVE Watched(w)'
  <2>1. /\ pass'[w].pc \in {"leave", "traverse"} /\ pass'[w].passes = setup.ratio - 1 /\ pass'[w].woken = pass[w].woken
        /\ pass'[w].idle = pass[w].idle \/ pass'[w].idle = 0
    BY <1>4, <1>6
  <2>2. Crew(w)' /\ Armed(w)' /\ Fresh(w)' /\ PassesLeft(w)'
    BY <1>1, <1>2, <1>3, <2>1 DEF Crew, Armed, Fresh, PassesLeft
  <2>3. Notified(w)' /\ StateSeen(w)' /\ WorkSeen(w)'
    BY <2>1 DEF Notified, StateSeen, WorkSeen, Parking, Committed
  <2>4. /\ Follows(w, {}, {})
    BY <1>1, <1>2, BeginsNothing
  <2>5. MessageSeen(w)'
    <3>1. MessageWakeComes => MessageWakeComes'
      BY <1>2, <2>4, MessageWakeStays
    <3>2. ~NextIs(w, "handle") /\ (Unhandled' <=> Unhandled)
      BY <1>1 DEF NextIs, Unhandled
    <3>3. LeftToOther(w) /\ pass'[w].pc = "traverse" => LeftToOther(w)'
      BY <1>1, <2>1 DEF LeftToOther
    <3>4. QED
      BY <1>1, <1>2, <2>1, <3>1, <3>2, <3>3 DEF MessageSeen, Parking, Committed
  <2>6. GivenSeen(w)'
    <3>1. (Given(w)' <=> Given(w)) /\ ~YetToLook(w) /\ ~IdlesOn(w) /\ (Comes("advanceWake") => Comes("advanceWake")')
      BY <1>1, <1>2, <2>4, ComesStays DEF Given, YetToLook, IdlesOn
    <3>2. QED
      BY <1>1, <1>2, <2>1, <3>1 DEF GivenSeen, YetToLook
  <2>7. QED
    BY <2>2, <2>3, <2>5, <2>6 DEF Watched
<1>7. QED
  BY <1>1, <1>2, <1>4, <1>5, <1>6, QuietStays

\* A request under way: a pause or a resume has still to wake the workers.
LEMMA RequestComes ==
  ASSUME ParkAssumption, ParkInv, run.requests > 0
  PROVE  Comes("advanceWake") /\ Pausing \cap setup.may # {}
<1>1. ParkTypes /\ Courses /\ IsFiniteSet(InRequest) /\ run.requests = Cardinality(InRequest)
  BY DEF ParkInv, Requests
<1>2. PICK t \in ParkThreads : HasStep(steps[t], "release")
  <2>1. InRequest # {}
    BY <1>1, FS_EmptySet
  <2>2. QED
    BY <2>1 DEF InRequest
<1>3. steps[t] \in Seq(StepNames) /\ OnCourse(steps[t]) /\ "release" \in StepNames /\ "release" \in Pauses
  BY <1>1 DEF ParkTypes, Courses, StepNames, Pauses
<1>4. HasStep(steps[t], "advanceWake")
  BY <1>2, <1>3, CourseGoesOn
<1>5. t \in Clients
  BY <1>1, <1>2, <1>3 DEF Courses, ParkThreads
<1>6. QED
  BY <1>1, <1>2, <1>3, <1>4, <1>5 DEF Courses, Comes

\* Blocks that do not run: the run is not running, or a resume has still to run them and to wake the workers.
LEMMA BlocksWait ==
  ASSUME ParkInv, ~run.blocksRun
  PROVE  run.state # "RUNNING" \/ Comes("advanceWake")
<1>1. ParkTypes /\ Courses /\ BlocksRun
  BY DEF ParkInv
<1>2. SUFFICES ASSUME Comes("runBlocks") PROVE Comes("advanceWake")
  BY <1>1 DEF BlocksRun
<1>3. PICK t \in ParkThreads : HasStep(steps[t], "runBlocks")
  BY <1>2 DEF Comes
<1>4. steps[t] \in Seq(StepNames) /\ OnCourse(steps[t])
  BY <1>1 DEF ParkTypes, Courses
<1>5. HasStep(steps[t], "advanceWake")
  BY <1>3, <1>4, CourseGoesOn
<1>6. QED
  BY <1>5 DEF Comes

\* What a pass still knows once it called its blocks.
Called(w) ==
  /\ pass'[w] \in PassStates /\ pass'[w].pc = "due" /\ pass'[w].woken = pass[w].woken /\ pass'[w].active = pass[w].active
  /\ pass'[w].idle <= pass[w].idle + 1 /\ pass'[w].passes \in {0, pass[w].passes}
  /\ pass'[w].passes = 0 \/ pass'[w].idle <= setup.spin \/ setup.single \/ Posting \cap setup.may = {}

LEMMA CalledWatched ==
  ASSUME ParkAssumption, ParkInv, NEW w \in ParkWorkers, steps[w] = <<>>, pass[w].pc = "traverse",
         NEW added, Follows(w, {}, added), Called(w),
         UNCHANGED <<setup, ring, armed>>, given'[w].mail = given[w].mail, given'[w].blocks = given[w].blocks,
         WorkSeen(w)'
  PROVE  Watched(w)'
<1>1. /\ pass[w] \in PassStates /\ Crew(w) /\ Armed(w) /\ GivenSeen(w) /\ MessageSeen(w) /\ PassesLeft(w) /\ w \in ParkThreads
  BY WorkerIs
<1>2. setup.single \in BOOLEAN /\ setup.spin \in Nat
  BY SetupIs
<1>3. pass[w].idle \in Nat /\ pass'[w].idle \in Nat
  BY <1>1 DEF PassStates, Called
<1>4. Crew(w)' /\ Armed(w)' /\ Fresh(w)' /\ PassesLeft(w)'
  BY <1>1 DEF Crew, Armed, Fresh, PassesLeft, Called
<1>5. Notified(w)' /\ StateSeen(w)'
  BY DEF Notified, StateSeen, Committed, Called
<1>6. MessageSeen(w)'
  <2>1. MessageWakeComes => MessageWakeComes'
    BY <1>1, MessageWakeStays
  <2>2. LeftToOther(w) => LeftToOther(w)'
    BY <1>3 DEF LeftToOther, Called
  <2>3. QED
    BY <1>1, <2>1, <2>2 DEF MessageSeen, Unhandled, Called
<1>7. GivenSeen(w)'
  <2>1. (Given(w)' <=> Given(w)) /\ ~YetToLook(w) /\ (Comes("advanceWake") => Comes("advanceWake")')
    BY <1>1, ComesStays DEF Given, YetToLook, Called
  <2>2. IdlesOn(w) => IdlesOn(w)'
    BY <1>2, <1>3 DEF IdlesOn, Called
  <2>3. QED
    BY <1>1, <2>1, <2>2 DEF GivenSeen, Called
<1>8. QED
  BY <1>4, <1>5, <1>6, <1>7 DEF Watched

LEMMA TraverseKeeps ==
  ASSUME ParkInv, ParkAssumption, NEW w \in ParkWorkers, Traverse(w)
  PROVE  ParkInv'
<1>1. /\ steps[w] = <<>> /\ pass[w].pc = "traverse" /\ UNCHANGED <<setup, ring, armed, serving, run>>
  BY DEF Traverse, InPass
<1>2. /\ pass \in [ParkWorkers -> PassStates] /\ pass[w] \in PassStates /\ w \in ParkThreads /\ armed \in BOOLEAN
      /\ Crew(w) /\ PassesLeft(w)
  BY WorkerIs
<1>3. ParkTypes /\ setup.single \in BOOLEAN /\ setup.spin \in Nat /\ setup.due \in Nat /\ WakesSuffice(setup)
  BY SetupIs DEF ParkInv
<1>4. pass[w].idle \in Nat /\ Counted(pass[w].idle) \in Nat /\ Counted(pass[w].idle) <= pass[w].idle + 1
  BY <1>2, <1>3 DEF PassStates, Counted
<1>5. CASE pass[w].active # "RUNNING"
  <2> DEFINE p == [pass[w] EXCEPT !.pc = "due", !.passes = 0]
  <2>1. /\ p \in PassStates /\ p.pc = "due" /\ p.woken = pass[w].woken /\ p.active = pass[w].active
        /\ p.idle = pass[w].idle /\ p.passes = 0
    BY <1>2 DEF PassStates, Locations
  <2>2. pass' = [pass EXCEPT ![w] = p] /\ UNCHANGED <<given, steps>>
    BY <1>5 DEF Traverse
  <2> HIDE DEF p
  <2>3. ASSUME pass'[w] = p PROVE Watched(w)'
    <3>1. WorkSeen(w)'
      BY <1>5, <2>1, <2>3 DEF WorkSeen
    <3>2. Follows(w, {}, {})
      BY <1>1, <1>2, <1>3, <2>2, BeginsNothing
    <3>3. Called(w)
      BY <1>4, <2>1, <2>3 DEF Called
    <3>4. QED
      BY <1>1, <2>2, <3>1, <3>2, <3>3, CalledWatched
  <2>4. QED
    BY <1>1, <1>2, <2>1, <2>2, <2>3, QuietStays
<1>6. CASE pass[w].active = "RUNNING" /\ run.requests > 0
  <2> DEFINE p == [pass[w] EXCEPT !.pc = "due"]
  <2>1. /\ p \in PassStates /\ p.pc = "due" /\ p.woken = pass[w].woken /\ p.active = pass[w].active
        /\ p.idle = pass[w].idle /\ p.passes = pass[w].passes
    BY <1>2 DEF PassStates, Locations
  <2>2. pass' = [pass EXCEPT ![w] = p] /\ UNCHANGED <<given, steps>>
    BY <1>6 DEF Traverse, Move
  <2> HIDE DEF p
  <2>3. ASSUME pass'[w] = p PROVE Watched(w)'
    <3>1. Follows(w, {}, {})
      BY <1>1, <1>2, <1>3, <2>2, BeginsNothing
    <3>2. Comes("advanceWake") /\ Pausing \cap setup.may # {}
      BY <1>6, RequestComes
    <3>3. WorkSeen(w)'
      BY <1>2, <3>1, <3>2, ComesStays DEF WorkSeen
    <3>4. p.passes = 0 \/ setup.single \/ Posting \cap setup.may = {}
      BY <1>2, <1>3, <2>1, <3>2 DEF WakesSuffice, PassesLeft
    <3>5. Called(w)
      BY <1>4, <2>1, <2>3, <3>4 DEF Called
    <3>6. QED
      BY <1>1, <2>2, <3>1, <3>3, <3>5, CalledWatched
  <2>4. QED
    BY <1>1, <1>2, <2>1, <2>2, <2>3, QuietStays
<1>7. CASE pass[w].active = "RUNNING" /\ ~(run.requests > 0) /\ HasWork(w)
  <2> DEFINE p == [pass[w] EXCEPT !.pc = "due", !.idle = 0]
  <2>1. /\ p \in PassStates /\ p.pc = "due" /\ p.woken = pass[w].woken /\ p.active = pass[w].active
        /\ p.idle = 0 /\ p.passes = pass[w].passes
    BY <1>2 DEF PassStates, Locations
  <2>2. /\ pass' = [pass EXCEPT ![w] = p] /\ steps' = [steps EXCEPT ![w] = publishProgress]
        /\ given' = [v \in ParkWorkers |->
             [given[v] EXCEPT !.samples = @ + (IF v = NextOf[w] THEN 1 ELSE 0) - (IF v = w THEN 1 ELSE 0)]]
    BY <1>7 DEF Traverse
  <2> HIDE DEF p
  <2>3. /\ publishProgress \in Seq(StepNames) /\ OnCourse(publishProgress) /\ HasStep(publishProgress, "advanceProgress")
        /\ \A x : HasStep(publishProgress, x) => x \in {"advanceProgress", "seeWaiters", "notify"}
    BY DEF publishProgress, StepNames, OnCourse, Later, Alone, Successor, HasStep
  <2>4. Follows(w, {}, {"advanceProgress", "seeWaiters", "notify"}) /\ steps'[w] = publishProgress
    BY <1>1, <1>2, <1>3, <2>2, <2>3, Begins
  <2>5. Comes("advanceProgress")'
    BY <1>2, <2>3, <2>4 DEF Comes
  <2>6. pass' \in [ParkWorkers -> PassStates] /\ pass'[w] = p /\ \A v \in ParkWorkers : v # w => pass'[v] = pass[v]
    BY <1>2, <2>1, <2>2
  <2>7. /\ given' \in [ParkWorkers -> [samples : Nat, mail : Nat, blocks : Nat]]
        /\ \A v \in ParkWorkers : given'[v].mail = given[v].mail /\ given'[v].blocks = given[v].blocks
    <3>1. given \in [ParkWorkers -> [samples : Nat, mail : Nat, blocks : Nat]] /\ given[w].samples > 0
      BY <1>3, <1>7 DEF ParkTypes, HasWork
    <3>2. ASSUME NEW v \in ParkWorkers
          PROVE  given[v].samples + (IF v = NextOf[w] THEN 1 ELSE 0) - (IF v = w THEN 1 ELSE 0) \in Nat
      BY <3>1
    <3>3. QED
      BY <2>2, <3>1, <3>2
  <2>8. ParkTypes'
    BY <1>1, <1>3, <2>4, <2>6, <2>7 DEF ParkTypes, Follows
  <2>9. Watched(w)'
    <3>1. WorkSeen(w)'
      BY <2>5 DEF WorkSeen
    <3>2. Called(w)
      BY <1>3, <1>4, <2>1, <2>6 DEF Called
    <3>3. QED
      BY <1>1, <2>4, <2>7, <3>1, <3>2, CalledWatched
  <2>10. \A x \in {"advanceProgress", "seeWaiters", "notify"} :
          x \notin Pauses \cup {"stopping", "retire"} /\ x \notin Posts /\ x # "handle"
    BY DEF Pauses, Posts
  <2>11. QED
    BY <1>1, <1>2, <2>4, <2>5, <2>6, <2>7, <2>8, <2>9, <2>10, PassStays
<1>8. CASE pass[w].active = "RUNNING" /\ ~(run.requests > 0) /\ ~HasWork(w)
  <2> DEFINE p == [pass[w] EXCEPT !.pc = "due", !.idle = Counted(@), !.passes = IF Counted(pass[w].idle) > setup.spin THEN 0 ELSE @]
  <2>1. /\ p \in PassStates /\ p.pc = "due" /\ p.woken = pass[w].woken /\ p.active = pass[w].active
        /\ p.idle = Counted(pass[w].idle) /\ p.passes \in {0, pass[w].passes}
        /\ p.passes = 0 \/ p.idle <= setup.spin
    <3>1. \A n \in Nat : n > setup.spin \/ n <= setup.spin
      BY <1>3
    <3> DEFINE n == Counted(pass[w].idle)
    <3>2. n \in Nat
      BY <1>4
    <3>3. p = [pass[w] EXCEPT !.pc = "due", !.idle = n, !.passes = IF n > setup.spin THEN 0 ELSE @]
      BY <1>2 DEF PassStates
    <3> HIDE DEF n, p
    <3>4. /\ p \in PassStates /\ p.pc = "due" /\ p.woken = pass[w].woken /\ p.active = pass[w].active
          /\ p.idle = n /\ p.passes = IF n > setup.spin THEN 0 ELSE pass[w].passes
      BY <1>2, <3>2, <3>3 DEF PassStates, Locations
    <3>5. QED
      BY <3>1, <3>2, <3>4 DEF n
  <2>2. pass' = [pass EXCEPT ![w] = p] /\ UNCHANGED given
    BY <1>8 DEF Traverse
  <2> HIDE DEF p
  <2>3. PICK added \in {{}, Posts} : Follows(w, {}, added) /\ (added = Posts => "emit" \in setup.may)
    <3>1. CASE UNCHANGED steps
      <4>1. Follows(w, {}, {}) /\ {} # Posts
        BY <1>1, <1>2, <1>3, <3>1, BeginsNothing DEF Posts
      <4>2. QED
        BY <4>1
    <3>2. CASE "emit" \in setup.may /\ steps' = [steps EXCEPT ![w] = publishMessage]
      <4>1. /\ publishMessage \in Seq(StepNames) /\ OnCourse(publishMessage)
            /\ \A x : HasStep(publishMessage, x) => x \in Posts
        BY DEF publishMessage, StepNames, OnCourse, Later, Alone, Successor, HasStep, Posts
      <4>2. Follows(w, {}, Posts)
        BY <1>1, <1>2, <1>3, <3>2, <4>1, Begins
      <4>3. QED
        BY <3>2, <4>2
    <3>3. QED
      BY <1>8, <3>1, <3>2 DEF Traverse
  <2>4. pass' \in [ParkWorkers -> PassStates] /\ pass'[w] = p /\ \A v \in ParkWorkers : v # w => pass'[v] = pass[v]
    BY <1>2, <2>1, <2>2
  <2>5. ParkTypes'
    BY <1>1, <1>3, <2>2, <2>3, <2>4 DEF ParkTypes, Follows
  <2>6. Watched(w)'
    <3>1. WorkSeen(w)'
      <4>1. SUFFICES ASSUME given[w].samples > 0 PROVE run.state # "RUNNING" \/ Comes("advanceWake")'
        BY <1>1, <2>2 DEF WorkSeen
      <4>2. ~run.blocksRun
        BY <1>8, <4>1 DEF HasWork
      <4>3. QED
        BY <1>2, <2>3, <4>2, BlocksWait, ComesStays
    <3>2. Called(w)
      BY <1>4, <2>1, <2>4 DEF Called
    <3>3. QED
      BY <1>1, <2>2, <2>3, <3>1, <3>2, CalledWatched
  <2>7. \A x \in added : x \notin Pauses \cup {"stopping", "retire"} /\ x # "handle" /\ (x \in Posts => "emit" \in setup.may)
    BY <2>3 DEF Pauses, Posts
  <2>8. QED
    BY <1>1, <1>2, <2>2, <2>3, <2>4, <2>5, <2>6, <2>7, PassStays
<1>9. QED
  BY <1>5, <1>6, <1>7, <1>8

LEMMA ReadProgressAfterKeeps ==
  ASSUME ParkInv, ParkAssumption, NEW w \in ParkWorkers, ReadProgressAfter(w)
  PROVE  ParkInv'
<1> DEFINE inactive == IF pass[w].moved THEN 0 ELSE Counted(pass[w].inactive)
           next == IF pass[w].active = "RUNNING" /\ ParkDue(w, inactive) THEN "confirm" ELSE NextPass(w)
           p == [pass[w] EXCEPT !.pc = next, !.inactive = IF setup.single THEN inactive ELSE 0, !.moved = @ /\ ~setup.single]
<1>1. /\ steps[w] = <<>> /\ pass[w].pc = "due" /\ UNCHANGED <<setup, steps, ring, armed, serving, run, given>>
      /\ pass' = [pass EXCEPT ![w] = p]
  BY DEF ReadProgressAfter, InPass
<1>2. /\ pass[w] \in PassStates /\ w \in ParkThreads /\ armed \in BOOLEAN
      /\ Crew(w) /\ Armed(w) /\ PassesLeft(w) /\ WorkSeen(w) /\ MessageSeen(w) /\ GivenSeen(w)
  BY WorkerIs
<1>3. setup.single \in BOOLEAN /\ setup.due \in Nat /\ setup.spin \in Nat /\ (~setup.single => setup.due >= setup.spin + 2)
  BY SetupIs
<1>4. inactive \in Nat /\ (pass[w].moved => inactive = 0) /\ pass[w].idle \in Nat /\ pass[w].moved \in BOOLEAN
  BY <1>2, <1>3 DEF PassStates, Counted
<1>5. next \in {"confirm", "progress", "leave"}
  BY DEF NextPass
<1>6. next = "confirm" => /\ pass[w].active = "RUNNING" /\ (setup.single => ~pass[w].moved)
                          /\ ~setup.single => pass[w].idle >= setup.spin + 2
  <2>1. SUFFICES ASSUME pass[w].active = "RUNNING", ParkDue(w, inactive)
                 PROVE  /\ setup.single => ~pass[w].moved
                        /\ ~setup.single => pass[w].idle >= setup.spin + 2
    BY DEF NextPass
  <2>2. CASE setup.single
    BY <1>3, <1>4, <2>1, <2>2 DEF ParkDue
  <2>3. CASE ~setup.single
    <3>1. pass[w].idle >= setup.due
      BY <2>1, <2>3 DEF ParkDue
    <3>2. QED
      BY <1>3, <1>4, <2>3, <3>1
  <2>4. QED
    BY <2>2, <2>3
<1> HIDE DEF inactive, next
<1>7. /\ p \in PassStates /\ p.pc = next /\ p.woken = pass[w].woken /\ p.idle = pass[w].idle /\ p.passes = pass[w].passes
      /\ p.moved = (pass[w].moved /\ ~setup.single)
  <2>1. next \in Locations /\ (IF setup.single THEN inactive ELSE 0) \in Nat /\ (pass[w].moved /\ ~setup.single) \in BOOLEAN
    BY <1>3, <1>4, <1>5 DEF Locations
  <2>2. QED
    BY <1>2, <2>1 DEF PassStates
<1> HIDE DEF p
<1>8. ASSUME pass'[w] = p PROVE Watched(w)'
  <2>1. /\ pass'[w].pc = next /\ pass'[w].woken = pass[w].woken /\ pass'[w].idle = pass[w].idle /\ pass'[w].passes = pass[w].passes
        /\ pass'[w].moved = (pass[w].moved /\ ~setup.single)
    BY <1>7, <1>8
  <2>2. Crew(w)' /\ Armed(w)' /\ Fresh(w)' /\ PassesLeft(w)'
    BY <1>1, <1>2, <1>5, <2>1 DEF Crew, Armed, Fresh, PassesLeft
  <2>3. Notified(w)' /\ StateSeen(w)'
    BY <1>5, <2>1 DEF Notified, StateSeen, Committed
  <2>4. (Comes("advanceWake") => Comes("advanceWake")') /\ (Comes("advanceProgress") => Comes("advanceProgress")')
    BY <1>1 DEF Comes
  <2>5. WorkSeen(w)'
    BY <1>1, <1>2, <1>4, <1>5, <1>6, <2>1, <2>4 DEF WorkSeen, Parking, Committed
  <2>6. MessageSeen(w)'
    <3>1. (MessageWakeComes => MessageWakeComes') /\ (Unhandled' <=> Unhandled)
      BY <1>1 DEF MessageWakeComes, Comes, NextIs, Unhandled
    <3>2. next = "confirm" /\ ~setup.single => ~LeftToOther(w)
      BY <1>1, <1>3, <1>4, <1>6 DEF LeftToOther
    <3>3. QED
      BY <1>1, <1>2, <1>5, <2>1, <3>1, <3>2 DEF MessageSeen, Parking, Committed
  <2>7. GivenSeen(w)'
    <3>1. next = "confirm" /\ ~setup.single => ~IdlesOn(w)
      BY <1>1, <1>3, <1>4, <1>6 DEF IdlesOn
    <3>2. (Given(w)' <=> Given(w)) /\ ~YetToLook(w)
      BY <1>1 DEF Given, YetToLook
    <3>3. QED
      BY <1>1, <1>2, <1>5, <2>1, <2>4, <3>1, <3>2 DEF GivenSeen, YetToLook
  <2>8. QED
    BY <2>2, <2>3, <2>5, <2>6, <2>7 DEF Watched
<1>9. QED
  BY <1>1, <1>2, <1>7, <1>8, QuietStays

\* A worker on its way into a park.
LEMMA ParkGoesOn ==
  ASSUME ParkInv, ParkAssumption, NEW w \in ParkWorkers, steps[w] = <<>>, pass[w].pc \in Parking,
         UNCHANGED <<setup, steps, ring, armed, serving, run, given>>,
         NEW l \in Committed, pass' = [pass EXCEPT ![w].pc = l],
         pass[w].pc = "confirm" => run.state = "RUNNING" /\ ~run.retired,
         l = "testWake" => ~pass[w].moved, l = "asleep" => pass[w].pc = "testWake" /\ ~pass[w].woken
  PROVE  ParkInv'
<1> DEFINE p == [pass[w] EXCEPT !.pc = l]
<1>1. /\ pass[w] \in PassStates /\ w \in ParkThreads /\ armed \in BOOLEAN
      /\ Crew(w) /\ Armed(w) /\ PassesLeft(w) /\ Notified(w) /\ StateSeen(w) /\ WorkSeen(w) /\ MessageSeen(w) /\ GivenSeen(w)
  BY WorkerIs
<1>2. /\ p \in PassStates /\ p.pc = l /\ p.moved = pass[w].moved /\ p.woken = pass[w].woken /\ p.idle = pass[w].idle
      /\ p.passes = pass[w].passes /\ pass' = [pass EXCEPT ![w] = p]
  BY <1>1 DEF PassStates, Locations, Committed
<1> HIDE DEF p
<1>3. pass[w].pc \notin {"out", "register", "adopt", "state", "traverse", "due", "leave", "progress", "wake", "look"}
  BY DEF Parking, Committed
<1>4. ASSUME pass'[w] = p PROVE Watched(w)'
  <2>1. /\ pass'[w].pc = l /\ pass'[w].moved = pass[w].moved /\ pass'[w].woken = pass[w].woken
        /\ pass'[w].idle = pass[w].idle /\ pass'[w].passes = pass[w].passes
    BY <1>2, <1>4
  <2>2. Crew(w)' /\ Armed(w)' /\ Fresh(w)' /\ PassesLeft(w)'
    BY <1>1, <1>3, <2>1 DEF Crew, Armed, Fresh, PassesLeft, Committed
  <2>3. /\ Comes("advanceWake") => Comes("advanceWake")'
        /\ Comes("advanceProgress") => Comes("advanceProgress")'
        /\ NotifyComes => NotifyComes'
        /\ MessageWakeComes => MessageWakeComes'
    BY DEF Comes, NotifyComes, MessageWakeComes, NextIs
  <2>4. Notified(w)' /\ StateSeen(w)'
    BY <1>1, <2>1, <2>3 DEF Notified, StateSeen, Parking
  <2>5. WorkSeen(w)'
    BY <1>1, <1>3, <2>1, <2>3 DEF WorkSeen
  <2>6. MessageSeen(w)'
    BY <1>1, <1>3, <2>1, <2>3 DEF MessageSeen, LeftToOther, Unhandled
  <2>7. GivenSeen(w)'
    BY <1>1, <1>3, <2>1, <2>3 DEF GivenSeen, Given, YetToLook, IdlesOn
  <2>8. QED
    BY <2>2, <2>4, <2>5, <2>6, <2>7 DEF Watched
<1>5. QED
  BY <1>1, <1>2, <1>3, <1>4, QuietStays

\* A worker that does not park, or whose park ends.
LEMMA ParkEnds ==
  ASSUME ParkInv, ParkAssumption, NEW w \in ParkWorkers, steps[w] = <<>>, pass[w].pc \in Parking,
         UNCHANGED <<setup, steps, ring, armed, serving, run, given>>,
         EndPark(w) \/ (pass[w].pc = "confirm" /\ Move(w, NextPass(w)))
  PROVE  ParkInv'
<1>1. /\ pass[w] \in PassStates /\ armed \in BOOLEAN
      /\ Crew(w) /\ Armed(w) /\ PassesLeft(w) /\ GivenSeen(w)
  BY WorkerIs
<1>2. NextPass(w) \in {"progress", "leave"}
  BY DEF NextPass
<1>3. PICK p \in PassStates : /\ p.pc \in {"progress", "leave"} /\ p.idle = pass[w].idle
                              /\ p.passes = 0 \/ (p.passes = pass[w].passes /\ pass[w].pc = "confirm")
                              /\ pass' = [pass EXCEPT ![w] = p]
  <2>1. CASE EndPark(w)
    <3> DEFINE p == [pass[w] EXCEPT !.pc = NextPass(w), !.passes = 0]
    <3>1. p \in PassStates /\ p.pc \in {"progress", "leave"} /\ p.idle = pass[w].idle /\ p.passes = 0
      BY <1>1, <1>2 DEF PassStates, Locations
    <3>2. pass' = [pass EXCEPT ![w] = p]
      BY <2>1 DEF EndPark
    <3> HIDE DEF p
    <3>3. QED
      BY <3>1, <3>2
  <2>2. CASE pass[w].pc = "confirm" /\ Move(w, NextPass(w))
    <3> DEFINE p == [pass[w] EXCEPT !.pc = NextPass(w)]
    <3>1. p \in PassStates /\ p.pc \in {"progress", "leave"} /\ p.idle = pass[w].idle /\ p.passes = pass[w].passes
      BY <1>1, <1>2 DEF PassStates, Locations
    <3>2. pass' = [pass EXCEPT ![w] = p]
      BY <2>2 DEF Move
    <3> HIDE DEF p
    <3>3. QED
      BY <2>2, <3>1, <3>2
  <2>3. QED
    BY <2>1, <2>2
<1>4. pass[w].pc \notin {"out", "register", "adopt", "leave", "progress", "wake", "look"}
  BY DEF Parking, Committed
<1>5. ASSUME pass'[w] = p PROVE Watched(w)'
  <2>1. /\ pass'[w].pc \in {"progress", "leave"} /\ pass'[w].idle = pass[w].idle
        /\ pass'[w].passes = 0 \/ (pass'[w].passes = pass[w].passes /\ pass[w].pc = "confirm")
    BY <1>3, <1>5
  <2>2. Crew(w)' /\ Armed(w)' /\ Fresh(w)' /\ PassesLeft(w)'
    BY <1>1, <1>4, <2>1 DEF Crew, Armed, Fresh, PassesLeft
  <2>3. Notified(w)' /\ StateSeen(w)' /\ WorkSeen(w)' /\ MessageSeen(w)'
    BY <2>1 DEF Notified, StateSeen, WorkSeen, MessageSeen, Parking, Committed
  <2>4. GivenSeen(w)'
    BY <1>1, <1>4, <2>1 DEF GivenSeen, Given, YetToLook
  <2>5. QED
    BY <2>2, <2>3, <2>4 DEF Watched
<1>6. QED
  BY <1>1, <1>3, <1>4, <1>5, QuietStays

LEMMA ConfirmStateKeeps ==
  ASSUME ParkInv, ParkAssumption, NEW w \in ParkWorkers, ConfirmState(w)
  PROVE  ParkInv'
<1>1. /\ steps[w] = <<>> /\ pass[w].pc = "confirm" /\ pass[w].pc \in Parking
      /\ UNCHANGED <<setup, steps, ring, armed, serving, run, given>>
  BY DEF ConfirmState, InPass, Parking
<1>2. CASE (run.state # "RUNNING" \/ run.retired) /\ Move(w, NextPass(w))
  BY <1>1, <1>2, ParkEnds
<1>3. CASE EndPark(w)
  BY <1>1, <1>3, ParkEnds
<1>4. CASE run.state = "RUNNING" /\ ~run.retired /\ Move(w, "lock")
  <2>1. pass' = [pass EXCEPT ![w].pc = "lock"] /\ "lock" \in Committed
    BY <1>4 DEF Move, Committed
  <2>2. QED
    BY <1>1, <1>4, <2>1, ParkGoesOn
<1>5. QED
  BY <1>2, <1>3, <1>4 DEF ConfirmState

LEMMA WaitForChangeKeeps ==
  ASSUME ParkInv, ParkAssumption, NEW w \in ParkWorkers, waitForChange(w)
  PROVE  ParkInv'
<1>1. /\ steps[w] = <<>> /\ pass[w].pc \in {"lock", "testProgress", "testWake"}
      /\ UNCHANGED <<setup, steps, ring, armed, serving, run, given>>
  BY DEF waitForChange, InPass
<1>2. pass[w].pc \in Parking /\ pass[w].pc # "confirm"
  BY <1>1 DEF Parking, Committed
<1>3. CASE EndPark(w)
  BY <1>1, <1>2, <1>3, ParkEnds
<1>4. CASE Move(w, "testProgress")
  <2>1. pass' = [pass EXCEPT ![w].pc = "testProgress"] /\ "testProgress" \in Committed
    BY <1>4 DEF Move, Committed
  <2>2. QED
    BY <1>1, <1>2, <2>1, ParkGoesOn
<1>5. CASE ~pass[w].moved /\ Move(w, "testWake")
  <2>1. pass' = [pass EXCEPT ![w].pc = "testWake"] /\ "testWake" \in Committed
    BY <1>5 DEF Move, Committed
  <2>2. QED
    BY <1>1, <1>2, <1>5, <2>1, ParkGoesOn
<1>6. CASE pass[w].pc = "testWake" /\ ~pass[w].woken /\ Move(w, "asleep")
  <2>1. pass' = [pass EXCEPT ![w].pc = "asleep"] /\ "asleep" \in Committed
    BY <1>6 DEF Move, Committed
  <2>2. QED
    BY <1>1, <1>2, <1>6, <2>1, ParkGoesOn
<1>7. QED
  BY <1>3, <1>4, <1>5, <1>6 DEF waitForChange, InPass

LEMMA LeaveLoopKeeps ==
  ASSUME ParkInv, ParkAssumption, NEW w \in ParkWorkers, LeaveLoop(w)
  PROVE  ParkInv'
<1> DEFINE p == [pass[w] EXCEPT !.pc = "out"]
<1>1. /\ steps[w] = <<>> /\ pass[w].pc = "leave" /\ UNCHANGED <<setup, steps, ring, serving, run, given>>
      /\ pass' = [pass EXCEPT ![w].pc = "out"]
      /\ armed' = \E v \in ParkWorkers \ {w} : pass[v].pc \notin {"out", "register"}
  BY DEF LeaveLoop, InPass, Move
<1>2. pass[w] \in PassStates /\ PassesLeft(w) /\ GivenSeen(w)
  BY WorkerIs
<1>3. p \in PassStates /\ p.pc = "out" /\ p.passes = pass[w].passes /\ pass' = [pass EXCEPT ![w] = p]
  BY <1>1, <1>2 DEF PassStates, Locations
<1> HIDE DEF p
<1>4. ASSUME pass'[w] = p PROVE Watched(w)'
  <2>1. pass'[w].pc = "out" /\ pass'[w].passes = pass[w].passes
    BY <1>3, <1>4
  <2>2. Crew(w)' /\ Armed(w)' /\ Fresh(w)' /\ PassesLeft(w)'
    BY <1>1, <1>2, <2>1 DEF Crew, Armed, Fresh, PassesLeft
  <2>3. Notified(w)' /\ StateSeen(w)' /\ WorkSeen(w)' /\ MessageSeen(w)'
    BY <2>1 DEF Notified, StateSeen, WorkSeen, MessageSeen, Parking, Committed
  <2>4. GivenSeen(w)'
    BY <1>1, <1>2, <2>1 DEF GivenSeen, Given, YetToLook
  <2>5. QED
    BY <2>2, <2>3, <2>4 DEF Watched
<1>5. armed' \in BOOLEAN
  BY <1>1
<1>6. ASSUME NEW v \in ParkWorkers, v # w, pass[v].pc \notin {"out", "register"} PROVE armed'
  BY <1>1, <1>6
<1>7. QED
  BY <1>1, <1>3, <1>4, <1>5, <1>6, QuietStays

LEMMA PassKeeps ==
  ASSUME ParkInv, ParkAssumption, NEW w \in ParkWorkers, WorkerPass(w)
  PROVE  ParkInv'
BY RegisterKeeps, ReadSequencesKeeps, LookKeeps, AdoptKeeps, RereadKeeps, TraverseKeeps, ReadProgressAfterKeeps,
   ConfirmStateKeeps, WaitForChangeKeeps, LeaveLoopKeeps DEF WorkerPass

LEMMA EnteringIs ==
  ASSUME setup \in Setups
  PROVE  [w \in ParkWorkers |-> Entering(w)] \in [ParkWorkers -> PassStates]
BY DEF Entering, PassStates, Locations, States

LEMMA StartRunKeeps ==
  ASSUME ParkInv, StartRun
  PROVE  ParkInv'
<1>1. /\ ParkTypes /\ WakesSuffice(setup) /\ Courses /\ Serving /\ RingSlots /\ \A w \in ParkWorkers : Watched(w)
      /\ UNCHANGED <<setup, steps, ring, armed, serving, given>>
      /\ \A t \in ParkThreads : steps[t] = <<>>
      /\ run' = [state |-> "RUNNING", blocksRun |-> TRUE, retired |-> FALSE, requests |-> 0, runs |-> run.runs + 1]
      /\ pass' = [w \in ParkWorkers |-> Entering(w)]
  BY DEF ParkInv, StartRun
<1>2. ParkTypes'
  <2>1. run' \in [state : States, blocksRun : BOOLEAN, retired : BOOLEAN, requests : Int, runs : Nat]
    BY <1>1 DEF ParkTypes, States
  <2>2. pass' \in [ParkWorkers -> PassStates]
    BY <1>1, EnteringIs DEF ParkTypes
  <2>3. QED
    BY <1>1, <2>1, <2>2 DEF ParkTypes
<1>3. \A t \in ParkThreads : \A x : ~HasStep(steps'[t], x)
  BY <1>1, NothingLeft
<1>4. Courses'
  BY <1>1, <1>3 DEF Courses, ParkThreads
<1>5. Requests'
  <2>1. InRequest' = {} /\ run'.requests = 0
    BY <1>1, <1>3 DEF InRequest
  <2>2. QED
    BY <2>1, FS_EmptySet DEF Requests
<1>6. WakesSuffice(setup)' /\ Serving' /\ RingSlots' /\ BlocksRun'
  BY <1>1, RingStays DEF WakesSuffice, Serving, BlocksRun
<1>7. ASSUME NEW w \in ParkWorkers PROVE Watched(w)'
  <2>1. /\ pass'[w].pc = IF w \in setup.crew THEN "register" ELSE "out"
        /\ pass'[w].passes = 0
    BY <1>1 DEF Entering
  <2>2. Crew(w)' /\ Armed(w)' /\ Fresh(w)' /\ PassesLeft(w)'
    BY <1>1, <2>1 DEF Crew, Armed, Fresh, PassesLeft
  <2>3. Notified(w)' /\ StateSeen(w)' /\ WorkSeen(w)' /\ MessageSeen(w)'
    BY <2>1 DEF Notified, StateSeen, WorkSeen, MessageSeen, Parking, Committed
  <2>4. GivenSeen(w)'
    BY <1>1, <2>1 DEF Watched, GivenSeen, Given, YetToLook
  <2>5. QED
    BY <2>2, <2>3, <2>4 DEF Watched
<1>8. QED
  BY <1>2, <1>4, <1>5, <1>6, <1>7 DEF ParkInv

LEMMA ParkBegins ==
  ASSUME ParkAssumption, \A s \in Setups : WakesSuffice(s), ParkInit
  PROVE  ParkInv
<1>1. /\ setup \in Setups /\ pass = [w \in ParkWorkers |-> Entering(w)] /\ steps = [t \in ParkThreads |-> <<>>]
      /\ ring = [stored |-> 0, cursor |-> 0, handled |-> 0, own |-> {}] /\ armed = FALSE /\ serving = NoThread
      /\ run = [state |-> "RUNNING", blocksRun |-> TRUE, retired |-> FALSE, requests |-> 0, runs |-> 1]
  BY DEF ParkInit
<1>2. /\ given \in [ParkWorkers -> [samples : Nat, mail : Nat, blocks : Nat]]
      /\ \A w \in ParkWorkers : given[w].mail = 0 /\ given[w].blocks = 0
  BY <1>1 DEF ParkInit, ParkAssumption
<1>3. ParkTypes
  <2>1. pass \in [ParkWorkers -> PassStates]
    BY <1>1, EnteringIs
  <2>2. steps \in [ParkThreads -> Seq(StepNames)]
    BY <1>1
  <2>3. run \in [state : States, blocksRun : BOOLEAN, retired : BOOLEAN, requests : Int, runs : Nat]
    BY <1>1 DEF States
  <2>4. QED
    BY <1>1, <1>2, <2>1, <2>2, <2>3 DEF ParkTypes
<1>4. \A t \in ParkThreads : \A x : ~HasStep(steps[t], x)
  BY <1>1, NothingLeft
<1>5. Courses
  <2>1. \A t \in ParkThreads : OnCourse(steps[t])
    BY <1>1 DEF OnCourse, Later
  <2>2. QED
    BY <1>4, <2>1 DEF Courses, ParkThreads
<1>6. Requests
  <2>1. InRequest = {} /\ run.requests = 0
    BY <1>1, <1>4 DEF InRequest
  <2>2. QED
    BY <2>1, FS_EmptySet DEF Requests
<1>7. WakesSuffice(setup) /\ Serving /\ RingSlots /\ BlocksRun
  BY <1>1 DEF Serving, RingSlots, BlocksRun
<1>8. ASSUME NEW w \in ParkWorkers PROVE Watched(w)
  <2>1. /\ pass[w].pc = IF w \in setup.crew THEN "register" ELSE "out"
        /\ pass[w].passes = 0
    BY <1>1 DEF Entering
  <2>2. Crew(w) /\ Armed(w) /\ Fresh(w) /\ PassesLeft(w)
    BY <2>1 DEF Crew, Armed, Fresh, PassesLeft
  <2>3. Notified(w) /\ StateSeen(w) /\ WorkSeen(w) /\ MessageSeen(w)
    BY <2>1 DEF Notified, StateSeen, WorkSeen, MessageSeen, Parking, Committed
  <2>4. GivenSeen(w)
    BY <1>2 DEF GivenSeen, Given
  <2>5. QED
    BY <2>2, <2>3, <2>4 DEF Watched
<1>9. QED
  BY <1>3, <1>5, <1>6, <1>7, <1>8 DEF ParkInv

LEMMA ParkStutters ==
  ASSUME ParkInv, UNCHANGED parkVars
  PROVE  ParkInv'
BY DEF ParkInv, parkVars, ParkTypes, WakesSuffice, Courses, Requests, InRequest, Serving, RingSlots, BlocksRun, Comes,
       Watched, Crew, Armed, Fresh, Notified, NotifyComes, NextIs, StateSeen, WorkSeen, MessageSeen, MessageWakeComes, Unhandled,
       LeftToOther, PassesLeft, GivenSeen, Given, YetToLook, IdlesOn

LEMMA ThreadKeeps ==
  ASSUME ParkInv, ParkAssumption, NEW t \in ParkThreads, ThreadStep(t)
  PROVE  ParkInv'
BY AdvanceKeeps, SeeWaitersKeeps, NotifyKeeps, StoreKeeps, MoveCursorKeeps, SeeWakesKeeps, HandleRefusedKeeps, HandleKeeps,
   ReleasePassKeeps, ControlKeeps DEF ThreadStep

LEMMA ParkStep ==
  ASSUME ParkAssumption, ParkInv, [ParkNext]_parkVars
  PROVE  ParkInv'
<1>1. CASE \E t \in ParkThreads : ThreadStep(t)
  BY <1>1, ThreadKeeps
<1>2. CASE \E c \in Clients : Call(c)
  BY <1>2, CallKeeps
<1>3. CASE \E w \in ParkWorkers : WorkerPass(w)
  BY <1>3, PassKeeps
<1>4. CASE StartRun
  BY <1>4, StartRunKeeps
<1>5. CASE UNCHANGED parkVars
  BY <1>5, ParkStutters
<1>6. QED
  BY <1>1, <1>2, <1>3, <1>4, <1>5 DEF ParkNext

\* With no call under way, a worker that sleeps has seen everything.
LEMMA ParkedSawAll ==
  ASSUME ParkInv
  PROVE  NothingWaitsForParked
<1>1. /\ ParkTypes /\ RingSlots /\ \A w \in ParkWorkers : Watched(w)
  BY DEF ParkInv
<1>2. SUFFICES ASSUME AllParked
               PROVE  /\ run.state = "RUNNING" /\ ~run.retired
                      /\ ring.handled + 1 .. ring.cursor \subseteq ring.own
                      /\ \A w \in ParkWorkers : pass[w].pc = "asleep" => given[w] = [samples |-> 0, mail |-> 0, blocks |-> 0]
  BY DEF NothingWaitsForParked
<1>3. /\ \A t \in ParkThreads : steps[t] = <<>>
      /\ \E w \in ParkWorkers : pass[w].pc = "asleep"
  BY <1>2 DEF AllParked
<1>4. /\ ~NotifyComes /\ ~MessageWakeComes /\ ~Comes("advanceWake") /\ ~Comes("advanceProgress")
  BY <1>3, NothingLeft DEF NotifyComes, MessageWakeComes, Comes, NextIs, ParkThreads
<1>5. ASSUME NEW w \in ParkWorkers, pass[w].pc = "asleep"
      PROVE  /\ ~pass[w].moved /\ ~pass[w].woken
             /\ run.state = "RUNNING" /\ ~run.retired
             /\ "message" \in setup.may => ~Unhandled
             /\ ~Given(w) /\ ~(given[w].samples > 0)
  <2>1. Notified(w) /\ StateSeen(w) /\ WorkSeen(w) /\ MessageSeen(w) /\ GivenSeen(w)
    BY <1>1 DEF Watched
  <2>2. ~pass[w].moved /\ ~pass[w].woken
    BY <1>4, <1>5, <2>1 DEF Notified
  <2>3. run.state = "RUNNING" /\ ~run.retired
    BY <1>4, <1>5, <2>1, <2>2 DEF StateSeen, Committed
  <2>4. "message" \in setup.may => ~Unhandled
    BY <1>4, <1>5, <2>1, <2>2 DEF MessageSeen, Parking, Committed, LeftToOther
  <2>5. ~Given(w)
    BY <1>4, <1>5, <2>1, <2>2 DEF GivenSeen, YetToLook, IdlesOn
  <2>6. ~(given[w].samples > 0)
    BY <1>4, <1>5, <2>1, <2>2, <2>3 DEF WorkSeen, Parking, Committed
  <2>7. QED
    BY <2>2, <2>3, <2>4, <2>5, <2>6
<1>6. run.state = "RUNNING" /\ ~run.retired
  BY <1>3, <1>5
<1>7. ring.handled + 1 .. ring.cursor \subseteq ring.own
  <2>1. ring.handled \in Nat /\ ring.cursor \in Nat /\ ring.stored \in Nat /\ ring.cursor <= ring.stored
    BY <1>1 DEF ParkTypes, RingSlots
  <2>2. CASE "message" \in setup.may
    <3>1. ~Unhandled
      BY <1>3, <1>5, <2>2
    <3>2. QED
      BY <2>1, <3>1 DEF Unhandled
  <2>3. CASE "message" \notin setup.may
    <3>1. ring.own = 1 .. ring.stored
      BY <1>1, <2>3 DEF RingSlots
    <3>2. QED
      BY <2>1, <3>1
  <2>4. QED
    BY <2>2, <2>3
<1>8. ASSUME NEW w \in ParkWorkers, pass[w].pc = "asleep" PROVE given[w] = [samples |-> 0, mail |-> 0, blocks |-> 0]
  <2>1. given[w] \in [samples : Nat, mail : Nat, blocks : Nat]
    BY <1>1 DEF ParkTypes
  <2>2. given[w].samples = 0 /\ given[w].mail = 0 /\ given[w].blocks = 0
    BY <1>5, <1>8, <2>1 DEF Given
  <2>3. QED
    BY <2>1, <2>2
<1>9. QED
  BY <1>6, <1>7, <1>8

-----------------------------------------------------------------------------
(* No wake is missed (Scheduler.hpp: poolWorker, wakeWorkers, registerWake;  *)
(* Sequence.hpp: waitUntil, notify_all): however passes, parks, publishes,   *)
(* wakes, the message service, pauses, resumes, stops and restarts           *)
(* interleave, once every worker is parked and no call is under way, the run *)
(* is neither paused nor stopped, every message of a client is handled and   *)
(* no worker has samples, messages or blocks waiting for it.  For any number *)
(* of workers and clients, of messages, calls and runs, and for every policy *)
(* and set of calls for which wakes suffice: the three that WakesSuffice     *)
(* leaves out are those in which the program itself relies on the time-out.  *)
THEOREM NoWakeIsMissed ==
  ASSUME \A s \in Setups : WakesSuffice(s)
  PROVE  ParkSpec => []NothingWaitsForParked
<1>1. ParkInit => ParkInv
  BY ParkAssumption, ParkBegins
<1>2. ParkInv /\ [ParkNext]_parkVars => ParkInv'
  BY ParkAssumption, ParkStep
<1>3. ParkInv => NothingWaitsForParked
  BY ParkedSawAll
<1>4. QED
  BY <1>1, <1>2, <1>3, PTL DEF ParkSpec
=============================================================================
