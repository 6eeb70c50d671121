------------------------------ MODULE MessageFlow ------------------------------
(* The way of a request from a client to the blocks of a scheduler and of the *)
(* replies back (Scheduler.hpp: processScheduledMessages, forwardToChildren,  *)
(* forwardToMsgOut; Block.cpp: processMessages, sendReply, sendUnsentReplies).*)
(*                                                                            *)
(* Four rings: msgIn, the ring that the graph and all children read, the ring *)
(* they all write, msgOut.  Nobody waits for room: what does not fit is kept, *)
(* in three places, and the oldest of what is kept is dropped and counted.    *)
(* One thread at a time makes a message pass; a worker handles the messages   *)
(* of its own blocks beside it.  A step is one write, one read span or one    *)
(* consume.                                                                   *)
EXTENDS Integers, Sequences, FiniteSets

CONSTANTS Children,     \* the blocks of the graph, each with a worker of its own
          MessageSlots, \* slots of each message ring
          Requests,     \* what clients send: <<kind, whom it names>>
          MaxSends, MaxNotes, MaxConnects,  \* bounds: requests, notifications, initializations and swaps
          NoThread

VARIABLES
  rings,     \* the messages of each ring that its last reader has not consumed
  ahead,     \* per reader of toChildren, how many of these it has consumed
  kept,      \* _pendingMessagesToChildren, _unforwardedReplies, and the _unsentReplies of each block
  messagePass,  \* the thread that makes it, its stage, and the children still to handle
  handling,  \* per block, where its processScheduledMessages() is, its span and how many of its messages are done
  messageRun,   \* of the scheduler: connected, state; and what the bounds count
  workerAt,  \* per child, where its worker is
  listening, \* msgOut has a reader
  fate       \* history of requests and replies: what was sent, received, counted as dropped, discarded without a reader, lost with a reader

messageVars == <<rings, ahead, kept, messagePass, handling, messageRun, workerAt, listening, fate>>

Graph == "graph"
Scheduler == "scheduler"
Everyone == "all"
Main == "main"                       \* the thread that initializes, starts, stops, resets and swaps
Readers == Children \cup {Graph}     \* of toChildren
Handlers == Readers \cup {Scheduler}

\* A callback that throws is answered with the error.
ReplyOf(m, b) == [id |-> m.id, kind |-> IF m.kind = "bad" THEN "error" ELSE "final", from |-> b]
IsFor(m, b) == m.to \in {b, Everyone}

\* Lifecycle requests are the scheduler's alone.
IsForwarded(m) == m.to # Scheduler /\ m.kind # "lifecycle"

IsReply(m) == m.kind # "notify"
Replies(ms) == SelectSeq(ms, IsReply)

Lesser(a, b) == IF a < b THEN a ELSE b
After(s, n) == SubSeq(s, n + 1, Len(s))
UpTo(s, n) == SubSeq(s, 1, n)

Room(r) == MessageSlots - Len(rings[r])
Excess(q) == IF Len(q) > MessageSlots THEN Len(q) - MessageSlots ELSE 0

AtRest == [at |-> "idle", n |-> 0, done |-> 0]
NoPass == [by |-> NoThread, at |-> "idle", todo |-> {}]

MessagesInit ==
  /\ rings = [msgIn |-> <<>>, toChildren |-> <<>>, fromChildren |-> <<>>, msgOut |-> <<>>]
  /\ ahead = [b \in Readers |-> 0]
  /\ kept = [pending |-> <<>>, unforwarded |-> <<>>, unsent |-> [b \in Handlers |-> <<>>]]
  /\ messagePass = NoPass
  /\ handling = [b \in Handlers |-> AtRest]
  /\ messageRun = [connected |-> FALSE, state |-> "idle", connects |-> 0, notes |-> 0]
  /\ workerAt = [b \in Children |-> "out"]
  /\ listening \in BOOLEAN
  /\ fate = [sent |-> <<>>, received |-> <<>>, dropped |-> <<>>, unheard |-> <<>>, lost |-> {}]

-----------------------------------------------------------------------------
(* The client. *)

Send ==
  /\ Len(fate.sent) < MaxSends /\ Room("msgIn") > 0
  /\ \E r \in Requests :
       LET m == [id |-> Len(fate.sent) + 1, kind |-> r[1], to |-> r[2]]
       IN  /\ rings' = [rings EXCEPT !.msgIn = Append(@, m)]
           /\ fate' = [fate EXCEPT !.sent = Append(@, m)]
  /\ UNCHANGED <<ahead, kept, messagePass, handling, messageRun, workerAt, listening>>

Receive ==
  /\ rings.msgOut # <<>>
  /\ rings' = [rings EXCEPT !.msgOut = Tail(@)]
  /\ fate' = [fate EXCEPT !.received = @ \o Replies(<<Head(rings.msgOut)>>)]
  /\ UNCHANGED <<ahead, kept, messagePass, handling, messageRun, workerAt, listening>>

-----------------------------------------------------------------------------
(* A block handles its messages. *)

\* The thread that is in the processScheduledMessages() of b.
MayHandle(b) ==
  \/ b = Scheduler /\ messagePass.at = "own"
  \/ b = Graph /\ messagePass.at = "graph"
  \/ b \in messagePass.todo
  \/ b \in Children /\ workerAt[b] = "blocks"

Out(b) == IF b = Scheduler THEN "msgOut" ELSE "fromChildren"
Inbox(b) == IF b = Scheduler THEN rings.msgIn ELSE After(rings.toChildren, ahead[b])
HasRoom(b) == Room(Out(b)) > 0 \/ (b = Scheduler /\ ~listening)

\* Messages that a ring without a reader takes are gone.
Written(b, ms) == IF b = Scheduler /\ ~listening THEN rings ELSE [rings EXCEPT ![Out(b)] = @ \o ms]
Unheard(b, ms) == IF b = Scheduler /\ ~listening THEN ms ELSE <<>>

\* What fits of the replies kept earlier; none when another producer takes the room first.
sendUnsentReplies(b) ==
  LET unsent == kept.unsent[b]
      nFit   == IF HasRoom(b) THEN (IF b = Scheduler /\ ~listening THEN Len(unsent) ELSE Lesser(Len(unsent), Room(Out(b)))) ELSE 0
  IN  \E nSent \in {0, nFit} :
        /\ rings' = Written(b, UpTo(unsent, nSent))
        /\ kept' = [kept EXCEPT !.unsent[b] = After(@, nSent)]
        /\ fate' = [fate EXCEPT !.unheard = @ \o Unheard(b, UpTo(unsent, nSent))]

sendReply(b, reply) ==
  IF kept.unsent[b] = <<>> /\ HasRoom(b)
  THEN /\ rings' = Written(b, <<reply>>)
       /\ fate' = [fate EXCEPT !.unheard = @ \o Unheard(b, <<reply>>)]
       /\ UNCHANGED kept
  ELSE LET unsent == Append(kept.unsent[b], reply)
       IN  /\ kept' = [kept EXCEPT !.unsent[b] = After(unsent, Excess(unsent))]
           /\ fate' = [fate EXCEPT !.dropped = @ \o UpTo(unsent, Excess(unsent))]
           /\ UNCHANGED rings

\* The block is done: on to the next of the pass (own messages, the graph's, the children's unless a
\* worker runs), or of the worker's loop.
Finish(b) ==
  /\ handling' = [handling EXCEPT ![b] = AtRest]
  /\ \/ /\ b = Scheduler
        /\ messagePass' = [messagePass EXCEPT !.at = IF messageRun.connected THEN "graph" ELSE "drain"]
        /\ UNCHANGED workerAt
     \/ /\ b = Graph
        /\ messagePass' = IF \A c \in Children : workerAt[c] = "out"
                          THEN [messagePass EXCEPT !.at = "children", !.todo = Children]
                          ELSE [messagePass EXCEPT !.at = "drain"]
        /\ UNCHANGED workerAt
     \/ /\ b \in messagePass.todo
        /\ messagePass' = [messagePass EXCEPT !.todo = @ \ {b}, !.at = IF messagePass.todo = {b} THEN "drain" ELSE @]
        /\ UNCHANGED workerAt
     \/ /\ b \in Children \ messagePass.todo
        /\ workerAt' = [workerAt EXCEPT ![b] = IF messageRun.state = "running" THEN "top" ELSE "out"]
        /\ UNCHANGED messagePass

BeginHandling(b) ==
  /\ MayHandle(b) /\ handling[b].at = "idle"
  /\ sendUnsentReplies(b)
  /\ IF Inbox(b) = <<>> THEN Finish(b)
     ELSE /\ handling' = [handling EXCEPT ![b] = [at |-> "message", n |-> Len(Inbox(b)), done |-> 0]]
          /\ UNCHANGED <<messagePass, workerAt>>
  /\ UNCHANGED <<ahead, messageRun, listening>>

\* processMessages(): the filter, the callback, and the first half of sendReply().
HandleMessage(b) ==
  LET h == handling[b] IN
  /\ h.at = "message" /\ h.done < h.n
  /\ IF IsFor(Inbox(b)[h.done + 1], b)
     THEN sendUnsentReplies(b) /\ handling' = [handling EXCEPT ![b].at = "reply"]
     ELSE handling' = [handling EXCEPT ![b].done = @ + 1] /\ UNCHANGED <<rings, kept, fate>>
  /\ UNCHANGED <<ahead, messagePass, messageRun, workerAt, listening>>

WriteReply(b) ==
  LET h == handling[b] IN
  /\ h.at = "reply"
  /\ sendReply(b, ReplyOf(Inbox(b)[h.done + 1], b))
  /\ handling' = [handling EXCEPT ![b] = [@ EXCEPT !.at = "message", !.done = @ + 1]]
  /\ UNCHANGED <<ahead, messagePass, messageRun, workerAt, listening>>

\* Slots of toChildren are free once its last reader has consumed them.
Consumed(b, n) ==
  LET moved == [ahead EXCEPT ![b] = @ + n]
      freed == CHOOSE k \in {moved[c] : c \in Readers} : \A c \in Readers : k <= moved[c]
  IN  /\ ahead' = [c \in Readers |-> moved[c] - freed]
      /\ rings' = [rings EXCEPT !.toChildren = After(@, freed)]

ConsumeSpan(b) ==
  LET h == handling[b] IN
  /\ b # Scheduler /\ h.at = "message" /\ h.done = h.n
  /\ Consumed(b, h.n)
  /\ Finish(b)
  /\ UNCHANGED <<kept, messageRun, listening, fate>>

-----------------------------------------------------------------------------
(* The message pass. *)

\* The holder is the only producer of toChildren: the room it sees is the room it gets.
forwardToChildren(ms) ==
  LET queue == kept.pending \o ms
      nSent == Lesser(Len(queue), Room("toChildren"))
      left  == After(queue, nSent)
  IN  /\ rings' = [rings EXCEPT !.toChildren = @ \o UpTo(queue, nSent)]
      /\ kept' = [kept EXCEPT !.pending = After(left, Excess(left))]
      /\ fate' = [fate EXCEPT !.dropped = @ \o UpTo(left, Excess(left))]

\* The worker of a child, or a caller of the main thread's.  What was kept goes first.
BeginPass(t) ==
  /\ messagePass = NoPass
  /\ messagePass' = [NoPass EXCEPT !.by = t, !.at = "own"]
  /\ IF messageRun.connected /\ kept.pending # <<>> THEN forwardToChildren(<<>>) ELSE UNCHANGED <<rings, kept, fate>>
  /\ UNCHANGED <<ahead, handling, messageRun, listening>>

CallerPass == BeginPass(Main) /\ UNCHANGED workerAt
WorkerPass(b) ==
  /\ workerAt[b] = "top" /\ BeginPass(b)
  /\ workerAt' = [workerAt EXCEPT ![b] = "pass"]
\* Whoever finds the pass taken does without.
WithoutPass(b) ==
  /\ workerAt[b] = "top" /\ messagePass # NoPass
  /\ workerAt' = [workerAt EXCEPT ![b] = "blocks"]
  /\ UNCHANGED <<rings, ahead, kept, messagePass, handling, messageRun, listening, fate>>

\* processMessages(): after its own handlers the scheduler forwards the span, message by message.
Forward ==
  LET h == handling[Scheduler] IN
  /\ \/ h.at = "message" /\ h.done = h.n
     \/ h.at = "forward" /\ h.done < h.n
  /\ LET k == IF h.at = "message" THEN 1 ELSE h.done + 1
         m == rings.msgIn[k]
     IN  /\ IF ~IsForwarded(m) THEN UNCHANGED <<rings, kept, fate>>
            ELSE IF messageRun.connected THEN forwardToChildren(<<m>>)
            ELSE kept' = [kept EXCEPT !.pending = Append(@, m)] /\ UNCHANGED <<rings, fate>>
         /\ handling' = [handling EXCEPT ![Scheduler] = [@ EXCEPT !.at = "forward", !.done = k]]
  /\ UNCHANGED <<ahead, messagePass, messageRun, workerAt, listening>>

ConsumeOwn ==
  LET h == handling[Scheduler] IN
  /\ h.at = "forward" /\ h.done = h.n
  /\ rings' = [rings EXCEPT !.msgIn = After(@, h.n)]
  /\ Finish(Scheduler)
  /\ UNCHANGED <<ahead, kept, messageRun, listening, fate>>

\* mutant: what was sent of the replies kept counts for the new messages too
forwardToMsgOutShort(ms) ==
  LET queue == kept.unforwarded \o ms IN
  \E nSent \in {0, Lesser(Len(queue), Room("msgOut"))} :
    LET nKept == Lesser(nSent, Len(kept.unforwarded))
        rest  == After(ms, Lesser(nSent, Len(ms)))
        left  == After(kept.unforwarded, nKept) \o Replies(rest)
    IN  /\ rings' = [rings EXCEPT !.msgOut = @ \o UpTo(queue, nSent), !.fromChildren = <<>>]
        /\ kept' = [kept EXCEPT !.unforwarded = After(left, Excess(left))]
        /\ fate' = [fate EXCEPT !.dropped = @ \o UpTo(left, Excess(left))]

\* Kept replies first; a notification that does not fit is dropped.  A notification of another thread may take the room.
forwardToMsgOut(ms) ==
  LET queue == kept.unforwarded \o ms IN
  \E nSent \in {0, Lesser(Len(queue), Room("msgOut"))} :
    LET nKept == Lesser(nSent, Len(kept.unforwarded))
        rest  == After(ms, nSent - nKept)
        left  == After(kept.unforwarded, nKept) \o Replies(rest)
    IN  /\ rings' = [rings EXCEPT !.msgOut = @ \o UpTo(queue, nSent), !.fromChildren = <<>>]
        /\ kept' = [kept EXCEPT !.unforwarded = After(left, Excess(left))]
        /\ fate' = [fate EXCEPT !.dropped = @ \o UpTo(left, Excess(left))]

\* After the drain the holder returns: a worker to its own blocks.
EndPass ==
  /\ messagePass' = NoPass
  /\ workerAt' = IF messagePass.by = Main THEN workerAt ELSE [workerAt EXCEPT ![messagePass.by] = "blocks"]

IsError(m) == m.kind = "error"

\* Without a listener an error ends the run, as a worker meets it, or is thrown at the caller.
forwardMessagesFromChildren ==
  /\ messagePass.at = "drain"
  /\ LET ms == rings.fromChildren IN
     IF listening
     THEN /\ IF ms = <<>> /\ kept.unforwarded = <<>> THEN UNCHANGED <<rings, kept, fate>> ELSE forwardToMsgOut(ms)
          /\ UNCHANGED messageRun
     ELSE /\ rings' = [rings EXCEPT !.fromChildren = <<>>]
          /\ fate' = [fate EXCEPT !.unheard = @ \o Replies(ms)]
          /\ messageRun' = IF SelectSeq(ms, IsError) # <<>> /\ messagePass.by # Main /\ messageRun.state = "running"
                           THEN [messageRun EXCEPT !.state = "stopping"] ELSE messageRun
          /\ UNCHANGED kept
  /\ EndPass
  /\ UNCHANGED <<ahead, handling, listening>>

-----------------------------------------------------------------------------
(* A worker's loop, and the notifications of its block: sendMessage() drops what does not fit. *)

\* The generation has moved on since the pass.
LeaveEarly(b) ==
  /\ workerAt[b] = "blocks" /\ handling[b].at = "idle" /\ messageRun.state # "running"
  /\ workerAt' = [workerAt EXCEPT ![b] = "out"]
  /\ UNCHANGED <<rings, ahead, kept, messagePass, handling, messageRun, listening, fate>>

Notify(b) ==
  /\ workerAt[b] = "top" /\ messageRun.notes < MaxNotes
  /\ LET note == [id |-> 0, kind |-> "notify", from |-> b] IN
     IF Room("fromChildren") > 0
     THEN rings' = [rings EXCEPT !.fromChildren = Append(@, note)]
     ELSE UNCHANGED rings
  /\ messageRun' = [messageRun EXCEPT !.notes = @ + 1]
  /\ UNCHANGED <<ahead, kept, messagePass, handling, workerAt, listening, fate>>

-----------------------------------------------------------------------------
(* The main thread: init() and reset() connect, exchange() drops what is kept for the old blocks. *)

MainIsFree == messagePass.by # Main /\ \A b \in Children : workerAt[b] = "out"

\* Each reader is a new one: what the old ones had not read is kept in the graph's case and lost in a child's.
connectBlockMessagePorts(pending, dropped, unsent, unread) ==
  LET nSent == Lesser(Len(pending), MessageSlots) IN
  /\ rings' = [rings EXCEPT !.toChildren = UpTo(pending, nSent)]
  /\ ahead' = [b \in Readers |-> 0]
  /\ kept' = [kept EXCEPT !.pending = LET left == After(pending, nSent) IN After(left, Excess(left)), !.unsent = unsent]
  /\ fate' = [fate EXCEPT !.lost = @ \cup unread,
                          !.dropped = @ \o dropped \o (LET left == After(pending, nSent) IN UpTo(left, Excess(left)))]
  /\ messageRun' = [messageRun EXCEPT !.connected = TRUE, !.state = "ready", !.connects = @ + 1]
  /\ UNCHANGED <<messagePass, handling, workerAt, listening>>

UnreadBy(b) == LET ms == After(rings.toChildren, ahead[b]) IN {<<ms[k].id, b>> : k \in {j \in 1..Len(ms) : IsFor(ms[j], b)}}

\* init(), which makes a pass of its own messages first, and reset().
Connect ==
  /\ MainIsFree /\ messagePass = NoPass
  /\ messageRun.state \in {"idle", "stopped"} /\ messageRun.connects < MaxConnects
  /\ connectBlockMessagePorts(After(rings.toChildren, ahead[Graph]) \o kept.pending, <<>>, kept.unsent, UNION {UnreadBy(b) : b \in Children})

\* The blocks of the new graph stand where the old ones did and have nothing unread and nothing unsent.
exchange ==
  /\ MainIsFree /\ messagePass = NoPass
  /\ messageRun.connected /\ messageRun.state = "stopped" /\ messageRun.connects < MaxConnects
  /\ connectBlockMessagePorts(<<>>, kept.pending, [b \in Handlers |-> IF b = Scheduler THEN kept.unsent[b] ELSE <<>>],
       UNION {UnreadBy(b) \cup {<<kept.unsent[b][k].id, b>> : k \in DOMAIN kept.unsent[b]} : b \in Readers})

Start ==
  /\ MainIsFree /\ messageRun.state = "ready"
  /\ messageRun' = [messageRun EXCEPT !.state = "running"]
  /\ workerAt' = [b \in Children |-> "top"]
  /\ UNCHANGED <<rings, ahead, kept, messagePass, handling, listening, fate>>

Stop ==
  /\ messagePass.by # Main /\ messageRun.state = "running"
  /\ messageRun' = [messageRun EXCEPT !.state = "stopping"]
  /\ UNCHANGED <<rings, ahead, kept, messagePass, handling, workerAt, listening, fate>>

Stopped ==
  /\ MainIsFree /\ messageRun.state = "stopping"
  /\ messageRun' = [messageRun EXCEPT !.state = "stopped"]
  /\ UNCHANGED <<rings, ahead, kept, messagePass, handling, workerAt, listening, fate>>

-----------------------------------------------------------------------------
MessagesNext ==
  \/ Send \/ Receive
  \/ \E b \in Handlers :
       BeginHandling(b) \/ HandleMessage(b) \/ WriteReply(b) \/ ConsumeSpan(b)
  \/ CallerPass \/ Forward \/ ConsumeOwn \/ forwardMessagesFromChildren
  \/ \E b \in Children : WorkerPass(b) \/ WithoutPass(b) \/ LeaveEarly(b) \/ Notify(b)
  \/ Connect \/ exchange \/ Start \/ Stop \/ Stopped

-----------------------------------------------------------------------------
(* Where a request of b is: still on its way, or its reply. *)

Addressees(m) == {b \in Handlers : IsFor(m, b) /\ (b = Scheduler \/ IsForwarded(m))}
IdsOf(s) == {s[k].id : k \in DOMAIN s}
RepliesBy(s, b) == LET By(m) == m.from = b /\ IsReply(m) IN SelectSeq(s, By)

InHand(b) == IF handling[b].at \in {"message", "reply"} THEN handling[b].done ELSE 0
OnTheWay(b) ==
  IF b = Scheduler
  THEN After(rings.msgIn, IF handling[b].at = "forward" THEN handling[b].n ELSE InHand(b))
  ELSE After(rings.toChildren, ahead[b] + InHand(b)) \o kept.pending
         \o After(rings.msgIn, IF handling[Scheduler].at = "forward" THEN handling[Scheduler].done ELSE 0)
RepliesOf(b) == fate.received \o rings.msgOut \o kept.unforwarded \o rings.fromChildren \o kept.unsent[b]

IsRequest(m) == "to" \in DOMAIN m
\* Of request i and block b: dropped and counted, as a request or as a reply; discarded as nobody listened; or lost.
Given(i, b) ==
  \/ \E k \in DOMAIN fate.dropped : LET m == fate.dropped[k] IN m.id = i /\ IF IsRequest(m) THEN b # Scheduler ELSE m.from = b
  \/ \E k \in DOMAIN fate.unheard : LET m == fate.unheard[k] IN m.id = i /\ m.from = b
  \/ <<i, b>> \in fate.lost

\* Every block a request names still has it to handle, or its reply is on the way or arrived, or
\* it was dropped and counted, or went with the readers of a reset: never two of these, and never
\* none (Scheduler.hpp:899, 1009: kept for a later call, and what is dropped is counted).
RequestsAccounted ==
  \A i \in DOMAIN fate.sent : \A b \in Addressees(fate.sent[i]) :
    LET onTheWay == i \in IdsOf(OnTheWay(b))
        replied  == i \in IdsOf(RepliesBy(RepliesOf(b), b))
    IN  IF Given(i, b) THEN ~onTheWay /\ ~replied ELSE onTheWay # replied

\* The replies of one block leave in the order of the requests, from whichever of its
\* places each is sent (Block.cpp:103, Scheduler.hpp:1010: what is kept goes first).
RepliesInOrder ==
  \A b \in Handlers :
    LET ids == RepliesBy(RepliesOf(b), b) IN \A k \in 1..(Len(ids) - 1) : ids[k].id < ids[k + 1].id

\* Each request is answered, on its way or accounted for, and answers keep their order.
RequestsAnsweredInOrder == RequestsAccounted /\ RepliesInOrder
=============================================================================
