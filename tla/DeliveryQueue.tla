---------------------------- MODULE DeliveryQueue ----------------------------
(***************************************************************************)
(* internal/delivery/queue.go: the bounded queue that carries every event  *)
(* of a conversation, and of a wrapper session, to its one callback.       *)
(*                                                                         *)
(* Producers call Push from any goroutine; one worker (run) delivers.  An  *)
(* action is one critical section of q.mu, so what another goroutine can   *)
(* do between two of them is a step of its own here.                       *)
(***************************************************************************)
EXTENDS Integers, Sequences, FiniteSets

CONSTANTS
    Producers,      \* goroutines that call Push
    LimitEvents,    \* limits.Events
    LimitBytes,     \* limits.Bytes
    Sizes,          \* the payload sizes size(v) can report
    MaxPushes,      \* bound on the values ever pushed
    NoEvent         \* no value in hand

ASSUME LimitsAssumption ==
    /\ LimitEvents \in Nat \ {0}
    /\ LimitBytes \in Nat \ {0}
    /\ Sizes \subseteq Nat
    /\ MaxPushes \in Nat
    /\ IsFiniteSet(Producers)

Event == [id : 1 .. MaxPushes, size : Sizes]

ASSUME NoEventAssumption == NoEvent \notin Event

VARIABLES
    items,       \* q.items, oldest first
    bytes,       \* q.bytes
    closed,      \* q.closed
    abandoned,   \* q.abandoned
    ready,       \* tokens in q.ready, a channel of capacity one
    hand,        \* the value each producer waits with: its waiter in q.waiters
    parked,      \* producers whose room channel is q.room, still open
    worker,      \* where run is: "lock", "ready" (receiving), "deliver", "drained"
    delivering,  \* the value inside the callback
    delivered,   \* q.delivered
    lost,        \* q.lost
    aborted,     \* the abort channel the producers pass is closed
    pushed,      \* history: values that entered Push or PushLast
    accepted,    \* history: values enqueued, in order
    calls        \* history: values handed to the callback, in order

queueVars == <<items, bytes, closed, abandoned, ready>>
workerVars == <<worker, delivering, delivered>>
vars == <<items, bytes, closed, abandoned, ready, hand, parked, worker,
          delivering, delivered, lost, aborted, pushed, accepted, calls>>

TypeOK ==
    /\ items \in Seq(Event)
    /\ bytes \in Int
    /\ closed \in BOOLEAN
    /\ abandoned \in BOOLEAN
    /\ ready \in {0, 1}
    /\ hand \in [Producers -> Event \cup {NoEvent}]
    /\ parked \subseteq Producers
    /\ worker \in {"lock", "ready", "deliver", "drained"}
    /\ delivering \in Event \cup {NoEvent}
    /\ delivered \in Nat
    /\ lost \in Nat
    /\ aborted \in BOOLEAN
    /\ pushed \in 0 .. MaxPushes
    /\ accepted \in Seq(Event)
    /\ calls \in Seq(Event)

-----------------------------------------------------------------------------
(* The helpers that run under q.mu.                                        *)

\* Mutant: the event bound compared with <=.
HasRoomOffByOne(e) ==
    \/ items = <<>>
    \/ Len(items) <= LimitEvents /\ bytes + e.size <= LimitBytes

\* Push's test for room: a value alone in the queue is always taken.
HasRoom(e) ==
    \/ items = <<>>
    \/ Len(items) < LimitEvents /\ bytes + e.size <= LimitBytes

\* signal: a full ready channel keeps its one token.
Signal == ready' = 1

\* enqueue, its signal included.
Enqueue(e) ==
    /\ items' = Append(items, e)
    /\ bytes' = bytes + e.size
    /\ Signal
    /\ accepted' = Append(accepted, e)

\* Mutant: the room channel is never closed.
WakeNobody == UNCHANGED parked

\* close(q.room), q.room = make(...): every parked producer becomes runnable.
WakeWaiters == parked' = {}

\* closeLocked does nothing the second time.
CloseLocked ==
    IF closed
    THEN UNCHANGED <<closed, parked, ready>>
    ELSE /\ closed' = TRUE
         /\ WakeWaiters
         /\ Signal

Waiting == {p \in Producers : hand[p] # NoEvent}

-----------------------------------------------------------------------------
(* Producers.                                                              *)

\* Mutant: a producer that waited does not look at closed again.
AttemptUnlessAbandoned(p, e) ==
    \/ /\ ~abandoned
       /\ HasRoom(e)
       /\ Enqueue(e)
       /\ hand' = [hand EXCEPT ![p] = NoEvent]
       /\ UNCHANGED <<closed, abandoned, parked, lost>>
    \/ /\ ~abandoned
       /\ ~HasRoom(e)
       /\ hand' = [hand EXCEPT ![p] = e]
       /\ parked' = parked \cup {p}
       /\ UNCHANGED <<queueVars, lost, accepted>>

\* One pass of Push's loop for the value e of producer p: refused once the
\* queue closed, queued when there is room, else parked on the room channel.
Attempt(p, e) ==
    \/ /\ closed \/ abandoned
       /\ lost' = lost + 1
       /\ hand' = [hand EXCEPT ![p] = NoEvent]
       /\ UNCHANGED <<queueVars, parked, accepted>>
    \/ /\ ~(closed \/ abandoned)
       /\ HasRoom(e)
       /\ Enqueue(e)
       /\ hand' = [hand EXCEPT ![p] = NoEvent]
       /\ UNCHANGED <<closed, abandoned, parked, lost>>
    \/ /\ ~(closed \/ abandoned)
       /\ ~HasRoom(e)
       /\ hand' = [hand EXCEPT ![p] = e]
       /\ parked' = parked \cup {p}
       /\ UNCHANGED <<queueVars, lost, accepted>>

\* Push, up to its first return or wait.  A value over the byte bound returns
\* ErrTooLarge before the lock and changes nothing.
Push(p, n) ==
    /\ hand[p] = NoEvent
    /\ pushed < MaxPushes
    /\ n <= LimitBytes
    /\ pushed' = pushed + 1
    /\ Attempt(p, [id |-> pushed + 1, size |-> n])
    /\ UNCHANGED <<workerVars, aborted, calls>>

\* The room channel p waits on was closed: around the loop again.
Retry(p) ==
    /\ hand[p] # NoEvent
    /\ p \notin parked
    /\ Attempt(p, hand[p])
    /\ UNCHANGED <<workerVars, aborted, pushed, calls>>

\* The abort channel closed while p waits, woken or not.
GiveUp(p) ==
    /\ hand[p] # NoEvent
    /\ aborted
    /\ lost' = lost + 1
    /\ hand' = [hand EXCEPT ![p] = NoEvent]
    /\ parked' = parked \ {p}
    /\ UNCHANGED <<queueVars, workerVars, aborted, pushed, accepted, calls>>

\* PushLast never waits and queues past both bounds.
PushLast(n) ==
    /\ pushed < MaxPushes
    /\ pushed' = pushed + 1
    /\ \/ /\ closed \/ abandoned
          /\ lost' = lost + 1
          /\ UNCHANGED <<queueVars, parked, accepted>>
       \/ /\ ~(closed \/ abandoned)
          /\ Enqueue([id |-> pushed + 1, size |-> n])
          /\ CloseLocked
          /\ UNCHANGED <<abandoned, lost>>
    /\ UNCHANGED <<workerVars, hand, aborted, calls>>

\* Close.
Close ==
    /\ CloseLocked
    /\ UNCHANGED <<items, bytes, abandoned, workerVars, hand, lost, aborted,
                   pushed, accepted, calls>>

\* Mutant: what Abandon drops is not counted.
AbandonUncounted ==
    /\ items' = <<>>
    /\ bytes' = 0
    /\ abandoned' = TRUE
    /\ CloseLocked
    /\ UNCHANGED <<lost, workerVars, hand, aborted, pushed, accepted, calls>>

\* Abandon drops what is queued, counting it, and closes.
Abandon ==
    /\ lost' = lost + Len(items)
    /\ items' = <<>>
    /\ bytes' = 0
    /\ abandoned' = TRUE
    /\ CloseLocked
    /\ UNCHANGED <<workerVars, hand, aborted, pushed, accepted, calls>>

\* The owner closes the abort channel (Conversation.drain, Session.Stop).
Abort ==
    /\ ~aborted
    /\ aborted' = TRUE
    /\ UNCHANGED <<queueVars, workerVars, hand, parked, lost, pushed,
                   accepted, calls>>

-----------------------------------------------------------------------------
(* The worker.                                                             *)

\* run takes the oldest value, frees its room and leaves the lock to deliver.
Take ==
    /\ worker = "lock"
    /\ items # <<>>
    /\ delivering' = Head(items)
    /\ items' = Tail(items)
    /\ bytes' = bytes - Head(items).size
    /\ WakeWaiters
    /\ worker' = "deliver"
    /\ calls' = Append(calls, Head(items))
    /\ UNCHANGED <<closed, abandoned, ready, hand, delivered, lost, aborted,
                   pushed, accepted>>

\* run finds nothing queued: it exits when the queue is closed, else it
\* unlocks to wait for the ready token.
Idle ==
    /\ worker = "lock"
    /\ items = <<>>
    /\ worker' = IF closed THEN "drained" ELSE "ready"
    /\ UNCHANGED <<queueVars, hand, parked, delivering, delivered, lost,
                   aborted, pushed, accepted, calls>>

\* <-q.ready
Receive ==
    /\ worker = "ready"
    /\ ready = 1
    /\ ready' = 0
    /\ worker' = "lock"
    /\ UNCHANGED <<items, bytes, closed, abandoned, hand, parked, delivering,
                   delivered, lost, aborted, pushed, accepted, calls>>

\* The callback returned, or panicked and was recovered.
Return(ok) ==
    /\ worker = "deliver"
    /\ worker' = "lock"
    /\ delivering' = NoEvent
    /\ delivered' = IF ok THEN delivered + 1 ELSE delivered
    /\ lost' = IF ok THEN lost ELSE lost + 1
    /\ UNCHANGED <<queueVars, hand, parked, aborted, pushed, accepted, calls>>

Run == Take \/ Idle \/ Receive \/ \E ok \in BOOLEAN : Return(ok)

-----------------------------------------------------------------------------
Init ==
    /\ items = <<>>
    /\ bytes = 0
    /\ closed = FALSE
    /\ abandoned = FALSE
    /\ ready = 0
    /\ hand = [p \in Producers |-> NoEvent]
    /\ parked = {}
    /\ worker = "lock"
    /\ delivering = NoEvent
    /\ delivered = 0
    /\ lost = 0
    /\ aborted = FALSE
    /\ pushed = 0
    /\ accepted = <<>>
    /\ calls = <<>>

Next ==
    \/ \E p \in Producers, n \in Sizes : Push(p, n)
    \/ \E p \in Producers : Retry(p)
    \/ \E p \in Producers : GiveUp(p)
    \/ \E n \in Sizes : PushLast(n)
    \/ Close
    \/ Abandon
    \/ Abort
    \/ Run

Spec == Init /\ [][Next]_vars

-----------------------------------------------------------------------------
(* What the queue promises.                                                *)

\* Every value pushed is accounted for exactly once: delivered, counted in
\* Stats.Undelivered, queued, inside the callback, or in the hands of a
\* producer that still waits for room; and q.bytes is the payload queued.
Accounting ==
    LET total[i \in 0 .. Len(items)] ==
            IF i = 0 THEN 0 ELSE total[i - 1] + items[i].size
    IN  /\ pushed = delivered + lost + Len(items) + Cardinality(Waiting)
                    + (IF delivering = NoEvent THEN 0 ELSE 1)
        /\ bytes = total[Len(items)]

\* Neither bound is ever passed but by the one value PushLast queues.
WithinBounds ==
    /\ ~closed => Len(items) <= LimitEvents /\ bytes <= LimitBytes
    /\ Len(items) <= LimitEvents + 1

\* Close's wait ends: once the queue is closed its worker drains it.
Draining == closed
Drained == worker = "drained"

\* A Push returns: no producer waits for room forever.
Pushing(p) == hand[p] # NoEvent

\* The queue implements the ordered stream: what its producers and its
\* callback see is values joining and leaving one log in order, PushLast's
\* last, and nothing after Close or Abandon.
Stream == INSTANCE OrderedStream
            WITH Value <- Event, log <- accepted, out <- calls,
                 ended <- closed, dropped <- abandoned

StreamSpec == Stream!Spec
=============================================================================
