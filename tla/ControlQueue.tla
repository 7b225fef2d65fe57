---------------------------- MODULE ControlQueue ----------------------------
(***************************************************************************)
(* internal/chatcore/control.go: the first-come, first-served token that   *)
(* says who may write to a conversation.                                   *)
(*                                                                         *)
(* An action is one critical section of q.mu.  A caller is a goroutine     *)
(* with one Acquire at a time; a granted waiter learns of the grant only   *)
(* when its own select runs, so Close and the end of its context can come  *)
(* first.                                                                  *)
(***************************************************************************)
EXTENDS Naturals, Sequences, FiniteSets

CONSTANT Clients

ASSUME ClientsAssumption == IsFiniteSet(Clients)

VARIABLES
    held,        \* q.held
    closed,      \* q.closed
    queue,       \* q.queue: the callers whose waiter channels it holds
    pc,          \* "idle", "waiting" in Acquire's select, "handoff", "holding"
    signalled,   \* waiting callers whose waiter channel is closed
    done,        \* waiting callers whose context ended
    spent        \* callers that keep a release function they already called

vars == <<held, closed, queue, pc, signalled, done, spent>>

TypeOK ==
    /\ held \in BOOLEAN
    /\ closed \in BOOLEAN
    /\ queue \in Seq(Clients)
    /\ pc \in [Clients -> {"idle", "waiting", "handoff", "holding"}]
    /\ signalled \subseteq {c \in Clients : pc[c] = "waiting"}
    /\ done \subseteq {c \in Clients : pc[c] = "waiting"}
    /\ spent \subseteq Clients

Move(c, state) == pc' = [pc EXCEPT ![c] = state]

\* A caller leaves the select: its waiter channel and its context are gone.
Return(c, state) ==
    /\ Move(c, state)
    /\ signalled' = signalled \ {c}
    /\ done' = done \ {c}

Without(s, i) == SubSeq(s, 1, i - 1) \o SubSeq(s, i + 1, Len(s))

-----------------------------------------------------------------------------
\* Mutant: a caller takes its place ahead of those that wait.
AcquireFirst(c) ==
    /\ pc[c] = "idle"
    /\ ~closed
    /\ IF ~held
       THEN held' = TRUE /\ Move(c, "holding") /\ UNCHANGED queue
       ELSE queue' = <<c>> \o queue /\ Move(c, "waiting") /\ UNCHANGED held
    /\ UNCHANGED <<closed, signalled, done, spent>>

\* Acquire up to its first return or wait.  On a closed queue it returns
\* ErrClosed and changes nothing.
Acquire(c) ==
    /\ pc[c] = "idle"
    /\ ~closed
    /\ IF ~held
       THEN held' = TRUE /\ Move(c, "holding") /\ UNCHANGED queue
       ELSE queue' = Append(queue, c) /\ Move(c, "waiting") /\ UNCHANGED held
    /\ UNCHANGED <<closed, signalled, done, spent>>

\* Acquire's context ends while it waits.
Expire(c) ==
    /\ pc[c] = "waiting"
    /\ c \notin done
    /\ done' = done \cup {c}
    /\ UNCHANGED <<held, closed, queue, pc, signalled, spent>>

\* case <-waiter, then isClosed: the token, or ErrClosed when the queue has
\* closed since, the token then staying held by nobody.
Woken(c) ==
    /\ pc[c] = "waiting"
    /\ c \in signalled
    /\ Return(c, IF closed THEN "idle" ELSE "holding")
    /\ UNCHANGED <<held, closed, queue, spent>>

\* Mutant: a grant that races the end of the context is not passed on.
GiveUpGranted(c) ==
    /\ pc[c] = "waiting"
    /\ c \in done
    /\ \/ c \in signalled /\ Return(c, "idle") /\ UNCHANGED queue
       \/ /\ c \notin signalled
          /\ \E i \in 1 .. Len(queue) :
                queue[i] = c /\ queue' = Without(queue, i)
          /\ Return(c, "idle")
    /\ UNCHANGED <<held, closed, spent>>

\* Mutant: a waiter that gives up leaves its channel in the queue.
GiveUpStaysQueued(c) ==
    /\ pc[c] = "waiting"
    /\ c \in done
    /\ Return(c, IF c \in signalled /\ ~closed THEN "handoff" ELSE "idle")
    /\ UNCHANGED <<held, closed, queue, spent>>

\* case <-ctx.Done(): a waiter granted meanwhile passes the token on in a
\* second critical section, one not granted leaves the queue.
GiveUp(c) ==
    /\ pc[c] = "waiting"
    /\ c \in done
    /\ \/ /\ c \in signalled
          /\ Return(c, IF closed THEN "idle" ELSE "handoff")
          /\ UNCHANGED queue
       \/ /\ c \notin signalled
          /\ \E i \in 1 .. Len(queue) :
                queue[i] = c /\ queue' = Without(queue, i)
          /\ Return(c, "idle")
    /\ UNCHANGED <<held, closed, spent>>

\* The body of releaseFunc: of a token that is held the oldest waiter is the
\* owner next, and it stays held, or it is free.
PassOn ==
    IF ~held \/ queue = <<>>
    THEN /\ held' = FALSE
         /\ UNCHANGED <<queue, signalled>>
    ELSE /\ signalled' = signalled \cup {Head(queue)}
         /\ queue' = Tail(queue)
         /\ UNCHANGED held

\* Mutant: every call of a release function passes the token on.
OnceEvery(called) == PassOn

\* once.Do: only the first call of the function one Acquire returned does it.
Once(called) == IF called THEN UNCHANGED <<held, queue, signalled>> ELSE PassOn

\* r := q.releaseFunc(); r()
HandOff(c) ==
    /\ pc[c] = "handoff"
    /\ Once(FALSE)
    /\ Move(c, "idle")
    /\ UNCHANGED <<closed, done, spent>>

\* The holder calls the function its Acquire returned, and keeps it.
Release(c) ==
    /\ pc[c] = "holding"
    /\ Once(FALSE)
    /\ Move(c, "idle")
    /\ spent' = spent \cup {c}
    /\ UNCHANGED <<closed, done>>

\* It calls one it has called before, whoever has the token by now.
ReleaseAgain(c) ==
    /\ c \in spent
    /\ Once(TRUE)
    /\ UNCHANGED <<closed, pc, done, spent>>

\* Mutant: the waiters are dropped and never woken.
CloseSilently ==
    /\ closed' = TRUE
    /\ queue' = <<>>
    /\ UNCHANGED <<held, pc, signalled, done, spent>>

\* Close wakes every waiter and leaves held as it is.
Close ==
    /\ closed' = TRUE
    /\ signalled' = signalled \cup {queue[i] : i \in 1 .. Len(queue)}
    /\ queue' = <<>>
    /\ UNCHANGED <<held, pc, done, spent>>

Init ==
    /\ held = FALSE
    /\ closed = FALSE
    /\ queue = <<>>
    /\ pc = [c \in Clients |-> "idle"]
    /\ signalled = {}
    /\ done = {}
    /\ spent = {}

Next ==
    \/ Close
    \/ \E c \in Clients :
          \/ Acquire(c) \/ Expire(c) \/ Woken(c)
          \/ GiveUp(c) \/ HandOff(c) \/ Release(c) \/ ReleaseAgain(c)

Spec == Init /\ [][Next]_vars

-----------------------------------------------------------------------------
\* The callers the token belongs to: one that holds it, one about to hand it
\* on, one granted it that has not run yet.
Owners ==
    {c \in Clients : \/ pc[c] \in {"holding", "handoff"}
                     \/ pc[c] = "waiting" /\ c \in signalled /\ ~closed}

\* The token is never lost while the queue is open: held is true exactly while
\* somebody owns it, and nobody waits for a free token.
TokenNotLost ==
    ~closed => /\ held <=> Owners # {}
               /\ ~held => queue = <<>>

\* No Acquire waits for ever when holders release: every waiter is granted the
\* token, gives up, or is sent away by Close.
Waits(c) == pc[c] = "waiting"

\* The queue implements the first-come, first-served lock, its owner at the
\* head of the line and its waiters behind in the order they came.
Lock == INSTANCE FifoLock
          WITH shut <- closed,
               line <- IF Owners = {} THEN queue
                       ELSE <<CHOOSE c \in Owners : TRUE>> \o queue

LockSpec == Lock!Spec
=============================================================================
