---------------------------- MODULE Conversation ----------------------------
(***************************************************************************)
(* internal/chatcore: the life of a turn over the terminal transport.      *)
(*                                                                         *)
(* Three kinds of goroutine share a Conversation: callers inside Send      *)
(* (send.go), the event loop (consumeWatcher, handleTurnsEvent, exitWith)  *)
(* and the idle watcher (maybeIdleComplete, observeInterrupt).  Each may   *)
(* end the turn in flight; whoever takes c.currentTurn under c.mu          *)
(* (claimTurnLocked) owns its ending.  An action is one critical section   *)
(* of c.mu, one wait, or one emit, so everything another goroutine can do  *)
(* between two of them is a step here.  The harness, its screen and its    *)
(* transcript are the environment.                                         *)
(*                                                                         *)
(* Events go to the delivery queue (module DeliveryQueue); here it is the  *)
(* log of what it took, which is what its ordered stream promises.         *)
(***************************************************************************)
EXTENDS Integers, Sequences, FiniteSets

CONSTANTS
    Senders,         \* callers of Send sharing the control token
    MaxTurns,        \* bound on the assistant turns ever begun
    MaxEvents,       \* bound on the turn events on their way to the loop
    MaxEntries,      \* bound on the harness's transcript
    Settings         \* the callers and harnesses a conversation may have: see setting

\* What a harness and its callers may do (see setting).
Features == {"records", "marker", "waiting", "blocked", "claude", "holds", "walls",
             "patient", "slow"}

ASSUME BoundsAssumption ==
    /\ MaxTurns \in Nat
    /\ MaxEvents \in Nat
    /\ MaxEntries \in Nat
    /\ IsFiniteSet(Senders)
    /\ Senders \cap Features = {}
    /\ Settings \subseteq SUBSET (Senders \cup Features)

VARIABLES
    closed,         \* c.closed is closed
    exit,           \* c.exit is set and c.done closed
    current,        \* c.currentTurn, 0 when nil
    reserved,       \* c.writeReserved
    endMarkerSeen,  \* c.endMarkerSeen
    held,           \* c.heldReason is not empty
    watermark,      \* c.sentTranscriptWatermark
    sending,        \* c.sending, the Sends recording a turn
    ending,         \* c.ending, the turns claimed and not yet announced
    queue,          \* the delivery queue: "open", "ended" or "abandoned"
    log,            \* the events it took, in order
    dropped,        \* the events it refused after its last
    pc,             \* where each goroutine is
    turn,           \* the turn it works on
    label,          \* the terminal state it has settled on
    event,          \* the event the loop handles
    alive,          \* the harness process runs
    running,        \* the turn the harness works on, 0 when it sits idle
    stopped,        \* the turn whose interrupt the screen shows
    screenQ,        \* turn events read off the screen, not yet handled
    statusQ,        \* turn events from the wrapper's status, not yet handled
    transcript,     \* the harness's own record
    begun,          \* history: turn ids given out
    submitted,      \* history: turns whose submit key was written
    heldTurns,      \* history: turns a Blocked was recorded on
    setting         \* who calls Send, and which Features there are; for good

stateVars == <<closed, exit, current, reserved, endMarkerSeen, held, watermark>>
groupVars == <<sending, ending>>
streamVars == <<queue, log, dropped>>
procVars == <<pc, turn, label, event>>
harnessVars == <<alive, running, stopped, screenQ, statusQ, transcript>>
asideVars == <<begun, submitted, heldTurns, setting>>
vars == <<stateVars, groupVars, streamVars, procVars, harnessVars, asideVars>>

Loop == "loop"
Idle == "idle"
Procs == Senders \cup {Loop, Idle}
Turns == 1 .. MaxTurns
Records == "records" \in setting          \* the harness writes a transcript
Shows == setting \cap {"marker", "waiting", "blocked"}    \* what it may show at work
IsClaude == "claude" \in setting          \* opts.Harness is claude-code
HoldsTurns == "holds" \in setting         \* holdsTurns(): a Blocked leaves the turn pending
Walls == "walls" \in setting              \* a sign-in or usage wall may be on the screen
PatientClients == "patient" \in setting   \* callers send once every turn they saw has ended
SlowAnnounce == "slow" \in setting        \* announcing a turn may outlast the idle gap
NoTurn == 0
Unknown == -1      \* watermarkUnknown

Terminal == {"complete", "proved", "errored", "interrupted"}
Label == Terminal \cup {"none", "marker", "fallback", "replied"}
TurnEvent == [kind : {"marker", "waiting", "blocked", "errored"},
              final : BOOLEAN]
LogEvent == [turn : 0 .. MaxTurns,
             state : Terminal \cup {"user", "pending", "exited"}]
Entry == [turn : Turns, kind : {"reply", "error"}]
NoEvent == [kind |-> "marker", final |-> FALSE]

SenderPc == {"idle", "ready", "begin", "user", "assistant", "set", "submit",
             "write", "fail", "publish", "release", "wall", "walluser",
             "wallassistant"}
LoopPc == {"select", "claim", "relabel", "held", "publish", "exit", "sending",
           "lastpublish", "ending", "stopped"}
IdlePc == {"watch", "check", "claim", "swallowed", "proof", "relabel", "held",
           "interrupted", "publish", "stopped"}

TypeOK ==
    /\ {closed, exit, reserved, endMarkerSeen, held, alive} \subseteq BOOLEAN
    /\ current \in 0 .. MaxTurns
    /\ watermark \in -1 .. MaxEntries
    /\ sending \in 0 .. Cardinality(Senders)
    /\ ending \in 0 .. Cardinality(Procs)
    /\ queue \in {"open", "ended", "abandoned"}
    /\ log \in Seq(LogEvent)
    /\ dropped \subseteq LogEvent
    /\ \A s \in Senders : pc[s] \in SenderPc
    /\ pc[Loop] \in LoopPc
    /\ pc[Idle] \in IdlePc
    /\ turn \in [Procs -> 0 .. MaxTurns]
    /\ label \in [Procs -> Label]
    /\ event \in TurnEvent
    /\ running \in 0 .. MaxTurns
    /\ stopped \in 0 .. MaxTurns
    /\ screenQ \in Seq(TurnEvent)
    /\ statusQ \in Seq(TurnEvent)
    /\ transcript \in Seq(Entry)
    /\ begun \in 0 .. MaxTurns
    /\ submitted \subseteq Turns
    /\ heldTurns \subseteq Turns
    /\ setting \in Settings

-----------------------------------------------------------------------------
(* Helpers.                                                                *)

Move(p, at) == pc' = [pc EXCEPT ![p] = at]
Settle(p, state) == label' = [label EXCEPT ![p] = state]
Item(t, state) == [turn |-> t, state |-> state]
Logged(e) == \E i \in 1 .. Len(log) : log[i] = e
Ended(t) == \E state \in Terminal : Logged(Item(t, state))

\* emit: a queue that was abandoned, or has ended, turns the event away.
Emit(e) ==
    /\ log' = IF queue = "open" THEN Append(log, e) ELSE log
    /\ dropped' = IF queue = "ended" THEN dropped \cup {e} ELSE dropped
    /\ UNCHANGED queue

\* claimTurnLocked: p takes the turn in flight to end it.
Claim(p) ==
    /\ current # NoTurn
    /\ current' = NoTurn
    /\ turn' = [turn EXCEPT ![p] = current]
    /\ ending' = ending + 1

\* finishTurn, and publishTurn with the ending.Done its caller adds.
Publish(p, next) ==
    /\ Emit(Item(turn[p], label[p]))
    /\ ending' = ending - 1
    /\ turn' = [turn EXCEPT ![p] = NoTurn]
    /\ Settle(p, "none")
    /\ event' = IF p = Loop THEN NoEvent ELSE event
    /\ Move(p, next)
    /\ UNCHANGED <<stateVars, sending, harnessVars, asideVars>>

-----------------------------------------------------------------------------
(* Send.                                                                   *)

\* Mutant: a check that is not also a claim.
ReserveUnclaimed(s) ==
    /\ s \in setting
    /\ pc[s] = "idle"
    /\ ~closed
    /\ current = NoTurn
    /\ ~exit
    /\ begun < MaxTurns
    /\ reserved' = TRUE
    /\ Move(s, "ready")
    /\ UNCHANGED <<closed, exit, current, endMarkerSeen, held, watermark,
                   groupVars, streamVars, turn, label, event, harnessVars,
                   asideVars>>

\* The check and the claim of the write slot are one critical section.  A
\* Send that finds a turn, another claim, the exit or the close returns an
\* error and changes nothing.
Reserve(s) ==
    /\ s \in setting
    /\ pc[s] = "idle"
    /\ ~closed
    /\ current = NoTurn
    /\ ~reserved
    /\ ~exit
    /\ begun < MaxTurns
    /\ PatientClients =>
         \A t \in Turns : Logged(Item(t, "pending")) => Ended(t)
    /\ reserved' = TRUE
    /\ Move(s, "ready")
    /\ UNCHANGED <<closed, exit, current, endMarkerSeen, held, watermark,
                   groupVars, streamVars, turn, label, event, harnessVars,
                   asideVars>>

\* waitReadyForSend: an idle harness at its prompt, a sign-in wall, or an
\* error (the context, the close, a dialog).
WaitReady(s) ==
    /\ pc[s] = "ready"
    /\ \/ running = NoTurn /\ Move(s, "begin")
       \/ Walls /\ Move(s, "wall")
       \/ Move(s, "release")
    /\ UNCHANGED <<stateVars, groupVars, streamVars, turn, label, event,
                   harnessVars, asideVars>>

\* Mutant: the sending group is not told.
BeginUncounted(s) ==
    /\ pc[s] = "begin"
    /\ current = NoTurn
    /\ ~exit
    /\ begun' = begun + 1
    /\ turn' = [turn EXCEPT ![s] = begun + 1]
    /\ Move(s, "user")
    /\ UNCHANGED <<stateVars, groupVars, streamVars, label, event, harnessVars,
                   submitted, heldTurns, setting>>

\* beginTurn's first critical section.
Begin(s) ==
    /\ pc[s] = "begin"
    /\ \/ /\ current # NoTurn \/ exit
          /\ Move(s, "release")
          /\ UNCHANGED <<sending, turn, begun>>
       \/ /\ current = NoTurn
          /\ ~exit
          /\ sending' = sending + 1
          /\ begun' = begun + 1
          /\ turn' = [turn EXCEPT ![s] = begun + 1]
          /\ Move(s, "user")
    /\ UNCHANGED <<stateVars, ending, streamVars, label, event, harnessVars,
                   submitted, heldTurns, setting>>

\* store.AppendTurn, then emit; a store error ends the Send and lets go of
\* the sending group.
Announce(s, at, state, next) ==
    /\ pc[s] = at
    /\ \/ /\ Emit(Item(turn[s], state))
          /\ Move(s, next)
          /\ UNCHANGED sending
       \/ /\ Move(s, "release")
          /\ sending' = IF at \in {"user", "assistant"} THEN sending - 1
                        ELSE sending
          /\ UNCHANGED streamVars
    /\ UNCHANGED <<stateVars, ending, turn, label, event, harnessVars,
                   asideVars>>

\* beginTurn's last critical section: the turn is in flight.
SetCurrent(s) ==
    /\ pc[s] = "set"
    /\ current' = turn[s]
    /\ endMarkerSeen' = FALSE
    /\ held' = FALSE
    /\ sending' = sending - 1
    /\ Move(s, "submit")
    /\ UNCHANGED <<closed, exit, reserved, watermark, ending, streamVars, turn,
                   label, event, harnessVars, asideVars>>

\* Mutant: the watermark of a fresh session is used for every turn.
SubmitFromStart(s) ==
    /\ pc[s] = "submit"
    /\ watermark' = 0
    /\ Move(s, "write")
    /\ UNCHANGED <<closed, exit, current, reserved, endMarkerSeen, held,
                   groupVars, streamVars, turn, label, event, harnessVars,
                   asideVars>>

\* The submit lock, then captureTranscriptWatermark; either may fail.
Submit(s) ==
    /\ pc[s] = "submit"
    /\ \/ Move(s, "fail") /\ UNCHANGED watermark
       \/ watermark' \in {Len(transcript), Unknown} /\ Move(s, "write")
    /\ UNCHANGED <<closed, exit, current, reserved, endMarkerSeen, held,
                   groupVars, streamVars, turn, label, event, harnessVars,
                   asideVars>>

\* writeMessageAndSubmit: the harness takes the prompt or swallows it, and its
\* echo goes below every older marker; or the write fails.
Write(s) ==
    /\ pc[s] = "write"
    /\ \/ /\ alive
          /\ submitted' = submitted \cup {turn[s]}
          /\ running' \in {running, turn[s]}
          /\ stopped' = NoTurn
          /\ Move(s, "release")
       \/ /\ Move(s, "fail")
          /\ UNCHANGED <<submitted, running, stopped>>
    /\ UNCHANGED <<stateVars, groupVars, streamVars, turn, label, event, alive,
                   screenQ, statusQ, transcript, begun, heldTurns, setting>>

\* Mutant: the turn is ended whatever ended it first.
FailSubmitAlways(s) ==
    /\ pc[s] = "fail"
    /\ current' = NoTurn
    /\ ending' = ending + 1
    /\ Settle(s, "errored")
    /\ Move(s, "publish")
    /\ UNCHANGED <<closed, exit, reserved, endMarkerSeen, held, watermark,
                   sending, streamVars, turn, event, harnessVars, asideVars>>

\* failSubmit ends the turn only if it is still this one.
FailSubmit(s) ==
    /\ pc[s] = "fail"
    /\ \/ /\ current = turn[s]
          /\ Claim(s)
          /\ Settle(s, "errored")
          /\ Move(s, "publish")
       \/ /\ current # turn[s]
          /\ Move(s, "release")
          /\ UNCHANGED <<current, turn, ending, label>>
    /\ UNCHANGED <<closed, exit, reserved, endMarkerSeen, held, watermark,
                   sending, streamVars, event, harnessVars, asideVars>>

\* emitAuthRequiredTurn forgets the watermark and records a finished turn.
HitWall(s) ==
    /\ pc[s] = "wall"
    /\ begun' = begun + 1
    /\ turn' = [turn EXCEPT ![s] = begun + 1]
    /\ watermark' = Unknown
    /\ Move(s, "walluser")
    /\ UNCHANGED <<closed, exit, current, reserved, endMarkerSeen, held,
                   groupVars, streamVars, label, event, harnessVars, submitted,
                   heldTurns, setting>>

\* releaseHarnessWrite, deferred by Send.
Release(s) ==
    /\ pc[s] = "release"
    /\ reserved' = FALSE
    /\ turn' = [turn EXCEPT ![s] = NoTurn]
    /\ Move(s, "idle")
    /\ UNCHANGED <<closed, exit, current, endMarkerSeen, held, watermark,
                   groupVars, streamVars, label, event, harnessVars,
                   asideVars>>

Send(s) ==
    \/ Reserve(s) \/ WaitReady(s) \/ Begin(s)
    \/ Announce(s, "user", "user", "assistant")
    \/ Announce(s, "assistant", "pending", "set")
    \/ SetCurrent(s) \/ Submit(s) \/ Write(s) \/ FailSubmit(s)
    \/ pc[s] = "publish" /\ Publish(s, "release")
    \/ HitWall(s)
    \/ Announce(s, "walluser", "user", "wallassistant")
    \/ Announce(s, "wallassistant", "errored", "release")
    \/ Release(s)

-----------------------------------------------------------------------------
(* What a completed turn is relabelled to, on the loop and the idle watcher. *)

\* lastWordOfCurrentTurn and apiErrorVerdictFrom: the last entry at or beyond
\* the watermark decides.  "none" is always possible: a transcript that could
\* not be read, or a tag that maps to no verdict.
LastWords ==
    {"none"} \cup
    {w \in {"replied", "tagged"} :
        /\ watermark # Unknown
        /\ Len(transcript) > watermark
        /\ w = IF transcript[Len(transcript)].kind = "reply"
               THEN "replied" ELSE "tagged"}

\* relabelTerminal up to the lock heldRelabel takes: the harness's own tag,
\* or a wall on the screen, errors the turn.
Relabel(p) ==
    /\ pc[p] = "relabel"
    /\ \E word \in LastWords :
          \/ /\ word = "tagged" \/ Walls
             /\ Settle(p, "errored")
             /\ Move(p, "publish")
          \/ /\ word # "tagged"
             /\ Settle(p, IF word = "replied" THEN "replied" ELSE "none")
             /\ Move(p, "held")
    /\ UNCHANGED <<stateVars, groupVars, streamVars, turn, event, harnessVars,
                   asideVars>>

\* Mutant: what the turn was held on is forgotten.
HeldRelabelNever(p) ==
    /\ pc[p] = "held"
    /\ Settle(p, "complete")
    /\ Move(p, "publish")
    /\ UNCHANGED <<stateVars, groupVars, streamVars, turn, event, harnessVars,
                   asideVars>>

\* heldRelabel: a held turn without a reply on record ends errored.
HeldRelabel(p) ==
    /\ pc[p] = "held"
    /\ Settle(p, IF held /\ label[p] # "replied" THEN "errored" ELSE "complete")
    /\ Move(p, "publish")
    /\ UNCHANGED <<stateVars, groupVars, streamVars, turn, event, harnessVars,
                   asideVars>>

-----------------------------------------------------------------------------
(* The event loop.                                                         *)

\* handleTurnsEvent up to its claim: claude's end-of-turn marker is only
\* recorded on the turn in flight, a held conversation records a Blocked on
\* it, and the rest goes on to claim the turn.
Handle(e) ==
    \/ /\ e.kind \in {"marker", "waiting"}
       /\ IsClaude
       /\ current # NoTurn
       /\ endMarkerSeen' = TRUE
       /\ UNCHANGED <<held, heldTurns, pc, event>>
    \/ /\ e.kind = "blocked"
       /\ HoldsTurns
       /\ held' = (held \/ current # NoTurn)
       /\ heldTurns' = heldTurns \cup ({current} \ {NoTurn})
       /\ UNCHANGED <<endMarkerSeen, pc, event>>
    \/ /\ ~(e.kind \in {"marker", "waiting"} /\ IsClaude /\ current # NoTurn)
       /\ ~(e.kind = "blocked" /\ HoldsTurns)
       /\ event' = e
       /\ Move(Loop, "claim")
       /\ UNCHANGED <<endMarkerSeen, held, heldTurns>>

TakeScreen ==
    /\ pc[Loop] = "select"
    /\ screenQ # <<>>
    /\ screenQ' = Tail(screenQ)
    /\ Handle(Head(screenQ))
    /\ UNCHANGED <<closed, exit, current, reserved, watermark, groupVars,
                   streamVars, turn, label, alive, running, stopped, statusQ,
                   transcript, begun, submitted, setting>>

TakeStatus ==
    /\ pc[Loop] = "select"
    /\ statusQ # <<>>
    /\ statusQ' = Tail(statusQ)
    /\ Handle(Head(statusQ))
    /\ UNCHANGED <<closed, exit, current, reserved, watermark, groupVars,
                   streamVars, turn, label, alive, running, stopped, screenQ,
                   transcript, begun, submitted, setting>>

AfterEvent == IF event.final THEN "exit" ELSE "select"

\* handleTurnsEvent claims whatever turn is in flight by now.  A TurnComplete
\* read off the wrapper's status carries no snapshot and is not relabelled.
ClaimForEvent ==
    /\ pc[Loop] = "claim"
    /\ \/ /\ current = NoTurn
          /\ Move(Loop, AfterEvent)
          /\ event' = NoEvent
          /\ UNCHANGED <<current, turn, ending, label>>
       \/ /\ Claim(Loop)
          /\ Settle(Loop, CASE event.kind = "marker" -> "none"
                            [] event.kind = "waiting" -> "complete"
                            [] OTHER -> "errored")
          /\ Move(Loop, IF event.kind = "marker" THEN "relabel" ELSE "publish")
          /\ UNCHANGED event
    /\ UNCHANGED <<closed, exit, reserved, endMarkerSeen, held, watermark,
                   sending, streamVars, harnessVars, asideVars>>

\* exitWith records the exit: no Send begins a turn after this.
RecordExit ==
    /\ pc[Loop] = "exit"
    /\ exit' = TRUE
    /\ Move(Loop, "sending")
    /\ UNCHANGED <<closed, current, reserved, endMarkerSeen, held, watermark,
                   groupVars, streamVars, turn, label, event, harnessVars,
                   asideVars>>

\* Mutant: the exit does not wait for a Send that records its turn.
AwaitSendingNot ==
    /\ pc[Loop] = "sending"
    /\ \/ /\ Claim(Loop)
          /\ Settle(Loop, "errored")
          /\ Move(Loop, "lastpublish")
       \/ /\ current = NoTurn
          /\ Move(Loop, "ending")
          /\ UNCHANGED <<current, turn, ending, label>>
    /\ UNCHANGED <<closed, exit, reserved, endMarkerSeen, held, watermark,
                   sending, streamVars, event, harnessVars, asideVars>>

\* sending.Wait, then the turn the harness left in flight is claimed.
AwaitSending ==
    /\ pc[Loop] = "sending"
    /\ sending = 0
    /\ \/ /\ Claim(Loop)
          /\ Settle(Loop, "errored")
          /\ Move(Loop, "lastpublish")
       \/ /\ current = NoTurn
          /\ Move(Loop, "ending")
          /\ UNCHANGED <<current, turn, ending, label>>
    /\ UNCHANGED <<closed, exit, reserved, endMarkerSeen, held, watermark,
                   sending, streamVars, event, harnessVars, asideVars>>

\* Mutant: a harness that exits by itself is the only one announced.
AwaitEndingSilent ==
    /\ pc[Loop] = "ending"
    /\ ending = 0
    /\ log' = IF queue = "open" /\ ~closed
              THEN Append(log, Item(NoTurn, "exited")) ELSE log
    /\ queue' = IF queue = "open" THEN "ended" ELSE queue
    /\ Move(Loop, "stopped")
    /\ UNCHANGED <<stateVars, groupVars, dropped, turn, label, event, harnessVars,
                   asideVars>>

\* ending.Wait, then EventExited is pushed last.
AwaitEnding ==
    /\ pc[Loop] = "ending"
    /\ ending = 0
    /\ log' = IF queue = "open" THEN Append(log, Item(NoTurn, "exited")) ELSE log
    /\ queue' = IF queue = "open" THEN "ended" ELSE queue
    /\ Move(Loop, "stopped")
    /\ UNCHANGED <<stateVars, groupVars, dropped, turn, label, event, harnessVars,
                   asideVars>>

\* The loop's select may take the abandoned case instead.
LoopAbandoned ==
    /\ pc[Loop] = "select"
    /\ queue = "abandoned"
    /\ Move(Loop, "stopped")
    /\ UNCHANGED <<stateVars, groupVars, streamVars, turn, label, event,
                   harnessVars, asideVars>>

ConsumeWatcher ==
    \/ TakeScreen \/ TakeStatus \/ ClaimForEvent
    \/ Relabel(Loop) \/ HeldRelabel(Loop)
    \/ pc[Loop] = "publish" /\ Publish(Loop, AfterEvent)
    \/ RecordExit \/ AwaitSending
    \/ pc[Loop] = "lastpublish" /\ Publish(Loop, "ending")
    \/ AwaitEnding \/ LoopAbandoned

-----------------------------------------------------------------------------
(* The idle watcher.                                                       *)

\* maybeIdleComplete remembers the turn in flight.
IdleLook ==
    /\ pc[Idle] = "watch"
    /\ current # NoTurn
    /\ turn' = [turn EXCEPT ![Idle] = current]
    /\ Move(Idle, "check")
    /\ UNCHANGED <<stateVars, groupVars, streamVars, label, event, harnessVars,
                   asideVars>>

\* The screen has sat idle at the prompt for the gap, counted from StartedAt,
\* which beginTurn reads before it announces the turn.
Settled(t) == running = NoTurn /\ (SlowAnnounce \/ t \in submitted)

\* It reads the marker and the settled screen, or leaves the turn alone.
IdleCheck ==
    /\ pc[Idle] = "check"
    /\ \/ /\ Settled(turn[Idle])
          /\ Settle(Idle, IF endMarkerSeen THEN "marker" ELSE "fallback")
          /\ Move(Idle, "claim")
          /\ UNCHANGED turn
       \/ /\ ~Settled(turn[Idle])
          /\ turn' = [turn EXCEPT ![Idle] = NoTurn]
          /\ Move(Idle, "watch")
          /\ UNCHANGED label
    /\ UNCHANGED <<stateVars, groupVars, streamVars, event, harnessVars,
                   asideVars>>

\* The turn it remembered ended meanwhile.
IdleTooLate ==
    /\ pc[Idle] \in {"claim", "interrupted"}
    /\ current # turn[Idle]
    /\ turn' = [turn EXCEPT ![Idle] = NoTurn]
    /\ Settle(Idle, "none")
    /\ Move(Idle, "watch")
    /\ UNCHANGED <<stateVars, groupVars, streamVars, event, harnessVars,
                   asideVars>>

IdleClaim ==
    /\ pc[Idle] = "claim"
    /\ current = turn[Idle]
    /\ Claim(Idle)
    /\ endMarkerSeen' = FALSE
    /\ Move(Idle, "swallowed")
    /\ UNCHANGED <<closed, exit, reserved, held, watermark, sending, streamVars,
                   label, event, harnessVars, asideVars>>

\* Without a marker and with nothing held, the adapter may call the settled
\* screen a prompt that was never accepted.
IdleSwallowed ==
    /\ pc[Idle] = "swallowed"
    /\ \/ label[Idle] = "fallback" /\ ~held /\ Move(Idle, "proof")
       \/ Move(Idle, "relabel")
    /\ UNCHANGED <<stateVars, groupVars, streamVars, turn, label, event,
                   harnessVars, asideVars>>

\* A reply at or beyond the watermark.
HasProof ==
    /\ watermark # Unknown
    /\ \E i \in watermark + 1 .. Len(transcript) : transcript[i].kind = "reply"

\* applySwallowedPromptVerdict: the transcript may overturn the screen.
IdleProof ==
    /\ pc[Idle] = "proof"
    /\ \/ HasProof /\ Settle(Idle, "proved")
       \/ Settle(Idle, "errored")
    /\ Move(Idle, "publish")
    /\ UNCHANGED <<stateVars, groupVars, streamVars, turn, event, harnessVars,
                   asideVars>>

\* observeInterrupt reads the turn in flight off a screen that shows it
\* interrupted; finishInterrupted takes it if it is still in flight.
ObserveInterrupt ==
    /\ pc[Idle] = "watch"
    /\ current # NoTurn
    /\ stopped = current
    /\ turn' = [turn EXCEPT ![Idle] = current]
    /\ Move(Idle, "interrupted")
    /\ UNCHANGED <<stateVars, groupVars, streamVars, label, event, harnessVars,
                   asideVars>>

FinishInterrupted ==
    /\ pc[Idle] = "interrupted"
    /\ current = turn[Idle]
    /\ Claim(Idle)
    /\ endMarkerSeen' = FALSE
    /\ held' = FALSE
    /\ Settle(Idle, "interrupted")
    /\ Move(Idle, "publish")
    /\ UNCHANGED <<closed, exit, reserved, watermark, sending, streamVars,
                   event, harnessVars, asideVars>>

IdleClosed ==
    /\ pc[Idle] = "watch"
    /\ closed
    /\ Move(Idle, "stopped")
    /\ UNCHANGED <<stateVars, groupVars, streamVars, turn, label, event,
                   harnessVars, asideVars>>

IdleWatcher ==
    \/ IdleLook \/ IdleCheck \/ IdleTooLate \/ IdleClaim \/ IdleSwallowed
    \/ Relabel(Idle) \/ HeldRelabel(Idle) \/ IdleProof
    \/ ObserveInterrupt \/ FinishInterrupted
    \/ pc[Idle] = "publish" /\ Publish(Idle, "watch")
    \/ IdleClosed

-----------------------------------------------------------------------------
(* Close, and the harness.                                                 *)

\* Close stops the harness; then it waits for the drain until its context
\* ends.
Close ==
    /\ ~closed
    /\ closed' = TRUE
    /\ UNCHANGED <<exit, current, reserved, endMarkerSeen, held, watermark,
                   groupVars, streamVars, procVars, harnessVars, asideVars>>

Abandon ==
    /\ closed
    /\ queue = "open"
    /\ queue' = "abandoned"
    /\ UNCHANGED <<stateVars, groupVars, log, dropped, procVars, harnessVars,
                   asideVars>>

NewEvent(kind) == [kind |-> kind, final |-> FALSE]

\* The harness at work writes an entry to its transcript.
HarnessWrites(kind) ==
    /\ running # NoTurn
    /\ Records
    /\ Len(transcript) < MaxEntries
    /\ transcript' = Append(transcript, [turn |-> running, kind |-> kind])
    /\ UNCHANGED <<stateVars, groupVars, streamVars, procVars, alive, running,
                   stopped, screenQ, statusQ, asideVars>>

\* It paints what an adapter reads as a TurnComplete, or the wrapper as a
\* classification, and works on.
HarnessShows(kind) ==
    /\ running # NoTurn
    /\ IF kind = "marker"
       THEN /\ Len(screenQ) < MaxEvents
            /\ screenQ' = Append(screenQ, NewEvent(kind))
            /\ UNCHANGED statusQ
       ELSE /\ Len(statusQ) < MaxEvents
            /\ statusQ' = Append(statusQ, NewEvent(kind))
            /\ UNCHANGED screenQ
    /\ UNCHANGED <<stateVars, groupVars, streamVars, procVars, alive, running,
                   stopped, transcript, asideVars>>

\* It ends the turn, with or without a marker anybody sees.
HarnessEnds(marker) ==
    /\ running # NoTurn
    /\ running' = NoTurn
    /\ marker => Len(screenQ) < MaxEvents
    /\ screenQ' = IF marker THEN Append(screenQ, NewEvent("marker")) ELSE screenQ
    /\ UNCHANGED <<stateVars, groupVars, streamVars, procVars, alive, stopped,
                   statusQ, transcript, asideVars>>

\* Somebody presses Esc at the terminal.
HarnessStopped ==
    /\ running # NoTurn
    /\ running' = NoTurn
    /\ stopped' = running
    /\ UNCHANGED <<stateVars, groupVars, streamVars, procVars, alive, screenQ,
                   statusQ, transcript, asideVars>>

\* It dies; the wrapper's last event is an exit, or without keep-alive the
\* classification that ended it.
HarnessDies(kind) ==
    /\ alive
    /\ alive' = FALSE
    /\ running' = NoTurn
    /\ statusQ' = Append(statusQ, [kind |-> kind, final |-> TRUE])
    /\ UNCHANGED <<stateVars, groupVars, streamVars, procVars, stopped, screenQ,
                   transcript, asideVars>>

Harness ==
    \/ \E kind \in {"reply", "error"} : HarnessWrites(kind)
    \/ \E kind \in Shows : HarnessShows(kind)
    \/ \E marker \in BOOLEAN : HarnessEnds(marker)
    \/ HarnessStopped
    \/ HarnessDies("errored")
    \/ ~HoldsTurns /\ HarnessDies("blocked")

\* Everything has returned and the conversation is closed.
Finished ==
    /\ closed
    /\ pc = [p \in Procs |-> IF p \in Senders THEN "idle" ELSE "stopped"]
    /\ UNCHANGED vars

-----------------------------------------------------------------------------
Init ==
    /\ closed = FALSE
    /\ exit = FALSE
    /\ current = NoTurn
    /\ reserved = FALSE
    /\ endMarkerSeen = FALSE
    /\ held = FALSE
    /\ watermark = Unknown
    /\ sending = 0
    /\ ending = 0
    /\ queue = "open"
    /\ log = <<>>
    /\ dropped = {}
    /\ pc = [p \in Procs |-> CASE p \in Senders -> "idle"
                               [] p = Loop -> "select"
                               [] p = Idle -> "watch"]
    /\ turn = [p \in Procs |-> NoTurn]
    /\ label = [p \in Procs |-> "none"]
    /\ event = NoEvent
    /\ alive = TRUE
    /\ running = NoTurn
    /\ stopped = NoTurn
    /\ screenQ = <<>>
    /\ statusQ = <<>>
    /\ transcript = <<>>
    /\ begun = 0
    /\ submitted = {}
    /\ heldTurns = {}
    /\ setting \in Settings

Next ==
    \/ \E s \in Senders : Send(s)
    \/ ConsumeWatcher
    \/ IdleWatcher
    \/ Close
    \/ Abandon
    \/ Harness
    \/ Finished

Spec == Init /\ [][Next]_vars

\* The goroutines run when they can; a working harness ends its turn, and one
\* that Close stopped dies.
SendGoesOn(s) == pc[s] # "idle" /\ Send(s)
StoppedDies == closed /\ HarnessDies("errored")

-----------------------------------------------------------------------------
(* What the conversation promises.                                         *)

\* A turn ends once: two goroutines may race to end it, but its terminal event
\* is emitted once and never before its pending one (ADR-008).
TerminalOnce ==
    \A j \in 1 .. Len(log) : log[j].state \in Terminal =>
        /\ \A i \in 1 .. Len(log) :
              log[i].turn = log[j].turn /\ log[i].state \in Terminal => i = j
        /\ \E i \in 1 .. j - 1 :
              /\ log[i].turn = log[j].turn
              /\ log[i].state \in IF Walls THEN {"user", "pending"}
                                  ELSE {"pending"}

\* EventExited is the last event, every turn announced as pending has ended
\* before it (exitWith waits for both groups), and the queue turns no event of a
\* turn away after it.  The turn emitAuthRequiredTurn makes for a sign-in wall is
\* in neither group, and its events may come too late.
ExitedIsLast ==
    /\ \A j \in 1 .. Len(log) : log[j].state = "exited" =>
          /\ j = Len(log)
          /\ \A t \in Turns : Logged(Item(t, "pending")) => Ended(t)
    /\ ~Walls => dropped = {}

\* A Send that types has the harness to itself: it is not working (ADR-006), and
\* no other Send that shares the control token is under way, from before its
\* readiness wait to its last key.
TypesAlone ==
    \A s \in Senders : pc[s] = "write" =>
        /\ running = NoTurn
        /\ \A r \in Senders \ {s} : pc[r] = "idle"

Replied(t) == \E i \in 1 .. Len(transcript) :
                 transcript[i] = [turn |-> t, kind |-> "reply"]

\* A turn a Blocked was recorded on ends as a success only when the harness's
\* own record shows a reply to it (heldRelabel).  It takes callers that send once
\* the last turn has ended: another's beginTurn clears what heldRelabel reads.
HeldNeedsReply ==
    \A t \in heldTurns : Logged(Item(t, "complete")) => Replied(t)

\* A prompt that looked swallowed counts as answered only on a reply the
\* harness recorded for it, never on an earlier turn's.
ProofIsOwn == \A t \in Turns : Logged(Item(t, "proved")) => Replied(t)

\* The events of a conversation tell each turn once, and all of it before the end.
TurnsEndOnce == TypeOK /\ TerminalOnce /\ ExitedIsLast

\* A turn in doubt, held or swallowed, succeeds only on a reply of its own.
SuccessIsReplied == HeldNeedsReply /\ ProofIsOwn

\* "nothing can end a turn that has not been submitted" (beginTurn) but the
\* harness's exit or a failed submit; in particular it does not succeed.
EndsOnlySubmitted ==
    \A t \in Turns : \A state \in {"complete", "proved", "interrupted"} :
        Logged(Item(t, state)) => t \in submitted

\* Every turn announced as pending ends, unless Close gave up on delivery.
Pending(t) == Logged(Item(t, "pending"))
Resolved(t) == Ended(t) \/ queue = "abandoned"

\* A closed conversation's stream ends with EventExited, or is given up.
Closing == closed
ExitTold == Logged(Item(NoTurn, "exited")) \/ queue = "abandoned"
=============================================================================
