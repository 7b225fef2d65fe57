------------------------------ MODULE Interrupt ------------------------------
(***************************************************************************)
(* internal/chatcore/interrupt.go and submit.go: Interrupt, the submit     *)
(* lock it shares with Send, the interrupt reading of the idle watcher,    *)
(* and the harness's composer they all type into.                          *)
(*                                                                         *)
(* Keys reach the harness through its terminal, in order and some time     *)
(* later: input is what it has not read yet.  Everything read back comes   *)
(* off its screen.  Send's write claim lets one Send run at a time, so one *)
(* sender stands for all; module Conversation has the rest of its steps.   *)
(***************************************************************************)
EXTENDS Naturals, Sequences, FiniteSets

CONSTANTS
    Callers,          \* calls of Interrupt, one each
    MaxTurns,         \* bound on the turns ever begun
    ClearRounds,      \* composerClearRounds
    Settings          \* where a conversation may run: see setting

Sender == "send"
Watcher == "idle"
Procs == Callers \cup {Sender, Watcher}
Turns == 1 .. MaxTurns
None == 0
NoOne == "none"

ASSUME InterruptAssumption ==
    /\ IsFiniteSet(Callers)
    /\ Callers \cap {Sender, Watcher, NoOne} = {}
    /\ MaxTurns \in Nat
    /\ ClearRounds \in Nat
    /\ Settings \subseteq [people : BOOLEAN, readable : BOOLEAN, calls : Nat]

Draft == MaxTurns + 1    \* a person's text in the composer
Mixed == MaxTurns + 2    \* a prompt typed onto other text

VARIABLES
    current,        \* c.currentTurn
    begun,          \* turn ids given out
    accepted,       \* turnAccepted(): lastBusyAt is not before acceptAfter
    submit,         \* who holds the submit lock, NoOne
    op,             \* c.interrupt: the caller whose op is registered, NoOne
    pc,             \* where each process is
    opTurn,         \* op.turnID of each caller's op
    written,        \* op.written
    outcome,        \* op.outcome
    round,          \* rounds of clear keys clearComposer has written
    join,           \* the caller whose op a caller joined
    result,         \* what each caller's Interrupt returned
    seen,           \* the turn and outcome the watcher has read
    input,          \* keys the harness has not read yet
    composer,       \* what the composer holds, None when empty
    running,        \* the turn the harness works on
    replying,       \* it has produced output
    painted,        \* how the last turn on the screen ended there
    ended,          \* history: how each turn ended
    typed,          \* history: turns whose submit key was written
    setting         \* people: somebody is at the terminal, and leaves drafts and
                    \* presses Esc; readable: the composer can be read off every
                    \* screen; calls: a bound on the calls made.  It never changes.

turnVars == <<current, begun, accepted>>
lockVars == <<submit, op>>
callVars == <<opTurn, written, outcome, round, join, result>>
harnessVars == <<input, composer, running, replying, painted>>
asideVars == <<ended, typed, setting>>
vars == <<turnVars, lockVars, pc, callVars, seen, harnessVars, asideVars>>

Key == [key : {"text"}, turn : Turns] \cup [key : {"submit", "esc", "clear"}]
Outcome == {"none", "stopped", "cancelled", "finished"}
Result == {"none", "stopped", "cancelled", "notcleared", "noturn", "toolate",
           "unconfirmed"}

TypeOK ==
    /\ current \in 0 .. MaxTurns
    /\ begun \in 0 .. MaxTurns
    /\ accepted \in BOOLEAN
    /\ submit \in Callers \cup {Sender, NoOne}
    /\ op \in Callers \cup {NoOne}
    /\ pc[Sender] \in {"idle", "check", "clear", "begin", "accept", "lock",
                       "type", "key", "fail"}
    /\ pc[Watcher] \in {"watch", "finish"}
    /\ \A i \in Callers : pc[i] \in {"idle", "lock", "locked", "run", "write",
                                     "clear", "unlock", "finish", "join", "done"}
    /\ opTurn \in [Callers -> 0 .. MaxTurns]
    /\ written \in [Callers -> BOOLEAN]
    /\ outcome \in [Callers -> Outcome]
    /\ round \in [Procs -> 0 .. ClearRounds]
    /\ join \in [Callers -> Callers \cup {NoOne}]
    /\ result \in [Callers -> Result]
    /\ seen \in [turn : 0 .. MaxTurns, outcome : Outcome]
    /\ input \in Seq(Key)
    /\ composer \in 0 .. Mixed
    /\ running \in 0 .. MaxTurns
    /\ replying \in BOOLEAN
    /\ painted \in [turn : 0 .. MaxTurns, outcome : Outcome \cup {"cut"}]
    /\ ended \in [Turns -> {"no", "own", "interrupted"}]
    /\ typed \subseteq Turns
    /\ setting \in Settings

Move(p, at) == pc' = [pc EXCEPT ![p] = at]
Type(key) == input' = Append(input, key)

\* InterruptOutcome for turn t: "none" is pending.  Busy comes first, then the
\* composer, then the marker below the turn's own echo.
InterruptOutcome(t) ==
    IF running # None THEN "none"
    ELSE IF composer = t THEN "cancelled"
    ELSE IF painted.turn = t /\ painted.outcome # "cut" THEN painted.outcome
    ELSE "none"

-----------------------------------------------------------------------------
(* clearComposer, by process p, which holds the submit lock.  hint: the text *)
(* to clear is known without reading it (the prompt of a cancelled turn).  *)

Unreadable == ~setting.readable

\* Mutant: whatever the composer holds is taken for empty.
ClearedAlways(p, hint) == TRUE

Cleared(p, hint) == composer = None \/ (Unreadable /\ round[p] = 0 /\ ~hint)

\* Mutant: one round too many.
ClearRoundMore(p, hint) ==
    /\ round[p] <= ClearRounds
    /\ composer # None \/ (Unreadable /\ round[p] = 0 /\ hint)
    /\ round' = [round EXCEPT ![p] = @ + 1]
    /\ Type([key |-> "clear"])

\* One more round of clear keys, then a look at what they did: awaitRepaint
\* is bounded, so the look may come before the harness has read them.
ClearRound(p, hint) ==
    /\ round[p] < ClearRounds
    /\ composer # None \/ (Unreadable /\ round[p] = 0 /\ hint)
    /\ round' = [round EXCEPT ![p] = @ + 1]
    /\ Type([key |-> "clear"])

\* Out of rounds, the composer gone from the screen, or ctx over.
NotCleared(p) == composer # None \/ Unreadable \/ round[p] > 0

-----------------------------------------------------------------------------
(* Send, from its composer check to its submit key.                        *)

SendStart ==
    /\ pc[Sender] = "idle"
    /\ current = None
    /\ begun < MaxTurns
    /\ running = None /\ input = <<>>    \* waitReadyForSend
    /\ Move(Sender, "check")
    /\ UNCHANGED <<turnVars, lockVars, callVars, seen, harnessVars, asideVars>>

SendCheck ==
    /\ pc[Sender] = "check"
    /\ \/ /\ submit = NoOne
          /\ submit' = Sender
          /\ Move(Sender, "clear")
       \/ /\ Move(Sender, "idle")        \* ctx ended
          /\ UNCHANGED submit
    /\ round' = [round EXCEPT ![Sender] = 0]
    /\ UNCHANGED <<turnVars, op, opTurn, written, outcome, join, result, seen,
                   harnessVars, asideVars>>

SendClear ==
    /\ pc[Sender] = "clear"
    /\ \/ /\ Cleared(Sender, FALSE)
          /\ submit' = NoOne
          /\ Move(Sender, "begin")
          /\ UNCHANGED <<round, input>>
       \/ /\ ClearRound(Sender, FALSE)
          /\ UNCHANGED <<submit, pc>>
       \/ /\ NotCleared(Sender)
          /\ submit' = NoOne
          /\ Move(Sender, "idle")
          /\ UNCHANGED <<round, input>>
    /\ UNCHANGED <<turnVars, op, opTurn, written, outcome, join, result, seen,
                   composer, running, replying, painted, asideVars>>

\* beginTurn: the turn is in flight from here on.
SendBegin ==
    /\ pc[Sender] = "begin"
    /\ begun' = begun + 1
    /\ current' = begun + 1
    /\ Move(Sender, "accept")
    /\ UNCHANGED <<accepted, lockVars, callVars, seen, harnessVars, asideVars>>

\* acceptAfter: only a harness seen working later has taken this prompt.
SendAccept ==
    /\ pc[Sender] = "accept"
    /\ accepted' = FALSE
    /\ Move(Sender, "lock")
    /\ UNCHANGED <<current, begun, lockVars, callVars, seen, harnessVars,
                   asideVars>>

SendLock ==
    /\ pc[Sender] = "lock"
    /\ \/ /\ submit = NoOne
          /\ submit' = Sender
          /\ Move(Sender, "type")
       \/ /\ Move(Sender, "fail")
          /\ UNCHANGED submit
    /\ UNCHANGED <<turnVars, op, callVars, seen, harnessVars, asideVars>>

\* The prompt's text, then a wait for its echo; the write may fail.
SendText ==
    /\ pc[Sender] = "type"
    /\ \/ /\ Type([key |-> "text", turn |-> begun])
          /\ Move(Sender, "key")
          /\ UNCHANGED submit
       \/ /\ submit' = NoOne
          /\ Move(Sender, "fail")
          /\ UNCHANGED input
    /\ UNCHANGED <<turnVars, op, callVars, seen, composer, running, replying,
                   painted, asideVars>>

\* The submit key; the wait for the echo may end with ctx instead.
SendKey ==
    /\ pc[Sender] = "key"
    /\ submit' = NoOne
    /\ \/ /\ Type([key |-> "submit"])
          /\ typed' = typed \cup {begun}
          /\ Move(Sender, "idle")
       \/ /\ Move(Sender, "fail")
          /\ UNCHANGED <<input, typed>>
    /\ UNCHANGED <<turnVars, op, callVars, seen, composer, running, replying,
                   painted, ended, setting>>

\* failSubmit: the turn ends, unless it already has.
SendFail ==
    /\ pc[Sender] = "fail"
    /\ current' = IF current = begun THEN None ELSE current
    /\ ended' = IF current = begun THEN [ended EXCEPT ![begun] = "own"] ELSE ended
    /\ Move(Sender, "idle")
    /\ UNCHANGED <<begun, accepted, lockVars, callVars, seen, harnessVars, typed,
                   setting>>

-----------------------------------------------------------------------------
(* Interrupt, called once by each caller.                                  *)

\* Mutant: the op of the turn in flight is not looked for.
JoinsNever(i) == FALSE

\* claimInterrupt found an op for the turn in flight: wait for its result.
Joins(i) == current # None /\ op # NoOne /\ opTurn[op] = current

\* claimInterrupt registered a new op for the turn in flight.
Registers(i) == current # None /\ ~Joins(i)

JoinOp(i) ==
    /\ Joins(i)
    /\ join' = [join EXCEPT ![i] = op]
    /\ Move(i, "join")
    /\ UNCHANGED <<op, opTurn>>

RegisterOp(i, next) ==
    /\ Registers(i)
    /\ op' = i
    /\ opTurn' = [opTurn EXCEPT ![i] = current]
    /\ Move(i, next)
    /\ UNCHANGED join

InterruptClaim(i) ==
    /\ pc[i] = "idle"
    /\ Cardinality({j \in Callers : pc[j] # "idle"}) < setting.calls
    /\ \/ JoinOp(i)
       \/ RegisterOp(i, "lock")
       \/ /\ current = None
          /\ Move(i, "lock")
          /\ UNCHANGED <<op, opTurn, join>>
    /\ UNCHANGED <<turnVars, submit, written, outcome, round, result, seen,
                   harnessVars, asideVars>>

\* Mutant: the keys are not kept apart from a Send's.
InterruptLockNone(i) ==
    /\ pc[i] = "lock"
    /\ Move(i, "locked")
    /\ UNCHANGED <<turnVars, lockVars, callVars, seen, harnessVars, asideVars>>

InterruptLock(i) ==
    /\ pc[i] = "lock"
    /\ \/ /\ submit = NoOne
          /\ submit' = i
          /\ Move(i, "locked")
          /\ UNCHANGED result
       \/ /\ result' = [result EXCEPT ![i] = "unconfirmed"]    \* ctx ended
          /\ Move(i, IF opTurn[i] = None THEN "done" ELSE "finish")
          /\ UNCHANGED submit
    /\ UNCHANGED <<turnVars, op, opTurn, written, outcome, round, join, seen,
                   harnessVars, asideVars>>

\* With no turn in flight before the lock, a Send may have begun one since.
InterruptLocked(i) ==
    /\ pc[i] = "locked"
    /\ \/ /\ opTurn[i] # None
          /\ Move(i, "run")
          /\ UNCHANGED <<submit, op, opTurn, join, result>>
       \/ /\ opTurn[i] = None
          /\ RegisterOp(i, "run")
          /\ UNCHANGED <<submit, result>>
       \/ /\ opTurn[i] = None
          /\ JoinOp(i)
          /\ submit' = NoOne
          /\ UNCHANGED result
       \/ /\ opTurn[i] = None
          /\ current = None
          /\ submit' = NoOne
          /\ result' = [result EXCEPT ![i] = "noturn"]
          /\ Move(i, "done")
          /\ UNCHANGED <<op, opTurn, join>>
    /\ UNCHANGED <<turnVars, written, outcome, round, seen, harnessVars,
                   asideVars>>

\* interruptEnded: the turn is over, and how.
RunEnded(i) ==
    /\ pc[i] = "run"
    /\ current # opTurn[i]
    /\ IF outcome[i] = "cancelled"
       THEN Move(i, "clear") /\ UNCHANGED result
       ELSE /\ Move(i, "unlock")
            /\ result' = [result EXCEPT ![i] =
                             IF outcome[i] = "none" THEN "toolate" ELSE outcome[i]]
    /\ UNCHANGED <<turnVars, lockVars, opTurn, written, outcome, round, join, seen,
                   harnessVars, asideVars>>

\* A look at the screen: the harness has taken the prompt, and does not show
\* that the turn is over.
RunLook(i) ==
    /\ pc[i] = "run"
    /\ current = opTurn[i]
    /\ ~written[i]
    /\ accepted' = (accepted \/ running # None)
    /\ \/ /\ accepted'
          /\ InterruptOutcome(current) = "none" \/ Unreadable
          /\ Move(i, "write")
       \/ /\ ~accepted'
          /\ UNCHANGED pc
    /\ UNCHANGED <<current, begun, lockVars, callVars, seen, harnessVars,
                   asideVars>>

\* writeInterrupt; the write may fail.
RunWrite(i) ==
    /\ pc[i] = "write"
    /\ written' = [written EXCEPT ![i] = TRUE]
    /\ \/ /\ Type([key |-> "esc"])
          /\ Move(i, "run")
          /\ UNCHANGED result
       \/ /\ result' = [result EXCEPT ![i] = "unconfirmed"]
          /\ Move(i, "unlock")
          /\ UNCHANGED input
    /\ UNCHANGED <<turnVars, lockVars, opTurn, outcome, round, join, seen, composer,
                   running, replying, painted, asideVars>>

\* ctx ends before the harness has answered.
RunGiveUp(i) ==
    /\ pc[i] = "run"
    /\ current = opTurn[i]
    /\ result' = [result EXCEPT ![i] = "unconfirmed"]
    /\ Move(i, "unlock")
    /\ UNCHANGED <<turnVars, lockVars, opTurn, written, outcome, round, join, seen,
                   harnessVars, asideVars>>

\* After a cancel the prompt is back in the composer: clear it.
RunClear(i) ==
    /\ pc[i] = "clear"
    /\ \/ /\ Cleared(i, TRUE)
          /\ result' = [result EXCEPT ![i] = "cancelled"]
          /\ Move(i, "unlock")
          /\ UNCHANGED <<round, input>>
       \/ /\ ClearRound(i, TRUE)
          /\ UNCHANGED <<pc, result>>
       \/ /\ NotCleared(i)
          /\ result' = [result EXCEPT ![i] = "notcleared"]
          /\ Move(i, "unlock")
          /\ UNCHANGED <<round, input>>
    /\ UNCHANGED <<turnVars, lockVars, opTurn, written, outcome, join, seen, composer,
                   running, replying, painted, asideVars>>

InterruptUnlock(i) ==
    /\ pc[i] = "unlock"
    /\ submit' = NoOne
    /\ Move(i, "finish")
    /\ UNCHANGED <<turnVars, op, callVars, seen, harnessVars, asideVars>>

\* finishInterruptOp: done is closed, and the op no longer registered.
FinishOp(i) ==
    /\ pc[i] = "finish"
    /\ op' = IF op = i THEN NoOne ELSE op
    /\ Move(i, "done")
    /\ UNCHANGED <<turnVars, submit, callVars, seen, harnessVars, asideVars>>

\* op.wait: the joined op's result, or ctx ends.
JoinWait(i) ==
    /\ pc[i] = "join"
    /\ \/ /\ pc[join[i]] = "done"
          /\ result' = [result EXCEPT ![i] = result[join[i]]]
       \/ result' = [result EXCEPT ![i] = "unconfirmed"]
    /\ Move(i, "done")
    /\ UNCHANGED <<turnVars, lockVars, opTurn, written, outcome, round, join, seen,
                   harnessVars, asideVars>>

-----------------------------------------------------------------------------
(* The idle watcher, on a repaint.                                         *)

ObserveBusy ==
    /\ running # None
    /\ ~accepted
    /\ accepted' = TRUE
    /\ UNCHANGED <<current, begun, lockVars, pc, callVars, seen, harnessVars,
                   asideVars>>

\* observeInterrupt: the screen shows the turn in flight interrupted.
ObserveInterrupt ==
    /\ pc[Watcher] = "watch"
    /\ current # None
    /\ accepted
    /\ InterruptOutcome(current) \in {"stopped", "cancelled"}
    /\ seen' = [turn |-> current, outcome |-> InterruptOutcome(current)]
    /\ Move(Watcher, "finish")
    /\ UNCHANGED <<turnVars, lockVars, callVars, harnessVars, asideVars>>

\* Mutant: the op is not told how the turn ended.
FinishInterruptedSilent ==
    /\ pc[Watcher] = "finish"
    /\ Move(Watcher, "watch")
    /\ seen' = [turn |-> None, outcome |-> "none"]
    /\ IF current = seen.turn
       THEN current' = None /\ ended' = [ended EXCEPT ![seen.turn] = "interrupted"]
       ELSE UNCHANGED <<current, ended>>
    /\ UNCHANGED <<begun, accepted, lockVars, callVars, harnessVars, typed, setting>>

\* finishInterrupted: end the turn the reading was of, unless it has ended.
FinishInterrupted ==
    /\ pc[Watcher] = "finish"
    /\ Move(Watcher, "watch")
    /\ seen' = [turn |-> None, outcome |-> "none"]
    /\ IF current = seen.turn
       THEN /\ current' = None
            /\ ended' = [ended EXCEPT ![seen.turn] = "interrupted"]
            /\ outcome' = IF op # NoOne /\ opTurn[op] = seen.turn
                          THEN [outcome EXCEPT ![op] = seen.outcome]
                          ELSE outcome
       ELSE UNCHANGED <<current, ended, outcome>>
    /\ UNCHANGED <<begun, accepted, lockVars, opTurn, written, round, join, result,
                   harnessVars, typed, setting>>

\* Mutant: the idle fallback does not hold off for an interrupt.
InterruptInFlightNever(t) == FALSE

\* interruptInFlight: keys went out for turn t and the harness has not answered.
InterruptInFlight(t) == op # NoOne /\ opTurn[op] = t /\ written[op]

\* maybeIdleComplete: the screen settled with the turn's own end on it, or long
\* enough without one.  A turn not typed yet waits that long only behind an
\* Interrupt holding the submit lock; an answer to an interrupt is a repaint,
\* read by ObserveInterrupt before the screen can settle.  Its look and its claim
\* are apart in module Conversation; here they are one step.
IdleComplete ==
    /\ pc[Watcher] = "watch"
    /\ current # None
    /\ running = None /\ input = <<>>
    /\ current \in typed \/ submit \in Callers
    /\ LET shown == InterruptOutcome(current)
       IN /\ shown = "finished" \/ ~InterruptInFlight(current)
          /\ shown \notin {"stopped", "cancelled"} \/ ~accepted
    /\ current' = None
    /\ ended' = [ended EXCEPT ![current] = "own"]
    /\ UNCHANGED <<begun, accepted, lockVars, pc, callVars, seen, harnessVars, typed,
                   setting>>

-----------------------------------------------------------------------------
(* The harness and the person at its terminal.                             *)

\* What the harness does with an Esc: put the prompt of a turn without output
\* back in the composer, stop one that has some, nothing otherwise.
Esc ==
    /\ running' = None
    /\ replying' = FALSE
    /\ composer' = IF running # None /\ ~replying THEN running ELSE composer
    /\ painted' = IF running # None /\ replying
                  THEN [turn |-> running, outcome |-> "cut"] ELSE painted

\* The marker of a stopped turn, painted some time after the reply was cut.
PaintMarker ==
    /\ painted.outcome = "cut"
    /\ painted' = [painted EXCEPT !.outcome = "stopped"]
    /\ UNCHANGED <<turnVars, lockVars, pc, callVars, seen, input, composer, running,
                   replying, asideVars>>

\* Submitting what the composer holds starts the turn of its prompt, unless the
\* key is swallowed.
TakeSubmit ==
    \/ /\ composer \in Turns
       /\ running' = composer
       /\ composer' = None
       /\ replying' = FALSE
       /\ painted' = [turn |-> composer, outcome |-> "none"]
    \/ UNCHANGED <<composer, running, replying, painted>>

ReadKey ==
    /\ input # <<>>
    /\ input' = Tail(input)
    /\ LET k == Head(input)
       IN \/ /\ k.key = "text"
             /\ composer' = IF composer = None THEN k.turn ELSE Mixed
             /\ UNCHANGED <<running, replying, painted>>
          \/ k.key = "submit" /\ TakeSubmit
          \/ k.key = "esc" /\ Esc
          \/ /\ k.key = "clear"
             /\ composer' \in {None, composer}
             /\ UNCHANGED <<running, replying, painted>>
    /\ UNCHANGED <<turnVars, lockVars, pc, callVars, seen, asideVars>>

Reply ==
    /\ running # None
    /\ \/ /\ replying' = TRUE
          /\ UNCHANGED <<running, painted>>
       \/ /\ running' = None
          /\ replying' = FALSE
          /\ painted' = [turn |-> running, outcome |-> "finished"]
    /\ UNCHANGED <<turnVars, lockVars, pc, callVars, seen, input, composer,
                   asideVars>>

PressEsc ==
    /\ setting.people
    /\ running # None
    /\ Esc
    /\ UNCHANGED <<turnVars, lockVars, pc, callVars, seen, input, asideVars>>

\* Somebody leaves a draft behind; they do not type while a Send is at work.
LeaveDraft ==
    /\ setting.people
    /\ composer = None
    /\ running = None
    /\ pc[Sender] = "idle"
    /\ input = <<>>
    /\ composer' = Draft
    /\ UNCHANGED <<turnVars, lockVars, pc, callVars, seen, input, running, replying,
                   painted, asideVars>>

-----------------------------------------------------------------------------
Init ==
    /\ current = None
    /\ begun = 0
    /\ accepted = FALSE
    /\ submit = NoOne
    /\ op = NoOne
    /\ pc = [p \in Procs |-> IF p = Watcher THEN "watch" ELSE "idle"]
    /\ opTurn = [i \in Callers |-> None]
    /\ written = [i \in Callers |-> FALSE]
    /\ outcome = [i \in Callers |-> "none"]
    /\ round = [p \in Procs |-> 0]
    /\ join = [i \in Callers |-> NoOne]
    /\ result = [i \in Callers |-> "none"]
    /\ seen = [turn |-> None, outcome |-> "none"]
    /\ input = <<>>
    /\ composer = None
    /\ running = None
    /\ replying = FALSE
    /\ painted = [turn |-> None, outcome |-> "none"]
    /\ ended = [t \in Turns |-> "no"]
    /\ typed = {}
    /\ setting \in Settings

Send == \/ SendStart \/ SendCheck \/ SendClear \/ SendBegin \/ SendAccept
        \/ SendLock \/ SendText \/ SendKey \/ SendFail

InterruptStep(i) ==
    \/ InterruptClaim(i) \/ InterruptLock(i) \/ InterruptLocked(i)
    \/ RunEnded(i) \/ RunLook(i) \/ RunWrite(i) \/ RunGiveUp(i) \/ RunClear(i)
    \/ InterruptUnlock(i) \/ FinishOp(i) \/ JoinWait(i)

Idle == ObserveBusy \/ ObserveInterrupt \/ FinishInterrupted \/ IdleComplete

Harness == ReadKey \/ PaintMarker \/ Reply \/ PressEsc \/ LeaveDraft

Next == Send \/ (\E i \in Callers : InterruptStep(i)) \/ Idle \/ Harness

Spec == Init /\ [][Next]_vars

-----------------------------------------------------------------------------
(* Properties.                                                             *)

\* "Type into an empty composer only" (Send): a prompt never becomes part of
\* other text, neither a draft nor the prompt a cancelled turn put back, whoever
\* takes the submit lock between Send's check and its keystrokes.  A composer no
\* adapter can read is not checked, and promises nothing.
PromptsNotMixed == setting.readable => composer # Mixed

\* "The prompt and its submit key must not interleave with an Interrupt's keys":
\* no Esc is written while Send is between the two.
EscOutsideSubmit ==
    [][\A i \in Callers : written'[i] # written[i] => pc[Sender] # "key"]_vars

\* A second Interrupt for the same turn joins the first: no two calls ever drive
\* interrupts of one turn, however their claims, turns ending and turns beginning
\* interleave.
OneInterruptPerTurn ==
    \A i, j \in Callers :
        /\ i # j
        /\ {pc[i], pc[j]} \subseteq {"lock", "locked", "run", "write", "clear",
                                     "unlock", "finish"}
        => opTurn[i] = None \/ opTurn[i] # opTurn[j]

\* What Interrupt returns is how the turn really ended: stopped and cancelled
\* for a turn reported interrupted, too late for one that ended its own way.
ResultTruthful ==
    \A i \in Callers :
        LET t == IF join[i] = NoOne THEN opTurn[i] ELSE opTurn[join[i]]
        IN /\ result[i] \in {"stopped", "cancelled", "notcleared"}
                => ended[t] = "interrupted"
           /\ result[i] = "toolate" => ended[t] = "own"

\* The idle fallback holds off for an interrupt that awaits its answer: a turn the
\* harness cut short for an Interrupt is not passed off as having ended its own
\* way, even when the screen settles before the marker is painted.  (An Esc pressed
\* at the terminal, or written by a call that gave up before the harness read it,
\* gives the fallback nothing to hold off for until the next call has written its own.)
CutIsNotComplete ==
    \A i \in Callers :
        /\ ~setting.people
        /\ written[i] /\ result[i] = "toolate"
        /\ \A j \in Callers : opTurn[j] = opTurn[i] /\ written[j] => result[j] # "unconfirmed"
        => painted.turn # opTurn[i] \/ painted.outcome \notin {"cut", "stopped"}

\* What Interrupt and Send tell their callers is what happened on the terminal.
InterruptIsTrue == TypeOK /\ PromptsNotMixed /\ ResultTruthful /\ CutIsNotComplete

=============================================================================
