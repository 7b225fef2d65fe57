---------------------------- MODULE MCInterrupt -----------------------------
(* Interrupt on a harness's terminal, extended for its assumptions and its  *)
(* theorems, and, one at a time, a conversation on claude's stream protocol *)
(* and the prompts and permission modes of a terminal.                      *)
EXTENDS Interrupt, TLC

CONSTANTS i1, i2, i3, j1, j2

VARIABLE part       \* the component followed
\* The state of the component followed, by position.
VARIABLES
    s1, s2, s3, s4, s5, s6, s7, s8, s9, s10, s11, s12, s13, s14, s15, s16, s17, s18, s19, s20,
    s21, s22, s23, s24

\* A person at the terminal; nobody there; nobody, and a composer that cannot be
\* read.
Alone == [people |-> FALSE, readable |-> FALSE, calls |-> 2]
ThreeSettings == {[people |-> TRUE, readable |-> TRUE, calls |-> 2],
                  [people |-> FALSE, readable |-> TRUE, calls |-> 2], Alone}

\* The callers of Interrupt on a stream.
Interrupters == {j1, j2}
CallerSymmetry == Permutations(Callers) \cup Permutations(Interrupters)

Streamed(turns, on) ==
    [turns |-> turns, caps |-> "caps" \in on, policy |-> "policy" \in on,
     givesUp |-> "givesUp" \in on, asks |-> "asks" \in on, dies |-> "dies" \in on,
     stores |-> "stores" \in on, stops |-> "stops" \in on]
Streams == { Streamed(2, {"caps", "givesUp"}), Streamed(2, {"caps", "dies", "stores"}),
             Streamed(2, {"caps", "asks", "policy"}), Streamed(2, {"caps", "asks"}),
             Streamed(1, {"caps", "asks", "dies", "stops"}), Streamed(1, {"stops"}) }

Terminal(modes, start, launch, policy, calls, on) ==
    [modes |-> modes, start |-> start, launch |-> launch, policy |-> policy, calls |-> calls,
     codex |-> "codex" \in on, slow |-> "slow" \in on, blind |-> "blind" \in on,
     asks |-> IF "asksTwice" \in on THEN 2 ELSE IF "asks" \in on THEN 1 ELSE 0, busy |-> "busy" \in on, ponders |-> "ponders" \in on]
Harnesses ==
    { Terminal(0 .. 4, 3, "bypass", 0, 2, {}), Terminal(0 .. 4, 3, "bypass", 2, 2, {}),
      Terminal(0 .. 4, 3, "bypass", 1, 2, {"ponders"}), Terminal(0 .. 2, 2, "plain", 0, 2, {}),
      Terminal(0 .. 2, 5, "plain", 0, 2, {}), Terminal(0 .. 1, 1, "plain", 0, 2, {"codex", "busy"}),
      Terminal(0 .. 2, 1, "plain", 0, 1, {"asksTwice"}), Terminal(0 .. 2, 1, "plain", 2, 1, {"asks"}),
      Terminal(0 .. 2, 1, "plain", 2, 0, {"asksTwice", "slow"}),
      Terminal(0 .. 2, 1, "plain", 2, 1, {"asks", "slow"}),
      Terminal(0 .. 4, 3, "bypass", 2, 1, {"slow"}), Terminal(0 .. 2, 1, "plain", 0, 1, {"blind"}) }

S == INSTANCE Stream WITH
    setting <- s1, cur <- s2, turn <- s3, ended <- s4, output <- s5, receipt <- s6, spc <- s7,
    sending <- s8, op <- s9, ipc <- s10, iop <- s11, control <- s12, perm <- s13, apc <- s14,
    asking <- s15, capsChecked <- s16, stdinClosed <- s17, closed <- s18, stopping <- s19,
    exit <- s20, wpc <- s21, cin <- s22, cout <- s23, claude <- s24, Settings <- Streams,
    MaxTurns <- 2, Callers <- Interrupters, PipeFrames <- 2
P == INSTANCE Prompts WITH
    mode <- s1, hidden <- s2, working <- s3, dialog <- s4, deaf <- s5, keys <- s6, screen <- s7,
    opened <- s8, resets <- s9, chosen <- s10, input <- s11, raisedOn <- s12, surfaced <- s13,
    answer <- s14, drive <- s15, result <- s16, wanted <- s17, late <- s18, taken <- s19,
    calls <- s20, setting <- s21, missed <- s22, MaxDialogs <- 2, MaxResets <- 1, Settings <- Harnesses

state == <<s1, s2, s3, s4, s5, s6, s7, s8, s9, s10, s11, s12, s13, s14, s15, s16, s17, s18, s19, s20,
           s21, s22, s23, s24>>
all == <<part, vars, state>>

OnInterrupt == part = "interrupt" /\ UNCHANGED <<part, state>>
OnS == part = "stream" /\ UNCHANGED <<part, vars>>
OnP == part = "prompts" /\ UNCHANGED <<part, vars, s23, s24>>

-----------------------------------------------------------------------------
\* Variables the component followed has no use for.
Unused(from) ==
    /\ (from < 1 => s1 = 0) /\ (from < 2 => s2 = 0) /\ (from < 3 => s3 = 0)
    /\ (from < 4 => s4 = 0) /\ (from < 5 => s5 = 0) /\ (from < 6 => s6 = 0)
    /\ (from < 7 => s7 = 0) /\ (from < 8 => s8 = 0) /\ (from < 9 => s9 = 0)
    /\ (from < 10 => s10 = 0) /\ (from < 11 => s11 = 0) /\ (from < 12 => s12 = 0)
    /\ (from < 13 => s13 = 0) /\ (from < 14 => s14 = 0) /\ (from < 15 => s15 = 0)
    /\ (from < 16 => s16 = 0) /\ (from < 17 => s17 = 0) /\ (from < 18 => s18 = 0)
    /\ (from < 19 => s19 = 0) /\ (from < 20 => s20 = 0) /\ (from < 21 => s21 = 0)
    /\ (from < 22 => s22 = 0) /\ (from < 23 => s23 = 0) /\ (from < 24 => s24 = 0)

AllInit ==
    /\ Init
    /\ \/ part = "interrupt" /\ Unused(0)
       \/ part = "stream" /\ S!Init /\ setting = Alone
       \/ part = "prompts" /\ P!Init /\ Unused(22) /\ setting = Alone

InterruptNext ==
    \/ (OnInterrupt /\ SendStart) \/ (OnInterrupt /\ SendCheck) \/ (OnInterrupt /\ SendClear)
    \/ (OnInterrupt /\ SendBegin) \/ (OnInterrupt /\ SendAccept) \/ (OnInterrupt /\ SendLock)
    \/ (OnInterrupt /\ SendText) \/ (OnInterrupt /\ SendKey) \/ (OnInterrupt /\ SendFail)
    \/ \E i \in Callers :
           \/ (OnInterrupt /\ InterruptClaim(i)) \/ (OnInterrupt /\ InterruptLock(i))
           \/ (OnInterrupt /\ InterruptLocked(i)) \/ (OnInterrupt /\ RunEnded(i))
           \/ (OnInterrupt /\ RunLook(i)) \/ (OnInterrupt /\ RunWrite(i))
           \/ (OnInterrupt /\ RunGiveUp(i)) \/ (OnInterrupt /\ RunClear(i))
           \/ (OnInterrupt /\ InterruptUnlock(i)) \/ (OnInterrupt /\ FinishOp(i))
           \/ (OnInterrupt /\ JoinWait(i))
    \/ (OnInterrupt /\ ObserveBusy) \/ (OnInterrupt /\ ObserveInterrupt)
    \/ (OnInterrupt /\ FinishInterrupted) \/ (OnInterrupt /\ IdleComplete)
    \/ (OnInterrupt /\ ReadKey) \/ (OnInterrupt /\ PaintMarker) \/ (OnInterrupt /\ Reply)
    \/ (OnInterrupt /\ PressEsc) \/ (OnInterrupt /\ LeaveDraft)

SNext ==
    \/ (OnS /\ S!SendBegins) \/ (OnS /\ S!SendRecords) \/ (OnS /\ S!SendRegisters)
    \/ (OnS /\ S!SendWrites) \/ (OnS /\ S!SendReturns) \/ (OnS /\ S!SendGivesUp)
    \/ (OnS /\ S!DropStreamTurn) \/ (OnS /\ S!FailSubmit)
    \/ \E c \in Interrupters :
           \/ (OnS /\ S!Interrupt(c)) \/ (OnS /\ S!ControlWrites(c))
           \/ (OnS /\ S!InterruptReturns(c))
    \/ (OnS /\ S!Answer) \/ (OnS /\ S!AnswerWrites) \/ (OnS /\ S!AnswerClears)
    \/ (OnS /\ S!WaitReaps) \/ (OnS /\ S!WaitFailsControls) \/ (OnS /\ S!WaitDropsTurn)
    \/ (OnS /\ S!ExitWith) \/ (OnS /\ S!ExitClaims) \/ (OnS /\ S!Quit) \/ (OnS /\ S!Close)
    \/ (OnS /\ S!StopStream) \/ (OnS /\ S!OnStreamLifecycle) \/ (OnS /\ S!OnStreamResult)
    \/ (OnS /\ S!OnStreamInit) \/ (OnS /\ S!OnStreamEvent) \/ (OnS /\ S!OnStreamControlRequest)
    \/ (OnS /\ S!OnControlResponse) \/ (OnS /\ S!ClaudeReads) \/ (OnS /\ S!ClaudeWorks)
    \/ (OnS /\ S!ClaudeExits)

PNext ==
    \/ (OnP /\ P!HarnessAsks) \/ (OnP /\ P!HarnessResets) \/ (OnP /\ P!HarnessPaints)
    \/ (OnP /\ P!HarnessTears) \/ (OnP /\ P!HarnessFinishes) \/ (OnP /\ P!HarnessReads)
    \/ \E row \in P!Rows : (OnP /\ P!Answer(row))
    \/ \E p \in P!Answerers : (OnP /\ P!AwaitsTarget(p))
    \/ \E p \in P!Answerers : (OnP /\ P!Confirms(p))
    \/ \E p \in P!Answerers : (OnP /\ P!AwaitsClose(p))
    \/ \E p \in P!Answerers : (OnP /\ P!Reanswers(p))
    \/ (OnP /\ P!HandleInputRequested) \/ (OnP /\ P!TryResolveInput)
    \/ (OnP /\ P!HandleInputResolved)
    \/ \E target \in 0 .. 4 : (OnP /\ P!SetPermissionMode(target))
    \/ (OnP /\ P!WaitReadyForSend) \/ (OnP /\ P!PressGate) \/ (OnP /\ P!Press)
    \/ (OnP /\ P!AwaitPostureChange) \/ (OnP /\ P!CallerGivesUp)

AllNext ==
    InterruptNext \/ SNext \/ PNext

AllSpec == AllInit /\ [][AllNext]_all

-----------------------------------------------------------------------------
\* On a stream a receipt is the message's own, an Interrupt reports what its turn
\* did, and one message in flight keeps each result its own turn's (stream.go).
StreamIsHonest ==
    part = "stream" => S!TypeOK /\ S!ReceiptIsOwn /\ S!InterruptIsHonest /\ S!OneInFlight

\* A turn of a stream ends once: its outcome, and its Interrupt's, stand.
StreamOutcomeStands == [][part = "stream" => S!OutcomeStands]_all

\* A dialog is answered with a row some answer asked for, however slow the
\* harness is; a permission switch leaves the harness where it says it did, and no
\* key of the mode cycle answers a dialog an earlier key opened or pressGate knew
\* of, while each key's budget outlasts its reading (answerAndConfirm,
\* SetPermissionMode).
KeysAreSafe ==
    part = "prompts" =>
        P!TypeOK /\ P!AnswerIsChosen /\ P!SwitchIsHonest /\ P!NeverPressesThrough
=============================================================================
