---------------------------- MODULE MCHarnesses -----------------------------
(* The index of claude's prompts, extended for its theorem, and, one at a   *)
(* time, the sessions of the claude, pi and claude terminal adapters.       *)
EXTENDS MarkerIndex

VARIABLE part       \* the component followed
\* The state of the component followed, by position.
VARIABLES
    s1, s2, s3, s4, s5, s6, s7, s8, s9, s10, s11, s12, s13, s14, s15, s16, s17, s18, s19, s20,
    s21, s22, s23, s24, s25

ClaudeRun(on) ==
    [own |-> "own" \in on, gated |-> "gated" \in on, refuses |-> "refuses" \in on,
     foreign |-> "foreign" \in on, dies |-> "dies" \in on, interrupts |-> "interrupts" \in on,
     slow |-> "slow" \in on, lacks |-> "lacks" \in on]
ClaudeRuns == { ClaudeRun({"own", "gated"}), ClaudeRun({"gated", "interrupts"}),
                ClaudeRun({"own", "dies", "slow"}), ClaudeRun({"foreign"}), ClaudeRun({"lacks", "own"}),
                ClaudeRun({"refuses", "interrupts", "own"}) }

PiRun(inputs, retries, on) ==
    [inputs |-> inputs, retries |-> retries, refuses |-> "refuses" \in on, dies |-> "dies" \in on,
     interrupts |-> "interrupts" \in on, slow |-> "slow" \in on, restarts |-> "restarts" \in on]
PiRuns == { PiRun(2, 0, {"interrupts"}), PiRun(1, 1, {"interrupts", "restarts"}),
            PiRun(2, 0, {"dies", "restarts"}), PiRun(1, 1, {"dies", "restarts"}),
            PiRun(2, 1, {"refuses", "slow"}) }

TuiRun == [inputs |-> 1, own |-> 0, asks |-> 0, errors |-> 0, faults |-> 0, readable |-> TRUE,
           continues |-> FALSE, dies |-> FALSE, interrupts |-> FALSE]
TuiRuns ==
    { [TuiRun EXCEPT !.inputs = 2, !.interrupts = TRUE],  \* the prompt put back, then typed over
      [TuiRun EXCEPT !.inputs = 2, !.own = 1],            \* a turn of claude's own beside the inputs
      [TuiRun EXCEPT !.own = 1, !.interrupts = TRUE],     \* Esc between a turn and claude's own
      [TuiRun EXCEPT !.asks = 1, !.faults = 1],           \* a prompt, and the ways it is lost
      [TuiRun EXCEPT !.asks = 2],                         \* prompts raised one at a time
      [TuiRun EXCEPT !.asks = 1, !.interrupts = TRUE],
      [TuiRun EXCEPT !.readable = FALSE, !.errors = 2, !.dies = TRUE] }

Claude == INSTANCE ClaudeTransport WITH
    setting <- s1, turn <- s2, own <- s3, task <- s4, capsDone <- s5, foreign <- s6,
    receipts <- s7, asks <- s8, spc <- s9, sent <- s10, result <- s11, ipc <- s12, iof <- s13,
    asked <- s14, rep <- s15, ownRep <- s16, prompts <- s17, stopping <- s18, stdinClosed <- s19,
    exited <- s20, cin <- s21, cout <- s22, claude <- s23, ran <- s24, decided <- s25,
    Settings <- ClaudeRuns, MaxInputs <- 2, MaxTasks <- 2, MaxAsks <- 2, PipeFrames <- 2
Pi == INSTANCE PiSession WITH
    setting <- s1, turn <- s2, spc <- s3, sent <- s4, result <- s5, ipc <- s6, iof <- s7,
    asked <- s8, notes <- s9, rep <- s10, stopping <- s11, stdinClosed <- s12, exited <- s13,
    reader <- s14, recorded <- s15, restarts <- s16, cin <- s17, cout <- s18, pi <- s19,
    file <- s20, strays <- s21, Settings <- PiRuns, MaxInputs <- 2, MaxRestarts <- 1,
    PipeFrames <- 2
Tui == INSTANCE TuiSession WITH
    setting <- s1, proc <- s2, k <- s3, read <- s4, sub <- s5, intr <- s6, results <- s7,
    reports <- s8, pending <- s9, keys <- s10, log <- s11, events <- s12, turns <- s13,
    asks <- s14, claude <- s15, Settings <- TuiRuns, MaxInputs <- 2

state == <<s1, s2, s3, s4, s5, s6, s7, s8, s9, s10, s11, s12, s13, s14, s15, s16, s17, s18, s19, s20,
           s21, s22, s23, s24, s25>>
all == <<part, vars, state>>

OnIndex == part = "index" /\ UNCHANGED <<part, state>>
OnClaude == part = "claude" /\ UNCHANGED <<part, vars>>
OnPi == part = "pi" /\ UNCHANGED <<part, vars, s22, s23, s24, s25>>
OnTui == part = "tui" /\ UNCHANGED <<part, vars, s16, s17, s18, s19, s20, s21, s22, s23, s24, s25>>

\* The sets a component chooses from, while it is followed.
When(on, set) == IF on THEN set ELSE {}

-----------------------------------------------------------------------------
\* Variables the component followed has no use for.
Unused(from) ==
    /\ (from < 1 => s1 = 0) /\ (from < 2 => s2 = 0) /\ (from < 3 => s3 = 0)
    /\ (from < 4 => s4 = 0) /\ (from < 5 => s5 = 0) /\ (from < 6 => s6 = 0)
    /\ (from < 7 => s7 = 0) /\ (from < 8 => s8 = 0) /\ (from < 9 => s9 = 0)
    /\ (from < 10 => s10 = 0) /\ (from < 11 => s11 = 0) /\ (from < 12 => s12 = 0)
    /\ (from < 13 => s13 = 0) /\ (from < 14 => s14 = 0) /\ (from < 15 => s15 = 0)
    /\ (from < 16 => s16 = 0) /\ (from < 17 => s17 = 0) /\ (from < 18 => s18 = 0)
    /\ (from < 19 => s19 = 0) /\ (from < 20 => s20 = 0) /\ (from < 21 => s21 = 0)
    /\ (from < 22 => s22 = 0) /\ (from < 23 => s23 = 0) /\ (from < 24 => s24 = 0)
    /\ (from < 25 => s25 = 0)

AllInit ==
    /\ Init
    /\ \/ part = "index" /\ Unused(0)
       \/ part = "claude" /\ Claude!Init /\ links = TRUE
       \/ part = "pi" /\ Pi!Init /\ Unused(21) /\ links = TRUE
       \/ part = "tui" /\ Tui!Init /\ Unused(15) /\ links = TRUE

IndexNext ==
    \/ (OnIndex /\ Tick)
    \/ \E i \in InputIds \ Own :
           \/ (OnIndex /\ Prepare(i)) \/ (OnIndex /\ Publish(i)) \/ (OnIndex /\ Fill(i))
           \/ (OnIndex /\ Unlink(i)) \/ (OnIndex /\ Withdraw(i))
    \/ \E i \in Own :
           \/ (OnIndex /\ WriteOwn(i)) \/ (OnIndex /\ WithdrawOwn(i))
    \/ \E i \in InputIds :
           \/ (OnIndex /\ ByNative(i)) \/ (OnIndex /\ Read(i))
    \/ (OnIndex /\ Stat) \/ (OnIndex /\ List) \/ (OnIndex /\ Return)

ClaudeNext ==
    \/ (OnClaude /\ Claude!OnLifecycle) \/ (OnClaude /\ Claude!OnNotification)
    \/ (OnClaude /\ Claude!OnForeign) \/ (OnClaude /\ Claude!OnInit) \/ (OnClaude /\ Claude!OnResult)
    \/ (OnClaude /\ Claude!OnResponse) \/ (OnClaude /\ Claude!OnAsk)
    \/ (OnClaude /\ Claude!OnCancelAsk) \/ (OnClaude /\ Claude!Answer)
    \/ (OnClaude /\ Claude!Submit) \/ (OnClaude /\ Claude!SubmitWrites)
    \/ (OnClaude /\ Claude!SubmitReturns) \/ (OnClaude /\ Claude!InterruptChecks)
    \/ (OnClaude /\ Claude!InterruptWrites) \/ (OnClaude /\ Claude!InterruptTurn)
    \/ (OnClaude /\ Claude!Stop) \/ (OnClaude /\ Claude!Wait) \/ (OnClaude /\ Claude!ClaudeReads)
    \/ (OnClaude /\ Claude!ClaudeStarts) \/ (OnClaude /\ Claude!ClaudeStartsOwn)
    \/ (OnClaude /\ Claude!ClaudeEnds) \/ (OnClaude /\ Claude!ClaudeAsks)
    \/ (OnClaude /\ Claude!ClaudeWithdraws) \/ (OnClaude /\ Claude!ClaudeExits)

PiNext ==
    \/ (OnPi /\ Pi!OnLine) \/ (OnPi /\ Pi!OnResponse) \/ (OnPi /\ Pi!Submit)
    \/ (OnPi /\ Pi!SubmitCalls) \/ (OnPi /\ Pi!SubmitReturns) \/ (OnPi /\ Pi!InterruptChecks)
    \/ (OnPi /\ Pi!InterruptNotes) \/ (OnPi /\ Pi!InterruptAborts) \/ (OnPi /\ Pi!Stop)
    \/ (OnPi /\ Pi!Wait) \/ (OnPi /\ Pi!ReadRecord) \/ (OnPi /\ Pi!Restart) \/ (OnPi /\ Pi!PiReads)
    \/ (OnPi /\ Pi!PiAnswers) \/ (OnPi /\ Pi!PiRetries) \/ (OnPi /\ Pi!PiSettles)
    \/ (OnPi /\ Pi!PiExits)

TuiNext ==
    \/ (OnTui /\ Tui!ClaudeComesUp) \/ (OnTui /\ Tui!ClaudeReadsKey)
    \/ \E kind \in {"notice", "continue"} : (OnTui /\ Tui!ClaudeStartsOwn(kind))
    \/ (OnTui /\ Tui!ClaudeLogsStart) \/ (OnTui /\ Tui!ClaudeLogsError)
    \/ \E how \in {"completed", "failed"} : (OnTui /\ Tui!ClaudeFinishes(how))
    \/ (OnTui /\ Tui!ClaudeEndHook) \/ (OnTui /\ Tui!ClaudeEndLine)
    \/ \E a \in When(part = "tui", DOMAIN s14) : (OnTui /\ Tui!ClaudeDecides(a))
    \/ (OnTui /\ Tui!ClaudeExits) \/ (OnTui /\ Tui!HandleHook) \/ (OnTui /\ Tui!HandlePermission)
    \/ \E a \in When(part = "tui", DOMAIN s14) :
           \/ (OnTui /\ Tui!AwaitAnswer(a)) \/ (OnTui /\ Tui!HookKilled(a))
    \/ (OnTui /\ Tui!ReadLines) \/ (OnTui /\ Tui!ReadEvents)
    \/ \E over \in When(part = "tui", {{}, Tui!Elapsed}) : (OnTui /\ Tui!Poll(over))
    \/ (OnTui /\ Tui!Wait) \/ (OnTui /\ Tui!AwaitUp) \/ (OnTui /\ Tui!Stop)
    \/ \E n \in When(part = "tui", 1 .. s1.inputs) : (OnTui /\ Tui!SubmitStarts(n))
    \/ (OnTui /\ Tui!SubmitSettles) \/ (OnTui /\ Tui!SubmitBegins) \/ (OnTui /\ Tui!SubmitEnters)
    \/ (OnTui /\ Tui!SubmitReturns) \/ (OnTui /\ Tui!SubmitGivesUp) \/ (OnTui /\ Tui!Interrupt)
    \/ (OnTui /\ Tui!InterruptTurn) \/ (OnTui /\ Tui!Esc) \/ (OnTui /\ Tui!EscReturns)
    \/ \E what \in {"allow", "deny"} : (OnTui /\ Tui!Answer(what))

\* These end.
Ended == part \in {"claude", "pi", "tui"} /\ UNCHANGED all

AllNext ==
    IndexNext \/ ClaudeNext \/ PiNext \/ TuiNext \/ Ended

AllSpec == AllInit /\ [][AllNext]_all

-----------------------------------------------------------------------------
\* What the claude transport reports of an input, and of claude's own tasks, is
\* what claude did, and a permission is decided once (claudecode transport).  The
\* live reading of a turn of pi's and the reading of pi's session file agree,
\* after a restart too, and an input not submitted never ran (pi).  On claude's
\* terminal a receipt is the input's own, a turn ends as claude ended it, reports
\* come in order and no hook is left unread (claudecodetui).
HarnessesAreTrue ==
    /\ TypeOK
    /\ part = "claude" => Claude!TypeOK /\ Claude!ReportsAreTrue /\ Claude!DecidedOnce
    /\ part = "pi" => Pi!TypeOK /\ Pi!RecordAgrees /\ Pi!NotSubmittedNeverRan
    /\ part = "tui" =>
        /\ Tui!TypeOK /\ Tui!ReceiptIsOwn /\ Tui!EndIsClaudes
        /\ Tui!ReportsInOrder /\ Tui!MergedByOwnOnly /\ Tui!NoHookIsLeft
=============================================================================
