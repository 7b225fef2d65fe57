----------------------------- MODULE MCLiveness -----------------------------
(* What must happen in the end, of each component that promises it: one     *)
(* component is followed at a time, on a small instance.  The token that    *)
(* says who may write is extended.                                          *)
EXTENDS ControlQueue

VARIABLE part       \* the component followed
\* The state of the component followed, by position.
VARIABLES
    s1, s2, s3, s4, s5, s6, s7, s8, s9, s10, s11, s12, s13, s14, s15, s16, s17, s18, s19, s20,
    s21, s22, s23, s24, s25, s26, s27, s28, s29, s30, s31, s32

\* The supervisor, in both modes, stopped while its OnEvent may never return, or
\* left with a process by a harness nobody stops.
Wrapped(keepAlive, supervised, leaves, asks, stalls) ==
    [keepAlive |-> keepAlive, supervised |-> supervised, child |-> leaves, stalls |-> stalls,
     sinks |-> {}, asks |-> asks, faults |-> {}, lines |-> {"api500"}, writes |-> 1]
Runs == { [Wrapped(FALSE, FALSE, FALSE, {"stop"}, FALSE) EXCEPT !.writes = 0],
          Wrapped(TRUE, FALSE, FALSE, {"stop"}, TRUE),
          [Wrapped(FALSE, TRUE, TRUE, {}, FALSE) EXCEPT !.writes = 0] }

StreamRun(on) ==
    [turns |-> 1, caps |-> "caps" \in on, policy |-> FALSE, givesUp |-> "givesUp" \in on,
     asks |-> "asks" \in on, dies |-> "dies" \in on, stores |-> FALSE, stops |-> "stops" \in on]
Streams == { StreamRun({"caps", "givesUp"}), StreamRun({"caps", "dies"}),
             StreamRun({"caps", "asks", "stops"}) }

ClaudeRun(on) == [f \in {"own", "gated", "refuses", "foreign", "lacks", "dies", "interrupts", "slow"} |-> f \in on]
Claudes == { ClaudeRun({"own", "gated"}), ClaudeRun({"gated", "interrupts"}),
             ClaudeRun({"dies", "slow"}), ClaudeRun({"foreign"}), ClaudeRun({"refuses"}),
             ClaudeRun({"lacks"}) }

CodexRun(on) == [f \in {"goal", "holds", "refuses", "dies", "interrupts", "slow", "steer"} |-> f \in on]
Codexes == { CodexRun({"goal", "interrupts"}), CodexRun({"goal", "steer"}), CodexRun({"dies"}) }

Spools == { [resume |-> FALSE, readers |-> {1, 2}, files |-> {"legacy"}],
            [resume |-> FALSE, readers |-> {1}, files |-> {"hook", "empty"}] }
FileKind(f) == IF f = "empty" THEN "nothing" ELSE "own"
FileHolds(f) == IF f = "legacy" THEN {1, 2} ELSE {1}

Queue == INSTANCE DeliveryQueue WITH
    items <- s1, bytes <- s2, closed <- s3, abandoned <- s4, ready <- s5, hand <- s6,
    parked <- s7, worker <- s8, delivering <- s9, delivered <- s10, lost <- s11, aborted <- s12,
    pushed <- s13, accepted <- s14, calls <- s15, Producers <- {1, 2}, LimitEvents <- 1,
    LimitBytes <- 3, Sizes <- {1, 4}, MaxPushes <- 3, NoEvent <- [id |-> 0, size |-> 0]
Run == INSTANCE Supervisor WITH
    setting <- s1, leader <- s2, code <- s3, child <- s4, sent <- s5, stop <- s6, cancelled <- s7,
    failed <- s8, pty <- s9, opc <- s10, last <- s11, text <- s12, since <- s13, closed <- s14,
    drained <- s15, sink <- s16, spc <- s17, out <- s18, result <- s19, ch <- s20, cpc <- s21,
    cls <- s22, hand <- s23, snap <- s24, queue <- s25, Settings <- Runs, Harness <- "claude",
    MaxOutput <- 1, QueueLimit <- 1
Talk == INSTANCE Conversation WITH
    closed <- s1, exit <- s2, current <- s3, reserved <- s4, endMarkerSeen <- s5, held <- s6,
    watermark <- s7, sending <- s8, ending <- s9, queue <- s10, log <- s11, dropped <- s12,
    pc <- s13, turn <- s14, label <- s15, event <- s16, alive <- s17, running <- s18,
    stopped <- s19, screenQ <- s20, statusQ <- s21, transcript <- s22, begun <- s23,
    submitted <- s24, heldTurns <- s25, setting <- s26, Senders <- {"a"}, MaxTurns <- 1,
    MaxEvents <- 1, MaxEntries <- 0, Settings <- {{"a", "claude", "holds", "patient"}}
Stream == INSTANCE Stream WITH
    setting <- s1, cur <- s2, turn <- s3, ended <- s4, output <- s5, receipt <- s6, spc <- s7,
    sending <- s8, op <- s9, ipc <- s10, iop <- s11, control <- s12, perm <- s13, apc <- s14,
    asking <- s15, capsChecked <- s16, stdinClosed <- s17, closed <- s18, stopping <- s19,
    exit <- s20, wpc <- s21, cin <- s22, cout <- s23, claude <- s24, Settings <- Streams,
    MaxTurns <- 1, Callers <- {1}, PipeFrames <- 2
Session == INSTANCE AdapterSession WITH
    phase <- s1, closing <- s2, made <- s3, native <- s4, started <- s5, ended <- s6,
    outcome <- s7, current <- s8, auto <- s9, prompt <- s10, gate <- s11, armed <- s12,
    fired <- s13, op <- s14, opOut <- s15, ops <- s16, send <- s17, call <- s18, want <- s19,
    joined <- s20, answer <- s21, toPush <- s22, unblocks <- s23, log <- s24, inbox <- s25,
    on <- s26, stop <- s27, asking <- s28, alive <- s29, events <- s30, ran <- s31,
    setting <- s32, Inputs <- {"i"}, Autos <- {}, Callers <- {1}, MaxOps <- 1,
    Settings <- {{"usage"}}
Claude == INSTANCE ClaudeTransport WITH
    setting <- s1, turn <- s2, own <- s3, task <- s4, capsDone <- s5, foreign <- s6,
    receipts <- s7, asks <- s8, spc <- s9, sent <- s10, result <- s11, ipc <- s12, iof <- s13,
    asked <- s14, rep <- s15, ownRep <- s16, prompts <- s17, stopping <- s18, stdinClosed <- s19,
    exited <- s20, cin <- s21, cout <- s22, claude <- s23, ran <- s24, decided <- s25,
    Settings <- Claudes, MaxInputs <- 1, MaxTasks <- 1, MaxAsks <- 1, PipeFrames <- 2
Codex == INSTANCE CodexTransport WITH
    setting <- s1, inp <- s2, run <- s3, chain <- s4, goal <- s5, spc <- s6, sent <- s7,
    waits <- s8, nextCall <- s9, result <- s10, rep <- s11, ownStarted <- s12, ownEnded <- s13,
    asks <- s14, stopping <- s15, stdinClosed <- s16, exited <- s17, cin <- s18, cout <- s19,
    codex <- s20, ran <- s21, Settings <- Codexes, MaxInputs <- 1, MaxTurns <- 3, MaxCalls <- 3,
    PipeFrames <- 2
Cursor == INSTANCE Cursor WITH
    record <- s1, live <- s2, base <- s3, exited <- s4, pos <- s5, pending <- s6, queue <- s7,
    chunk <- s8, outN <- s9, pc <- s10, got <- s11, want <- s12, held <- s13, heldCp <- s14,
    stored <- s15, drained <- s16, crashes <- s17, items <- s18, checkpoint <- s19,
    MaxRecord <- 1, MaxLive <- 1, MaxCrashes <- 1, Bounds <- {1, 2}
Spool == INSTANCE Hooks WITH
    setting <- s1, loc <- s2, dur <- s3, hook <- s4, moves <- s5, journal <- s6, reader <- s7,
    lock <- s8, faults <- s9, file <- part, valid <- part, configLock <- part, pc <- part,
    read <- part, edits <- part, user <- part, raced <- part, ensured <- part, Settings <- Spools,
    Sessions <- {1, 2}, Files <- {"legacy", "hook", "empty"}, Root <- {"legacy"},
    Kind <- FileKind, Holds <- FileHolds, MaxRead <- 1, MaxQuarantine <- 1, MaxMoves <- 2,
    MaxFaults <- 1, Procs <- {}, Hooks <- <<>>, MaxEdits <- 0

state == <<s1, s2, s3, s4, s5, s6, s7, s8, s9, s10, s11, s12, s13, s14, s15, s16, s17, s18, s19, s20,
           s21, s22, s23, s24, s25, s26, s27, s28, s29, s30, s31, s32>>
all == <<part, vars, state>>

OnControl == part = "control" /\ UNCHANGED <<part, state>>
OnQueue == part = "delivery" /\ UNCHANGED <<part, vars, s16, s17, s18, s19, s20, s21, s22, s23, s24, s25, s26, s27, s28, s29, s30, s31,
                                            s32>>
OnRun == part = "supervisor" /\ UNCHANGED <<part, vars, s26, s27, s28, s29, s30, s31, s32>>
OnTalk == part = "conversation" /\ UNCHANGED <<part, vars, s27, s28, s29, s30, s31, s32>>
OnStream == part = "stream" /\ UNCHANGED <<part, vars, s25, s26, s27, s28, s29, s30, s31, s32>>
OnSession == part = "session" /\ UNCHANGED <<part, vars>>
OnClaude == part = "claude" /\ UNCHANGED <<part, vars, s26, s27, s28, s29, s30, s31, s32>>
OnCodex == part = "codex" /\ UNCHANGED <<part, vars, s22, s23, s24, s25, s26, s27, s28, s29, s30, s31, s32>>
OnCursor == part = "cursor" /\ UNCHANGED <<part, vars, s20, s21, s22, s23, s24, s25, s26, s27, s28, s29, s30, s31, s32>>
OnSpool == part = "spool" /\ UNCHANGED <<part, vars, s10, s11, s12, s13, s14, s15, s16, s17, s18, s19, s20, s21, s22, s23, s24, s25,
                                         s26, s27, s28, s29, s30, s31, s32>>

-----------------------------------------------------------------------------
\* Variables the component followed has no use for.
Unused(from) ==
    /\ (from < 1 => s1 = 0) /\ (from < 2 => s2 = 0) /\ (from < 3 => s3 = 0)
    /\ (from < 4 => s4 = 0) /\ (from < 5 => s5 = 0) /\ (from < 6 => s6 = 0)
    /\ (from < 7 => s7 = 0) /\ (from < 8 => s8 = 0) /\ (from < 9 => s9 = 0)
    /\ (from < 10 => s10 = 0) /\ (from < 11 => s11 = 0) /\ (from < 12 => s12 = 0)
    /\ (from < 13 => s13 = 0) /\ (from < 14 => s14 = 0) /\ (from < 15 => s15 = 0)
    /\ (from < 16 => s16 = 0) /\ (from < 17 => s17 = 0) /\ (from < 18 => s18 = 0)
    /\ (from < 19 => s19 = 0) /\ (from < 20 => s20 = 0) /\ (from < 21 => s21 = 0)
    /\ (from < 22 => s22 = 0) /\ (from < 23 => s23 = 0) /\ (from < 24 => s24 = 0)
    /\ (from < 25 => s25 = 0) /\ (from < 26 => s26 = 0) /\ (from < 27 => s27 = 0)
    /\ (from < 28 => s28 = 0) /\ (from < 29 => s29 = 0) /\ (from < 30 => s30 = 0)
    /\ (from < 31 => s31 = 0) /\ (from < 32 => s32 = 0)

AllInit ==
    /\ Init
    /\ \/ part = "control" /\ Unused(0)
       \/ part = "delivery" /\ Queue!Init /\ Unused(15)
       \/ part = "supervisor" /\ Run!Init /\ Unused(25)
       \/ part = "conversation" /\ Talk!Init /\ Unused(26)
       \/ part = "stream" /\ Stream!Init /\ Unused(24)
       \/ part = "session" /\ Session!Init
       \/ part = "claude" /\ Claude!Init /\ Unused(25)
       \/ part = "codex" /\ Codex!Init /\ Unused(21)
       \/ part = "cursor" /\ Cursor!Init /\ Unused(19)
       \/ part = "spool" /\ Spool!SpoolInit /\ Unused(9)

\* These end.
Ended == part \in {"delivery", "supervisor", "stream", "claude", "codex", "cursor", "spool"} /\ UNCHANGED all

AllNext ==
    \/ OnControl /\ Next
    \/ OnQueue /\ Queue!Next
    \/ OnRun /\ Run!Next
    \/ OnTalk /\ Talk!Next
    \/ OnStream /\ Stream!Next
    \/ OnSession /\ Session!Next
    \/ OnClaude /\ Claude!Next
    \/ OnCodex /\ Codex!Next
    \/ OnCursor /\ Cursor!Next
    \/ OnSpool /\ Spool!SpoolNext
    \/ Ended

AllSpec == AllInit /\ [][AllNext]_all

\* What each component may rely on (README, Fairness).  part never
\* changes, so the steps of different components can share a conjunct.
Fairness ==
    /\ WF_all(\/ OnControl /\ (Woken("c1") \/ GiveUp("c1"))
              \/ OnQueue /\ (Queue!Take \/ Queue!Idle \/ Queue!Receive)
              \/ OnRun /\ Run!Reap
              \/ OnTalk /\ Talk!SendGoesOn("a")
              \/ OnStream /\ Stream!SendRecords
              \/ OnSession /\ Session!HarnessStarts
              \/ OnClaude /\ Claude!Read
              \/ OnCodex /\ Codex!Read
              \/ OnCursor /\ Cursor!ReadStep("observe")
              \/ OnSpool /\ Spool!Reader(1))
    /\ WF_all(\/ OnControl /\ (Woken("c2") \/ GiveUp("c2"))
              \/ OnQueue /\ (\E ok \in BOOLEAN : Queue!Return(ok))
              \/ OnRun /\ Run!CancelKills
              \/ OnTalk /\ Talk!ConsumeWatcher
              \/ OnStream /\ Stream!SendRegisters
              \/ OnSession /\ Session!HarnessEnds
              \/ OnCodex /\ Codex!Resend
              \/ OnCursor /\ Cursor!Build
              \/ OnSpool /\ Spool!Reader(2))
    /\ WF_all(\/ OnControl /\ (Woken("c3") \/ GiveUp("c3"))
              \/ OnQueue /\ Queue!Retry(1)
              \/ OnRun /\ Run!Output
              \/ OnTalk /\ Talk!IdleWatcher
              \/ OnStream /\ Stream!SendWrites
              \/ OnSession /\ Session!Opened
              \/ OnClaude /\ Claude!SubmitWrites
              \/ OnCodex /\ Codex!YieldStops
              \/ OnCursor /\ Cursor!Ack)
    /\ WF_all(\/ OnControl /\ HandOff("c1")
              \/ OnQueue /\ Queue!Retry(2)
              \/ OnRun /\ Run!Tick
              \/ OnTalk /\ Talk!HarnessEnds(FALSE)
              \/ OnStream /\ Stream!SendReturns
              \/ OnSession /\ Session!Report
              \/ OnClaude /\ Claude!SubmitReturns
              \/ OnCodex /\ Codex!YieldDone
              \/ OnCursor /\ Cursor!Commit)
    /\ WF_all(\/ OnControl /\ HandOff("c2")
              \/ OnQueue /\ Queue!GiveUp(1)
              \/ OnRun /\ Run!TickPush
              \/ OnTalk /\ Talk!StoppedDies
              \/ OnStream /\ Stream!DropStreamTurn
              \/ OnSession /\ Session!Gate
              \/ OnClaude /\ Claude!InterruptWrites
              \/ OnCodex /\ Codex!StartTurn)
    /\ WF_all(\/ OnControl /\ HandOff("c3")
              \/ OnQueue /\ Queue!GiveUp(2)
              \/ OnRun /\ (Run!PassDefault \/ Run!PassKeepAlive)
              \/ OnStream /\ Stream!FailSubmit
              \/ OnSession /\ (Session!SendMark \/ Session!SendSubmit \/ Session!SendResult \/ Session!SendRefused)
              \/ OnClaude /\ Claude!Wait
              \/ OnCodex /\ Codex!SubmitReturns)
    /\ WF_all(\/ OnControl /\ Release("c1")
              \/ OnRun /\ Run!Hand
              \/ OnStream /\ Stream!ControlWrites(1)
              \/ OnClaude /\ Claude!ClaudeReads
              \/ OnCodex /\ Codex!Wait)
    /\ WF_all(\/ OnControl /\ Release("c2")
              \/ OnRun /\ Run!SelectPush
              \/ OnStream /\ Stream!InterruptReturns(1)
              \/ OnClaude /\ Claude!ClaudeStarts
              \/ OnCodex /\ Codex!CodexReads)
    /\ WF_all(\/ OnControl /\ Release("c3")
              \/ OnRun /\ Run!Supervise
              \/ OnStream /\ (Stream!AnswerWrites \/ Stream!AnswerClears)
              \/ OnClaude /\ Claude!ClaudeEnds
              \/ OnCodex /\ Codex!CodexTakesIn)
    /\ WF_all(\/ OnRun /\ Run!EventTaken
              \/ OnStream /\ Stream!Exits
              \/ OnCodex /\ Codex!CodexEndsTurn)
    /\ WF_all(\/ OnStream /\ Stream!StopStream
              \/ OnCodex /\ Codex!CodexStops)
    /\ WF_all(\/ OnStream /\ Stream!StreamRead)
    /\ WF_all(\/ OnStream /\ Stream!ClaudeReads)
    /\ WF_all(\/ OnStream /\ Stream!ClaudeWorks)
    /\ WF_all(\/ OnStream /\ Stream!ClaudeExits)
    /\ SF_all(\/ OnRun /\ Run!ClassifierEnds
              \/ OnCursor /\ Cursor!ObserveRoomy)
    /\ SF_all(\/ OnRun /\ Run!SelectExit
              \/ OnCursor /\ Cursor!Store)
    /\ SF_all(\/ OnRun /\ Run!SelectStop)
    /\ SF_all(\/ OnRun /\ Run!SelectFail)
LiveSpec == AllSpec /\ Fairness

-----------------------------------------------------------------------------
\* What is waited for happens (the module named says it of its own state): an
\* Acquire returns; a closed queue drains and a Push returns; a stopped or
\* exited harness ends its run; a pending turn is answered and Close is told; a
\* message's turn ends or waits for the client's answer, and an Interrupt ends; a
\* busy Session is free again and a usage wall clears; a permission is raised and
\* an input settled, where no permission waits for the client; all that a record
\* holds and a Host learned is delivered; a hook's event is stored.
WhatIsAwaitedComes ==
    /\ (\/ part = "control" /\ Waits("c1")
        \/ part = "delivery" /\ Queue!Draining
        \/ part = "supervisor" /\ Run!Stopped
        \/ part = "conversation" /\ Talk!Pending(1)
        \/ part = "stream" /\ Stream!InFlight(1)
        \/ part = "session" /\ Session!Busy
        \/ part = "claude" /\ Claude!Asking(1)
        \/ part = "codex" /\ Codex!Submitted(1)
        \/ part = "cursor" /\ Cursor!Written(1)
        \/ part = "spool" /\ Spool!Reported("legacy"))
       ~> (\/ part = "control" /\ ~Waits("c1")
           \/ part = "delivery" /\ Queue!Drained
           \/ part = "supervisor" /\ Run!Over
           \/ part = "conversation" /\ Talk!Resolved(1)
           \/ part = "stream" /\ Stream!OverOrAsked(1)
           \/ part = "session" /\ ~ Session!Busy
           \/ part = "claude" /\ Claude!AskRaised(1)
           \/ part = "codex" /\ Codex!Settled(1)
           \/ part = "cursor" /\ Cursor!Told(1)
           \/ part = "spool" /\ Spool!Stores(1, "legacy"))
    /\ (\/ part = "control" /\ Waits("c2")
        \/ part = "delivery" /\ Queue!Pushing(1)
        \/ part = "supervisor" /\ Run!Exited
        \/ part = "conversation" /\ Talk!Closing
        \/ part = "stream" /\ Stream!Interrupting(1, 1)
        \/ part = "session" /\ Session!UsageBlocked
        \/ part = "claude" /\ Claude!Submitted(1)
        \/ part = "cursor" /\ Cursor!Learned(1)
        \/ part = "spool" /\ Spool!Reported("legacy"))
       ~> (\/ part = "control" /\ ~Waits("c2")
           \/ part = "delivery" /\ ~ Queue!Pushing(1)
           \/ part = "supervisor" /\ Run!Over
           \/ part = "conversation" /\ Talk!ExitTold
           \/ part = "stream" /\ Stream!Interrupted(1)
           \/ part = "session" /\ ~ Session!Blocked
           \/ part = "claude" /\ Claude!Settled(1)
           \/ part = "cursor" /\ Cursor!LearnedTold(1)
           \/ part = "spool" /\ Spool!Stores(2, "legacy"))
    /\ (\/ part = "control" /\ Waits("c3")
        \/ part = "delivery" /\ Queue!Pushing(2)
        \/ part = "spool" /\ Spool!Reported("hook"))
       ~> (\/ part = "control" /\ ~Waits("c3")
           \/ part = "delivery" /\ ~ Queue!Pushing(2)
           \/ part = "spool" /\ Spool!Stores(1, "hook"))
=============================================================================
