----------------------------- MODULE MCDelivery -----------------------------
(* The queue of events, extended for its assumptions and its refinement,    *)
(* and, one at a time, the supervisor whose events it delivers, the frames  *)
(* of the screen, and the opening of a conversation on a wrapper.           *)
EXTENDS DeliveryQueue

VARIABLE part       \* the component followed
\* The state of the component followed, by position.
VARIABLES
    s1, s2, s3, s4, s5, s6, s7, s8, s9, s10, s11, s12, s13, s14, s15, s16, s17, s18, s19, s20,
    s21, s22, s23, s24, s25

\* The supervisor in default and in keep-alive mode, contained and not.
Wrapped(keepAlive, supervised, leaves, asks, lines, writes) ==
    [keepAlive |-> keepAlive, supervised |-> supervised, child |-> leaves, stalls |-> FALSE,
     sinks |-> {}, asks |-> asks, faults |-> {}, lines |-> lines, writes |-> writes]
Runs ==
    { Wrapped(FALSE, FALSE, FALSE, {}, {"plain", "api500"}, 2),
      Wrapped(FALSE, FALSE, TRUE,  {"cancel"}, {"api500"}, 1),
      Wrapped(FALSE, TRUE,  TRUE,  {"stop"}, {"quota"}, 1),
      [Wrapped(FALSE, FALSE, FALSE, {"stop"}, {"banner"}, 1)
          EXCEPT !.faults = {"read", "panic"}, !.sinks = {"open", "stuck"}],
      Wrapped(TRUE,  FALSE, FALSE, {}, {"plain", "api500"}, 2),
      Wrapped(TRUE,  TRUE,  TRUE,  {"stop"}, {"banner"}, 1) }

Opened == [contained |-> FALSE, single |-> FALSE, stream |-> FALSE, assigns |-> FALSE, asks |-> {0},
           deletes |-> FALSE, crashes |-> FALSE, callers |-> 2, relinks |-> FALSE]
Opens ==
    { Opened, [Opened EXCEPT !.assigns = TRUE, !.asks = 0..1],
      [Opened EXCEPT !.stream = TRUE, !.assigns = TRUE, !.asks = 0..1],
      [Opened EXCEPT !.stream = TRUE, !.contained = TRUE],
      [Opened EXCEPT !.contained = TRUE, !.assigns = TRUE, !.asks = 0..2, !.relinks = TRUE],
      [Opened EXCEPT !.contained = TRUE, !.deletes = TRUE],
      [Opened EXCEPT !.contained = TRUE, !.assigns = TRUE, !.deletes = TRUE, !.callers = 3],
      [Opened EXCEPT !.contained = TRUE, !.single = TRUE, !.assigns = TRUE],
      [Opened EXCEPT !.contained = TRUE, !.assigns = TRUE, !.crashes = TRUE] }

S == INSTANCE Supervisor WITH
    setting <- s1, leader <- s2, code <- s3, child <- s4, sent <- s5, stop <- s6, cancelled <- s7,
    failed <- s8, pty <- s9, opc <- s10, last <- s11, text <- s12, since <- s13, closed <- s14,
    drained <- s15, sink <- s16, spc <- s17, out <- s18, result <- s19, ch <- s20, cpc <- s21,
    cls <- s22, hand <- s23, snap <- s24, queue <- s25, Settings <- Runs, Harness <- "claude",
    MaxOutput <- 2, QueueLimit <- 1
F == INSTANCE Frames WITH
    output <- s1, size <- s2, gen <- s3, peer <- s4, notifying <- s5, resizeMu <- s6,
    resize <- s7, signal <- s8, pump <- s9, snap <- s10, status <- s11, statuses <- s12,
    events <- s13, eventsOpen <- s14, done <- s15, since <- s16, seen <- s17, panicked <- s18,
    writes <- s19, resizes <- s20, Callers <- {1, 2}, Sizes <- {80, 120}, Start <- 120, Cap <- 1,
    MaxWrites <- 1, MaxResizes <- 2, MaxStatus <- 1
O == INSTANCE Opening WITH
    setting <- s1, store <- s2, exists <- s3, lock <- s4, link <- s5, call <- s6, run <- s7,
    faults <- s8, crashes <- s9, created <- s10, Settings <- Opens, Callers <- 1 .. 3,
    MaxFaults <- 1, MaxCrashes <- 1

state == <<s1, s2, s3, s4, s5, s6, s7, s8, s9, s10, s11, s12, s13, s14, s15, s16, s17, s18, s19, s20,
           s21, s22, s23, s24, s25>>
all == <<part, vars, state>>

OnQueue == part = "queue" /\ UNCHANGED <<part, state>>
OnS == part = "supervisor" /\ UNCHANGED <<part, vars>>
OnF == part = "frames" /\ UNCHANGED <<part, vars, s21, s22, s23, s24, s25>>
OnO == part = "opening" /\ UNCHANGED <<part, vars, s11, s12, s13, s14, s15, s16, s17, s18, s19, s20, s21, s22, s23, s24, s25>>

\* The sets a component chooses from, while it is followed.
When(on, set) == IF on THEN set ELSE {}

-----------------------------------------------------------------------------
\* Variables the component followed has no use for.
Unused(from) ==
    /\ (from < 1 => s1 = 0) /\ (from < 2 => s2 = 0) /\ (from < 3 => s3 = 0)
    /\ (from < 4 => s4 = 0) /\ (from < 5 => s5 = 0) /\ (from < 6 => s6 = 0)
    /\ (from < 7 => s7 = 0) /\ (from < 8 => s8 = 0) /\ (from < 9 => s9 = 0)
    /\ (from < 10 => s10 = 0) /\ (from < 11 => s11 = 0) /\ (from < 12 => s12 = 0)
    /\ (from < 13 => s13 = 0) /\ (from < 14 => s14 = 0) /\ (from < 15 => s15 = 0)
    /\ (from < 16 => s16 = 0) /\ (from < 17 => s17 = 0) /\ (from < 18 => s18 = 0)
    /\ (from < 19 => s19 = 0) /\ (from < 20 => s20 = 0) /\ (from < 21 => s21 = 0)
    /\ (from < 22 => s22 = 0) /\ (from < 23 => s23 = 0) /\ (from < 24 => s24 = 0)
    /\ (from < 25 => s25 = 0)

AllInit ==
    /\ Init
    /\ \/ part = "queue" /\ Unused(0)
       \/ part = "supervisor" /\ S!Init
       \/ part = "frames" /\ F!Init /\ Unused(20)
       \/ part = "opening" /\ O!Init /\ Unused(10)

QueueNext ==
    \/ \E p \in Producers, n \in Sizes : (OnQueue /\ Push(p, n))
    \/ \E p \in Producers : (OnQueue /\ Retry(p))
    \/ \E p \in Producers : (OnQueue /\ GiveUp(p))
    \/ \E n \in Sizes : (OnQueue /\ PushLast(n))
    \/ (OnQueue /\ Close) \/ (OnQueue /\ Abandon) \/ (OnQueue /\ Abort) \/ (OnQueue /\ Take)
    \/ (OnQueue /\ Idle) \/ (OnQueue /\ Receive)
    \/ \E ok \in BOOLEAN : (OnQueue /\ Return(ok))

SNext ==
    \/ \E l \in When(part = "supervisor", s1.lines) : (OnS /\ S!Write(l))
    \/ \E how \in {"clean", "failed", "signalled"} : (OnS /\ S!Exit(how))
    \/ (OnS /\ S!ChildExits) \/ (OnS /\ S!Silence) \/ (OnS /\ S!Stop) \/ (OnS /\ S!Cancel)
    \/ (OnS /\ S!Attach) \/ (OnS /\ S!Detach) \/ (OnS /\ S!OutFails) \/ (OnS /\ S!PassPanics)
    \/ (OnS /\ S!Deliver) \/ (OnS /\ S!Reap) \/ (OnS /\ S!CancelKills) \/ (OnS /\ S!OutRead)
    \/ (OnS /\ S!OutStore) \/ (OnS /\ S!OutEnd) \/ (OnS /\ S!Tick) \/ (OnS /\ S!TickPush)
    \/ (OnS /\ S!PassDefault) \/ (OnS /\ S!PassKeepAlive) \/ (OnS /\ S!Hand)
    \/ (OnS /\ S!ClassifierEnds) \/ (OnS /\ S!SelectExit) \/ (OnS /\ S!SelectVerdict)
    \/ (OnS /\ S!SelectPush) \/ (OnS /\ S!SelectStop) \/ (OnS /\ S!SelectFail)
    \/ (OnS /\ S!Terminate) \/ (OnS /\ S!Escalate) \/ (OnS /\ S!Reaped) \/ (OnS /\ S!Finish)
    \/ (OnS /\ S!Join) \/ (OnS /\ S!DrainEnds) \/ (OnS /\ S!Report) \/ (OnS /\ S!CloseAll)

FNext ==
    \/ (OnF /\ F!Paint) \/ (OnF /\ F!Write) \/ (OnF /\ F!WriteNotifies)
    \/ \E c \in {1, 2} :
           \/ \E s \in {80, 120} : (OnF /\ F!Resize(c, s))
           \/ (OnF /\ F!ResizePeer(c)) \/ (OnF /\ F!ResizeCommit(c)) \/ (OnF /\ F!ResizeNotifies(c))
    \/ (OnF /\ F!Watch) \/ (OnF /\ F!PumpScreen) \/ (OnF /\ F!Snapshot) \/ (OnF /\ F!SendFrame)
    \/ (OnF /\ F!PumpStatus) \/ (OnF /\ F!SendStatus) \/ (OnF /\ F!CloseEvents) \/ (OnF /\ F!Close)
    \/ (OnF /\ F!Receive)

ONext ==
    \/ \E c \in 1 .. 3 :
           \/ (OnO /\ O!Open(c)) \/ (OnO /\ O!Reopen(c)) \/ (OnO /\ O!Prepare(c))
           \/ (OnO /\ O!SessionLaunch(c)) \/ (OnO /\ O!CreateFirst(c)) \/ (OnO /\ O!Start(c))
           \/ (OnO /\ O!RecordLaunch(c)) \/ (OnO /\ O!StartStreamProc(c))
           \/ (OnO /\ O!Initialize(c)) \/ (OnO /\ O!InsertStream(c)) \/ (OnO /\ O!SaveBegins(c))
           \/ (OnO /\ O!SaveEnds(c)) \/ (OnO /\ O!SavesNothing(c)) \/ (OnO /\ O!Size(c))
           \/ (OnO /\ O!CopySession(c)) \/ (OnO /\ O!Insert(c)) \/ (OnO /\ O!Stop(c))
           \/ (OnO /\ O!StopReturns(c)) \/ (OnO /\ O!Abandon(c)) \/ (OnO /\ O!MarkAbandoned(c))
           \/ (OnO /\ O!HarnessEnds(c)) \/ (OnO /\ O!Exit(c)) \/ (OnO /\ O!ReportExit(c))
           \/ (OnO /\ O!ReadToDelete(c)) \/ (OnO /\ O!RemoveState(c)) \/ (OnO /\ O!MarkDeleted(c))
           \/ (OnO /\ O!Crash(c))
           \/ \E s \in O!Searches :
                  \/ (OnO /\ O!Find(c, s)) \/ (OnO /\ O!RecordHarnessID(c, s))
    \/ (OnO /\ O!Relink)

\* These end.
Ended == part \in {"supervisor", "frames", "opening"} /\ UNCHANGED all

AllNext ==
    QueueNext \/ SNext \/ FNext \/ ONext \/ Ended

AllSpec == AllInit /\ [][AllNext]_all

-----------------------------------------------------------------------------
\* What the supervisor says of a run is right: a failure is explained however
\* fast it was, a run told to end leaves no process, a keep-alive status is about
\* the output as it stands (Session.supervise, classifyOnExit, groupTerminator).
RunIsTold ==
    part = "supervisor" =>
        S!TypeOK /\ S!FastFailureExplained /\ S!GroupGone /\ S!StatusIsCurrent

\* A watcher of the screen sees the last frame, at the size the terminal has, on
\* a channel that outlives every writer to it (Screen.Write, Conversation.Resize,
\* Conversation.WatchScreen).
FramesArrive ==
    part = "frames" => F!TypeOK /\ F!LastFrameIsSeen /\ F!SizesAgree /\ F!ChannelOutlives

\* Opening a conversation that fails leaves nothing running or stored, a
\* contained conversation is only ever resumed contained, and the harness's own
\* id is stored by the time the conversation has ended (Open, Reopen, start).
OpeningIsSafe ==
    part = "opening" =>
        O!TypeOK /\ O!FailureLeavesNothing /\ O!StaysContained /\ O!IdIsSaved

\* What was settled stands: the outcome of a run (Session.supervise), and the
\* harness's id of a conversation (recordHarnessID).
SettledStands ==
    [][/\ part = "supervisor" => S!OutcomeIsFinal
       /\ part = "opening" => O!IdStands]_all
=============================================================================
