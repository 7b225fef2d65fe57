---------------------------- MODULE MCTransports ----------------------------
(* Opening an adapter's session, extended for its theorems, and, one at a   *)
(* time, the parts of the codex adapter: its transport, the start of its    *)
(* app server and the keeper of its sign-in.                                *)
EXTENDS SessionOpen, TLC

CONSTANTS h1, h2

VARIABLE part       \* the component followed
\* The state of the component followed, by position.
VARIABLES
    s1, s2, s3, s4, s5, s6, s7, s8, s9, s10, s11, s12, s13, s14, s15, s16, s17, s18, s19, s20, s21

Symmetry == Permutations(Hosts)
Request(id, l, m) == [id |-> id, loaded |-> l, workDir |-> FALSE, mode |-> m]
OpenRequests == { Request("a", FALSE, "reopen"), Request("a", TRUE, "reopen"),
                  Request(NoId, FALSE, "fresh") }
Capabilities == {"resume", "session_load"}

CodexRun(on) ==
    [goal |-> TRUE, holds |-> "holds" \in on, refuses |-> "refuses" \in on, dies |-> "dies" \in on,
     interrupts |-> "interrupts" \in on, slow |-> "slow" \in on, steer |-> "steer" \in on]
CodexRuns == { CodexRun({"holds", "steer"}), CodexRun({"steer", "interrupts"}), CodexRun({"dies"}),
               CodexRun({"refuses"}), [CodexRun({"dies", "slow"}) EXCEPT !.goal = FALSE] }

\* Which sessions start, and what goes wrong: an error, a full disk, a crash.
Faults(who, errs, full, crashes) ==
    [who |-> who, errs |-> errs, full |-> full, crashes |-> crashes]
Starts == { Faults({1, 2}, TRUE, FALSE, FALSE), Faults({1, 2}, FALSE, FALSE, TRUE),
            Faults({1}, TRUE, FALSE, TRUE), Faults({1}, FALSE, TRUE, TRUE) }

KeeperOps == {"sign in", "refresh", "sign out", "close"}
Keepers == { [ops |-> KeeperOps, dies |-> FALSE, quick |-> FALSE, late |-> FALSE],
             [ops |-> {"sign in", "sign out"}, dies |-> FALSE, quick |-> FALSE, late |-> TRUE],
             [ops |-> {"sign in", "sign out", "close"}, dies |-> TRUE, quick |-> TRUE, late |-> FALSE] }

Codex == INSTANCE CodexTransport WITH
    setting <- s1, inp <- s2, run <- s3, chain <- s4, goal <- s5, spc <- s6, sent <- s7,
    waits <- s8, nextCall <- s9, result <- s10, rep <- s11, ownStarted <- s12, ownEnded <- s13,
    asks <- s14, stopping <- s15, stdinClosed <- s16, exited <- s17, cin <- s18, cout <- s19,
    codex <- s20, ran <- s21, Settings <- CodexRuns, MaxInputs <- 2, MaxTurns <- 4, MaxCalls <- 3,
    PipeFrames <- 2
Proc == INSTANCE CodexProcess WITH
    startSetting <- s1, lock <- s2, pc <- s3, home <- s4, ready <- s5, proc <- s6, thread <- s7,
    said <- s8, kept <- s9, got <- s10, notes <- s11, db <- s12, index <- s13, rollout <- s14,
    native <- s15, loaded <- s16, held <- s17, openedAs <- s18, unread <- s19, doubt <- s20,
    changes <- s21, keeperSetting <- s1, op <- s2, asked <- s3, srv <- s4, pending <- s5,
    lastErr <- s6, call <- s7, reqs <- s8, wire <- s9, auth <- s10, signin <- s11, logins <- s12,
    forgotten <- s13, closed <- s14, Sessions <- {1, 2}, StartSettings <- Starts, MaxChanges <- 2,
    MaxLoads <- 2, KeeperSettings <- Keepers, MaxOps <- 4

state == <<s1, s2, s3, s4, s5, s6, s7, s8, s9, s10, s11, s12, s13, s14, s15, s16, s17, s18, s19, s20,
           s21>>
all == <<part, vars, state>>

OnOpen == part = "open" /\ UNCHANGED <<part, state>>
OnCodex == part = "codex" /\ UNCHANGED <<part, vars>>
OnStart == part = "start" /\ UNCHANGED <<part, vars>>
OnKeeper == part = "keeper" /\ UNCHANGED <<part, vars, s15, s16, s17, s18, s19, s20, s21>>

-----------------------------------------------------------------------------
\* Variables the component followed has no use for.
Unused(from) ==
    /\ (from < 1 => s1 = 0) /\ (from < 2 => s2 = 0) /\ (from < 3 => s3 = 0)
    /\ (from < 4 => s4 = 0) /\ (from < 5 => s5 = 0) /\ (from < 6 => s6 = 0)
    /\ (from < 7 => s7 = 0) /\ (from < 8 => s8 = 0) /\ (from < 9 => s9 = 0)
    /\ (from < 10 => s10 = 0) /\ (from < 11 => s11 = 0) /\ (from < 12 => s12 = 0)
    /\ (from < 13 => s13 = 0) /\ (from < 14 => s14 = 0) /\ (from < 15 => s15 = 0)
    /\ (from < 16 => s16 = 0) /\ (from < 17 => s17 = 0) /\ (from < 18 => s18 = 0)
    /\ (from < 19 => s19 = 0) /\ (from < 20 => s20 = 0) /\ (from < 21 => s21 = 0)

AllInit ==
    /\ Init
    /\ \/ part = "open" /\ Unused(0)
       \/ part = "codex" /\ Codex!Init
       \/ part = "start" /\ Proc!StartInit
       \/ part = "keeper" /\ Proc!KeeperInit /\ Unused(14)

OpenNext ==
    \/ \E h \in Hosts :
           \/ \E r \in Requests \cup {Reopen(id) : id \in Told} : (OnOpen /\ NewSession(h, r))
           \/ (OnOpen /\ Open(h)) \/ (OnOpen /\ OpenStores(h)) \/ (OnOpen /\ LockGiven(h))
           \/ (OnOpen /\ StartFails(h)) \/ (OnOpen /\ Started(h)) \/ (OnOpen /\ LockChosen(h))
           \/ (OnOpen /\ CheckLoaded(h)) \/ (OnOpen /\ Install(h)) \/ (OnOpen /\ OpenReader(h))
           \/ (OnOpen /\ Opened(h)) \/ (OnOpen /\ HarnessExits(h)) \/ (OnOpen /\ ReportExited(h))
           \/ (OnOpen /\ Close(h)) \/ (OnOpen /\ CloseStops(h)) \/ (OnOpen /\ CloseFinishes(h))
           \/ (OnOpen /\ HostDies(h))

CodexNext ==
    \/ (OnCodex /\ Codex!OnAnswer) \/ (OnCodex /\ Codex!OnTurnStarted)
    \/ (OnCodex /\ Codex!OnUserMessage) \/ (OnCodex /\ Codex!OnTurnCompleted)
    \/ (OnCodex /\ Codex!OnGoalCleared) \/ (OnCodex /\ Codex!Resend) \/ (OnCodex /\ Codex!Submit)
    \/ (OnCodex /\ Codex!YieldStops) \/ (OnCodex /\ Codex!YieldDone)
    \/ (OnCodex /\ Codex!YieldFails) \/ (OnCodex /\ Codex!StartTurn)
    \/ (OnCodex /\ Codex!SubmitReturns) \/ (OnCodex /\ Codex!SubmitTimesOut)
    \/ (OnCodex /\ Codex!Interrupt) \/ (OnCodex /\ Codex!InterruptTurn) \/ (OnCodex /\ Codex!Stop)
    \/ (OnCodex /\ Codex!Wait) \/ (OnCodex /\ Codex!CodexStartsOwn) \/ (OnCodex /\ Codex!CodexReads)
    \/ (OnCodex /\ Codex!CodexTakesIn) \/ (OnCodex /\ Codex!CodexEndsTurn)
    \/ (OnCodex /\ Codex!CodexStops) \/ (OnCodex /\ Codex!CodexGoalEnds)
    \/ (OnCodex /\ Codex!CodexExits)

StartNext ==
    \/ \E s \in {1, 2} :
           \/ (OnStart /\ Proc!Start(s)) \/ (OnStart /\ Proc!StartLock(s))
           \/ (OnStart /\ Proc!Initialized(s)) \/ (OnStart /\ Proc!Settled(s))
           \/ (OnStart /\ Proc!ReadState(s)) \/ (OnStart /\ Proc!RestoreName(s))
           \/ (OnStart /\ Proc!CheckLoaded(s)) \/ (OnStart /\ Proc!OpenThread(s))
           \/ (OnStart /\ Proc!Abandon(s)) \/ (OnStart /\ Proc!CodexTurn(s))
           \/ (OnStart /\ Proc!CodexChanges(s)) \/ (OnStart /\ Proc!OnNotification(s))
           \/ (OnStart /\ Proc!Stop(s)) \/ (OnStart /\ Proc!Exits(s))
    \/ (OnStart /\ Proc!Crash) \/ (OnStart /\ Proc!Load)

KeeperNext ==
    \/ \E kind \in Proc!Ops : (OnKeeper /\ Proc!Ask(kind))
    \/ (OnKeeper /\ Proc!Ensure) \/ (OnKeeper /\ Proc!Clear) \/ (OnKeeper /\ Proc!Cancel)
    \/ (OnKeeper /\ Proc!StartLogin) \/ (OnKeeper /\ Proc!ReadAccount) \/ (OnKeeper /\ Proc!Logout)
    \/ (OnKeeper /\ Proc!CallTimesOut) \/ (OnKeeper /\ Proc!CallReturns)
    \/ (OnKeeper /\ Proc!Started) \/ (OnKeeper /\ Proc!Refreshed) \/ (OnKeeper /\ Proc!Release)
    \/ (OnKeeper /\ Proc!Joined) \/ (OnKeeper /\ Proc!Forget) \/ (OnKeeper /\ Proc!Dispatch)
    \/ (OnKeeper /\ Proc!ReaderEnds) \/ (OnKeeper /\ Proc!CodexStartsLogin)
    \/ (OnKeeper /\ Proc!CodexCancels) \/ (OnKeeper /\ Proc!CodexRefreshes)
    \/ (OnKeeper /\ Proc!CodexLogsOut) \/ (OnKeeper /\ Proc!PersonAnswers)
    \/ (OnKeeper /\ Proc!CodexDies)

AllNext ==
    OpenNext \/ CodexNext \/ StartNext \/ KeeperNext

AllSpec == AllInit /\ [][AllNext]_all

-----------------------------------------------------------------------------
\* A failed Open and a finished Close leave no harness running, and a Session is
\* idle only before its harness's exit was reported (SessionOpen's PhaseIsTrue).  An
\* input runs once in codex or not at all, one reported as not submitted never
\* ran, and what is reported of a turn is what it did (codex transport).  Sessions
\* start their codex one at a time, leave no codex of a failed start and run on a
\* whole home whose native files agree (codex start, provision).  A sign-in is
\* told how it ended, a sign-out forgets the credential, a closed keeper leaves no
\* codex and takes back what a session refreshed (codex keeper).
CodexIsTrue ==
    /\ TypeOK /\ PhaseIsTrue
    /\ part = "codex" =>
        Codex!TypeOK /\ Codex!RunsOnce /\ Codex!NotSubmittedNeverRan /\ Codex!ReportsAreTrue
    /\ part = "start" =>
        /\ Proc!StartTypeOK /\ Proc!StartsTakeTurns /\ Proc!NoCodexIsLeft
        /\ Proc!LoadedIsWhole /\ Proc!NativeAgrees
    /\ part = "keeper" =>
        /\ Proc!KeeperTypeOK /\ Proc!SignInIsTold /\ Proc!SignOutForgets
        /\ Proc!NothingIsLeft /\ Proc!LentIsTaken
=============================================================================
