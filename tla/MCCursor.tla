------------------------------ MODULE MCCursor ------------------------------
(* The adapter's delivery cursor, extended for its assumptions and its       *)
(* theorems, and, one at a time, the readers of the harnesses' own records   *)
(* (Records, ClaudeRecord) and the programs that deliver what a run said to  *)
(* their caller (Job, Commands).                                             *)
EXTENDS Cursor

VARIABLE part       \* the component followed
\* The state of the component followed, by position.
VARIABLES
    s1, s2, s3, s4, s5, s6, s7, s8, s9, s10, s11, s12, s13, s14, s15, s16, s17, s18

SomeBounds == {1, 2, 4}

Follows == { [inodes |-> TRUE, native |-> TRUE, damage |-> TRUE, crash |-> TRUE],
             [inodes |-> FALSE, native |-> FALSE, damage |-> TRUE, crash |-> FALSE],
             [inodes |-> FALSE, native |-> FALSE, damage |-> FALSE, crash |-> TRUE] }

ClaudeRun == [lag |-> FALSE, expires |-> FALSE, hooks |-> FALSE, own |-> FALSE, restarts |-> FALSE]
ClaudeRuns == { [ClaudeRun EXCEPT !.hooks = TRUE, !.own = TRUE, !.restarts = TRUE],
                [ClaudeRun EXCEPT !.lag = TRUE, !.restarts = TRUE],
                [ClaudeRun EXCEPT !.lag = TRUE, !.hooks = TRUE, !.expires = TRUE] }

Jobs == { [mode |-> m, hooks |-> h, stream |-> s, sessions |-> TRUE, sink |-> k, fails |-> f] :
          m \in {"hooks", "stream", "off"}, h, s, k \in BOOLEAN, f \in {2, 99} }

OneShots == { [cmd |-> c, exit |-> c # "api" \/ e, contained |-> k, quits |-> q] :
              c \in {"structured", "run", "api"}, e, k, q \in BOOLEAN }

\* Two names, the first of which begins the second.
TmuxNames == {"a", "ab"}
NameBegins(n, m) == n = "a" /\ m = "ab"

Environments == { [machine |-> m, contain |-> c, retention |-> r, injectors |-> n] :
                  m \in {"local", "remote"}, c \in {"none", "openshell"},
                  r \in {"never", "always", "keep-on-failure"}, n \in {0, 2} }

Rec == INSTANCE Records WITH
    setting <- s1, files <- s2, cur <- s3, record <- s4, damage <- s5, cp <- s6, poll <- s7,
    batch <- s8, db <- s9, gens <- s10, crashes <- s11, torn <- s12, file <- s1, codex <- s2,
    truth <- s3, pos <- s4, st <- s5, recorded <- s6, restarts <- s7, Settings <- Follows,
    MaxRecords <- 5, MaxDamage <- 1, MaxCrashes <- 1, Window <- 1, MaxBatch <- 2, MaxInputs <- 2,
    MaxTurns <- 3, MaxEntries <- 6, MaxRestarts <- 1
Cl == INSTANCE ClaudeRecord WITH
    setting <- s1, file <- s2, claude <- s3, truth <- s4, pos <- s5, st <- s6, recorded <- s7,
    restarts <- s8, late <- s9, Settings <- ClaudeRuns, MaxInputs <- 3, MaxEntries <- 6,
    MaxRestarts <- 1
Job == INSTANCE Job WITH
    envSetting <- s1, envPc <- s2, ctx <- s3, machine <- s4, sandbox <- s5, composed <- s6,
    token <- s7, staged <- s8, redacted <- s9, unwind <- s10, errs <- s11, destroyed <- s12,
    torndown <- s13, outcome <- s14, result <- s15, calls <- s16, unremoved <- s17, lost <- s18,
    jobSetting <- s1, jobPc <- s2, said <- s3, written <- s4, spool <- s5, cancelled <- s6,
    tapVars <- s7, push <- s8, display <- s9, shown <- s10, dropped <- s11, strategy <- s12,
    EnvSettings <- Environments, MaxDestroys <- 2, JobSettings <- Jobs, MaxRecords <- 3,
    MaxHooks <- 2, DisplayCap <- 2
Cmd == INSTANCE Commands WITH
    oneShotSetting <- s1, pc <- s2, ctx <- s3, proc <- s4, control <- s5, turn <- s6,
    turnEvents <- s7, others <- s8, res <- s9, err <- s10, oneShotState <- s11, report <- s12,
    sessions <- s1, dead <- s2, remain <- s3, phase <- s4, named <- s5, asked <- s6, traced <- s7,
    untraced <- s8, spawning <- s9, reaping <- s10, status <- s11, server <- s1, doomed <- s2,
    convs <- s3, convState <- s4, holder <- s5, tokens <- s6, knows <- s7, request <- s8,
    events <- s9, subs <- s10, fanClosed <- s11, got <- s12, from <- s13, breach <- s14,
    OneShotSettings <- OneShots, MaxOthers <- 1, Names <- TmuxNames, Begins <- NameBegins,
    MaxSpawns <- 2, Requests <- {1, 2}, Clients <- {"a"}, Convs <- {1}, Buffer <- 1,
    MaxEvents <- 1

state == <<s1, s2, s3, s4, s5, s6, s7, s8, s9, s10, s11, s12, s13, s14, s15, s16, s17, s18>>
all == <<part, vars, state>>

OnCursor == part = "cursor" /\ UNCHANGED <<part, state>>
OnFollow == part = "follower" /\ UNCHANGED <<part, vars, s13, s14, s15, s16, s17, s18>>
OnCl == part = "claude" /\ UNCHANGED <<part, vars, s10, s11, s12, s13, s14, s15, s16, s17, s18>>
OnRollout == part = "codex" /\ UNCHANGED <<part, vars, s8, s9, s10, s11, s12, s13, s14, s15, s16, s17, s18>>
OnJob == part = "job" /\ UNCHANGED <<part, vars, s13, s14, s15, s16, s17, s18>>
OnOneShot == part = "oneshot" /\ UNCHANGED <<part, vars, s13, s14, s15, s16, s17, s18>>
OnTmux == part = "tmux" /\ UNCHANGED <<part, vars, s12, s13, s14, s15, s16, s17, s18>>
OnEnv == part = "env" /\ UNCHANGED <<part, vars>>
OnChatd == part = "chatd" /\ UNCHANGED <<part, vars, s15, s16, s17, s18>>

-----------------------------------------------------------------------------
\* Variables the component followed has no use for.
Unused(from) ==
    /\ (from < 1 => s1 = 0) /\ (from < 2 => s2 = 0) /\ (from < 3 => s3 = 0)
    /\ (from < 4 => s4 = 0) /\ (from < 5 => s5 = 0) /\ (from < 6 => s6 = 0)
    /\ (from < 7 => s7 = 0) /\ (from < 8 => s8 = 0) /\ (from < 9 => s9 = 0)
    /\ (from < 10 => s10 = 0) /\ (from < 11 => s11 = 0) /\ (from < 12 => s12 = 0)
    /\ (from < 13 => s13 = 0) /\ (from < 14 => s14 = 0) /\ (from < 15 => s15 = 0)
    /\ (from < 16 => s16 = 0) /\ (from < 17 => s17 = 0) /\ (from < 18 => s18 = 0)

AllInit ==
    /\ Init
    /\ \/ part = "cursor" /\ Unused(0)
       \/ part = "follower" /\ Rec!FollowInit /\ Unused(12)
       \/ part = "claude" /\ Cl!Init /\ Unused(9)
       \/ part = "codex" /\ Rec!RolloutInit /\ Unused(7)
       \/ part = "job" /\ Job!JobInit /\ Unused(12)
       \/ part = "oneshot" /\ Cmd!OneShotInit /\ Unused(12)
       \/ part = "tmux" /\ Cmd!TmuxInit /\ Unused(11)
       \/ part = "env" /\ Job!EnvInit
       \/ part = "chatd" /\ Cmd!ChatdInit /\ Unused(14)

CursorNext ==
    \/ (OnCursor /\ WriteRecord) \/ (OnCursor /\ Push) \/ (OnCursor /\ Exit)
    \/ (OnCursor /\ Observe) \/ (OnCursor /\ ReadCheck("observe"))
    \/ (OnCursor /\ ReadReader("observe")) \/ (OnCursor /\ ReadInstall("observe"))
    \/ (OnCursor /\ Build) \/ (OnCursor /\ Store) \/ (OnCursor /\ Ack) \/ (OnCursor /\ Commit)
    \/ (OnCursor /\ DrainStart) \/ (OnCursor /\ DrainBusy) \/ (OnCursor /\ ReadCheck("drain"))
    \/ (OnCursor /\ ReadReader("drain")) \/ (OnCursor /\ ReadInstall("drain"))
    \/ (OnCursor /\ Crash)

FollowNext ==
    \/ (OnFollow /\ Rec!Append1) \/ (OnFollow /\ Rec!Truncate) \/ (OnFollow /\ Rec!Replace)
    \/ (OnFollow /\ Rec!PollOpens) \/ (OnFollow /\ Rec!PollVerifies) \/ (OnFollow /\ Rec!PollReads)
    \/ (OnFollow /\ Rec!Store) \/ (OnFollow /\ Rec!StoreReset) \/ (OnFollow /\ Rec!Ack)
    \/ (OnFollow /\ Rec!Crash)

ClNext ==
    \/ (OnCl /\ Cl!ClaudePrompted) \/ (OnCl /\ Cl!ClaudeLagged) \/ (OnCl /\ Cl!ClaudeNotified)
    \/ (OnCl /\ Cl!ClaudeReplies) \/ (OnCl /\ Cl!ClaudeFinishes) \/ (OnCl /\ Cl!ClaudeStops)
    \/ (OnCl /\ Cl!ClaudeFails) \/ (OnCl /\ Cl!ClaudeWithdraws) \/ (OnCl /\ Cl!Read)
    \/ (OnCl /\ Cl!Restart)

RolloutNext ==
    \/ (OnRollout /\ Rec!CodexStarts) \/ (OnRollout /\ Rec!CodexTakesInput)
    \/ (OnRollout /\ Rec!CodexSays) \/ (OnRollout /\ Rec!CodexEnds)
    \/ (OnRollout /\ Rec!CodexReplaces) \/ (OnRollout /\ Rec!CodexAbortsLate)
    \/ (OnRollout /\ Rec!Read) \/ (OnRollout /\ Rec!Restart)

JobNext ==
    \/ (OnJob /\ Job!Say) \/ (OnJob /\ Job!Write) \/ (OnJob /\ Job!HookFires) \/ (OnJob /\ Job!Line)
    \/ (OnJob /\ Job!EvictStep) \/ (OnJob /\ Job!Retry) \/ (OnJob /\ Job!Show)
    \/ (OnJob /\ Job!Exit) \/ (OnJob /\ Job!Finish)

OneShotNext ==
    \/ (OnOneShot /\ Cmd!CtxEnds) \/ (OnOneShot /\ Cmd!TurnEnds) \/ (OnOneShot /\ Cmd!OtherEvent)
    \/ (OnOneShot /\ Cmd!ConversationFails) \/ (OnOneShot /\ Cmd!Dies)
    \/ (OnOneShot /\ Cmd!BadArguments) \/ (OnOneShot /\ Cmd!GoodArguments)
    \/ (OnOneShot /\ Cmd!Open) \/ (OnOneShot /\ Cmd!Control) \/ (OnOneShot /\ Cmd!OneShotSend)
    \/ (OnOneShot /\ Cmd!Deadline) \/ (OnOneShot /\ Cmd!NextEvent) \/ (OnOneShot /\ Cmd!Quit)
    \/ (OnOneShot /\ Cmd!Close) \/ (OnOneShot /\ Cmd!Structured) \/ (OnOneShot /\ Cmd!Run)
    \/ (OnOneShot /\ Cmd!Api)

TmuxNext ==
    \/ \E n \in TmuxNames :
           \/ (OnTmux /\ Cmd!RunTmuxSpawn(n)) \/ (OnTmux /\ Cmd!RemainOnExitOff(n))
           \/ (OnTmux /\ Cmd!RunTmuxKill(n)) \/ (OnTmux /\ Cmd!ReapKills(n))
           \/ (OnTmux /\ Cmd!RunTmuxStatus(n))
    \/ (OnTmux /\ Cmd!ReapLists)
    \/ \E c \in Cmd!Children :
           \/ (OnTmux /\ Cmd!OpenTrace(c)) \/ (OnTmux /\ Cmd!RunEnds(c))
           \/ (OnTmux /\ Cmd!CloseTrace(c)) \/ (OnTmux /\ Cmd!StopSignalWatcher(c))
           \/ (OnTmux /\ Cmd!TmuxSelfTeardown(c))

EnvNext ==
    \/ (OnEnv /\ Job!ContextEnds) \/ (OnEnv /\ Job!Preflight) \/ (OnEnv /\ Job!Create)
    \/ (OnEnv /\ Job!Checks) \/ (OnEnv /\ Job!DeleteLeftover) \/ (OnEnv /\ Job!StagePolicy)
    \/ (OnEnv /\ Job!CreateSandbox) \/ (OnEnv /\ Job!PrepareLayout) \/ (OnEnv /\ Job!Inject)
    \/ (OnEnv /\ Job!TeardownStep) \/ (OnEnv /\ Job!InnerStep) \/ (OnEnv /\ Job!CleanupStep)
    \/ (OnEnv /\ Job!Return) \/ (OnEnv /\ Job!Sweep)
    \/ \E o \in {"success", "failure"} : (OnEnv /\ Job!Destroy(o))

ChatdNext ==
    \/ \E r \in {1, 2} :
           \/ \E cl \in {"a"} :
                  \/ (OnChatd /\ Cmd!Arrives(r, "open", 0, cl))
                  \/ (OnChatd /\ Cmd!Arrives(r, "turn", 0, cl))
                  \/ \E k \in {"close", "acquire", "release", "send", "answer", "events"}, c \in {1} : (OnChatd /\ Cmd!Arrives(r, k, c, cl))
           \/ (OnChatd /\ Cmd!HangsUp(r))
           \/ \E k \in {"acquire", "release", "send", "answer", "events"} : (OnChatd /\ Cmd!Lookup(r, k))
           \/ (OnChatd /\ Cmd!OpenConv(r)) \/ (OnChatd /\ Cmd!OpenEnters(r))
           \/ (OnChatd /\ Cmd!CloseConvTakes(r)) \/ (OnChatd /\ Cmd!CloseConvReleases(r)) \/ (OnChatd /\ Cmd!CloseConvStops(r))
           \/ (OnChatd /\ Cmd!RunTurn(r)) \/ (OnChatd /\ Cmd!RunTurnEnds(r))
           \/ (OnChatd /\ Cmd!ControlGranted(r)) \/ (OnChatd /\ Cmd!ControlRefused(r))
           \/ (OnChatd /\ Cmd!GrantIsMade(r)) \/ (OnChatd /\ Cmd!TokenIsTold(r))
           \/ (OnChatd /\ Cmd!ReleaseControl(r)) \/ (OnChatd /\ Cmd!SendChecks(r))
           \/ (OnChatd /\ Cmd!ChatdSend(r)) \/ (OnChatd /\ Cmd!AnswerInput(r))
           \/ (OnChatd /\ Cmd!StreamSubscribes(r)) \/ (OnChatd /\ Cmd!StreamOpens(r))
           \/ (OnChatd /\ Cmd!StreamWrites(r)) \/ (OnChatd /\ Cmd!StreamEnds(r))
    \/ \E c \in {1} :
           \/ (OnChatd /\ Cmd!HarnessExits(c)) \/ (OnChatd /\ Cmd!HarnessReports(c))
           \/ (OnChatd /\ Cmd!ShutdownCloses(c))
    \/ (OnChatd /\ Cmd!Shutdown) \/ (OnChatd /\ Cmd!ListenerCloses) \/ (OnChatd /\ Cmd!ServerExits)

AllNext ==
    CursorNext \/ FollowNext \/ ClNext \/ RolloutNext \/ JobNext \/ OneShotNext \/ TmuxNext \/
    EnvNext \/ ChatdNext

AllSpec == AllInit /\ [][AllNext]_all

-----------------------------------------------------------------------------
\* A reader of a harness's own record says what the record says: each record is
\* stored once and in order, however the file was replaced (Follower.Poll); a
\* turn ends the way the harness ended it (the claude and codex readers).
RecordsAgree ==
    /\ TypeOK
    /\ part = "follower" => Rec!FollowTypeOK /\ Rec!StoredOnce /\ Rec!Extends
    /\ part = "claude" => Cl!TypeOK /\ Cl!EndIsClaudes /\ Cl!EndIsFound
    /\ part = "codex" => Rec!RolloutTypeOK /\ Rec!RolloutAgrees

\* A job's transcript has one source and is whole, its display is current and a
\* failed delivery fails it fast (harness.Run); a one-shot command leaves no
\* harness and exits with its turn's status (oneshot.Run).  What hosts a run gives
\* back what it took: a finished run's tmux session goes (runTmuxChild), an
\* environment that failed to come up leaves nothing and one that is destroyed is
\* destroyed whole (Env.Up, Destroy); the daemon leaves no unlisted conversation
\* running and none locked by a token nobody was told, and an event stream misses
\* no event (Server).
RunsAreHosted ==
    /\ part = "job" =>
         /\ Job!JobTypeOK /\ Job!OneSource /\ Job!TranscriptIsWhole /\ Job!FailsFast
         /\ Job!DisplayIsCurrent
    /\ part = "oneshot" => Cmd!OneShotTypeOK /\ Cmd!NoOrphan /\ Cmd!StatusIsTrue
    /\ part = "tmux" => Cmd!TmuxTypeOK /\ Cmd!FinishedRunsLeave
    /\ part = "env" =>
         /\ Job!EnvTypeOK /\ Job!FailureLeavesNothing /\ Job!DestroyKeepsWhole
         /\ Job!CredentialsAreWatched
    /\ part = "chatd" =>
         /\ Cmd!ChatdTypeOK /\ Cmd!UnlistedIsStopped /\ Cmd!NoTokenIsLost
         /\ Cmd!StreamIsWhole
=============================================================================
