------------------------------ MODULE Commands ------------------------------
(***************************************************************************)
(* The commands: a one-shot run, a run in a tmux session, and the daemon that*)
(* hosts conversations.  They are three machines, each with its variables. *)
(***************************************************************************)
EXTENDS Integers, Sequences, FiniteSets

-----------------------------------------------------------------------------
(* One turn as a job: harness.RunTurn opens a conversation, sends the      *)
(* prompt, waits for its turn to end and stops the harness; oneshot        *)
(* classifies what came back; the `structured-run` and `run` commands      *)
(* report it as one result line and an exit code.  The conversation is     *)
(* reduced to what RunTurn sees of it (its own model is Conversation).     *)

CONSTANTS OneShotSettings,     \* cmd, exit, contained, quits
          MaxOthers     \* events of other turns

VARIABLES
    oneShotSetting, pc,
    ctx,         \* "live", "deadline", "cancelled" (a signal)
    proc,        \* the harness: "none", "up", "gone"
    control,     \* RunTurn holds the conversation's control
    turn,        \* the prompt's turn: "none", "running", "complete", "errored", "interrupted"
    turnEvents,      \* Conversation.Events, unread; "closed" is its end
    others,
    res,         \* TurnResult: session seen, turn state, transcript-backed history
    err,         \* what RunTurn returned
    oneShotState,       \* the private state structured-run lends a contained launch
    report       \* status, exit code and lines printed
oneShotVars == <<oneShotSetting, pc, ctx, proc, control, turn, turnEvents, others, res, err, oneShotState, report>>

NoResult == [session |-> FALSE, turn |-> "none", transcript |-> FALSE]
NoReport == [status |-> "none", exit |-> -1, lines |-> 0, entries |-> FALSE]
OneShotInit ==
    /\ oneShotSetting \in OneShotSettings
    /\ pc = "args" /\ ctx = "live" /\ proc = "none" /\ control = FALSE /\ turn = "none"
    /\ turnEvents = <<>> /\ others = 0 /\ res = NoResult /\ err = "none" /\ oneShotState = "none"
    /\ report = NoReport

CtxErr == IF ctx = "live" THEN {} ELSE {ctx}

\* Outside: the deadline passes or a signal comes; the harness works, dies.
harness == <<proc, turn, turnEvents, others>>
CtxEnds ==
    /\ ctx = "live" /\ pc \notin {"args", "done"} /\ ctx' \in {"deadline", "cancelled"}
    /\ UNCHANGED <<oneShotSetting, pc, harness, control, res, err, oneShotState, report>>
TurnEnds ==
    /\ turn = "running" /\ proc = "up"
    /\ \E s \in {"complete", "errored", "interrupted"} : turn' = s /\ turnEvents' = Append(turnEvents, s)
    /\ UNCHANGED <<oneShotSetting, pc, ctx, proc, others, control, res, err, oneShotState, report>>
OtherEvent ==
    /\ proc = "up" /\ others < MaxOthers /\ others' = others + 1
    /\ turnEvents' = Append(turnEvents, "other")
    /\ UNCHANGED <<oneShotSetting, pc, ctx, proc, turn, control, res, err, oneShotState, report>>
ConversationFails ==
    /\ proc = "up" /\ others < MaxOthers /\ others' = others + 1
    /\ turnEvents' = Append(turnEvents, "err")
    /\ UNCHANGED <<oneShotSetting, pc, ctx, proc, turn, control, res, err, oneShotState, report>>
Dies ==
    /\ proc = "up" /\ proc' = "gone" /\ turnEvents' = Append(turnEvents, "closed")
    /\ turn' = IF turn = "running" THEN "errored" ELSE turn
    /\ UNCHANGED <<oneShotSetting, pc, ctx, others, control, res, err, oneShotState, report>>

-----------------------------------------------------------------------------
\* runStructuredRun, runOneShot: arguments, harness, prompt; for a contained
\* turn, the state it will read the transcript from.
BadArguments ==
    /\ pc = "args" /\ oneShotSetting.cmd # "api"
    /\ report' = [NoReport EXCEPT !.status = "startup_error", !.exit = IF oneShotSetting.cmd = "run" THEN 2 ELSE 1,
                                  !.lines = IF oneShotSetting.cmd = "run" THEN 0 ELSE 1]
    /\ pc' = "done"
    /\ UNCHANGED <<oneShotSetting, ctx, harness, control, res, err, oneShotState>>
GoodArguments ==
    /\ pc = "args" /\ pc' = "open"
    /\ oneShotState' = IF oneShotSetting.cmd = "structured" /\ oneShotSetting.contained THEN "held" ELSE oneShotState
    /\ UNCHANGED <<oneShotSetting, ctx, harness, control, res, err, report>>

\* RunTurn up to the turn: each failure returns an empty result.
Open ==
    /\ pc = "open"
    /\ \/ proc' = "up" /\ pc' = "control" /\ UNCHANGED err
       \/ \E e \in {"open"} \cup CtxErr : err' = e /\ pc' = "returned" /\ UNCHANGED proc
    /\ UNCHANGED <<oneShotSetting, ctx, turn, turnEvents, others, control, res, oneShotState, report>>
Control ==
    /\ pc = "control"
    /\ \/ control' = TRUE /\ pc' = "send" /\ UNCHANGED err
       \/ \E e \in CtxErr \cup IF proc = "gone" THEN {"closed"} ELSE {} : err' = e /\ pc' = "close" /\ UNCHANGED control
    /\ UNCHANGED <<oneShotSetting, ctx, harness, res, oneShotState, report>>
\* A Send that failed may have submitted the prompt all the same.
OneShotSend ==
    /\ pc = "send"
    /\ \/ proc = "up" /\ turn' = "running" /\ pc' = "wait" /\ UNCHANGED <<err, control>>
       \/ /\ \E e \in {"input pending"} \cup CtxErr \cup IF proc = "gone" THEN {"closed"} ELSE {} : err' = e
          /\ turn' \in IF proc = "up" THEN {"none", "running"} ELSE {"none"}
          /\ pc' = "close" /\ control' = FALSE
    /\ UNCHANGED <<oneShotSetting, ctx, proc, turnEvents, others, res, oneShotState, report>>

Snapshot(t) == [NoResult EXCEPT !.session = TRUE, !.turn = t]
\* runConversationTurn's loop: the context or the next event, either when both
\* are there; events of other turns are passed over.
AnyEvent(e) == e \in {"complete", "other"}
OwnEnd(e) == e = "complete"
DeadlineReturns ==
    /\ pc = "wait" /\ ctx # "live"
    /\ res' = Snapshot("none") /\ err' = ctx /\ pc' = "returned" /\ control' = FALSE
    /\ UNCHANGED <<oneShotSetting, ctx, harness, oneShotState, report>>
Deadline ==
    /\ pc = "wait" /\ ctx # "live"
    /\ res' = Snapshot("none") /\ err' = ctx /\ pc' = "close" /\ control' = FALSE
    /\ UNCHANGED <<oneShotSetting, ctx, harness, oneShotState, report>>
NextEvent ==
    /\ pc = "wait" /\ turnEvents # <<>>
    /\ LET e == Head(turnEvents) IN
       /\ turnEvents' = IF e = "closed" THEN turnEvents ELSE Tail(turnEvents)
       /\ IF OwnEnd(e)
          THEN /\ res' = Snapshot("complete") /\ control' = FALSE /\ UNCHANGED err
               /\ pc' = IF oneShotSetting.exit THEN "quit" ELSE "returned"
          ELSE IF e = "other" THEN UNCHANGED <<res, err, pc, control>>
          ELSE /\ res' = Snapshot(IF e \in {"closed", "err"} THEN "none" ELSE e)
               /\ err' = CASE e = "closed" -> "closed" [] e = "err" -> "transport" [] OTHER -> "turn"
               /\ pc' = "close" /\ control' = FALSE
    /\ UNCHANGED <<oneShotSetting, ctx, proc, turn, others, oneShotState, report>>

\* A turn that ended well: the harness is asked to quit and given a moment, the
\* result refreshed from what it flushed; Close stops it in any case.
Quit ==
    /\ pc = "quit" /\ pc' = "close"
    /\ \/ /\ oneShotSetting.quits
          /\ proc' \in {proc, "gone"}
          /\ res' = [res EXCEPT !.transcript = TRUE]
       \/ UNCHANGED <<proc, res>>
    /\ UNCHANGED <<oneShotSetting, ctx, turn, turnEvents, others, control, err, oneShotState, report>>
Close ==
    /\ pc = "close" /\ proc' = "gone" /\ pc' = "returned"
    /\ turn' = IF turn = "running" THEN "errored" ELSE turn
    /\ UNCHANGED <<oneShotSetting, ctx, turnEvents, others, control, res, err, oneShotState, report>>

-----------------------------------------------------------------------------
\* Classify looks at the error; the turn's state counts only without one.
Classify ==
    CASE err = "none" -> IF res.turn = "complete" THEN "completed" ELSE "errored"
      [] err = "deadline" -> "deadline"
      [] err \in {"turn", "closed"} -> "errored"
      [] OTHER -> IF res.session THEN "errored" ELSE "startup_error"
ExitCode(status) == CASE status = "completed" -> 0 [] status = "deadline" -> 124 [] OTHER -> 1

\* The transcript is read back before the deferred removal of the state.
Structured ==
    /\ pc = "returned" /\ oneShotSetting.cmd = "structured" /\ pc' = "done"
    /\ \E readable \in BOOLEAN :
         report' = [status |-> Classify, exit |-> ExitCode(Classify), lines |-> 1,
                    entries |-> readable /\ proc # "none" /\ oneShotState # "removed"]
    /\ oneShotState' = IF oneShotState = "held" THEN "removed" ELSE oneShotState
    /\ UNCHANGED <<oneShotSetting, ctx, harness, control, res, err>>
\* `run` prints the reply of a turn that ended, well or not, and nothing else.
Run ==
    /\ pc = "returned" /\ oneShotSetting.cmd = "run" /\ pc' = "done"
    /\ report' = [NoReport EXCEPT !.exit = IF err = "none" THEN 0 ELSE 1,
                                  !.lines = IF err \in {"none", "turn"} THEN 1 ELSE 0,
                                  !.status = IF err = "none" THEN "completed" ELSE "errored"]
    /\ UNCHANGED <<oneShotSetting, ctx, harness, control, res, err, oneShotState>>
Api == /\ pc = "returned" /\ oneShotSetting.cmd = "api" /\ pc' = "done"
       /\ UNCHANGED <<oneShotSetting, ctx, harness, control, res, err, oneShotState, report>>

OneShotNext ==
    \/ CtxEnds \/ TurnEnds \/ OtherEvent \/ ConversationFails \/ Dies
    \/ BadArguments \/ GoodArguments \/ Open \/ Control \/ OneShotSend
    \/ Deadline \/ NextEvent \/ Quit \/ Close
    \/ Structured \/ Run \/ Api
OneShotSpec == OneShotInit /\ [][OneShotNext]_oneShotVars

-----------------------------------------------------------------------------
OneShotTypeOK ==
    /\ proc \in {"none", "up", "gone"} /\ ctx \in {"live", "deadline", "cancelled"}
    /\ turn \in {"none", "running", "complete", "errored", "interrupted"}
    /\ report.status \in {"none", "completed", "errored", "deadline", "startup_error"}

\* RunTurn leaves no harness behind: once it returned, with an error or told to
\* exit after the turn, the process is gone and its control released; it hands
\* over a live conversation only with a completed turn.
NoOrphan ==
    pc \in {"returned", "done"} =>
      /\ ~control
      /\ proc = "up" => ~oneShotSetting.exit /\ err = "none" /\ res.turn = "complete"

\* What is reported is what happened: completed (and exit 0) exactly when RunTurn
\* saw its own turn complete, the deadline's exit code only when it passed, and
\* one result line whatever happened.
StatusIsTrue ==
    pc = "done" /\ oneShotSetting.cmd # "api" =>
      /\ report.status = "completed" <=> (res.turn = "complete" /\ err = "none")
      /\ report.status = "completed" => turn = "complete"
      /\ report.exit = 0 <=> report.status = "completed"
      /\ report.exit = 124 => ctx = "deadline"
      /\ oneShotSetting.cmd = "structured" => report.lines = 1
      /\ report.entries => report.status # "none"

-----------------------------------------------------------------------------
(* Detached runs: `--tmux-session` spawns a session on harness-wrapper's   *)
(* own tmux server whose pane re-enters the binary as a --tmux-child; the  *)
(* child runs the harness, flushes its trace and kills its own session;    *)
(* `kill`, `status` and `reap` are separate commands on the same server.   *)
(* A name given with -t means the session of that name or, when there is   *)
(* none, the only session whose name it begins (tmux's own rule).          *)

CONSTANTS Names,        \* session names (without the hw- prefix)
          Begins(_, _), \* Begins(n, m): the name n begins the name m
          MaxSpawns

Children == 1..MaxSpawns
Phases == {"none", "opening", "running", "ended", "flushed", "unwatched", "gone"}
VARIABLES
    sessions,    \* the server: the child each session was made for (0: no session)
    dead,        \* sessions kept by remain-on-exit after their pane's process ended
    remain,      \* sessions still under an inherited remain-on-exit
    phase, named, \* each --tmux-child process, and the session name it was given
    asked,       \* children whose SIGHUP arrived while they watched signals
    traced,      \* children whose wrapper_cli_exited event is in the trace file
    untraced,    \* children that ended before running the harness
    spawning,    \* sessions whose spawning command has not cleared remain-on-exit yet
    reaping,     \* `reap`: the dead sessions it listed and has still to kill
    status       \* the last `status`: the session asked for, the one whose trace was read, alive
tmuxVars == <<sessions, dead, remain, phase, named, asked, traced, untraced, spawning, reaping, status>>

NoStatus == [name |-> "none", trace |-> "none", alive |-> FALSE]
TmuxInit ==
    /\ sessions = [n \in Names |-> 0] /\ dead = {} /\ remain = {}
    /\ phase = [c \in Children |-> "none"] /\ asked = {} /\ traced = {} /\ untraced = {}
    /\ named = [c \in Children |-> "none"]
    /\ spawning = {} /\ reaping = {} /\ status = NoStatus

Exists == {n \in Names : sessions[n] # 0}
\* tmux -t: the sessions a target stands for.
Target(n) ==
    LET begun == {m \in Exists : Begins(n, m)}
    IN IF n \in Exists THEN {n} ELSE IF Cardinality(begun) = 1 THEN begun ELSE {}

\* Processes are hung up: a child still watching signals is asked to stop, any other dies.
Watching == {"running", "ended", "flushed"}
HangUp(C) ==
    /\ untraced' = untraced \cup {c \in C : phase[c] = "opening"}
    /\ asked' = asked \cup {c \in C : phase[c] \in Watching}
    /\ phase' = [c \in Children |-> IF c \in C /\ phase[c] \notin Watching THEN "gone" ELSE phase[c]]
\* tmux kill-session -t n, by a process that is itself one of C: the session that n stands
\* for goes, and the process of its pane is hung up.
KillSession(n, C) ==
    /\ sessions' = [m \in Names |-> IF m \in Target(n) THEN 0 ELSE sessions[m]]
    /\ dead' = dead \ Target(n) /\ remain' = remain \ Target(n)
    /\ HangUp({sessions[m] : m \in Target(n)} \cup C)

\* new-session refuses a name in use; remain-on-exit may be inherited from a stray configuration.
RunTmuxSpawn(n) ==
    /\ n \notin Exists
    /\ \E c \in Children :
          /\ phase[c] = "none" /\ \A d \in Children : d < c => phase[d] # "none"
          /\ sessions' = [sessions EXCEPT ![n] = c] /\ phase' = [phase EXCEPT ![c] = "opening"]
          /\ named' = [named EXCEPT ![c] = n]
    /\ remain' \in {remain, remain \cup {n}} /\ spawning' = spawning \cup {n}
    /\ UNCHANGED <<dead, asked, traced, untraced, reaping, status>>
\* The best-effort set-option that follows: on whatever session the name stands for by now.
RemainOnExitOff(n) ==
    /\ n \in spawning /\ spawning' = spawning \ {n}
    /\ remain' \in {remain, remain \ Target(n)}
    /\ UNCHANGED <<sessions, dead, phase, named, asked, traced, untraced, reaping, status>>

\* runHarnessWrapper in the pane.
SessionOf(c) == {n \in Names : sessions[n] = c}
\* The pane's process ended: its session goes, unless remain-on-exit keeps it.
PaneEnds(c) ==
    /\ dead' = dead \cup (SessionOf(c) \cap remain)
    /\ sessions' = [n \in Names |-> IF sessions[n] = c /\ n \notin remain THEN 0 ELSE sessions[n]]
    /\ phase' = [phase EXCEPT ![c] = "gone"]
OpenTrace(c) ==
    /\ phase[c] = "opening"
    /\ \/ phase' = [phase EXCEPT ![c] = "running"] /\ UNCHANGED <<sessions, dead, untraced>>
       \/ untraced' = untraced \cup {c} /\ PaneEnds(c)
    /\ UNCHANGED <<remain, named, asked, traced, spawning, reaping, status>>
\* wrapper.Run returned: the harness ended, failed, or was stopped by the cancelled context.
RunEnds(c) ==
    /\ phase[c] = "running" /\ phase' = [phase EXCEPT ![c] = "ended"]
    /\ UNCHANGED <<sessions, dead, remain, named, asked, traced, untraced, spawning, reaping, status>>
CloseTrace(c) ==
    /\ phase[c] = "ended" /\ phase' = [phase EXCEPT ![c] = "flushed"] /\ traced' = traced \cup {c}
    /\ UNCHANGED <<sessions, dead, remain, named, asked, untraced, spawning, reaping, status>>
StopSignalWatcher(c) ==
    /\ phase[c] = "flushed" /\ phase' = [phase EXCEPT ![c] = "unwatched"]
    /\ UNCHANGED <<sessions, dead, remain, named, asked, traced, untraced, spawning, reaping, status>>
\* Mutant: a finished child just exits.
ExitOnly(c) ==
    /\ phase[c] = "unwatched" /\ PaneEnds(c)
    /\ UNCHANGED <<remain, named, asked, traced, untraced, spawning, reaping, status>>
\* The last thing a --tmux-child does: kill the session it was given the name of.
TmuxSelfTeardown(c) ==
    /\ phase[c] = "unwatched" /\ KillSession(named[c], {c})
    /\ UNCHANGED <<named, traced, spawning, reaping, status>>

-----------------------------------------------------------------------------
\* The other commands.
RunTmuxKill(n) ==
    /\ Exists # {} /\ KillSession(n, {})
    /\ UNCHANGED <<named, traced, spawning, reaping, status>>
\* deadHWSessions: every pane of the session is dead.
ReapLists ==
    /\ reaping = {} /\ dead # {} /\ reaping' = dead
    /\ UNCHANGED <<sessions, dead, remain, phase, named, asked, traced, untraced, spawning, status>>
ReapKills(n) ==
    /\ n \in reaping /\ reaping' = reaping \ {n}
    /\ KillSession(n, {})
    /\ UNCHANGED <<named, traced, spawning, status>>
\* The trace of the session that n stands for, or n's default one; then has-session -t n.
RunTmuxStatus(n) ==
    /\ status' = [name |-> n, alive |-> Target(n) # {},
                  trace |-> IF Target(n) = {} THEN n ELSE CHOOSE m \in Target(n) : TRUE]
    /\ UNCHANGED <<sessions, dead, remain, phase, named, asked, traced, untraced, spawning, reaping>>

TmuxNext ==
    \/ \E n \in Names : RunTmuxSpawn(n) \/ RemainOnExitOff(n) \/ RunTmuxKill(n) \/ ReapKills(n)
                         \/ RunTmuxStatus(n)
    \/ ReapLists
    \/ \E c \in Children : OpenTrace(c) \/ RunEnds(c) \/ CloseTrace(c) \/ StopSignalWatcher(c)
                            \/ TmuxSelfTeardown(c)
TmuxSpec == TmuxInit /\ [][TmuxNext]_tmuxVars

-----------------------------------------------------------------------------
TmuxTypeOK ==
    /\ sessions \in [Names -> 0..MaxSpawns] /\ dead \subseteq Exists /\ remain \subseteq Names
    /\ phase \in [Children -> Phases] /\ named \in [Children -> Names \cup {"none"}]
    /\ asked \subseteq Children /\ traced \subseteq Children /\ untraced \subseteq Children
    /\ spawning \subseteq Names /\ reaping \subseteq Names
    /\ status.name \in Names \cup {"none"} /\ status.alive \in BOOLEAN

\* However its run ends - by itself, by `kill`, by its own teardown - a child that ran the
\* harness leaves its final event in the trace: the teardown that destroys its pane comes last.
ExitIsTraced == \A c \in Children : phase[c] = "gone" => c \in traced \cup untraced
\* A finished run leaves no session behind, whatever remain-on-exit is: only a child that never
\* ran the harness can, and `reap` is there for it.
NothingStranded == \A n \in dead : sessions[n] \in untraced
FinishedRunsLeave == ExitIsTraced /\ NothingStranded

-----------------------------------------------------------------------------
(* harness-chatd: HTTP requests served concurrently over a table of open   *)
(* conversations - opening and deleting one, its control token, messages,  *)
(* event streams - each a few steps between locks, any of which may find   *)
(* its client gone; and the daemon's shutdown.  The conversation is what   *)
(* its own modules promise: a control queue, a Close that stops the        *)
(* harness, events in order with the exit last.                            *)

CONSTANTS Requests,      \* 1..n, in the order they arrive
          Clients, Convs,
          Buffer,        \* events a subscriber's channel holds
          MaxEvents

Nobody == "nobody"
Idle == [kind |-> "none", pc |-> "none", client |-> Nobody, conv |-> 0, here |-> TRUE]
VARIABLES
    server,      \* "up", "closing" (Server.Shutdown), "draining" (http.Server.Shutdown), "down"
    doomed,      \* the conversations Shutdown took from the table and has still to close
    convs,       \* Server.convs
    convState,       \* each conversation: "none", "open", "closed"
    holder,      \* the client its control queue has granted control to
    tokens,      \* convEntry.tokens, by the client each was made for
    knows,       \* the tokens clients have been told of
    request,
    events,      \* what each conversation has published
    subs, fanClosed, got,  \* the fan-out: each stream's channel; what its client has been written
    from,        \* how many events there were when a stream's headers went out
    breach       \* ghost: the streams that lost an event, the tokens lost with their response
table == <<convs, convState, holder, tokens, knows>>
fan == <<events, subs, fanClosed, got, from>>
chatdVars == <<server, doomed, table, request, fan, breach>>

\* Some conversations may be open from requests long done.
ChatdInit ==
    /\ server = "up" /\ doomed = {} /\ convs \in SUBSET Convs
    /\ convState = [c \in Convs |-> IF c \in convs THEN "open" ELSE "none"]
    /\ holder = [c \in Convs |-> Nobody]
    /\ tokens = [c \in Convs |-> {}] /\ knows = [c \in Convs |-> {}]
    /\ request = [r \in Requests |-> Idle]
    /\ events = [c \in Convs |-> <<>>] /\ subs = [r \in Requests |-> <<>>]
    /\ fanClosed = {} /\ got = [r \in Requests |-> <<>>] /\ from = [r \in Requests |-> -1]
    /\ breach = {}

\* A request in hand; its step, and its end with a response the client is there to read or not.
At(r, kind, at) == request[r].kind = kind /\ request[r].pc = at
Go(r, at) == request' = [request EXCEPT ![r].pc = at]
Done(r) == request' = [request EXCEPT ![r] = [Idle EXCEPT !.pc = "done"]]
Serving == server \in {"up", "closing"}
Arrives(r, kind, c, client) ==
    /\ Serving /\ request[r] = Idle /\ \A q \in 1..(r - 1) : request[q] # Idle
    /\ request' = [request EXCEPT ![r] = [kind |-> kind, pc |-> "begun", client |-> client, conv |-> c, here |-> TRUE]]
    /\ UNCHANGED <<server, doomed, table, fan, breach>>
\* The client hangs up: r.Context() ends.
HangsUp(r) ==
    /\ request[r].here /\ request[r].kind \in {"acquire", "close", "events"} /\ request[r].pc # "ended"
    /\ request' = [request EXCEPT ![r].here = FALSE]
    /\ breach' = IF request[r].pc = "made" THEN breach \cup {<<"late", request[r].conv>>} ELSE breach
    /\ UNCHANGED <<server, doomed, table, fan>>
\* lookup: the conversation must be in the table.
Lookup(r, kind) ==
    /\ At(r, kind, "begun")
    /\ IF request[r].conv \in convs THEN Go(r, "found") ELSE Done(r)
    /\ UNCHANGED <<server, doomed, table, fan, breach>>

-----------------------------------------------------------------------------
\* openConv: the harness is started on a context of its own, then the conversation is entered.
OpenConv(r) ==
    /\ At(r, "open", "begun")
    /\ \/ \E c \in Convs :
             /\ convState[c] = "none" /\ convState' = [convState EXCEPT ![c] = "open"]
             /\ request' = [request EXCEPT ![r].pc = "opened", ![r].conv = c]
       \/ Done(r) /\ UNCHANGED convState
    /\ UNCHANGED <<server, doomed, convs, holder, tokens, knows, fan, breach>>
OpenEnters(r) ==
    /\ At(r, "open", "opened") /\ convs' = convs \cup {request[r].conv} /\ Done(r)
    /\ UNCHANGED <<server, doomed, convState, holder, tokens, knows, fan, breach>>

Listening(r, c) == /\ request[r].kind = "events" /\ request[r].pc \in {"subscribed", "streaming"}
                   /\ request[r].conv = c /\ c \notin fanClosed
\* fanout.publish: to every subscriber with room; the exit is the last, and closes every channel.
Publish(c, e) ==
    /\ events' = [events EXCEPT ![c] = Append(@, e)]
    /\ subs' = [r \in Requests |->
          IF Listening(r, c) /\ Len(subs[r]) < Buffer THEN Append(subs[r], e) ELSE subs[r]]
    /\ breach' = breach \cup {<<"drop", r>> : r \in {q \in Requests : Listening(q, c) /\ Len(subs[q]) >= Buffer}}
    /\ fanClosed' = IF e = "exited" THEN fanClosed \cup {c} ELSE fanClosed
\* Conversation.Close on a context that is live: the harness stops, and its exit is published.
Stop(c) ==
    /\ convState' = [convState EXCEPT ![c] = "closed"] /\ holder' = [holder EXCEPT ![c] = Nobody]
    /\ IF convState[c] = "open" THEN Publish(c, "exited") ELSE UNCHANGED <<events, subs, fanClosed, breach>>
CloseConvTakes(r) ==
    /\ At(r, "close", "begun")
    /\ IF request[r].conv \in convs
       THEN convs' = convs \ {request[r].conv} /\ Go(r, "deleted")
       ELSE Done(r) /\ UNCHANGED convs
    /\ UNCHANGED <<server, doomed, convState, holder, tokens, knows, fan, breach>>
\* releaseAll: the tokens made so far; a grant whose token is not made yet stands.
CloseConvReleases(r) ==
    /\ At(r, "close", "deleted") /\ Go(r, "taken")
    /\ LET c == request[r].conv IN
       /\ tokens' = [tokens EXCEPT ![c] = {}]
       /\ holder' = [holder EXCEPT ![c] = IF @ \in tokens[c] THEN Nobody ELSE @]
    /\ UNCHANGED <<server, doomed, convs, convState, knows, fan, breach>>
\* Mutant: the graceful stop ends with the request that asked for it.
CloseConvOnRequest(r) ==
    /\ At(r, "close", "taken") /\ Done(r)
    /\ IF request[r].here THEN Stop(request[r].conv) ELSE UNCHANGED <<convState, holder, events, subs, fanClosed, breach>>
    /\ UNCHANGED <<server, doomed, convs, tokens, knows, got, from>>
CloseConvStops(r) ==
    /\ At(r, "close", "taken") /\ Stop(request[r].conv) /\ Done(r)
    /\ UNCHANGED <<server, doomed, convs, tokens, knows, got, from>>
\* runTurn: a conversation for one turn, on the request's context; never in the table, closed
\* however the turn ends.
RunTurn(r) ==
    /\ At(r, "turn", "begun")
    /\ \E c \in Convs : /\ convState[c] = "none" /\ convState' = [convState EXCEPT ![c] = "open"]
                        /\ request' = [request EXCEPT ![r].pc = "taken", ![r].conv = c]
    /\ UNCHANGED <<server, doomed, convs, holder, tokens, knows, fan, breach>>
RunTurnEnds(r) ==
    /\ At(r, "turn", "taken") /\ Stop(request[r].conv) /\ Done(r)
    /\ UNCHANGED <<server, doomed, convs, tokens, knows, got, from>>
\* The harness ends by itself: its conversation stays in the table.
HarnessExits(c) ==
    /\ convState[c] = "open" /\ convState' = [convState EXCEPT ![c] = "exited"] /\ Publish(c, "exited")
    /\ UNCHANGED <<server, doomed, convs, holder, tokens, knows, request, got, from>>
\* A prompt, or anything else it reports of its own accord.
HarnessReports(c) ==
    /\ convState[c] = "open" /\ Len(events[c]) < MaxEvents /\ Publish(c, "report")
    /\ UNCHANGED <<server, doomed, table, request, got, from>>

-----------------------------------------------------------------------------
\* acquireControl: wait in the conversation's queue, then make the token the client is told of.
ControlGranted(r) ==
    /\ At(r, "acquire", "found") /\ convState[request[r].conv] = "open" /\ holder[request[r].conv] = Nobody
    /\ holder' = [holder EXCEPT ![request[r].conv] = request[r].client] /\ Go(r, "granted")
    /\ UNCHANGED <<server, doomed, convs, convState, tokens, knows, fan, breach>>
ControlRefused(r) ==
    /\ At(r, "acquire", "found") /\ (convState[request[r].conv] # "open" \/ ~request[r].here) /\ Done(r)
    /\ UNCHANGED <<server, doomed, table, fan, breach>>
\* Mutant: the grant is kept for whoever asked.
GrantIsKept(r) ==
    /\ At(r, "acquire", "granted")
    /\ tokens' = [tokens EXCEPT ![request[r].conv] = @ \cup {request[r].client}] /\ Go(r, "made")
    /\ UNCHANGED <<server, doomed, convs, convState, holder, knows, fan, breach>>
\* A grant whose client has given up is handed straight on.
GrantIsMade(r) ==
    /\ At(r, "acquire", "granted")
    /\ LET c == request[r].conv IN
       IF request[r].here
       THEN tokens' = [tokens EXCEPT ![c] = @ \cup {request[r].client}] /\ Go(r, "made") /\ UNCHANGED holder
       ELSE holder' = [holder EXCEPT ![c] = IF @ = request[r].client THEN Nobody ELSE @] /\ Done(r) /\ UNCHANGED tokens
    /\ UNCHANGED <<server, doomed, convs, convState, knows, fan, breach>>
\* The response: a client that hung up since the check never learns its token.
TokenIsTold(r) ==
    /\ At(r, "acquire", "made") /\ Done(r)
    /\ LET c == request[r].conv IN
       knows' = IF request[r].here THEN [knows EXCEPT ![c] = @ \cup {request[r].client}] ELSE knows
    /\ UNCHANGED <<server, doomed, convs, convState, holder, tokens, fan, breach>>
ReleaseControl(r) ==
    /\ At(r, "release", "found") /\ Done(r)
    /\ LET c == request[r].conv
           cl == request[r].client
       IN IF cl \in tokens[c]
          THEN /\ tokens' = [tokens EXCEPT ![c] = @ \ {cl}] /\ knows' = [knows EXCEPT ![c] = @ \ {cl}]
               /\ holder' = [holder EXCEPT ![c] = IF @ = cl THEN Nobody ELSE @]
          ELSE UNCHANGED <<tokens, knows, holder>>
    /\ UNCHANGED <<server, doomed, convs, convState, fan, breach>>
\* sendMessage: the token is checked, then the message goes to the conversation, which takes it
\* while anyone holds its control.
SendChecks(r) ==
    /\ At(r, "send", "found")
    /\ IF request[r].client \in tokens[request[r].conv] THEN Go(r, "checked") ELSE Done(r)
    /\ UNCHANGED <<server, doomed, table, fan, breach>>
ChatdSend(r) ==
    /\ At(r, "send", "checked") /\ Done(r)
    /\ LET c == request[r].conv IN
       IF convState[c] = "open" /\ holder[c] # Nobody /\ Len(events[c]) < MaxEvents
       THEN Publish(c, request[r].client)
       ELSE UNCHANGED <<events, subs, fanClosed, breach>>
    /\ UNCHANGED <<server, doomed, table, got, from>>
\* answerInput: the answer is the conversation's to give (Prompts), once the token is checked.
AnswerInput(r) ==
    /\ At(r, "answer", "found") /\ Done(r)
    /\ UNCHANGED <<server, doomed, table, fan, breach>>

-----------------------------------------------------------------------------
\* streamEvents: subscribe, then the headers, then every event.  A closed fan-out ends it at once.
StreamSubscribes(r) ==
    /\ At(r, "events", "found") /\ (IF request[r].conv \in fanClosed THEN Done(r) ELSE Go(r, "subscribed"))
    /\ UNCHANGED <<server, doomed, table, fan, breach>>
StreamOpens(r) ==
    /\ At(r, "events", "subscribed") /\ Go(r, "streaming")
    /\ from' = [from EXCEPT ![r] = Len(events[request[r].conv])]
    /\ UNCHANGED <<server, doomed, table, events, subs, fanClosed, got, breach>>
StreamWrites(r) ==
    /\ At(r, "events", "streaming") /\ subs[r] # <<>>
    /\ got' = [got EXCEPT ![r] = Append(@, Head(subs[r]))] /\ subs' = [subs EXCEPT ![r] = Tail(@)]
    /\ UNCHANGED <<server, doomed, table, request, events, fanClosed, from, breach>>
\* Mutant: a closed fan-out ends the stream, whatever its channel still holds.
StreamEndsEarly(r) ==
    /\ At(r, "events", "streaming")
    /\ ~request[r].here \/ request[r].conv \in fanClosed
    /\ request' = [request EXCEPT ![r].pc = "ended"] /\ subs' = [subs EXCEPT ![r] = <<>>]
    /\ UNCHANGED <<server, doomed, table, events, fanClosed, got, from, breach>>
\* The client has gone, or the channel was closed and is empty: unsubscribed.
StreamEnds(r) ==
    /\ At(r, "events", "streaming")
    /\ ~request[r].here \/ (request[r].conv \in fanClosed /\ subs[r] = <<>>)
    /\ request' = [request EXCEPT ![r].pc = "ended"] /\ subs' = [subs EXCEPT ![r] = <<>>]
    /\ UNCHANGED <<server, doomed, table, events, fanClosed, got, from, breach>>

-----------------------------------------------------------------------------
\* run: on a signal, Server.Shutdown, then http.Server.Shutdown; the listener serves until then.
Shutdown ==
    /\ server = "up" /\ server' = "closing" /\ doomed' = convs /\ convs' = {}
    /\ UNCHANGED <<convState, holder, tokens, knows, request, fan, breach>>
ShutdownCloses(c) ==
    /\ server = "closing" /\ c \in doomed /\ doomed' = doomed \ {c} /\ Stop(c)
    /\ tokens' = [tokens EXCEPT ![c] = {}]
    /\ UNCHANGED <<server, convs, knows, request, got, from>>
ListenerCloses ==
    /\ server = "closing" /\ doomed = {} /\ server' = "draining"
    /\ UNCHANGED <<doomed, table, request, fan, breach>>
\* Once every request is answered (the ten seconds it is given for that are not modelled).
ServerExits ==
    /\ server = "draining" /\ \A r \in Requests : request[r].pc \in {"none", "done", "ended"}
    /\ server' = "down"
    /\ UNCHANGED <<doomed, table, request, fan, breach>>

ChatdNext ==
    \/ \E r \in Requests :
          \/ \E cl \in Clients : \/ Arrives(r, "open", 0, cl) \/ Arrives(r, "turn", 0, cl)
                                 \/ \E k \in {"close", "acquire", "release", "send", "answer", "events"}, c \in Convs :
                                       Arrives(r, k, c, cl)
          \/ HangsUp(r) \/ \E k \in {"acquire", "release", "send", "answer", "events"} : Lookup(r, k)
          \/ OpenConv(r) \/ OpenEnters(r) \/ CloseConvTakes(r) \/ CloseConvReleases(r) \/ CloseConvStops(r)
          \/ RunTurn(r) \/ RunTurnEnds(r) \/ ControlGranted(r) \/ ControlRefused(r) \/ GrantIsMade(r) \/ TokenIsTold(r) \/ ReleaseControl(r)
          \/ SendChecks(r) \/ ChatdSend(r) \/ AnswerInput(r) \/ StreamSubscribes(r) \/ StreamOpens(r) \/ StreamWrites(r) \/ StreamEnds(r)
    \/ \E c \in Convs : HarnessExits(c) \/ HarnessReports(c) \/ ShutdownCloses(c)
    \/ Shutdown \/ ListenerCloses \/ ServerExits
ChatdSpec == ChatdInit /\ [][ChatdNext]_chatdVars

-----------------------------------------------------------------------------
ChatdTypeOK ==
    /\ convs \subseteq Convs /\ doomed \subseteq Convs
    /\ convState \in [Convs -> {"none", "open", "exited", "closed"}]
    /\ \A c \in Convs : tokens[c] \subseteq Clients /\ knows[c] \subseteq Clients
    /\ \A r \in Requests : Len(subs[r]) <= Buffer

\* A conversation out of the table has its harness stopped, unless a request or the shutdown
\* is about to: a client that hangs up in the middle of its DELETE does not leave one running.
UnlistedIsStopped ==
    \A c \in Convs : (convState[c] = "open" /\ c \notin convs \cup doomed)
        => \E r \in Requests : request[r].conv = c /\ request[r].pc \in {"deleted", "taken", "opened"}
\* A conversation is never locked by a client that cannot know it holds its token, except by one
\* that hung up as the answer was being written.
NoTokenIsLost ==
    \A c \in convs : (tokens[c] \ knows[c]) # {} =>
        \/ \E r \in Requests : request[r].conv = c /\ request[r].pc \in {"granted", "made"}
        \/ <<"late", c>> \in breach
\* A client whose stream has answered 200 is written every event from then on, in order, the exit
\* last; unless it fell a whole channel behind.
StreamIsWhole ==
    \A r \in Requests :
        (/\ request[r].kind = "events" /\ request[r].here /\ from[r] >= 0 /\ <<"drop", r>> \notin breach) =>
        LET since == SubSeq(events[request[r].conv], from[r] + 1, Len(events[request[r].conv]))
            seen == got[r] \o subs[r]
        IN /\ Len(seen) >= Len(since)
           /\ SubSeq(seen, Len(seen) - Len(since) + 1, Len(seen)) = since
=============================================================================
