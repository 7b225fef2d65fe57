----------------------------- MODULE TuiSession -----------------------------
(***************************************************************************)
(* The claude-code-tui Harness Adapter (pkg/adapter/claudecodetui): claude *)
(* runs on a terminal, inputs are typed, and what claude does is pieced    *)
(* together by the tracker from two channels that no one orders: the lines *)
(* of claude's debug log and the events its hooks write to a directory.    *)
(* The poll reads the log, then the events, then lets the tracker take     *)
(* both.  claude and its hooks' processes are external; the hook helper's  *)
(* own work (package live) is not.                                         *)
(***************************************************************************)
EXTENDS Integers, Sequences, FiniteSets, SequencesExt

CONSTANTS
    Settings,     \* [inputs, own, asks, errors, faults: how many; readable, continues, dies, interrupts]
    MaxInputs

VARIABLES
    setting,
    proc,         \* the Session's process: "starting" .. "exited"
    k,            \* t.k, the tracker
    read,         \* poll between its two reads: the lines it holds
    sub, intr,    \* Submit and Interrupt, under way
    results,      \* what Submit returned, by input
    reports,      \* what was reported to the Session
    pending,      \* live: the input being typed, for the next prompt
    keys,         \* the terminal's input
    log, events,  \* the debug log's unread lines; the hooks' unread events
    turns,        \* claude's turns
    asks,         \* the permissions claude asked for, each with its hook
    claude        \* [composer, merged, tasks, faults]

code == <<k, read, sub, intr, results, reports>>
world == <<keys, log, turns, asks, claude>>
vars == <<setting, proc, code, pending, events, world>>

Inputs == 1..MaxInputs
Idle == [pc |-> "idle", n |-> 0]

\* A flight: a turn the tracker follows; n = 0 is none.
NoFlight == [n |-> 0, auto |-> FALSE, prompt |-> 0, started |-> FALSE, ended |-> FALSE, turnLine |-> FALSE,
             endLine |-> FALSE, parked |-> "", retried |-> 0, held |-> 0, cancel |-> FALSE, endAt |-> FALSE,
             lost |-> FALSE, escPrompt |-> FALSE]
NotReading == [pc |-> "idle", last |-> FALSE, saw |-> 0, lines |-> <<>>, events |-> <<>>]
NewTracker == [turn |-> NoFlight, own |-> NoFlight, ended |-> 0, up |-> FALSE, engine |-> FALSE, foreign |-> FALSE,
               running |-> FALSE, wipe |-> FALSE, tasks |-> {}, asks |-> <<>>, sent |-> <<>>]
Init ==
    /\ setting \in Settings
    /\ proc = "starting" /\ k = NewTracker /\ read = NotReading
    /\ sub = Idle /\ intr = Idle /\ results = [n \in Inputs |-> "none"] /\ reports = <<>>
    /\ pending = 0 /\ keys = <<>> /\ log = <<>> /\ events = <<>> /\ turns = <<>> /\ asks = <<>>
    /\ claude = [composer |-> <<>>, merged |-> {}, tasks |-> {}, faults |-> 0, up |-> FALSE]

-----------------------------------------------------------------------------
(* The tracker.  A step s holds the tracker and what its reports come to.  *)
Step0(t) == [k |-> t, out |-> <<>>, answers |-> {}, esc |-> FALSE, fatal |-> FALSE]
Report(s, f, kind, what, a) ==
    [s EXCEPT !.out = Append(@, [kind |-> kind, auto |-> f.auto, n |-> f.n, prompt |-> f.prompt, what |-> what, a |-> a])]
Said(kind) == [kind |-> kind, auto |-> FALSE, n |-> 0, prompt |-> 0, what |-> "", a |-> 0]
Put(s, f) == IF f.auto THEN [s EXCEPT !.k.own = f] ELSE [s EXCEPT !.k.turn = f]

SettledAtHook(t) == t.turn.n = 0 \/ t.turn.ended
Settled(t) ==
    /\ t.turn.n = 0 \/ (t.turn.ended /\ t.turn.endLine)
    /\ t.own.n = 0 \/ (t.own.ended /\ t.own.endLine)
    /\ ~t.running
Received(t, n) == t.turn.n = n /\ t.turn.started
Current(t) == IF t.own.n # 0 /\ (~t.own.ended \/ ~t.own.endLine) THEN t.own ELSE t.turn
\* interrupting: every ask waiting is the input's turn's.
Interrupting(t) ==
    IF t.turn.n = 0 THEN t
    ELSE [t EXCEPT !.wipe = TRUE, !.turn.escPrompt = @ \/ t.asks # <<>>]

Background(s, tasks) ==
    IF tasks = s.k.tasks THEN s
    ELSE [s EXCEPT !.k.tasks = tasks,
                   !.out = Append(@, Said("background"))]

\* asks.go.  An ask waiting is [a, raised]; one answered [a, delivered].
RaiseAgain(s) == IF s.k.asks = <<>> THEN s ELSE Report([s EXCEPT !.k.asks[1].raised = TRUE], s.k.turn, "raised", "", Head(s.k.asks).a)
RaiseNext(s) ==
    IF s.k.asks = <<>> \/ Head(s.k.asks).raised THEN s
    ELSE Report([s EXCEPT !.k.asks[1].raised = TRUE], s.k.turn, "raised", "", Head(s.k.asks).a)
Ask(s, a) ==
    LET f == s.k.turn IN
    IF f.n = 0 \/ ~f.started \/ f.ended \/ f.lost THEN [s EXCEPT !.answers = @ \cup {[a |-> a, what |-> "deny"]}]
    ELSE RaiseNext([s EXCEPT !.k.asks = Append(@, [a |-> a, raised |-> FALSE])])
Delivered(s, a) ==
    [s EXCEPT !.k.sent = [i \in DOMAIN @ |-> [@[i] EXCEPT !.delivered = @ \/ s.k.sent[i].a = a]]]
Decided(s) == IF s.k.sent = <<>> THEN s ELSE [s EXCEPT !.k.sent = Tail(@)]
WithdrawQuietly(s, f) == IF f.auto THEN s ELSE [s EXCEPT !.k.asks = <<>>, !.k.sent = <<>>]
Withdraw(s, f) ==
    IF f.auto THEN s
    ELSE [s EXCEPT !.answers = @ \cup {[a |-> s.k.asks[i].a, what |-> "withdraw"] : i \in DOMAIN s.k.asks},
                   !.k.asks = <<>>, !.k.sent = <<>>]
Lose(s) ==
    LET f == s.k.turn
        r == IF s.k.asks # <<>> /\ Head(s.k.asks).raised THEN Report(s, f, "resolved", "harness", Head(s.k.asks).a) ELSE s
        l == IF f.ended THEN r
             ELSE [r EXCEPT !.k = [Interrupting(r.k) EXCEPT !.turn.lost = TRUE, !.turn.escPrompt = TRUE], !.esc = TRUE]
    IN Withdraw(l, f)
\* checkAsks, with the processes that are gone and the answers that waited out decisionWait.
CheckAsks(s, gone, late) ==
    LET unanswered == {i \in DOMAIN s.k.asks : ~s.k.turn.escPrompt /\ s.k.asks[i].a \in gone}
        untaken == {i \in DOMAIN s.k.sent : IF s.k.sent[i].delivered THEN late ELSE s.k.sent[i].a \in gone \/ late}
    IN IF unanswered # {} \/ untaken # {} THEN Lose(s) ELSE s

Ended(s, f, what) ==
    LET g == [f EXCEPT !.ended = TRUE, !.parked = ""]
        t == IF f.auto THEN s ELSE [s EXCEPT !.k.ended = 1]     \* counted only as none, or some
    IN Withdraw(Report(Put(t, g), g, "ended", what, 0), g)
End(s, f, hook, gate) ==
    IF gate THEN [Ended(s, f, "unreadable") EXCEPT !.fatal = TRUE]
    ELSE Ended(s, f, IF hook = "stop" THEN "completed" ELSE "failed")
Interrupted(s, f) == Ended(s, f, IF f.lost THEN "lost" ELSE "interrupted")

OwnPrompt(s, ev) ==
    LET b == IF ev.task = 0 THEN s ELSE Background(s, s.k.tasks \ {ev.task})
        f == [NoFlight EXCEPT !.n = ev.prompt, !.auto = TRUE, !.prompt = ev.prompt, !.started = TRUE, !.turnLine = s.k.running]
    IN IF \/ ev.queued
          \/ s.k.own.n # 0 /\ ~s.k.own.ended
          \/ s.k.turn.started /\ ~s.k.turn.ended
       THEN b ELSE Report(Put(b, f), f, "started", "", 0)
Prompted(s, ev) ==
    LET f == s.k.turn
        g == [f EXCEPT !.started = TRUE, !.prompt = ev.prompt, !.held = 0]
        started == Report(Put(s, g), g, "started", "", 0)
    IN CASE ev.native = 0 -> OwnPrompt(s, ev)
         [] f.n = 0 \/ f.started \/ ev.native # f.n -> s
         [] OTHER -> IF f.held = 0 THEN started ELSE Report(started, g, "retrying", "", f.held)
Stopped(s, ev) ==
    LET b == Background(s, ev.tasks)
        own == s.k.own
        f == s.k.turn
    IN CASE own.n # 0 /\ ~own.ended /\ ev.prompt = own.prompt -> End(b, own, ev.hook, FALSE)
         [] f.n = 0 \/ ~f.started \/ f.ended \/ f.parked # "" \/ ev.prompt # f.prompt -> b
         [] OTHER -> IF s.k.ended = 0 /\ ~f.turnLine THEN [b EXCEPT !.k.turn.parked = ev.hook]
                     ELSE End(b, f, ev.hook, FALSE)
Live(s, ev) ==
    CASE ev.hook = "session" -> IF ev.queued THEN [s EXCEPT !.k.foreign = TRUE, !.fatal = TRUE] ELSE [s EXCEPT !.k.up = TRUE]
      [] ev.hook = "prompt" -> Prompted(s, ev)
      [] ev.hook = "permission" -> Ask(s, ev.task)
      [] ev.hook = "delivered" -> Delivered(s, ev.task)
      [] OTHER -> Stopped(s, ev)

Debug(s0, l) ==
    LET s == [s0 EXCEPT !.k.engine = @ \/ l.kind # "other",
                        !.k.running = IF l.kind = "start" THEN TRUE ELSE IF l.kind = "end" THEN FALSE ELSE @]
        t == s.k.turn
        f == IF l.kind = "end" /\ t.started /\ ~t.endLine THEN t ELSE Current(s.k)
        lined == [f EXCEPT !.turnLine = @ \/ ~f.ended]
        retried == [f EXCEPT !.retried = l.attempt, !.held = IF f.started THEN @ ELSE l.attempt]
        closed == [f EXCEPT !.endLine = TRUE]
    IN CASE f.n = 0 -> s
         [] l.kind = "start" -> IF f.parked = "" THEN Put(s, lined) ELSE End(s, lined, f.parked, FALSE)
         [] l.kind = "api" ->
              IF f.ended \/ f.auto \/ l.attempt >= 2 \/ l.attempt <= f.retried THEN s      \* 2: the last attempt
              ELSE IF f.started THEN Report(Put(s, retried), f, "retrying", "", l.attempt) ELSE Put(s, retried)
         [] l.kind = "cancel" -> IF f.started /\ ~f.ended THEN Put(s, [f EXCEPT !.cancel = TRUE]) ELSE s
         [] l.kind = "decision" -> Decided(s)
         [] l.kind = "end" ->
              CASE f.parked # "" -> End(s, closed, f.parked, ~f.turnLine)
                [] (f.cancel \/ f.escPrompt) /\ f.started /\ ~f.ended ->
                     IF l.stop \in {"null", "tool_use"} THEN Interrupted(s, closed)
                     ELSE Put(s, [closed EXCEPT !.endAt = TRUE])
                [] OTHER -> Put(s, closed)
         [] OTHER -> s

\* tick, with the waits that are over.
TickFlight(s, f, over) ==
    CASE f.n = 0 \/ f.ended -> s
      [] f.parked # "" /\ "gate" \in over -> End(s, f, f.parked, TRUE)
      [] f.endAt /\ "hook" \in over -> Interrupted(s, f)
      [] f.lost /\ "lost" \in over -> [Interrupted(s, f) EXCEPT !.fatal = TRUE]
      [] OTHER -> s
Tick(s, over, gone) ==
    LET o == TickFlight(s, s.k.own, over)
    IN CheckAsks(TickFlight(o, o.k.turn, over), IF "alive" \in over THEN gone ELSE {}, "decision" \in over)

-----------------------------------------------------------------------------
(* claude, and its hooks' processes (external).  A turn logs its start and *)
(* fires its prompt hook, in either order unless it is claude's own, and   *)
(* ends with a hook and a log line, in either order; an interrupted one    *)
(* with the line alone.  A turn calls a model and lasts longer than a poll *)
(* (pollEvery): one falls within it (polled).                              *)
Host == <<setting, proc, code>>
Key(what, n) == [what |-> what, n |-> n]
Line(kind) == [kind |-> kind, stop |-> "", attempt |-> 0]
Event(hook, prompt, native, queued, task) ==
    [hook |-> hook, prompt |-> prompt, native |-> native, queued |-> queued, task |-> task, tasks |-> {}]
Alive == proc \notin {"gone", "exited"}
Busy == turns # <<>> /\ LET t == turns[Len(turns)] IN t.how = "running" \/ ~t.endHook \/ ~t.endLine
On == Len(turns)                                       \* the turn claude is on, when Busy
Running == Busy /\ turns[On].how = "running"
Prompting == Running /\ ~turns[On].hooked
Asking == {a \in DOMAIN asks : asks[a].turn = On /\ asks[a].hook # "done"}    \* a dialog is up
NewTurn(kind, input) ==
    [kind |-> kind, input |-> input, bound |-> 0, logged |-> ~setting.readable, hooked |-> FALSE, how |-> "running",
     endHook |-> FALSE, endLine |-> FALSE, errors |-> 0, polled |-> FALSE]

ClaudeComesUp ==
    /\ proc = "starting" /\ ~claude.up
    /\ claude' = [claude EXCEPT !.up = TRUE]
    /\ \E foreign \in {FALSE} \cup {setting.faults > 0} : events' = Append(events, Event("session", 0, 0, foreign, 0))
    /\ \E kind \in {"other", "engine"} : log' = Append(log, Line(kind))
    /\ UNCHANGED <<Host, pending, keys, turns, asks>>
ClaudeReadsKey ==
    /\ Alive /\ keys # <<>> /\ (Running => turns[On].polled) /\ keys' = Tail(keys)
    /\ LET key == Head(keys).what IN
       CASE key = "wipe" -> claude' = [claude EXCEPT !.composer = <<>>] /\ UNCHANGED <<log, events, turns, asks>>
         [] key = "esc" /\ Running ->
              \/ claude.faults < setting.faults /\ claude' = [claude EXCEPT !.faults = @ + 1] /\ UNCHANGED <<log, events, turns, asks>>
              \/ \E back \in {<<>>, turns[On].input}, late \in {FALSE} \cup {Asking = {}} :
                  /\ turns' = [turns EXCEPT ![On].how = IF late THEN "completed" ELSE "interrupted",
                                            ![On].endHook = ~late]
                  /\ claude' = [claude EXCEPT !.composer = IF late THEN @ ELSE back]
                  /\ log' = IF Asking = {} THEN Append(log, Line("cancel")) ELSE log
                  /\ asks' = [a \in DOMAIN asks |-> IF a \in Asking THEN [asks[a] EXCEPT !.hook = "done"] ELSE asks[a]]
                  /\ UNCHANGED events
         [] key = "enter" /\ Busy /\ claude.composer # <<>> ->       \* queued behind the running turn
              /\ claude' = [claude EXCEPT !.composer = <<>>, !.merged = @ \cup {[n |-> n, turn |-> On] : n \in ToSet(claude.composer)}]
              /\ events' = Append(events, Event("prompt", On, 0, TRUE, 0))
              /\ UNCHANGED <<log, turns, asks>>
         [] key = "enter" /\ ~Busy /\ claude.composer # <<>> ->
              /\ turns' = Append(turns, NewTurn("input", claude.composer))
              /\ claude' = [claude EXCEPT !.composer = <<>>]
              /\ UNCHANGED <<log, events, asks>>
         [] key = "text" ->
              claude' = [claude EXCEPT !.composer = Append(@, Head(keys).n)] /\ UNCHANGED <<log, events, turns, asks>>
         [] OTHER -> UNCHANGED <<claude, log, events, turns, asks>>
    /\ UNCHANGED <<Host, pending>>
ClaudeStartsOwn(kind) ==
    /\ proc = "up" /\ ~Busy /\ Cardinality({i \in DOMAIN turns : turns[i].kind # "input"}) < setting.own
    /\ kind = "notice" => claude.tasks # {}
    /\ kind = "continue" => setting.continues /\ turns # <<>> /\ turns[On].how = "failed"
    /\ turns' = Append(turns, NewTurn(kind, <<>>))
    /\ UNCHANGED <<Host, pending, keys, log, events, asks, claude>>
ClaudeLogsStart ==
    /\ Alive /\ Running /\ ~turns[On].logged
    /\ turns' = [turns EXCEPT ![On].logged = TRUE] /\ log' = Append(log, Line("start"))
    /\ UNCHANGED <<Host, pending, keys, events, asks, claude>>
ClaudeLogsError ==
    /\ Alive /\ Running /\ turns[On].logged /\ turns[On].errors < setting.errors
    /\ turns' = [turns EXCEPT ![On].errors = @ + 1]
    /\ log' = Append(log, [Line("api") EXCEPT !.attempt = turns[On].errors + 1])
    /\ UNCHANGED <<Host, pending, keys, events, asks, claude>>
ClaudeFinishes(how) ==
    /\ Alive /\ Running /\ turns[On].polled /\ Asking = {}
    /\ turns' = [turns EXCEPT ![On].how = how]
    /\ \E new \in {{}} \cup {1..setting.own} : claude' = [claude EXCEPT !.tasks = @ \cup new]
    /\ UNCHANGED <<Host, pending, keys, log, events, asks>>
ClaudeEndHook ==
    /\ Alive /\ Busy /\ turns[On].how # "running" /\ ~turns[On].endHook
    /\ turns' = [turns EXCEPT ![On].endHook = TRUE]
    /\ events' = Append(events, [Event(IF turns[On].how = "completed" THEN "stop" ELSE "failure", On, 0, FALSE, 0)
                                   EXCEPT !.tasks = claude.tasks])
    /\ UNCHANGED <<Host, pending, keys, log, asks, claude>>
ClaudeEndLine ==
    /\ Alive /\ Busy /\ turns[On].how # "running" /\ ~turns[On].endLine
    /\ turns' = [turns EXCEPT ![On].endLine = TRUE]
    /\ \E stop \in IF turns[On].how = "interrupted" THEN {"null"} ELSE {"end_turn"} :
          log' = Append(log, [Line("end") EXCEPT !.stop = stop])
    /\ UNCHANGED <<Host, pending, keys, events, asks, claude>>
ClaudeDecides(a) ==
    /\ Alive /\ asks[a].hook = "delivered" /\ log' = Append(log, Line("decision"))
    /\ asks' = [asks EXCEPT ![a].hook = "done"]
    /\ UNCHANGED <<Host, pending, events, keys, turns, claude>>
\* claude exits; a hook whose parent is gone ends.
ClaudeExits ==
    /\ proc \in {"stopping", "abandoned"} \/ (setting.dies /\ proc \in {"starting", "up"})
    /\ proc' = "gone"
    /\ asks' = [a \in DOMAIN asks |-> [asks[a] EXCEPT !.hook = "done"]]
    /\ UNCHANGED <<setting, code, pending, keys, log, events, turns, claude>>

\* The hook helper.  A new prompt id that is a task notification's is claude's own;
\* any other takes the input being typed, if one is.
Bind(kind) == IF kind = "notice" THEN 0 ELSE pending
HandleHook ==
    /\ Alive /\ Prompting /\ (turns[On].kind # "input" => turns[On].logged)
    /\ LET notice == turns[On].kind = "notice"
            native == Bind(turns[On].kind)
        IN /\ turns' = [turns EXCEPT ![On].hooked = TRUE, ![On].bound = native]
           /\ pending' = IF notice THEN pending ELSE 0
           /\ events' = Append(events, Event("prompt", On, native, FALSE, IF notice THEN 1 ELSE 0))
           /\ claude' = IF notice THEN [claude EXCEPT !.tasks = {}] ELSE claude
    /\ UNCHANGED <<Host, keys, log, asks>>
HandlePermission ==
    /\ Alive /\ Running /\ turns[On].logged /\ turns[On].hooked /\ Len(asks) < setting.asks
    /\ asks' = Append(asks, [turn |-> On, hook |-> "waiting", answer |-> "", got |-> ""])
    /\ events' = Append(events, Event("permission", On, 0, FALSE, Len(asks) + 1))
    /\ UNCHANGED <<Host, pending, keys, log, turns, claude>>
\* awaitAnswer finds the answer: a decision goes to claude, which may not take it.
AwaitAnswer(a) ==
    /\ Alive /\ asks[a].hook = "waiting" /\ asks[a].answer # ""
    /\ IF asks[a].answer = "withdraw"
       THEN asks' = [asks EXCEPT ![a].hook = "dialog"] /\ UNCHANGED <<events, claude>>
       ELSE /\ events' = Append(events, Event("delivered", asks[a].turn, 0, FALSE, a))
            /\ \/ asks' = [asks EXCEPT ![a].hook = "delivered", ![a].got = asks[a].answer] /\ UNCHANGED claude
               \/ /\ claude.faults < setting.faults /\ claude' = [claude EXCEPT !.faults = @ + 1]
                  /\ asks' = [asks EXCEPT ![a].hook = "dialog"]
    /\ UNCHANGED <<Host, pending, keys, log, turns>>
HookKilled(a) ==
    /\ Alive /\ asks[a].hook = "waiting" /\ claude.faults < setting.faults
    /\ claude' = [claude EXCEPT !.faults = @ + 1] /\ asks' = [asks EXCEPT ![a].hook = "dialog"]
    /\ UNCHANGED <<Host, pending, keys, log, events, turns>>

-----------------------------------------------------------------------------
(* The transport.                                                          *)
Claude == <<turns, claude>>
Polls == proc # "exited" /\ read.pc # "over"
\* poll: debug.lines, live.Read, then (Poll), under rmu, everything they come to.
\* A poll that finds nothing, and nothing to tick, changes nothing: it is left out.
ReadLines ==
    /\ Polls /\ read.pc = "idle"
    /\ \/ log # <<>> \/ events # <<>> \/ proc = "gone" \/ k.asks # <<>> \/ k.sent # <<>>
       \/ k.turn.parked # "" \/ k.turn.endAt \/ k.own.endAt \/ k.turn.lost \/ (Running /\ ~turns[On].polled)
    /\ read' = [NotReading EXCEPT !.pc = "lines", !.last = proc = "gone", !.lines = log,
                                !.saw = IF Running /\ turns[On].logged /\ turns[On].hooked THEN On ELSE 0] /\ log' = <<>>
    /\ UNCHANGED <<setting, proc, k, sub, intr, results, reports, pending, events, keys, asks, Claude>>
ReadEvents ==
    /\ read.pc = "lines" /\ read' = [read EXCEPT !.pc = "read", !.events = events] /\ events' = <<>>
    /\ UNCHANGED <<setting, proc, k, sub, intr, results, reports, pending, log, keys, asks, Claude>>
\* The waits that can be over: claude writes what a turn owes, reads its keys and
\* takes what it is handed within each.
Quiet == ~(Busy /\ ~Running) /\ (Running => turns[On].logged) /\ keys = <<>> /\ log = <<>> /\ events = <<>>
Taken == \A a \in DOMAIN asks : asks[a].hook # "delivered" /\ (asks[a].hook = "waiting" => asks[a].answer = "")
Elapsed ==
    {"alive"} \cup {w \in {"gate", "hook", "lost", "decision"} : Alive /\ Quiet /\
        CASE w = "gate" -> k.turn.parked # ""
          [] w = "hook" -> k.turn.endAt \/ k.own.endAt
          [] w = "lost" -> k.turn.lost
          [] w = "decision" -> Taken /\ k.sent # <<>>}
Poll(over) ==
    /\ read.pc = "read"
    /\ LET gone == {a \in DOMAIN asks : asks[a].hook \notin {"waiting"}}
            lined == FoldLeft(Debug, Step0(k), read.lines)
            s == Tick(FoldLeft(Live, lined, read.events), over, gone)
            Answer(a) == LET w == {x \in s.answers : x.a = a} IN
                         IF w = {} THEN asks[a] ELSE [asks[a] EXCEPT !.answer = (CHOOSE x \in w : TRUE).what]
        IN /\ k' = s.k /\ reports' = reports \o s.out
           /\ asks' = [a \in DOMAIN asks |-> Answer(a)]
           /\ keys' = IF s.esc /\ Alive THEN Append(keys, Key("esc", 0)) ELSE keys
           /\ proc' = IF s.fatal /\ proc \in {"starting", "up"} THEN "stopping" ELSE proc
    /\ read' = [NotReading EXCEPT !.pc = IF read.last THEN "over" ELSE "idle"]
    /\ turns' = IF read.saw = 0 THEN turns ELSE [turns EXCEPT ![read.saw].polled = TRUE]
    /\ UNCHANGED <<setting, sub, intr, results, pending, log, events, claude>>
\* wait: Exited, once the last events were read.
Wait ==
    /\ proc = "gone" /\ read.pc = "over" /\ proc' = "exited"
    /\ reports' = Append(reports, Said("exited"))
    /\ UNCHANGED <<setting, k, read, sub, intr, results, pending, events, world>>
\* awaitUp: another session, a timeout or claude's exit abandons the start.
AwaitUp ==
    /\ proc = "starting"
    /\ proc' = IF k.up /\ k.engine /\ ~k.foreign THEN "up" ELSE "abandoned"
    /\ proc' = "abandoned" => k.foreign \/ claude.up
    /\ UNCHANGED <<setting, code, pending, events, world>>
Stop ==
    /\ proc = "up" /\ setting.dies /\ proc' = "stopping"
    /\ UNCHANGED <<setting, code, pending, events, world>>

\* Submit, called by the Session for its next input once the one before is settled.
Over(n) == \E i \in DOMAIN reports : reports[i].kind = "ended" /\ ~reports[i].auto /\ reports[i].n = n
Began(n) == \E i \in DOMAIN reports : reports[i].kind = "started" /\ ~reports[i].auto /\ reports[i].n = n
SubmitLeaves == <<setting, proc, read, intr, reports, log, events, asks, Claude>>
Return(n, what) == sub' = Idle /\ results' = [results EXCEPT ![n] = what]
SubmitStarts(n) ==
    /\ proc \in {"up", "stopping"} /\ sub = Idle /\ intr = Idle /\ results[n] = "none"
    /\ \A m \in 1..(n - 1) : results[m] = "not_submitted" \/ Over(m)
    /\ sub' = [pc |-> "settle", n |-> n]
    /\ UNCHANGED <<SubmitLeaves, k, results, pending, keys>>
SubmitSettles ==
    /\ sub.pc = "settle" /\ Alive /\ Settled(k)
    /\ k' = [k EXCEPT !.wipe = FALSE] /\ keys' = IF k.wipe THEN Append(keys, Key("wipe", 0)) ELSE keys
    /\ sub' = [sub EXCEPT !.pc = "begin"]
    /\ UNCHANGED <<SubmitLeaves, results, pending>>
SubmitBegins ==
    /\ sub.pc = "begin"
    /\ IF Alive
       THEN /\ k' = [k EXCEPT !.turn = [NoFlight EXCEPT !.n = sub.n]]
            /\ pending' = sub.n /\ keys' = Append(keys, Key("text", sub.n))
            /\ sub' = [sub EXCEPT !.pc = "enter"] /\ UNCHANGED results
       ELSE k' = [k EXCEPT !.turn = NoFlight] /\ pending' = 0 /\ Return(sub.n, "not_submitted") /\ UNCHANGED keys
    /\ UNCHANGED SubmitLeaves
SubmitEnters ==
    /\ sub.pc = "enter"
    /\ IF Alive THEN keys' = Append(keys, Key("enter", 0)) /\ sub' = [sub EXCEPT !.pc = "await"] /\ UNCHANGED results
       ELSE Return(sub.n, "unknown") /\ UNCHANGED keys
    /\ UNCHANGED <<SubmitLeaves, k, pending>>
SubmitReturns ==
    /\ sub.pc = "await" /\ Received(k, sub.n) /\ Return(sub.n, "taken")
    /\ UNCHANGED <<SubmitLeaves, k, pending, keys>>
\* waitFor: claude exited, or the wait is over.
SubmitGivesUp ==
    /\ \/ sub.pc = "settle" /\ (Alive => ~Settled(k)) /\ Return(sub.n, "not_submitted")
       \/ sub.pc = "await" /\ (Alive => keys = <<>> /\ ~Received(k, sub.n)) /\ Return(sub.n, "unknown")
    /\ UNCHANGED <<SubmitLeaves, k, pending, keys>>

\* Interrupt and InterruptTurn: the Session's, outside a Submit.
InterruptLeaves == <<setting, proc, read, sub, results, reports, pending, log, events, asks, Claude>>
Interrupt ==
    /\ setting.interrupts /\ Alive /\ sub = Idle /\ intr = Idle
    /\ \E n \in Inputs : Began(n) /\ ~Over(n)
    /\ k.turn.started /\ ~k.turn.ended /\ ~k.turn.cancel
    /\ k' = Interrupting(k) /\ intr' = [pc |-> "esc", n |-> k.turn.n]
    /\ UNCHANGED <<InterruptLeaves, keys>>
InterruptTurn ==
    /\ setting.interrupts /\ Alive /\ sub = Idle /\ intr = Idle
    /\ k.own.n # 0 /\ ~k.own.ended /\ ~k.own.cancel
    /\ intr' = [pc |-> "esc", n |-> 0]
    /\ UNCHANGED <<InterruptLeaves, keys, k>>
Esc ==
    /\ intr.pc = "esc"
    /\ IF Alive THEN keys' = Append(keys, Key("esc", 0)) /\ intr' = [intr EXCEPT !.pc = "await"] ELSE intr' = Idle /\ UNCHANGED keys
    /\ UNCHANGED <<InterruptLeaves, k>>
EscReturns ==
    /\ intr.pc = "await"
    /\ LET f == IF intr.n = 0 THEN k.own ELSE k.turn
        IN f.cancel \/ f.ended \/ ~Alive \/ keys = <<>>        \* taken, claude gone, or cancelWait over
    /\ intr' = Idle /\ UNCHANGED <<InterruptLeaves, k, keys>>

\* Answer, under rmu: the prompt resolved, the next raised, the answer written.
Answered(t) ==
    LET a == Head(t.asks).a
        moved == [Step0(t) EXCEPT !.k.asks = Tail(@), !.k.sent = Append(@, [a |-> a, delivered |-> FALSE])]
    IN RaiseNext(Report(moved, t.turn, "resolved", "answer", a))
Answer(what) ==
    /\ Alive /\ k.asks # <<>> /\ Head(k.asks).raised
    /\ LET s == Answered(k)
        IN k' = s.k /\ reports' = reports \o s.out /\ asks' = [asks EXCEPT ![Head(k.asks).a].answer = what]
    /\ UNCHANGED <<setting, proc, read, sub, intr, results, pending, events, keys, log, Claude>>

Next ==
    \/ ClaudeComesUp \/ ClaudeReadsKey \/ (\E kind \in {"notice", "continue"} : ClaudeStartsOwn(kind))
    \/ ClaudeLogsStart \/ ClaudeLogsError \/ (\E how \in {"completed", "failed"} : ClaudeFinishes(how))
    \/ ClaudeEndHook \/ ClaudeEndLine \/ (\E a \in DOMAIN asks : ClaudeDecides(a)) \/ ClaudeExits
    \/ HandleHook \/ HandlePermission \/ (\E a \in DOMAIN asks : AwaitAnswer(a) \/ HookKilled(a))
    \/ ReadLines \/ ReadEvents \/ (\E over \in {{}, Elapsed} : Poll(over)) \/ Wait \/ AwaitUp \/ Stop
    \/ (\E n \in 1..setting.inputs : SubmitStarts(n)) \/ SubmitSettles \/ SubmitBegins \/ SubmitEnters \/ SubmitReturns \/ SubmitGivesUp
    \/ Interrupt \/ InterruptTurn \/ Esc \/ EscReturns \/ (\E what \in {"allow", "deny"} : Answer(what))

Spec == Init /\ [][Next]_vars

-----------------------------------------------------------------------------
(* Properties.                                                             *)
TypeOK ==
    /\ k.wipe \in BOOLEAN /\ pending \in 0..MaxInputs /\ sub.pc \in {"idle", "settle", "begin", "enter", "await"}
    /\ proc \in {"starting", "up", "abandoned", "stopping", "gone", "exited"} /\ Len(turns) <= MaxInputs + setting.own /\ Len(asks) <= setting.asks

\* A turn is reported as an input's only if the prompt claude took for it is
\* that input's text, and nothing else.
ReceiptIsOwn ==
    \A i \in DOMAIN reports : reports[i].kind = "started" /\ ~reports[i].auto =>
        turns[reports[i].prompt].input = <<reports[i].n>>
\* A turn is reported ended as claude ended it: completed or failed as its hook
\* said, interrupted only when Esc stopped that very turn; errored only for a
\* claude whose log cannot be read or a permission prompt that was lost.
EndIsClaudes ==
    \A i \in DOMAIN reports : reports[i].kind = "ended" =>
        LET r == reports[i]  t == turns[r.prompt] IN
        CASE r.what \in {"completed", "failed", "interrupted"} -> t.how = r.what
          [] r.what = "unreadable" -> ~setting.readable
          [] r.what = "lost" -> t.how = "interrupted" \/ proc # "up"
\* A turn is reported started, then ended, once each, and its prompts are raised
\* one at a time between the two, each resolved before the turn's end is.
ReportsInOrder ==
    \A i, j \in DOMAIN reports : i < j =>
        LET p == reports[i]  q == reports[j]  same == p.auto = q.auto /\ p.n = q.n IN
        /\ ~(p.kind = "exited")
        /\ same /\ q.kind = "started" => p.kind \in {"background", "exited"}
        /\ same /\ p.kind = "ended" => q.kind \in {"background", "exited"}
        /\ p.kind = "raised" /\ q.kind = "raised" =>
              \E m \in i..j : reports[m].kind \in {"resolved", "ended"} /\ reports[m].n = p.n
\* An input typed once claude settled is never taken into another input's turn:
\* only a turn of claude's own, begun since, can take it in, or one given up on
\* for a lost prompt, whose claude is being stopped.
MergedByOwnOnly ==
    \A m \in claude.merged :
        \/ turns[m.turn].kind # "input"
        \/ \E i \in DOMAIN reports : reports[i].what = "lost" /\ reports[i].prompt = m.turn
\* Once the tracker has read everything claude wrote, no permission hook waits
\* for an answer nobody can give any more.
NoHookIsLeft ==
    read.pc = "idle" /\ events = <<>> /\ Alive =>
        \A a \in DOMAIN asks : asks[a].hook = "waiting" /\ asks[a].answer = "" =>
            k.asks # <<>> /\ (\E i \in DOMAIN k.asks : k.asks[i].a = a) /\ Head(k.asks).raised

=============================================================================
