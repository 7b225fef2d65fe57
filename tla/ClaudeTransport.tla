-------------------------- MODULE ClaudeTransport --------------------------
(***************************************************************************)
(* The stream-json transport of the claude-code Harness Adapter            *)
(* (pkg/adapter/claudecode/transport.go, asks.go) under the Session that   *)
(* drives it: an input is a user message named by its uuid, acknowledged   *)
(* by command_lifecycle frames and ended by a result frame that names no   *)
(* input; claude also runs turns of its own, to take up background work,   *)
(* and asks for permissions, which the transport queues and raises one at  *)
(* a time.  claude (external) reads and writes frames in order.            *)
(***************************************************************************)
EXTENDS Integers, Sequences, FiniteSets, SequencesExt

CONSTANTS
    Settings,     \* [own, gated, refuses, foreign, lacks, dies, interrupts, slow]: BOOLEAN each
    MaxInputs, MaxTasks, MaxAsks, PipeFrames

VARIABLES
    setting,
    turn, own, task, capsDone, foreign, receipts,  \* the transport's fields
    asks,                         \* t.asks: the permissions claude waits on
    spc, sent, result,            \* Send: its step, the inputs sent, what Submit returned
    ipc, iof, asked,              \* Interrupt: its step, its input, the inputs interrupted
    rep, ownRep, prompts,         \* what was reported
    stopping, stdinClosed, exited,
    cin, cout, claude, ran, decided

trans == <<turn, own, task, capsDone, foreign, receipts>>
sendv == <<spc, sent, result>>
intv  == <<ipc, iof, asked>>
repv  == <<rep, ownRep>>
endv  == <<stopping, stdinClosed, exited>>
ext   == <<cin, cout, claude, ran, decided>>
vars  == <<setting, trans, asks, sendv, intv, repv, prompts, endv, ext>>

Inputs == 1..MaxInputs
NoTurn == [n |-> 0, started |-> FALSE]
OWN == -1     \* claude on a turn of its own
Frame(kind, n, what) == [kind |-> kind, n |-> n, what |-> what]

Init ==
    /\ setting \in Settings
    /\ turn = NoTurn /\ own = 0 /\ task = 0 /\ capsDone = FALSE /\ foreign = FALSE /\ receipts = {}
    /\ asks = <<>> /\ spc = "idle" /\ sent = 0 /\ result = [n \in Inputs |-> "none"]
    /\ ipc = "idle" /\ iof = 0 /\ asked = {}
    /\ rep = [n \in Inputs |-> [started |-> 0, ended |-> <<>>]] /\ ownRep = <<>>
    /\ prompts = [a \in 1..MaxAsks |-> "none"]
    /\ stopping = FALSE /\ stdinClosed = FALSE /\ exited = FALSE
    /\ cin = <<>> /\ cout = <<>> /\ ran = [n \in Inputs |-> 0] /\ decided = [a \in 1..MaxAsks |-> <<>>]
    /\ claude = [on |-> 0, queue |-> <<>>, task |-> 0, tasks |-> 0, asks |-> {}, nasks |-> 0, exited |-> FALSE]

-----------------------------------------------------------------------------
\* claude.
Host == <<setting, trans, asks, sendv, intv, repv, prompts, endv>>
Alive == ~claude.exited /\ Len(cout) < PipeFrames
ClaudeReads ==
    /\ Alive /\ cin # <<>> /\ cin' = Tail(cin) /\ UNCHANGED <<Host, ran>>
    /\ LET f == Head(cin) IN
       CASE f.kind = "user" ->
              /\ UNCHANGED decided
              /\ \/ /\ claude' = [claude EXCEPT !.queue = Append(@, f.n)]
                    /\ cout' = Append(cout, Frame("queued", f.n, ""))
                 \/ setting.refuses /\ cout' = Append(cout, Frame("refused", f.n, "")) /\ UNCHANGED claude
         [] f.kind = "interrupt" ->       \* a receipt, then the end of what it was on
              /\ UNCHANGED decided
              /\ claude' = [claude EXCEPT !.on = 0, !.asks = {}, !.queue = IF claude.on = 0 THEN <<>> ELSE @]
              /\ cout' = cout \o <<Frame("response", 0, "")>> \o
                   (CASE claude.on > 0 -> <<Frame("result", 0, "interrupted"), Frame("cancelled", claude.on, "")>>
                      [] claude.on = OWN -> <<Frame("result", OWN, "interrupted")>>
                      [] claude.queue # <<>> -> <<Frame("cancelled", Head(claude.queue), "")>>
                      [] OTHER -> <<>>)
         [] f.kind = "decision" ->
              /\ decided' = [decided EXCEPT ![f.n] = Append(@, f.what)]
              /\ claude' = [claude EXCEPT !.asks = @ \ {f.n}]
              /\ UNCHANGED cout
ClaudeStarts ==
    /\ Alive /\ claude.on = 0 /\ claude.queue # <<>>
    /\ claude' = [claude EXCEPT !.on = Head(claude.queue), !.queue = Tail(@)]
    /\ ran' = [ran EXCEPT ![Head(claude.queue)] = @ + 1]
    /\ cout' = cout \o <<Frame("init", 0, IF setting.foreign THEN "foreign" ELSE ""), Frame("started", Head(claude.queue), "")>>
    /\ UNCHANGED <<Host, cin, decided>>
\* Background work ends: a notification, and a turn of its own.
ClaudeStartsOwn ==
    /\ Alive /\ setting.own /\ claude.on = 0 /\ claude.tasks < MaxTasks
    /\ claude' = [claude EXCEPT !.on = OWN, !.tasks = @ + 1]
    /\ cout' = cout \o <<Frame("note", claude.tasks + 1, ""), Frame("init", 0, "")>>
    /\ UNCHANGED <<Host, cin, ran, decided>>
ClaudeEnds ==
    /\ Alive /\ claude.on # 0 /\ claude.asks = {}
    /\ claude' = [claude EXCEPT !.on = 0]
    /\ \E how \in {"completed", "errored"} : cout' = Append(cout, Frame("result", IF claude.on = OWN THEN OWN ELSE 0, how))
    /\ UNCHANGED <<Host, cin, ran, decided>>
ClaudeAsks ==
    /\ Alive /\ setting.gated /\ claude.on # 0 /\ claude.nasks < MaxAsks
    /\ claude' = [claude EXCEPT !.asks = @ \cup {claude.nasks + 1}, !.nasks = @ + 1]
    /\ cout' = Append(cout, Frame("ask", claude.nasks + 1, ""))
    /\ UNCHANGED <<Host, cin, ran, decided>>
ClaudeWithdraws ==
    /\ Alive /\ \E a \in claude.asks :
           claude' = [claude EXCEPT !.asks = @ \ {a}] /\ cout' = Append(cout, Frame("withdraw", a, ""))
    /\ UNCHANGED <<Host, cin, ran, decided>>
ClaudeExits ==
    /\ ~claude.exited /\ (setting.dies \/ stopping) /\ claude' = [claude EXCEPT !.exited = TRUE]
    /\ UNCHANGED <<Host, cin, cout, ran, decided>>

-----------------------------------------------------------------------------
Broken == stdinClosed \/ claude.exited
Write(f) == cin' = IF Broken THEN cin ELSE Append(cin, f)
Consume(kind) == cout # <<>> /\ Head(cout).kind = kind /\ cout' = Tail(cout)
Began(n) == rep' = [rep EXCEPT ![n].started = @ + 1]
Ended(n, outcome) == rep' = [rep EXCEPT ![n].ended = Append(@, outcome)]

\* raiseNextLocked: the first permission waiting is the Session's prompt.
Raised(q) == IF q = <<>> THEN q ELSE [q EXCEPT ![1].raised = TRUE]
Raises(q, p) == IF q = <<>> THEN p ELSE [p EXCEPT ![q[1].id] = "raised"]
Take(id) == asks' = Raised(SelectSeq(asks, LAMBDA a : a.id # id))
\* dropAsks: the Session resolves the raised one with its turn.
Drop(n) ==
    LET q == SelectSeq(asks, LAMBDA a : n # 0 /\ a.n # n)
        p == [a \in DOMAIN prompts |-> IF prompts[a] = "raised" /\ ~\E i \in DOMAIN q : q[i].id = a
                                       THEN "dropped" ELSE prompts[a]]
    IN  asks' = Raised(q) /\ prompts' = Raises(q, p)

OnLifecycleAny ==
    /\ cout # <<>> /\ Head(cout).kind \in {"queued", "started", "cancelled", "refused"} /\ cout' = Tail(cout)
    /\ LET f == Head(cout)  mine == turn.n # 0 /\ ~turn.started IN
       /\ receipts' = receipts \ {f.n}
       /\ CASE mine /\ f.kind = "started" -> turn' = [turn EXCEPT !.started = TRUE] /\ Began(turn.n)
            [] mine /\ f.kind \in {"cancelled", "refused"} -> turn' = NoTurn /\ Ended(turn.n, f.kind)
            [] OTHER -> UNCHANGED <<turn, rep>>
    /\ UNCHANGED <<setting, own, task, capsDone, foreign, asks, sendv, intv, ownRep, prompts, endv, cin, claude, ran, decided>>
OnLifecycleKeeps ==
    /\ cout # <<>> /\ Head(cout).kind \in {"queued", "started", "cancelled", "refused"} /\ cout' = Tail(cout)
    /\ LET f == Head(cout)  mine == turn.n = f.n /\ ~turn.started IN
       /\ receipts' = receipts \ {f.n}
       /\ IF mine /\ f.kind = "started" THEN turn' = [turn EXCEPT !.started = TRUE] /\ Began(f.n)
          ELSE UNCHANGED <<turn, rep>>
    /\ UNCHANGED <<setting, own, task, capsDone, foreign, asks, sendv, intv, ownRep, prompts, endv, cin, claude, ran, decided>>
\* onLifecycle: only a message claude never started is proven not to have run.
OnLifecycle ==
    /\ cout # <<>> /\ Head(cout).kind \in {"queued", "started", "cancelled", "refused"} /\ cout' = Tail(cout)
    /\ LET f == Head(cout)  mine == turn.n = f.n /\ ~turn.started IN
       /\ receipts' = receipts \ {f.n}
       /\ CASE mine /\ f.kind = "started" -> turn' = [turn EXCEPT !.started = TRUE] /\ Began(f.n)
            [] mine /\ f.kind \in {"cancelled", "refused"} -> turn' = NoTurn /\ Ended(f.n, f.kind)
            [] OTHER -> UNCHANGED <<turn, rep>>
    /\ UNCHANGED <<setting, own, task, capsDone, foreign, asks, sendv, intv, ownRep, prompts, endv, cin, claude, ran, decided>>
OnNotification ==
    /\ Consume("note") /\ task' = Head(cout).n
    /\ UNCHANGED <<setting, turn, own, capsDone, foreign, receipts, asks, sendv, intv, repv, prompts, endv, cin, claude, ran, decided>>
\* The turn of a claude that is to be stopped errs.
Errs == IF turn.n = 0 THEN UNCHANGED <<turn, rep>> ELSE turn' = NoTurn /\ Ended(turn.n, "errored")
\* onForeign: the first frame of a claude that runs another session has it stopped.
OnForeign ==
    /\ Consume("init") /\ Head(cout).what = "foreign" /\ foreign' = TRUE
    /\ IF foreign THEN UNCHANGED <<turn, rep>> ELSE Errs
    /\ UNCHANGED <<setting, own, task, capsDone, receipts, asks, sendv, intv, ownRep, prompts, endv, cin, claude, ran, decided>>
\* onInit: once, a claude that lacks a capability is to be stopped; ownStarted: an
\* init after a notification, on no input's turn, starts a turn of claude's own.
OnInit ==
    /\ Consume("init") /\ Head(cout).what # "foreign" /\ capsDone' = TRUE
    /\ IF setting.lacks /\ ~capsDone THEN Errs ELSE UNCHANGED <<turn, rep>>
    /\ IF turn'.n # 0 \/ own # 0 \/ task = 0 THEN UNCHANGED <<own, task, ownRep>>
       ELSE own' = task /\ task' = 0 /\ ownRep' = Append(ownRep, <<"started", task>>)
    /\ UNCHANGED <<setting, foreign, receipts, asks, sendv, intv, prompts, endv, cin, claude, ran, decided>>
\* onResult: a result of a task notification is claude's own turn's, and so
\* is any while it is on no input's.
OnResult ==
    /\ Consume("result")
    /\ LET how == Head(cout).what  id == IF own # 0 THEN own ELSE task
           mineOwn == Head(cout).n = OWN \/ (turn.n = 0 /\ own # 0) IN
       IF mineOwn
       THEN /\ ownRep' = ownRep \o (IF own # 0 THEN <<>> ELSE <<<<"started", id>>>>) \o <<<<how, id>>>>
            /\ own' = 0 /\ task' = IF own # 0 THEN task ELSE 0
            /\ UNCHANGED <<turn, rep, asks, prompts>>
       ELSE /\ UNCHANGED <<own, task, ownRep>>
            /\ IF turn.n = 0 THEN UNCHANGED <<turn, rep, asks, prompts>>
               ELSE turn' = NoTurn /\ Ended(turn.n, how) /\ Drop(turn.n)
    /\ UNCHANGED <<setting, capsDone, foreign, receipts, sendv, intv, endv, cin, claude, ran, decided>>
OnResponse ==
    /\ Consume("response") /\ ipc' = IF ipc = "await" THEN "idle" ELSE ipc
    /\ UNCHANGED <<setting, trans, asks, sendv, iof, asked, repv, prompts, endv, cin, claude, ran, decided>>
OnAskRaisesAll ==
    /\ Consume("ask")
    /\ LET id == Head(cout).n IN
       /\ asks' = Append(asks, [id |-> id, n |-> turn.n, raised |-> TRUE]) /\ prompts' = [prompts EXCEPT ![id] = "raised"]
    /\ UNCHANGED <<setting, trans, sendv, intv, repv, endv, cin, claude, ran, decided>>
\* onAsk: a permission asked on no input's turn is denied at once.
OnAsk ==
    /\ Consume("ask")
    /\ LET id == Head(cout).n  q == Raised(Append(asks, [id |-> id, n |-> turn.n, raised |-> FALSE])) IN
       IF turn.n = 0 THEN Write(Frame("decision", id, "denied")) /\ UNCHANGED <<asks, prompts>>
       ELSE asks' = q /\ prompts' = Raises(q, prompts) /\ UNCHANGED cin
    /\ UNCHANGED <<setting, trans, sendv, intv, repv, endv, claude, ran, decided>>
OnCancelAsk ==
    /\ Consume("withdraw")
    /\ LET id == Head(cout).n  held == \E i \in DOMAIN asks : asks[i].id = id IN
       IF ~held THEN UNCHANGED <<asks, prompts>>
       ELSE Take(id) /\ prompts' = Raises(asks', [prompts EXCEPT ![id] = IF @ = "raised" THEN "withdrawn" ELSE @])
    /\ UNCHANGED <<setting, trans, sendv, intv, repv, endv, cin, claude, ran, decided>>
Read == OnLifecycle \/ OnNotification \/ OnForeign \/ OnInit \/ OnResult \/ OnResponse \/ OnAsk \/ OnCancelAsk

-----------------------------------------------------------------------------
\* Answer: the raised permission is resolved before its response is written.
Answer ==
    /\ asks # <<>> /\ asks[1].raised /\ Take(asks[1].id)
    /\ prompts' = Raises(asks', [prompts EXCEPT ![asks[1].id] = "answered"])
    /\ \E choice \in {"allowed", "denied"} : Write(Frame("decision", asks[1].id, choice))
    /\ UNCHANGED <<setting, trans, sendv, intv, repv, endv, cout, claude, ran, decided>>

\* The Session sends when no input is current and no turn of claude's runs.
Current == sent > 0 /\ spc = "idle" /\ (IF sent = 0 THEN FALSE ELSE result[sent] # "not_submitted" /\ rep[sent].ended = <<>>)
Submit ==
    /\ spc = "idle" /\ ~Current /\ own = 0 /\ ~exited /\ sent < MaxInputs
    /\ sent' = sent + 1 /\ spc' = "write"
    /\ turn' = [n |-> sent + 1, started |-> FALSE] /\ receipts' = receipts \cup {sent + 1}
    /\ UNCHANGED <<setting, own, task, capsDone, foreign, asks, result, intv, repv, prompts, endv, ext>>
Return(what) == result' = [result EXCEPT ![sent] = what] /\ spc' = "idle"
SubmitWrites ==
    /\ spc = "write"
    /\ IF stdinClosed
       THEN /\ Return("not_submitted") /\ receipts' = receipts \ {sent}
            /\ UNCHANGED cin /\ turn' = IF turn.n = sent THEN NoTurn ELSE turn
       ELSE /\ Write(Frame("user", sent, "")) /\ UNCHANGED <<turn, receipts>>
            /\ IF claude.exited THEN Return("unknown") ELSE spc' = "await" /\ UNCHANGED result
    /\ UNCHANGED <<setting, own, task, capsDone, foreign, asks, sent, intv, repv, prompts, endv, cout, claude, ran, decided>>
SubmitReturns ==
    /\ spc = "await"
    /\ \/ sent \notin receipts /\ Return("submitted")
       \/ (exited \/ setting.slow) /\ Return("unknown")
    /\ UNCHANGED <<setting, trans, asks, sent, intv, repv, prompts, endv, ext>>

\* Session.Interrupt checks that the input is current, and releases its lock;
\* the control request, which names no turn, is written after.
InterruptChecks ==
    /\ setting.interrupts /\ ipc = "idle" /\ Current /\ sent \notin asked
    /\ ipc' = "write" /\ iof' = sent /\ asked' = asked \cup {sent}
    /\ UNCHANGED <<setting, trans, asks, sendv, repv, prompts, endv, ext>>
InterruptWrites ==
    /\ ipc = "write"
    /\ ipc' = IF Broken THEN "idle" ELSE "await"
    /\ Write(Frame("interrupt", 0, ""))
    /\ UNCHANGED <<setting, trans, asks, sendv, iof, asked, repv, prompts, endv, cout, claude, ran, decided>>
InterruptTurn ==
    /\ setting.interrupts /\ ipc = "idle" /\ own # 0 /\ ipc' = "write" /\ iof' = 0
    /\ UNCHANGED <<setting, trans, asks, sendv, asked, repv, prompts, endv, ext>>

\* Stop, by Close, or of a foreign claude or one that lacks a capability (go
\* t.Stop): an idle claude's stdin is closed, then the group is signalled.
Dismissed == foreign \/ (setting.lacks /\ capsDone)
Stop ==
    /\ (setting.dies \/ Dismissed) /\ ~stopping /\ stopping' = TRUE
    /\ stdinClosed' = (stdinClosed \/ (turn.n = 0 /\ own = 0))
    /\ UNCHANGED <<setting, trans, asks, sendv, intv, repv, prompts, exited, ext>>
\* wait: the exit is reported after every frame claude wrote was read.
Wait ==
    /\ claude.exited /\ cout = <<>> /\ ~exited /\ exited' = TRUE /\ stdinClosed' = TRUE
    /\ Drop(0) /\ ipc' = IF ipc = "await" THEN "idle" ELSE ipc
    /\ UNCHANGED <<setting, trans, sendv, iof, asked, repv, stopping, ext>>

Next == Read \/ Answer \/ Submit \/ SubmitWrites \/ SubmitReturns \/ InterruptChecks \/ InterruptWrites \/ InterruptTurn
        \/ Stop \/ Wait
        \/ ClaudeReads \/ ClaudeStarts \/ ClaudeStartsOwn \/ ClaudeEnds \/ ClaudeAsks \/ ClaudeWithdraws \/ ClaudeExits
Spec == Init /\ [][Next]_vars

-----------------------------------------------------------------------------
TypeOK ==
    /\ setting \in Settings /\ turn.n \in 0..MaxInputs /\ own \in 0..MaxTasks /\ receipts \subseteq Inputs
    /\ spc \in {"idle", "write", "await"} /\ ipc \in {"idle", "write", "await"} /\ sent \in 0..MaxInputs
    /\ \A n \in Inputs : result[n] \in {"none", "submitted", "not_submitted", "unknown"}
\* Each input is reported begun at most once and ended at most once; completed
\* only if claude ran it, cancelled or refused, or not submitted, only if it
\* did not: a result or a lifecycle frame never settles another's input.  (The
\* result of a claude that is to be stopped may: until it is gone, the one of the
\* input that erred ends the next.)
ReportsAreTrue ==
    \A n \in Inputs :
        /\ rep[n].started <= 1 /\ Len(rep[n].ended) <= 1 /\ ran[n] <= 1
        /\ rep[n].ended = <<"completed">> /\ ~Dismissed => ran[n] = 1
        /\ (rep[n].ended \in {<<"cancelled">>, <<"refused">>} \/ result[n] = "not_submitted") => ran[n] = 0
\* claude gets one decision of each permission it asks, and an allowance only
\* of a prompt the Session answered.
DecidedOnce ==
    \A a \in 1..MaxAsks :
        /\ Len(decided[a]) <= 1
        /\ decided[a] = <<"allowed">> => prompts[a] = "answered"
        /\ Cardinality({b \in 1..MaxAsks : prompts[b] = "raised"}) <= 1
\* A permission claude asks for is decided, no longer waited for, or raised for
\* the Session's client, whom nothing hurries: none is kept from the client.
Asking(a) == a \in claude.asks
AskRaised(a) == a \notin claude.asks \/ claude.exited \/ prompts[a] = "raised"
\* An input handed over ends, unless claude is gone or a permission is raised.
Submitted(n) == result[n] = "submitted"
Settled(n) == rep[n].ended # <<>> \/ claude.exited \/ \E a \in 1..MaxAsks : prompts[a] = "raised"
=============================================================================
