------------------------------- MODULE Stream -------------------------------
(***************************************************************************)
(* A Conversation on claude's stream-json protocol (internal/chatcore,     *)
(* stream.go, ADR-009): frames on the pipes of one process.  The actors    *)
(* are the caller of Send, the callers of Interrupt, the caller of Answer, *)
(* the goroutine that reads stdout, the one that waits for the exit        *)
(* (streamWait, exitWith), and claude itself, which is external: it reads  *)
(* its stdin in order, receipts a message, runs it, asks for permission    *)
(* and answers with one result, and may exit at any time.                  *)
(***************************************************************************)
EXTENDS Integers, Sequences

CONSTANTS
    Settings,      \* [caps, policy, givesUp, asks, dies, stores, stops]: BOOLEAN each,
                   \* and turns, the messages sent
    MaxTurns,      \* the most messages any of them sends
    Callers,       \* callers of Interrupt
    PipeFrames     \* frames either pipe holds

VARIABLES
    setting,
    cur, turn,        \* currentTurn, and stream.turn: a message or 0
    ended,            \* per message: how its turn ended, and on whose account
    output,           \* the turn in flight has produced text
    receipt,          \* per message: the receipt channel is closed
    spc, sending,     \* the Send in progress and its message
    op, ipc, iop,     \* per message: its Interrupt; the callers and what they wait on
    control,          \* pending control requests: callers waiting for a response
    perm, apc, asking,\* the permission pending, the Answer in progress
    capsChecked,
    stdinClosed, closed, stopping, exit, wpc,
    cin, cout, claude \* the pipes, and claude's own state

host  == <<cur, turn, ended, output, receipt>>
sendv == <<spc, sending>>
intv  == <<op, ipc, iop, control>>
askv  == <<perm, apc, asking>>
exitv == <<closed, stopping, exit, wpc>>
misc  == <<capsChecked>>
vars  == <<setting, host, sendv, intv, askv, exitv, misc, stdinClosed, cin, cout, claude>>

Messages == 1..MaxTurns
Frame(kind, of) == [kind |-> kind, of |-> of]
Open == [how |-> "open", by |-> 0]
IsDone == exit               \* c.done is closed

Init ==
    /\ setting \in Settings
    /\ cur = 0 /\ turn = 0 /\ output = FALSE
    /\ ended = [m \in Messages |-> Open] /\ receipt = [m \in Messages |-> FALSE]
    /\ spc = "idle" /\ sending = 0
    /\ op = [m \in Messages |-> "none"] /\ ipc = [c \in Callers |-> "idle"]
    /\ iop = [c \in Callers |-> 0] /\ control = {}
    /\ perm = 0 /\ apc = "idle" /\ asking = 0
    /\ capsChecked = FALSE
    /\ stdinClosed = FALSE /\ closed = FALSE /\ stopping = FALSE /\ exit = FALSE /\ wpc = "wait"
    /\ cin = <<>> /\ cout = <<>>
    /\ claude = [running |-> 0, queued |-> 0, asked |-> 0, exited |-> FALSE, said |-> FALSE, inited |-> FALSE, read |-> 0]

-----------------------------------------------------------------------------
\* claude.
Reads == ~claude.exited /\ cin # <<>> /\ Len(cout) < PipeFrames
Say(frames) == cout' = cout \o frames
ClaudeReads ==
    /\ Reads /\ cin' = Tail(cin)
    /\ LET f == Head(cin) IN
       CASE f.kind = "user" ->
              \/ /\ claude' = [claude EXCEPT !.queued = f.of, !.read = f.of]
                 /\ Say(<<Frame("queued", f.of)>>)
              \/ Say(<<Frame("discarded", f.of)>>) /\ claude' = [claude EXCEPT !.read = f.of]
         [] f.kind = "interrupt" ->
              \/ /\ claude.running # 0
                 /\ claude' = [claude EXCEPT !.running = 0, !.asked = 0, !.said = FALSE]
                 /\ Say(<<Frame("response", f.of), Frame("aborted", claude.running)>>)
              \/ /\ claude.running = 0 /\ claude.queued # 0
                 /\ claude' = [claude EXCEPT !.queued = 0]
                 /\ Say(<<Frame("response", f.of), Frame("cancelled", claude.queued)>>)
              \/ claude.running = 0 /\ claude.queued = 0 /\ Say(<<Frame("response", f.of)>>) /\ UNCHANGED claude
         [] f.kind = "mode" -> Say(<<Frame("response", f.of)>>) /\ UNCHANGED claude
         [] f.kind = "answer" -> claude' = [claude EXCEPT !.asked = 0] /\ UNCHANGED cout
    /\ UNCHANGED <<setting, host, sendv, intv, askv, exitv, misc, stdinClosed>>
ClaudeWorks ==
    /\ ~claude.exited /\ Len(cout) < PipeFrames
    /\ \/ /\ claude.running = 0 /\ claude.queued # 0
          /\ claude' = [claude EXCEPT !.running = claude.queued, !.queued = 0, !.inited = TRUE]
          /\ Say(IF claude.inited THEN <<>> ELSE <<Frame("init", 0)>>)
       \/ /\ claude.running # 0 /\ claude.asked = 0 /\ ~claude.said
          /\ claude' = [claude EXCEPT !.said = TRUE] /\ Say(<<Frame("delta", claude.running)>>)
       \/ /\ setting.asks /\ claude.running # 0 /\ claude.asked = 0 /\ ~claude.said
          /\ claude' = [claude EXCEPT !.asked = claude.running, !.said = TRUE]
          /\ Say(<<Frame("ask", claude.running)>>)
       \/ /\ claude.asked # 0 /\ stdinClosed /\ cin = <<>>      \* no answer can come
          /\ claude' = [claude EXCEPT !.asked = 0] /\ UNCHANGED cout
       \/ /\ claude.running # 0 /\ claude.asked = 0
          /\ claude' = [claude EXCEPT !.running = 0, !.said = FALSE]
          /\ \E k \in {"result", "error"} : Say(<<Frame(k, claude.running)>>)
    /\ UNCHANGED <<setting, host, sendv, intv, askv, exitv, misc, stdinClosed, cin>>
\* It exits when its stdin ends and it is idle, when it is killed, or by itself.
ClaudeExits ==
    /\ ~claude.exited
    /\ setting.dies \/ (stopping /\ stdinClosed) \/ (stdinClosed /\ cin = <<>> /\ claude.running = 0 /\ claude.queued = 0)
    /\ claude' = [claude EXCEPT !.exited = TRUE]
    /\ UNCHANGED <<setting, host, sendv, intv, askv, exitv, misc, stdinClosed, cin, cout>>

-----------------------------------------------------------------------------
\* streamWrite: one frame on stdin, or an error when it is closed or broken.
Fails == stdinClosed \/ claude.exited
Writes(frame) == ~Fails /\ Len(cin) < PipeFrames /\ cin' = Append(cin, frame)
\* claimTurnLocked and finishTurn: the turn in flight, if any, ends.
EndTurn(how, by) ==
    /\ ended' = IF cur = 0 THEN ended ELSE [ended EXCEPT ![cur] = [how |-> how, by |-> by]]
    /\ cur' = 0
\* streamInterruptOp.finish: the first outcome stands.
Finish(m, result) == op' = IF m # 0 /\ op[m] = "open" THEN [op EXCEPT ![m] = result] ELSE op
Received(m) == receipt' = IF m = 0 THEN receipt ELSE [receipt EXCEPT ![m] = TRUE]

\* streamSend, as the caller of Send that holds the write slot.
SendUnclaimed ==
    /\ spc = "idle" /\ sending < setting.turns /\ ~closed /\ ~exit
    /\ sending' = sending + 1 /\ spc' = "record"
    /\ UNCHANGED <<setting, host, intv, askv, exitv, misc, stdinClosed, cin, cout, claude>>
SendBegins ==
    /\ spc = "idle" /\ sending < setting.turns /\ ~closed /\ ~exit /\ cur = 0
    /\ sending' = sending + 1 /\ spc' = "record"
    /\ UNCHANGED <<setting, host, intv, askv, exitv, misc, stdinClosed, cin, cout, claude>>
SendRecords ==
    /\ spc = "record"
    /\ \/ cur' = sending /\ spc' = "begun"
       \/ setting.stores /\ spc' = "idle" /\ UNCHANGED cur
    /\ UNCHANGED <<setting, turn, ended, output, receipt, sending, intv, askv, exitv, misc, stdinClosed, cin, cout, claude>>
SendRegisters ==
    /\ spc = "begun"
    /\ IF cur # sending
       THEN spc' = "idle" /\ UNCHANGED <<turn, output>>
       ELSE spc' = "write" /\ turn' = sending /\ output' = FALSE
    /\ UNCHANGED <<setting, cur, ended, receipt, sending, intv, askv, exitv, misc, stdinClosed, cin, cout, claude>>
SendWrites ==
    /\ spc = "write"
    /\ \/ Writes(Frame("user", sending)) /\ spc' = "await"
       \/ Fails /\ spc' = "drop" /\ UNCHANGED cin
    /\ UNCHANGED <<setting, host, sending, intv, askv, exitv, misc, stdinClosed, cout, claude>>
SendReturns ==
    /\ spc = "await" /\ (receipt[sending] \/ IsDone) /\ spc' = "idle"
    /\ UNCHANGED <<setting, host, sending, intv, askv, exitv, misc, stdinClosed, cin, cout, claude>>
SendGivesUp ==
    /\ spc = "await" /\ setting.givesUp /\ spc' = "drop"
    /\ UNCHANGED <<setting, host, sending, intv, askv, exitv, misc, stdinClosed, cin, cout, claude>>
\* dropStreamTurn, then failSubmit, each under its own lock.
DropStreamTurn ==
    /\ spc = "drop" /\ spc' = "fail"
    /\ turn' = IF turn = sending THEN 0 ELSE turn
    /\ UNCHANGED <<setting, cur, ended, output, receipt, sending, intv, askv, exitv, misc, stdinClosed, cin, cout, claude>>
FailEnded ==
    /\ spc = "fail" /\ spc' = "idle"
    /\ ended' = [ended EXCEPT ![sending] = [how |-> "submit", by |-> sending]]
    /\ cur' = IF cur = sending THEN 0 ELSE cur
    /\ UNCHANGED <<setting, turn, output, receipt, sending, intv, askv, exitv, misc, stdinClosed, cin, cout, claude>>
FailSubmit ==
    /\ spc = "fail" /\ spc' = "idle"
    /\ IF cur = sending THEN EndTurn("submit", sending) ELSE UNCHANGED <<cur, ended>>
    /\ UNCHANGED <<setting, turn, output, receipt, sending, intv, askv, exitv, misc, stdinClosed, cin, cout, claude>>

-----------------------------------------------------------------------------
\* onStreamFrame, on the goroutine that reads stdout.
LifecycleOfAny(m, state) ==
    IF turn = 0 THEN UNCHANGED <<host, op>>
    ELSE Received(turn) /\ UNCHANGED <<cur, turn, ended, output, op>>
Lifecycle(m, state) ==
    IF turn # m THEN UNCHANGED <<host, op>>
    ELSE CASE state = "queued" -> Received(m) /\ UNCHANGED <<cur, turn, ended, output, op>>
           [] OTHER ->
                /\ turn' = 0 /\ Received(m) /\ EndTurn(IF state = "cancelled" THEN "interrupted" ELSE "errored", m)
                /\ IF cur = 0 THEN UNCHANGED op
                   ELSE Finish(m, IF state = "cancelled" THEN "cancelled" ELSE "too_late")
                /\ UNCHANGED output
\* onStreamResult: the result names no message, it ends the turn in flight.
Result(m, how) ==
    /\ turn' = 0 /\ UNCHANGED output
    /\ IF cur = 0 THEN UNCHANGED <<cur, ended, receipt, op>>
       ELSE /\ EndTurn(IF how = "aborted" THEN "interrupted" ELSE IF how = "error" THEN "errored" ELSE "complete", m)
            /\ Received(turn)
            /\ Finish(turn, CASE how # "aborted" -> "too_late"
                              [] output /\ turn # 0 -> "stopped" [] OTHER -> "cancelled")
\* onStreamInit: a claude that lacks a capability is not run.
OnInit ==
    /\ capsChecked' = TRUE
    /\ IF capsChecked \/ setting.caps
       THEN UNCHANGED <<host, op, stopping>>
       ELSE /\ turn' = 0 /\ EndTurn("errored", cur) /\ Received(turn) /\ Finish(turn, "failed")
            /\ stopping' = TRUE /\ UNCHANGED output
\* onStreamControlRequest: the policy answers, or the client is asked.
OnAsk(m) ==
    IF setting.policy THEN Writes(Frame("answer", m)) /\ UNCHANGED perm
    ELSE perm' = m /\ UNCHANGED cin
RespondToAny(c) ==
    /\ control' = control \ {c}
    /\ ipc' = IF c \in control THEN [ipc EXCEPT ![c] = "wait"] ELSE ipc
    /\ op' = IF c \in control /\ op[iop[c]] = "open" THEN [op EXCEPT ![iop[c]] = "stopped"] ELSE op
\* A control response goes to the request that waits for it.
Respond(c) ==
    /\ control' = control \ {c}
    /\ ipc' = IF c \in control THEN [ipc EXCEPT ![c] = "wait"] ELSE ipc
    /\ UNCHANGED op
Consume == cout # <<>> /\ cout' = Tail(cout)
OnStreamLifecycle ==
    /\ Consume /\ Head(cout).kind \in {"queued", "discarded", "cancelled"}
    /\ Lifecycle(Head(cout).of, Head(cout).kind)
    /\ UNCHANGED <<setting, sendv, ipc, iop, control, askv, exitv, misc, stdinClosed, cin, claude>>
OnStreamResult ==
    /\ Consume /\ Head(cout).kind \in {"result", "error", "aborted"}
    /\ Result(Head(cout).of, Head(cout).kind)
    /\ UNCHANGED <<setting, sendv, ipc, iop, control, askv, exitv, misc, stdinClosed, cin, claude>>
OnStreamInit ==
    /\ Consume /\ Head(cout).kind = "init" /\ OnInit
    /\ UNCHANGED <<setting, sendv, ipc, iop, control, askv, closed, exit, wpc, stdinClosed, cin, claude>>
OnStreamEvent ==
    /\ Consume /\ Head(cout).kind = "delta"
    /\ output' = (output \/ turn # 0)
    /\ UNCHANGED <<setting, cur, turn, ended, receipt, sendv, intv, askv, exitv, misc, stdinClosed, cin, claude>>
OnStreamControlRequest ==
    /\ Consume /\ Head(cout).kind = "ask" /\ (OnAsk(Head(cout).of) \/ (setting.policy /\ Fails /\ UNCHANGED <<perm, cin>>))
    /\ UNCHANGED <<setting, host, sendv, intv, apc, asking, exitv, misc, stdinClosed, claude>>
OnControlResponse ==
    /\ Consume /\ Head(cout).kind = "response" /\ Respond(Head(cout).of)
    /\ UNCHANGED <<setting, host, sendv, iop, askv, exitv, misc, stdinClosed, cin, claude>>
StreamRead == OnStreamLifecycle \/ OnStreamResult \/ OnStreamInit \/ OnStreamEvent
              \/ OnStreamControlRequest \/ OnControlResponse

-----------------------------------------------------------------------------
\* streamInterrupt: one control request a turn; later callers join.  The first
\* notes currentTurn's id: where the exit has ended that and not yet the Send's
\* stream.turn, it is nil, and the call panics.
Interrupt(c) ==
    /\ ipc[c] = "idle" /\ ~closed /\ turn # 0
    /\ IF op[turn] # "none" \/ cur # 0 THEN iop' = [iop EXCEPT ![c] = turn] ELSE UNCHANGED iop
    /\ IF op[turn] # "none" THEN ipc' = [ipc EXCEPT ![c] = "wait"] /\ UNCHANGED op
       ELSE IF cur = 0 THEN ipc' = [ipc EXCEPT ![c] = "panic"] /\ UNCHANGED op
       ELSE ipc' = [ipc EXCEPT ![c] = "write"] /\ op' = [op EXCEPT ![turn] = "open"]
    /\ UNCHANGED <<setting, host, sendv, control, askv, exitv, misc, stdinClosed, cin, cout, claude>>
\* streamControl: the request is registered before it is written.  A request
\* that was written is answered, or failed by streamWait before it closes done:
\* the select's arm on done reports the same failure.
ControlWrites(c) ==
    /\ ipc[c] = "write"
    /\ \/ /\ Writes(Frame("interrupt", c)) /\ ipc' = [ipc EXCEPT ![c] = "control"]
          /\ control' = control \cup {c} /\ UNCHANGED op
       \/ /\ Fails /\ Finish(iop[c], "failed") /\ ipc' = [ipc EXCEPT ![c] = "wait"]
          /\ UNCHANGED <<cin, control>>
    /\ UNCHANGED <<setting, host, sendv, iop, askv, exitv, misc, stdinClosed, cout, claude>>
InterruptReturns(c) ==
    /\ ipc[c] = "wait" /\ op[iop[c]] \notin {"none", "open"} /\ ipc' = [ipc EXCEPT ![c] = "done"]
    /\ UNCHANGED <<setting, host, sendv, op, iop, control, askv, exitv, misc, stdinClosed, cin, cout, claude>>

\* streamAnswer: checked under the lock, written without it, cleared under it.
Answer ==
    /\ apc = "idle" /\ perm # 0 /\ apc' = "write" /\ asking' = perm
    /\ UNCHANGED <<setting, host, sendv, intv, perm, exitv, misc, stdinClosed, cin, cout, claude>>
AnswerWrites ==
    /\ apc = "write"
    /\ \/ Writes(Frame("answer", asking)) /\ apc' = "clear"
       \/ Fails /\ apc' = "idle" /\ UNCHANGED cin
    /\ UNCHANGED <<setting, host, sendv, intv, perm, asking, exitv, misc, stdinClosed, cout, claude>>
AnswerClears ==
    /\ apc = "clear" /\ apc' = "idle" /\ perm' = IF perm = asking THEN 0 ELSE perm
    /\ UNCHANGED <<setting, host, sendv, intv, asking, exitv, misc, stdinClosed, cin, cout, claude>>

\* streamQuit closes stdin; Close (stopStream) closes it and then signals.
Quit ==
    /\ setting.stops /\ ~stdinClosed /\ ~closed /\ stdinClosed' = TRUE
    /\ UNCHANGED <<setting, host, sendv, intv, askv, exitv, misc, cin, cout, claude>>
Close ==
    /\ setting.stops /\ ~closed /\ closed' = TRUE /\ stopping' = TRUE
    /\ UNCHANGED <<setting, host, sendv, intv, askv, exit, wpc, misc, stdinClosed, cin, cout, claude>>
StopStream ==
    /\ stopping /\ ~stdinClosed /\ stdinClosed' = TRUE
    /\ UNCHANGED <<setting, host, sendv, intv, askv, exitv, misc, cin, cout, claude>>

-----------------------------------------------------------------------------
\* streamWait, once claude has exited and its stdout is read to the end.
WaitReaps ==
    /\ wpc = "wait" /\ claude.exited /\ cout = <<>>
    /\ wpc' = "control" /\ stdinClosed' = TRUE
    /\ UNCHANGED <<setting, host, sendv, intv, askv, closed, stopping, exit, misc, cin, cout, claude>>
WaitFailsControls ==
    /\ wpc = "control" /\ wpc' = "turn"
    /\ control' = {}
    /\ ipc' = [c \in Callers |-> IF c \in control THEN "wait" ELSE ipc[c]]
    /\ op' = [m \in Messages |-> IF op[m] = "open" /\ \E c \in control : iop[c] = m THEN "failed" ELSE op[m]]
    /\ UNCHANGED <<setting, host, sendv, iop, askv, closed, stopping, exit, misc, stdinClosed, cin, cout, claude>>
WaitDropsTurn ==
    /\ wpc = "turn" /\ wpc' = "exit"
    /\ turn' = 0 /\ Finish(turn, "failed") /\ perm' = 0
    /\ UNCHANGED <<setting, cur, ended, output, receipt, sendv, ipc, iop, control, apc, asking, closed, stopping, exit, misc, stdinClosed, cin, cout, claude>>
\* exitWith: done is closed, a Send that was recording its turn finishes doing
\* so, and the turn left in flight ends.
ExitWith ==
    /\ wpc = "exit" /\ wpc' = "claim" /\ exit' = TRUE
    /\ UNCHANGED <<setting, host, sendv, intv, askv, closed, stopping, misc, stdinClosed, cin, cout, claude>>
ExitKeeps ==
    /\ wpc = "claim" /\ spc # "record" /\ wpc' = "gone"
    /\ UNCHANGED <<setting, host, sendv, intv, askv, closed, stopping, exit, misc, stdinClosed, cin, cout, claude>>
ExitClaims ==
    /\ wpc = "claim" /\ spc # "record" /\ wpc' = "gone" /\ EndTurn("exited", cur)
    /\ UNCHANGED <<setting, turn, output, receipt, sendv, intv, askv, closed, stopping, exit, misc, stdinClosed, cin, cout, claude>>

Send == SendBegins \/ SendRecords \/ SendRegisters \/ SendWrites \/ SendReturns \/ SendGivesUp \/ DropStreamTurn \/ FailSubmit
Interrupts == \E c \in Callers : Interrupt(c) \/ ControlWrites(c) \/ InterruptReturns(c)
Answers == Answer \/ AnswerWrites \/ AnswerClears
Exits == WaitReaps \/ WaitFailsControls \/ WaitDropsTurn \/ ExitWith \/ ExitClaims
Next == Send \/ Interrupts \/ Answers \/ Exits \/ Quit \/ Close \/ StopStream
        \/ StreamRead \/ ClaudeReads \/ ClaudeWorks \/ ClaudeExits

Spec == Init /\ [][Next]_vars

-----------------------------------------------------------------------------
TypeOK ==
    /\ setting \in Settings
    /\ cur \in 0..MaxTurns /\ turn \in 0..MaxTurns /\ output \in BOOLEAN
    /\ \A m \in Messages : ended[m].how \in {"open", "submit", "complete", "errored", "interrupted", "exited"}
    /\ spc \in {"idle", "record", "begun", "write", "await", "drop", "fail"}
    /\ control \subseteq Callers /\ perm \in 0..MaxTurns
    /\ Len(cin) <= PipeFrames /\ Len(cout) <= PipeFrames + 1

\* The receipt of a message is claude's (onStreamLifecycle compares uuids): a
\* Send that waits on its receipt sees it only after claude took its message
\* or its turn ended, whatever earlier messages were given up.
ReceiptIsOwn ==
    \A m \in Messages : receipt[m] /\ ended[m] = Open => claude.read >= m
\* What Interrupt reports is what the turn did (streamInterrupt: "settled by
\* the turn's result"): stopped or cancelled is an interrupted turn, and a turn
\* that was over first is too late.
InterruptIsHonest ==
    \A m \in Messages :
        /\ op[m] \in {"stopped", "cancelled"} => ended[m].how = "interrupted"
        /\ op[m] = "too_late" => ended[m].how \in {"complete", "errored"}
\* One message in flight keeps each result its own turn's (ADR-009), as long as
\* no earlier message was given up on while claude may still run it: its Send
\* gave up waiting, or the claude that runs it was refused at its first init.
ResultIsOwn ==
    \A m \in Messages : ended[m].how \in {"complete", "errored", "interrupted"} => ended[m].by = m
OneInFlight ==
    ResultIsOwn \/ ~setting.caps \/ \E m \in Messages : ended[m].how = "submit"
\* A turn ends once: its outcome, and the outcome of its Interrupt, stand.
OutcomeStands ==
    \A m \in Messages : /\ ended[m] # Open => ended'[m] = ended[m]
                        /\ op[m] \notin {"none", "open"} => op'[m] = op[m]

\* Every turn ends, even if claude dies or is stopped; or a permission waits for
\* the client, whom nothing hurries.
InFlight(m) == cur = m
Asked(m) == cur = m /\ perm # 0 /\ apc = "idle"
OverOrAsked(m) == cur # m \/ Asked(m)
\* The Interrupt of a message claude received returns by itself, if its turn is
\* not one that waits for the client: an interrupt claude read before the message
\* stops nothing.  The Send of a message that was not received, or that gave up
\* all the same, drops the turn with the Interrupt still on it (dropStreamTurn):
\* only its own context ends it.
Interrupting(c, m) == iop[c] = m /\ receipt[m] /\ ~setting.givesUp
Interrupted(c) == ipc[c] = "done" \/ (iop[c] # 0 /\ Asked(iop[c]))
=============================================================================
