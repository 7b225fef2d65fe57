--------------------------- MODULE CodexTransport ---------------------------
(***************************************************************************)
(* The codex app-server transport of a Harness Adapter                     *)
(* (pkg/adapter/codex/transport.go): whose turn is it.  An input is one    *)
(* turn/start; codex may also start turns by itself, while its goal is     *)
(* active, and folds an input sent during a turn into that turn.  The      *)
(* transport stops codex's own turn before it sends, attributes each turn  *)
(* to the input or to codex, and sends a dropped input again.              *)
(* codex (external) reads requests and writes notifications in order.      *)
(***************************************************************************)
EXTENDS Integers, Sequences

CONSTANTS
    Settings,     \* [goal, holds, refuses, dies, interrupts, slow, steer]: BOOLEAN each
    MaxInputs, MaxTurns, MaxCalls, PipeFrames

VARIABLES
    setting,
    inp, run, chain, goal,        \* t.in, t.run, t.chain, t.goal
    spc, sent, waits, nextCall,   \* the Submit in progress, its input, its call
    result,                       \* per input: what Submit returned
    rep, ownStarted, ownEnded,    \* what was reported of inputs, and of codex's own turns
    asks,                         \* turns whose turn/interrupt went to codex
    stopping, stdinClosed, exited,
    cin, cout, codex, ran         \* the pipes, codex, how often an input ran

subv  == <<spc, sent, waits, result>>
repv  == <<rep, ownStarted, ownEnded>>
endv  == <<stopping, stdinClosed, exited>>
trans == <<inp, run, chain, goal>>
ext   == <<cin, cout, codex, ran>>
vars  == <<setting, trans, subv, nextCall, repv, asks, endv, ext>>

Inputs == 1..MaxInputs
NoInput == [n |-> 0, call |-> 0, answered |-> FALSE, turn |-> 0, bound |-> FALSE,
            interrupt |-> FALSE, resent |-> FALSE, held |-> FALSE, again |-> FALSE]
NoRun == [id |-> 0, in |-> 0, auto |-> FALSE, stopping |-> FALSE]
Msg(kind, turn, of, what) == [kind |-> kind, turn |-> turn, of |-> of, what |-> what]

Init ==
    /\ setting \in Settings
    /\ inp = NoInput /\ run = NoRun /\ goal = setting.goal /\ chain = setting.goal
    /\ spc = "idle" /\ sent = 0 /\ waits = 0 /\ nextCall = 1
    /\ result = [n \in Inputs |-> "none"]
    /\ rep = [n \in Inputs |-> [started |-> 0, ended |-> <<>>]] /\ ownStarted = {} /\ ownEnded = {}
    /\ asks = {} /\ stopping = FALSE /\ stdinClosed = FALSE /\ exited = FALSE
    /\ cin = <<>> /\ cout = <<>> /\ ran = [n \in Inputs |-> 0]
    /\ codex = [turn |-> 0, held |-> 0, own |-> FALSE, goal |-> setting.goal, chain |-> setting.goal,
                next |-> 1, exited |-> FALSE]

-----------------------------------------------------------------------------
\* codex.
Host == <<setting, trans, subv, nextCall, repv, asks, endv>>
Alive == ~codex.exited /\ Len(cout) < PipeFrames
CodexStartsOwn ==
    /\ Alive /\ codex.turn = 0 /\ codex.chain /\ codex.next + MaxInputs <= MaxTurns   \* the bound leaves a turn for each input
    /\ codex' = [codex EXCEPT !.turn = codex.next, !.next = @ + 1, !.own = TRUE, !.chain = FALSE]
    /\ cout' = Append(cout, Msg("started", codex.next, 0, ""))
    /\ UNCHANGED <<Host, cin, ran>>
CodexReads ==
    /\ Alive /\ cin # <<>> /\ cin' = Tail(cin) /\ UNCHANGED <<Host, ran>>
    /\ LET in == Head(cin).in  call == Head(cin).call  id == codex.next IN
       \/ /\ setting.refuses
          /\ cout' = Append(cout, Msg("answer", 0, call, "refused")) /\ UNCHANGED codex
       \/ /\ codex.turn # 0
          /\ codex' = [codex EXCEPT !.held = in]
          /\ cout' = Append(cout, Msg("answer", codex.turn, call, "ok"))
       \/ /\ codex.turn = 0 /\ id <= MaxTurns
          /\ codex' = [codex EXCEPT !.turn = id, !.next = @ + 1, !.own = FALSE, !.held = in, !.chain = FALSE]
          /\ LET a == Msg("answer", id, call, "ok")  s == Msg("started", id, 0, "") IN
             cout' \in {cout \o <<a, s>>, cout \o <<s, a>>}
CodexTakesIn ==
    /\ Alive /\ codex.turn # 0 /\ codex.held # 0
    /\ ran' = [ran EXCEPT ![codex.held] = @ + 1]
    /\ codex' = [codex EXCEPT !.held = 0]
    /\ cout' = Append(cout, Msg("user", codex.turn, codex.held, ""))
    /\ UNCHANGED <<Host, cin>>
\* It takes an input in before the turn ends, unless it holds it over.
CodexEndsTurn ==
    /\ Alive /\ codex.turn # 0 /\ (codex.held = 0 \/ (setting.holds /\ codex.own))
    /\ codex' = [codex EXCEPT !.turn = 0, !.chain = codex.goal]
    /\ \E status \in {"completed", "errored"} : cout' = Append(cout, Msg("done", codex.turn, 0, status))
    /\ UNCHANGED <<Host, cin, ran>>
CodexStops ==
    /\ Alive /\ codex.turn # 0 /\ codex.turn \in asks
    /\ codex' = [codex EXCEPT !.turn = 0, !.held = 0, !.chain = FALSE]
    /\ cout' = Append(cout, Msg("done", codex.turn, 0, "interrupted"))
    /\ UNCHANGED <<Host, cin, ran>>
CodexGoalEnds ==
    /\ Alive /\ codex.goal
    /\ codex' = [codex EXCEPT !.goal = FALSE, !.chain = FALSE]
    /\ cout' = Append(cout, Msg("goal", 0, 0, "cleared"))
    /\ UNCHANGED <<Host, cin, ran>>
CodexExits ==
    /\ ~codex.exited /\ (setting.dies \/ stopping)
    /\ codex' = [codex EXCEPT !.exited = TRUE]
    /\ UNCHANGED <<Host, cin, cout, ran>>

-----------------------------------------------------------------------------
\* Reports: what the Session is told.
Started(n) == rep' = [rep EXCEPT ![n].started = @ + 1]
Ended(n, outcome) == rep' = [rep EXCEPT ![n].ended = Append(@, outcome)]
NoReport == UNCHANGED rep
\* bindLocked: r is the input's turn; an interrupt asked of it before is due.
Bound(r, i) == [r EXCEPT !.in = i.n, !.auto = FALSE, !.stopping = @ \/ i.interrupt]
Due(r, i) == IF i.interrupt /\ ~r.stopping THEN asks \cup {r.id} ELSE asks
Pending(r) == r.id # 0 /\ r.in = 0 /\ ~r.auto

Consume(kind) == cout # <<>> /\ Head(cout).kind = kind /\ cout' = Tail(cout)
\* onAnswer: turn/start's answer says whether the turn that started meanwhile
\* is the input's or codex's own.
Answered(m) ==
    LET own == m.what = "ok" /\ Pending(run) /\ run.id = m.turn
        i   == [inp EXCEPT !.call = 0, !.answered = TRUE, !.turn = m.turn]
    IN  /\ inp' = IF m.what = "refused" THEN NoInput ELSE [i EXCEPT !.bound = own]
        /\ run' = IF own THEN Bound(run, i) ELSE [run EXCEPT !.auto = @ \/ Pending(run)]
        /\ asks' = IF own THEN Due(run, i) ELSE asks
        /\ ownStarted' = IF Pending(run) /\ ~own THEN ownStarted \cup {run.id} ELSE ownStarted
        /\ IF own THEN Started(i.n)
           ELSE IF m.what = "refused" /\ inp.resent THEN Ended(inp.n, "cancelled") ELSE NoReport
OnAnswer ==
    /\ Consume("answer")
    /\ IF inp.n # 0 /\ inp.call = Head(cout).of THEN Answered(Head(cout))
       ELSE UNCHANGED <<inp, run, asks, ownStarted, rep>>
    /\ IF waits = Head(cout).of
       THEN waits' = 0 /\ spc' = IF Head(cout).what = "ok" THEN "accepted" ELSE "refused"
       ELSE UNCHANGED <<waits, spc>>
    /\ UNCHANGED <<setting, chain, goal, sent, nextCall, result, ownEnded, endv, cin, codex, ran>>
OnTurnStartedBinds ==
    /\ Consume("started")
    /\ LET r == [NoRun EXCEPT !.id = Head(cout).turn] IN
       IF inp.n # 0
       THEN /\ run' = Bound(r, inp) /\ inp' = [inp EXCEPT !.bound = TRUE] /\ asks' = Due(r, inp)
            /\ Started(inp.n) /\ UNCHANGED ownStarted
       ELSE /\ run' = [r EXCEPT !.auto = TRUE] /\ ownStarted' = ownStarted \cup {r.id}
            /\ UNCHANGED <<inp, asks, rep>>
    /\ chain' = FALSE
    /\ UNCHANGED <<setting, goal, subv, nextCall, ownEnded, endv, cin, codex, ran>>
OnTurnStarted ==
    /\ Consume("started")
    /\ LET r == [NoRun EXCEPT !.id = Head(cout).turn] IN
       CASE inp.n # 0 /\ inp.answered /\ inp.turn = r.id ->
              /\ run' = Bound(r, inp) /\ inp' = [inp EXCEPT !.bound = TRUE] /\ asks' = Due(r, inp)
              /\ Started(inp.n) /\ UNCHANGED ownStarted
         [] inp.n # 0 /\ ~inp.answered -> run' = r /\ UNCHANGED <<inp, asks, rep, ownStarted>>
         [] OTHER -> /\ run' = [r EXCEPT !.auto = TRUE] /\ ownStarted' = ownStarted \cup {r.id}
                     /\ UNCHANGED <<inp, asks, rep>>
    /\ chain' = FALSE
    /\ UNCHANGED <<setting, goal, subv, nextCall, ownEnded, endv, cin, codex, ran>>
\* item/started of a user message: codex folded the input into its own turn.
OnUserMessage ==
    /\ Consume("user")
    /\ IF run.id = Head(cout).turn /\ run.in = 0 /\ inp.n = Head(cout).of /\ ~inp.bound
       THEN /\ ownEnded' = IF run.auto THEN ownEnded \cup {run.id} ELSE ownEnded
            /\ run' = Bound(run, inp) /\ inp' = [inp EXCEPT !.bound = TRUE] /\ asks' = Due(run, inp)
            /\ Started(inp.n)
       ELSE UNCHANGED <<ownEnded, run, inp, asks, rep>>
    /\ UNCHANGED <<setting, chain, goal, subv, nextCall, ownStarted, endv, cin, codex, ran>>
ResendHeld(status) ==
    IF status = "interrupted" /\ inp.interrupt THEN inp' = NoInput /\ Ended(inp.n, "cancelled")
    ELSE inp' = [inp EXCEPT !.again = TRUE] /\ NoReport
\* An input codex's own turn held and never took in: dropped, or held still.
Leftover(status) ==
    IF status = "interrupted" /\ inp.interrupt THEN inp' = NoInput /\ Ended(inp.n, "cancelled")
    ELSE inp' = [inp EXCEPT !.again = TRUE, !.held = @ \/ status # "interrupted"] /\ NoReport
OnTurnCompleted ==
    /\ Consume("done")
    /\ LET status == Head(cout).what IN
       IF run.id # Head(cout).turn THEN UNCHANGED <<inp, run, chain, rep, ownEnded>>
       ELSE /\ run' = NoRun /\ chain' = (status # "interrupted" /\ goal)
            /\ IF run.in # 0
               THEN /\ Ended(run.in, status) /\ UNCHANGED ownEnded
                    /\ inp' = IF inp.n = run.in THEN NoInput ELSE inp
               ELSE /\ ownEnded' = ownEnded \cup {run.id}
                    /\ IF inp.n # 0 /\ inp.answered /\ ~inp.bound THEN Leftover(status)
                       ELSE UNCHANGED <<inp, rep>>
    /\ UNCHANGED <<setting, goal, subv, nextCall, ownStarted, asks, endv, cin, codex, ran>>
OnGoalCleared ==
    /\ Consume("goal") /\ goal' = FALSE /\ chain' = FALSE
    /\ UNCHANGED <<setting, inp, run, subv, nextCall, repv, asks, endv, cin, codex, ran>>
Read == OnAnswer \/ OnTurnStarted \/ OnUserMessage \/ OnTurnCompleted \/ OnGoalCleared

-----------------------------------------------------------------------------
\* startTurn and send: the call's id is the input's before codex can answer.
Broken == stdinClosed \/ codex.exited
Call(n) == nextCall <= MaxCalls /\ cin' = Append(cin, [in |-> n, call |-> nextCall]) /\ nextCall' = nextCall + 1
ResendWaits ==
    /\ inp.again /\ ~exited
    /\ inp' = [inp EXCEPT !.again = FALSE]
    /\ UNCHANGED <<setting, run, chain, goal, subv, nextCall, repv, asks, endv, ext>>
\* resend, once the wait has passed with codex starting no turn for the input.
Resend ==
    /\ inp.again /\ ~exited
    /\ CASE inp.bound \/ (run.id # 0 /\ run.in = 0) -> inp' = [inp EXCEPT !.again = FALSE] /\ UNCHANGED <<rep, cin, nextCall>>
         [] inp.interrupt -> inp' = NoInput /\ Ended(inp.n, "cancelled") /\ UNCHANGED <<cin, nextCall>>
         [] inp.held -> inp' = NoInput /\ Ended(inp.n, "errored") /\ UNCHANGED <<cin, nextCall>>
         [] Broken -> inp' = NoInput /\ Ended(inp.n, "cancelled") /\ UNCHANGED <<cin, nextCall>>
         [] OTHER -> /\ Call(inp.n) /\ NoReport
                     /\ inp' = [inp EXCEPT !.again = FALSE, !.resent = TRUE, !.answered = FALSE, !.turn = 0, !.call = nextCall]
    /\ UNCHANGED <<setting, run, chain, goal, subv, ownStarted, ownEnded, asks, endv, cout, codex, ran>>

\* Submit.  The Session sends the next input when the one before ended, or
\* never reached codex.
Free(n) == IF n = 0 THEN TRUE ELSE rep[n].ended # <<>> \/ result[n] = "not_submitted"
Submit ==
    /\ spc = "idle" /\ sent < MaxInputs /\ Free(sent) /\ ~stopping
    /\ sent' = sent + 1 /\ spc' = "yield"
    /\ UNCHANGED <<setting, trans, waits, result, nextCall, repv, asks, endv, ext>>
\* yield: a turn of codex's own is stopped, one it is about to start awaited.
YieldStops ==
    /\ spc = "yield" /\ run.id # 0 /\ run.in = 0 /\ ~run.stopping
    /\ run' = [run EXCEPT !.stopping = TRUE] /\ asks' = asks \cup {run.id}
    /\ UNCHANGED <<setting, inp, chain, goal, subv, nextCall, repv, endv, ext>>
\* chainWait passed counts as no turn coming: the input goes ahead.  With
\* steer it goes ahead during codex's own turn.
YieldDone ==
    /\ spc = "yield" /\ (run.id = 0 \/ (setting.steer /\ run.in = 0)) /\ ~exited
    /\ chain' = FALSE /\ inp' = [NoInput EXCEPT !.n = sent] /\ spc' = "start"
    /\ UNCHANGED <<setting, run, goal, sent, waits, result, nextCall, repv, asks, endv, ext>>
Return(what) == result' = [result EXCEPT ![sent] = what] /\ spc' = "idle"
YieldFails ==
    /\ spc = "yield" /\ (exited \/ run.in # 0 \/ setting.slow) /\ Return("not_submitted")
    /\ UNCHANGED <<setting, trans, sent, waits, nextCall, repv, asks, endv, ext>>
StartTurn ==
    /\ spc = "start"
    /\ \/ /\ ~Broken /\ Call(sent) /\ inp' = [inp EXCEPT !.call = nextCall]
          /\ waits' = nextCall /\ spc' = "await" /\ UNCHANGED result
       \/ /\ Broken /\ inp' = NoInput /\ Return("not_submitted") /\ UNCHANGED <<waits, cin, nextCall>>
    /\ UNCHANGED <<setting, run, chain, goal, sent, repv, asks, endv, cout, codex, ran>>
SubmitReturns ==
    /\ \/ spc = "accepted" /\ Return("submitted") /\ UNCHANGED inp
       \/ /\ spc = "refused" /\ Return("not_submitted")
          /\ inp' = IF inp.n = sent THEN NoInput ELSE inp
       \/ spc = "await" /\ exited /\ Return("unknown") /\ UNCHANGED inp
    /\ UNCHANGED <<setting, run, chain, goal, sent, waits, nextCall, repv, asks, endv, ext>>
SubmitFreed ==
    /\ spc = "await" /\ setting.slow /\ Return("not_submitted") /\ waits' = 0
    /\ UNCHANGED <<setting, trans, sent, nextCall, repv, asks, endv, ext>>
SubmitTimesOut ==
    /\ spc = "await" /\ setting.slow /\ Return("unknown") /\ waits' = 0
    /\ UNCHANGED <<setting, trans, sent, nextCall, repv, asks, endv, ext>>

Interrupt ==
    /\ setting.interrupts /\ inp.n # 0 /\ ~inp.interrupt
    /\ inp' = [inp EXCEPT !.interrupt = TRUE]
    /\ LET due == run.id # 0 /\ ~run.stopping
                  /\ (run.in = inp.n \/ (run.in = 0 /\ inp.answered /\ ~inp.bound)) IN
       /\ run' = [run EXCEPT !.stopping = @ \/ due]
       /\ asks' = IF due THEN asks \cup {run.id} ELSE asks
    /\ UNCHANGED <<setting, chain, goal, subv, nextCall, repv, endv, ext>>
InterruptTurn ==
    /\ setting.interrupts /\ run.id # 0 /\ run.in = 0 /\ run.id \in ownStarted /\ ~run.stopping
    /\ run' = [run EXCEPT !.stopping = TRUE] /\ asks' = asks \cup {run.id}
    /\ UNCHANGED <<setting, inp, chain, goal, subv, nextCall, repv, endv, ext>>

\* Stop closes stdin when no input is on codex, and signals the group.
Stop ==
    /\ setting.dies /\ ~stopping /\ stopping' = TRUE
    /\ stdinClosed' = (stdinClosed \/ (inp.n = 0 /\ run.in = 0))
    /\ UNCHANGED <<setting, trans, subv, nextCall, repv, asks, exited, ext>>
\* wait: the exit is reported after every line codex wrote was read.
Wait ==
    /\ codex.exited /\ cout = <<>> /\ ~exited /\ exited' = TRUE /\ stdinClosed' = TRUE
    /\ UNCHANGED <<setting, trans, subv, nextCall, repv, asks, stopping, ext>>

Next == Read \/ Resend \/ Submit \/ YieldStops \/ YieldDone \/ YieldFails \/ StartTurn \/ SubmitReturns
        \/ SubmitTimesOut \/ Interrupt \/ InterruptTurn \/ Stop \/ Wait
        \/ CodexStartsOwn \/ CodexReads \/ CodexTakesIn \/ CodexEndsTurn \/ CodexStops \/ CodexGoalEnds \/ CodexExits
Spec == Init /\ [][Next]_vars

-----------------------------------------------------------------------------
TypeOK ==
    /\ setting \in Settings /\ inp.n \in 0..MaxInputs /\ run.id \in 0..MaxTurns /\ run.in \in 0..MaxInputs
    /\ chain \in BOOLEAN /\ goal \in BOOLEAN /\ asks \subseteq 1..MaxTurns /\ Len(cout) <= PipeFrames + 1
    /\ ownStarted \subseteq 1..MaxTurns /\ ownEnded \subseteq 1..MaxTurns
\* An input runs at most once, however often it is sent (resend: "one a turn
\* may still hold never is").
RunsOnce == \A n \in Inputs : ran[n] <= 1
\* What Submit says never reached codex never runs.
NotSubmittedNeverRan == \A n \in Inputs : result[n] = "not_submitted" => ran[n] = 0
\* An input is reported started once and ended once, in that order, and
\* completed only if codex ran it (a codex that takes an input in before the
\* turn it answered ends), cancelled only if it did not.
ReportsAreTrue ==
    \A n \in Inputs :
        /\ rep[n].started <= 1 /\ Len(rep[n].ended) <= 1
        /\ rep[n].ended = <<"completed">> => ran[n] = 1 \/ setting.holds
        /\ rep[n].ended = <<"cancelled">> => ran[n] = 0
\* An input handed over is settled: it ends, unless codex is gone.
Submitted(n) == result[n] = "submitted"
Settled(n) == rep[n].ended # <<>> \/ codex.exited
=============================================================================
