----------------------------- MODULE PiSession -----------------------------
(***************************************************************************)
(* A Session on pi (pkg/adapter/pi): the RPC transport (transport.go),     *)
(* which reports an input's turn live from pi's events, and the record     *)
(* reader (record.go), which reads the same turn from pi's session file,   *)
(* after a restart too.  An interrupt is noted on disk before pi is asked  *)
(* to abort, so that both readings of it agree.  pi (external) answers     *)
(* commands and writes events and file entries in order.                   *)
(***************************************************************************)
EXTENDS Integers, Sequences, FiniteSets, SequencesExt

CONSTANTS
    Settings,     \* [refuses, dies, interrupts, slow, restarts]: BOOLEAN each, the inputs sent
                  \* and the retries pi makes of a failed reply
    MaxInputs, MaxRestarts, PipeFrames

VARIABLES
    setting,
    turn,                       \* t.turn: the input pi is on
    spc, sent, result,          \* Send: its step, the inputs sent, what Submit returned
    ipc, iof, asked, notes,     \* Interrupt: its step, its turn; the notes on disk
    rep,                        \* what was reported live of each input
    stopping, stdinClosed, exited,
    reader,                     \* the record reader: its position and state
    recorded, restarts,         \* the ends it read from the record
    cin, cout, pi, file,
    strays                      \* the inputs an abort meant for another stopped

sendv == <<spc, sent, result>>
intv  == <<ipc, iof, asked, notes>>
endv  == <<stopping, stdinClosed, exited>>
recv  == <<reader, recorded, restarts>>
vars  == <<setting, turn, sendv, intv, rep, endv, recv, cin, cout, pi, file, strays>>

Inputs == 1..MaxInputs
NoTurn == [n |-> 0, started |-> FALSE, interrupted |-> FALSE, cancelled |-> FALSE, last |-> "none"]
Empty  == [tags |-> {}, input |-> 0, ended |-> FALSE, attempts |-> 0, failed |-> FALSE, retrying |-> FALSE]
Line(kind, n) == [kind |-> kind, n |-> n]
\* An entry of the session file: a tag, a user message descending from the
\* tag n, an answer by its stop reason, a context_edit dropping a failure.  A
\* failure is one pi retries, one it does not ("fatal": final of its class), or
\* the one it calls an abort.
Entry(kind, n) == [kind |-> kind, n |-> n]
Failures == {"error", "fatal", "abortedError"}
Answers == {"stop", "aborted", "length"} \cup Failures

Init ==
    /\ setting \in Settings /\ turn = NoTurn
    /\ spc = "idle" /\ sent = 0 /\ result = [n \in Inputs |-> "none"]
    /\ ipc = "idle" /\ iof = 0 /\ asked = {} /\ notes = {}
    /\ rep = [n \in Inputs |-> [started |-> 0, ended |-> <<>>]]
    /\ stopping = FALSE /\ stdinClosed = FALSE /\ exited = FALSE
    /\ reader = [pos |-> 0, st |-> Empty] /\ recorded = {} /\ restarts = 0
    /\ cin = <<>> /\ cout = <<>> /\ file = <<>> /\ strays = {}
    /\ pi = [on |-> 0, phase |-> "idle", fails |-> 0, exited |-> FALSE]

-----------------------------------------------------------------------------
\* pi.
Host == <<setting, turn, sendv, intv, rep, endv, recv>>
Alive == ~pi.exited /\ Len(cout) < PipeFrames
PiReads ==
    /\ Alive /\ cin # <<>> /\ cin' = Tail(cin) /\ UNCHANGED Host
    /\ strays' = IF Head(cin).kind = "abort" /\ pi.on \notin {0, Head(cin).n} THEN strays \cup {pi.on} ELSE strays
    /\ LET c == Head(cin) IN
       \/ /\ c.kind = "prompt" /\ (setting.refuses \/ pi.on # 0) \* the tag is written, no user message is
          /\ file' = Append(file, Entry("tag", c.n)) /\ cout' = Append(cout, Line("refused", c.n)) /\ UNCHANGED pi
       \/ /\ c.kind = "prompt" /\ pi.on = 0
          /\ pi' = [pi EXCEPT !.on = c.n, !.phase = "run", !.fails = 0]
          /\ file' = file \o <<Entry("tag", c.n), Entry("user", c.n)>>
          /\ cout' \in {cout \o <<Line("started", c.n), Line("agent_start", 0)>>,
                        cout \o <<Line("agent_start", 0), Line("started", c.n)>>}
       \/ /\ c.kind = "abort"
          /\ CASE pi.phase = "run" ->      \* an answer cut short, or a tool: pi calls that one a failure
                    /\ pi' = [pi EXCEPT !.phase = "done"]
                    /\ \E a \in {"aborted", "abortedError"} :
                           file' = Append(file, Entry(a, 0)) /\ cout' = cout \o <<Line("response", 0), Line(a, 0)>>
               [] pi.phase = "retry" ->
                    /\ pi' = [pi EXCEPT !.phase = "done"] /\ UNCHANGED file
                    /\ cout' = cout \o <<Line("response", 0), Line("retryCancelled", 0)>>
               [] OTHER -> cout' = Append(cout, Line("response", 0)) /\ UNCHANGED <<pi, file>>
PiAnswers ==
    /\ Alive /\ pi.phase = "run"
    /\ \/ /\ \E a \in {"stop", "length", "fatal"} : file' = Append(file, Entry(a, 0)) /\ cout' = Append(cout, Line(a, 0))
          /\ pi' = [pi EXCEPT !.phase = "done"]
       \/ /\ file' = Append(file, Entry("error", 0)) /\ cout' = Append(cout, Line("error", 0))
          /\ pi' = [pi EXCEPT !.fails = @ + 1, !.phase = IF pi.fails >= setting.retries THEN "done" ELSE "failed"]
    /\ UNCHANGED <<Host, cin, strays>>
\* A failure pi retries is dropped from the context; it waits, and tries again.
PiRetries ==
    /\ Alive
    /\ \/ /\ pi.phase = "failed" /\ pi' = [pi EXCEPT !.phase = "retry"]
          /\ file' = Append(file, Entry("edit", 0)) /\ cout' = Append(cout, Line("retry", 0))
       \/ pi.phase = "retry" /\ pi' = [pi EXCEPT !.phase = "run"] /\ UNCHANGED <<file, cout>>
    /\ UNCHANGED <<Host, cin, strays>>
PiSettles ==
    /\ Alive /\ pi.phase = "done" /\ pi' = [pi EXCEPT !.on = 0, !.phase = "idle"]
    /\ cout' = Append(cout, Line("settled", 0)) /\ UNCHANGED <<Host, cin, file, strays>>
PiExits ==
    /\ ~pi.exited /\ (setting.dies \/ stopping) /\ pi' = [pi EXCEPT !.exited = TRUE]
    /\ UNCHANGED <<Host, cin, cout, file, strays>>

-----------------------------------------------------------------------------
\* The transport's reader.
Consume(kinds) == cout # <<>> /\ Head(cout).kind \in kinds /\ cout' = Tail(cout)
Begun(t, r) == IF t.n = 0 \/ t.started THEN r ELSE [r EXCEPT ![t.n].started = @ + 1]
\* ended: how a run whose last assistant message is last ended.
EndedIgnoresNote(last, interrupted) ==
    CASE last = "none" -> IF interrupted THEN "interrupted" ELSE "errored"
      [] last = "stop" -> "completed"
      [] last = "aborted" -> "interrupted"
      [] OTHER -> "errored"
EndedOf(last, interrupted) ==
    CASE last = "none" -> IF interrupted THEN "interrupted" ELSE "errored"
      [] last = "stop" -> "completed"
      [] last = "aborted" -> "interrupted"
      [] last = "abortedError" /\ interrupted -> "interrupted"
      [] OTHER -> "errored"
Settled ==
    /\ turn' = NoTurn
    /\ rep' = IF turn.n = 0 THEN rep
              ELSE [Begun(turn, rep) EXCEPT ![turn.n].ended = Append(@,
                      IF turn.interrupted /\ turn.cancelled THEN "interrupted" ELSE EndedOf(turn.last, turn.interrupted))]
Rest == <<setting, sent, iof, asked, notes, endv, recv, cin, pi, file, strays>>
OnLine ==
    /\ \/ /\ Consume({"agent_start"})
          /\ turn' = [turn EXCEPT !.started = turn.n # 0] /\ rep' = Begun(turn, rep)
       \/ /\ Consume(Answers)
          /\ turn' = IF turn.n = 0 THEN turn ELSE [turn EXCEPT !.last = Head(cout).kind]
          /\ UNCHANGED rep
       \/ Consume({"retry"}) /\ UNCHANGED <<turn, rep>>
       \/ Consume({"retryCancelled"}) /\ turn' = [turn EXCEPT !.cancelled = turn.n # 0] /\ UNCHANGED rep
       \/ Consume({"settled"}) /\ Settled
    /\ UNCHANGED <<Rest, spc, result, ipc>>
OnResponse ==
    /\ Consume({"response", "started", "refused"}) /\ UNCHANGED <<Rest, turn, rep, result>>
    /\ ipc' = IF Head(cout).kind = "response" /\ ipc = "await" THEN "idle" ELSE ipc
    /\ spc' = IF Head(cout).kind # "response" /\ spc = "await" /\ Head(cout).n = sent THEN Head(cout).kind ELSE spc
Read == OnLine \/ OnResponse

-----------------------------------------------------------------------------
Broken == stdinClosed \/ pi.exited
Current == IF sent = 0 \/ spc # "idle" THEN FALSE ELSE result[sent] # "not_submitted" /\ rep[sent].ended = <<>>
Return(what) == result' = [result EXCEPT ![sent] = what] /\ spc' = "idle"
Forget == turn' = IF turn.n = sent THEN NoTurn ELSE turn
Submit ==
    /\ spc = "idle" /\ ~Current /\ ~exited /\ sent < setting.inputs
    /\ sent' = sent + 1 /\ spc' = "call" /\ turn' = [NoTurn EXCEPT !.n = sent + 1]
    /\ UNCHANGED <<setting, result, intv, rep, endv, recv, cin, cout, pi, file, strays>>
SubmitCalls ==
    /\ spc = "call"
    /\ IF stdinClosed THEN Return("not_submitted") /\ Forget /\ UNCHANGED cin
       ELSE IF pi.exited THEN Return("unknown") /\ UNCHANGED <<turn, cin>>
       ELSE cin' = Append(cin, Line("prompt", sent)) /\ spc' = "await" /\ UNCHANGED <<turn, result>>
    /\ UNCHANGED <<setting, sent, intv, rep, endv, recv, cout, pi, file, strays>>
SubmitReturnsFreed ==
    /\ \/ /\ spc = "started" /\ Return("submitted")
          /\ turn' = [turn EXCEPT !.started = turn.n # 0] /\ rep' = Begun(turn, rep)
       \/ spc \in {"refused", "await"} /\ Return("not_submitted") /\ Forget /\ UNCHANGED rep
    /\ UNCHANGED <<setting, sent, intv, endv, recv, cin, cout, pi, file, strays>>
SubmitReturns ==
    /\ \/ /\ spc = "started" /\ Return("submitted")
          /\ turn' = [turn EXCEPT !.started = turn.n # 0] /\ rep' = Begun(turn, rep)
       \/ spc = "refused" /\ Return("not_submitted") /\ Forget /\ UNCHANGED rep
       \/ spc = "await" /\ (exited \/ setting.slow) /\ Return("unknown") /\ UNCHANGED <<turn, rep>>
    /\ UNCHANGED <<setting, sent, intv, endv, recv, cin, cout, pi, file, strays>>

\* Session.Interrupt checks the input is current; the transport notes the
\* input pi is on, marks its turn, and only then asks pi to abort.
InterruptChecks ==
    /\ setting.interrupts /\ ipc = "idle" /\ Current /\ sent \notin asked
    /\ ipc' = "note" /\ asked' = asked \cup {sent}
    /\ UNCHANGED <<setting, turn, sendv, iof, notes, rep, endv, recv, cin, cout, pi, file, strays>>
InterruptNotes ==
    /\ ipc = "note" /\ iof' = turn.n
    /\ \/ ipc' = "mark" /\ notes' = IF turn.n = 0 THEN notes ELSE notes \cup {turn.n}
       \/ turn.n # 0 /\ ipc' = "idle" /\ UNCHANGED notes          \* the note fails: no abort
    /\ UNCHANGED <<setting, turn, sendv, asked, rep, endv, recv, cin, cout, pi, file, strays>>
InterruptAborts ==
    /\ ipc = "mark"
    /\ turn' = [turn EXCEPT !.interrupted = @ \/ (iof # 0 /\ turn.n = iof)]
    /\ cin' = IF Broken THEN cin ELSE Append(cin, Line("abort", iof))
    /\ ipc' = IF Broken THEN "idle" ELSE "await"
    /\ UNCHANGED <<setting, sendv, iof, asked, notes, rep, endv, recv, cout, pi, file, strays>>

Stop ==
    /\ setting.dies /\ ~stopping /\ stopping' = TRUE /\ stdinClosed' = (stdinClosed \/ turn.n = 0)
    /\ UNCHANGED <<setting, turn, sendv, intv, rep, exited, recv, cin, cout, pi, file, strays>>
\* wait: Exited, after every line pi wrote was read; an open turn gets no end.
Wait ==
    /\ pi.exited /\ cout = <<>> /\ ~exited /\ exited' = TRUE /\ stdinClosed' = TRUE
    /\ ipc' = IF ipc = "await" THEN "idle" ELSE ipc
    /\ UNCHANGED <<setting, turn, sendv, iof, asked, notes, rep, stopping, recv, cin, cout, pi, file, strays>>

-----------------------------------------------------------------------------
\* The record.  Ends of the run in state st at entry e, and the state after
\* (items), of the inputs whose tags known names.
End(st, outcome) == IF st.input # 0 /\ ~st.ended THEN {<<st.input, outcome>>} ELSE {}
Dropped(st, e) == st.failed /\ e.kind = "edit"
Gave(st) == IF st.failed THEN [st EXCEPT !.ended = TRUE, !.failed = FALSE] ELSE st
Final(st, e) ==
    CASE e.kind = "stop" -> "completed"
      [] e.kind = "aborted" -> "interrupted"
      [] e.kind = "length" -> "errored"
      [] e.kind = "abortedError" /\ st.input \in notes -> "interrupted"
      [] e.kind = "fatal" \/ (e.kind \in Failures /\ st.attempts >= setting.retries) -> "errored"
      [] OTHER -> "none"
Ends(s, e) ==
    LET st == Gave(s) IN
    IF Dropped(s, e) THEN {}
    ELSE (IF s.failed THEN End(s, "errored") ELSE {})
         \cup (IF e.kind = "user" /\ st.retrying /\ st.input \in notes THEN End(st, "interrupted") ELSE {})
         \cup (IF e.kind \in Answers /\ Final(st, e) # "none" THEN End(st, Final(st, e)) ELSE {})
After(s, e, known) ==
    LET st == Gave(s) IN
    CASE Dropped(s, e) -> [s EXCEPT !.failed = FALSE, !.retrying = TRUE]
      [] e.kind = "tag" -> [st EXCEPT !.tags = @ \cup {e.n}]
      [] e.kind = "edit" -> st
      [] e.kind = "user" -> [Empty EXCEPT !.input = IF e.n \in st.tags \cap known THEN e.n ELSE 0]
      [] e.kind \in Answers /\ ~st.ended ->
           [st EXCEPT !.tags = {}, !.retrying = FALSE, !.attempts = IF e.kind \in Failures THEN @ + 1 ELSE @,
                      !.ended = Final(st, e) # "none", !.failed = Final(st, e) = "none"]
      [] OTHER -> [st EXCEPT !.tags = {}, !.retrying = FALSE]
\* Read and Commit of the next entries of the file.
ReadRecord ==
    /\ reader.pos < Len(file)
    /\ LET e == file[reader.pos + 1] IN
       /\ recorded' = recorded \cup Ends(reader.st, e)
       /\ reader' = [pos |-> reader.pos + 1, st |-> After(reader.st, e, Inputs)]
    /\ UNCHANGED <<setting, turn, sendv, intv, rep, endv, restarts, cin, cout, pi, file, strays>>
\* rebuild: a reader opened at a checkpoint reads the file up to it for the
\* state the record is in there.
RebuildNothing(pos) == Empty
Rebuild(pos) == FoldLeft(LAMBDA st, e : After(st, e, Inputs), Empty, SubSeq(file, 1, pos))
Restart ==
    /\ setting.restarts /\ restarts < MaxRestarts /\ restarts' = restarts + 1
    /\ reader' = [reader EXCEPT !.st = Rebuild(reader.pos)]
    /\ UNCHANGED <<setting, turn, sendv, intv, rep, endv, recorded, cin, cout, pi, file, strays>>
\* Recover: the run's end as the record has it, this marker's tag the only input.
Recovered(n) ==
    FoldLeft(LAMBDA acc, e : [st |-> After(acc.st, e, {n}), ends |-> acc.ends \cup Ends(acc.st, e)],
             [st |-> Empty, ends |-> {}], file).ends

Next == Read \/ Submit \/ SubmitCalls \/ SubmitReturns \/ InterruptChecks \/ InterruptNotes \/ InterruptAborts \/ Stop \/ Wait
        \/ ReadRecord \/ Restart \/ PiReads \/ PiAnswers \/ PiRetries \/ PiSettles \/ PiExits
Spec == Init /\ [][Next]_vars

-----------------------------------------------------------------------------
TypeOK ==
    /\ setting \in Settings /\ turn.n \in 0..MaxInputs /\ reader.pos \in 0..Len(file)
    /\ notes \subseteq Inputs /\ reader.st.attempts \in 0..(setting.retries + 1)
    /\ \A n \in Inputs : rep[n].started \in 0..1 /\ Len(rep[n].ended) \in 0..1
\* The record and the live report never disagree on how an input ended, and
\* neither does what Recover reads from the record after a crash, but for an
\* input that an abort meant for another stopped; what a reader that read all
\* of the record, across restarts, reported is what Recover reads.
RecordAgrees ==
    \A n \in Inputs \ strays :
        LET ends == {p[2] : p \in {q \in recorded \cup Recovered(n) : q[1] = n}} IN
        /\ Cardinality(ends) <= 1
        /\ rep[n].ended # <<>> => ends \subseteq {rep[n].ended[1]}
        /\ reader.pos = Len(file) => \A p \in Recovered(n) : p \in recorded
\* What Submit says never reached pi is no input's run in the record.
NotSubmittedNeverRan == \A n \in Inputs : result[n] = "not_submitted" => Entry("user", n) \notin Range(file)
=============================================================================
