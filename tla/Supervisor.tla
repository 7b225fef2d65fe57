----------------------------- MODULE Supervisor -----------------------------
(***************************************************************************)
(* A supervised harness process (internal/wrapcore): the harness and its   *)
(* process group, the goroutine that reads its terminal, the polling       *)
(* classifier, the goroutine that reaps it, and the supervisor that waits  *)
(* for whichever of exit, verdict, Stop and failure comes first, ends the  *)
(* process group, reads the output to its end and reports the outcome.     *)
(*                                                                         *)
(* A line of output is a name of module Classify; how long the harness has *)
(* been silent is 0 (fresh), 1 (quiet), 2 (idle) or 3 (stale).             *)
(***************************************************************************)
EXTENDS Reading

CONSTANTS
    Settings,     \* the configurations under study
    Harness,      \* the harness whose patterns classify
    MaxOutput,    \* the most lines a harness writes
    QueueLimit    \* the events OnEvent's queue holds

\* A setting: keepAlive is Config.KeepAliveOnClassification; supervised says
\* that the session is contained and its cgroup ends with it; child that the
\* harness starts a process that ignores SIGTERM and keeps the terminal open;
\* stalls that the OnEvent callback may never return; sinks
\* how an attached writer may behave; asks what the caller may do ("stop",
\* "cancel"); faults what may fail
\* ("read", "panic"); lines what the harness may write, and writes how often.

VARIABLES
    setting,
    leader, code,        \* the harness: running, exited or reaped, and how it exited
    child,               \* a member of its group is alive
    sent,                \* the strongest signal sent to the group
    stop, cancelled,     \* Stop was called, the context ended
    failed,              \* a supervision failure was recorded (finalErr)
    pty, opc,            \* unread output, and the goroutine that reads it
    last, text, since,   \* stores of lastOutput, what was read, the silence
    closed, drained,     \* the master is closed; the output was read to its end
    sink,                \* an attached output sink: none, open, or stuck in its writer
    spc, out, result,    \* the supervisor, what it noted, what Wait returns
    ch, cpc, cls, hand,  \* classifierCh; the classifier, its state, the result it hands over
    snap, queue          \* the Snapshot; OnEvent's queue

group == <<leader, code, child, sent>>
asked == <<stop, cancelled>>
outp  == <<pty, opc, last, text, since, closed, drained, sink>>
sup   == <<spc, out, result>>
clsv  == <<cpc, cls, hand>>
seen  == <<snap, queue>>
vars  == <<setting, group, asked, failed, outp, sup, ch, clsv, seen>>

\* The verdict on every output, quiet or not, idle or not.
Classified ==
    [output \in UNION {[1 .. n -> Lines] : n \in 0 .. MaxOutput}, quiet, idle \in BOOLEAN |->
        ClassifyOutput(Harness, output, quiet, idle)]
After(mark) == SubSeq(text, mark + 1, Len(text))

NoItem == [clear |-> FALSE, mark |-> 0, verdict |-> NoVerdict]
Item(v, mark) == [clear |-> v.status = "", mark |-> mark, verdict |-> v]
NoOutcome == [terminal |-> FALSE, item |-> NoItem, lastErr |-> "None", stopped |-> FALSE, failed |-> FALSE]
NoPass    == [lastSeen |-> -1, stale |-> FALSE, dispatched |-> FALSE, mark |-> 0, through |-> 0,
              quietPassed |-> FALSE, quiet |-> FALSE, idle |-> FALSE]

Init ==
    /\ setting \in Settings
    /\ leader = "running" /\ code = "none" /\ child = setting.child /\ sent = "none"
    /\ stop = FALSE /\ cancelled = FALSE /\ failed = FALSE
    /\ pty = <<>> /\ opc = "read" /\ last = 0 /\ text = <<>> /\ since = 0
    /\ closed = FALSE /\ drained = FALSE /\ sink = "none"
    /\ spc = "select" /\ out = NoOutcome /\ result = [status |-> "none", class |-> "None"]
    /\ ch = <<>> /\ cpc = "idle" /\ cls = NoPass /\ hand = NoItem
    /\ snap = [status |-> "", reason |-> ""] /\ queue = <<>>

-----------------------------------------------------------------------------
\* The harness and its process group.  It exits by itself, or on a SIGTERM,
\* which it may also ignore.
Written == Len(text) + Len(pty)
Write(line) ==
    /\ leader = "running" /\ Written < setting.writes
    /\ pty' = Append(pty, line)
    /\ UNCHANGED <<setting, group, asked, failed, opc, last, text, since, closed, drained, sink, sup, ch, clsv, seen>>
Exit(how) ==
    /\ leader = "running"
    /\ how = "signalled" => sent = "term"
    /\ leader' = "exited" /\ code' = how
    /\ UNCHANGED <<setting, child, sent, asked, failed, outp, sup, ch, clsv, seen>>
ChildExits ==
    /\ child /\ child' = FALSE
    /\ UNCHANGED <<setting, leader, code, sent, asked, failed, outp, sup, ch, clsv, seen>>
Reap ==
    /\ leader = "exited" /\ leader' = "reaped"
    /\ UNCHANGED <<setting, code, child, sent, asked, failed, outp, sup, ch, clsv, seen>>
Silence ==
    /\ since < 3 /\ last > 0 /\ leader = "running" /\ since' = since + 1
    /\ UNCHANGED <<setting, group, asked, failed, pty, opc, last, text, closed, drained, sink, sup, ch, clsv, seen>>

\* groupTerminator.signal: the first SIGTERM is what obliges finish to
\* escalate; SIGKILL ends every member of the group.
SignalTerm == sent' = (IF sent = "none" THEN "term" ELSE sent) /\ UNCHANGED <<leader, code, child>>
SignalKill ==
    /\ sent' = "kill" /\ child' = FALSE
    /\ leader' = IF leader = "running" THEN "exited" ELSE leader
    /\ code' = IF leader = "running" THEN "signalled" ELSE code

\* Stop, and the end of the context, on which os/exec (or waitContained) sends
\* the SIGTERM and, the grace period over, kills the harness alone.
Stop ==
    /\ "stop" \in setting.asks /\ ~stop /\ stop' = TRUE
    /\ UNCHANGED <<setting, group, cancelled, failed, outp, sup, ch, clsv, seen>>
Cancel ==
    /\ "cancel" \in setting.asks /\ ~cancelled /\ cancelled' = TRUE
    /\ IF leader = "reaped" THEN UNCHANGED group ELSE SignalTerm
    /\ UNCHANGED <<setting, stop, failed, outp, sup, ch, clsv, seen>>
CancelKills ==
    /\ cancelled /\ leader = "running"
    /\ leader' = "exited" /\ code' = "signalled"
    /\ UNCHANGED <<setting, child, sent, asked, failed, outp, sup, ch, clsv, seen>>

\* AttachOutput and its detach; a sink's writer may block for good, and the
\* detach, like the supervisor's closeAll, waits for it.
Attach ==
    /\ sink = "none" /\ spc # "done" /\ \E s \in setting.sinks : sink' = s
    /\ UNCHANGED <<setting, group, asked, failed, pty, opc, last, text, since, closed, drained, sup, ch, clsv, seen>>
Detach ==
    /\ sink = "open" /\ sink' = "none"
    /\ UNCHANGED <<setting, group, asked, failed, pty, opc, last, text, since, closed, drained, sup, ch, clsv, seen>>

-----------------------------------------------------------------------------
\* copyPTYOutput: a read stores the time and then the bytes, so a classifier
\* pass may fall between the two.
Held == leader = "running" \/ child
OutRead ==
    /\ opc = "read" /\ pty # <<>>
    /\ opc' = "store" /\ last' = last + 1 /\ since' = 0
    /\ UNCHANGED <<setting, group, asked, failed, pty, text, closed, drained, sink, sup, ch, clsv, seen>>
OutStore ==
    /\ opc = "store" /\ opc' = "read"
    /\ text' = Append(text, Head(pty)) /\ pty' = Tail(pty)
    /\ UNCHANGED <<setting, group, asked, failed, last, since, closed, drained, sink, sup, ch, clsv, seen>>
\* The output ends when nothing holds the terminal.  The supervisor's stop also
\* ends it, between two reads; it wakes a read that waits only in a contained
\* session.
OutEnd ==
    /\ opc = "read" /\ opc' = "done"
    /\ \/ pty = <<>> /\ ~Held
       \/ closed /\ (setting.supervised \/ pty # <<>>)
    /\ UNCHANGED <<setting, group, asked, failed, pty, last, text, since, closed, drained, sink, sup, ch, clsv, seen>>
OutFails ==
    /\ "read" \in setting.faults /\ opc = "read" /\ ~closed
    /\ opc' = "done" /\ failed' = TRUE
    /\ UNCHANGED <<setting, group, asked, pty, last, text, since, closed, drained, sink, sup, ch, clsv, seen>>

-----------------------------------------------------------------------------
\* recordStatusChange sets the Snapshot at once and then pushes the event, when
\* OnEvent's queue has room; a Stop that comes while it waits loses the event.
Room == queue = <<>> \/ Len(queue) < QueueLimit
Recorded(v) == snap = [status |-> v.status, reason |-> v.reason]
SetSnap(v)  == snap' = [status |-> v.status, reason |-> v.reason]
PushOnEvent ==
    \/ Room /\ queue' = Append(queue, "status")
    \/ stop /\ ~Room /\ UNCHANGED queue

\* One tick: what the classifier sees of the silence, and the stale status,
\* which it records itself.
Tick ==
    /\ cpc = "idle" /\ last > 0
    /\ LET changed == last # cls.lastSeen
           stale   == ~changed /\ since >= 3
           v       == Verdict("stale", "None", "stale", FALSE)
       IN  /\ cls' = [cls EXCEPT !.lastSeen = last, !.quiet = ~changed /\ since >= 1,
                                 !.idle = ~changed /\ since >= 2,
                                 !.stale = ~changed /\ (@ \/ stale),
                                 !.quietPassed = ~changed /\ @]
           /\ IF stale /\ ~cls.stale /\ ~Recorded(v)
              THEN SetSnap(v) /\ cpc' = "push"
              ELSE UNCHANGED snap /\ cpc' = "pass"
    /\ UNCHANGED <<setting, group, asked, failed, outp, sup, ch, hand, queue>>
TickPush ==
    /\ cpc = "push" /\ cpc' = "pass" /\ PushOnEvent
    /\ UNCHANGED <<setting, group, asked, failed, outp, sup, ch, cls, hand, snap>>

\* dispatchClassification: a verdict the supervisor is too busy for is dropped,
\* for the next tick to find again; a terminal one is sent once.
PassDefault ==
    /\ cpc = "pass" /\ ~setting.keepAlive /\ cpc' = "idle"
    /\ \E v \in {Classified[text, cls.quiet, cls.idle]} :
           IF cls.dispatched \/ v.status = "" \/ ch # <<>>
           THEN UNCHANGED <<ch, cls>>
           ELSE ch' = <<Item(v, 0)>> /\ cls' = [cls EXCEPT !.dispatched = v.terminal]
    /\ UNCHANGED <<setting, group, asked, failed, outp, sup, hand, seen>>

PassWithoutClear ==
    /\ cpc = "pass" /\ setting.keepAlive
    /\ LET v == Classified[After(cls.mark), cls.quiet, FALSE]
       IN  IF v.status = "" THEN cpc' = "idle" /\ cls' = [cls EXCEPT !.through = Len(text)] /\ UNCHANGED hand
           ELSE /\ cls' = [cls EXCEPT !.mark = Len(text), !.through = Len(text)]
                /\ hand' = Item(v, Len(text)) /\ cpc' = "hand"
    /\ UNCHANGED <<setting, group, asked, failed, outp, sup, ch, seen>>
\* onTickKeepAlive: a pass runs on new output, and once when the output goes
\* quiet, over what was written after the last verdict.  New output without a
\* verdict clears the status.
PassKeepAlive ==
    /\ cpc = "pass" /\ setting.keepAlive
    /\ \E v \in {Classified[After(cls.mark), cls.quiet, FALSE]} :
       LET new == Len(text) # cls.through
           at  == IF v.status = "" THEN cls.mark ELSE Len(text)
       IN  IF new \/ (cls.quiet /\ ~cls.quietPassed)
           THEN /\ cls' = [cls EXCEPT !.through = Len(text), !.quietPassed = @ \/ cls.quiet, !.mark = at]
                /\ IF new \/ v.status # "" THEN cpc' = "hand" /\ hand' = Item(v, at)
                                           ELSE cpc' = "idle" /\ UNCHANGED hand
           ELSE cpc' = "idle" /\ UNCHANGED <<cls, hand>>
    /\ UNCHANGED <<setting, group, asked, failed, outp, sup, ch, seen>>
PassPanics ==
    /\ "panic" \in setting.faults /\ cpc = "pass"
    /\ cpc' = "gone" /\ failed' = TRUE
    /\ UNCHANGED <<setting, group, asked, outp, sup, ch, cls, hand, seen>>

HandTwice ==
    /\ cpc = "hand" /\ cpc' = "idle"
    /\ ch' = Append(ch, hand)
    /\ UNCHANGED <<setting, group, asked, failed, outp, sup, cls, hand, seen>>
\* hand: the result waits for the supervisor, until classifierOn is closed.
ClassifierOff == cancelled \/ spc \in {"join", "drain", "closing", "closeAll", "done"}
Hand ==
    /\ cpc = "hand" /\ cpc' = "idle"
    /\ (ch = <<>> /\ ch' = <<hand>>) \/ (ClassifierOff /\ UNCHANGED ch)
    /\ UNCHANGED <<setting, group, asked, failed, outp, sup, cls, hand, seen>>
ClassifierEnds ==
    /\ cpc = "idle" /\ ClassifierOff /\ cpc' = "gone"
    /\ UNCHANGED <<setting, group, asked, failed, outp, sup, ch, cls, hand, seen>>

-----------------------------------------------------------------------------
\* awaitTermination: whichever is ready, in no order.
SelectExit ==
    /\ spc = "select" /\ leader = "reaped" /\ spc' = "finish"
    /\ UNCHANGED <<setting, group, asked, failed, outp, out, result, ch, clsv, seen>>
SelectVerdict ==
    /\ spc = "select" /\ ch # <<>> /\ ch' = <<>>
    /\ LET i     == Head(ch)
           v     == i.verdict
           final == v.terminal /\ ~setting.keepAlive
       IN  IF i.clear
           THEN SetSnap(NoVerdict) /\ UNCHANGED <<spc, out>>
           ELSE /\ out' = [out EXCEPT !.lastErr = IF v.class = "None" THEN @ ELSE v.class,
                                      !.terminal = final,
                                      !.item = IF final \/ setting.keepAlive THEN i ELSE @]
                /\ SetSnap(v)
                /\ spc' = IF final THEN (IF Recorded(v) THEN "endRun" ELSE "pushFinal")
                                   ELSE (IF Recorded(v) THEN "select" ELSE "push")
    /\ UNCHANGED <<setting, group, asked, failed, outp, result, clsv, queue>>
PushBlindly ==
    /\ spc \in {"push", "pushFinal"} /\ Room /\ queue' = Append(queue, "status")
    /\ spc' = IF spc = "push" THEN "select" ELSE "endRun"
    /\ UNCHANGED <<setting, group, asked, failed, outp, out, result, ch, clsv, snap>>
SelectPush ==
    /\ spc \in {"push", "pushFinal"} /\ PushOnEvent
    /\ spc' = IF spc = "push" THEN "select" ELSE "endRun"
    /\ UNCHANGED <<setting, group, asked, failed, outp, out, result, ch, clsv, snap>>
SelectStop ==
    /\ spc = "select" /\ stop
    /\ out' = [out EXCEPT !.stopped = TRUE] /\ spc' = "endRun"
    /\ UNCHANGED <<setting, group, asked, failed, outp, result, ch, clsv, seen>>
SelectFail ==
    /\ spc = "select" /\ failed
    /\ out' = [out EXCEPT !.failed = TRUE] /\ spc' = "endRun"
    /\ UNCHANGED <<setting, group, asked, failed, outp, result, ch, clsv, seen>>

\* terminateAndWait.
Terminate ==
    /\ spc = "endRun" /\ spc' = "term" /\ SignalTerm
    /\ UNCHANGED <<setting, asked, failed, outp, out, result, ch, clsv, seen>>
Escalate ==
    /\ spc = "term" /\ spc' = "kill" /\ SignalKill
    /\ UNCHANGED <<setting, asked, failed, outp, out, result, ch, clsv, seen>>
Reaped ==
    /\ spc \in {"term", "kill"} /\ leader = "reaped" /\ spc' = "finish"
    /\ UNCHANGED <<setting, group, asked, failed, outp, out, result, ch, clsv, seen>>

\* finish / finishContained: the rest of a group that was told to end, and the
\* whole cgroup of a supervised session.  Then classifierOn is closed.
FinishLeader ==
    /\ spc = "finish" /\ spc' = "join"
    /\ IF setting.supervised THEN SignalKill ELSE UNCHANGED group
    /\ UNCHANGED <<setting, asked, failed, outp, out, result, ch, clsv, seen>>
Finish ==
    /\ spc = "finish" /\ spc' = "join"
    /\ IF sent # "none" \/ setting.supervised THEN SignalKill ELSE UNCHANGED group
    /\ UNCHANGED <<setting, asked, failed, outp, out, result, ch, clsv, seen>>
JoinNot ==
    /\ spc = "join" /\ spc' = "drain"
    /\ UNCHANGED <<setting, group, asked, failed, outp, out, result, ch, clsv, seen>>
\* Nothing is pushed once the classifier is gone.
Join ==
    /\ spc = "join" /\ cpc = "gone" /\ spc' = "drain"
    /\ UNCHANGED <<setting, group, asked, failed, outp, out, result, ch, clsv, seen>>
\* awaitOutputEnd, then the close: the budget runs out only while something
\* still holds the terminal.
DrainEnds ==
    /\ spc = "drain" /\ (opc = "done" \/ Held) /\ spc' = "closing"
    /\ drained' = (opc = "done") /\ closed' = TRUE
    /\ UNCHANGED <<setting, group, asked, failed, pty, opc, last, text, since, sink, out, result, ch, clsv, seen>>

\* classifyExit, then resolveActionable or resolveKeepAlive.
ExitStatus ==
    IF cancelled THEN "interrupted"
    ELSE CASE code = "clean" -> "idle" [] code = "failed" -> "failed" [] OTHER -> "interrupted"
ClassifyOnExit ==
    LET v == Classified[IF setting.keepAlive THEN After(out.item.mark) ELSE text, FALSE, ~setting.keepAlive]
    IN  IF v.status = "waiting_for_input" THEN NoVerdict ELSE v
Resolution(status, class) == [status |-> status, class |-> class]
ResolveNoExitPass(exit) ==
    LET v == IF out.terminal THEN out.item.verdict ELSE NoVerdict
    IN  IF out.stopped THEN Resolution("interrupted", "None")
        ELSE IF v.status # "" THEN Resolution(v.status, v.class)
        ELSE Resolution(ExitStatus, "None")
ResolveActionable(exit) ==
    LET v == IF out.terminal THEN out.item.verdict
             ELSE IF ~out.stopped /\ ExitStatus = "failed" THEN exit ELSE NoVerdict
        status == IF v.status # "" THEN v.status ELSE ExitStatus
    IN  Resolution(IF out.stopped THEN "interrupted" ELSE status,
                   IF v.class # "None" THEN v.class
                   ELSE IF status = "failed" THEN out.lastErr ELSE "None")
ResolveKeepAlive(exit) ==
    IF out.stopped THEN Resolution("interrupted", "None")
    ELSE IF ExitStatus # "failed" THEN Resolution(ExitStatus, "None")
    ELSE IF exit.status # "" THEN Resolution("failed", exit.class)
    ELSE Resolution("failed", IF Len(text) = out.item.mark THEN out.item.verdict.class ELSE "None")
Resolve(exit) ==
    IF out.failed THEN Resolution("unknown", "None")
    ELSE IF setting.keepAlive THEN ResolveKeepAlive(exit) ELSE ResolveActionable(exit)

\* The outcome: the output goroutine has ended, the Result is final, and the
\* last event, which never waits for room, closes the queue.
Report ==
    /\ spc = "closing" /\ opc = "done" /\ spc' = "closeAll"
    /\ \E exit \in {ClassifyOnExit} : \E r \in {Resolve(exit)} :
           result' = r /\ snap' = [status |-> r.status, reason |-> "exit"]
    /\ queue' = Append(queue, "final")
    /\ UNCHANGED <<setting, group, asked, failed, outp, out, ch, clsv>>
CloseAll ==
    /\ spc = "closeAll" /\ sink # "stuck" /\ spc' = "done" /\ sink' = "none"
    /\ UNCHANGED <<setting, group, asked, failed, pty, opc, last, text, since, closed, drained, out, result, ch, clsv, seen>>

\* OnEvent takes an event (module DeliveryQueue has the queue's own steps).
Deliver ==
    /\ queue # <<>> /\ queue' = Tail(queue)
    /\ UNCHANGED <<setting, group, asked, failed, outp, sup, ch, clsv, snap>>

-----------------------------------------------------------------------------
Environment ==
    \/ \E l \in setting.lines : Write(l)
    \/ \E how \in {"clean", "failed", "signalled"} : Exit(how)
    \/ ChildExits \/ Silence \/ Stop \/ Cancel \/ Attach \/ Detach
    \/ OutFails \/ PassPanics \/ Deliver
Output     == OutRead \/ OutStore \/ OutEnd
Classifier == Tick \/ TickPush \/ PassDefault \/ PassKeepAlive \/ Hand \/ ClassifierEnds
Supervise  == \/ SelectExit \/ SelectVerdict \/ SelectPush \/ SelectStop \/ SelectFail
              \/ Terminate \/ Escalate \/ Reaped \/ Finish \/ Join \/ DrainEnds \/ Report \/ CloseAll
Next == Environment \/ Reap \/ CancelKills \/ Output \/ Classifier \/ Supervise

Spec == Init /\ [][Next]_vars
\* Goroutines are scheduled, the grace period ends, a cancelled harness is
\* killed.  A process left behind, and a callback, owe nothing; a callback that
\* does not stall takes its events.
EventTaken == ~setting.stalls /\ Deliver

-----------------------------------------------------------------------------
TypeOK ==
    /\ leader \in {"running", "exited", "reaped"} /\ child \in BOOLEAN
    /\ sent \in {"none", "term", "kill"} /\ since \in 0..3
    /\ opc \in {"read", "store", "done"} /\ sink \in {"none", "open", "stuck"}
    /\ cpc \in {"idle", "push", "pass", "hand", "gone"}
    /\ spc \in {"select", "push", "pushFinal", "endRun", "term", "kill", "finish",
                "join", "drain", "closing", "closeAll", "done"}
    /\ Len(ch) <= 1 /\ text \in Seq(Lines) /\ pty \in Seq(Lines)

Self == sent = "none" /\ ~cancelled
\* A harness that fails by itself, and whose last line is an API error, is
\* reported with the error's class however fast it failed: the output was read
\* to its end before the exit pass (supervise, classifyOnExit).
FastFailureExplained ==
    (spc = "done" /\ Self /\ code = "failed" /\ ~failed /\ drained
        /\ text # <<>> /\ Last(text) \in {"api500", "api401"})
    => result.class # "None"

\* Wait returns only once the process group is gone, when the run was told to
\* end, and always under cgroup supervision (groupTerminator.finish).
GroupGone ==
    (spc = "done" /\ (sent # "none" \/ setting.supervised)) => ~child

\* In keep-alive mode, once the classifier and the supervisor have caught up
\* with the output, a status is a verdict on output nothing was written after.
CaughtUp == cpc = "idle" /\ ch = <<>> /\ spc = "select" /\ opc = "read" /\ cls.through = Len(text)
StatusIsCurrent ==
    (setting.keepAlive /\ ~cancelled /\ CaughtUp /\ snap.status \notin {"", "stale"})
    => out.item.mark = Len(text)

\* Once the outcome is reported nothing replaces it: the classifier, which
\* records a stale harness by itself, was joined first (supervise).
OutcomeIsFinal == result.status # "none" => UNCHANGED <<snap, result>>

\* A harness that exited by itself and left a process that holds the terminal
\* keeps an uncontained Wait (documented at Wait).
Waits == (child /\ ~setting.supervised) \/ sink = "stuck"
\* A Stop ends the session, even when OnEvent never returns.
Stopped == stop
Over == spc = "done" \/ Waits
\* When the harness has exited the session ends, if OnEvent returns.
Exited == leader # "running" /\ ~setting.stalls
=============================================================================
