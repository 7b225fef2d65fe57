------------------------------ MODULE Contract ------------------------------
(***************************************************************************)
(* What an adapter promises its Host, as the reference implementation keeps it:*)
(* the fake adapter's Session, the cursor that delivers its record, and the*)
(* answers to a Session's questions.  They are three machines, each with its*)
(* variables.                                                              *)
(***************************************************************************)
EXTENDS Integers, FiniteSets, Sequences, Naturals

-----------------------------------------------------------------------------
(* The fake adapter's Session: the handle a Host calls (Open, Send,        *)
(* Interrupt, Answer, Close) and the goroutines of the harness it drives   *)
(* (one per input's turn, one per turn of the harness's own, background    *)
(* work, the crash watcher), between two acquisitions of the Session's     *)
(* lock.  The record and the markers are what its store holds; what was    *)
(* pushed to the cursor is kept as the facts a Host can have been told.    *)

CONSTANTS Inputs, Kinds(_), \* input ids; what an input may ask of the fake harness
          Callers,         \* concurrent Interrupt calls
          MaxGoal,         \* turns a goal takes
          MaxOwn           \* turns of the harness's own in all

NoInput == 0
NoTurn == [pc |-> "none", kind |-> "none", int |-> FALSE, out |-> "none", answer |-> FALSE, oc |-> "none"]
NoAuto == [kind |-> "none", pc |-> "none", int |-> FALSE, preempted |-> FALSE]
VARIABLES
    phase, opening, closing, held,
    turn, run,             \* s.turn; the goroutine of each input's turn
    auto, own, autoEnd,    \* s.auto; how many there were; how the last one ended
    rest, goal,            \* s.rest; the turns the goal still takes (0: none active)
    work,                  \* calls of work() about to take the lock
    background, taken,     \* work running in the background; ended, awaiting its turn
    block, endBlock, prompt,
    answered, ended,       \* prompts answered; what an interrupt of an ended input finds
    sender,                \* the outstanding Send
    refused,               \* inputs whose Send failed not_submitted
    caller,                \* each Interrupt call
    closer,                \* Close: "none", "begun", "done"
    marked, recorded,      \* the store: markers, user_input lines,
    recordEnd, liveEnd     \* each input's turn_ended, in the record and live
open == <<phase, opening, closing, held, closer>>
own_ == <<auto, own, autoEnd, rest, goal, background, taken>>
gate == <<block, endBlock, prompt, answered>>
store == <<marked, recorded, recordEnd, liveEnd>>
sessionVars == <<open, turn, run, own_, work, gate, ended, sender, refused, caller, store>>

SessionInit ==
    /\ phase = "unopened" /\ opening = FALSE /\ closing = FALSE /\ held = FALSE /\ closer = "none"
    /\ turn = NoInput /\ run = [i \in Inputs |-> NoTurn]
    /\ auto = NoAuto /\ own = 0 /\ autoEnd = "none" /\ rest = FALSE /\ goal = 0 /\ work = 0
    /\ background = 0 /\ taken = 0
    /\ block = FALSE /\ endBlock = FALSE /\ prompt = NoInput /\ answered = {}
    /\ ended = [i \in Inputs |-> "none"]
    /\ sender = [pc |-> "none", input |-> NoInput, own |-> 0] /\ refused = {}
    /\ caller = [c \in Callers |-> [pc |-> "none", input |-> NoInput, res |-> "none"]]
    /\ marked = {} /\ recorded = {}
    /\ recordEnd = [i \in Inputs |-> "none"] /\ liveEnd = [i \in Inputs |-> "none"]

\* exit: the Session is exited, what ran in it is stopped, and that is reported, once.
Exit ==
    IF phase = "exited" THEN UNCHANGED <<phase, held, turn, run, auto, background, taken>>
    ELSE /\ phase' = "exited" /\ held' = FALSE /\ turn' = NoInput /\ auto' = NoAuto
         /\ background' = 0 /\ taken' = 0
         /\ run' = IF turn = NoInput THEN run
                   ELSE [run EXCEPT ![turn].int = TRUE, ![turn].out = IF @ = "none" THEN "exited" ELSE @]

-----------------------------------------------------------------------------
OpenBegins ==
    /\ phase = "unopened" /\ ~opening /\ ~closing
    /\ opening' = TRUE /\ phase' = "starting"
    /\ UNCHANGED <<closing, held, closer, turn, run, own_, work, gate, ended, sender, refused, caller, store>>
\* Nothing in the way so far: the Session's directory is taken.
Hold ==
    /\ opening /\ ~held /\ ~closing /\ held' = TRUE
    /\ UNCHANGED <<phase, opening, closing, closer, turn, run, own_, work, gate, ended, sender, refused, caller, store>>
\* Its binary, version, credential, record or directory is not there, or its caller gave up.
OpenFails ==
    /\ opening /\ ~held /\ opening' = FALSE /\ phase' = "exited"
    /\ UNCHANGED <<closing, held, closer, turn, run, own_, work, gate, ended, sender, refused, caller, store>>
\* Mutant: the Session comes up without looking again.
OpenEndsBlind ==
    /\ opening /\ held /\ opening' = FALSE
    /\ phase' = "idle" /\ work' = work + 1
    /\ UNCHANGED <<closing, held, closer, turn, run, own_, gate, ended, sender, refused, caller, store>>
\* A Close that landed since is answered by giving the directory up again.
OpenEnds ==
    /\ opening /\ held /\ opening' = FALSE
    /\ IF closing \/ phase = "exited"
       THEN phase' = "exited" /\ held' = FALSE /\ UNCHANGED work
       ELSE phase' = "idle" /\ work' = work + 1 /\ UNCHANGED held
    /\ UNCHANGED <<closing, closer, turn, run, own_, gate, ended, sender, refused, caller, store>>

\* Kill, or a CRASH input's own: watchKill, once the Session is open, turns it into the exit.
Crash ==
    /\ ~opening /\ phase \notin {"unopened", "exited"} /\ Exit
    /\ UNCHANGED <<opening, closing, closer, own, autoEnd, rest, goal, work, gate, ended, sender, refused, caller, store>>

CloseBegins ==
    /\ closer = "none" /\ ~closing /\ closing' = TRUE
    /\ closer' = IF phase = "unopened" THEN "done" ELSE "begun"
    /\ IF phase = "unopened"
       THEN phase' = "exited"
            /\ UNCHANGED <<held, turn, run, auto, background, taken>>
       ELSE UNCHANGED <<phase, held, turn, run, auto, background, taken>>
    /\ UNCHANGED <<opening, own, autoEnd, rest, goal, work, gate, ended, sender, refused, caller, store>>
\* exit, and the wait for the cursor to drain.  An exit before the directory is taken lets none go.
CloseEnds ==
    /\ closer = "begun" /\ closer' = "done"
    /\ IF opening
       THEN /\ phase' = "exited"
            /\ UNCHANGED <<held, turn, run, auto, background, taken>>
       ELSE Exit
    /\ UNCHANGED <<opening, closing, own, autoEnd, rest, goal, work, gate, ended, sender, refused, caller, store>>

-----------------------------------------------------------------------------
\* Send.  Every return ends with work(): a refused input leaves the harness to its own.
SendReturns == sender' = [pc |-> "none", input |-> NoInput, own |-> 0] /\ work' = work + 1
SendSame == UNCHANGED <<opening, closing, held, closer, own, autoEnd, rest, goal, background, taken, caller, liveEnd, recordEnd>>
SendBegins(i) ==
    /\ sender.pc = "none" /\ i \notin recorded \cup refused /\ run[i].pc = "none"
    /\ phase \notin {"unopened", "starting"}
    /\ sender' = [pc |-> "begun", input |-> i, own |-> 0]
    /\ UNCHANGED <<phase, turn, run, auto, work, gate, ended, refused, marked, recorded>> /\ SendSame
\* A turn of the harness's own for its goal is stopped, and waited for.
OnItsGoal == auto.kind = "goal" /\ turn = NoInput /\ phase = "busy" /\ ~closing
SendPreempts ==
    /\ sender.pc = "begun" /\ OnItsGoal
    /\ auto' = [auto EXCEPT !.int = TRUE, !.preempted = TRUE]
    /\ sender' = [sender EXCEPT !.pc = "preempting", !.own = own]
    /\ UNCHANGED <<phase, turn, run, work, gate, ended, refused, marked, recorded>> /\ SendSame
OwnTurnEnded == auto.kind = "none" \/ own # sender.own
SendGoesOn ==
    /\ sender.pc = "preempting" /\ OwnTurnEnded /\ sender' = [sender EXCEPT !.pc = "begun"]
    /\ UNCHANGED <<phase, turn, run, auto, work, gate, ended, refused, marked, recorded>> /\ SendSame
SendGivesUp ==
    /\ sender.pc = "preempting" /\ refused' = refused \cup {sender.input} /\ SendReturns
    /\ UNCHANGED <<phase, turn, run, auto, gate, ended, marked, recorded>> /\ SendSame
SendRefuses ==
    /\ sender.pc = "begun" /\ ~OnItsGoal
    /\ refused' = refused \cup {sender.input} /\ SendReturns
    /\ UNCHANGED <<phase, turn, run, auto, gate, ended, marked, recorded>> /\ SendSame
\* An idle Session takes the input; a blocked one does once its resume time has passed.
SendAccepts ==
    /\ sender.pc = "begun" /\ ~closing /\ phase \in {"idle", "blocked"}
    /\ block' = FALSE /\ phase' = "idle" /\ sender' = [sender EXCEPT !.pc = "mark"]
    /\ UNCHANGED <<turn, run, auto, work, endBlock, prompt, answered, ended, refused, marked, recorded>> /\ SendSame
SendMarks ==
    /\ sender.pc = "mark" /\ marked' = marked \cup {sender.input} /\ sender' = [sender EXCEPT !.pc = "hand"]
    /\ UNCHANGED <<phase, turn, run, auto, work, gate, ended, refused, recorded>> /\ SendSame
\* Mutant: the input is handed over before its marker is written.
SendMarksAfter ==
    /\ sender.pc = "mark" /\ recorded' = recorded \cup {sender.input} /\ refused' = refused \cup {sender.input}
    /\ SendReturns
    /\ UNCHANGED <<phase, turn, run, auto, gate, ended, marked>> /\ SendSame
SendMarksNot ==
    /\ sender.pc = "mark" /\ refused' = refused \cup {sender.input} /\ SendReturns
    /\ UNCHANGED <<phase, turn, run, auto, gate, ended, marked, recorded>> /\ SendSame
SendRecords ==
    /\ sender.pc = "hand" /\ recorded' = recorded \cup {sender.input} /\ sender' = [sender EXCEPT !.pc = "start"]
    /\ UNCHANGED <<phase, turn, run, auto, work, gate, ended, refused, marked>> /\ SendSame
SendStarts(k) ==
    /\ sender.pc = "start" /\ SendReturns
    /\ IF phase = "exited" THEN UNCHANGED <<phase, turn, run>>
       ELSE /\ turn' = sender.input /\ phase' = "busy"
            /\ run' = [run EXCEPT ![sender.input] = [NoTurn EXCEPT !.pc = "queued", !.kind = k]]
    /\ UNCHANGED <<auto, gate, ended, refused, marked, recorded>> /\ SendSame

-----------------------------------------------------------------------------
\* run: the harness answering input i.
RunSame == UNCHANGED <<opening, closing, held, closer, own, autoEnd, taken, sender, refused, caller, marked, recorded>>
Finish(i, oc) == run' = [run EXCEPT ![i].pc = "finish", ![i].oc = oc]
Queued(i) ==
    /\ run[i].pc = "queued"
    /\ \/ run[i].int /\ Finish(i, "cancelled")
       \/ run' = [run EXCEPT ![i].pc = "working"]
    /\ UNCHANGED <<phase, turn, auto, rest, goal, background, work, gate, ended, recordEnd, liveEnd>> /\ RunSame
Replies(i) ==
    /\ run[i].pc = "working" /\ run[i].kind = "reply"
    /\ \/ Finish(i, "completed")
       \/ run[i].int /\ Finish(i, "interrupted")
    /\ UNCHANGED <<phase, turn, auto, rest, goal, background, work, gate, ended, recordEnd, liveEnd>> /\ RunSame
\* The prompt is raised whatever became of the Session since.
Asks(i) ==
    /\ run[i].pc = "working" /\ run[i].kind = "ask"
    /\ prompt' = i /\ phase' = "awaiting_answer" /\ run' = [run EXCEPT ![i].pc = "asking"]
    /\ UNCHANGED <<turn, auto, rest, goal, background, work, block, endBlock, answered, ended, recordEnd, liveEnd>> /\ RunSame
PromptResolves(i) ==
    /\ run[i].pc = "asking" /\ prompt' = NoInput
    /\ \/ /\ run[i].answer /\ Finish(i, "completed")
          /\ phase' = IF phase = "awaiting_answer" THEN "busy" ELSE phase
       \/ run[i].int /\ Finish(i, "interrupted") /\ UNCHANGED phase
    /\ UNCHANGED <<turn, auto, rest, goal, background, work, block, endBlock, answered, ended, recordEnd, liveEnd>> /\ RunSame
Fails(i) ==
    /\ run[i].pc = "working" /\ run[i].kind = "limit" /\ endBlock' = TRUE /\ Finish(i, "errored")
    /\ UNCHANGED <<phase, turn, auto, rest, goal, background, work, block, prompt, answered, ended, recordEnd, liveEnd>> /\ RunSame
MakesGoal(i) ==
    /\ run[i].pc = "working" /\ run[i].kind = "goal" /\ goal' = MaxGoal /\ Finish(i, "completed")
    /\ UNCHANGED <<phase, turn, auto, rest, background, work, gate, ended, recordEnd, liveEnd>> /\ RunSame
StartBackground(i) ==
    /\ run[i].pc = "working" /\ run[i].kind = "background" /\ background' = background + 1
    /\ Finish(i, "completed")
    /\ UNCHANGED <<phase, turn, auto, rest, goal, work, gate, ended, recordEnd, liveEnd>> /\ RunSame
\* end: the turn's end live, then in the record, then in the Session.
EndReports(i) ==
    /\ run[i].pc = "finish"
    /\ IF turn # i \/ phase = "exited"
       THEN endBlock' = FALSE /\ run' = [run EXCEPT ![i].pc = "done"] /\ UNCHANGED liveEnd
       ELSE liveEnd' = [liveEnd EXCEPT ![i] = run[i].oc] /\ run' = [run EXCEPT ![i].pc = "record"] /\ UNCHANGED endBlock
    /\ UNCHANGED <<phase, turn, auto, rest, goal, background, work, block, prompt, answered, ended, recordEnd>> /\ RunSame
EndRecords(i) ==
    /\ run[i].pc = "record" /\ run' = [run EXCEPT ![i].pc = "settle"]
    /\ recordEnd' = [recordEnd EXCEPT ![i] = run[i].oc]
    /\ UNCHANGED <<phase, turn, auto, rest, goal, background, work, gate, ended, liveEnd>> /\ RunSame
IntOutcome(oc) ==
    IF oc = "cancelled" THEN "cancelled" ELSE IF oc = "interrupted" THEN "stopped" ELSE "too_late"
\* Mutant: every end an interrupt meets counts as stopped.
EndSettlesStopped(i) ==
    /\ run[i].pc = "settle"
    /\ turn' = IF turn = i THEN NoInput ELSE turn
    /\ phase' = (IF turn = i /\ phase # "exited" THEN "idle" ELSE phase) /\ endBlock' = FALSE
    /\ ended' = [ended EXCEPT ![i] = "stopped"]
    /\ rest' = (run[i].oc # "completed") /\ work' = work + 1
    /\ run' = [run EXCEPT ![i].pc = "done", ![i].out = IF @ = "none" THEN "stopped" ELSE @]
    /\ UNCHANGED <<auto, goal, background, block, prompt, answered, recordEnd, liveEnd>> /\ RunSame
EndSettles(i) ==
    /\ run[i].pc = "settle"
    /\ turn' = IF turn = i THEN NoInput ELSE turn
    /\ IF turn = i /\ phase # "exited"
       THEN phase' = (IF endBlock THEN "blocked" ELSE "idle") /\ block' = endBlock
       ELSE UNCHANGED <<phase, block>>
    /\ endBlock' = FALSE
    /\ ended' = [ended EXCEPT ![i] = IntOutcome(run[i].oc)]
    /\ rest' = (run[i].oc # "completed") /\ work' = work + 1
    /\ run' = [run EXCEPT ![i].pc = "done", ![i].out = IF @ = "none" THEN IntOutcome(run[i].oc) ELSE @]
    /\ UNCHANGED <<auto, goal, background, prompt, answered, recordEnd, liveEnd>> /\ RunSame

-----------------------------------------------------------------------------
\* The harness's own turns: for its goal, and for background work that ended.
OwnSame == UNCHANGED <<opening, closing, held, closer, turn, run, gate, ended, sender, refused, caller, store>>
Quiet == phase = "idle" /\ turn = NoInput /\ auto = NoAuto /\ ~closing /\ sender.pc = "none"
StartsOwn(k) == auto' = [NoAuto EXCEPT !.kind = k, !.pc = "running"] /\ own' = own + 1 /\ phase' = "busy"
Work ==
    /\ work > 0 /\ work' = work - 1
    /\ IF Quiet /\ taken > 0
       THEN StartsOwn("background") /\ taken' = taken - 1 /\ UNCHANGED goal
       ELSE IF Quiet /\ ~rest /\ goal > 0
       THEN StartsOwn("goal") /\ goal' = goal - 1 /\ UNCHANGED taken
       ELSE UNCHANGED <<auto, own, phase, taken, goal>>
    /\ own < MaxOwn
    /\ UNCHANGED <<autoEnd, rest, background>> /\ OwnSame
\* The last turn of a goal has no step an interrupt could stop.
RunAuto ==
    /\ auto.pc = "running"
    /\ \/ auto.int /\ (auto.kind = "background" \/ goal > 0) /\ autoEnd' = "interrupted"
       \/ autoEnd' = "completed"
    /\ auto' = [auto EXCEPT !.pc = "ending"]
    /\ UNCHANGED <<phase, own, rest, goal, work, background, taken>> /\ OwnSame
EndAuto ==
    /\ auto.pc = "ending" /\ auto' = NoAuto /\ phase' = IF phase = "busy" THEN "idle" ELSE phase
    /\ rest' = (rest \/ (autoEnd = "interrupted" /\ ~auto.preempted /\ auto.kind = "goal"))
    /\ work' = IF autoEnd = "completed" \/ auto.kind = "background" THEN work + 1 ELSE work
    /\ UNCHANGED <<own, autoEnd, goal, background, taken>> /\ OwnSame
RunBackground ==
    /\ background > 0 /\ background' = background - 1 /\ taken' = taken + 1 /\ work' = work + 1
    /\ UNCHANGED <<phase, auto, own, autoEnd, rest, goal>> /\ OwnSame

-----------------------------------------------------------------------------
\* Interrupt and Answer land after an outstanding Send's result.
CallSame == UNCHANGED <<open, turn, own, autoEnd, rest, goal, background, taken, work, block, endBlock, prompt, ended, sender, refused, store>>
AfterSend(c, i) ==
    /\ caller[c].pc = "none" /\ sender.pc = "none" /\ i \in recorded
    /\ caller' = [caller EXCEPT ![c] = [pc |-> "look", input |-> i, res |-> "none"]]
    /\ UNCHANGED <<run, auto, answered>> /\ CallSame
Returned(c, res) == caller' = [caller EXCEPT ![c].pc = "done", ![c].res = res]
Interrupt(c) ==
    /\ caller[c].pc = "look" /\ UNCHANGED <<auto, answered>> /\ CallSame
    /\ LET i == caller[c].input IN
       \/ ended[i] # "none" /\ Returned(c, ended[i]) /\ UNCHANGED run
       \/ /\ ended[i] = "none" /\ turn # i /\ UNCHANGED run
          /\ Returned(c, IF turn = NoInput /\ auto = NoAuto THEN "no_turn" ELSE "too_late")
       \/ /\ ended[i] = "none" /\ turn = i /\ run' = [run EXCEPT ![i].int = TRUE]
          /\ caller' = [caller EXCEPT ![c].pc = "wait"]
\* The outcome goes back for an interrupt racing this one; the harness's exit does not.
InterruptLearns(c) ==
    /\ caller[c].pc = "wait" /\ UNCHANGED <<auto, answered>> /\ CallSame
    /\ LET i == caller[c].input IN
       /\ run[i].out # "none" /\ Returned(c, run[i].out)
       /\ run' = [run EXCEPT ![i].out = IF @ = "exited" THEN "none" ELSE @]
InterruptExpires(c) ==
    /\ caller[c].pc = "wait" /\ Returned(c, "unconfirmed")
    /\ UNCHANGED <<run, auto, answered>> /\ CallSame
\* interruptAuto: a turn of the harness's own, named by its id.
InterruptAuto ==
    /\ auto.kind # "none" /\ sender.pc = "none" /\ auto' = [auto EXCEPT !.int = TRUE]
    /\ UNCHANGED <<run, answered, caller>> /\ CallSame
Answer ==
    /\ sender.pc = "none" /\ prompt # NoInput /\ prompt \notin answered /\ turn # NoInput
    /\ answered' = answered \cup {prompt} /\ run' = [run EXCEPT ![turn].answer = TRUE]
    /\ UNCHANGED <<auto, caller>> /\ CallSame

SessionNext ==
    \/ OpenBegins \/ Hold \/ OpenFails \/ OpenEnds \/ Crash \/ CloseBegins \/ CloseEnds
    \/ \E i \in Inputs : SendBegins(i)
    \/ SendPreempts \/ SendGoesOn \/ SendGivesUp \/ SendRefuses \/ SendAccepts \/ SendMarks
    \/ SendMarksNot \/ SendRecords \/ \E k \in Kinds(sender.input) : SendStarts(k)
    \/ \E i \in Inputs : \/ Queued(i) \/ Replies(i) \/ Asks(i) \/ PromptResolves(i) \/ Fails(i)
                          \/ MakesGoal(i) \/ StartBackground(i)
                          \/ EndReports(i) \/ EndRecords(i) \/ EndSettles(i)
    \/ Work \/ RunAuto \/ EndAuto \/ RunBackground
    \/ \E c \in Callers : \/ Interrupt(c) \/ InterruptLearns(c) \/ InterruptExpires(c)
                           \/ \E i \in Inputs : AfterSend(c, i)
    \/ InterruptAuto \/ Answer
SessionSpec == SessionInit /\ [][SessionNext]_sessionVars

-----------------------------------------------------------------------------
SessionTypeOK ==
    /\ phase \in {"unopened", "starting", "idle", "busy", "awaiting_answer", "blocked", "exited"}
    /\ turn \in Inputs \cup {NoInput} /\ prompt \in Inputs \cup {NoInput}
    /\ auto.kind \in {"none", "goal", "background"} /\ goal \in 0..MaxGoal /\ own \in 0..MaxOwn
    /\ marked \subseteq Inputs /\ recorded \subseteq marked /\ work \in Nat

Established == {"cancelled", "stopped"}
\* What the Session tells its Host is so.  An interrupt that established "cancelled" or "stopped"
\* names a turn that ended that way, and two interrupts of one turn never establish different
\* outcomes; an input refused not_submitted is not in the record; an input has one turn end, the
\* same live and in the record; and the harness is on one turn at a time.
FakeTellsTruth ==
    /\ \A c \in Callers : caller[c].res \in Established =>
          liveEnd[caller[c].input] = (IF caller[c].res = "stopped" THEN "interrupted" ELSE "cancelled")
    /\ \A c, d \in Callers :
          (caller[c].input = caller[d].input /\ {caller[c].res, caller[d].res} \subseteq Established)
             => caller[c].res = caller[d].res
    /\ refused \cap recorded = {}
    /\ \A i \in Inputs : recordEnd[i] # "none" => recordEnd[i] = liveEnd[i]
    /\ turn # NoInput => auto = NoAuto

\* A Session that is over holds its directory no longer, whenever its Close landed.
DirectoryIsLetGo == closer = "done" /\ ~opening => ~held

-----------------------------------------------------------------------------
(* The fake adapter's cursor: what a Session or a record handle delivers   *)
(* in batches and a Host acknowledges, over a record that grows and may be *)
(* rewritten between two handles, each opened from the checkpoint its Host *)
(* last kept.  An item is the record line it carries,                      *)
(* or 0 for a live observation, which no record holds.                     *)

CONSTANTS MaxLines, MaxLive, MaxOpens, MaxRewrites

VARIABLES
    record, epoch,      \* the record's complete lines (each the epoch it was written in); rewrites
    lives, opens, cursorOpen,  \* live observations, handles opened, whether one is
    pending, committed, read,   \* the cursor
    out, took,          \* the outstanding batch; whether the Host has applied it
    last,               \* lastAcked
    notice,             \* reset or rescan to ride on the next batch
    seq,
    kept,               \* the Host's checkpoint, kept when it applies a batch
    applied             \* what the Host holds of the record
cursorVars == <<record, epoch, lives, opens, cursorOpen, pending, committed, read, out, took, last, notice, seq, kept, applied>>

None == [id |-> 0, items |-> <<>>, end |-> 0, notice |-> "none", checkpoint |-> <<>>, set |-> FALSE]
\* A checkpoint is how far, and what, was committed; NoCheckpoint before the first.
NoCheckpoint == [format |-> "none", prefix |-> <<>>]
CursorInit ==
    /\ record = <<>> /\ epoch = 0 /\ lives = 0 /\ opens = 0 /\ cursorOpen = FALSE
    /\ pending = <<>> /\ committed = 0 /\ read = 0 /\ out = None /\ took = FALSE /\ last = 0 /\ notice = "none" /\ seq = 0
    /\ kept = NoCheckpoint /\ applied = <<>>

Items(from, to) == [n \in 1..(to - from) |-> from + n]
\* load: from the checkpoint, if it is one this adapter reads and the record continues it.
Load ==
    /\ ~cursorOpen /\ opens < MaxOpens /\ opens' = opens + 1 /\ cursorOpen' = TRUE
    /\ LET goes == Len(kept.prefix) <= Len(record) /\ kept.prefix = SubSeq(record, 1, Len(kept.prefix))
           start == IF kept.format = "1" /\ goes THEN Len(kept.prefix) ELSE 0
       IN /\ committed' = start /\ read' = Len(record) /\ pending' = Items(start, Len(record))
          /\ notice' = IF kept.format = "none" THEN "none"
                       ELSE IF kept.format # "1" THEN "rescan" ELSE IF goes THEN "none" ELSE "reset"
    /\ out' = None /\ took' = FALSE /\ last' = 0 /\ seq' = 0
    /\ UNCHANGED <<record, epoch, lives, kept, applied>>
\* record and live: a line appended, or an observation of the moment, queued for delivery.
PushRecord ==
    /\ cursorOpen /\ Len(record) < MaxLines
    /\ record' = Append(record, epoch) /\ pending' = Append(pending, Len(record) + 1)
    /\ read' = Len(record) + 1
    /\ UNCHANGED <<epoch, lives, opens, cursorOpen, committed, out, took, last, notice, seq, kept, applied>>
PushLive ==
    /\ cursorOpen /\ lives < MaxLive /\ lives' = lives + 1 /\ pending' = Append(pending, 0)
    /\ UNCHANGED <<record, epoch, opens, cursorOpen, committed, read, out, took, last, notice, seq, kept, applied>>
\* buildLocked: as many pending items as fit, and the checkpoint after them.
EndOf(items) ==
    LET ends == {items[n] : n \in DOMAIN items} \cup {committed}
    IN CHOOSE e \in ends : \A d \in ends : d <= e
\* Mutant: the checkpoint covers what was read, not what the batch delivers.
BuildAhead(n) ==
    /\ cursorOpen /\ out = None /\ (pending # <<>> \/ notice # "none")
    /\ n \in 0..Len(pending) /\ (n = 0 => pending = <<>>)
    /\ out' = [id |-> seq + 1, items |-> SubSeq(pending, 1, n), end |-> EndOf(SubSeq(pending, 1, n)),
               notice |-> notice, set |-> TRUE, checkpoint |-> SubSeq(record, 1, read)]
    /\ seq' = seq + 1 /\ took' = FALSE /\ notice' = "none"
    /\ UNCHANGED <<record, epoch, lives, opens, cursorOpen, pending, committed, read, last, kept, applied>>
Build(n) ==
    /\ cursorOpen /\ out = None /\ (pending # <<>> \/ notice # "none")
    /\ n \in 0..Len(pending) /\ (n = 0 => pending = <<>>)
    /\ LET items == SubSeq(pending, 1, n)
           end == EndOf(items)
       IN out' = [id |-> seq + 1, items |-> items, end |-> end, notice |-> notice,
                  set |-> end > committed \/ notice # "none", checkpoint |-> SubSeq(record, 1, end)]
    /\ seq' = seq + 1 /\ took' = FALSE /\ notice' = "none"
    /\ UNCHANGED <<record, epoch, lives, opens, cursorOpen, pending, committed, read, last, kept, applied>>

\* The Host applies the outstanding batch, as often as it is handed to it, and keeps its checkpoint.
Lines(items) == SelectSeq(items, LAMBDA e : e # 0)
HostApplies ==
    /\ out # None /\ took' = TRUE
    /\ LET base == IF out.notice = "none" THEN applied ELSE <<>>
           new == SelectSeq(Lines(out.items), LAMBDA e : e > Len(base))
       IN applied' = base \o [n \in DOMAIN new |-> out.checkpoint[new[n]]]
    /\ kept' = IF out.set THEN [format |-> "1", prefix |-> out.checkpoint] ELSE kept
    /\ UNCHANGED <<record, epoch, lives, opens, cursorOpen, pending, committed, read, out, last, notice, seq>>
\* ack of the outstanding batch (again of the last one: nothing changes), once the Host holds it.
Ack ==
    /\ cursorOpen /\ out # None /\ took
    /\ pending' = SubSeq(pending, Len(out.items) + 1, Len(pending))
    /\ committed' = out.end /\ last' = out.id /\ out' = None
    /\ UNCHANGED <<record, epoch, lives, opens, cursorOpen, read, took, notice, seq, kept, applied>>
\* The handle goes, with or without an acknowledgement; the record is rewritten by others.
HandleGoes ==
    /\ cursorOpen /\ cursorOpen' = FALSE
    /\ UNCHANGED <<record, epoch, lives, opens, pending, committed, read, out, took, last, notice, seq, kept, applied>>
Rewrite(n) ==
    /\ ~cursorOpen /\ epoch < MaxRewrites /\ epoch' = epoch + 1
    /\ record' = [k \in 1..n |-> epoch + 1]
    /\ UNCHANGED <<lives, opens, cursorOpen, pending, committed, read, out, took, last, notice, seq, kept, applied>>
OtherAdapter ==
    /\ ~cursorOpen /\ kept.format = "1" /\ kept' = [kept EXCEPT !.format = "other"]
    /\ UNCHANGED <<record, epoch, lives, opens, cursorOpen, pending, committed, read, out, took, last, notice, seq, applied>>

CursorNext ==
    \/ Load \/ PushRecord \/ PushLive \/ HostApplies \/ Ack \/ HandleGoes \/ OtherAdapter
    \/ \E n \in 0..(MaxLines + MaxLive) : Build(n)
    \/ \E n \in 0..MaxLines : Rewrite(n)
CursorSpec == CursorInit /\ [][CursorNext]_cursorVars

CursorTypeOK ==
    /\ record \in Seq(0..MaxRewrites) /\ committed \in 0..MaxLines /\ read \in 0..MaxLines
    /\ committed <= read /\ notice \in {"none", "reset", "rescan"} /\ out.id \in 0..seq /\ last \in 0..seq
\* A Host that has acknowledged everything a handle queued holds exactly the record, each line
\* once and in order, whatever batches, lost acknowledgements, handles, rewritten records or
\* foreign checkpoints came before.
DrainedHoldsRecord ==
    (cursorOpen /\ pending = <<>> /\ out = None /\ notice = "none") => applied = record

-----------------------------------------------------------------------------
(* pkg/adapter/session.go: Answer, the prompts report raises and resolves, *)
(* and State's view of them.  Two callers answer one prompt at once, and   *)
(* repeat; the transport takes an ask once and reports it resolved before  *)
(* its Answer returns (claudecode/asks.go), and the harness may take an ask*)
(* back.                                                                   *)

CONSTANTS
    Answerers,
    Questions,       \* prompts the harness raises, in order: [options, multi]
    Choices,    \* choices callers make: [option, options, text]
    MaxCalls    \* bound on the calls a caller makes

NoOption == "none"
NoPrompt == 0

VARIABLES
    raised,     \* prompts the harness raised so far
    asked,      \* the transport's ask: the prompt it waits on
    question,     \* s.prompt
    asking,
    answers,   \* s.answered
    events,     \* the transport's reports on their way
    call,       \* each caller's Answer: where it is, for which prompt and choice
    calls,
    given,      \* history: choices the harness was given for each prompt
    accepted    \* history: choices a caller was told were accepted

answersVars == <<raised, asked, question, asking, answers, events, call, calls, given, accepted>>

Prompts == 1 .. Len(Questions)
Idle == [at |-> "idle", prompt |-> NoPrompt, choice |-> 0]

AnswersTypeOK ==
    /\ raised \in 0 .. Len(Questions) /\ asked \in 0 .. Len(Questions) /\ question \in 0 .. Len(Questions)
    /\ asking \in {"busy", "awaiting_answer"}
    /\ answers \in [Prompts -> 0 .. Len(Choices)]
    /\ events \in Seq([kind : {"raised", "resolved"}, prompt : Prompts])
    /\ call \in [Answerers -> [at : {"idle", "call", "record"}, prompt : 0 .. Len(Questions), choice : 0 .. Len(Choices)]]
    /\ calls \in [Answerers -> 0 .. MaxCalls]
    /\ given \in [Prompts -> SUBSET (1 .. Len(Choices))]
    /\ accepted \in [Prompts -> SUBSET (1 .. Len(Choices))]
    /\ question # NoPrompt <=> asking = "awaiting_answer"

-----------------------------------------------------------------------------
(* The harness and its transport.                                          *)

Raise ==
    /\ raised < Len(Questions) /\ asked = NoPrompt
    /\ raised' = raised + 1
    /\ asked' = raised'
    /\ events' = Append(events, [kind |-> "raised", prompt |-> raised'])
    /\ UNCHANGED <<question, asking, answers, call, calls, given, accepted>>

\* The harness takes an ask back: its turn was stopped, or it answered itself.
TakeBack ==
    /\ asked # NoPrompt
    /\ asked' = NoPrompt
    /\ events' = Append(events, [kind |-> "resolved", prompt |-> asked])
    /\ UNCHANGED <<raised, question, asking, answers, call, calls, given, accepted>>

\* report of PromptRaised and PromptResolved.
Report ==
    /\ events # << >>
    /\ LET e == Head(events) IN
       \/ /\ e.kind = "raised"
          /\ question' = e.prompt
          /\ asking' = "awaiting_answer"
       \/ /\ e.kind = "resolved" /\ question = e.prompt
          /\ question' = NoPrompt
          /\ asking' = "busy"
       \/ /\ e.kind = "resolved" /\ question # e.prompt
          /\ UNCHANGED <<question, asking>>
    /\ events' = Tail(events)
    /\ UNCHANGED <<raised, asked, answers, call, calls, given, accepted>>

-----------------------------------------------------------------------------
(* Answer.                                                                  *)

\* A choice names exactly one of an option, several, and a text.
choiceFits(p, c) ==
    CASE c.option # NoOption -> c.option \in p.options
      [] c.options # << >> -> p.multi /\ \A k \in DOMAIN c.options : c.options[k] \in p.options
      [] OTHER -> p.options = {}

sameChoice(a, b) == a.option = b.option /\ a.text = b.text /\ a.options = b.options

\* Mutant: the choice is recorded before the transport has it.
AnswerRecorded(c, p, k) ==
    /\ call[c] = Idle
    /\ calls[c] < MaxCalls
    /\ calls' = [calls EXCEPT ![c] = @ + 1]
    /\ \/ /\ answers[p] # 0
          /\ accepted' = IF sameChoice(Choices[answers[p]], Choices[k])
                         THEN [accepted EXCEPT ![p] = @ \cup {k}] ELSE accepted
          /\ UNCHANGED <<call, answers>>
       \/ /\ answers[p] = 0 /\ question = p /\ choiceFits(Questions[p], Choices[k])
          /\ call' = [call EXCEPT ![c] = [at |-> "call", prompt |-> p, choice |-> k]]
          /\ answers' = [answers EXCEPT ![p] = k]
          /\ UNCHANGED accepted
    /\ UNCHANGED <<raised, asked, question, asking, events, given>>

\* Under s.mu: a prompt answered before answers again alike, or not at all; one that
\* does not wait, and a choice it does not offer, are refused.
AnswerCall(c, p, k) ==
    /\ call[c] = Idle
    /\ calls[c] < MaxCalls
    /\ calls' = [calls EXCEPT ![c] = @ + 1]
    /\ \/ /\ answers[p] # 0
          /\ accepted' = IF sameChoice(Choices[answers[p]], Choices[k])
                         THEN [accepted EXCEPT ![p] = @ \cup {k}] ELSE accepted
          /\ UNCHANGED call
       \/ /\ answers[p] = 0
          /\ question # p \/ ~choiceFits(Questions[p], Choices[k])
          /\ UNCHANGED <<call, accepted>>
       \/ /\ answers[p] = 0 /\ question = p /\ choiceFits(Questions[p], Choices[k])
          /\ call' = [call EXCEPT ![c] = [at |-> "call", prompt |-> p, choice |-> k]]
          /\ UNCHANGED accepted
    /\ UNCHANGED <<raised, asked, question, asking, answers, events, given>>

\* transport.Answer, under amu: the ask is taken, reported resolved and answered; a
\* harness that exited meanwhile has not taken it, which is an error.
TransportAnswer(c) ==
    /\ call[c].at = "call"
    /\ \/ /\ asked # call[c].prompt
          /\ call' = [call EXCEPT ![c] = Idle]
          /\ UNCHANGED <<asked, events, given>>
       \/ /\ asked = call[c].prompt
          /\ asked' = NoPrompt
          /\ events' = Append(events, [kind |-> "resolved", prompt |-> asked])
          /\ \/ /\ given' = [given EXCEPT ![asked] = @ \cup {call[c].choice}]
                /\ call' = [call EXCEPT ![c].at = "record"]
             \/ /\ call' = [call EXCEPT ![c] = Idle]
                /\ UNCHANGED given
    /\ UNCHANGED <<raised, question, asking, answers, calls, accepted>>

\* Under s.mu again.
Record(c) ==
    /\ call[c].at = "record"
    /\ answers' = [answers EXCEPT ![call[c].prompt] = call[c].choice]
    /\ accepted' = [accepted EXCEPT ![call[c].prompt] = @ \cup {call[c].choice}]
    /\ call' = [call EXCEPT ![c] = Idle]
    /\ UNCHANGED <<raised, asked, question, asking, events, calls, given>>

-----------------------------------------------------------------------------
AnswersInit ==
    /\ raised = 0 /\ asked = NoPrompt
    /\ question = NoPrompt /\ asking = "busy"
    /\ answers = [p \in Prompts |-> 0]
    /\ events = << >>
    /\ call = [c \in Answerers |-> Idle] /\ calls = [c \in Answerers |-> 0]
    /\ given = [p \in Prompts |-> {}] /\ accepted = [p \in Prompts |-> {}]

AnswersNext ==
    \/ Raise \/ TakeBack \/ Report
    \/ \E c \in Answerers :
          \/ \E p \in Prompts, k \in DOMAIN Choices : AnswerCall(c, p, k)
          \/ TransportAnswer(c) \/ Record(c)

AnswersSpec == AnswersInit /\ [][AnswersNext]_answersVars

-----------------------------------------------------------------------------
\* A caller told that its choice was accepted sees it given to the harness: two
\* callers answering one prompt at once, or one repeating itself across a prompt that
\* is gone, are never both told yes for choices that differ, and the harness gets one
\* choice of the prompt it raised.
AnswerIsGiven ==
    \A p \in Prompts :
        /\ accepted[p] \subseteq given[p]
        /\ Cardinality(given[p]) <= 1
        /\ \A k \in given[p] : choiceFits(Questions[p], Choices[k])
=============================================================================
