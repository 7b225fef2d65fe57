------------------------------- MODULE Opening -------------------------------
(***************************************************************************)
(* Opening, reopening and forgetting one stored conversation               *)
(* (internal/chatcore: conversation.go, containment.go, session_id.go,     *)
(* stream.go; internal/wrapcore/containment.go).  Caller 1 opens it, the   *)
(* others reopen it or delete its private state, each a process with the   *)
(* same Store, which may fail a write, and may die between two steps.  An  *)
(* opening caller's own goroutines look for the harness's session id while *)
(* it still opens.  The managed states are those of Containment: here a    *)
(* directory that exists and a lock.                                       *)
(***************************************************************************)
EXTENDS Integers, FiniteSets

CONSTANTS Settings,      \* see TypeOK
          Callers,       \* caller 1 opens
          MaxFaults,     \* writes the Store refuses
          MaxCrashes

VARIABLES setting,
          store,         \* the conversation's record
          exists, lock,  \* private states: directories, and which caller's launch holds each
          link,          \* what the working directory resolves to (external)
          call,          \* each caller
          run,           \* each caller's harness
          faults, crashes,
          created        \* the conversation's first launch: its policy, state and target

vars == <<setting, store, exists, lock, link, call, run, faults, crashes, created>>
States == <<exists, lock>>
Ids == Callers                      \* a caller makes one state at most
None == 0

\* SessionContainment, flattened into the Session that carries it.
NoSession == [exists |-> FALSE, contained |-> FALSE, policy |-> None, state |-> None, deleted |-> FALSE,
              resumable |-> FALSE, targets |-> None, hid |-> None]
\* One Conversation being opened: session is c.session, arg openWithSession's
\* local copy, copy the one a write in progress carries, found what each
\* search for the harness's id has read.
Searches == {"tap", "turn"}
Idle == [pc |-> "idle", op |-> "", asks |-> None, session |-> NoSession, arg |-> NoSession, copy |-> NoSession,
         saver |-> "", unsaved |-> FALSE, failed |-> FALSE, state |-> None, own |-> FALSE, tapped |-> FALSE,
         found |-> [s \in Searches |-> None], ends |-> "", reported |-> FALSE]
NoRun == [on |-> FALSE, ran |-> FALSE, contained |-> FALSE, policy |-> None, state |-> None, target |-> None]

Init ==
    /\ setting \in Settings /\ store = NoSession /\ exists = {} /\ lock = [i \in Ids |-> None] /\ link = 1
    /\ call = [c \in Callers |-> Idle] /\ run = [c \in Callers |-> NoRun] /\ faults = 0 /\ crashes = 0 /\ created = NoRun

C(c, v) == call' = [call EXCEPT ![c] = v]
Go(c, pc) == C(c, [call[c] EXCEPT !.pc = pc])
At(c, pc) == call[c].pc = pc
Contained(c) == call[c].arg.contained
\* The Store may refuse a write.
CanFail == faults < MaxFaults
World == <<setting, link, crashes>>

-----------------------------------------------------------------------------
\* Open mints the session; Reopen reads it, and refuses to add containment
\* to one that has none, a record it cannot validate and one without an id.
Open(c) ==
    /\ c = 1 /\ At(c, "idle")
    /\ C(c, [Idle EXCEPT !.pc = "prepare", !.op = "open", !.asks = IF setting.contained THEN 1 ELSE None,
                         !.arg = [NoSession EXCEPT !.exists = TRUE]])
    /\ UNCHANGED <<World, store, States, run, faults, created>>
Reopen(c) ==
    /\ c \in 2..setting.callers /\ At(c, "idle") /\ store.exists
    /\ \E asks \in setting.asks :
           C(c, [Idle EXCEPT !.op = "reopen", !.asks = asks, !.arg = store,
                             !.pc = IF (~store.contained /\ asks # None) \/ store.hid = None THEN "refused" ELSE "prepare"])
    /\ UNCHANGED <<World, store, States, run, faults, created>>

\* openWithSession checks its options and takes the transport; the stream-json
\* one has no containment.  prepareContainment checks the record of a reopened
\* conversation and opens its state; it makes a new one for an opened one,
\* unless its caller launches once and keeps nothing.
PrepareContainment(c, k) ==
    IF k.op = "reopen"
    THEN IF (k.asks # None /\ k.asks # k.arg.policy) \/ ~k.arg.resumable \/ k.arg.deleted \/ k.arg.state = None
            \/ k.arg.state \notin exists                                         \* OpenState: ErrStateGone
         THEN /\ Go(c, "refused") /\ UNCHANGED exists
         ELSE /\ C(c, [k EXCEPT !.pc = "session", !.state = k.arg.state]) /\ UNCHANGED exists
    ELSE LET rec == [k.arg EXCEPT !.contained = TRUE, !.policy = k.asks] IN
         IF setting.single
         THEN /\ C(c, [k EXCEPT !.pc = "session", !.arg = rec]) /\ UNCHANGED exists
         ELSE /\ exists' = exists \cup {c}
              /\ C(c, [k EXCEPT !.pc = "session", !.state = c, !.own = TRUE,
                                !.arg = [rec EXCEPT !.state = c, !.resumable = TRUE]])
StreamRefuses(k) == setting.stream /\ (k.asks # None \/ k.arg.contained)     \* containment is not available on it
\* Mutant: only what is asked for now counts, not the record.
PrepareAsAsked(c) ==
    /\ At(c, "prepare")
    /\ LET k == call[c] IN
       IF k.asks # None
       THEN IF StreamRefuses(k) THEN Go(c, "refused") /\ UNCHANGED exists ELSE PrepareContainment(c, k)
       ELSE Go(c, "session") /\ UNCHANGED exists
    /\ UNCHANGED <<World, store, lock, run, faults, created>>
Prepare(c) ==
    /\ At(c, "prepare")
    /\ LET k == call[c] IN
       IF k.asks # None \/ k.arg.contained
       THEN IF StreamRefuses(k) THEN Go(c, "refused") /\ UNCHANGED exists ELSE PrepareContainment(c, k)
       ELSE Go(c, "session") /\ UNCHANGED exists
    /\ UNCHANGED <<World, store, lock, run, faults, created>>

\* sessionLaunch resolves the harness's session id, if the harness takes one,
\* and every refusal of the arguments is here; the Conversation is built
\* around the session.  The line tap is set only while no id is known.
NewHid == 1
SessionLaunch(c) ==
    /\ At(c, "session")
    /\ \E ok \in BOOLEAN :
           LET k == call[c]
               s == IF k.op = "open" /\ setting.assigns THEN [k.arg EXCEPT !.hid = NewHid] ELSE k.arg
           IN  C(c, IF ok THEN [k EXCEPT !.pc = CASE setting.stream -> "start stream" [] Contained(c) /\ k.op = "open" -> "create" [] OTHER -> "start",
                                         !.arg = s, !.session = s, !.tapped = s.hid = None]
                    ELSE [k EXCEPT !.pc = "abandon"])
    /\ UNCHANGED <<World, store, States, run, faults, created>>

\* A contained conversation is in the Store before its harness runs.
CreateFirst(c) ==
    /\ At(c, "create")
    /\ \/ store' = call[c].arg /\ Go(c, "start") /\ UNCHANGED faults
       \/ CanFail /\ faults' = faults + 1 /\ UNCHANGED store /\ Go(c, "abandon")
    /\ UNCHANGED <<World, States, run, created>>

\* wrapper.Start: a contained launch takes its state's lock and compares what
\* its paths resolve to with the recorded targets (startContainedSession, and
\* Prepare of Launch); it may fail at any later step, and then releases all it
\* took.  A caller that launches once has a state the wrapper made.
Runs(c, state) == [on |-> TRUE, ran |-> TRUE, contained |-> Contained(c), policy |-> call[c].arg.policy, state |-> state, target |-> link]
Starts(c) ==
    LET k == call[c]
        s == IF Contained(c) /\ k.state = None THEN c ELSE k.state
    IN  /\ s # None => /\ k.state = None \/ s \in exists
                       /\ lock[s] = None
        /\ k.arg.targets # None => k.arg.targets = link
        /\ run' = [run EXCEPT ![c] = Runs(c, s)]
        /\ exists' = IF s = None THEN exists ELSE exists \cup {s}
        /\ lock' = IF s = None THEN lock ELSE [lock EXCEPT ![s] = c]
        /\ created' = IF created.ran THEN created ELSE Runs(c, s)
        /\ Go(c, IF Contained(c) THEN "record" ELSE "size")
Start(c) ==
    /\ At(c, "start")
    /\ \/ Starts(c)
       \/ Go(c, "abandon") /\ UNCHANGED <<States, run, created>>
    /\ UNCHANGED <<World, store, faults>>

\* The stream-json transport starts the process over pipes, waits for it to
\* answer initialize, and stores the session as it was before the start.
StartStreamProc(c) ==
    /\ At(c, "start stream")
    /\ \/ run' = [run EXCEPT ![c] = Runs(c, None)] /\ created' = (IF created.ran THEN created ELSE Runs(c, None)) /\ Go(c, "initialize")
       \/ Go(c, "refused") /\ UNCHANGED <<run, created>>
    /\ UNCHANGED <<World, store, States, faults>>
Initialize(c) ==
    /\ At(c, "initialize")
    /\ \E ok \in BOOLEAN : Go(c, IF ~ok THEN "stop" ELSE IF call[c].op = "reopen" THEN "open" ELSE "insert stream")
    /\ UNCHANGED <<World, store, States, run, faults, created>>
InsertStream(c) ==
    /\ At(c, "insert stream")
    /\ \/ store' = call[c].arg /\ Go(c, "open") /\ UNCHANGED faults
       \/ CanFail /\ faults' = faults + 1 /\ UNCHANGED store /\ Go(c, "stop")
    /\ UNCHANGED <<World, States, run, created>>

\* recordLaunch: what was applied goes into the session and, at the first
\* launch, what its paths resolved to; then the record is saved.
RecordLaunch(c) ==
    /\ At(c, "record")
    /\ LET k == call[c] IN
       C(c, [k EXCEPT !.pc = "save launch",
                      !.session.state = IF @ = None THEN run[c].state ELSE @,
                      !.session.targets = IF @ = None THEN run[c].target ELSE @])
    /\ UNCHANGED <<World, store, States, run, faults, created>>

\* saveSession copies the session under saveMu and writes the copy; a write
\* that carries the id settles it.
Savers(c) == (IF At(c, "save launch") THEN {"launch"} ELSE {})
             \cup (IF At(c, "save id") /\ call[c].unsaved THEN {"id"} ELSE {})
             \cup {s \in Searches : call[c].found[s] = -1 /\ call[c].unsaved}
             \cup (IF call[c].ends = "save" /\ call[c].unsaved THEN {"exit"} ELSE {})
Copied(k, s) == [k EXCEPT !.saver = s, !.copy = k.session]
SaveBegins(c) ==
    /\ call[c].saver = "" /\ \E s \in Savers(c) : C(c, Copied(call[c], s))
    /\ UNCHANGED <<World, store, States, run, faults, created>>
\* Mutant: a write that failed settles the id too.
AfterAnySave(k, ok) ==
    LET idle == [k EXCEPT !.saver = "", !.copy = NoSession]
        has == k.copy.hid # None
        settled == [idle EXCEPT !.unsaved = k.unsaved /\ ~has]
    IN  CASE k.saver = "launch" -> [settled EXCEPT !.pc = IF ok THEN "size" ELSE "stop"]
          [] k.saver = "id" -> [settled EXCEPT !.pc = "open"]
          [] k.saver = "exit" -> [settled EXCEPT !.ends = "report"]
          [] OTHER -> [settled EXCEPT !.found[k.saver] = -2]
AfterSave(k, ok) ==
    LET idle == [k EXCEPT !.saver = "", !.copy = NoSession]
        has == k.copy.hid # None
        settled == [idle EXCEPT !.unsaved = k.unsaved /\ ~(has /\ ok), !.failed = IF has THEN ~ok /\ k.unsaved ELSE @]
    IN  CASE k.saver = "launch" -> [settled EXCEPT !.pc = IF ok THEN "size" ELSE "stop"]
          [] k.saver = "id" -> [settled EXCEPT !.pc = "open"]
          [] k.saver = "exit" -> [settled EXCEPT !.ends = "report"]
          [] OTHER -> [settled EXCEPT !.found[k.saver] = -2]
SaveEnds(c) ==
    /\ call[c].saver # ""
    /\ LET k == call[c] IN
       \/ store.exists /\ store' = k.copy /\ C(c, AfterSave(k, TRUE)) /\ UNCHANGED faults
       \/ store.exists /\ CanFail /\ faults' = faults + 1 /\ UNCHANGED store /\ C(c, AfterSave(k, FALSE))
       \/ ~store.exists /\ C(c, AfterSave(k, FALSE)) /\ UNCHANGED <<store, faults>>
    /\ UNCHANGED <<World, States, run, created>>
\* saveHarnessID with nothing unsaved writes nothing.
SavesNothing(c) ==
    /\ call[c].saver = "" /\ ~call[c].unsaved
    /\ \/ At(c, "save id") /\ Go(c, "open")
       \/ call[c].ends = "save" /\ C(c, [call[c] EXCEPT !.ends = "report"])
       \/ \E s \in Searches : call[c].found[s] = -1 /\ C(c, [call[c] EXCEPT !.found[s] = -2])
    /\ UNCHANGED <<World, store, States, run, faults, created>>

\* Mutant: a failed resize leaves the harness running.
SizeLeaves(c) ==
    /\ At(c, "size")
    /\ \E ok \in BOOLEAN :
           Go(c, CASE ~ok -> "abandon"
                   [] ok /\ (Contained(c) \/ call[c].op = "reopen") -> "open"
                   [] OTHER -> "copy")
    /\ UNCHANGED <<World, store, States, run, faults, created>>
\* The writer lock and the first resize may fail;
\* an uncontained conversation is stored only now, its session copied first.
Size(c) ==
    /\ At(c, "size")
    /\ \E ok \in BOOLEAN :
           Go(c, CASE ~ok -> "stop"
                   [] ok /\ (Contained(c) \/ call[c].op = "reopen") -> "open"
                   [] OTHER -> "copy")
    /\ UNCHANGED <<World, store, States, run, faults, created>>
CopySession(c) ==
    /\ At(c, "copy")
    /\ C(c, [call[c] EXCEPT !.pc = "insert", !.arg = call[c].session])
    /\ UNCHANGED <<World, store, States, run, faults, created>>
Insert(c) ==
    /\ At(c, "insert")
    /\ \/ store' = call[c].arg /\ Go(c, "save id") /\ UNCHANGED faults
       \/ CanFail /\ faults' = faults + 1 /\ UNCHANGED store /\ Go(c, "stop")
    /\ UNCHANGED <<World, States, run, created>>

-----------------------------------------------------------------------------
\* A failure past the start stops the harness, which is over once its output
\* has been read to the end; one of a contained opening then gives back the
\* state made for it and marks the record.
EndsRun(c) ==
    /\ run' = [run EXCEPT ![c].on = FALSE]
    /\ lock' = [i \in Ids |-> IF lock[i] = c THEN None ELSE lock[i]]
    /\ exists' = IF Contained(c) /\ call[c].state = None THEN exists \ {run[c].state} ELSE exists
Stop(c) ==
    /\ At(c, "stop")
    /\ IF run[c].on THEN EndsRun(c) ELSE UNCHANGED <<run, States>>
    /\ Go(c, "join") /\ UNCHANGED <<World, store, faults, created>>
Done(c, s) == call[c].found[s] \in {None, -2}
StopReturns(c) ==
    /\ At(c, "join") /\ Done(c, "tap") /\ Go(c, "abandon")
    /\ UNCHANGED <<World, store, States, run, faults, created>>
Removed(s) == IF lock[s] = None THEN exists \ {s} ELSE exists      \* Remove, refused while a launch holds it
Abandon(c) ==
    /\ At(c, "abandon")
    /\ IF call[c].own THEN exists' = Removed(call[c].state) /\ Go(c, "mark")
       ELSE Go(c, "refused") /\ UNCHANGED exists
    /\ UNCHANGED <<World, store, lock, run, faults, created>>
Deleted(s) == [s EXCEPT !.deleted = TRUE, !.resumable = FALSE]
MarkAbandoned(c) ==
    /\ At(c, "mark")
    /\ \/ store.exists /\ store' = Deleted(call[c].arg) /\ Go(c, "refused") /\ UNCHANGED faults
       \/ ~store.exists /\ Go(c, "refused") /\ UNCHANGED <<store, faults>>
       \/ store.exists /\ CanFail /\ faults' = faults + 1 /\ Go(c, "refused") /\ UNCHANGED store
    /\ UNCHANGED <<World, States, run, created>>

\* The harness's id is on a line of its output (the tap), or on its screen or
\* disk when a turn ends.  The one that looked up later finds another id where
\* the working directory is shared; the first one recorded stands.
Find(c, s) ==
    /\ run[c].ran /\ call[c].session.hid = None /\ call[c].found[s] = None
    /\ s = "tap" => call[c].tapped /\ ~setting.stream /\ ~(call[c].pc \in {"abandon", "mark", "refused"}) /\ call[c].ends = ""
    /\ s = "turn" => At(c, "open") /\ call[c].ends # "exited"
    /\ C(c, [call[c] EXCEPT !.found[s] = IF s = "tap" THEN 2 ELSE 3])
    /\ UNCHANGED <<World, store, States, run, faults, created>>
\* Mutant: the last id found stands.
RecordLast(k, s) ==
    [k EXCEPT !.session.hid = k.found[s], !.unsaved = TRUE, !.found[s] = -1]
Record(k, s) ==
    IF k.session.hid # None THEN [k EXCEPT !.found[s] = -2]
    ELSE [k EXCEPT !.session.hid = k.found[s], !.unsaved = TRUE, !.found[s] = -1]
RecordHarnessID(c, s) ==
    /\ call[c].found[s] > 0 /\ C(c, Record(call[c], s))
    /\ UNCHANGED <<World, store, States, run, faults, created>>

\* The harness ends (external); its launch gives up the lock.  The open
\* conversation then saves the id a last time and, once the turn that was
\* ending has looked for it, reports its exit.
HarnessEnds(c) ==
    /\ run[c].on /\ EndsRun(c) /\ UNCHANGED <<World, store, call, faults, created>>
Exit(c) ==
    /\ At(c, "open") /\ ~run[c].on /\ call[c].ends = "" /\ Done(c, "tap")
    /\ C(c, [call[c] EXCEPT !.ends = "save"])
    /\ UNCHANGED <<World, store, States, run, faults, created>>
ReportExit(c) ==
    /\ call[c].ends = "report" /\ Done(c, "turn")
    /\ C(c, [call[c] EXCEPT !.ends = "exited", !.reported = call[c].unsaved /\ call[c].failed])
    /\ UNCHANGED <<World, store, States, run, faults, created>>

-----------------------------------------------------------------------------
\* DeleteContainmentState reads the record, removes the state unless a launch
\* holds it, and then writes what it read, marked.
ReadToDelete(c) ==
    /\ setting.deletes /\ c \in 2..setting.callers /\ At(c, "idle") /\ store.exists /\ store.contained
    /\ C(c, [Idle EXCEPT !.op = "delete", !.arg = store, !.pc = IF store.state = None \/ store.deleted THEN "mark deleted" ELSE "remove"])
    /\ UNCHANGED <<World, store, States, run, faults, created>>
RemoveState(c) ==
    /\ At(c, "remove")
    /\ LET s == call[c].arg.state IN
       IF s \in exists /\ lock[s] # None THEN Go(c, "refused") /\ UNCHANGED exists
       ELSE exists' = Removed(s) /\ Go(c, "mark deleted")
    /\ UNCHANGED <<World, store, lock, run, faults, created>>
MarkDeleted(c) ==
    /\ At(c, "mark deleted")
    /\ \/ store' = Deleted(call[c].arg) /\ UNCHANGED faults
       \/ CanFail /\ faults' = faults + 1 /\ UNCHANGED store
    /\ Go(c, "done") /\ UNCHANGED <<World, States, run, created>>

\* The caller's process dies, and its harness with it (a contained one's
\* remains are ended by the next launch, before it takes the state).
Crash(c) ==
    /\ crashes < MaxCrashes /\ setting.crashes /\ ~(call[c].pc \in {"idle", "refused", "done", "crashed"})
    /\ crashes' = crashes + 1 /\ C(c, [Idle EXCEPT !.pc = "crashed"])
    /\ run' = [run EXCEPT ![c].on = FALSE] /\ lock' = [i \in Ids |-> IF lock[i] = c THEN None ELSE lock[i]]
    /\ UNCHANGED <<setting, link, store, exists, faults, created>>
\* What the working directory is a link to changes (external).
Relink == link = 1 /\ setting.relinks /\ link' = 2 /\ UNCHANGED <<setting, crashes, store, States, call, run, faults, created>>

Next ==
    \/ \E c \in Callers :
           \/ Open(c) \/ Reopen(c) \/ Prepare(c) \/ SessionLaunch(c) \/ CreateFirst(c) \/ Start(c) \/ RecordLaunch(c)
           \/ StartStreamProc(c) \/ Initialize(c) \/ InsertStream(c)
           \/ SaveBegins(c) \/ SaveEnds(c) \/ SavesNothing(c) \/ Size(c) \/ CopySession(c) \/ Insert(c)
           \/ Stop(c) \/ StopReturns(c) \/ Abandon(c) \/ MarkAbandoned(c) \/ HarnessEnds(c) \/ Exit(c) \/ ReportExit(c)
           \/ ReadToDelete(c) \/ RemoveState(c) \/ MarkDeleted(c) \/ Crash(c)
           \/ \E s \in Searches : Find(c, s) \/ RecordHarnessID(c, s)
    \/ Relink
Spec == Init /\ [][Next]_vars

-----------------------------------------------------------------------------
TypeOK ==
    /\ setting \in [contained : BOOLEAN, single : BOOLEAN, stream : BOOLEAN, assigns : BOOLEAN, asks : SUBSET (0..2),
                    deletes : BOOLEAN, crashes : BOOLEAN, callers : Callers, relinks : BOOLEAN]
    /\ exists \subseteq Ids /\ lock \in [Ids -> Callers \cup {None}] /\ link \in 1..2
    /\ faults \in 0..MaxFaults /\ crashes \in 0..MaxCrashes
    /\ \A c \in Callers : call[c].saver \in {"", "launch", "id", "exit"} \cup Searches

\* A caller whose Open or Reopen fails is left with nothing: its harness is
\* gone, the private state made for it is removed, and no record says the
\* conversation can be resumed unless the Store refused to take that back or
\* another caller has reopened it meanwhile
\* (openWithSession's deferred abandon, containedLaunch.abandon).
FailureLeavesNothing ==
    \A c \in Callers : At(c, "refused") /\ call[c].op # "delete" =>
        /\ ~run[c].on
        /\ \/ call[c].own => call[c].state \notin exists /\ (~store.resumable \/ faults > 0)
           \/ \E d \in Callers \ {c} : run[d].ran

\* What was created contained runs contained, under the policy and in the
\* private state of its creation, however it is reopened (Reopen's refusals,
\* the downgrade guard of SessionContainment); and it never runs unless the
\* Store has a record that names its state, by which it can be deleted.
StaysContained ==
    \A c \in Callers : run[c].on =>
        /\ run[c].contained = created.contained /\ run[c].policy = created.policy
        /\ run[c].contained /\ ~setting.single => run[c].state = created.state /\ store.exists /\ store.state = run[c].state

\* The id a conversation knows its harness's session by has reached the Store
\* once it has exited, or the exit reports that it has not, although the tap
\* may capture it before the record exists (saveHarnessID, saveSession); a
\* deletion meanwhile may write back what it had read.
IdIsSaved ==
    \A c \in Callers : call[c].ends = "exited" /\ call[c].session.hid # None =>
        store.hid = call[c].session.hid \/ call[c].reported \/ store.deleted

\* The id stored for a conversation is never replaced by another (first write
\* wins, recordHarnessID): its History would be another session's.
IdStands == store.hid # None /\ store'.hid # None => store'.hid = store.hid

=============================================================================
