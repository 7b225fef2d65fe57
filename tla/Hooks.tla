------------------------------- MODULE Hooks --------------------------------
(***************************************************************************)
(* The hooks of a harness: the spool they report through, and the settings file*)
(* that names them.  They are two machines, each with its variables.       *)
(***************************************************************************)
EXTENDS Integers, Sequences, FiniteSets, FiniteSetsExt, SequencesExt

-----------------------------------------------------------------------------
(* The hook spool (internal/harnesscore/hookrun.go) and its reader in a    *)
(* claude Session's record (pkg/adapter/claudecode/record.go): hooks write *)
(* one file a batch (a synced .tmp, a rename, a synced directory); the     *)
(* reader reads files without consuming them, commits what they report and *)
(* only then acknowledges them; unreadable files go to a bounded           *)
(* quarantine; and the files older hosts left at the shared root are moved *)
(* to the Sessions' own spools under a lock nobody waits for.  A process   *)
(* may die at any step; a power failure also undoes, for each file, the    *)
(* directory operations that were not synced.                              *)

CONSTANTS Settings,                \* [resume: BOOLEAN, files, readers: what the run meets]
          Sessions,
          Files, Root,             \* the hooks' files, those of them older hosts left at the root
          Kind(_), Holds(_),       \* what a file holds, and the Sessions its events belong to
          MaxRead, MaxQuarantine,  \* spoolReadFiles, MaxSpoolQuarantine
          MaxMoves, MaxFaults

VARIABLES setting, loc, dur,       \* where each file is, and where a power failure may find it
          hook, moves,             \* each file's writer; parts moved so far, per part
          journal, reader, lock,   \* what each Session stored, its reader, the root's flock
          faults                   \* crashes and power failures so far

spoolVars == <<setting, loc, dur, hook, moves, journal, reader, lock, faults>>

\* A part of a root file written to a Session's spool, in its k-th writing.
Parts == { [file |-> f, session |-> s, k |-> k] : f \in Root, s \in Sessions, k \in 1..MaxMoves }
Whole(f) == [file |-> f, session |-> 0, k |-> 0]
All == { Whole(f) : f \in Files } \cup Parts
Origin(x) == x.file
SpoolOf(x) == IF x \in Parts THEN {x.session} ELSE IF x.file \in Root THEN {} ELSE Holds(x.file)
In(s) == { x \in All : loc[x] = "in" /\ s \in SpoolOf(x) }
Event(x, s) == <<Origin(x), s>>
Quarantined == { x \in All : loc[x] = "quarantine" }
Idle == [pc |-> "idle", batch |-> {}, root |-> "", owed |-> {}]

SpoolInit ==
    /\ setting \in Settings
    /\ loc = [x \in All |-> IF x.file \in Root \cap setting.files /\ x.k = 0 THEN "in" ELSE "none"] /\ dur = loc
    /\ hook = [f \in Files |-> IF f \in Root \cap setting.files THEN "done" ELSE "idle"] /\ moves = [p \in Root \X Sessions |-> 0]
    /\ journal = [s \in Sessions |-> {}] /\ reader = [s \in Sessions |-> Idle] /\ lock = 0
    /\ faults = 0

-----------------------------------------------------------------------------
\* HandleHookEvent: a hook's events, but for a resumed Session's a parent
\* event of another (filterResumeSession), are written to the spool.
Reports(f) == ~(setting.resume /\ Kind(f) = "stale")
HookWrites(f) ==
    /\ hook[f] = "idle" /\ f \in setting.files
    /\ \/ Reports(f) /\ hook' = [hook EXCEPT ![f] = "tmp"] /\ loc' = [loc EXCEPT ![Whole(f)] = "tmp"]
       \/ ~Reports(f) /\ hook' = [hook EXCEPT ![f] = "dropped"] /\ UNCHANGED loc
    /\ UNCHANGED <<setting, dur, moves, journal, reader, lock, faults>>
HookRenames(f) ==
    /\ hook[f] = "tmp" /\ hook' = [hook EXCEPT ![f] = "renamed"] /\ loc' = [loc EXCEPT ![Whole(f)] = "in"]
    /\ UNCHANGED <<setting, dur, moves, journal, reader, lock, faults>>
SyncDirNot(s) == dur
\* syncDir: what is in the Session's spool is there for good.
SyncDir(s) == [x \in All |-> IF s \in SpoolOf(x) THEN loc[x] ELSE dur[x]]
HookSyncs(f) ==
    /\ hook[f] = "renamed" /\ hook' = [hook EXCEPT ![f] = "done"]
    /\ dur' = SyncDir(CHOOSE s \in Holds(f) : TRUE)
    /\ UNCHANGED <<setting, loc, moves, journal, reader, lock, faults>>

-----------------------------------------------------------------------------
\* migrateLegacySpool: the holder of the lock moves the root's files, one
\* Session's part at a time; a reader that finds it held goes on.
Step(s, r) == reader' = [reader EXCEPT ![s] = r]
MigrateLocks(s) ==
    /\ reader[s].pc = "idle" /\ s \in setting.readers
    /\ \/ /\ lock = 0 /\ lock' = s /\ Step(s, [Idle EXCEPT !.pc = "root"])
       \/ /\ lock # 0 /\ UNCHANGED lock /\ Step(s, [Idle EXCEPT !.pc = "read"])
    /\ UNCHANGED <<setting, loc, dur, hook, moves, journal, faults>>
Left(f) == loc[Whole(f)] = "in"
MigrateTakes(s) ==
    /\ reader[s].pc = "root"
    /\ \/ \E f \in Root : Left(f) /\ Step(s, [Idle EXCEPT !.pc = "move", !.root = f, !.owed = IF Kind(f) = "nothing" THEN {} ELSE Holds(f)])
                         /\ UNCHANGED lock
       \/ (\A f \in Root : ~Left(f)) /\ Step(s, [Idle EXCEPT !.pc = "read"]) /\ lock' = 0
    /\ UNCHANGED <<setting, loc, dur, hook, moves, journal, faults>>
MoveRenames(s) ==
    /\ reader[s].pc = "move" /\ \E t \in reader[s].owed :
           LET p == <<reader[s].root, t>> IN
           /\ moves[p] < MaxMoves /\ moves' = [moves EXCEPT ![p] = @ + 1]
           /\ loc' = [loc EXCEPT ![[file |-> p[1], session |-> t, k |-> moves[p] + 1]] = "in"]
           /\ Step(s, [reader[s] EXCEPT !.pc = "moved", !.batch = {t}])
    /\ UNCHANGED <<setting, dur, hook, journal, lock, faults>>
MoveSyncs(s) ==
    /\ reader[s].pc = "moved" /\ LET t == CHOOSE t \in reader[s].batch : TRUE IN
           dur' = SyncDir(t) /\ Step(s, [reader[s] EXCEPT !.pc = "move", !.owed = @ \ {t}, !.batch = {}])
    /\ UNCHANGED <<setting, loc, hook, moves, journal, lock, faults>>
MoveAcksFirst(s) == reader[s].pc = "move"
MoveAcks(s) == reader[s].pc = "move" /\ reader[s].owed = {}
MigrateAcks(s) ==
    /\ MoveAcks(s) /\ loc' = [loc EXCEPT ![Whole(reader[s].root)] = "gone"]
    /\ dur' = [dur EXCEPT ![Whole(reader[s].root)] = "gone"] /\ Step(s, [Idle EXCEPT !.pc = "root"])
    /\ UNCHANGED <<setting, hook, moves, journal, lock, faults>>

-----------------------------------------------------------------------------
\* ReadSpool, bounded, in the directory's order: what cannot be read is set
\* aside, or deleted once the quarantine is full; readSpool deletes what
\* reports nothing at once and keeps the rest for the Commit.
\* readSpoolFile: a regular file whose every record parses.
Readable(x) == Kind(Origin(x)) # "bad"
TakeAsideBad(read) == [x \in read |-> IF ~Readable(x) THEN "deleted" ELSE loc[x]]
TakeAside(read) ==
    LET bad == { x \in read : ~Readable(x) }
        room == MaxQuarantine - Cardinality(Quarantined)
        kept == CHOOSE k \in SUBSET bad : Cardinality(k) = Min({room, Cardinality(bad)})
    IN  [x \in read |-> CASE x \in kept -> "quarantine"
                          [] x \in bad \ kept -> "deleted"
                          [] Kind(Origin(x)) = "nothing" -> "gone"
                          [] OTHER -> loc[x]]
Bounded(read, all) == Cardinality(read) = Min({MaxRead, Cardinality(all)})
SpoolReads(s) ==
    /\ reader[s].pc = "read"
    /\ \E read \in { r \in SUBSET In(s) : Bounded(r, In(s)) } :
           LET aside == TakeAside(read) IN
           /\ loc' = [x \in All |-> IF x \in read THEN aside[x] ELSE loc[x]]
           /\ Step(s, [Idle EXCEPT !.pc = "chunk", !.batch = { x \in read : Readable(x) /\ Kind(Origin(x)) # "nothing" }])
    /\ UNCHANGED <<setting, dur, hook, moves, journal, lock, faults>>
\* The Session stores the chunk, an observation an id (external), and the
\* reader's Commit acknowledges its files: AckSpool.
Stored(s) ==
    /\ reader[s].pc = "chunk" /\ journal' = [journal EXCEPT ![s] = @ \cup { Event(x, s) : x \in reader[s].batch }]
    /\ Step(s, [reader[s] EXCEPT !.pc = "ack"])
    /\ UNCHANGED <<setting, loc, dur, hook, moves, lock, faults>>
AckRemoves(s) ==
    /\ reader[s].pc = "ack" /\ Step(s, [Idle EXCEPT !.pc = "acked"])
    /\ loc' = [x \in All |-> IF x \in reader[s].batch THEN "gone" ELSE loc[x]]
    /\ UNCHANGED <<setting, dur, hook, moves, journal, lock, faults>>
AckSyncs(s) ==
    /\ reader[s].pc = "acked" /\ dur' = SyncDir(s) /\ Step(s, Idle)
    /\ UNCHANGED <<setting, loc, hook, moves, journal, lock, faults>>

-----------------------------------------------------------------------------
Crash(s) ==
    /\ faults < MaxFaults /\ faults' = faults + 1 /\ reader[s] # Idle /\ Step(s, Idle)
    /\ lock' = IF lock = s THEN 0 ELSE lock
    /\ UNCHANGED <<setting, loc, dur, hook, moves, journal>>
PowerFails ==
    /\ faults < MaxFaults /\ faults' = faults + 1
    /\ \E lost \in SUBSET { x \in All : loc[x] # dur[x] } :
           loc' = [x \in All |-> IF x \in lost THEN dur[x] ELSE loc[x]] /\ dur' = loc'
    /\ hook' = [f \in Files |-> IF hook[f] \in {"tmp", "renamed"} THEN "dead" ELSE hook[f]]
    /\ reader' = [s \in Sessions |-> Idle] /\ lock' = 0
    /\ UNCHANGED <<setting, moves, journal>>

SpoolNext ==
    \/ \E f \in Files : HookWrites(f) \/ HookRenames(f) \/ HookSyncs(f)
    \/ \E s \in Sessions : \/ MigrateLocks(s) \/ MigrateTakes(s) \/ MoveRenames(s) \/ MoveSyncs(s) \/ MigrateAcks(s)
                           \/ SpoolReads(s) \/ Stored(s) \/ AckRemoves(s) \/ AckSyncs(s) \/ Crash(s)
    \/ PowerFails
Reader(s) == MigrateLocks(s) \/ MigrateTakes(s) \/ MoveRenames(s) \/ MoveSyncs(s) \/ MigrateAcks(s)
             \/ SpoolReads(s) \/ Stored(s) \/ AckRemoves(s) \/ AckSyncs(s)
SpoolSpec == SpoolInit /\ [][SpoolNext]_spoolVars

-----------------------------------------------------------------------------
SpoolTypeOK ==
    /\ setting \in Settings /\ lock \in {0} \cup Sessions /\ Cardinality(Quarantined) <= MaxQuarantine
    /\ \A x \in All : {loc[x], dur[x]} \subseteq {"none", "tmp", "in", "quarantine", "deleted", "gone"}
    /\ \A s \in Sessions : reader[s].pc \in {"idle", "root", "move", "moved", "read", "chunk", "ack", "acked"}
\* What a hook reported written, or an older host left at the root, is on disk
\* for good or already stored by its Session, through every crash of a reader
\* and every power failure, a move between spools half done included.
SpoolKept ==
    \A f \in Files : (hook[f] = "done" /\ Kind(f) \in {"own", "stale"}) =>
        \A s \in Holds(f) : \/ <<f, s>> \in journal[s]
                            \/ \E x \in All : loc[x] = "in" /\ dur[x] = "in" /\ Origin(x) = f /\ (x = Whole(f) \/ s \in SpoolOf(x))
\* And its Session stores it in the end: no file that reports nothing or
\* cannot be read, and no other reader's lock, keeps it waiting.
Reported(f) == hook[f] = "done"
Stores(s, f) == <<f, s>> \in journal[s]

-----------------------------------------------------------------------------
(* internal/harnesscore/hookensure.go and settingsjson.go: processes of    *)
(* several versions install their hooks in one worktree's settings.json,   *)
(* which its user edits too, some edits inside the groups they installed.  *)
(* A process may die at any step.                                          *)

CONSTANTS
    Procs,
    Hooks,      \* each process's hooks: a sequence of [event, matcher]
    MaxEdits    \* bound on the user's edits

VARIABLES
    file,       \* settings.json: groups by event
    valid,      \* it parses
    configLock,       \* the holder of the sidecar's flock, "none"
    pc,         \* where each process's ensure is
    read,       \* what it read
    edits,
    user,       \* history: what the user has in the file, as last edited
    raced,      \* history: an edit fell between a process's read and its rename
    ensured     \* history: the last process to rename hooks of its own for an event

configVars == <<file, valid, configLock, pc, read, edits, user, raced, ensured>>

Nobody == "none"
Events == UNION {{Hooks[p][k].event : k \in DOMAIN Hooks[p]} : p \in Procs}
Cmd(who) == [who |-> who]
User == "user"

\* A group of commands under one matcher; an odd one has no list of commands.
Group(m, cmds) == [matcher |-> m, odd |-> FALSE, cmds |-> cmds]
Odd == [matcher |-> "odd", odd |-> TRUE, cmds |-> << >>]

-----------------------------------------------------------------------------
(* RenderSettingsJSONHooks.                                                  *)

\* IsManagedHookCommand: by the marker, whichever version wrote it.
IsManaged(c) == c.who \in Procs

\* Mutant: a group with a managed command is taken for managed.
keptGroupsWhole(groups) ==
    SelectSeq(groups, LAMBDA g : g.odd \/ \A k \in DOMAIN g.cmds : ~IsManaged(g.cmds[k]))

\* stripLoomCommands of every group: a mixed one loses its managed commands, one
\* that had no other is dropped, and a shape it does not know is kept.
stripLoomCommands(g) == [g EXCEPT !.cmds = SelectSeq(@, LAMBDA c : ~IsManaged(c))]
keptGroups(groups) ==
    LET keep(g) == g.odd \/ stripLoomCommands(g) = g \/ stripLoomCommands(g).cmds # << >>
    IN  [k \in DOMAIN SelectSeq(groups, keep) |-> stripLoomCommands(SelectSeq(groups, keep)[k])]

\* The groups one process installs under an event, together.
Managed(p, e) ==
    LET mine == SelectSeq(Hooks[p], LAMBDA h : h.event = e)
    IN  [k \in DOMAIN mine |-> Group(mine[k].matcher, <<Cmd(p)>>)]

upsertSettingsHooks(groups, p, e) ==
    IF Managed(p, e) = << >> THEN groups ELSE keptGroups(groups) \o Managed(p, e)

Render(settings, p) == [e \in Events |-> upsertSettingsHooks(settings[e], p, e)]

-----------------------------------------------------------------------------
(* WithLockedFile.                                                          *)

At(p, from, to) == pc[p] = from /\ pc' = [pc EXCEPT ![p] = to]

\* Mutant: the lock is of the file that is renamed over, which a waiter's new
\* lock does not exclude.
LockRenamed(p) ==
    /\ At(p, "idle", "read")
    /\ configLock' = p
    /\ UNCHANGED <<file, valid, read, edits, user, raced, ensured>>

\* LOCK_EX on the sidecar.
Lock(p) ==
    /\ At(p, "idle", "read")
    /\ configLock = Nobody
    /\ configLock' = p
    /\ UNCHANGED <<file, valid, read, edits, user, raced, ensured>>

\* A file that does not parse is an error, and is left as it is.
Read(p) ==
    /\ \/ valid /\ At(p, "read", "rename") /\ read' = [read EXCEPT ![p] = file] /\ UNCHANGED configLock
       \/ ~valid /\ At(p, "read", "done") /\ configLock' = Nobody /\ UNCHANGED read
    /\ UNCHANGED <<file, valid, edits, user, raced, ensured>>

\* atomicWriteFile: the temp file is whole and synced when it is renamed; where it
\* cannot be written nothing has changed.
Rename(p) ==
    /\ At(p, "rename", "done")
    /\ \/ /\ file' = Render(read[p], p) /\ valid' = TRUE
          /\ ensured' = [e \in Events |-> IF Managed(p, e) = << >> THEN ensured[e] ELSE p]
       \/ UNCHANGED <<file, valid, ensured>>
    /\ configLock' = IF configLock = p THEN Nobody ELSE configLock
    /\ UNCHANGED <<read, edits, user, raced>>

\* A later run of the same process's harness ensures again.
Again(p) ==
    /\ At(p, "done", "idle")
    /\ UNCHANGED <<file, valid, configLock, read, edits, user, raced, ensured>>

\* The kernel lets the flock go.
Dies(p) ==
    /\ pc[p] \in {"read", "rename"}
    /\ At(p, pc[p], "done")
    /\ configLock' = IF configLock = p THEN Nobody ELSE configLock
    /\ UNCHANGED <<file, valid, read, edits, user, raced, ensured>>

-----------------------------------------------------------------------------
(* The user, who takes no lock.                                             *)

\* What of the groups is the user's.
Theirs(groups) ==
    LET keep(g) == g.odd \/ g.cmds = << >> \/ stripLoomCommands(g).cmds # << >>
    IN  [k \in DOMAIN SelectSeq(groups, keep) |-> stripLoomCommands(SelectSeq(groups, keep)[k])]

Edit(e, groups) ==
    /\ edits < MaxEdits /\ valid
    /\ edits' = edits + 1
    /\ file' = [file EXCEPT ![e] = groups]
    /\ user' = [x \in Events |-> Theirs(file'[x])]
    /\ raced' = (raced \/ \E p \in Procs : pc[p] = "rename")
    /\ UNCHANGED <<valid, configLock, pc, read, ensured>>

UserAdds(e) == \E g \in {Group("m", <<Cmd(User)>>), Odd, Group("m", << >>)} : Edit(e, Append(file[e], g))
UserJoins(e) == \E k \in DOMAIN file[e] :
    ~file[e][k].odd /\ Edit(e, [file[e] EXCEPT ![k].cmds = Append(@, Cmd(User))])
UserRemoves(e) == \E k \in DOMAIN file[e] : Edit(e, RemoveAt(file[e], k))

\* A half-written edit, and its repair.
UserBreaks ==
    /\ edits < MaxEdits /\ valid
    /\ edits' = edits + 1
    /\ valid' = FALSE
    /\ raced' = (raced \/ \E p \in Procs : pc[p] = "rename")
    /\ UNCHANGED <<file, configLock, pc, read, user, ensured>>

UserRepairs ==
    /\ ~valid
    /\ valid' = TRUE
    /\ UNCHANGED <<file, configLock, pc, read, edits, user, raced, ensured>>

-----------------------------------------------------------------------------
ConfigInit ==
    /\ file = [e \in Events |-> << >>] /\ valid = TRUE
    /\ configLock = Nobody /\ pc = [p \in Procs |-> "idle"]
    /\ read = [p \in Procs |-> [e \in Events |-> << >>]]
    /\ edits = 0 /\ user = [e \in Events |-> << >>]
    /\ raced = FALSE /\ ensured = [e \in Events |-> Nobody]

ConfigNext ==
    \/ \E p \in Procs : Lock(p) \/ Read(p) \/ Rename(p) \/ Again(p) \/ Dies(p)
    \/ \E e \in Events : UserAdds(e) \/ UserJoins(e) \/ UserRemoves(e)
    \/ UserBreaks \/ UserRepairs

ConfigSpec == ConfigInit /\ [][ConfigNext]_configVars

ConfigTypeOK ==
    /\ valid \in BOOLEAN /\ raced \in BOOLEAN
    /\ configLock \in Procs \cup {Nobody} /\ ensured \in [Events -> Procs \cup {Nobody}]
    /\ pc \in [Procs -> {"idle", "read", "rename", "done"}]
    /\ edits \in 0 .. MaxEdits

-----------------------------------------------------------------------------
\* "concurrent same-worktree ensures don't clobber each other" and "preserves the
\* user's hooks": through ensures of any version, killed at any step, what the user
\* has in the file, in groups of their own or in ours, stays as they last wrote it,
\* unless they wrote it between an ensure's read and its rename; and until they
\* edit, the hooks of every event are those of the last ensure that has any for it,
\* whole and once, whatever the other ensured meanwhile.
HooksAreMerged ==
    ~raced =>
        /\ \A e \in Events : Theirs(file[e]) = user[e]
        /\ edits = 0 =>
             \A e \in Events : ensured[e] # Nobody => file[e] = Managed(ensured[e], e)
=============================================================================
