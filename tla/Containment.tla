----------------------------- MODULE Containment -----------------------------
(***************************************************************************)
(* Contained launches and the managed state they run in                    *)
(* (internal/contain: launch_linux.go, state_linux.go, cgroup_linux.go).   *)
(* A state is a directory with a lock file and a lifecycle record that     *)
(* names its last launch's cgroup.  Wrapper processes launch into a stored *)
(* conversation's state or one of their own, remove a state, and sweep     *)
(* those whose launch is gone; any of them may die between two steps, and  *)
(* the harness's tree (external) lives on in its cgroup.                   *)
(***************************************************************************)
EXTENDS Integers, FiniteSets, Sequences

CONSTANTS Settings,                 \* [supervised, stored, fresh, remove, sweep, refuse, stuck]: BOOLEAN each
          Wrappers, Ids, Stored,    \* processes, state ids, the stored conversation's
          MaxLaunches, MaxCrashes

VARIABLES setting, dir, young,      \* each state: its directory's entries; made less than a minute ago
          record,                   \* lifecycle.json
          proc,                     \* each wrapper process
          tree, stateOf, launches,  \* each launch's process tree, and the state it runs in
          inode, crashes,           \* the next lock file's inode
          forged, raced, killed     \* states a refused launch ended, or locked twice; trees killed under their owner

vars == <<setting, dir, young, record, proc, tree, stateOf, launches, inode, crashes, forged, raced, killed>>
ghosts == <<forged, raced, killed>>

Launches == 1..MaxLaunches
NoRecord == [launch |-> 0, ended |-> FALSE, complete |-> FALSE]
NoDir == [exists |-> FALSE, lock |-> 0, lifecycle |-> FALSE, used |-> FALSE]
Idle == [pc |-> "idle", op |-> "", id |-> 0, lock |-> 0, launch |-> 0, owns |-> FALSE, names |-> {}]
Live(l) == tree[l] \in {"run", "stray"}

Init ==
    /\ setting \in Settings /\ dir = [i \in Ids |-> IF i = Stored /\ setting.stored THEN [exists |-> TRUE, lock |-> 0, lifecycle |-> TRUE, used |-> TRUE] ELSE NoDir]
    /\ young = {} /\ record = [i \in Ids |-> NoRecord] /\ proc = [w \in Wrappers |-> Idle]
    /\ tree = [l \in Launches |-> "none"] /\ stateOf = [l \in Launches |-> 0] /\ launches = 0
    /\ inode = 1 /\ crashes = 0 /\ forged = {} /\ raced = {} /\ killed = FALSE

-----------------------------------------------------------------------------
\* OpenState pins the directory a stored conversation names, and NewState
\* makes a fresh one; Prepare and Remove, and the background sweep, start so.
P(w, p) == proc' = [proc EXCEPT ![w] = p]
Trees == <<tree, stateOf, launches>>
Opens(op, id, owns) == [Idle EXCEPT !.pc = "opened", !.op = op, !.id = id, !.owns = owns]
OpenState(w) ==
    /\ proc[w] = Idle /\ dir[Stored].exists /\ dir[Stored].lifecycle
    /\ \E op \in {"launch"} \cup (IF setting.remove THEN {"remove"} ELSE {}) : P(w, Opens(op, Stored, FALSE))
    /\ UNCHANGED <<setting, dir, young, record, Trees, inode, crashes, ghosts>>
NewState(w) ==
    /\ setting.fresh /\ proc[w] = Idle /\ \E i \in Ids \ {Stored} :
           /\ ~dir[i].used                                  \* newID
           /\ dir' = [dir EXCEPT ![i].exists = TRUE, ![i].used = TRUE] /\ young' = young \cup {i} /\ P(w, Opens("launch", i, TRUE))
    /\ UNCHANGED <<setting, record, Trees, inode, crashes, ghosts>>
Ages(i) ==
    /\ i \in young /\ young' = young \ {i} /\ UNCHANGED <<setting, dir, record, proc, Trees, inode, crashes, ghosts>>
SweepStale(w) ==
    /\ setting.sweep /\ proc[w] = Idle
    /\ \E i \in Ids : dir[i].exists /\ i \notin young /\ P(w, Opens("sweep", i, FALSE))
    /\ UNCHANGED <<setting, dir, young, record, Trees, inode, crashes, ghosts>>

\* lock: an flock on the lock file in the pinned directory, made if absent,
\* that nobody waits for.  The file may have gone with a directory that is
\* being removed, its lock still held.
Refused(w) == [proc[w] EXCEPT !.pc = "refused"]
LockFile(id) == IF dir[id].lock # 0 THEN dir[id].lock ELSE inode
LockHeldNot(id) == FALSE
LockHeld(id) == \E v \in Wrappers : proc[v].id = id /\ proc[v].lock = LockFile(id)
Lock(w) ==
    LET id == proc[w].id IN
    /\ proc[w].pc = "opened"
    /\ \/ /\ dir[id].exists /\ ~LockHeld(id)
          /\ dir' = [dir EXCEPT ![id].lock = LockFile(id)] /\ inode' = IF dir[id].lock = 0 THEN inode + 1 ELSE inode
          /\ raced' = IF \E v \in Wrappers \ {w} : proc[v].id = id /\ proc[v].lock \notin {0, LockFile(id)} THEN raced \cup {id} ELSE raced
          /\ P(w, [proc[w] EXCEPT !.pc = "locked", !.lock = LockFile(id)])
          /\ record' = IF proc[w].owns THEN [record EXCEPT ![id] = NoRecord] ELSE record
       \/ /\ (~dir[id].exists \/ LockHeld(id)) /\ P(w, Refused(w)) /\ UNCHANGED <<dir, inode, raced, record>>
    /\ UNCHANGED <<setting, young, Trees, crashes, forged, killed>>
WriteLifecycle(w) ==
    /\ proc[w].pc = "locked" /\ proc[w].owns /\ ~dir[proc[w].id].lifecycle
    /\ dir' = [dir EXCEPT ![proc[w].id].lifecycle = TRUE] /\ P(w, [proc[w] EXCEPT !.pc = "ready"])
    /\ UNCHANGED <<setting, young, record, Trees, inode, crashes, ghosts>>

-----------------------------------------------------------------------------
\* recoverPrevious: kill the recorded launch's cgroup and wait until it is
\* empty, unless the record says it ended and was cleaned up.
Readable(id) == dir[id].exists /\ dir[id].lifecycle
RecoveredAlways(r) == r.launch = 0 \/ r.ended
Recovered(r) == r.launch = 0 \/ (r.ended /\ r.complete)
\* sweepEntry: persistent state, or state with no record, is left alone.
SweepEntry(w) == proc[w].op = "sweep" => proc[w].id # Stored /\ Readable(proc[w].id)
KillCgroup(l) == IF Live(l) THEN [tree EXCEPT ![l] = "dying"] ELSE tree
RecoverKills(w) ==
    LET id == proc[w].id  r == record[id]  l == r.launch
        next == IF proc[w].op = "launch" THEN "ready" ELSE "removing" IN
    /\ proc[w].pc = "locked" /\ ~(proc[w].owns /\ ~dir[id].lifecycle)
    /\ IF ~SweepEntry(w) \/ ~Readable(id) \/ (~Recovered(r) /\ ~setting.supervised)
       THEN P(w, Refused(w)) /\ UNCHANGED <<tree, killed>>
       ELSE IF Recovered(r) THEN P(w, [proc[w] EXCEPT !.pc = next]) /\ UNCHANGED <<tree, killed>>
       ELSE /\ tree' = KillCgroup(l)
            /\ killed' = (killed \/ (Live(l) /\ id \notin raced /\ \E v \in Wrappers \ {w} : proc[v].launch = l /\ proc[v].pc = "running"))
            /\ P(w, [proc[w] EXCEPT !.pc = "wait"])
    /\ UNCHANGED <<setting, dir, young, record, stateOf, launches, inode, crashes, forged, raced>>
\* waitEmpty: the cgroup is empty, or emptyBudget passes.
RecoverWaits(w) ==
    LET id == proc[w].id  l == record[id].launch IN
    /\ proc[w].pc = "wait"
    /\ \/ /\ l # 0 => tree[l] \in {"gone", "none"}
          /\ record' = [record EXCEPT ![id].ended = TRUE, ![id].complete = TRUE]
          /\ P(w, [proc[w] EXCEPT !.pc = IF @ = "wait" /\ proc[w].op = "launch" THEN "ready" ELSE "removing"])
       \/ /\ setting.stuck /\ l # 0 /\ tree[l] = "dying" /\ P(w, Refused(w)) /\ UNCHANGED record
    /\ UNCHANGED <<setting, dir, young, Trees, inode, crashes, ghosts>>

-----------------------------------------------------------------------------
\* The rest of Prepare: grants, environment, the session cgroup, and its
\* record, written before the harness starts; then Start.
NewSessionCgroup == launches + 1
RecordLaunch(w) ==
    LET id == proc[w].id  l == NewSessionCgroup IN
    /\ proc[w].pc = "ready" /\ launches < MaxLaunches
    /\ \/ /\ Readable(id) /\ launches' = l /\ stateOf' = [stateOf EXCEPT ![l] = id]
          /\ record' = [record EXCEPT ![id] = [NoRecord EXCEPT !.launch = l]]
          /\ P(w, [proc[w] EXCEPT !.pc = "recorded", !.launch = l])
       \/ /\ (setting.refuse \/ ~Readable(id)) /\ P(w, Refused(w)) /\ UNCHANGED <<launches, stateOf, record>>
    /\ UNCHANGED <<setting, dir, young, tree, inode, crashes, ghosts>>
Start(w) ==
    /\ proc[w].pc = "recorded"
    /\ \/ tree' = [tree EXCEPT ![proc[w].launch] = "run"] /\ P(w, [proc[w] EXCEPT !.pc = "running"])
       \/ setting.refuse /\ P(w, Refused(w)) /\ UNCHANGED tree
    /\ UNCHANGED <<setting, dir, young, record, stateOf, launches, inode, crashes, ghosts>>

\* endLaunch, by Release for whatever launch the record names.
Readable2(id) == Readable(id) /\ record[id].launch # 0
Release(w) ==
    LET id == proc[w].id IN
    /\ proc[w].pc = "refused"
    /\ IF proc[w].op = "launch" /\ Readable2(id)
       THEN /\ record' = [record EXCEPT ![id].ended = TRUE, ![id].complete = TRUE]
            /\ forged' = IF record[id].launch # proc[w].launch /\ ~Recovered(record[id]) THEN forged \cup {id} ELSE forged
       ELSE UNCHANGED <<record, forged>>
    /\ P(w, IF proc[w].op = "launch" /\ proc[w].owns THEN [proc[w] EXCEPT !.pc = "removing"] ELSE Idle)
    /\ UNCHANGED <<setting, dir, young, Trees, inode, crashes, raced, killed>>

\* removeTree: the directory's entries in any order, then the directory
\* itself unless something is in it again; then the lock.
Names(id) == (IF dir[id].lock # 0 THEN {"lock"} ELSE {}) \cup (IF dir[id].lifecycle THEN {"lifecycle"} ELSE {})
RemoveLists(w) ==
    /\ proc[w].pc = "removing" /\ P(w, [proc[w] EXCEPT !.pc = "unlink", !.names = Names(proc[w].id)])
    /\ UNCHANGED <<setting, dir, young, record, Trees, inode, crashes, ghosts>>
RemoveUnlinks(w) ==
    /\ proc[w].pc = "unlink" /\ \E n \in proc[w].names :
           /\ dir' = [dir EXCEPT ![proc[w].id].lock = IF n = "lock" THEN 0 ELSE @, ![proc[w].id].lifecycle = IF n = "lifecycle" THEN FALSE ELSE @]
           /\ P(w, [proc[w] EXCEPT !.names = @ \ {n}])
    /\ UNCHANGED <<setting, young, record, Trees, inode, crashes, ghosts>>
RemoveDir(w) ==
    /\ proc[w].pc = "unlink" /\ proc[w].names = {} /\ P(w, Idle)
    /\ dir' = IF Names(proc[w].id) = {} THEN [dir EXCEPT ![proc[w].id] = [NoDir EXCEPT !.used = TRUE]] ELSE dir
    /\ UNCHANGED <<setting, young, record, Trees, inode, crashes, ghosts>>

-----------------------------------------------------------------------------
\* Finish, once the leader is reaped: everything left in the cgroup is
\* killed, and the state goes only when the cgroup is empty.  Without a
\* cgroup nothing shows the tree gone, and the state is kept.
KillSession(l) == {tree} \cup (IF Live(l) THEN {[tree EXCEPT ![l] = "gone"]} ELSE {})    \* but who left the session
FinishKills(w) ==
    LET l == proc[w].launch  id == proc[w].id IN
    /\ proc[w].pc = "running" /\ tree[l] # "run"
    /\ IF setting.supervised
       THEN /\ tree' = KillCgroup(l)
            /\ P(w, [proc[w] EXCEPT !.pc = "finish"]) /\ UNCHANGED record
       ELSE /\ tree' \in KillSession(l)
            /\ record' = IF Readable2(id) THEN [record EXCEPT ![id].ended = TRUE] ELSE record
            /\ P(w, Idle)
    /\ UNCHANGED <<setting, dir, young, stateOf, launches, inode, crashes, ghosts>>
FinishWaits(w) ==
    LET l == proc[w].launch  id == proc[w].id IN
    /\ proc[w].pc = "finish"
    /\ \/ /\ tree[l] = "gone" /\ P(w, IF proc[w].owns THEN [proc[w] EXCEPT !.pc = "removing"] ELSE Idle)
          /\ record' = IF Readable2(id) THEN [record EXCEPT ![id].ended = TRUE, ![id].complete = TRUE] ELSE record
       \/ /\ setting.stuck /\ tree[l] = "dying" /\ P(w, Idle)
          /\ record' = IF Readable2(id) THEN [record EXCEPT ![id].ended = TRUE, ![id].complete = FALSE] ELSE record
    /\ UNCHANGED <<setting, dir, young, Trees, inode, crashes, ghosts>>

\* The harness's leader exits, leaving descendants or none; the killed go.
LeaderExits(l) ==
    /\ tree[l] = "run" /\ \E t \in {"stray", "gone"} : tree' = [tree EXCEPT ![l] = t]
    /\ UNCHANGED <<setting, dir, young, record, proc, stateOf, launches, inode, crashes, ghosts>>
Dies(l) ==
    /\ tree[l] = "dying" /\ tree' = [tree EXCEPT ![l] = "gone"]
    /\ UNCHANGED <<setting, dir, young, record, proc, stateOf, launches, inode, crashes, ghosts>>
Crash(w) ==
    /\ crashes < MaxCrashes /\ proc[w] # Idle /\ crashes' = crashes + 1 /\ P(w, Idle)
    /\ UNCHANGED <<setting, dir, young, record, Trees, inode, ghosts>>

Next ==
    \/ \E w \in Wrappers : \/ OpenState(w) \/ NewState(w) \/ SweepStale(w) \/ Lock(w) \/ WriteLifecycle(w) \/ RecoverKills(w) \/ RecoverWaits(w)
                           \/ RecordLaunch(w) \/ Start(w) \/ Release(w) \/ RemoveLists(w) \/ RemoveUnlinks(w) \/ RemoveDir(w)
                           \/ FinishKills(w) \/ FinishWaits(w) \/ Crash(w)
    \/ \E i \in Ids : Ages(i)
    \/ \E l \in Launches : LeaderExits(l) \/ Dies(l)
Spec == Init /\ [][Next]_vars

-----------------------------------------------------------------------------
TypeOK ==
    /\ setting \in Settings /\ young \subseteq Ids /\ launches \in 0..MaxLaunches
    /\ \A l \in Launches : tree[l] \in {"none", "run", "stray", "dying", "gone"} /\ stateOf[l] \in {0} \cup Ids
    /\ \A w \in Wrappers : proc[w].lock # 0 => proc[w].id \in Ids
\* A live tree is alone in its state, and its state is not deleted under it,
\* whichever process died where, in two cases less: a refused launch ended the
\* record of another's (forged), or removeTree unlinked the lock file, a launch made
\* it anew and locked that while the removal went on (raced).
StateIsHeld ==
    \A l \in Launches : (Live(l) /\ stateOf[l] \notin forged \cup raced) =>
        /\ \A m \in Launches \ {l} : Live(m) => stateOf[m] # stateOf[l]
        /\ Readable(stateOf[l])
\* Recovery, removal and the sweep kill no harness whose wrapper still runs it, but
\* in a state that was locked twice.
OthersAreSafe == ~killed
=============================================================================
