----------------------------- MODULE SessionOpen -----------------------------
(***************************************************************************)
(* pkg/adapter/session.go, sessionlock.go, adapter.go: opening a Session in  *)
(* several Hosts of one agent.  NewSession's refusals, Open step by step     *)
(* with a failure at each, the Session's lock, the harness's exit and Close  *)
(* anywhere in between, and a Host process that dies.                       *)
(*                                                                         *)
(* A transport's Start, Stop and the harness itself are external.           *)
(***************************************************************************)
EXTENDS Integers, FiniteSets

CONSTANTS
    Hosts,      \* Host processes, each with one Session handle
    Ids,        \* the Sessions of the agent
    Requests,   \* what a Host may ask for: [id, loaded, workDir, mode]
    Has         \* the capabilities of the adapter

NoId == "none"

VARIABLES
    req,        \* what each Host's handle was made for
    pc,         \* where its Open is
    phase,
    closing, closer,
    holds,      \* lk of Open: the id it locked
    lock,       \* s.lock: what the handle keeps of it
    owner,      \* the kernel's lock of each Session
    transport,          \* s.t is set
    sid,        \* t.SessionID(): the Session the harness says it opened
    run,        \* the harness runs
    exited,     \* the exit was reported
    result      \* what Open returned

openVars == <<req, pc, holds, result, sid>>
handleVars == <<phase, closing, closer, transport, exited>>
vars == <<openVars, handleVars, lock, owner, run>>

None == [id |-> NoId, loaded |-> FALSE, workDir |-> FALSE, mode |-> "none"]

Reopen(id) == [id |-> id, loaded |-> FALSE, workDir |-> FALSE, mode |-> "reopen"]

TypeOK ==
    /\ req \in [Hosts -> Requests \cup {Reopen(id) : id \in Ids} \cup {None}]
    /\ pc \in [Hosts -> {"none", "new", "markers", "lock", "start", "chosen", "loaded",
                         "install", "record", "opened", "done", "dead"}]
    /\ phase \in [Hosts -> {"unopened", "starting", "idle", "exited"}]
    /\ closer \in [Hosts -> {"none", "waits", "stops", "done"}]
    /\ closing \in [Hosts -> BOOLEAN]
    /\ holds \in [Hosts -> Ids \cup {NoId}] /\ lock \in [Hosts -> Ids \cup {NoId}]
    /\ owner \in [Ids -> SUBSET Hosts]
    /\ transport \in [Hosts -> BOOLEAN] /\ exited \in [Hosts -> BOOLEAN]
    /\ sid \in [Hosts -> Ids \cup {NoId}] /\ run \in [Hosts -> BOOLEAN]
    /\ \A h \in Hosts : run[h] => sid[h] # NoId
    /\ result \in [Hosts -> {"none", "opened", "in_use", "failed", "closed"}]

-----------------------------------------------------------------------------
(* NewSession.                                                              *)

\* The capabilities a request needs.
Needs(r) ==
    (IF r.mode = "reopen" THEN {"resume"} ELSE {})
    \cup (IF r.mode = "fresh" /\ r.id # NoId THEN {"assign_session_id"} ELSE {})
    \cup (IF r.loaded THEN {"session_load"} ELSE {})
    \cup (IF r.workDir THEN {"session_work_dir"} ELSE {})

\* A Session a Host was told of can be reopened in another.
Told == {sid[h] : h \in {k \in Hosts : result[k] = "opened"}}

NewSession(h, r) ==
    /\ pc[h] = "none"
    /\ Needs(r) \subseteq Has
    /\ req' = [req EXCEPT ![h] = r]
    /\ pc' = [pc EXCEPT ![h] = "new"]
    /\ UNCHANGED <<holds, result, sid, handleVars, lock, owner, run>>

-----------------------------------------------------------------------------
(* The Session's lock.                                                      *)

\* Mutant: LOCK_SH.
lockSessionShared(h, id) ==
    /\ owner' = [owner EXCEPT ![id] = @ \cup {h}]
    /\ holds' = [holds EXCEPT ![h] = id]

\* lockSession: LOCK_EX | LOCK_NB on the Session's file.
lockSession(h, id) ==
    /\ owner[id] = {}
    /\ owner' = [owner EXCEPT ![id] = {h}]
    /\ holds' = [holds EXCEPT ![h] = id]

\* release: nothing, or nothing any more, is let go without effect.
Without(o, h) == [id \in Ids |-> o[id] \ {h}]

-----------------------------------------------------------------------------
(* Open.                                                                    *)

At(h, from, to) == pc[h] = from /\ pc' = [pc EXCEPT ![h] = to]

\* fail: the phase, and what the caller is told.
Fail(h, as) ==
    /\ phase' = [phase EXCEPT ![h] = "exited"]
    /\ result' = [result EXCEPT ![h] = IF closing[h] THEN "closed" ELSE as]

\* A second Open, or one of a closed handle, is refused and changes nothing.
Open(h) ==
    /\ At(h, "new", "markers")
    /\ phase[h] = "unopened" /\ ~closing[h]
    /\ phase' = [phase EXCEPT ![h] = "starting"]
    /\ UNCHANGED <<req, sid, holds, result, closing, closer, transport, exited, lock, owner, run>>

\* OpenMarkers, and the work_dir beneath the workspace.
OpenStores(h) ==
    /\ \/ /\ At(h, "markers", IF req[h].id = NoId THEN "start" ELSE "lock")
          /\ UNCHANGED <<phase, result>>
       \/ At(h, "markers", "done") /\ Fail(h, "failed")
    /\ UNCHANGED <<req, sid, holds, closing, closer, transport, exited, lock, owner, run>>

\* "Before the harness starts: a Session another Host holds is refused."
LockGiven(h) ==
    /\ \/ /\ At(h, "lock", "start")
          /\ lockSession(h, req[h].id)
          /\ UNCHANGED <<phase, result>>
       \/ /\ At(h, "lock", "done")
          /\ Fail(h, IF owner[req[h].id] # {} THEN "in_use" ELSE "failed")
          /\ UNCHANGED <<owner, holds>>
    /\ UNCHANGED <<req, sid, closing, closer, transport, exited, lock, run>>

\* The Sessions a harness may say it opened: the one asked for, a new one when it
\* was asked for none, and one or the other when it was to load one.
New == {id \in Ids : (\A r \in Requests : r.id # id) /\ (\A h \in Hosts : sid[h] # id)}

Opens(h) ==
    (IF req[h].id = NoId \/ req[h].loaded THEN New ELSE {}) \cup ({req[h].id} \ {NoId})

StartFails(h) ==
    /\ At(h, "start", "done")
    /\ owner' = Without(owner, h)
    /\ holds' = [holds EXCEPT ![h] = NoId]
    /\ Fail(h, "failed")
    /\ UNCHANGED <<req, sid, closing, closer, transport, exited, lock, run>>

\* Start gives up once its context is cancelled, or came up before it saw that.
Started(h) ==
    /\ At(h, "start", IF holds[h] = NoId THEN "chosen" ELSE "loaded")
    /\ \E id \in Opens(h) : sid' = [sid EXCEPT ![h] = id]
    /\ run' = [run EXCEPT ![h] = TRUE]
    /\ UNCHANGED <<req, holds, result, phase, closing, closer, transport, exited, lock, owner>>

\* Stop ends the harness's process group; its exit is reported after.
Stopped(h) == run' = [run EXCEPT ![h] = FALSE]

\* "The harness chose the id, which no other Host holds yet"; the file may fail.
LockChosen(h) ==
    /\ \/ /\ At(h, "chosen", "loaded")
          /\ lockSession(h, sid[h])
          /\ UNCHANGED <<phase, result, run>>
       \/ /\ At(h, "chosen", "done")
          /\ Stopped(h)
          /\ Fail(h, "failed")
          /\ UNCHANGED <<owner, holds>>
    /\ UNCHANGED <<req, sid, closing, closer, transport, exited, lock>>

\* stop of Open: the harness, and then the lock.
Stop(h) ==
    /\ Stopped(h)
    /\ owner' = Without(owner, h)

\* "A loaded Session continues under its saved id, or not at all."
CheckLoaded(h) ==
    /\ \/ /\ At(h, "loaded", "install")
          /\ req[h].loaded => sid[h] = req[h].id
          /\ UNCHANGED <<phase, result, run, owner>>
       \/ /\ At(h, "loaded", "done")
          /\ req[h].loaded /\ sid[h] # req[h].id
          /\ Stop(h)
          /\ Fail(h, "failed")
    /\ UNCHANGED <<req, sid, holds, lock, closing, closer, transport, exited>>

\* Mutant: the handle keeps the lock of a harness that is gone.
InstallAlways(h) ==
    /\ At(h, "install", "record")
    /\ transport' = [transport EXCEPT ![h] = TRUE]
    /\ lock' = [lock EXCEPT ![h] = holds[h]]
    /\ UNCHANGED <<req, sid, holds, result, phase, closing, closer, exited, owner, run>>

\* Under s.mu: the handle's, or let go when the harness ended before.
Install(h) ==
    /\ At(h, "install", "record")
    /\ transport' = [transport EXCEPT ![h] = TRUE]
    /\ \/ /\ exited[h]
          /\ owner' = Without(owner, h)
          /\ UNCHANGED lock
       \/ /\ ~exited[h]
          /\ lock' = [lock EXCEPT ![h] = holds[h]]
          /\ UNCHANGED owner
    /\ UNCHANGED <<req, sid, holds, result, phase, closing, closer, exited, run>>

OpenReader(h) ==
    /\ \/ /\ At(h, "record", "opened")
          /\ UNCHANGED <<phase, result, run, owner>>
       \/ /\ At(h, "record", "done")
          /\ Stop(h)
          /\ Fail(h, "failed")
    /\ UNCHANGED <<req, sid, holds, lock, closing, closer, transport, exited>>

\* Mutant: the phase is set whatever happened while the harness started.
OpenedIdle(h) ==
    /\ At(h, "opened", "done")
    /\ result' = [result EXCEPT ![h] = IF closing[h] THEN "closed" ELSE "opened"]
    /\ phase' = [phase EXCEPT ![h] = IF closing[h] THEN @ ELSE "idle"]
    /\ holds' = [holds EXCEPT ![h] = NoId]
    /\ UNCHANGED <<req, sid, closing, closer, transport, exited, lock, owner, run>>

\* A handle closed meanwhile is left to Close.
Opened(h) ==
    /\ At(h, "opened", "done")
    /\ result' = [result EXCEPT ![h] = IF closing[h] THEN "closed" ELSE "opened"]
    /\ phase' = [phase EXCEPT ![h] = IF ~closing[h] /\ @ = "starting" THEN "idle" ELSE @]
    /\ holds' = [holds EXCEPT ![h] = NoId]
    /\ UNCHANGED <<req, sid, closing, closer, transport, exited, lock, owner, run>>

-----------------------------------------------------------------------------
(* The harness exits, and report takes it.                                  *)

HarnessExits(h) ==
    /\ run[h]
    /\ run' = [run EXCEPT ![h] = FALSE]
    /\ UNCHANGED <<openVars, handleVars, lock, owner>>

\* s.lock is let go, when Open has handed it over.
ReportExited(h) ==
    /\ pc[h] \notin {"none", "dead"} /\ sid[h] # NoId /\ ~run[h] /\ ~exited[h]
    /\ exited' = [exited EXCEPT ![h] = TRUE]
    /\ phase' = [phase EXCEPT ![h] = "exited"]
    /\ owner' = IF lock[h] # NoId THEN Without(owner, h) ELSE owner
    /\ lock' = [lock EXCEPT ![h] = NoId]
    /\ UNCHANGED <<openVars, closing, closer, transport, run>>

-----------------------------------------------------------------------------
(* Close.                                                                   *)

\* An unopened handle is closed at once; the Start of a starting one is cancelled.
Close(h) ==
    /\ pc[h] \notin {"none", "dead"} /\ ~closing[h]
    /\ closing' = [closing EXCEPT ![h] = TRUE]
    /\ \/ /\ phase[h] = "unopened"
          /\ closer' = [closer EXCEPT ![h] = "done"]
          /\ phase' = [phase EXCEPT ![h] = "exited"]
       \/ /\ phase[h] # "unopened"
          /\ closer' = [closer EXCEPT ![h] = "waits"]
          /\ UNCHANGED phase
    /\ UNCHANGED <<openVars, transport, exited, lock, owner, run>>

\* <-s.opened, then the transport is stopped; the exit report lets the lock go.
CloseStops(h) ==
    /\ closer[h] = "waits" /\ pc[h] = "done"
    /\ closer' = [closer EXCEPT ![h] = "stops"]
    /\ run' = [run EXCEPT ![h] = @ /\ ~transport[h]]
    /\ UNCHANGED <<openVars, phase, closing, transport, exited, lock, owner>>

\* The exit has been reported, or its time ran out.
CloseFinishes(h) ==
    /\ closer[h] = "stops" /\ pc[h] = "done"
    /\ closer' = [closer EXCEPT ![h] = "done"]
    /\ phase' = [phase EXCEPT ![h] = "exited"]
    /\ UNCHANGED <<openVars, closing, transport, exited, lock, owner, run>>

\* The Host's process ends: the kernel lets its lock go, while its harness may
\* run on.
HostDies(h) ==
    /\ pc[h] \notin {"none", "dead"}
    /\ pc' = [pc EXCEPT ![h] = "dead"]
    /\ owner' = Without(owner, h)
    /\ UNCHANGED <<req, holds, result, sid, handleVars, lock, run>>

-----------------------------------------------------------------------------
Init ==
    /\ req = [h \in Hosts |-> None]
    /\ pc = [h \in Hosts |-> "none"] /\ phase = [h \in Hosts |-> "unopened"]
    /\ closing = [h \in Hosts |-> FALSE] /\ closer = [h \in Hosts |-> "none"]
    /\ holds = [h \in Hosts |-> NoId] /\ lock = [h \in Hosts |-> NoId]
    /\ owner = [id \in Ids |-> {}]
    /\ transport = [h \in Hosts |-> FALSE] /\ exited = [h \in Hosts |-> FALSE]
    /\ sid = [h \in Hosts |-> NoId] /\ run = [h \in Hosts |-> FALSE]
    /\ result = [h \in Hosts |-> "none"]

Next ==
    \E h \in Hosts :
        \/ \E r \in Requests \cup {Reopen(id) : id \in Told} : NewSession(h, r)
        \/ Open(h) \/ OpenStores(h) \/ LockGiven(h) \/ StartFails(h) \/ Started(h)
        \/ LockChosen(h) \/ CheckLoaded(h) \/ Install(h) \/ OpenReader(h) \/ Opened(h)
        \/ HarnessExits(h) \/ ReportExited(h)
        \/ Close(h) \/ CloseStops(h) \/ CloseFinishes(h) \/ HostDies(h)

Spec == Init /\ [][Next]_vars

-----------------------------------------------------------------------------
(* What opening promises.                                                   *)

\* "No two Hosts run one Session's harness at once" (ADR-022), once each has checked
\* which Session its harness opened; and its Host holds the Session's lock all the
\* while, whatever the order of exits, failures and closes.  ("A harness that
\* outlives its Host ... is not covered", the same document says.)
OneHost ==
    \A h \in Hosts : run[h] /\ pc[h] \in {"install", "record", "opened", "done"} =>
        owner[sid[h]] = {h}

\* A Session whose Open failed, or whose harness's exit was reported, is free for
\* another Host: nothing that no longer runs keeps its lock.
LockIsLetGo ==
    \A h \in Hosts : pc[h] = "done" /\ (result[h] \in {"in_use", "failed"} \/ exited[h]) =>
        \A id \in Ids : h \notin owner[id]

\* A failed Open and a finished Close leave no harness running, and a Session is idle
\* only before its harness's exit was reported.
PhaseIsTrue ==
    \A h \in Hosts :
        /\ result[h] \in {"in_use", "failed"} \/ closer[h] = "done" => ~run[h]
        /\ phase[h] = "idle" => transport[h] /\ ~exited[h]
=============================================================================
