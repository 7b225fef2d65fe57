---------------------------- MODULE CodexProcess ----------------------------
(***************************************************************************)
(* A codex app-server: its start, and the keeper of its sign-in.  They are two*)
(* machines, each with its variables.                                      *)
(***************************************************************************)
EXTENDS Integers, Sequences, FiniteSets, SequencesExt

-----------------------------------------------------------------------------
(* How the codex adapter starts an app-server and what it keeps of a       *)
(* thread's name and goal (pkg/adapter/codex/transport.go Start,           *)
(* startlock.go, native.go).  Sessions of one environment start in turns   *)
(* until codex has initialized the environment's CODEX_HOME.  codex keeps  *)
(* a thread's name and goal outside the rollout; the adapter keeps what    *)
(* codex last said of them in the native state, which is saved with the    *)
(* thread, and compares the two when the thread is first opened where it   *)
(* was loaded.                                                             *)

CONSTANTS Sessions, StartSettings,  \* [who : SUBSET Sessions, errs, full, crashes : BOOLEAN]:
                               \* who opens; a call or a write may fail, the Host die
          MaxChanges,          \* changes codex makes to a name or a goal
          MaxLoads             \* environments the threads are loaded into

VARIABLES startSetting, lock, pc,
          home, ready,         \* which CODEX_HOME this is; codex has initialized it
          proc,                \* each Session's app-server
          thread, said, kept,  \* the transport's t.thread; t.name and t.goal; t.kept
          got,                 \* what readState returned
          notes,               \* codex's notifications the reader has not read
          db, index, rollout,  \* codex's database, session_index.jsonl and rollouts
          native,              \* the native state files
          loaded, held,        \* threads loaded here; what codex held of them when saved
          openedAs,            \* what codex held when a loaded thread opened here
          unread,              \* readState failed as the thread resumed
          doubt,               \* what was saved is not what codex held
          changes

startVars == <<startSetting, lock, pc, home, ready, proc, thread, said, kept, got, notes, db, index, rollout, native, loaded, held, openedAs, unread, doubt, changes>>
Files == <<db, index, rollout, native>>
Mem == <<thread, said, kept, got>>
Env == <<home, ready, loaded, held>>
StartGhosts == <<openedAs, unread, doubt, changes>>

\* A thread's name and goal, as codex says them.
Nothing == [name |-> 0, goal |-> 0]
NoNative == [home |-> -1, name |-> 0, goal |-> 0]
Same(a, b) == a.name = b.name /\ a.goal = b.goal

StartInit ==
    /\ startSetting \in StartSettings /\ lock = 0 /\ pc = [s \in Sessions |-> "idle"] /\ home = 0 /\ ready = FALSE
    /\ proc = [s \in Sessions |-> "none"] /\ thread = [s \in Sessions |-> FALSE] /\ said = [s \in Sessions |-> Nothing]
    /\ kept = [s \in Sessions |-> NoNative] /\ got = [s \in Sessions |-> Nothing] /\ notes = [s \in Sessions |-> <<>>]
    /\ db = [s \in Sessions |-> Nothing] /\ index = [s \in Sessions |-> 0] /\ rollout = [s \in Sessions |-> FALSE]
    /\ native = [s \in Sessions |-> NoNative] /\ loaded = [s \in Sessions |-> FALSE] /\ held = [s \in Sessions |-> Nothing]
    /\ openedAs = [s \in Sessions |-> NoNative] /\ unread = [s \in Sessions |-> FALSE] /\ doubt = [s \in Sessions |-> FALSE] /\ changes = 0

\* Bound: a run of several Sessions is about their starts alone.
Crowd == Cardinality(startSetting.who) > 1
StartGo(s, where) == pc' = [pc EXCEPT ![s] = where]
Fails(s) == startSetting.errs /\ StartGo(s, "abandon")

-----------------------------------------------------------------------------
\* Start: a loaded thread whose rollout is not where codex looks is refused;
\* any other that has none starts anew.  Then the start waits its turn.  A
\* configuration or credential it refuses before that leaves nothing behind.
Resumes(s) == rollout[s]
Start(s) ==
    /\ pc[s] = "idle" /\ s \in startSetting.who /\ (loaded[s] => rollout[s]) /\ StartGo(s, "lock")
    /\ thread' = [thread EXCEPT ![s] = FALSE] /\ said' = [said EXCEPT ![s] = Nothing] /\ kept' = [kept EXCEPT ![s] = NoNative]
    /\ unread' = [unread EXCEPT ![s] = FALSE]
    /\ UNCHANGED <<startSetting, lock, Env, proc, got, notes, Files, openedAs, doubt, changes>>

\* startLock: the lock, tried until it is free or the caller gives up.
StartLock(s) ==
    /\ pc[s] = "lock"
    /\ \/ lock = 0 /\ lock' = s /\ proc' = [proc EXCEPT ![s] = "starting"] /\ StartGo(s, "init")
       \/ startSetting.errs /\ StartGo(s, "idle") /\ UNCHANGED <<lock, proc>>
    /\ UNCHANGED <<startSetting, Env, Mem, notes, Files, StartGhosts>>

\* codex answers initialize, having initialized the home, or the call ends
\* without an answer.  Either way the next start may go.
\* Mutant: the lock is released as soon as the process runs.
InitializedEarly(s) ==
    /\ pc[s] = "init"
    /\ \/ lock = s /\ lock' = 0 /\ UNCHANGED <<proc, ready, pc>>
       \/ lock # s /\ proc' = [proc EXCEPT ![s] = "up"] /\ ready' = TRUE /\ StartGo(s, "initialized") /\ UNCHANGED lock
    /\ UNCHANGED <<startSetting, home, loaded, held, Mem, notes, Files, StartGhosts>>
Initialized(s) ==
    /\ pc[s] = "init" /\ lock' = 0
    /\ \/ proc' = [proc EXCEPT ![s] = "up"] /\ ready' = TRUE /\ StartGo(s, "initialized")
       \/ Fails(s) /\ UNCHANGED <<proc, ready>>
    /\ UNCHANGED <<startSetting, home, loaded, held, Mem, notes, Files, StartGhosts>>

\* The version policy, the initialized notification and the API key's login.
Settled(s) ==
    /\ pc[s] = "initialized" /\ (StartGo(s, IF Resumes(s) THEN "read" ELSE "thread") \/ Fails(s))
    /\ UNCHANGED <<startSetting, lock, Env, proc, Mem, notes, Files, StartGhosts>>

\* readState, before the thread resumes.  A loaded thread that cannot be read
\* is not opened; another goes on without.
ReadState(s) ==
    /\ pc[s] = "read"
    /\ \/ /\ got' = [got EXCEPT ![s] = db[s]] /\ StartGo(s, IF loaded[s] THEN "restore" ELSE "thread")
          /\ said' = IF loaded[s] THEN said ELSE [said EXCEPT ![s] = db[s]]
          /\ UNCHANGED unread
       \/ /\ startSetting.errs /\ StartGo(s, IF loaded[s] THEN "abandon" ELSE "thread")
          /\ unread' = [unread EXCEPT ![s] = ~loaded[s]] /\ UNCHANGED <<got, said>>
    /\ UNCHANGED <<startSetting, lock, Env, proc, thread, kept, notes, Files, openedAs, doubt, changes>>

\* restoreName: a thread first opened here, without the name it was saved with,
\* is given it again when the index that came with it says so; then its state
\* is read anew.
Restorable(s) ==
    /\ native[s].home \notin {-1, home} /\ native[s].name # 0 /\ got[s].name = 0
    /\ index[s] = native[s].name
RestoreName(s) ==
    /\ pc[s] = "restore"
    /\ \/ ~Restorable(s) /\ StartGo(s, "check") /\ UNCHANGED <<db, got>>
       \/ /\ Restorable(s) /\ StartGo(s, "check") /\ db' = [db EXCEPT ![s].name = native[s].name]
          /\ got' = [got EXCEPT ![s] = [db[s] EXCEPT !.name = native[s].name]]
       \/ Restorable(s) /\ Fails(s) /\ UNCHANGED <<db, got>>
    /\ UNCHANGED <<startSetting, lock, Env, proc, thread, said, kept, notes, index, rollout, native, StartGhosts>>

\* checkLoaded: what codex holds here is what was saved.  A thread already
\* opened in this home passes.
\* Mutant: the goal is not compared.
AsSavedByName(s) == native[s].home # -1 /\ (native[s].home = home \/ native[s].name = got[s].name)
AsSaved(s) == native[s].home # -1 /\ (native[s].home = home \/ Same(native[s], got[s]))
CheckLoaded(s) ==
    /\ pc[s] = "check"
    /\ IF AsSaved(s) THEN said' = [said EXCEPT ![s] = got[s]] /\ StartGo(s, "thread") ELSE StartGo(s, "abandon") /\ UNCHANGED said
    /\ UNCHANGED <<startSetting, lock, Env, proc, thread, kept, got, notes, Files, StartGhosts>>

\* syncNative: what codex last said, written whole when it changed.  The write
\* may fail, and then is not remembered as kept.
\* Mutant: the goal is left out.
SyncNameOnly(s, st) == native' = [native EXCEPT ![s] = [home |-> home, name |-> st.name, goal |-> 0]] /\ kept' = [kept EXCEPT ![s] = native'[s]]
SyncNative(s, st) ==
    LET new == [home |-> home, name |-> st.name, goal |-> st.goal] IN
    IF kept[s].home # -1 /\ Same(kept[s], new) THEN UNCHANGED <<native, kept>>
    ELSE \/ native' = [native EXCEPT ![s] = new] /\ kept' = [kept EXCEPT ![s] = new]
         \/ startSetting.full /\ UNCHANGED <<native, kept>>

\* thread/start or thread/resume; then the native state is kept.
OpenThread(s) ==
    /\ pc[s] = "thread"
    /\ \/ /\ StartGo(s, "open") /\ thread' = [thread EXCEPT ![s] = TRUE] /\ SyncNative(s, said[s])
          /\ openedAs' = IF loaded[s] /\ native[s].home # home THEN [openedAs EXCEPT ![s] = [home |-> home, name |-> db[s].name, goal |-> db[s].goal]] ELSE openedAs
       \/ Fails(s) /\ UNCHANGED <<thread, native, kept, openedAs>>
    /\ UNCHANGED <<startSetting, lock, Env, proc, said, got, notes, db, index, rollout, unread, doubt, changes>>

\* A start that gives up ends its codex and waits for it.
\* Mutant: a codex that has not answered is left to itself.
AbandonAnswered(s) ==
    /\ pc[s] = "abandon" /\ StartGo(s, "idle") /\ proc' = [proc EXCEPT ![s] = IF @ = "up" THEN "none" ELSE @]
    /\ UNCHANGED <<startSetting, lock, Env, Mem, notes, Files, StartGhosts>>
Abandon(s) ==
    /\ pc[s] = "abandon" /\ StartGo(s, "idle") /\ proc' = [proc EXCEPT ![s] = "none"]
    /\ UNCHANGED <<startSetting, lock, Env, Mem, notes, Files, StartGhosts>>

-----------------------------------------------------------------------------
\* codex (external) on the thread: a turn writes the rollout; a name or a goal
\* is set, in the database and, a name, in the index, and notified.
CodexTurn(s) ==
    /\ pc[s] = "open" /\ ~rollout[s] /\ rollout' = [rollout EXCEPT ![s] = TRUE]
    /\ UNCHANGED <<startSetting, lock, pc, Env, proc, Mem, notes, db, index, native, StartGhosts>>
CodexChanges(s) ==
    /\ pc[s] = "open" /\ rollout[s] /\ changes < MaxChanges /\ ~Crowd /\ changes' = changes + 1
    /\ \E st \in {[db[s] EXCEPT !.name = changes + 1], [db[s] EXCEPT !.goal = changes + 1]} :
           /\ db' = [db EXCEPT ![s] = st] /\ index' = [index EXCEPT ![s] = st.name]
           /\ notes' = [notes EXCEPT ![s] = Append(@, IF st.name # db[s].name THEN <<"name", st.name>> ELSE <<"goal", st.goal>>)]
    /\ UNCHANGED <<startSetting, lock, pc, Env, proc, Mem, rollout, native, openedAs, unread, doubt>>

\* The reader takes a notification, and keeps the native state.
Noted(s) == LET n == Head(notes[s]) IN IF n[1] = "name" THEN [said[s] EXCEPT !.name = n[2]] ELSE [said[s] EXCEPT !.goal = n[2]]
OnNotification(s) ==
    /\ pc[s] \in {"open", "parked"} /\ notes[s] # <<>>
    /\ notes' = [notes EXCEPT ![s] = Tail(@)] /\ said' = [said EXCEPT ![s] = Noted(s)] /\ SyncNative(s, Noted(s))
    /\ UNCHANGED <<startSetting, lock, pc, Env, proc, thread, got, db, index, rollout, StartGhosts>>

\* Stop reads the state once more, when no input is on codex, then ends codex;
\* the reader reads what is left.
Stop(s) ==
    /\ pc[s] = "open" /\ StartGo(s, "parked")
    /\ \/ notes[s] = <<>> /\ said' = [said EXCEPT ![s] = db[s]] /\ SyncNative(s, db[s])
       \/ startSetting.errs /\ UNCHANGED <<said, native, kept>>
    /\ UNCHANGED <<startSetting, lock, Env, proc, thread, got, notes, db, index, rollout, StartGhosts>>
Exits(s) ==
    /\ pc[s] = "parked" /\ notes[s] = <<>> /\ StartGo(s, "idle") /\ proc' = [proc EXCEPT ![s] = "none"]
    /\ UNCHANGED <<startSetting, lock, Env, Mem, notes, Files, StartGhosts>>

\* The Host dies with every codex of its, and the lock with it.
Crash ==
    /\ startSetting.crashes /\ \E s \in Sessions : pc[s] # "idle"
    /\ lock' = 0 /\ pc' = [s \in Sessions |-> "idle"] /\ proc' = [s \in Sessions |-> "none"] /\ notes' = [s \in Sessions |-> <<>>]
    /\ UNCHANGED <<startSetting, Env, Mem, Files, StartGhosts>>

\* The threads are saved and loaded into another environment (external): the
\* database stays behind, and the index and the goals may.
Load ==
    /\ home < MaxLoads /\ ~Crowd /\ \A s \in Sessions : pc[s] = "idle"
    /\ home' = home + 1 /\ ready' = FALSE
    /\ loaded' = [s \in Sessions |-> native[s].home # -1] /\ held' = db
    /\ doubt' = [s \in Sessions |-> ~Same(native[s], db[s])]
    /\ \E names, goals \in BOOLEAN :
           /\ db' = [s \in Sessions |-> [name |-> 0, goal |-> IF goals THEN db[s].goal ELSE 0]]
           /\ index' = [s \in Sessions |-> IF names THEN index[s] ELSE 0]
    /\ UNCHANGED <<startSetting, lock, pc, proc, Mem, notes, rollout, native, openedAs, unread, changes>>

StartNext ==
    \/ \E s \in Sessions : \/ Start(s) \/ StartLock(s) \/ Initialized(s) \/ Settled(s) \/ ReadState(s) \/ RestoreName(s) \/ CheckLoaded(s)
                           \/ OpenThread(s) \/ Abandon(s) \/ CodexTurn(s) \/ CodexChanges(s) \/ OnNotification(s) \/ Stop(s) \/ Exits(s)
    \/ Crash \/ Load
StartSpec == StartInit /\ [][StartNext]_startVars

-----------------------------------------------------------------------------
StartTypeOK ==
    /\ lock \in Sessions \cup {0} /\ home \in 0..MaxLoads /\ changes \in 0..MaxChanges /\ ready \in BOOLEAN
    /\ \A s \in Sessions :
           /\ pc[s] \in {"idle", "lock", "init", "initialized", "read", "restore", "check", "thread", "open", "parked", "abandon"}
           /\ proc[s] \in {"none", "starting", "up"} /\ native[s].home \in -1..home /\ db[s].name \in 0..MaxChanges

\* Two app-servers are never uninitialized in one home at once, unless the one
\* that started first gave up on its codex (startLock, Profile.Start).
StartsTakeTurns == \A s, r \in Sessions : s # r /\ proc[s] = "starting" /\ proc[r] = "starting" => "abandon" \in {pc[s], pc[r]}

\* A start that failed leaves no codex behind (Profile.Start, abandon).
NoCodexIsLeft == \A s \in Sessions : pc[s] = "idle" => proc[s] = "none"

\* A loaded thread opens only with the name and the goal codex held of it when
\* it was saved, unless the adapter had not heard of them (checkLoaded,
\* restoreName, syncNative).
LoadedIsWhole == \A s \in Sessions : openedAs[s].home = home /\ ~doubt[s] => Same(openedAs[s], held[s])

\* The native state of an open thread is what codex holds, once what codex
\* notified is read (syncNative), when it could be written; NativeAgrees also
\* asks that codex could be read as the thread resumed.
NativeIsKept == \A s \in Sessions : pc[s] = "open" /\ notes[s] = <<>> /\ ~startSetting.full => native[s].home = home /\ Same(native[s], db[s])
NativeAgrees == (\E s \in Sessions : unread[s]) \/ NativeIsKept

-----------------------------------------------------------------------------
(* The login keeper of the codex adapter (pkg/adapter/codex/keeper.go,     *)
(* login.go): operations that take turns (op) and drive a codex app-server *)
(* started when one needs it, and the goroutine that reads what codex      *)
(* answers and notifies, in the order codex wrote it.  codex (external)    *)
(* keeps the login in auth.json, ends a device-code sign-in when the       *)
(* person answers it, and may die.                                         *)

CONSTANTS KeeperSettings,      \* [ops : SUBSET Ops, dies, quick, late : BOOLEAN]
          MaxOps         \* operations asked for

VARIABLES keeperSetting,
          op,            \* the operation that holds op, and where it stands
          asked,         \* operations asked for so far
          srv,           \* the app-server
          pending, lastErr,      \* the keeper's, under mu
          call,          \* the one call in flight, and its answer
          reqs,          \* what codex was sent and has not taken
          wire,          \* what codex wrote and the reader has not read
          auth,          \* auth.json: the login's access and refresh tokens
          signin, logins,        \* codex's device-code sign-in under way; how many there were
          forgotten, closed      \* SignOut, or Close, returned, and nothing was asked since

keeperVars == <<keeperSetting, op, asked, srv, pending, lastErr, call, reqs, wire, auth, signin, logins, forgotten, closed>>
Codex == <<auth, signin, logins>>
Own == <<pending, lastErr>>
KeeperGhosts == <<forgotten, closed>>

Ops == {"sign in", "refresh", "sign out", "close"}
None == 0
NoLogin == [access |-> None, refresh |-> None]
Idle == [kind |-> "", pc |-> "", prev |-> None, then |-> ""]
NoCall == [id |-> 0, state |-> "", ok |-> FALSE, login |-> None]
Answer(id, ok, login) == [id |-> id, ok |-> ok, login |-> login]
Completed(login, ok) == [id |-> 0, ok |-> ok, login |-> login]

KeeperInit ==
    /\ keeperSetting \in KeeperSettings /\ op = Idle /\ asked = 0 /\ srv = "none" /\ pending = None /\ lastErr = FALSE
    /\ call = NoCall /\ reqs = <<>> /\ wire = <<>> /\ auth = NoLogin /\ signin = None /\ logins = 0 /\ forgotten = FALSE /\ closed = FALSE

Busy == op.kind # ""
At(kind, at) == op.kind = kind /\ op.pc = at
KeeperGo(at) == op' = [op EXCEPT !.pc = at]

-----------------------------------------------------------------------------
\* An operation gets op.  ensure starts codex's app-server, unless it runs;
\* a refresh without a login is refused first, and a close needs no codex.
Ask(kind) ==
    /\ ~Busy /\ asked < MaxOps /\ kind \in keeperSetting.ops
    /\ asked' = asked + 1 /\ forgotten' = (forgotten /\ kind # "sign in") /\ closed' = FALSE
    /\ IF kind = "refresh" /\ auth = NoLogin THEN op' = Idle
       ELSE op' = [Idle EXCEPT !.kind = kind, !.pc = CASE kind = "close" -> "clear" [] kind = "sign out" -> "clear" [] OTHER -> "ensure"]
    /\ UNCHANGED <<keeperSetting, srv, Own, call, reqs, wire, Codex>>

\* ensure, with startAppServer: the process started and initialized, or ended.
Exited == srv \in {"none", "done"}
AfterEnsure == CASE op.kind = "sign in" -> "clear" [] op.kind = "refresh" -> "read" [] OTHER -> "cancel"
Ensure ==
    /\ Busy /\ op.pc = "ensure"
    /\ \/ ~Exited /\ KeeperGo(AfterEnsure) /\ UNCHANGED srv
       \/ Exited /\ srv' = "up" /\ KeeperGo(AfterEnsure)
       \/ Exited /\ UNCHANGED srv /\ (IF op.kind = "sign out" THEN KeeperGo("forget") ELSE op' = Idle)
    /\ UNCHANGED <<keeperSetting, asked, Own, call, reqs, wire, Codex, KeeperGhosts>>

\* SignIn takes the sign-in under way off the record before it asks codex to
\* cancel it; SignOut and Close do so before anything else.
Clear ==
    /\ Busy /\ op.pc = "clear" /\ pending' = None
    /\ lastErr' = (lastErr /\ op.kind # "sign out")
    /\ op' = [op EXCEPT !.prev = pending, !.pc = CASE op.kind = "sign in" -> "cancel" [] op.kind = "sign out" -> "ensure" [] OTHER -> "release"]
    /\ UNCHANGED <<keeperSetting, asked, srv, call, reqs, wire, Codex, KeeperGhosts>>

Ended == [NoCall EXCEPT !.id = call.id]
\* call registers the call and writes it; its answer, the caller's context or
\* codex's exit ends it.
Calls(method, arg, then) ==
    /\ call' = [NoCall EXCEPT !.id = call.id + 1, !.state = IF Exited THEN "answered" ELSE "sent"]
    /\ reqs' = IF Exited THEN reqs ELSE Append(reqs, [id |-> call.id + 1, method |-> method, arg |-> arg])
    /\ op' = [op EXCEPT !.pc = "wait", !.then = then]
Cancel ==
    /\ Busy /\ op.pc = "cancel"
    /\ LET then == IF op.kind = "sign in" THEN "start" ELSE "logout" IN
       IF op.prev # None THEN Calls("cancel", op.prev, then) ELSE KeeperGo(then) /\ UNCHANGED <<call, reqs>>
    /\ UNCHANGED <<keeperSetting, asked, srv, Own, wire, Codex, KeeperGhosts>>
StartLogin == /\ At("sign in", "start") /\ Calls("start", None, "started") /\ UNCHANGED <<keeperSetting, asked, srv, Own, wire, Codex, KeeperGhosts>>
ReadAccount == /\ At("refresh", "read") /\ Calls("refresh", None, "refreshed") /\ UNCHANGED <<keeperSetting, asked, srv, Own, wire, Codex, KeeperGhosts>>
Logout == /\ At("sign out", "logout") /\ Calls("logout", None, "release") /\ UNCHANGED <<keeperSetting, asked, srv, Own, wire, Codex, KeeperGhosts>>
CallTimesOut ==
    /\ keeperSetting.late /\ call.state = "sent" /\ call' = [call EXCEPT !.state = "answered", !.ok = FALSE]
    /\ UNCHANGED <<keeperSetting, op, asked, srv, Own, reqs, wire, Codex, KeeperGhosts>>
CallReturns ==
    /\ Busy /\ op.pc = "wait" /\ call.state = "answered" /\ KeeperGo(op.then)
    /\ UNCHANGED <<keeperSetting, asked, srv, Own, call, reqs, wire, Codex, KeeperGhosts>>

\* What each operation makes of its answer.  SignIn records the sign-in codex
\* began, or ends codex; Refresh says why it failed.
\* Mutant: a failed start leaves codex running.
StartedKeeps ==
    /\ At("sign in", "started") /\ call' = Ended
    /\ op' = Idle /\ (IF call.ok THEN pending' = call.login /\ lastErr' = FALSE ELSE UNCHANGED Own)
    /\ UNCHANGED <<keeperSetting, asked, srv, reqs, wire, Codex, KeeperGhosts>>
Started ==
    /\ At("sign in", "started") /\ call' = Ended
    /\ IF call.ok THEN pending' = call.login /\ lastErr' = FALSE /\ op' = Idle
       ELSE KeeperGo("release") /\ UNCHANGED Own
    /\ UNCHANGED <<keeperSetting, asked, srv, reqs, wire, Codex, KeeperGhosts>>
Refreshed ==
    /\ At("refresh", "refreshed") /\ call' = Ended /\ lastErr' = ~call.ok /\ KeeperGo("release")
    /\ UNCHANGED <<keeperSetting, asked, srv, pending, reqs, wire, Codex, KeeperGhosts>>

\* release ends codex unless a sign-in waits on it, and waits for it to end.
\* SignOut then removes auth.json itself.
Returns == /\ op' = Idle /\ closed' = (op.kind = "close") /\ UNCHANGED forgotten
Released == IF op.kind = "sign out" THEN KeeperGo("forget") /\ UNCHANGED KeeperGhosts ELSE Returns
Release ==
    /\ Busy /\ op.pc = "release" /\ call' = Ended
    /\ IF pending # None \/ srv = "none" THEN Released /\ UNCHANGED srv
       ELSE srv' = (IF srv = "up" THEN "closing" ELSE srv) /\ KeeperGo("join") /\ UNCHANGED KeeperGhosts
    /\ UNCHANGED <<keeperSetting, asked, Own, reqs, wire, Codex>>
Joined ==
    /\ Busy /\ op.pc = "join" /\ srv = "done" /\ srv' = "none" /\ Released
    /\ UNCHANGED <<keeperSetting, asked, Own, call, reqs, wire, Codex>>
\* Mutant: codex's own logout is trusted to remove the login.
ForgetTrusting ==
    /\ At("sign out", "forget") /\ op' = Idle /\ forgotten' = TRUE /\ closed' = FALSE
    /\ UNCHANGED <<keeperSetting, asked, srv, Own, call, reqs, wire, Codex>>
Forget ==
    /\ At("sign out", "forget") /\ auth' = NoLogin /\ op' = Idle /\ forgotten' = TRUE /\ closed' = FALSE
    /\ UNCHANGED <<keeperSetting, asked, srv, Own, call, reqs, wire, signin, logins>>

-----------------------------------------------------------------------------
\* The reader: an answer goes to the call that waits for it; a notification
\* ends the sign-in it names, or the one under way if it names none.
\* Mutant: a sign-in that failed stays on record.
OnSuccess(m) ==
    IF (m.login # None /\ m.login # pending) \/ ~m.ok THEN UNCHANGED Own
    ELSE pending' = None /\ lastErr' = ~m.ok
OnNote(m) ==
    IF m.login # None /\ m.login # pending THEN UNCHANGED Own
    ELSE pending' = None /\ lastErr' = ~m.ok
Dispatch ==
    /\ wire # <<>> /\ wire' = Tail(wire)
    /\ LET m == Head(wire) IN
       IF m.id = 0 THEN OnNote(m) /\ UNCHANGED call
       ELSE /\ call' = IF call.state = "sent" /\ call.id = m.id THEN [call EXCEPT !.state = "answered", !.ok = m.ok, !.login = m.login] ELSE call
            /\ UNCHANGED Own
    /\ UNCHANGED <<keeperSetting, op, asked, srv, reqs, Codex, KeeperGhosts>>
\* codex's output has ended: every call fails.
ReaderEnds ==
    /\ srv \in {"closing", "dead"} /\ wire = <<>>
    /\ srv' = "done" /\ signin' = None /\ call' = IF call.state = "sent" THEN [call EXCEPT !.state = "answered", !.ok = FALSE] ELSE call
    /\ reqs' = <<>> /\ UNCHANGED <<keeperSetting, op, asked, Own, wire, auth, logins, KeeperGhosts>>

\* codex (external) takes the request it was sent.  A cancelled sign-in is
\* over, and notified so; a refresh rotates both tokens, or is refused.
Takes(method) == srv \in {"up", "closing"} /\ reqs # <<>> /\ Head(reqs).method = method /\ reqs' = Tail(reqs)
Says(s) == wire' = wire \o s
CodexStartsLogin ==
    /\ Takes("start")
    /\ \/ logins' = logins + 1 /\ signin' = logins + 1 /\ Says(<<Answer(Head(reqs).id, TRUE, logins + 1)>>)
       \/ Says(<<Answer(Head(reqs).id, FALSE, None)>>) /\ UNCHANGED <<signin, logins>>
    /\ UNCHANGED <<keeperSetting, op, asked, srv, Own, call, auth, KeeperGhosts>>
CodexCancels ==
    /\ Takes("cancel")
    /\ signin' = IF signin = Head(reqs).arg THEN None ELSE signin
    /\ Says(IF signin = Head(reqs).arg THEN <<Completed(Head(reqs).arg, FALSE), Answer(Head(reqs).id, TRUE, None)>> ELSE <<Answer(Head(reqs).id, FALSE, None)>>)
    /\ UNCHANGED <<keeperSetting, op, asked, srv, Own, call, auth, logins, KeeperGhosts>>
CodexRefreshes ==
    /\ Takes("refresh")
    /\ \/ auth # NoLogin /\ auth' = [access |-> auth.access + 1, refresh |-> auth.refresh + 1] /\ Says(<<Answer(Head(reqs).id, TRUE, None)>>)
       \/ Says(<<Answer(Head(reqs).id, FALSE, None)>>) /\ UNCHANGED auth
    /\ UNCHANGED <<keeperSetting, op, asked, srv, Own, call, signin, logins, KeeperGhosts>>
CodexLogsOut ==
    /\ Takes("logout")
    /\ \/ auth' = NoLogin /\ Says(<<Answer(Head(reqs).id, TRUE, None)>>)
       \/ Says(<<Answer(Head(reqs).id, FALSE, None)>>) /\ UNCHANGED auth
    /\ UNCHANGED <<keeperSetting, op, asked, srv, Own, call, signin, logins, KeeperGhosts>>
\* The person approves the device code, or it is refused or runs out.
PersonAnswers ==
    /\ srv \in {"up", "closing"} /\ signin # None /\ (keeperSetting.quick \/ ~(op.pc \in {"wait", "started"}))
    /\ \E ok \in BOOLEAN :
           /\ auth' = IF ok THEN [access |-> 10 * signin, refresh |-> 10 * signin] ELSE auth
           /\ Says(<<Completed(signin, ok)>>)
    /\ signin' = None /\ UNCHANGED <<keeperSetting, op, asked, srv, Own, call, reqs, logins, KeeperGhosts>>
CodexDies ==
    /\ keeperSetting.dies /\ srv = "up" /\ srv' = "dead" /\ signin' = None
    /\ UNCHANGED <<keeperSetting, op, asked, Own, call, reqs, wire, auth, logins, KeeperGhosts>>

KeeperNext ==
    \/ \E kind \in Ops : Ask(kind)
    \/ Ensure \/ Clear \/ Cancel \/ StartLogin \/ ReadAccount \/ Logout \/ CallTimesOut \/ CallReturns
    \/ Started \/ Refreshed \/ Release \/ Joined \/ Forget
    \/ Dispatch \/ ReaderEnds
    \/ CodexStartsLogin \/ CodexCancels \/ CodexRefreshes \/ CodexLogsOut \/ PersonAnswers \/ CodexDies
KeeperSpec == KeeperInit /\ [][KeeperNext]_keeperVars

-----------------------------------------------------------------------------
\* Status, which takes no turn: signing in while a sign-in is recorded.
Status == CASE pending # None -> "signing_in" [] pending = None /\ auth = NoLogin -> "signed_out" [] OTHER -> "signed_in"
\* Lend copies the login without what refreshes it; writeLogin, in an agent's
\* environment, refuses a login that could refresh and marks the rest.
\* Mutant: the refresh token is lent too.
LendWhole == IF auth.access = None THEN NoLogin ELSE auth
Lend == IF auth.access = None THEN NoLogin ELSE [auth EXCEPT !.refresh = None]
Withheld == -1
WriteLogin(login) ==
    IF login.access = None \/ ~(login.refresh \in {None, Withheld}) THEN NoLogin ELSE [login EXCEPT !.refresh = Withheld]

KeeperTypeOK ==
    /\ keeperSetting \in [ops : SUBSET Ops, dies : BOOLEAN, quick : BOOLEAN, late : BOOLEAN] /\ asked \in 0..MaxOps
    /\ srv \in {"none", "up", "closing", "dead", "done"} /\ pending \in 0..logins /\ signin \in 0..logins
    /\ lastErr \in BOOLEAN /\ op.kind \in Ops \cup {""} /\ call.state \in {"", "sent", "answered"}

\* Between operations Status tells of codex's sign-in: one codex waits on is
\* reported, and one reported is waited on or its end is still to be read
\* (SignIn, onNote), when codex lives and does not finish a sign-in before
\* SignIn has recorded it.
Notified(n) == \E i \in DOMAIN wire : wire[i].id = 0 /\ wire[i].login = n
SignInIsTold ==
    ~Busy /\ ~keeperSetting.dies /\ ~keeperSetting.quick =>
        /\ signin # None => pending = signin
        /\ pending # None => signin = pending \/ Notified(pending)

\* SignOut forgets the login and any sign-in under way: once it has returned
\* there is no auth.json and nothing left that would write one, whatever codex
\* did with the cancel and the logout (Keeper.SignOut).
SignOutForgets == forgotten => auth = NoLogin /\ signin = None /\ Status # "signing_in"

\* After Close, and after a sign-in that did not start, no codex runs
\* (Keeper.Close, release).
NothingIsLeft == /\ closed => srv = "none"
                 /\ (~Busy /\ logins = 0) => srv # "up"

\* What the keeper lends is taken in an agent's environment, and holds nothing
\* that refreshes it (Lend, writeLogin).
LentIsTaken == auth # NoLogin => Lend.refresh = None /\ WriteLogin(Lend).access = auth.access /\ WriteLogin(auth) = NoLogin
=============================================================================
