--------------------------- MODULE SessionOpenProofs ---------------------------
(***************************************************************************)
(* SessionOpen for any Hosts, Sessions and requests: no two Hosts run one    *)
(* Session's harness, and what no longer runs keeps no lock.                *)
(*                                                                         *)
(* Neither is inductive.  HostInv follows the lock through Open: which id it *)
(* was taken for, that this id is the harness's once a loaded Session was    *)
(* checked, and that from Install on the handle has it, unless the exit was  *)
(* reported, which let it go.                                               *)
(***************************************************************************)
EXTENDS SessionOpen, TLAPS

MaybeId == Ids \cup {NoId}

\* The requests name Sessions of the agent, and none is the absent id.
OpenAssumptions ==
    /\ NoId \notin Ids
    /\ \A r \in Requests : r.id \in MaybeId

OpenTypes ==
    /\ pc \in [Hosts -> {"none", "new", "markers", "lock", "start", "chosen", "loaded",
                         "install", "record", "opened", "done", "dead"}]
    /\ holds \in [Hosts -> MaybeId] /\ lock \in [Hosts -> MaybeId] /\ sid \in [Hosts -> MaybeId]
    /\ owner \in [Ids -> SUBSET Hosts]
    /\ run \in [Hosts -> BOOLEAN] /\ exited \in [Hosts -> BOOLEAN] /\ transport \in [Hosts -> BOOLEAN]
    /\ DOMAIN req = Hosts /\ \A h \in Hosts : req[h].id \in MaybeId
    /\ DOMAIN result = Hosts

\* A Host that holds no Session's lock.
Free(h) == \A id \in Ids : h \notin owner[id]

HostInv(h) ==
    /\ pc[h] \in {"none", "new", "markers", "lock"} => holds[h] = NoId /\ Free(h)
    /\ pc[h] \in {"none", "new", "markers", "lock", "start"} =>
          sid[h] = NoId /\ ~run[h] /\ ~exited[h] /\ lock[h] = NoId
    /\ pc[h] = "lock" => req[h].id # NoId
    /\ pc[h] = "start" =>
          IF holds[h] = NoId THEN Free(h) ELSE h \in owner[holds[h]] /\ holds[h] = req[h].id
    /\ pc[h] = "chosen" => holds[h] = NoId /\ Free(h) /\ sid[h] # NoId /\ lock[h] = NoId
    /\ pc[h] \in {"loaded", "install"} =>
          /\ lock[h] = NoId /\ holds[h] # NoId /\ h \in owner[holds[h]] /\ sid[h] # NoId
          /\ sid[h] = holds[h] \/ (pc[h] = "loaded" /\ req[h].loaded /\ holds[h] = req[h].id)
    /\ pc[h] \in {"record", "opened", "done"} /\ (exited[h] \/ lock[h] = NoId) => Free(h)
    /\ pc[h] \in {"record", "opened"} /\ ~exited[h] => sid[h] # NoId /\ h \in owner[sid[h]] /\ lock[h] # NoId
    /\ pc[h] = "done" /\ run[h] => sid[h] # NoId /\ h \in owner[sid[h]]
    /\ pc[h] = "done" /\ result[h] \in {"in_use", "failed"} => Free(h)
    /\ exited[h] => ~run[h]

OpenInv ==
    /\ OpenTypes
    /\ \A id \in Ids : \A h, k \in owner[id] : h = k
    /\ \A h \in Hosts : HostInv(h)

-----------------------------------------------------------------------------
\* The steps of one Host leave what another knows of its own lock.
LEMMA OthersKeep ==
    ASSUME NEW h \in Hosts, NEW k \in Hosts \ {h}, HostInv(k), OpenTypes,
           pc'[k] = pc[k], holds'[k] = holds[k], lock'[k] = lock[k], sid'[k] = sid[k],
           run'[k] = run[k], exited'[k] = exited[k], req'[k] = req[k], result'[k] = result[k],
           \A id \in Ids : k \in owner'[id] <=> k \in owner[id]
    PROVE  HostInv(k)'
  BY DEF HostInv, Free, OpenTypes, MaybeId

\* Nobody has opened anything.
LEMMA OpenInit == ASSUME OpenAssumptions, Init PROVE OpenInv
  BY DEF Init, OpenAssumptions, OpenInv, OpenTypes, HostInv, Free, MaybeId, None

\* NewSession's request names a Session of the agent.
LEMMA RequestIds ==
    ASSUME OpenAssumptions, OpenInv, NEW r \in Requests \cup {Reopen(id) : id \in Told}
    PROVE  r.id \in MaybeId
  BY DEF OpenAssumptions, OpenInv, OpenTypes, Told, Reopen, MaybeId

\* What a harness says it opened is a Session of the agent.
LEMMA OpensIds ==
    ASSUME OpenAssumptions, OpenTypes, NEW h \in Hosts
    PROVE  Opens(h) \subseteq Ids
  BY DEF Opens, New, OpenTypes, MaybeId

\* Every step keeps it.
LEMMA OpenStep ==
    ASSUME OpenAssumptions, OpenInv, [Next]_vars
    PROVE  OpenInv'
<1> USE DEF OpenInv, OpenTypes, HostInv, Free, At, OpenAssumptions, MaybeId
<1>1. CASE UNCHANGED vars
  <2>1. OpenTypes'
    BY <1>1 DEF vars, openVars, handleVars
  <2>2. \A id \in Ids : \A h, k \in owner'[id] : h = k
    BY <1>1 DEF vars, openVars, handleVars
  <2>3. ASSUME NEW h \in Hosts PROVE HostInv(h)'
    BY <1>1 DEF vars, openVars, handleVars
  <2> QED
    BY <2>1, <2>2, <2>3
<1>2. ASSUME NEW h \in Hosts, NEW r \in Requests \cup {Reopen(id) : id \in Told}, NewSession(h, r)
      PROVE  OpenInv'
  BY <1>2, RequestIds DEF NewSession, handleVars
<1>3. ASSUME NEW h \in Hosts, Open(h) PROVE OpenInv'
  BY <1>3 DEF Open
<1>4. ASSUME NEW h \in Hosts, OpenStores(h) PROVE OpenInv'
  BY <1>4 DEF OpenStores, Fail
<1>5. ASSUME NEW h \in Hosts, LockGiven(h) PROVE OpenInv'
  <2> HIDE DEF HostInv, Free
  <2>1. OpenTypes'
    BY <1>5 DEF LockGiven, lockSession, Fail
  <2>2. \A id \in Ids : \A j, k \in owner'[id] : j = k
    BY <1>5 DEF LockGiven, lockSession, Fail
  <2>3. ASSUME NEW k \in Hosts \ {h} PROVE HostInv(k)'
    BY <1>5, OthersKeep DEF LockGiven, lockSession, Fail
  <2>4. HostInv(h)'
    <3>1. CASE pc'[h] = "start"
      BY <1>5, <3>1 DEF LockGiven, lockSession, Fail, HostInv, Free
    <3>2. CASE pc'[h] = "done"
      BY <1>5, <3>2 DEF LockGiven, lockSession, Fail, HostInv, Free
    <3> QED
      BY <1>5, <3>1, <3>2 DEF LockGiven, lockSession, Fail
  <2> QED
    BY <2>1, <2>2, <2>3, <2>4
<1>6. ASSUME NEW h \in Hosts, StartFails(h) PROVE OpenInv'
  BY <1>6 DEF StartFails, Without, Fail
<1>7. ASSUME NEW h \in Hosts, Started(h) PROVE OpenInv'
  <2> HIDE DEF HostInv, Free
  <2>0. Opens(h) \subseteq Ids
    BY OpensIds
  <2>1. OpenTypes'
    BY <1>7, <2>0 DEF Started
  <2>2. \A id \in Ids : \A j, k \in owner'[id] : j = k
    BY <1>7 DEF Started
  <2>3. ASSUME NEW k \in Hosts \ {h} PROVE HostInv(k)'
    BY <1>7, OthersKeep DEF Started
  <2>4. HostInv(h)'
    <3>1. CASE holds[h] = NoId
      BY <1>7, <2>0, <3>1 DEF Started, HostInv, Free
    <3>2. CASE holds[h] # NoId
      BY <1>7, <2>0, <3>2 DEF Started, Opens, HostInv, Free
    <3> QED
      BY <1>7, <3>1, <3>2 DEF Started
  <2> QED
    BY <2>1, <2>2, <2>3, <2>4
<1>8. ASSUME NEW h \in Hosts, LockChosen(h) PROVE OpenInv'
  <2> HIDE DEF HostInv, Free
  <2>9. pc[h] = "chosen" /\ sid[h] \in Ids
    BY <1>8 DEF LockChosen, HostInv
  <2>0. run' \in [Hosts -> BOOLEAN]
    BY <1>8 DEF LockChosen, lockSession, Stopped, Fail
  <2>1. OpenTypes'
    <3>1. CASE lockSession(h, sid[h]) /\ UNCHANGED result
      BY <1>8, <2>0, <2>9, <3>1 DEF LockChosen, lockSession
    <3>2. CASE Fail(h, "failed") /\ UNCHANGED <<owner, holds>>
      BY <1>8, <2>0, <2>9, <3>2 DEF LockChosen, Fail
    <3> QED
      BY <1>8, <3>1, <3>2 DEF LockChosen
  <2>2. \A id \in Ids : \A j, k \in owner'[id] : j = k
    BY <1>8 DEF LockChosen, lockSession, Stopped, Fail
  <2>3. ASSUME NEW k \in Hosts \ {h} PROVE HostInv(k)'
    BY <1>8, <2>9, OthersKeep DEF LockChosen, lockSession, Stopped, Fail
  <2>4. HostInv(h)'
    <3>1. CASE pc'[h] = "loaded"
      BY <1>8, <3>1 DEF LockChosen, lockSession, Stopped, Fail, HostInv, Free
    <3>2. CASE pc'[h] = "done"
      BY <1>8, <3>2 DEF LockChosen, lockSession, Stopped, Fail, HostInv, Free
    <3> QED
      BY <1>8, <3>1, <3>2 DEF LockChosen, lockSession, Stopped, Fail
  <2> QED
    BY <2>1, <2>2, <2>3, <2>4
<1>9. ASSUME NEW h \in Hosts, CheckLoaded(h) PROVE OpenInv'
  <2> HIDE DEF HostInv, Free
  <2>0. run' \in [Hosts -> BOOLEAN]
    BY <1>9 DEF CheckLoaded, Stop, Stopped, Without, Fail
  <2>1. OpenTypes'
    BY <1>9, <2>0 DEF CheckLoaded, Stop, Stopped, Without, Fail
  <2>2. \A id \in Ids : \A j, k \in owner'[id] : j = k
    BY <1>9 DEF CheckLoaded, Stop, Stopped, Without, Fail
  <2>3. ASSUME NEW k \in Hosts \ {h} PROVE HostInv(k)'
    BY <1>9, OthersKeep DEF CheckLoaded, Stop, Stopped, Without, Fail
  <2>4. HostInv(h)'
    <3>1. CASE pc'[h] = "install"
      BY <1>9, <3>1 DEF CheckLoaded, Stop, Stopped, Without, Fail, HostInv, Free
    <3>2. CASE pc'[h] = "done"
      BY <1>9, <3>2 DEF CheckLoaded, Stop, Stopped, Without, Fail, HostInv, Free
    <3> QED
      BY <1>9, <3>1, <3>2 DEF CheckLoaded, Stop, Stopped, Without, Fail
  <2> QED
    BY <2>1, <2>2, <2>3, <2>4
<1>10. ASSUME NEW h \in Hosts, Install(h) PROVE OpenInv'
  BY <1>10 DEF Install, Without
<1>11. ASSUME NEW h \in Hosts, OpenReader(h) PROVE OpenInv'
  <2> HIDE DEF HostInv, Free
  <2>0. run' \in [Hosts -> BOOLEAN]
    BY <1>11 DEF OpenReader, Stop, Stopped, Without, Fail
  <2>1. OpenTypes'
    BY <1>11, <2>0 DEF OpenReader, Stop, Stopped, Without, Fail
  <2>2. \A id \in Ids : \A j, k \in owner'[id] : j = k
    BY <1>11 DEF OpenReader, Stop, Stopped, Without, Fail
  <2>3. ASSUME NEW k \in Hosts \ {h} PROVE HostInv(k)'
    BY <1>11, OthersKeep DEF OpenReader, Stop, Stopped, Without, Fail
  <2>4. HostInv(h)'
    <3>1. CASE pc'[h] = "opened"
      BY <1>11, <3>1 DEF OpenReader, Stop, Stopped, Without, Fail, HostInv, Free
    <3>2. CASE pc'[h] = "done"
      BY <1>11, <3>2 DEF OpenReader, Stop, Stopped, Without, Fail, HostInv, Free
    <3> QED
      BY <1>11, <3>1, <3>2 DEF OpenReader, Stop, Stopped, Without, Fail
  <2> QED
    BY <2>1, <2>2, <2>3, <2>4
<1>12. ASSUME NEW h \in Hosts, Opened(h) PROVE OpenInv'
  BY <1>12 DEF Opened
<1>13. ASSUME NEW h \in Hosts, HarnessExits(h) PROVE OpenInv'
  BY <1>13 DEF HarnessExits, openVars, handleVars
<1>14. ASSUME NEW h \in Hosts, ReportExited(h) PROVE OpenInv'
  BY <1>14 DEF ReportExited, Without, openVars
<1>15. ASSUME NEW h \in Hosts, Close(h) \/ CloseStops(h) \/ CloseFinishes(h) PROVE OpenInv'
  BY <1>15 DEF Close, CloseStops, CloseFinishes, openVars
<1>16. ASSUME NEW h \in Hosts, HostDies(h) PROVE OpenInv'
  BY <1>16 DEF HostDies, Without, handleVars
<1> QED
  BY <1>1, <1>2, <1>3, <1>4, <1>5, <1>6, <1>7, <1>8, <1>9, <1>10, <1>11, <1>12, <1>13, <1>14, <1>15, <1>16 DEF Next

-----------------------------------------------------------------------------
\* "No two Hosts run one Session's harness at once": its Host holds the Session's
\* lock, alone, from the check of the id until the harness ends.
THEOREM OneHostAlways ==
    ASSUME OpenAssumptions
    PROVE  Spec => []OneHost
<1>1. Init => OpenInv
  BY OpenInit
<1>2. OpenInv /\ [Next]_vars => OpenInv'
  BY OpenStep
<1>3. OpenInv => OneHost
  BY DEF OpenInv, OpenTypes, HostInv, OneHost, MaybeId, OpenAssumptions, Free
<1> QED
  BY <1>1, <1>2, <1>3, PTL DEF Spec

\* A failed Open, and a reported exit of an opened Session, leave its lock free.
THEOREM LockIsLetGoAlways ==
    ASSUME OpenAssumptions
    PROVE  Spec => []LockIsLetGo
<1>1. Init => OpenInv
  BY OpenInit
<1>2. OpenInv /\ [Next]_vars => OpenInv'
  BY OpenStep
<1>3. OpenInv => LockIsLetGo
  BY DEF OpenInv, HostInv, LockIsLetGo, Free
<1> QED
  BY <1>1, <1>2, <1>3, PTL DEF Spec
=============================================================================
