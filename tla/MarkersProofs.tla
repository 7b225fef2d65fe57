----------------------------- MODULE MarkersProofs -----------------------------
(***************************************************************************)
(* Markers for any Hosts, inputs and number of crashes: absence in an       *)
(* intact store is proof, and no input id is handed over twice.             *)
(*                                                                         *)
(* Neither is inductive.  MarkerInv says what a Host that holds a claim may  *)
(* rely on (the marker is there, on disk once it was synced, nobody else     *)
(* has it, and the input was not handed over) and that what was handed over  *)
(* is on disk, in a store that is too.                                       *)
(***************************************************************************)
EXTENDS Markers, TLAPS

\* A Host that published a marker and has yet to hand its input over, or to
\* withdraw it; and one whose marker is synced.
Claiming == {"sync", "submit", "withdraw", "remove"}
Synced == {"submit", "withdraw", "remove"}

Types ==
    /\ temp \in [Hosts -> {"none", "empty", "shown", "disk"}]
    /\ files \subseteq Inputs /\ disk \subseteq Inputs
    /\ pc \in [Hosts -> Opens \cup {"ready", "check", "link", "sync", "submit",
                                    "withdraw", "remove", "resync", "read"}]
    /\ want \in [Hosts -> Inputs \cup {NoInput}]
    /\ \A h \in Hosts : pc[h] \in Claiming \cup {"check", "link", "read"} => want[h] \in Inputs
    /\ gave \in [Inputs -> Nat]

\* A directory is renamed into place with its sentinel in it and that on disk, and
\* replaces no store: an undamaged one has its sentinel.
StoreInv ==
    /\ Types
    /\ \A h \in Hosts : pc[h] = "rename" => temp[h] = "disk"
    /\ dir /\ ~damaged => sentinel /\ sentinelDisk
    /\ sentinelDisk => sentinel

MarkerInv ==
    /\ StoreInv
    /\ sentinel => dir
    /\ ~dir => \A h \in Hosts : pc[h] \in Opens \ {"syncscratch"}
    /\ \A h \in Hosts : pc[h] \in Synced => dirDisk
    /\ \A i \in Inputs : gave[i] > 0 => dir /\ dirDisk
    /\ sentinel => \A i \in Inputs : gave[i] > 0 => i \in files /\ i \in disk
    /\ sentinel => \A h \in Hosts :
          pc[h] \in Claiming => want[h] \in files /\ gave[want[h]] = 0
    /\ sentinel => \A h \in Hosts : pc[h] \in Synced => want[h] \in disk
    /\ sentinel => \A h, k \in Hosts :
          pc[h] \in Claiming /\ pc[k] \in Claiming /\ want[h] = want[k] => h = k

-----------------------------------------------------------------------------
\* Every step keeps the types.
LEMMA TypesStep ==
    ASSUME Types, [Next]_vars
    PROVE  Types'
<1> USE MarkersAssumption DEF Types, Claiming, Opens
<1>1. CASE UNCHANGED vars
  BY <1>1 DEF vars, storeVars
<1>2. ASSUME NEW h \in Hosts, Open(h) \/ SyncScratch(h)
      PROVE  Types'
  BY <1>2 DEF Open, SyncScratch, Move, storeVars
<1>3. ASSUME NEW h \in Hosts, MakeTemp(h) \/ WriteSentinel(h) \/ SyncTemp(h)
      PROVE  Types'
  BY <1>3 DEF MakeTemp, WriteSentinel, SyncTemp, Move, storeVars
<1>4. ASSUME NEW h \in Hosts, Rename(h)
      PROVE  Types'
  BY <1>4 DEF Rename, Move, storeVars
<1>5. ASSUME NEW h \in Hosts, NEW i \in Inputs, Write(h, i) \/ Lookup(h, i)
      PROVE  Types'
  BY <1>5 DEF Write, Lookup, Move, storeVars
<1>6. ASSUME NEW h \in Hosts, Check(h) \/ Link(h)
      PROVE  Types'
  BY <1>6 DEF Check, Link, Return, Move, storeVars
<1>7. ASSUME NEW h \in Hosts, Sync(h) \/ Resync(h)
      PROVE  Types'
  <2>1. disk' \subseteq Inputs
    BY <1>7 DEF Sync, Resync, SyncDir
  <2>2. UNCHANGED <<temp, files, gave>>
    BY <1>7 DEF Sync, Resync
  <2>3. pc[h] \in {"sync", "resync"} /\ (Return(h) \/ (Move(h, "submit") /\ pc[h] = "sync" /\ UNCHANGED want))
    BY <1>7, Zenon DEF Sync, Resync
  <2> QED
    BY <2>1, <2>2, <2>3 DEF Return, Move
<1>8. ASSUME NEW h \in Hosts, Submit(h)
      PROVE  Types'
  BY <1>8 DEF Submit, Return, Move, storeVars
<1>9. ASSUME NEW h \in Hosts, Withdraw(h) \/ Remove(h) \/ LookupReads(h)
      PROVE  Types'
  BY <1>9 DEF Withdraw, Remove, LookupReads, Return, Move, storeVars
<1>10. ASSUME NEW h \in Hosts, HostCrash(h)
       PROVE  Types'
  BY <1>10 DEF HostCrash, Move, storeVars
<1>11. CASE MachineCrash
  BY <1>11 DEF MachineCrash
<1>12. CASE Damage
  BY <1>12 DEF Damage
<1> QED
  BY <1>1, <1>2, <1>3, <1>4, <1>5, <1>6, <1>7, <1>8, <1>9, <1>10, <1>11, <1>12, Zenon
     DEF Next, Host

\* And that only a directory with its sentinel on disk becomes the store.
LEMMA StoreStep ==
    ASSUME StoreInv, [Next]_vars
    PROVE  StoreInv'
<1>0. Types /\ Types'
  BY TypesStep, Zenon DEF StoreInv
<1> DEFINE RenamesWhole == \A h \in Hosts : pc[h] = "rename" => temp[h] = "disk"
           Whole == /\ dir /\ ~damaged => sentinel /\ sentinelDisk
                    /\ sentinelDisk => sentinel
<1> SUFFICES RenamesWhole' /\ Whole'
  BY <1>0, Zenon DEF StoreInv
<1>1. RenamesWhole /\ Whole
  BY Zenon DEF StoreInv
<1>2. ASSUME NEW h \in Hosts, NEW at, Move(h, at), at # "rename", UNCHANGED temp
      PROVE  RenamesWhole'
  BY <1>0, <1>1, <1>2 DEF Types, Move
<1>3. ASSUME NEW h \in Hosts, NEW at, NEW t, Move(h, at), temp' = [temp EXCEPT ![h] = t],
             at = "rename" => t = "disk"
      PROVE  RenamesWhole'
  BY <1>0, <1>1, <1>3 DEF Types, Move
<1>4. ASSUME UNCHANGED <<storeVars, damaged>> PROVE Whole'
  BY <1>1, <1>4, Zenon DEF storeVars
<1> HIDE DEF RenamesWhole, Whole
<1>5. CASE UNCHANGED vars
  BY <1>1, <1>4, <1>5, Zenon DEF vars, RenamesWhole
<1>6. ASSUME NEW h \in Hosts, Open(h) \/ SyncScratch(h)
      PROVE  RenamesWhole' /\ Whole'
  <2>1. UNCHANGED temp /\ \E at \in {"ready", "create"} : Move(h, at)
    BY <1>6, Zenon DEF Open, SyncScratch
  <2>2. UNCHANGED <<dir, sentinel, sentinelDisk, damaged>>
    BY <1>6, Zenon DEF Open, SyncScratch, storeVars
  <2>3. Whole'
    BY <1>1, <2>2, Zenon DEF Whole
  <2> QED
    BY <1>2, <2>1, <2>3
<1>7. ASSUME NEW h \in Hosts, MakeTemp(h) \/ WriteSentinel(h) \/ SyncTemp(h)
      PROVE  RenamesWhole' /\ Whole'
  <2>1. UNCHANGED <<storeVars, damaged>>
    BY <1>7, Zenon DEF MakeTemp, WriteSentinel, SyncTemp
  <2>2. \/ Move(h, "fill") /\ temp' = [temp EXCEPT ![h] = "empty"]
        \/ Move(h, "synctemp") /\ temp' = [temp EXCEPT ![h] = "shown"]
        \/ Move(h, "rename") /\ temp' = [temp EXCEPT ![h] = "disk"]
    BY <1>7, Zenon DEF MakeTemp, WriteSentinel, SyncTemp
  <2> QED
    BY <1>3, <1>4, <2>1, <2>2
<1>8. ASSUME NEW h \in Hosts, Rename(h)
      PROVE  RenamesWhole' /\ Whole'
  <2>1. temp[h] = "disk" /\ temp[h] # "empty"
    BY <1>1, <1>8 DEF Rename, RenamesWhole
  <2>2. /\ temp' = [temp EXCEPT ![h] = "none"] /\ UNCHANGED damaged
        /\ \/ Move(h, "ready") /\ UNCHANGED storeVars
           \/ /\ Move(h, "syncscratch")
              /\ sentinel' = (temp[h] # "empty") /\ sentinelDisk' = (temp[h] = "disk")
    BY <1>8, Zenon DEF Rename
  <2>3. Whole'
    BY <1>4, <2>1, <2>2, Zenon DEF Whole
  <2> QED
    BY <1>3, <2>2, <2>3, Zenon
<1>9. ASSUME NEW h \in Hosts, NEW i \in Inputs, Write(h, i) \/ Lookup(h, i)
      PROVE  RenamesWhole' /\ Whole'
  <2>1. UNCHANGED <<temp, storeVars, damaged>> /\ \E at \in {"check", "read"} : Move(h, at)
    BY <1>9, Zenon DEF Write, Lookup
  <2> QED
    BY <1>2, <1>4, <2>1
<1>10. ASSUME NEW h \in Hosts,
              Check(h) \/ Link(h) \/ Submit(h) \/ Withdraw(h) \/ Remove(h) \/ LookupReads(h)
       PROVE  RenamesWhole' /\ Whole'
  <2>1. /\ UNCHANGED <<temp, dir, sentinel, sentinelDisk, damaged>>
        /\ \E at \in {"link", "ready", "sync", "withdraw", "remove", "resync"} : Move(h, at)
    BY <1>10, Zenon DEF Check, Link, Submit, Withdraw, Remove, LookupReads, Return, storeVars
  <2>2. Whole'
    BY <1>1, <2>1, Zenon DEF Whole
  <2> QED
    BY <1>2, <2>1, <2>2
<1>11. ASSUME NEW h \in Hosts, Sync(h) \/ Resync(h)
       PROVE  RenamesWhole' /\ Whole'
  <2>1. /\ UNCHANGED <<temp, dir, sentinel, damaged>>
        /\ \E at \in {"submit", "ready"} : Move(h, at)
        /\ SyncDir \/ UNCHANGED sentinelDisk
    BY <1>11, Zenon DEF Sync, Resync, Return
  <2>2. CASE SyncDir
    <3>1. sentinelDisk' <=> sentinel
      BY <2>2, Zenon DEF SyncDir
    <3> QED
      BY <1>1, <1>2, <2>1, <3>1, Zenon DEF Whole
  <2>3. CASE UNCHANGED sentinelDisk
    BY <1>1, <1>2, <2>1, <2>3, Zenon DEF Whole
  <2> QED
    BY <2>1, <2>2, <2>3, Zenon
<1>12. ASSUME NEW h \in Hosts, HostCrash(h)
       PROVE  RenamesWhole' /\ Whole'
  <2>1. UNCHANGED <<storeVars, damaged>> /\ Move(h, "closed") /\ temp' = [temp EXCEPT ![h] = "none"]
    BY <1>12, Zenon DEF HostCrash
  <2> QED
    BY <1>3, <1>4, <2>1, Zenon
<1>13. CASE MachineCrash
  <2>1. /\ dir' => dir
        /\ dir' /\ sentinel /\ sentinelDisk => sentinel'
        /\ sentinelDisk' <=> sentinel'
    BY <1>13, Zenon DEF MachineCrash
  <2>2. pc' = [h \in Hosts |-> "closed"]
    BY <1>13, Zenon DEF MachineCrash
  <2>3. damaged' = damaged
    BY <1>13, Zenon DEF MachineCrash
  <2>4. Whole'
    BY <1>1, <2>1, <2>3, Zenon DEF Whole
  <2>5. RenamesWhole'
    BY <2>2 DEF RenamesWhole
  <2> QED
    BY <2>4, <2>5, Zenon
<1>14. CASE Damage
  BY <1>1, <1>14, Zenon DEF Damage, Whole, RenamesWhole
<1> QED
  BY <1>5, <1>6, <1>7, <1>8, <1>9, <1>10, <1>11, <1>12, <1>13, <1>14, Zenon DEF Next, Host

\* No store, no claim, nothing handed over.
LEMMA MarkerInit == Init => MarkerInv
<1> SUFFICES ASSUME Init PROVE MarkerInv
  OBVIOUS
<1>1. Types
  BY MarkersAssumption DEF Init, Types, Claiming, Opens
<1>2. /\ ~dir /\ ~sentinel /\ ~sentinelDisk
      /\ \A h \in Hosts : pc[h] = "closed"
      /\ \A i \in Inputs : gave[i] = 0
  BY DEF Init
<1> QED
  BY <1>1, <1>2 DEF MarkerInv, StoreInv, Synced, Opens

\* Every step keeps it, on a filesystem that makes a synced directory's own entry
\* durable.
LEMMA MarkerStep ==
    ASSUME SyncsParents, MarkerInv, [Next]_vars
    PROVE  MarkerInv'
<1>0. StoreInv /\ StoreInv' /\ Types /\ Types'
  BY StoreStep, Zenon DEF MarkerInv, StoreInv
<1> USE DEF Claiming, Synced, Opens
<1>1. CASE UNCHANGED vars
  BY <1>0, <1>1 DEF vars, storeVars, MarkerInv
<1>2. ASSUME NEW h \in Hosts, Open(h)
      PROVE  MarkerInv'
  BY <1>0, <1>2 DEF Open, Move, storeVars, MarkerInv, Types
<1>3. ASSUME NEW h \in Hosts, MakeTemp(h) \/ WriteSentinel(h) \/ SyncTemp(h)
      PROVE  MarkerInv'
  <2>1. UNCHANGED <<storeVars, want, gave>>
    BY <1>3, Zenon DEF MakeTemp, WriteSentinel, SyncTemp
  <2>2. \E at \in {"fill", "synctemp", "rename"} : Move(h, at)
    BY <1>3, Zenon DEF MakeTemp, WriteSentinel, SyncTemp
  <2> QED
    BY <1>0, <2>1, <2>2 DEF Move, storeVars, MarkerInv, Types
<1>4. ASSUME NEW h \in Hosts, Rename(h)
      PROVE  MarkerInv'
  <2>1. CASE Move(h, "ready") /\ UNCHANGED storeVars /\ dir
    BY <1>0, <1>4, <2>1 DEF Rename, Move, storeVars, MarkerInv, Types
  <2>2. CASE /\ ~(dir /\ (sentinel \/ files # {} \/ damaged))
             /\ dir' = TRUE /\ dirDisk' = FALSE
             /\ Move(h, "syncscratch")
    <3>1. ~dir
      BY <1>0, <2>2, Zenon DEF StoreInv
    <3>2. \A i \in Inputs : ~(gave[i] > 0)
      BY <3>1, Zenon DEF MarkerInv
    <3>3. \A k \in Hosts : pc[k] \in Opens
      BY <3>1, Zenon DEF MarkerInv
    <3>4. \A k \in Hosts : pc'[k] \in Opens
      BY <1>0, <2>2, <3>3 DEF Move, Types
    <3>5. gave' = gave
      BY <1>4, Zenon DEF Rename
    <3>6. \A k \in Hosts : pc'[k] \notin Claiming /\ pc'[k] \notin Synced
      BY <3>4
    <3> QED
      BY <1>0, <2>2, <3>2, <3>5, <3>6, Zenon DEF MarkerInv
  <2> QED
    BY <1>4, <2>1, <2>2, Zenon DEF Rename
<1>5. ASSUME NEW h \in Hosts, SyncScratch(h)
      PROVE  MarkerInv'
  BY <1>0, <1>5 DEF SyncScratch, Move, MarkerInv, Types
<1>6. ASSUME NEW h \in Hosts, NEW i \in Inputs, Write(h, i) \/ Lookup(h, i)
      PROVE  MarkerInv'
  <2>1. UNCHANGED <<storeVars, gave>> /\ want' = [want EXCEPT ![h] = i] /\ sentinel
    BY <1>6, Zenon DEF Write, Lookup
  <2>2. \E at \in {"check", "read"} : Move(h, at)
    BY <1>6, Zenon DEF Write, Lookup
  <2> QED
    BY <1>0, <2>1, <2>2 DEF Move, storeVars, MarkerInv, Types
<1>7. ASSUME NEW h \in Hosts, Check(h)
      PROVE  MarkerInv'
  BY <1>0, <1>7 DEF Check, Return, Move, storeVars, MarkerInv, Types
<1>8. ASSUME NEW h \in Hosts, Link(h)
      PROVE  MarkerInv'
  BY <1>0, <1>8 DEF Link, Return, Move, MarkerInv, Types
<1>9. ASSUME NEW h \in Hosts, Sync(h)
      PROVE  MarkerInv'
  <2>1. CASE SyncDir /\ Move(h, "submit") /\ UNCHANGED want
    <3>1. dirDisk' /\ disk' = files
      BY <2>1, Zenon DEF SyncDir
    <3> QED
      BY <1>0, <1>9, <2>1, <3>1 DEF Sync, Move, MarkerInv, Types
  <2>2. CASE Return(h) /\ UNCHANGED <<dirDisk, sentinelDisk, disk>>
    BY <1>0, <1>9, <2>2 DEF Sync, Return, Move, MarkerInv, Types
  <2> QED
    BY <1>9, <2>1, <2>2, Zenon DEF Sync
<1>10. ASSUME NEW h \in Hosts, Submit(h)
       PROVE  MarkerInv'
  BY <1>0, <1>10 DEF Submit, Return, Move, storeVars, MarkerInv, Types
<1>11. ASSUME NEW h \in Hosts, Withdraw(h)
       PROVE  MarkerInv'
  BY <1>0, <1>11 DEF Withdraw, Return, Move, storeVars, MarkerInv, Types
<1>12. ASSUME NEW h \in Hosts, Remove(h)
       PROVE  MarkerInv'
  BY <1>0, <1>12 DEF Remove, Return, Move, MarkerInv, Types
<1>13. ASSUME NEW h \in Hosts, Resync(h)
       PROVE  MarkerInv'
  <2>1. CASE SyncDir
    <3>1. dirDisk' /\ disk' = files
      BY <2>1, Zenon DEF SyncDir
    <3> QED
      BY <1>0, <1>13, <3>1 DEF Resync, Return, Move, MarkerInv, Types
  <2>2. CASE UNCHANGED <<dirDisk, sentinelDisk, disk>>
    BY <1>0, <1>13, <2>2 DEF Resync, Return, Move, MarkerInv, Types
  <2> QED
    BY <1>13, <2>1, <2>2, Zenon DEF Resync
<1>14. ASSUME NEW h \in Hosts, LookupReads(h) \/ HostCrash(h)
       PROVE  MarkerInv'
  <2>1. /\ UNCHANGED <<storeVars, gave>> /\ want' = [want EXCEPT ![h] = NoInput]
        /\ Move(h, "closed") \/ (Move(h, "ready") /\ pc[h] = "read")
    BY <1>14, Zenon DEF LookupReads, HostCrash, Return
  <2> QED
    BY <1>0, <2>1 DEF Move, storeVars, MarkerInv, Types
<1>15. CASE MachineCrash
  <2>1. /\ dir /\ dirDisk => dir'
        /\ dir' => dir
        /\ dirDisk' = dir'
    BY <1>15, Zenon DEF MachineCrash
  <2>2. sentinel' => sentinel /\ dir'
    BY <1>0, <1>15, Zenon DEF MachineCrash, StoreInv
  <2>3. /\ dir' => files \cap disk \subseteq files'
        /\ disk' = files'
    BY <1>15 DEF MachineCrash
  <2>4. /\ pc' = [h \in Hosts |-> "closed"]
        /\ gave' = gave
    BY <1>15, Zenon DEF MachineCrash
  <2> QED
    BY <1>0, <2>1, <2>2, <2>3, <2>4 DEF MarkerInv
<1>16. CASE Damage
  BY <1>0, <1>16 DEF Damage, MarkerInv, Types
<1> QED
  BY <1>1, <1>2, <1>3, <1>4, <1>5, <1>6, <1>7, <1>8, <1>9, <1>10, <1>11, <1>12,
     <1>13, <1>14, <1>15, <1>16, Zenon DEF Next, Host

LEMMA MarkersInvariant == SyncsParents => (Spec => []MarkerInv)
<1> SUFFICES ASSUME SyncsParents PROVE Spec => []MarkerInv
  OBVIOUS
<1>1. MarkerInv /\ [Next]_vars => MarkerInv'
  BY MarkerStep
<1> QED
  BY MarkerInit, <1>1, PTL DEF Spec

\* "Absence of a marker proves an input never reached its harness only while the
\* store is intact" (Markers): on such a filesystem, whatever crashes, and after any
\* damage that takes the sentinel too.
THEOREM AbsenceIsProof == SyncsParents => (Spec => []AbsenceProves)
<1> SUFFICES ASSUME SyncsParents PROVE Spec => []AbsenceProves
  OBVIOUS
<1>1. MarkerInv => AbsenceProves
  BY DEF MarkerInv, StoreInv, Types, AbsenceProves
<1> QED
  BY <1>1, MarkersInvariant, PTL

\* "another Session's Host opening at the same moment never finds it without its
\* sentinel" (createStore): only damage leaves a store without one, on any
\* filesystem.
THEOREM StoresAreWhole == Spec => []StoreWhole
<1>1. Init => StoreInv
  BY MarkerInit, Zenon DEF MarkerInv
<1>2. StoreInv /\ [Next]_vars => StoreInv'
  BY StoreStep
<1>3. StoreInv => StoreWhole
  BY Zenon DEF StoreInv, StoreWhole
<1> QED
  BY <1>1, <1>2, <1>3, PTL DEF Spec

\* "input ids are unique per agent for all time" (ErrMarked): on a filesystem that
\* makes a synced directory's own entry durable, Send hands no input id over twice
\* unless something else damaged the store.
THEOREM IdsGivenOnce == SyncsParents => (Spec => []GivenOnce)
<1> SUFFICES ASSUME SyncsParents PROVE Spec => []GivenOnce
  OBVIOUS
<1>1. Init => GivenOnce
  BY DEF Init, GivenOnce
<1>2. MarkerInv /\ StoreWhole /\ GivenOnce /\ [Next]_vars => GivenOnce'
  <2> SUFFICES ASSUME MarkerInv, StoreWhole, GivenOnce, [Next]_vars PROVE GivenOnce'
    OBVIOUS
  <2>1. ASSUME NEW h \in Hosts, Submit(h)
        PROVE  GivenOnce'
    BY <2>1 DEF Submit, MarkerInv, StoreInv, Types, GivenOnce, StoreWhole, Claiming, Synced
  <2>2. ASSUME UNCHANGED gave, damaged => damaged'
        PROVE  GivenOnce'
    BY <2>2 DEF GivenOnce
  <2>3. (\E h \in Hosts : Submit(h)) \/ (UNCHANGED gave /\ (damaged => damaged'))
    BY ZenonT(60) DEF Next, Host, vars, Open, MakeTemp, WriteSentinel, SyncTemp, Rename,
       SyncScratch, Write, Check, Link, Sync, Withdraw, Remove, Resync, Lookup,
       LookupReads, HostCrash, MachineCrash, Damage
  <2> QED
    BY <2>1, <2>2, <2>3, Zenon
<1> QED
  BY <1>1, <1>2, MarkersInvariant, StoresAreWhole, PTL DEF Spec

\* "The claim is exclusive across processes" (publishExclusive): on such a
\* filesystem and in such a store, no two Hosts hold the claim of one input.
THEOREM ClaimsAreExclusive == SyncsParents => (Spec => []OneClaimant)
<1> SUFFICES ASSUME SyncsParents PROVE Spec => []OneClaimant
  OBVIOUS
<1>1. ASSUME MarkerInv, StoreWhole, ~damaged, NEW h \in Hosts, NEW k \in Hosts,
             pc[h] \in Claiming, pc[k] \in Claiming, want[h] = want[k]
      PROVE  h = k
  <2>1. pc[h] \notin Opens
    BY <1>1 DEF Claiming, Opens
  <2>2. sentinel
    BY <1>1, <2>1, Zenon DEF MarkerInv, StoreWhole
  <2> QED
    BY <1>1, <2>2, Zenon DEF MarkerInv
<1>2. MarkerInv /\ StoreWhole => OneClaimant
  BY <1>1 DEF OneClaimant, Claiming
<1> QED
  BY <1>2, MarkersInvariant, StoresAreWhole, PTL
=============================================================================
