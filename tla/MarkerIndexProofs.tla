--------------------------- MODULE MarkerIndexProofs ---------------------------
(***************************************************************************)
(* MarkerIndex for any inputs, any clock bound and any tick of the           *)
(* filesystem's clock no longer than the slack: a lookup misses no marker    *)
(* whose Write had returned, unless the last scan failed to read something.  *)
(*                                                                         *)
(* IndexInv says why a miss without a scan is right.  A scan is settled when *)
(* it began Slack or more after the mtime it recorded, and the mtime is      *)
(* still that one; Touch always unsettles it, because an entry that changes  *)
(* after the scan began is given an mtime less than a tick old.  So a        *)
(* settled scan has every marker whose Write returned.                       *)
(***************************************************************************)
EXTENDS MarkerIndex, TLAPS

IndexTypes ==
    /\ now \in Nat /\ mtime \in Nat
    /\ file \in [InputIds -> {"none", "temp", "partial", "whole", "done"}]
    /\ pc \in {"idle", "stat", "list", "read", "found", "missed"}
    /\ pc # "idle" => want \in InputIds
    /\ owed \in BOOLEAN /\ blind \in BOOLEAN /\ loaded \in BOOLEAN
    /\ byNative \subseteq InputIds /\ left \subseteq InputIds
    /\ scannedMod \in Int /\ scannedAt \in Int

Settled == mtime = scannedMod /\ scannedAt - scannedMod >= Slack

IndexInv ==
    /\ IndexTypes
    /\ mtime <= now /\ scannedAt <= now
    /\ pc = "idle" => ~owed
    /\ pc = "stat" => scannedMod = Never
    /\ owed => file[want] = "done"
    /\ pc \in {"idle", "found", "missed"} /\ loaded /\ ~blind /\ Settled =>
          \A i \in InputIds : file[i] = "done" => i \in byNative
    /\ pc = "read" /\ ~blind /\ Settled =>
          \A i \in InputIds : file[i] = "done" => i \in left \cup byNative
    /\ pc = "read" /\ ~blind /\ owed => want \in left \cup byNative
    /\ MissIsTrue

\* A tick of the filesystem's clock is at least one and at most the slack the code
\* allows for it, and what this process writes are inputs.
IndexAssumptions ==
    /\ Grain \in Nat \ {0} /\ Slack \in Nat /\ Slack >= Grain
    /\ MaxTime \in Nat
    /\ Own \subseteq InputIds

-----------------------------------------------------------------------------
\* A change of the directory unsettles every scan begun before it.
LEMMA TouchUnsettles ==
    ASSUME IndexAssumptions, IndexInv, Touch, UNCHANGED <<now, scannedMod, scannedAt>>
    PROVE  /\ mtime' \in Nat /\ mtime' <= now
           /\ ~Settled'
<1> DEFINE r == now % Grain
<1>1. now \in Nat /\ Grain \in Nat \ {0}
  BY DEF IndexInv, IndexTypes, IndexAssumptions
<1>2. r \in Nat /\ r < Grain /\ r <= now
  BY <1>1
<1>3. mtime' = now - r
  BY DEF Touch
<1> HIDE DEF r
<1>4. mtime' \in Nat /\ mtime' <= now /\ mtime' > now - Grain
  BY <1>1, <1>2, <1>3
<1> QED
  BY <1>1, <1>4 DEF Settled, IndexInv, IndexTypes, IndexAssumptions

\* No scan, no lookup.
LEMMA IndexInit == ASSUME IndexAssumptions, Init PROVE IndexInv
<1>1. now = 0 /\ mtime = 0 /\ scannedMod = -1 /\ scannedAt = -1
  BY DEF Init, Never
<1>2. pc = "idle" /\ ~owed /\ ~loaded
  BY DEF Init
<1>3. owed \in BOOLEAN /\ blind \in BOOLEAN /\ loaded \in BOOLEAN
  BY DEF Init
<1>4. /\ file \in [InputIds -> {"none", "temp", "partial", "whole", "done"}]
      /\ byNative \subseteq InputIds /\ left \subseteq InputIds
  BY DEF Init
<1> QED
  BY <1>1, <1>2, <1>3, <1>4 DEF IndexInv, IndexTypes, MissIsTrue

\* Every step keeps it.
LEMMA IndexStep ==
    ASSUME IndexAssumptions, IndexInv, [Next]_vars
    PROVE  IndexInv'
<1> USE DEF IndexInv, IndexTypes, IndexAssumptions, MissIsTrue, Settled
<1>1. CASE UNCHANGED vars
  BY <1>1 DEF vars, fileVars, scanVars
<1>2. CASE Tick
  BY <1>2 DEF Tick, scanVars
<1>3. ASSUME NEW i \in InputIds \ Own, Prepare(i) PROVE IndexInv'
  BY <1>3, TouchUnsettles DEF Prepare, scanVars
<1>4. ASSUME NEW i \in InputIds \ Own, Publish(i) PROVE IndexInv'
  BY <1>4, TouchUnsettles DEF Publish, scanVars
<1>5. ASSUME NEW i \in InputIds \ Own, Fill(i) PROVE IndexInv'
  BY <1>5 DEF Fill, scanVars
<1>6. ASSUME NEW i \in InputIds \ Own, Unlink(i) PROVE IndexInv'
  BY <1>6, TouchUnsettles DEF Unlink, scanVars
<1>7. ASSUME NEW i \in InputIds \ Own, Withdraw(i) PROVE IndexInv'
  BY <1>7, TouchUnsettles DEF Withdraw, scanVars
<1>8. ASSUME NEW i \in Own, WriteOwn(i) PROVE IndexInv'
  BY <1>8, TouchUnsettles DEF WriteOwn
<1>9. ASSUME NEW i \in Own, WithdrawOwn(i) PROVE IndexInv'
  BY <1>9, TouchUnsettles DEF WithdrawOwn
<1>10. ASSUME NEW i \in InputIds, ByNative(i) PROVE IndexInv'
  <2>0. /\ UNCHANGED <<now, mtime, file, byNative, left, blind>>
        /\ pc = "idle" /\ want' = i /\ owed' = (file[i] = "done")
    BY <1>10 DEF ByNative, fileVars
  <2>1. CASE pc' = "found" /\ UNCHANGED <<loaded, scannedMod, scannedAt>>
    BY <2>0, <2>1
  <2>2. CASE /\ i \notin byNative /\ ~stale
             /\ pc' = "missed" /\ UNCHANGED <<loaded, scannedMod, scannedAt>>
    <3>1. loaded /\ Settled
      BY <2>2 DEF stale
    <3>2. ~blind => file[i] # "done"
      BY <2>0, <2>2, <3>1
    <3> QED
      BY <2>0, <2>2, <3>2
  <2>3. CASE loaded' = TRUE /\ scannedAt' = now /\ scannedMod' = Never /\ pc' = "stat"
    BY <2>0, <2>3 DEF Never
  <2> QED
    BY <1>10, <2>1, <2>2, <2>3 DEF ByNative
<1>11. CASE Stat
  BY <1>11 DEF Stat, fileVars, Never
<1>12. CASE List
  BY <1>12 DEF List, Conclude, fileVars
<1>13. ASSUME NEW i \in InputIds, Read(i) PROVE IndexInv'
  <2>0. /\ UNCHANGED <<now, mtime, file, want, owed, loaded, scannedMod, scannedAt>>
        /\ pc = "read" /\ i \in left /\ left' = left \ {i}
        /\ pc' = IF left' = {} THEN IF want \in byNative' THEN "found" ELSE "missed" ELSE "read"
    BY <1>13 DEF Read, Conclude, fileVars
  <2>1. CASE /\ byNative' = IF file[i] \in {"whole", "done"} THEN byNative \cup {i} ELSE byNative
             /\ UNCHANGED blind
    <3>1. ASSUME NEW j \in left \cup byNative, file[j] = "done" PROVE j \in left' \cup byNative'
      BY <2>0, <2>1, <3>1
    <3>2. pc' # "read" => left' = {}
      BY <2>0
    <3>3. pc' = "missed" => want \notin byNative' /\ left' = {}
      BY <2>0
    <3> QED
      BY <2>0, <2>1, <3>1, <3>2, <3>3
  <2>2. CASE UNCHANGED byNative /\ blind' = TRUE
    BY <2>0, <2>2
  <2> QED
    BY <1>13, <2>1, <2>2 DEF Read
<1>14. CASE Return
  BY <1>14 DEF Return, fileVars, scanVars
<1> QED
  BY <1>1, <1>2, <1>3, <1>4, <1>5, <1>6, <1>7, <1>8, <1>9, <1>10, <1>11, <1>12, <1>13, <1>14 DEF Next

\* ByNative: with a slack no shorter than the filesystem's tick, a lookup begun after
\* a marker's Write returned finds it, or the last scan failed to read something.
THEOREM MissIsTrueAlways ==
    ASSUME IndexAssumptions
    PROVE  Spec => []MissIsTrue
<1>1. Init => IndexInv
  BY IndexInit
<1>2. IndexInv /\ [Next]_vars => IndexInv'
  BY IndexStep
<1>3. IndexInv => MissIsTrue
  BY DEF IndexInv
<1> QED
  BY <1>1, <1>2, <1>3, PTL DEF Spec
=============================================================================
