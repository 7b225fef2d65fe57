-------------------------------- MODULE Markers --------------------------------
(***************************************************************************)
(* pkg/adapter/markers.go: an agent's submission markers, one file per      *)
(* input in a store its Hosts share, written before an input is handed to   *)
(* its harness and withdrawn when it provably was not; with the part of     *)
(* Session.Send that drives them and the Lookup that Recover answers from.  *)
(*                                                                         *)
(* What a directory shows and what of it is on disk differ until it is      *)
(* synced: a crash of the machine may lose or keep each entry in between.   *)
(***************************************************************************)
EXTENDS Integers, FiniteSets

CONSTANTS
    Hosts,          \* Host processes of the agent
    Inputs,         \* input ids
    MaxCrashes,     \* bound on crashes of the machine
    SyncsParents    \* syncing a directory makes its own entry durable too

NoInput == "none"

ASSUME MarkersAssumption ==
    /\ NoInput \notin Inputs
    /\ MaxCrashes \in Nat
    /\ SyncsParents \in BOOLEAN

VARIABLES
    temp,       \* the directory a Host makes beside the store: "none", "empty", or
                \* with storeFile "shown" in it or, once synced, on "disk"
    dir,        \* the store's directory is in scratch
    dirDisk,    \* and its entry is on disk
    sentinel,   \* the directory holds storeFile
    sentinelDisk,   \* and that entry is on disk
    files,      \* inputs with a marker file
    disk,       \* of those files' entries, the ones on disk
    pc,         \* where each Host is
    want,       \* the input it sends or looks up
    crashes,
    damaged,    \* something else took the sentinel and markers, and left an entry
    gave        \* history: times an input was handed to a harness

storeVars == <<dir, dirDisk, sentinel, sentinelDisk, files, disk>>
vars == <<temp, storeVars, pc, want, crashes, damaged, gave>>

\* Where a Host is while it opens the store.
Opens == {"closed", "create", "fill", "synctemp", "rename", "syncscratch"}

TypeOK ==
    /\ temp \in [Hosts -> {"none", "empty", "shown", "disk"}]
    /\ {dir, dirDisk, sentinel, sentinelDisk} \subseteq BOOLEAN
    /\ files \subseteq Inputs /\ disk \subseteq Inputs
    /\ (files # {} \/ sentinel) => dir
    /\ pc \in [Hosts -> Opens \cup {"ready", "check", "link", "sync", "submit",
                                    "withdraw", "remove", "resync", "read"}]
    /\ want \in [Hosts -> Inputs \cup {NoInput}]
    /\ \A h \in Hosts : want[h] # NoInput <=>
          pc[h] \notin Opens \cup {"ready"}
    /\ crashes \in 0 .. MaxCrashes
    /\ damaged \in BOOLEAN
    /\ gave \in [Inputs -> Nat]

Move(h, at) == pc' = [pc EXCEPT ![h] = at]

\* The call returns.
Return(h) ==
    /\ Move(h, "ready")
    /\ want' = [want EXCEPT ![h] = NoInput]

-----------------------------------------------------------------------------
(* OpenMarkers and createStore.                                            *)

Open(h) ==
    /\ pc[h] = "closed"
    /\ Move(h, IF dir THEN "ready" ELSE "create")
    /\ UNCHANGED <<temp, storeVars, want, crashes, damaged, gave>>

\* MkdirTemp, under a name no other Host has.
MakeTemp(h) ==
    /\ pc[h] = "create"
    /\ temp' = [temp EXCEPT ![h] = "empty"]
    /\ Move(h, "fill")
    /\ UNCHANGED <<storeVars, want, crashes, damaged, gave>>

\* writeSynced: the file is on disk, its entry in the directory not yet.
WriteSentinel(h) ==
    /\ pc[h] = "fill"
    /\ temp' = [temp EXCEPT ![h] = "shown"]
    /\ Move(h, "synctemp")
    /\ UNCHANGED <<storeVars, want, crashes, damaged, gave>>

\* Mutant: the new directory is renamed before it is synced.
SyncTempSkipped(h) ==
    /\ pc[h] = "synctemp"
    /\ Move(h, "rename")
    /\ UNCHANGED <<temp, storeVars, want, crashes, damaged, gave>>

SyncTemp(h) ==
    /\ pc[h] = "synctemp"
    /\ temp' = [temp EXCEPT ![h] = "disk"]
    /\ Move(h, "rename")
    /\ UNCHANGED <<storeVars, want, crashes, damaged, gave>>

\* rename(2) replaces no directory with entries: a store that is there first is
\* kept, and this Host's directory removed.
Rename(h) ==
    /\ pc[h] = "rename"
    /\ temp' = [temp EXCEPT ![h] = "none"]
    /\ IF dir /\ (sentinel \/ files # {} \/ damaged)
       THEN /\ Move(h, "ready")
            /\ UNCHANGED storeVars
       ELSE /\ dir' = TRUE
            /\ dirDisk' = FALSE
            /\ sentinel' = (temp[h] # "empty")
            /\ sentinelDisk' = (temp[h] = "disk")
            /\ files' = {} /\ disk' = {}
            /\ Move(h, "syncscratch")
    /\ UNCHANGED <<want, crashes, damaged, gave>>

SyncScratch(h) ==
    /\ pc[h] = "syncscratch"
    /\ dirDisk' = dir
    /\ Move(h, "ready")
    /\ UNCHANGED <<temp, dir, sentinel, sentinelDisk, files, disk, want, crashes, damaged, gave>>

-----------------------------------------------------------------------------
(* Send: Write, Submit, and Withdraw when nothing reached the harness.     *)

\* intact: the store is the one markers were written to.
Write(h, i) ==
    /\ pc[h] = "ready"
    /\ sentinel
    /\ want' = [want EXCEPT ![h] = i]
    /\ Move(h, "check")
    /\ UNCHANGED <<temp, storeVars, crashes, damaged, gave>>

Check(h) ==
    /\ pc[h] = "check"
    /\ \/ want[h] \in files /\ Return(h)
       \/ want[h] \notin files /\ Move(h, "link") /\ UNCHANGED want
    /\ UNCHANGED <<temp, storeVars, crashes, damaged, gave>>

\* Mutant: renamed into place, over another Host's marker.
LinkReplaces(h) ==
    /\ pc[h] = "link"
    /\ dir
    /\ files' = files \cup {want[h]}
    /\ Move(h, "sync")
    /\ UNCHANGED <<temp, dir, dirDisk, sentinel, sentinelDisk, disk, want, crashes, damaged, gave>>

\* publishExclusive: the name is taken, by link or not at all.
Link(h) ==
    /\ pc[h] = "link"
    /\ \/ /\ dir /\ want[h] \notin files
          /\ files' = files \cup {want[h]}
          /\ Move(h, "sync")
          /\ UNCHANGED want
       \/ /\ ~dir \/ want[h] \in files
          /\ Return(h)
          /\ UNCHANGED files
    /\ UNCHANGED <<temp, dir, dirDisk, sentinel, sentinelDisk, disk, crashes, damaged, gave>>

\* Mutant: the marker is left to the filesystem.
SyncDirSkipped ==
    UNCHANGED <<dirDisk, sentinelDisk, disk>>

\* syncDir of the store.
SyncDir ==
    /\ disk' = files
    /\ sentinelDisk' = sentinel
    /\ dirDisk' = (dirDisk \/ SyncsParents)

\* A failed sync is an error, and nothing is submitted; the marker may stay.
Sync(h) ==
    /\ pc[h] = "sync"
    /\ \/ /\ SyncDir
          /\ Move(h, "submit")
          /\ UNCHANGED want
       \/ /\ Return(h)
          /\ UNCHANGED <<dirDisk, sentinelDisk, disk>>
    /\ UNCHANGED <<temp, dir, sentinel, files, crashes, damaged, gave>>

\* The input reaches the harness, or certainly does not.
Submit(h) ==
    /\ pc[h] = "submit"
    /\ \/ /\ gave' = [gave EXCEPT ![want[h]] = @ + 1]
          /\ Return(h)
       \/ /\ Move(h, "withdraw")
          /\ UNCHANGED <<want, gave>>
    /\ UNCHANGED <<temp, storeVars, crashes, damaged>>

\* Mutant: the input is forgotten with the send.
RemoveForgets(h) ==
    /\ pc[h] = "remove"
    /\ files' = files \ {want[h]}
    /\ Move(h, "resync")
    /\ want' = [want EXCEPT ![h] = NoInput]
    /\ UNCHANGED <<temp, dir, dirDisk, sentinel, sentinelDisk, disk, crashes, damaged, gave>>

\* Withdraw: nothing is removed from a store that is not intact.
Withdraw(h) ==
    /\ pc[h] = "withdraw"
    /\ \/ sentinel /\ Move(h, "remove") /\ UNCHANGED want
       \/ ~sentinel /\ Return(h)
    /\ UNCHANGED <<temp, storeVars, crashes, damaged, gave>>

\* A marker that is not there is nothing to remove.
Remove(h) ==
    /\ pc[h] = "remove"
    /\ \/ /\ want[h] \in files
          /\ files' = files \ {want[h]}
          /\ Move(h, "resync")
          /\ UNCHANGED want
       \/ /\ want[h] \notin files
          /\ Return(h)
          /\ UNCHANGED files
    /\ UNCHANGED <<temp, dir, dirDisk, sentinel, sentinelDisk, disk, crashes, damaged, gave>>

Resync(h) ==
    /\ pc[h] = "resync"
    /\ SyncDir \/ UNCHANGED <<dirDisk, sentinelDisk, disk>>
    /\ Return(h)
    /\ UNCHANGED <<temp, dir, sentinel, files, crashes, damaged, gave>>

\* Lookup answers from the store it found intact: first the sentinel ...
Lookup(h, i) ==
    /\ pc[h] = "ready"
    /\ sentinel
    /\ want' = [want EXCEPT ![h] = i]
    /\ Move(h, "read")
    /\ UNCHANGED <<temp, storeVars, crashes, damaged, gave>>

\* ... and then the marker.
LookupReads(h) ==
    /\ pc[h] = "read"
    /\ Return(h)
    /\ UNCHANGED <<temp, storeVars, crashes, damaged, gave>>

-----------------------------------------------------------------------------
(* What goes wrong.                                                        *)

\* A Host dies; an OpenMarkers that fails leaves the store as a death would.
HostCrash(h) ==
    /\ pc[h] # "closed"
    /\ Move(h, "closed")
    /\ temp' = [temp EXCEPT ![h] = "none"]
    /\ want' = [want EXCEPT ![h] = NoInput]
    /\ UNCHANGED <<storeVars, crashes, damaged, gave>>

\* Every process ends.  An entry that is on disk as it was shown stays; of the
\* others each is as it was shown or as it is on disk.
MachineCrash ==
    /\ crashes < MaxCrashes
    /\ crashes' = crashes + 1
    /\ dir' \in {dir, dir /\ dirDisk}
    /\ sentinel' \in {dir' /\ sentinel, dir' /\ sentinelDisk}
    /\ \E kept \in SUBSET ((files \cup disk) \ (files \cap disk)) :
          files' = IF dir' THEN (files \cap disk) \cup kept ELSE {}
    /\ dirDisk' = dir'
    /\ sentinelDisk' = sentinel'
    /\ disk' = files'
    /\ temp' = [h \in Hosts |-> "none"]
    /\ pc' = [h \in Hosts |-> "closed"]
    /\ want' = [h \in Hosts |-> NoInput]
    /\ UNCHANGED <<damaged, gave>>

\* Markers and the sentinel are lost, in an order that takes the sentinel first,
\* but not the directory: something is left in it.
Damage ==
    /\ sentinel
    /\ sentinel' = FALSE
    /\ sentinelDisk' = FALSE
    /\ damaged' = TRUE
    /\ files' \in SUBSET files
    /\ disk' = files'
    /\ UNCHANGED <<temp, dir, dirDisk, pc, want, crashes, gave>>

-----------------------------------------------------------------------------
Init ==
    /\ temp = [h \in Hosts |-> "none"]
    /\ dir = FALSE /\ dirDisk = FALSE /\ sentinel = FALSE /\ sentinelDisk = FALSE
    /\ files = {} /\ disk = {}
    /\ pc = [h \in Hosts |-> "closed"]
    /\ want = [h \in Hosts |-> NoInput]
    /\ crashes = 0
    /\ damaged = FALSE
    /\ gave = [i \in Inputs |-> 0]

Host(h) ==
    \/ Open(h) \/ MakeTemp(h) \/ WriteSentinel(h) \/ SyncTemp(h)
    \/ Rename(h) \/ SyncScratch(h)
    \/ \E i \in Inputs : Write(h, i) \/ Lookup(h, i)
    \/ Check(h) \/ Link(h) \/ Sync(h) \/ Submit(h)
    \/ Withdraw(h) \/ Remove(h) \/ Resync(h) \/ LookupReads(h)

Next ==
    \/ \E h \in Hosts : Host(h) \/ HostCrash(h)
    \/ MachineCrash \/ Damage

Spec == Init /\ [][Next]_vars

-----------------------------------------------------------------------------
(* What the store promises.                                                *)

\* "Absence of a marker proves an input never reached its harness only while the
\* store is intact": whatever crashed, and whichever Host sent it, a Lookup that is
\* about to find no marker in a store that is still intact is right.
AbsenceProves ==
    \A h \in Hosts :
        pc[h] = "read" /\ sentinel /\ want[h] \notin files => gave[want[h]] = 0

\* "input ids are unique per agent for all time": with any number of Hosts sending
\* an id, and after withdrawals and crashes, it reaches a harness once, as long as
\* nothing else damaged the store.
GivenOnce == ~damaged => \A i \in Inputs : gave[i] <= 1

\* "The claim is exclusive across processes": one Host at a time has the marker of
\* an input and has yet to hand the input over or withdraw it.
OneClaimant ==
    ~damaged => \A h, k \in Hosts :
        /\ {pc[h], pc[k]} \subseteq {"sync", "submit", "withdraw", "remove"}
        /\ want[h] = want[k]
        => h = k

\* "another Session's Host opening at the same moment never finds it without its
\* sentinel", though it is made in several steps and the machine may crash after any
\* of them: only damage leaves a store without one.
StoreWhole == dir /\ ~damaged => sentinel
=============================================================================
