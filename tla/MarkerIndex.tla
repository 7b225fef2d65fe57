----------------------------- MODULE MarkerIndex -----------------------------
(***************************************************************************)
(* pkg/adapter/markers.go: the index by native id.  A Reader asks it about  *)
(* every user entry of a record; a miss reads the store again only when the *)
(* directory's mtime says it may have changed.  The mtime comes from a       *)
(* clock with ticks of Grain, coarser than the one the reader goes by.       *)
(*                                                                         *)
(* Another Host publishes markers by link, or where the filesystem has no    *)
(* links by creating the file and then writing it.                          *)
(***************************************************************************)
EXTENDS Integers, FiniteSets

CONSTANTS
    InputIds,   \* inputs, each with a native id of its own
    Own,        \* the ones this process writes
    Grain,      \* ticks of the filesystem's clock
    Slack,      \* markerScanSlack
    MaxTime     \* bound on the clock

VARIABLES
    links,      \* the filesystem has hard links
    now,
    mtime,      \* of the store's directory
    file,       \* how far each marker is: no file, a temp beside it, ...
    pc,         \* where the reader's lookup is
    want,       \* the input whose native id it asks for
    owed,       \* history: its marker's Write returned before the lookup began
    blind,      \* history: the last scan could not read something
    loaded, byNative, scannedMod, scannedAt,
    left        \* of the scan, files listed and not yet read

fileVars == <<now, mtime, file>>
scanVars == <<loaded, byNative, scannedMod, scannedAt, left, blind>>
vars == <<links, fileVars, pc, want, owed, scanVars>>

NoInput == "none"
Never == -1     \* time.Time{}

TypeOK ==
    /\ links \in BOOLEAN
    /\ now \in 0 .. MaxTime /\ mtime \in 0 .. MaxTime
    /\ file \in [InputIds -> {"none", "temp", "partial", "whole", "done"}]
    /\ pc \in {"idle", "stat", "list", "read", "found", "missed"}
    /\ want \in InputIds \cup {NoInput}
    /\ {owed, loaded, blind} \subseteq BOOLEAN
    /\ byNative \subseteq InputIds /\ left \subseteq InputIds
    /\ scannedMod \in Never .. MaxTime /\ scannedAt \in Never .. MaxTime
    /\ left # {} => pc = "read"
    /\ loaded <=> scannedAt # Never

Tick ==
    /\ now < MaxTime
    /\ now' = now + 1
    /\ UNCHANGED <<links, mtime, file, pc, want, owed, scanVars>>

\* An entry of the directory is added or removed.
Touch == mtime' = now - (now % Grain)

-----------------------------------------------------------------------------
(* Another Host's Write and Withdraw.                                       *)

\* writeSynced of the temp file.
Prepare(i) ==
    /\ file[i] = "none"
    /\ file' = [file EXCEPT ![i] = "temp"]
    /\ Touch
    /\ UNCHANGED <<links, now, pc, want, owed, scanVars>>

\* os.Link, or O_EXCL on the name itself.
Publish(i) ==
    /\ file[i] = "temp"
    /\ file' = [file EXCEPT ![i] = IF links THEN "whole" ELSE "partial"]
    /\ Touch
    /\ UNCHANGED <<links, now, pc, want, owed, scanVars>>

\* The data, which moves no mtime of the directory.
Fill(i) ==
    /\ file[i] = "partial"
    /\ file' = [file EXCEPT ![i] = "whole"]
    /\ UNCHANGED <<links, now, mtime, pc, want, owed, scanVars>>

\* The temp file is removed once the marker is whole, and Write returns.
Unlink(i) ==
    /\ file[i] = "whole"
    /\ file' = [file EXCEPT ![i] = "done"]
    /\ Touch
    /\ UNCHANGED <<links, now, pc, want, owed, scanVars>>

Withdraw(i) ==
    /\ file[i] = "done"
    /\ file' = [file EXCEPT ![i] = "none"]
    /\ Touch
    /\ owed' = (owed /\ want # i)
    /\ UNCHANGED <<links, now, pc, want, scanVars>>

\* This process's own Write and Withdraw, under m.mu as its lookups are.
WriteOwn(i) ==
    /\ pc = "idle"
    /\ file[i] = "none"
    /\ file' = [file EXCEPT ![i] = "done"]
    /\ Touch
    /\ byNative' = IF loaded THEN byNative \cup {i} ELSE byNative
    /\ UNCHANGED <<links, now, pc, want, owed, loaded, scannedMod, scannedAt, left, blind>>

WithdrawOwn(i) ==
    /\ pc = "idle"
    /\ file[i] = "done"
    /\ file' = [file EXCEPT ![i] = "none"]
    /\ Touch
    /\ byNative' = IF loaded THEN byNative \ {i} ELSE byNative
    /\ UNCHANGED <<links, now, pc, want, owed, loaded, scannedMod, scannedAt, left, blind>>

-----------------------------------------------------------------------------
(* ByNative.                                                                *)

\* Mutant: only a moved mtime makes a scan stale.
staleMoved == ~loaded \/ mtime # scannedMod

\* staleLocked; a directory that cannot be stat'ed is stale too.
stale == ~loaded \/ mtime # scannedMod \/ scannedAt - scannedMod < Slack

\* The lookup begins, and looks at the index; a miss scans a stale store.
ByNative(i) ==
    /\ pc = "idle"
    /\ want' = i
    /\ owed' = (file[i] = "done")
    /\ \/ /\ i \in byNative
          /\ pc' = "found"
          /\ UNCHANGED <<loaded, scannedMod, scannedAt>>
       \/ /\ i \notin byNative /\ ~stale
          /\ pc' = "missed"
          /\ UNCHANGED <<loaded, scannedMod, scannedAt>>
       \/ /\ i \notin byNative /\ stale
          /\ loaded' = TRUE
          /\ scannedAt' = now
          /\ scannedMod' = Never
          /\ pc' = "stat"
    /\ UNCHANGED <<links, fileVars, byNative, left, blind>>

\* loadLocked: the mtime before the listing.  A failed stat records none.
Stat ==
    /\ pc = "stat"
    /\ pc' = "list"
    /\ scannedMod' \in {mtime, Never}
    /\ UNCHANGED <<links, fileVars, want, owed, loaded, byNative, scannedAt, left, blind>>

Conclude == IF want \in byNative' THEN "found" ELSE "missed"

List ==
    /\ pc = "list"
    /\ \/ /\ left' = {i \in InputIds : file[i] \notin {"none", "temp"}}
          /\ blind' = FALSE
       \/ left' = {} /\ blind' = TRUE
    /\ UNCHANGED byNative
    /\ pc' = IF left' = {} THEN Conclude ELSE "read"
    /\ UNCHANGED <<links, fileVars, want, owed, loaded, scannedMod, scannedAt>>

\* A marker that cannot be read, or is not whole, is skipped.
Read(i) ==
    /\ pc = "read"
    /\ i \in left
    /\ left' = left \ {i}
    /\ \/ /\ byNative' = IF file[i] \in {"whole", "done"} THEN byNative \cup {i} ELSE byNative
          /\ UNCHANGED blind
       \/ UNCHANGED byNative /\ blind' = TRUE
    /\ pc' = IF left' = {} THEN Conclude ELSE "read"
    /\ UNCHANGED <<links, fileVars, want, owed, loaded, scannedMod, scannedAt>>

Return ==
    /\ pc \in {"found", "missed"}
    /\ pc' = "idle"
    /\ want' = NoInput
    /\ owed' = FALSE
    /\ UNCHANGED <<links, fileVars, scanVars>>

-----------------------------------------------------------------------------
Init ==
    /\ links \in BOOLEAN
    /\ now = 0 /\ mtime = 0
    /\ file = [i \in InputIds |-> "none"]
    /\ pc = "idle" /\ want = NoInput /\ owed = FALSE
    /\ loaded = FALSE /\ byNative = {} /\ blind = FALSE
    /\ scannedMod = Never /\ scannedAt = Never
    /\ left = {}

Next ==
    \/ Tick
    \/ \E i \in InputIds \ Own : Prepare(i) \/ Publish(i) \/ Fill(i) \/ Unlink(i) \/ Withdraw(i)
    \/ \E i \in Own : WriteOwn(i) \/ WithdrawOwn(i)
    \/ \E i \in InputIds : ByNative(i) \/ Read(i)
    \/ Stat \/ List \/ Return

Spec == Init /\ [][Next]_vars

-----------------------------------------------------------------------------
\* "one written by another is found once the store is read again, which a miss does
\* when the store directory changed": a lookup begun after a marker's Write returned
\* finds it, however the clock's ticks and the publisher's steps fall around earlier
\* scans, unless the last scan failed to read something.
MissIsTrue == pc = "missed" /\ owed => blind
=============================================================================
