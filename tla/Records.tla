------------------------------ MODULE Records -------------------------------
(***************************************************************************)
(* Two readers of a file a harness writes while it is read: the transcript *)
(* follower, and the reader of a codex rollout.  They are two machines, each with*)
(* its variables.                                                          *)
(***************************************************************************)
EXTENDS Integers, Sequences, FiniteSets, SequencesExt

-----------------------------------------------------------------------------
(* The transcript follower (pkg/transcript/follower.go): it reads the      *)
(* complete records after its checkpoint, a batch at a time, and moves     *)
(* only once the caller says the batch is stored.  Before it reads it      *)
(* checks that the file still extends the checkpoint by its inode, its     *)
(* size and two windows of what it read, and starts a new generation when  *)
(* it does not.  The harness (external) appends, may truncate the file and *)
(* write it again or replace it, at any moment of a Poll; the caller       *)
(* (external) stores a batch with its checkpoint, and may die anywhere.    *)

CONSTANTS Settings,        \* [inodes, native, damage, crash]: BOOLEAN each
          MaxRecords, MaxDamage, MaxCrashes,
          Window,          \* checkpointWindow, in records
          MaxBatch         \* MaxBatchBytes, in records

VARIABLES setting, files, cur, record, damage,   \* the files by inode, the one at the path, the next record
          cp, poll, batch,                       \* Follower.cp, a Poll under way, the batch it returned
          db, gens, crashes,                     \* what the caller stored, generations minted
          torn                                   \* the file was damaged between a Poll's check and its read

followExt == <<files, cur, record, damage>>
followVars == <<setting, followExt, cp, poll, batch, db, gens, crashes, torn>>

Inodes == 1..(MaxDamage + 1)
File == files[cur]
Ending(s, n) == SubSeq(s, Len(s) - n + 1, Len(s))
\* A Checkpoint; covered is the records it stands for, of which the code
\* keeps the count (Offset) and the hashes of the two windows.
Checkpoint(gen) == [gen |-> gen, inode |-> 0, covered |-> <<>>, seq |-> 0]
HeadWindow(c) == SubSeq(c.covered, 1, Min({Len(c.covered), Window}))
TailWindow(c) == Ending(c.covered, Min({Len(c.covered), Window}))
NoPoll == [phase |-> "idle", inode |-> 0, size |-> 0]
NoBatch == [ready |-> FALSE, stored |-> FALSE, from |-> Checkpoint(0), events |-> <<>>, next |-> Checkpoint(0)]

FollowInit ==
    /\ setting \in Settings /\ files = [i \in Inodes |-> <<>>] /\ cur = 1 /\ record = 1 /\ damage = 0
    /\ cp = Checkpoint(1) /\ poll = NoPoll /\ batch = NoBatch
    /\ db = [events |-> {}, cp |-> Checkpoint(0)] /\ gens = 1 /\ crashes = 0 /\ torn = FALSE

-----------------------------------------------------------------------------
\* The harness.
Append1 ==
    /\ record <= MaxRecords /\ files' = [files EXCEPT ![cur] = Append(@, record)] /\ record' = record + 1
    /\ UNCHANGED <<setting, cur, damage, cp, poll, batch, db, gens, crashes, torn>>
Damages == damage' = damage + 1 /\ setting.damage /\ damage < MaxDamage /\ torn' = (torn \/ poll.phase = "verified")
Truncate ==
    /\ Damages /\ \E k \in 0..(Len(File) - 1) : files' = [files EXCEPT ![cur] = SubSeq(@, 1, k)]
    /\ UNCHANGED <<setting, cur, record, cp, poll, batch, db, gens, crashes>>
Replace ==
    /\ Damages /\ Len(File) > 0 /\ cur' = cur + 1
    /\ UNCHANGED <<setting, files, record, cp, poll, batch, db, gens, crashes>>

-----------------------------------------------------------------------------
\* Poll: open and stat, verify, then read what was there at the stat.
Caller == <<setting, followExt, db, crashes, torn>>
PollOpens ==
    /\ poll.phase = "idle" /\ ~batch.stored /\ poll' = [phase |-> "open", inode |-> cur, size |-> Len(File)]
    /\ UNCHANGED <<Caller, cp, batch, gens>>
WindowsHead(c, f) == SubSeq(f, 1, Len(HeadWindow(c))) = HeadWindow(c)
Windows(c, f) ==
    /\ SubSeq(f, 1, Len(HeadWindow(c))) = HeadWindow(c)
    /\ SubSeq(f, Len(c.covered) - Len(TailWindow(c)) + 1, Len(c.covered)) = TailWindow(c)
Verified(c, f) ==
    \/ c.covered = <<>>
    \/ /\ setting.inodes => c.inode \in {0, poll.inode}
       /\ poll.size >= Len(c.covered) /\ Len(f) >= Len(c.covered)
       /\ Windows(c, f)
PollVerifies ==
    /\ poll.phase = "open" /\ UNCHANGED <<Caller, batch>>
    /\ \/ Verified(cp, files[poll.inode]) /\ poll' = [poll EXCEPT !.phase = "verified"] /\ UNCHANGED <<cp, gens>>
       \/ /\ ~Verified(cp, files[poll.inode]) /\ poll' = [poll EXCEPT !.phase = "reset"]     \* ResetError
          /\ cp' = Checkpoint(gens + 1) /\ gens' = gens + 1
NextCheckpointShort(data) == [cp EXCEPT !.covered = IF Len(data) > 1 THEN @ \o Tail(data) ELSE @ \o data, !.seq = @ + Len(data), !.inode = poll.inode]
NextCheckpoint(data) == [cp EXCEPT !.covered = @ \o data, !.seq = @ + Len(data), !.inode = poll.inode]
\* followerID: the record's own id, or its place in the generation.
Identity(r, at) == IF setting.native THEN <<r>> ELSE <<cp.gen, at>>
PollReads ==
    /\ poll.phase = "verified" /\ poll' = NoPoll /\ UNCHANGED <<Caller, cp, gens>>
    /\ LET at == Len(cp.covered)
           f == files[poll.inode]
           data == SubSeq(f, at + 1, Min({Len(f), poll.size, at + MaxBatch}))
       IN  batch' = IF data = <<>> THEN NoBatch
                    ELSE [ready |-> TRUE, stored |-> FALSE, from |-> cp, next |-> NextCheckpoint(data),
                          events |-> [i \in DOMAIN data |-> [id |-> Identity(data[i], at + i), rec |-> data[i], seq |-> cp.seq + i - 1]]]

-----------------------------------------------------------------------------
\* The caller, on the Follower's one goroutine: a batch's events and checkpoint in one transaction, one event
\* an identity; a reset's checkpoint too; then Ack.
Store ==
    /\ poll.phase = "idle" /\ batch.ready /\ ~batch.stored /\ batch' = [batch EXCEPT !.stored = TRUE]
    /\ db' = [cp |-> batch.next,
              events |-> db.events \cup { e \in Range(batch.events) : \A f \in db.events : f.id # e.id }]
    /\ UNCHANGED <<setting, followExt, cp, poll, gens, crashes, torn>>
StoreReset ==
    /\ poll.phase = "reset" /\ poll' = NoPoll /\ db' = [db EXCEPT !.cp = cp] /\ batch' = NoBatch /\ torn' = FALSE
    /\ UNCHANGED <<setting, followExt, cp, gens, crashes>>
Ack ==
    /\ poll.phase = "idle" /\ batch.stored /\ batch' = NoBatch
    /\ cp' = IF batch.from = cp THEN batch.next ELSE cp
    /\ UNCHANGED <<Caller, poll, gens>>
\* The process dies, and follows again from the checkpoint it last stored.
NewFollower(from) == IF from.gen = 0 THEN Checkpoint(gens + 1) ELSE from
Crash ==
    /\ setting.crash /\ crashes < MaxCrashes /\ crashes' = crashes + 1
    /\ cp' = NewFollower(db.cp) /\ gens' = IF db.cp.gen = 0 THEN gens + 1 ELSE gens
    /\ poll' = NoPoll /\ batch' = NoBatch
    /\ UNCHANGED <<setting, followExt, db, torn>>

FollowNext == Append1 \/ Truncate \/ Replace \/ PollOpens \/ PollVerifies \/ PollReads \/ Store \/ StoreReset \/ Ack \/ Crash
FollowSpec == FollowInit /\ [][FollowNext]_followVars

-----------------------------------------------------------------------------
FollowTypeOK ==
    /\ setting \in Settings /\ cp.gen \in 1..gens /\ db.cp.gen \in 0..gens /\ cp.seq = Len(cp.covered)
    /\ poll.phase \in {"idle", "open", "verified", "reset"} /\ (batch.stored => batch.ready)
\* What is stored: every record the stored checkpoint covers, whatever died
\* between the transaction and its Ack, and, from a file only appended to,
\* each of them once, numbered as it stands in the file.
StoredOnce ==
    /\ \A i \in DOMAIN db.cp.covered : \E e \in db.events : e.rec = db.cp.covered[i]
    /\ damage = 0 => /\ { <<e.rec, e.seq>> : e \in db.events } = { <<File[i], i - 1>> : i \in 1..Len(db.cp.covered) }
                     /\ Cardinality(db.events) = Len(db.cp.covered)
\* A Poll whose check passes is on the file its checkpoint was read from: no
\* record of a truncated and rewritten file, or of the file that replaced it,
\* is passed over, across batches and restarts. (A file rewritten between the
\* check and the read is beyond it: torn.)
Extends ==
    (poll.phase = "verified" /\ ~torn) =>
        Len(cp.covered) <= Len(files[poll.inode]) /\ cp.covered = SubSeq(files[poll.inode], 1, Len(cp.covered))

-----------------------------------------------------------------------------
(* The record of a codex Session (pkg/adapter/codex/record.go): the reader *)
(* of the thread's rollout, which tells an input's turn from one codex     *)
(* started itself, and Recover.  codex (external) writes a turn as its     *)
(* task_started, its messages and its end; it may take an input into a     *)
(* turn of its own, end a turn without saying how, and write the abort of  *)
(* a turn after the next one started.                                      *)

CONSTANTS MaxInputs, MaxTurns, MaxEntries, MaxRestarts

VARIABLES file, codex, truth,           \* the rollout; codex, and how each turn ended
          pos, st, recorded, restarts   \* the reader: r.f's offset, r.cur, the ends it gave

rolloutExt == <<file, codex, truth>>
rolloutVars == <<rolloutExt, pos, st, recorded, restarts>>

Inputs == 1..MaxInputs
Own(t) == MaxInputs + t            \* AutoTurnID
NoState == [turn |-> 0, input |-> 0, user |-> FALSE, auto |-> FALSE, ended |-> FALSE]
Entry(kind, turn, n, how) == [kind |-> kind, turn |-> turn, n |-> n, how |-> how]
RolloutInit ==
    /\ file = <<>> /\ codex = [turn |-> 0, runs |-> FALSE, input |-> 0, sent |-> 0, late |-> 0]
    /\ truth = [n \in 1..(MaxInputs + MaxTurns) |-> "none"]
    /\ pos = 0 /\ st = NoState /\ recorded = {} /\ restarts = 0

-----------------------------------------------------------------------------
\* codex.
Reader == <<pos, st, recorded, restarts>>
Writes(e) == Len(file) < MaxEntries /\ file' = Append(file, e) /\ UNCHANGED Reader
Runner == IF codex.input # 0 THEN codex.input ELSE Own(codex.turn)
CodexStarts ==
    /\ ~codex.runs /\ codex.turn < MaxTurns /\ Writes(Entry("started", codex.turn + 1, 0, ""))
    /\ codex' = [codex EXCEPT !.turn = @ + 1, !.runs = TRUE, !.input = 0] /\ UNCHANGED truth
\* An input begins the turn, or is taken into one codex started.
CodexTakesInput ==
    /\ codex.runs /\ codex.input = 0 /\ codex.sent < MaxInputs /\ Writes(Entry("user", codex.turn, codex.sent + 1, ""))
    /\ codex' = [codex EXCEPT !.input = codex.sent + 1, !.sent = @ + 1]
    /\ truth' = [truth EXCEPT ![Own(codex.turn)] = "interrupted"]
CodexSays ==
    /\ codex.runs /\ Writes(Entry("said", codex.turn, 0, "")) /\ UNCHANGED <<codex, truth>>
Outcomes == {"completed", "errored", "interrupted", "unproved"}
CodexEnds ==
    /\ codex.runs
    /\ \E how \in Outcomes : Writes(Entry("end", codex.turn, 0, how)) /\ truth' = [truth EXCEPT ![Runner] = how]
    /\ codex' = [codex EXCEPT !.runs = FALSE]
\* A turn replaced by the next: its abort comes after the next one's start.
CodexReplaces ==
    /\ codex.runs /\ codex.late = 0 /\ codex.turn < MaxTurns /\ Writes(Entry("started", codex.turn + 1, 0, ""))
    /\ codex' = [codex EXCEPT !.turn = @ + 1, !.input = 0, !.late = codex.turn]
    /\ truth' = [truth EXCEPT ![Runner] = "interrupted"]
CodexAbortsLate ==
    /\ codex.late # 0 /\ Writes(Entry("end", codex.late, 0, "interrupted"))
    /\ codex' = [codex EXCEPT !.late = 0] /\ UNCHANGED truth
Codex == CodexStarts \/ CodexTakesInput \/ CodexSays \/ CodexEnds \/ CodexReplaces \/ CodexAbortsLate

-----------------------------------------------------------------------------
\* recordState.own and said.
OwnTurn(s) == s.auto /\ ~s.ended /\ s.input = 0 /\ s.turn # 0
Said(s) == [s EXCEPT !.auto = @ \/ (~s.user /\ ~s.ended /\ s.input = 0 /\ s.turn # 0)]
IgnoredNone(s, e) == s.ended
\* An end of a turn the record is not in.
Ignored(s, e) == s.ended \/ (s.turn # 0 /\ e.turn # s.turn)
\* items: the ends an entry gives, and the state after it.
Ends(s, e) ==
    CASE e.kind = "user" /\ OwnTurn(s) -> {<<Own(s.turn), "interrupted">>}
      [] e.kind = "end" /\ ~Ignored(s, e) /\ e.how # "unproved" ->
             IF s.input # 0 THEN {<<s.input, e.how>>} ELSE IF OwnTurn(Said(s)) THEN {<<Own(s.turn), e.how>>} ELSE {}
      [] OTHER -> {}
After(s, e) ==
    CASE e.kind = "started" -> [NoState EXCEPT !.turn = e.turn]
      [] e.kind = "user" -> [s EXCEPT !.user = TRUE, !.input = e.n, !.ended = FALSE, !.auto = FALSE, !.turn = IF @ = 0 THEN e.turn ELSE @]
      [] e.kind = "said" -> Said(s)
      [] e.kind = "end" -> IF Ignored(s, e) THEN s ELSE [Said(s) EXCEPT !.ended = TRUE]
Items(es, s) == FoldLeft(LAMBDA acc, e : [st |-> After(acc.st, e), ends |-> acc.ends \cup Ends(acc.st, e)], [st |-> s, ends |-> {}], es)
Read ==
    /\ \E k \in (pos + 1)..Len(file) :
           LET r == Items(SubSeq(file, pos + 1, k), st) IN pos' = k /\ st' = r.st /\ recorded' = recorded \cup r.ends
    /\ UNCHANGED <<rolloutExt, restarts>>
Rebuild(offset) == Items(SubSeq(file, 1, offset), NoState).st
Restart ==
    /\ restarts < MaxRestarts /\ restarts' = restarts + 1 /\ st' = Rebuild(pos) /\ UNCHANGED <<rolloutExt, pos, recorded>>

RecoverStep(n, a, e) ==
    IF a.res # "" THEN a
    ELSE CASE e.kind = "started" -> IF a.found THEN [a EXCEPT !.res = "unknown"] ELSE [a EXCEPT !.turn = e.turn]
           [] e.kind = "user" /\ e.n = n -> [a EXCEPT !.found = TRUE, !.turn = IF @ = 0 THEN e.turn ELSE @]
           [] e.kind = "end" /\ a.found /\ (a.turn = 0 \/ e.turn = a.turn) -> [a EXCEPT !.res = IF e.how = "unproved" THEN "unknown" ELSE e.how]
           [] OTHER -> a
Recover(n) ==
    LET a == FoldLeft(LAMBDA acc, e : RecoverStep(n, acc, e), [found |-> FALSE, turn |-> 0, res |-> ""], file)
    IN  IF a.res = "" THEN "unknown" ELSE a.res

RolloutNext == Codex \/ Read \/ Restart
RolloutSpec == RolloutInit /\ [][RolloutNext]_rolloutVars

-----------------------------------------------------------------------------
RolloutTypeOK == pos \in 0..Len(file) /\ st.turn \in 0..MaxTurns /\ st.input \in 0..MaxInputs /\ \A p \in recorded : p[2] \in Outcomes
\* The record gives each turn codex's own end of it and no other, an input's
\* and codex's own alike, wherever its chunks are cut and the reader
\* restarted; Recover reads the same end, or cannot say.
RolloutAgrees ==
    /\ \A p \in recorded : truth[p[1]] = p[2]
    /\ \A n \in Inputs : LET r == Recover(n) IN
           /\ r \in {"unknown", truth[n]}
           /\ pos = Len(file) /\ r # "unknown" => <<n, r>> \in recorded
=============================================================================
