-------------------------------- MODULE Cursor --------------------------------
(***************************************************************************)
(* pkg/adapter/cursor.go: the cursor that delivers a Session's observations *)
(* as acknowledged batches, over the record reader it drives (Read and     *)
(* Commit as in pkg/adapter/claudecode/record.go), the Host that observes, *)
(* stores and acknowledges, and the drain of Session.Close, which reads    *)
(* through the same cursor at the same time.                               *)
(*                                                                         *)
(* Record items are numbered in record order and live observations in the  *)
(* order they were learned; a checkpoint is the number of the last record  *)
(* item it covers.  A chunk is a run of record items.                      *)
(***************************************************************************)
EXTENDS Integers, Sequences, FiniteSets

CONSTANTS
    MaxRecord,     \* bound on the items the harness writes to its record
    MaxLive,       \* bound on live observations
    MaxCrashes,    \* bound on the Host's crashes
    Bounds         \* the max_bytes a Host asks with, in items

ASSUME CursorAssumption ==
    /\ {MaxRecord, MaxLive, MaxCrashes} \subseteq Nat
    /\ Bounds \subseteq Nat \ {0}

VARIABLES
    record,      \* items in the record
    live,        \* live observations learned, ever
    base,        \* of them, those an earlier Host process learned
    exited,      \* the harness exited: nothing more is learned or recorded
    pos,         \* reader: the committed position
    pending,     \* reader: the chunk read and not committed
    queue,       \* the cursor's queue of entries
    chunk,       \* the chunk in the queue, NoChunk when committed
    outN,        \* entries the outstanding batch covers, 0 when none is out
    pc,          \* where Observe, the drain and Ack are
    got,         \* the chunk each reading call has from the reader
    want,        \* max_bytes of the Observe under way
    held,        \* the batch the Host has, <<>> when none
    heldCp,      \* its checkpoint, 0 when it has none
    stored,      \* the Host's Supervisor has committed held
    drained,     \* Close's drain reported everything acknowledged
    crashes,     \* crashes so far
    items,       \* Supervisor, durable: the observations committed
    checkpoint   \* Supervisor, durable: the last checkpoint committed

readerVars == <<pos, pending>>
cursorVars == <<queue, chunk, outN>>
hostVars == <<held, heldCp, stored>>
durableVars == <<items, checkpoint>>
worldVars == <<record, live, base, exited, crashes>>
vars == <<readerVars, cursorVars, hostVars, durableVars, worldVars, pc, got, want,
          drained>>

NoChunk == [from |-> 0, to |-> 0]
Chunks == {c \in [from : 0 .. MaxRecord, to : 0 .. MaxRecord] : c.from < c.to}

\* An observation, and a queue entry: last marks a chunk's last item, whose
\* batch carries the chunk's checkpoint.
Item == [kind : {"record"}, n : 1 .. MaxRecord] \cup [kind : {"live"}, n : 1 .. MaxLive]
Entry == [item : Item, last : BOOLEAN]

Readers == {"observe", "drain"}

TypeOK ==
    /\ record \in 0 .. MaxRecord
    /\ live \in 0 .. MaxLive
    /\ base \in 0 .. live
    /\ exited \in BOOLEAN
    /\ pos \in 0 .. record
    /\ pending \in Chunks \cup {NoChunk}
    /\ queue \in Seq(Entry)
    /\ chunk \in Chunks \cup {NoChunk}
    /\ outN \in 0 .. Len(queue)
    /\ pc["observe"] \in {"idle", "check", "read", "install", "build"}
    /\ pc["drain"] \in {"idle", "busy", "check", "read", "install"}
    /\ pc["ack"] \in {"idle", "commit"}
    /\ got \in [Readers \cup {"ack"} -> Chunks \cup {NoChunk}]
    /\ want \in Bounds \cup {0}
    /\ held \in Seq(Entry)
    /\ heldCp \in 0 .. record
    /\ stored \in BOOLEAN
    /\ drained \in BOOLEAN
    /\ crashes \in 0 .. MaxCrashes
    /\ items \subseteq Item
    /\ checkpoint \in 0 .. record

Move(p, at) == pc' = [pc EXCEPT ![p] = at]

-----------------------------------------------------------------------------
(* What is learned.                                                        *)

WriteRecord ==
    /\ ~exited
    /\ record < MaxRecord
    /\ record' = record + 1
    /\ UNCHANGED <<live, base, exited, crashes, readerVars, cursorVars, hostVars,
                   durableVars, pc, got, want, drained>>

\* push: a live observation joins the queue.
Push ==
    /\ ~exited
    /\ live < MaxLive
    /\ live' = live + 1
    /\ queue' = Append(queue, [item |-> [kind |-> "live", n |-> live + 1],
                               last |-> FALSE])
    /\ UNCHANGED <<record, base, exited, crashes, readerVars, chunk, outN, hostVars,
                   durableVars, pc, got, want, drained>>

-----------------------------------------------------------------------------
(* read, by Observe or by the drain: the queue's lock is not held while the *)
(* reader reads.                                                           *)

\* What read goes on to when it is done.
AfterRead(r, more) ==
    IF r = "observe" THEN Move(r, "build") /\ UNCHANGED drained
    ELSE /\ Move(r, "idle")
         /\ drained' = ~more

ReadCheck(r) ==
    /\ pc[r] = "check"
    /\ IF chunk # NoChunk
       THEN AfterRead(r, FALSE)
       ELSE Move(r, "read") /\ UNCHANGED drained
    /\ UNCHANGED <<worldVars, readerVars, cursorVars, hostVars, durableVars, got,
                   want>>

\* Mutant: each Read moves on from what was read before it.
ReadReaderMoves(r) ==
    /\ pc[r] = "read"
    /\ LET next == [from |-> pos, to |-> record]
       IN IF pos = record
          THEN AfterRead(r, FALSE) /\ UNCHANGED <<pending, pos, got>>
          ELSE /\ pending' = next
               /\ pos' = record
               /\ got' = [got EXCEPT ![r] = next]
               /\ Move(r, "install")
               /\ UNCHANGED drained
    /\ UNCHANGED <<worldVars, cursorVars, hostVars, durableVars, want>>

\* reader.Read: the pending chunk again, the next items up to the bound, or
\* nothing new.
ReadReader(r) ==
    /\ pc[r] = "read"
    /\ \/ /\ pending' \in IF pending # NoChunk THEN {pending}
                          ELSE {[from |-> pos, to |-> to] : to \in pos + 1 .. record}
          /\ got' = [got EXCEPT ![r] = pending']
          /\ Move(r, "install")
          /\ UNCHANGED drained
       \/ /\ pending = NoChunk /\ pos = record
          /\ AfterRead(r, FALSE)
          /\ UNCHANGED <<pending, got>>
    /\ UNCHANGED <<worldVars, pos, cursorVars, hostVars, durableVars, want>>

\* Mutant: every entry of a chunk carries its checkpoint.
EntriesOfAllLast(c) ==
    [i \in 1 .. c.to - c.from |->
        [item |-> [kind |-> "record", n |-> c.from + i], last |-> TRUE]]

EntriesOf(c) ==
    [i \in 1 .. c.to - c.from |->
        [item |-> [kind |-> "record", n |-> c.from + i], last |-> i = c.to - c.from]]

\* A chunk installed meanwhile is kept, and this one dropped.
ReadInstall(r) ==
    /\ pc[r] = "install"
    /\ IF chunk # NoChunk
       THEN AfterRead(r, FALSE) /\ UNCHANGED <<chunk, queue>>
       ELSE /\ chunk' = got[r]
            /\ queue' = queue \o EntriesOf(got[r])
            /\ AfterRead(r, TRUE)
    /\ got' = [got EXCEPT ![r] = NoChunk]
    /\ UNCHANGED <<worldVars, readerVars, outN, hostVars, durableVars, want>>

-----------------------------------------------------------------------------
(* The Host: observe, have the Supervisor store the batch, acknowledge.    *)

\* A Host that lost the answer asks again before anything is stored.
Observe ==
    /\ pc["observe"] = "idle"
    /\ pc["ack"] = "idle"
    /\ ~stored
    /\ held' = <<>>
    /\ heldCp' = 0
    /\ want' \in Bounds
    /\ Move("observe", "check")
    /\ UNCHANGED <<worldVars, readerVars, cursorVars, stored, durableVars, got,
                   drained>>

\* The size of the queue's first n entries, their checkpoint included.
BatchSize(n) == n + Cardinality({i \in 1 .. n : queue[i].last})

\* The longest batch within the bound, 0 when not even the first entry fits.
Fits(bound) ==
    LET ok == {n \in 0 .. Len(queue) : BatchSize(n) <= bound}
    IN CHOOSE n \in ok : \A m \in ok : m <= n

\* buildLocked: the outstanding batch again, or the next from the queue's head;
\* none to give, or CodeBatchTooLarge, and Observe returns without one.
Build ==
    /\ pc["observe"] = "build"
    /\ outN' = IF outN > 0 THEN outN ELSE Fits(want)
    /\ held' = SubSeq(queue, 1, outN')
    /\ heldCp' = IF \E i \in DOMAIN held' : held'[i].last THEN chunk.to ELSE 0
    /\ stored' = FALSE
    /\ Move("observe", "idle")
    /\ want' = 0
    /\ UNCHANGED <<worldVars, readerVars, queue, chunk, durableVars, got, drained>>

\* One transaction: the batch's items, and its checkpoint when it has one.
Store ==
    /\ held # <<>>
    /\ ~stored
    /\ stored' = TRUE
    /\ items' = items \cup {held[i].item : i \in DOMAIN held}
    /\ checkpoint' = IF heldCp > 0 THEN heldCp ELSE checkpoint
    /\ UNCHANGED <<worldVars, readerVars, cursorVars, held, heldCp, pc, got,
                   want, drained>>

\* Mutant: the batch stays outstanding.
AckKeepsOut ==
    /\ pc["ack"] = "idle"
    /\ held # <<>> /\ stored
    /\ queue' = SubSeq(queue, outN + 1, Len(queue))
    /\ outN' = outN
    /\ held' = <<>>
    /\ heldCp' = 0
    /\ stored' = FALSE
    /\ IF \E i \in 1 .. outN : queue[i].last
       THEN /\ chunk' = NoChunk
            /\ got' = [got EXCEPT !["ack"] = chunk]
            /\ Move("ack", "commit")
       ELSE UNCHANGED <<chunk, got, pc>>
    /\ UNCHANGED <<worldVars, readerVars, durableVars, want, drained>>

\* ack: the entries leave the queue, and a chunk whose last entry was among
\* them is to be committed.
Ack ==
    /\ pc["ack"] = "idle"
    /\ held # <<>> /\ stored
    /\ queue' = SubSeq(queue, outN + 1, Len(queue))
    /\ outN' = 0
    /\ held' = <<>>
    /\ heldCp' = 0
    /\ stored' = FALSE
    /\ IF \E i \in 1 .. outN : queue[i].last
       THEN /\ chunk' = NoChunk
            /\ got' = [got EXCEPT !["ack"] = chunk]
            /\ Move("ack", "commit")
       ELSE UNCHANGED <<chunk, got, pc>>
    /\ UNCHANGED <<worldVars, readerVars, durableVars, want, drained>>

\* reader.Commit, after the cursor's lock is let go: past the chunk, unless the
\* reader is elsewhere by now; its error is dropped.
Commit ==
    /\ pc["ack"] = "commit"
    /\ pending' = NoChunk
    /\ pos' = IF got["ack"].from = pos THEN got["ack"].to ELSE pos
    /\ got' = [got EXCEPT !["ack"] = NoChunk]
    /\ Move("ack", "idle")
    /\ UNCHANGED <<worldVars, cursorVars, hostVars, durableVars, want, drained>>

\* The Host process dies and starts again, from the Supervisor's checkpoint.
Crash ==
    /\ crashes < MaxCrashes
    /\ crashes' = crashes + 1
    /\ base' = live
    /\ pos' = checkpoint
    /\ pending' = NoChunk
    /\ queue' = <<>>
    /\ chunk' = NoChunk
    /\ outN' = 0
    /\ pc' = [p \in DOMAIN pc |-> "idle"]
    /\ got' = [p \in DOMAIN got |-> NoChunk]
    /\ want' = 0
    /\ held' = <<>>
    /\ heldCp' = 0
    /\ stored' = FALSE
    /\ drained' = FALSE
    /\ UNCHANGED <<record, live, exited, durableVars>>

-----------------------------------------------------------------------------
(* Close, once the harness has exited: drain until settled.                *)

Exit ==
    /\ ~exited
    /\ exited' = TRUE
    /\ UNCHANGED <<record, live, base, crashes, readerVars, cursorVars, hostVars,
                   durableVars, pc, got, want, drained>>

DrainStart ==
    /\ exited
    /\ ~drained
    /\ pc["drain"] = "idle"
    /\ Move("drain", "busy")
    /\ UNCHANGED <<worldVars, readerVars, cursorVars, hostVars, durableVars, got,
                   want, drained>>

\* settled: nothing out, queued or uncommitted, and then a read of the record.
DrainBusy ==
    /\ pc["drain"] = "busy"
    /\ Move("drain", IF outN > 0 \/ queue # <<>> \/ chunk # NoChunk
                     THEN "idle" ELSE "check")
    /\ UNCHANGED <<worldVars, readerVars, cursorVars, hostVars, durableVars, got,
                   want, drained>>

-----------------------------------------------------------------------------
Init ==
    /\ record = 0 /\ live = 0 /\ base = 0 /\ exited = FALSE
    /\ pos = 0 /\ pending = NoChunk
    /\ queue = <<>> /\ chunk = NoChunk /\ outN = 0
    /\ pc = [p \in Readers \cup {"ack"} |-> "idle"]
    /\ got = [p \in Readers \cup {"ack"} |-> NoChunk]
    /\ want = 0
    /\ held = <<>> /\ heldCp = 0 /\ stored = FALSE
    /\ drained = FALSE /\ crashes = 0
    /\ items = {} /\ checkpoint = 0

ReadStep(r) == ReadCheck(r) \/ ReadReader(r) \/ ReadInstall(r)

Deliver ==
    \/ Observe \/ ReadStep("observe") \/ Build \/ Store \/ Ack \/ Commit

Next ==
    \/ WriteRecord \/ Push \/ Exit
    \/ Deliver
    \/ DrainStart \/ DrainBusy \/ ReadStep("drain")
    \/ Crash

Spec == Init /\ [][Next]_vars

ObserveRoomy == Observe /\ \A b \in Bounds : b <= want'

-----------------------------------------------------------------------------
(* Properties.                                                             *)

Recorded == {n \in 1 .. MaxRecord : [kind |-> "record", n |-> n] \in items}
Lived == {n \in 1 .. MaxLive : [kind |-> "live", n |-> n] \in items}

\* "No checkpoint ever covers an item the Supervisor has not committed": whatever
\* batches a chunk spans, and wherever the Host crashes, a restart from the
\* stored checkpoint skips nothing.
CheckpointCovers == 1 .. checkpoint \subseteq Recorded

\* Record items reach the Supervisor in record order, whichever of Observe and the
\* drain read them, and live observations in the order they were learned; only a
\* crash loses any of those, the last ones.
DeliveredInOrder ==
    /\ \E k \in 0 .. MaxRecord : Recorded = 1 .. k
    /\ \E k \in base .. MaxLive : Lived \cap (base + 1 .. MaxLive) = base + 1 .. k

\* Everything recorded and everything learned by a Host that stays up reaches the
\* Supervisor.
Written(n) == record >= n
Told(n) == n \in Recorded
Learned(n) == live >= n
LearnedTold(n) == n \in Lived \/ base >= n

\* settled: "everything learned has been acknowledged and the record holds
\* nothing more".
DrainedMeansDone ==
    drained => /\ queue = <<>>
               /\ Recorded = 1 .. record
               /\ base + 1 .. live \subseteq Lived
=============================================================================
