---------------------------- MODULE ClaudeRecord ----------------------------
(***************************************************************************)
(* The record of a claude Session (pkg/adapter/claudecode/record.go): the  *)
(* reader of claude's transcript, which tells whose turn each entry is in  *)
(* and how the turn ended, a chunk at a time from its checkpoint, and      *)
(* Recover, which reads one input's end from the whole transcript.  claude *)
(* (external) writes an entry at a time: a reply as one entry per content  *)
(* block, its Stop hooks' feedback after it, no end at all for a prompt    *)
(* withdrawn before its first token and, at the TUI, a session's first     *)
(* reply before its prompt.                                                *)
(***************************************************************************)
EXTENDS Integers, Sequences, FiniteSets, SequencesExt

CONSTANTS Settings,    \* [lag, expires, hooks, own, restarts]: BOOLEAN each
          MaxInputs, MaxEntries, MaxRestarts

VARIABLES setting, file, claude, truth,     \* the transcript; claude, and how each turn ended
          pos, st, recorded, restarts,      \* the reader: r.f's offset, r.cur, the ends it gave
          late                              \* a reply was given to no turn: PromptLag passed

extv == <<file, claude, truth>>
recv == <<pos, st, recorded, restarts, late>>
vars == <<setting, extv, recv>>

Inputs == 1..MaxInputs
OWN == MaxInputs + 1           \* the turn claude starts itself
Turns == 1..OWN
NoState == [turn |-> 0, ended |-> FALSE, prompt |-> 0, parent |-> 0, replied |-> FALSE, msg |-> 0, held |-> FALSE]
\* An entry: its kind, its uuid (claude's order of events), the entry it
\* follows, the API message it is a block of, the turn it names.
Entry(kind, id, parent, msg, n) == [kind |-> kind, id |-> id, parent |-> parent, msg |-> msg, n |-> n]
Replies == {"thinking", "text", "tool", "apierror"}
Users == {"prompt", "feedback", "note", "interrupt"}

Init ==
    /\ setting \in Settings /\ file = <<>> /\ truth = [n \in Turns |-> "none"]
    /\ claude = [on |-> 0, phase |-> "idle", sent |-> 0, id |-> 1, last |-> 0, prompt |-> 0, parent |-> 0, msg |-> 0, owed |-> <<>>]
    /\ pos = 0 /\ st = NoState /\ recorded = {} /\ restarts = 0 /\ late = FALSE

-----------------------------------------------------------------------------
\* claude.
Rec == <<setting, recv>>
Writes(e) == file' = Append(file, e) /\ Len(file) < MaxEntries
Wrote(c) == [c EXCEPT !.id = claude.id + 1, !.last = claude.id]
Says(kind, msg) == Writes(Entry(kind, claude.id, claude.last, msg, 0))
ClaudePrompted ==
    /\ claude.phase = "idle" /\ claude.sent < MaxInputs /\ claude.owed = <<>>
    /\ LET n == claude.sent + 1
           e == Entry("prompt", claude.id, claude.last, 0, n)
           c == [claude EXCEPT !.on = n, !.phase = "run", !.sent = n, !.prompt = claude.id, !.parent = claude.last]
       IN  \/ Writes(e) /\ claude' = Wrote(c)
           \/ /\ setting.lag /\ file = <<>> /\ UNCHANGED file      \* written after the reply
              /\ claude' = [Wrote(c) EXCEPT !.owed = <<e>>]
    /\ UNCHANGED <<Rec, truth>>
ClaudeLagged ==
    /\ claude.owed # <<>> /\ file # <<>> /\ Writes(Head(claude.owed)) /\ claude' = [claude EXCEPT !.owed = <<>>]
    /\ UNCHANGED <<Rec, truth>>
ClaudeNotified ==
    /\ setting.own /\ claude.phase = "idle" /\ claude.sent > 0 /\ truth[OWN] = "none"
    /\ Says("note", 0) /\ claude' = [Wrote(claude) EXCEPT !.on = OWN, !.phase = "run"] /\ UNCHANGED <<Rec, truth>>
ClaudeReplies ==
    /\ claude.phase = "run" /\ UNCHANGED <<Rec, truth>>
    /\ \/ Says("tool", claude.id) /\ claude' = Wrote(claude)
       \/ Says("thinking", claude.id) /\ claude' = [Wrote(claude) EXCEPT !.phase = "thought", !.msg = claude.id]
       \/ Says("text", claude.id) /\ claude' = [Wrote(claude) EXCEPT !.phase = "said", !.msg = claude.id]
ClaudeFinishes ==
    /\ claude.phase = "thought" /\ Says("text", claude.msg)
    /\ claude' = [Wrote(claude) EXCEPT !.phase = "said"] /\ UNCHANGED <<Rec, truth>>
\* The Stop hooks: their feedback carries the turn on, their summary ends it.
ClaudeStops ==
    /\ claude.phase = "said" /\ UNCHANGED Rec
    /\ \/ setting.hooks /\ Says("feedback", 0) /\ claude' = [Wrote(claude) EXCEPT !.phase = "run"] /\ UNCHANGED truth
       \/ /\ Says("summary", 0) /\ claude' = [Wrote(claude) EXCEPT !.phase = "idle", !.on = 0]
          /\ truth' = [truth EXCEPT ![claude.on] = "completed"]
ClaudeFails ==
    /\ claude.phase = "run" /\ UNCHANGED Rec /\ (claude.owed # <<>> => file # <<>>)
    /\ \E k \in {"apierror", "interrupt"} :
           /\ Says(k, IF k = "apierror" THEN claude.id ELSE 0)
           /\ truth' = [truth EXCEPT ![claude.on] = IF k = "apierror" THEN "errored" ELSE "interrupted"]
    /\ claude' = [Wrote(claude) EXCEPT !.phase = "idle", !.on = 0]
\* An interrupt before the first token: the prompt is withdrawn, its turn
\* gets no end, and the next entry follows what the prompt followed, or the
\* prompt if that is the session's first.
ClaudeWithdraws ==
    /\ setting.lag /\ claude.phase = "run" /\ claude.on \in Inputs /\ claude.last = claude.prompt /\ claude.owed = <<>>
    /\ claude' = [claude EXCEPT !.phase = "idle", !.on = 0, !.last = IF claude.parent = 0 THEN @ ELSE claude.parent]
    /\ truth' = [truth EXCEPT ![claude.on] = "interrupted"] /\ UNCHANGED <<Rec, file>>
Claude == ClaudePrompted \/ ClaudeLagged \/ ClaudeNotified \/ ClaudeReplies \/ ClaudeFinishes \/ ClaudeStops \/ ClaudeFails \/ ClaudeWithdraws

-----------------------------------------------------------------------------
\* items: the ends an entry gives the turn the record is in, and the state
\* after it.
Withdrawn(prompt, parent, replied, e) ==
    prompt # 0 /\ parent # 0 /\ ~replied /\ e.kind = "prompt" /\ e.id # prompt /\ e.parent = parent
End(s, outcome) == IF s.turn # 0 /\ ~s.ended THEN {<<s.turn, outcome>>} ELSE {}
HeldEndsAny(s, e) == s.held /\ (e.msg = 0 \/ e.msg # s.msg)
\* A reply's end waits for the entry after it, which says whether it is one.
HeldEnds(s, e) == s.held /\ (e.msg = 0 \/ e.msg # s.msg) /\ e.kind # "feedback"
Rewound(s, e) == s.turn \in Inputs /\ ~HeldEnds(s, e) /\ Withdrawn(s.prompt, s.parent, s.replied, e)
Ends(s, e) ==
    IF HeldEnds(s, e) THEN End(s, "completed")
    ELSE IF Rewound(s, e) THEN End(s, "interrupted")
    ELSE CASE e.kind = "apierror" -> End(s, "errored")
           [] e.kind = "interrupt" -> End(s, "interrupted")
           [] OTHER -> {}
After(s0, e) ==
    LET s1 == CASE HeldEnds(s0, e) -> [s0 EXCEPT !.ended = @ \/ s0.turn # 0, !.held = s0.turn = 0]
                [] s0.held /\ e.kind = "feedback" -> [s0 EXCEPT !.held = FALSE, !.msg = 0]
                [] Rewound(s0, e) -> [s0 EXCEPT !.ended = TRUE]
                [] OTHER -> s0
        s2 == IF e.kind \in Users /\ s1.ended THEN [s1 EXCEPT !.msg = 0] ELSE s1
        s  == [s2 EXCEPT !.replied = @ \/ e.kind \in Replies]
    IN  CASE e.kind = "prompt" -> [NoState EXCEPT !.turn = e.n, !.prompt = e.id, !.parent = e.parent]
          [] e.kind = "note" -> [NoState EXCEPT !.turn = OWN]
          [] e.kind \in {"apierror", "interrupt"} -> [s EXCEPT !.ended = @ \/ s.turn # 0]
          [] e.kind \in {"thinking", "text"} /\ ~s.ended -> [s EXCEPT !.held = TRUE, !.msg = IF s.held THEN @ ELSE e.msg]
          [] OTHER -> s
\* ordered: at the TUI, a read's entries in the order of their timestamps.
Ordered(es) ==
    IF ~setting.lag THEN es
    ELSE [i \in DOMAIN es |-> CHOOSE e \in Range(es) : Cardinality({ f \in Range(es) : f.id < e.id }) = i - 1]
Items(es, s) == FoldLeft(LAMBDA acc, e : [st |-> After(acc.st, e), ends |-> acc.ends \cup Ends(acc.st, e),
                                          stray |-> acc.stray \cup { i \in {e.id} : e.kind \in Replies \ {"thinking"} /\ acc.st.turn = 0 }],
                         [st |-> s, ends |-> {}, stray |-> {}], Ordered(es))
\* holdBack: a reply that belongs to no turn waits for its prompt, for up to
\* PromptLag; a prompt on disk past the read's bound is read with it.
Until(k) == Items(SubSeq(file, pos + 1, k), st)
Holds(k) == setting.lag /\ Until(k).stray # {} /\ ~setting.expires
ReadOn(k) == IF setting.lag /\ Until(k).stray # {} /\ Until(Len(file)).stray \cap Until(k).stray = {} THEN Len(file) ELSE k
\* Read, and Commit once the Session stored the chunk.
Read ==
    /\ \E k \in (pos + 1)..Len(file) :
           LET to == ReadOn(k)  r == Until(to) IN
           /\ ~Holds(to)
           /\ pos' = to /\ st' = r.st /\ recorded' = recorded \cup r.ends /\ late' = (late \/ (r.stray # {} /\ setting.lag))
    /\ UNCHANGED <<setting, extv, restarts>>
RebuildNothing(offset) == NoState
\* rebuild: the state the record is in at a checkpoint's offset.
Rebuild(offset) == Items(SubSeq(file, 1, offset), NoState).st
Restart ==
    /\ setting.restarts /\ restarts < MaxRestarts /\ restarts' = restarts + 1 /\ st' = Rebuild(pos)
    /\ UNCHANGED <<setting, extv, pos, recorded, late>>

-----------------------------------------------------------------------------
\* Recover: found, completed and the result as the transcript is read.
RecoverStep(n, a, e) ==
    IF a.res # "" THEN a
    ELSE IF e.kind = "prompt" /\ e.n = n THEN [a EXCEPT !.found = TRUE, !.prompt = e.id, !.parent = e.parent]
    ELSE IF ~a.found THEN a
    ELSE IF a.completed
         THEN IF e.kind = "feedback" THEN [a EXCEPT !.completed = FALSE]
              ELSE IF e.msg = 0 \/ e.msg # a.msg THEN [a EXCEPT !.res = "completed"] ELSE a
    ELSE LET b == [a EXCEPT !.replied = @ \/ e.kind \in Replies] IN
         CASE Withdrawn(a.prompt, a.parent, a.replied, e) -> [a EXCEPT !.res = "interrupted"]
           [] e.kind \in {"prompt", "note"} -> [b EXCEPT !.res = "unknown"]
           [] e.kind = "interrupt" -> [b EXCEPT !.res = "interrupted"]
           [] e.kind = "apierror" -> [b EXCEPT !.res = "errored"]
           [] e.kind \in {"thinking", "text"} -> [b EXCEPT !.completed = TRUE, !.msg = e.msg]
           [] OTHER -> b
Recover(n) ==
    LET a == FoldLeft(LAMBDA acc, e : RecoverStep(n, acc, e),
                      [found |-> FALSE, completed |-> FALSE, msg |-> 0, prompt |-> 0, parent |-> 0, replied |-> FALSE, res |-> ""],
                      Ordered(file))
    IN  IF a.res # "" THEN a.res ELSE IF a.completed THEN "completed" ELSE "unknown"

Next == Claude \/ Read \/ Restart
Spec == Init /\ [][Next]_vars

-----------------------------------------------------------------------------
TypeOK ==
    /\ setting \in Settings /\ pos \in 0..Len(file) /\ st.turn \in 0..OWN /\ st.held \in BOOLEAN
    /\ \A p \in recorded : p[1] \in Turns /\ p[2] \in {"completed", "errored", "interrupted"}
\* The record never ends a turn otherwise than claude did, wherever its
\* chunks are cut and the reader restarted: a Stop hook's feedback carries
\* the turn on, a message's later blocks are still its turn's.
EndIsClaudes == \A p \in recorded : truth[p[1]] = p[2]
\* A turn whose end claude wrote is ended in the record once read, unless its
\* reply was given to no turn; Recover then reads the same end.
EndIsFound ==
    \A n \in Inputs :
        /\ Recover(n) \in {"unknown", truth[n]} \/ (truth[n] = "none" /\ Recover(n) = "completed")
        /\ (pos = Len(file) /\ ~late /\ claude.on = 0 /\ claude.sent >= n)
              => \/ \E p \in recorded : p[1] = n
                 \/ truth[n] = "interrupted" /\ n \in {1, claude.sent}  \* withdrawn
=============================================================================
