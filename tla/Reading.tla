------------------------------ MODULE Reading -------------------------------
(***************************************************************************)
(* What is read of a harness: the verdict on what it prints, the text on its*)
(* terminal, and the session files it writes.                              *)
(***************************************************************************)
EXTENDS Integers, SequencesExt, Sequences, FiniteSets

-----------------------------------------------------------------------------
(* What the wrapper reads in a harness's output: the per-harness pattern   *)
(* sets, the order in which harnessAdapter.Classify consults them, the     *)
(* generic fallback, the error taxonomy, and the wider table consulted     *)
(* only once the harness has exited (ClassifyFinishedOutput).  An output   *)
(* is a sequence of lines, and a line is the name of the phrase it holds.  *)

\* No pattern of any harness is in the line "plain".  "millis" is a timestamp
\* whose milliseconds read 402, "bare402" the number on its own.
Lines == {"plain", "banner", "usage", "quota", "api500", "api401", "tryagain",
          "timedout", "refused", "prompt", "bare402", "millis", "nomodel"}

NoVerdict == [status |-> "", class |-> "None", reason |-> "", terminal |-> FALSE]
Verdict(status, class, reason, terminal) ==
    [status |-> status, class |-> class, reason |-> reason, terminal |-> terminal]

Holds(text, line) == Contains(text, line)

\* The cost phrases of a pattern set, in its order: MatchAny returns the first
\* PATTERN found, wherever in the output it stands.
CostPhrases(harness) ==
    CASE harness = "claude" -> <<"usage", "quota">>
      [] harness = "codex"  -> <<"quota", "usage">>
      [] OTHER              -> <<"quota", "usage", "banner">>
MatchAny(text, phrases) ==
    LET hit == SelectInSeq(phrases, LAMBDA p : Holds(text, p))
    IN  IF hit = 0 THEN "" ELSE phrases[hit]

\* The HTTP code an APIError matcher reads: the first anchored line of the
\* output, or, for codex alone, its table of phrases.
AnchoredCode(text) ==
    LET i == SelectInSeq(text, LAMBDA l : l \in {"api500", "api401"})
    IN  IF i = 0 THEN "" ELSE text[i]
APIError(harness, text) ==
    CASE harness \notin {"claude", "codex"} -> ""
      [] AnchoredCode(text) # ""            -> AnchoredCode(text)
      [] harness = "codex" /\ (Holds(text, "usage") \/ Holds(text, "quota")) -> "api429"
      [] OTHER -> ""

\* The canonical taxonomy.
ClassOfCode(code) ==
    CASE code = "api401" -> "AuthFailure"
      [] code = "api429" -> "RateLimited"
      [] OTHER           -> "Transient"
CostClass(hit)  == IF hit = "quota" THEN "BillingError" ELSE "RateLimited"
RetryClass(hit) == IF hit = "timedout" THEN "Timeout" ELSE "Transient"

CostVerdict(hit) == Verdict("blocked_by_cost", CostClass(hit), hit, TRUE)

\* Cost yields to an API error printed after the last occurrence of the phrase
\* that was hit.
APIErrorAfter(harness, text, hit) ==
    LET i == SelectLastInSeq(text, LAMBDA l : l = hit)
    IN  APIError(harness, SubSeq(text, i + 1, Len(text))) # ""

\* Retry phrases, then the transport failures every harness shares.
MatchRetry(text, phrases) ==
    LET hit == MatchAny(text, phrases)
    IN  IF hit = "" THEN NoVerdict ELSE Verdict("retry_later", RetryClass(hit), hit, TRUE)
ClassifyRetry(harness, text) ==
    MatchRetry(text, IF harness = "claude" THEN <<"tryagain", "refused">>
                                           ELSE <<"tryagain", "timedout", "refused">>)

PromptSuffix(text) == text # <<>> /\ Last(text) = "prompt"

ClassifyOutOfOrder(harness, text, quiet, idle) ==
    LET code == APIError(harness, text)
        cost == MatchAny(text, CostPhrases(harness))
    IN  IF harness = "claude" /\ Holds(text, "banner")
        THEN Verdict("blocked_by_cost", "RateLimited", "banner", TRUE)
        ELSE IF code # "" THEN Verdict("api_error", ClassOfCode(code), code, FALSE)
        ELSE IF idle /\ cost # "" THEN CostVerdict(cost)
        ELSE NoVerdict
ClassifyUngated(harness, text, quiet, idle) ==
    LET cost == MatchAny(text, CostPhrases(harness))
    IN  IF cost # "" THEN CostVerdict(cost) ELSE NoVerdict
\* harnessAdapter.Classify: the session limit outranks everything, a cost
\* phrase counts only when the output is idle and no API error followed it, an
\* API error counts at once, a retry phrase when idle, a prompt when quiet.
AdapterClassify(harness, text, quiet, idle) ==
    LET cost  == MatchAny(text, CostPhrases(harness))
        code  == APIError(harness, text)
        retry == ClassifyRetry(harness, text)
    IN  IF harness = "claude" /\ Holds(text, "banner")
        THEN Verdict("blocked_by_cost", "RateLimited", "banner", TRUE)
        ELSE IF idle /\ cost # "" /\ ~APIErrorAfter(harness, text, cost) THEN CostVerdict(cost)
        ELSE IF code # "" THEN Verdict("api_error", ClassOfCode(code), code, FALSE)
        ELSE IF idle /\ retry # NoVerdict THEN retry
        ELSE IF quiet /\ PromptSuffix(text) THEN Verdict("waiting_for_input", "None", "prompt", FALSE)
        ELSE NoVerdict

\* The fallback for a harness with no registered patterns.
DefaultClassify(text, idle) ==
    LET cost == MatchAny(text, CostPhrases("other"))
    IN  IF ~idle THEN NoVerdict
        ELSE IF cost # "" THEN CostVerdict(cost)
        ELSE MatchRetry(text, <<"refused">>)

ClassifyOutput(harness, text, quiet, idle) ==
    IF harness \in {"claude", "codex"} THEN AdapterClassify(harness, text, quiet, idle)
                                       ELSE DefaultClassify(text, idle)

-----------------------------------------------------------------------------
\* The residual rows, in their order of precedence: the lines each row's
\* pattern matches, and its class.  A number inside a longer one ("millis") is
\* no row's match (embeddedNumber).
ResidualRows ==
    << [lines |-> {"banner", "usage"},   class |-> "RateLimited"],
       [lines |-> {"api401"},            class |-> "AuthFailure"],
       [lines |-> {"quota", "bare402"},  class |-> "BillingError"],
       [lines |-> {"nomodel"},           class |-> "ModelNotFound"],
       [lines |-> {"timedout"},          class |-> "Timeout"],
       [lines |-> {"api500"},            class |-> "Transient"] >>
MatchResidual(text) ==
    LET row == SelectInSeq(ResidualRows, LAMBDA r : r.lines \cap ToSet(text) # {})
    IN  IF row = 0 THEN "None" ELSE ResidualRows[row].class

ResidualFirst(harness, text) ==
    IF MatchResidual(text) # "None" THEN MatchResidual(text)
    ELSE ClassifyOutput(harness, text, FALSE, TRUE).class
\* ClassifyFinishedOutput: the class given to the output of a harness that has
\* exited.  The rows replace only a verdict that is not actionable; a transient
\* failure that names a timeout becomes one.
FinishedClass(harness, text) ==
    LET live == ClassifyOutput(harness, text, FALSE, TRUE).class
    IN  CASE live = "None" -> MatchResidual(text)
          [] live = "Transient" /\ Holds(text, "timedout") -> "Timeout"
          [] OTHER -> live

-----------------------------------------------------------------------------
(* What the wrapper makes of the raw bytes of a terminal: the text with    *)
(* its control sequences removed (stripANSIEscapes), the durable line tap  *)
(* (lineSplitter), the window of recent output with its byte offsets       *)
(* (recentOutputBuffer), and the sign-in prompt found in a login's output  *)
(* (findLoginPrompt).  A byte is its class:                                *)
(* "x" "\n" printable text and the line feed, "u" a byte at or above       *)
(* 0x80, "E" ESC, "[" and "]" themselves, "D" the letters that open the    *)
(* other control strings, "\\" the backslash, "B" BEL, "C" CAN or SUB,     *)
(* "i" an intermediate 0x20-0x2f, "p" a parameter 0x30-0x3f.  "x" is a     *)
(* final byte wherever a sequence wants one.                               *)

\* stepEscape: the state after byte c of an escape or a CSI sequence, and
\* whether c is text.  A C0 control other than ESC and CAN is executed where it
\* stands, so it is kept and the state with it.
StepEscape(state, c) ==
    CASE c = "E" -> <<"start", FALSE>>
      [] c = "C" -> <<"ground", FALSE>>
      [] c \in {"\n", "B"} -> <<state, TRUE>>
      [] c = "u" -> <<"ground", TRUE>>
      [] state = "start" /\ c = "["  -> <<"csi", FALSE>>
      [] state = "start" /\ c = "]"  -> <<"osc", FALSE>>
      [] state = "start" /\ c = "D"  -> <<"dcs", FALSE>>
      [] state \in {"start", "inter"} /\ c = "i" -> <<"inter", FALSE>>
      [] state = "csi" /\ c \in {"i", "p"} -> <<"csi", FALSE>>
      [] OTHER -> <<"ground", FALSE>>

StepFirstFinal(state, c) ==
    CASE state = "ground" -> IF c = "E" THEN <<"start", FALSE>> ELSE <<"ground", TRUE>>
      [] OTHER -> IF c = "E" THEN <<"start", FALSE>> ELSE <<"ground", FALSE>>
Step(state, c) ==
    CASE state = "ground"  -> IF c = "E" THEN <<"start", FALSE>> ELSE <<"ground", TRUE>>
      [] state \in {"osc", "dcs"} ->
           CASE c = "E" -> <<"stringE", FALSE>>
             [] c = "C" \/ (c = "B" /\ state = "osc") -> <<"ground", FALSE>>
             [] OTHER -> <<state, FALSE>>
      [] state = "stringE" -> IF c = "\\" THEN <<"ground", FALSE>> ELSE StepEscape("start", c)
      [] OTHER -> StepEscape(state, c)

Feed(acc, c) ==
    LET next == Step(acc.state, c)
    IN  [state |-> next[1], text |-> IF next[2] THEN Append(acc.text, c) ELSE acc.text]
Parse(bytes) == FoldLeft(Feed, [state |-> "ground", text |-> <<>>], bytes)

StripFlushing(bytes) ==
    LET end == Parse(bytes)
    IN  IF end.state = "csi" THEN Append(end.text, "[") ELSE end.text
\* A sequence still open at the end is dropped.
Strip(bytes) == Parse(bytes).text

-----------------------------------------------------------------------------
\* The bytes of a stream of reads: "cut" marks where one read ends.
Bytes(reads) == SelectSeq(reads, LAMBDA b : b # "cut")
Chunks(reads) ==
    FoldLeft(LAMBDA acc, b : IF b = "cut" THEN Append(acc, <<>>)
                             ELSE Append(Front(acc), Append(Last(acc), b)),
             << <<>> >>, reads)

\* lineSplitter.write: every line the chunk completes, the rest held.
NextByte(acc, b) ==
    IF b = "\n" THEN [lines |-> Append(acc.lines, acc.buf), buf |-> <<>>]
    ELSE [acc EXCEPT !.buf = Append(@, b)]
TapDroppingRest(tap, chunk) ==
    LET fed == FoldLeft(NextByte, [lines |-> <<>>, buf |-> tap.buf], chunk)
    IN  [lines |-> tap.lines \o fed.lines, buf |-> IF fed.lines # <<>> THEN <<>> ELSE fed.buf]
TapWrite(tap, chunk) ==
    LET fed == FoldLeft(NextByte, [lines |-> <<>>, buf |-> tap.buf], chunk)
    IN  [lines |-> tap.lines \o fed.lines, buf |-> fed.buf]
TapFlush(tap) == IF tap.buf = <<>> THEN tap.lines ELSE Append(tap.lines, tap.buf)
TapLines(reads) == TapFlush(FoldLeft(TapWrite, [lines |-> <<>>, buf |-> <<>>], Chunks(reads)))

\* recentOutputBuffer: the last limit bytes, and the count of all of them.
RecentWrite(recent, chunk, limit) ==
    LET all == recent.buf \o chunk
    IN  [buf   |-> SubSeq(all, IF Len(all) > limit THEN Len(all) - limit + 1 ELSE 1, Len(all)),
         total |-> recent.total + Len(chunk)]
Recent(reads, limit) ==
    FoldLeft(LAMBDA r, chunk : RecentWrite(r, chunk, limit), [buf |-> <<>>, total |-> 0], Chunks(reads))

TextFromExact(recent, mark) ==
    LET start == recent.total - Len(recent.buf)
    IN  SubSeq(recent.buf, IF mark > start THEN mark - start + 1 ELSE 1, Len(recent.buf))
\* TextFrom: what is retained from offset mark on, widened back to the start of
\* the line mark falls in.
TextFrom(recent, mark) ==
    LET start == recent.total - Len(recent.buf)
        i     == IF mark > start THEN mark - start ELSE 0
        from  == SelectLastInSubSeq(recent.buf, 1, i, LAMBDA b : b = "\n")
    IN  SubSeq(recent.buf, from + 1, Len(recent.buf))

-----------------------------------------------------------------------------
\* findLoginPrompt over plain text in which "h" begins the sign-in URL, "x"
\* continues it, "P" is the question for the code and "\n" ends a line.  The
\* page comes only from complete lines, the question from anywhere.
FirstURL(text) ==
    LET h == SelectInSeq(text, LAMBDA c : c = "h")
        e == SelectInSubSeq(text, h + 1, Len(text), LAMBDA c : c # "x")
    IN  IF h = 0 THEN <<>> ELSE SubSeq(text, h, IF e = 0 THEN Len(text) ELSE e - 1)
PromptFromAnyLine(text, wantsCode) ==
    [url |-> FirstURL(text), found |-> FirstURL(text) # <<>> /\ (wantsCode => Contains(text, "P"))]
LoginPrompt(text, wantsCode) ==
    LET lines == SubSeq(text, 1, SelectLastInSeq(text, LAMBDA c : c = "\n"))
        url   == FirstURL(lines)
    IN  [url |-> url, found |-> url # <<>> /\ (wantsCode => Contains(text, "P"))]
-----------------------------------------------------------------------------
\* csiFilter of pkg/screen, byte by byte: what is held is an escape, or a CSI whose
\* final byte has not come.  "<" ">" "?" and "1" are parameters, "u" and "m" finals,
\* "c" continues a character "L" begins.
Params == {"<", ">", "?", "1"}
Finals == {"u", "m"}

dropCSI(seq) ==
    /\ Len(seq) > 3
    /\ seq[3] \in {"<", ">"} \/ (seq[3] = "?" /\ Last(seq) = "u")

Plain(f, b) == IF b = "esc" THEN [f EXCEPT !.held = <<b>>] ELSE [f EXCEPT !.out = Append(@, b)]
FeedCSI(f, b) ==
    LET seq == Append(f.held, b)
        pass == [out |-> f.out \o f.held, held |-> <<>>]
    IN  CASE f.held = <<>> -> Plain(f, b)
          [] f.held = <<"esc">> /\ b = "[" -> [f EXCEPT !.held = seq]
          [] Len(f.held) > 1 /\ b \in Params -> [f EXCEPT !.held = seq]
          [] Len(f.held) > 1 /\ b \in Finals \cup {"["} ->
                [out |-> IF dropCSI(seq) THEN f.out ELSE f.out \o seq, held |-> <<>>]
          [] OTHER -> Plain(pass, b)

\* filter: an unfinished sequence is held, up to csiMax bytes.
filter(pending, chunk, csiMax) ==
    LET f == FoldLeft(FeedCSI, [out |-> <<>>, held |-> pending], chunk)
    IN  IF Len(f.held) > csiMax THEN [out |-> f.out \o f.held, held |-> <<>>] ELSE f

\* Mutant: a character is held only when its last byte is its first.
wholeLast(partial, chunk) ==
    LET p == partial \o chunk
    IN  IF p # <<>> /\ Last(p) = "L" THEN [out |-> Front(p), held |-> <<"L">>] ELSE [out |-> p, held |-> <<>>]

\* whole: a character of three bytes the chunk splits is held back.
whole(partial, chunk) ==
    LET p == partial \o chunk
        i == SelectLastInSeq(p, LAMBDA b : b # "c")
    IN  IF i > 0 /\ i > Len(p) - 4 /\ p[i] = "L" /\ Len(p) - i < 2
        THEN [out |-> SubSeq(p, 1, i - 1), held |-> SubSeq(p, i, Len(p))]
        ELSE [out |-> p, held |-> <<>>]

\* Screen.Write of each read: what the emulator is handed, read by read.
ScreenWrite(s, chunk, csiMax) ==
    LET f == filter(s.pending, chunk, csiMax)
        w == whole(s.partial, f.out)
    IN  [pending |-> f.held, partial |-> w.held, given |-> Append(s.given, w.out)]
Screen(reads, csiMax) ==
    FoldLeft(LAMBDA s, chunk : ScreenWrite(s, chunk, csiMax),
             [pending |-> <<>>, partial |-> <<>>, given |-> <<>>], Chunks(reads))

-----------------------------------------------------------------------------
(* The readers of the harnesses' own session files (pkg/transcript): each  *)
(* harness's file is read two ways - whole, for a conversation's history   *)
(* and usage, and line by line, by the decoder a Follower runs - and found *)
(* by what it says of the launch that wrote it.  A line is a record of     *)
(* what its JSON says; a text is a token, "tags" one that is nothing but   *)
(* injected context.                                                       *)

None == "none"
Event(role, type, text, tool) == [role |-> role, type |-> type, text |-> text, tool |-> tool, output |-> ""]
Result(tool, output) == [role |-> "tool", type |-> "tool_result", text |-> "", tool |-> tool, output |-> output]
\* The error-or-events a decoder returns, and the events of a message's blocks that have any.
Fails == [ok |-> FALSE, events |-> <<>>]
Gives(events) == [ok |-> TRUE, events |-> events]
OfBlocks(blocks, f(_)) == FlattenSeq([i \in DOMAIN blocks |-> f(blocks[i])])
StripIDEContextTags(text) == IF text = "tags" THEN "" ELSE text
TextEvent(role, text) == IF text = "" THEN <<>> ELSE <<Event(role, "text", text, "")>>
NoUsage == -1
ToCount(n) == IF n.number /\ n.value > 0 THEN n.value ELSE 0

-----------------------------------------------------------------------------
\* Claude Code.  A line is JSON or not (torn), and fits Line or not: a system api_error does not.
UserLineEvents(l) ==
    CASE l.body = "bad" -> Fails
      [] l.body = "string" -> Gives(TextEvent("user", StripIDEContextTags(l.blocks[1].text)))
      [] OTHER -> Gives(OfBlocks(l.blocks, LAMBDA b :
            CASE b.type = "text" -> TextEvent("user", StripIDEContextTags(b.text))
              [] b.type = "tool_result" -> <<Result(b.tool, b.text)>>
              [] OTHER -> <<>>))
AssistantLineEvents(l) ==
    IF l.body # "array" THEN Fails
    ELSE Gives(OfBlocks(l.blocks, LAMBDA b :
            CASE b.type = "text" -> TextEvent("assistant", b.text)
              [] b.type = "tool_use" -> <<Event("assistant", "tool_use", "", b.tool)>>
              [] OTHER -> <<>>))
LineEvents(l) == CASE l.type = "user" -> UserLineEvents(l)
                   [] l.type = "assistant" -> AssistantLineEvents(l)
                   [] OTHER -> Gives(<<>>)
ParseFromBytes(file) == SelectSeq(file, LAMBDA l : l.json /\ l.fits)
ClaudeEvents(file) == OfBlocks(ParseFromBytes(file), LAMBDA l : LineEvents(l).events)
\* Mutant: whatever does not fit a Line is unreadable.
DecodeStrictly(l) == IF l.json /\ l.fits THEN LineEvents(l) ELSE Fails
\* decodeRecord: only the lines that hold conversation must be readable.
DecodeRecord(l) ==
    IF l.json /\ l.fits THEN LineEvents(l)
    ELSE IF l.json /\ l.type \notin {"user", "assistant"} THEN Gives(<<>>) ELSE Fails

\* What DecodeEntry says of a line beyond its events.
ClaudeFacts(l) ==
    [stop |-> IF l.type = "assistant" THEN l.stop ELSE "",
     api |-> l.api,
     hooksRan |-> l.type = "system" /\ l.sub = "stop_hook_summary",
     notified |-> l.type = "user" /\ l.sub = "task-notification",
     interrupt |-> l.type = "user" /\ \E i \in DOMAIN DecodeRecord(l).events :
                      DecodeRecord(l).events[i].type = "text" /\ DecodeRecord(l).events[i].text = "interrupted"]
\* Mutant: an entry is told by its content alone.
DecodeContent(l) ==
    LET d == DecodeRecord(l)
    IN [ok |-> d.ok, entries |-> [i \in DOMAIN d.events |-> [event |-> d.events[i], meta |-> ClaudeFacts(l)]]]
ClaudeDecodeEntry(l) ==
    LET d == DecodeRecord(l)
        e == ClaudeFacts(l)
        bare == IF d.ok /\ d.events = <<>> /\ (e.stop # "" \/ e.api # "" \/ e.hooksRan)
                THEN <<Event(l.type, "entry", "", "")>> ELSE d.events
    IN [ok |-> d.ok, entries |-> [i \in DOMAIN bare |-> [event |-> bare[i], meta |-> e]]]

\* Mutant: every line's usage is added.
UsagePerLine(file) ==
    LET lines == SelectSeq(ParseFromBytes(file), LAMBDA l : l.type = "assistant" /\ l.use.has)
    IN IF lines = <<>> THEN NoUsage ELSE FoldSeq(LAMBDA l, n : n + ToCount(l.use), 0, lines)
\* UsageFromJSONL: the lines of one API call repeat its usage, so the first of each is added.
ClaudeUsage(file) ==
    LET lines == SelectSeq(ParseFromBytes(file), LAMBDA l : l.type = "assistant" /\ l.use.has)
        key(i) == IF lines[i].id # "" THEN <<"id", lines[i].id>> ELSE <<"line", lines[i].uuid>>
        first == {i \in DOMAIN lines : \A j \in 1..(i - 1) : key(j) # key(i)}
    IN IF lines = <<>> THEN NoUsage
       ELSE FoldSet(LAMBDA i, n : n + ToCount(lines[i].use), 0, first)

-----------------------------------------------------------------------------
\* Codex: a rollout's envelopes.
ParseRollout(file) == SelectSeq(file, LAMBDA l : l.json)
CanonicalRole(r) == IF r \in {"user", "assistant"} THEN r ELSE "system"
ToolEvents(l) ==
    IF l.kind \in {"function_call", "custom_tool_call"} THEN <<Event("assistant", "tool_use", "", l.tool)>>
    ELSE <<Result(l.tool, l.blocks[1].text)>>
IsTool(l) == l.kind \in {"function_call", "custom_tool_call", "function_call_output", "custom_tool_call_output"}
CodexEvents(file) ==
    OfBlocks(ParseRollout(file), LAMBDA l :
        CASE l.type # "response_item" \/ ~l.payload -> <<>>
          [] l.kind = "message" ->
               OfBlocks(l.blocks, LAMBDA b : TextEvent(CanonicalRole(l.role),
                   IF l.role = "user" THEN StripIDEContextTags(b.text) ELSE b.text))
          [] IsTool(l) -> ToolEvents(l)
          [] OTHER -> <<>>)
\* DecodeEntry: the message of a user comes from event_msg, the model's work from response_item, a
\* turn's start and end, and the message codex starts a turn of its own with, as facts.
Bare(l) == Gives(<<Event("", "entry", l.kind, "")>>)
CodexDecodeEntry(l) ==
    CASE ~l.json -> Fails
      [] ~l.payload -> Gives(<<>>)
      [] l.type = "event_msg" ->
            (CASE l.kind \in {"user_message", "item_completed"} -> Gives(<<Event("user", "text", l.blocks[1].text, "")>>)
              [] l.kind \in {"task_started", "task_complete", "turn_aborted"} -> Bare(l)
              [] OTHER -> Gives(<<>>))
      [] l.type = "response_item" /\ l.kind = "message" ->
            (CASE l.role = "user" /\ l.blocks # <<>> /\ l.blocks[1].text = "goal" -> Bare([l EXCEPT !.kind = "goal_context"])
              [] l.role = "assistant" -> Gives(OfBlocks(l.blocks, LAMBDA b :
                     IF b.type = "output_text" THEN TextEvent("assistant", b.text) ELSE <<>>))
              [] OTHER -> Gives(<<>>))
      [] l.type = "response_item" /\ IsTool(l) -> Gives(ToolEvents(l))
      [] OTHER -> Gives(<<>>)

-----------------------------------------------------------------------------
\* pi: one unreadable line fails the whole-file read; the roles that are no one's are passed over.
NormalizeRole(r) == CASE r \in {"user", "assistant"} -> r
                      [] r \in {"toolResult", "tool", "system"} -> "system"
                      [] OTHER -> ""
Texts(l) == SelectSeq(l.blocks, LAMBDA b : b.type = "text" /\ b.text # "")
PiRead(file) ==
    IF \E i \in DOMAIN file : ~file[i].json THEN Fails
    ELSE Gives(OfBlocks(file, LAMBDA l :
           IF l.type # "message" \/ ~l.payload \/ NormalizeRole(l.role) = "" \/ Texts(l) = <<>> THEN <<>>
           ELSE <<Event(NormalizeRole(l.role), "text", [i \in DOMAIN Texts(l) |-> Texts(l)[i].text], "")>>))
PiDecodeEntry(l) ==
    LET entry == Gives(<<Event("", "entry", IF l.sub = "hw.input" THEN l.id ELSE "", "")>>)
        joined == [i \in DOMAIN Texts(l) |-> Texts(l)[i].text]
        work == OfBlocks(l.blocks, LAMBDA b :
                    CASE b.type = "text" -> TextEvent("assistant", b.text)
                      [] b.type = "toolCall" -> <<Event("assistant", "tool_use", "", b.tool)>>
                      [] OTHER -> <<>>)
    IN CASE ~l.json -> Fails
         [] l.id = "" \/ l.type = "session" -> Gives(<<>>)
         [] l.type # "message" \/ ~l.payload -> entry
         [] l.role = "user" -> Gives(<<Event("user", "text", joined, "")>>)
         [] l.role = "assistant" /\ work # <<>> -> Gives(work)
         [] l.role = "toolResult" -> Gives(<<Result(l.tool, joined)>>)
         [] OTHER -> entry

-----------------------------------------------------------------------------
\* TurnsFromEvents: the chat view of an event stream.
TurnsFromEvents(events) ==
    LET said == SelectSeq(events, LAMBDA e : e.text # "")
    IN [i \in DOMAIN said |-> [role |-> IF said[i].role = "" THEN "system" ELSE said[i].role, text |-> said[i].text]]
\* A reader that resumes at a line number: the file cut there, or the parse that skips to it.
SliceFromLine(file, n) == IF n <= 0 THEN file ELSE IF Len(file) < n THEN <<>> ELSE SubSeq(file, n + 1, Len(file))
ParseFromFileAtLine(file, n) == ParseFromBytes(SelectSeq([i \in DOMAIN file |-> [file[i] EXCEPT !.json = @ /\ i > n]],
                                                         LAMBDA l : l.json))

-----------------------------------------------------------------------------
\* Codex names no launch in a rollout: its meta has the directory, when the session started (or when
\* the line was written), and whether codex started it for itself.  Times are in half seconds.
NoTime == -1
Started(m) == IF m.start # NoTime THEN m.start ELSE m.written
Candidates(metas, dir, launched, since) ==
    {m.id : m \in {x \in metas : /\ x.ok /\ x.id # "" /\ ~x.subagent /\ x.dir = dir
                                 /\ launched = 0 \/ (Started(x) # NoTime /\ Started(x) >= since)}}
\* Mutant: the clock of the launch, as it is.
LocateExactly(metas, dir, launched) ==
    LET ids == Candidates(metas, dir, launched, launched)
    IN IF Cardinality(ids) = 1 THEN CHOOSE i \in ids : TRUE ELSE None
LocateLaunchSession(metas, dir, launched) ==
    LET ids == Candidates(metas, dir, launched, (launched \div 2) * 2)
    IN IF Cardinality(ids) = 1 THEN CHOOSE i \in ids : TRUE ELSE None
\* LocateLatestSession: the last written in the directory, whoever started it.
LocateLatestSession(metas, dir) ==
    LET here == {m \in metas : m.ok /\ m.id # "" /\ m.dir = dir}
    IN IF here = {} THEN None ELSE (CHOOSE m \in here : \A n \in here : m.mod >= n.mod).id
\* pi's files are named for their session, and one name may hold another's: the header decides.
Names(f, id) == id \in f.named
FindInDir(dir, id) == SelectSeq(dir, LAMBDA f : Names(f, id) /\ f.header = id)
PiLocate(slug, dirs, id) ==
    LET found == FindInDir(slug, id) \o FlattenSeq([i \in DOMAIN dirs |-> FindInDir(dirs[i], id)])
    IN IF found = <<>> THEN None ELSE found[1].header
=============================================================================
