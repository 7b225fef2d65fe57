---------------------------- MODULE MCFunctions ----------------------------
(***************************************************************************)
(* The pure functions of the wrapper, checked over every input up to a     *)
(* bound: the input of the part under study grows by one token a step, and *)
(* the invariants say what the functions make of it.                       *)
(***************************************************************************)
EXTENDS Integers, Sequences, TLC

L == INSTANCE Launch
R == INSTANCE Reading
D == INSTANCE Dialogs

CONSTANT MaxInput          \* the longest input of each part

VARIABLES part, input
vars == <<part, input>>

Argv == { L!Token("--permission-mode", ""), L!Token("-s", ""), L!Token("-s", "danger-full-access"),
          L!Token("--permission-mode", "plan"), L!Token("-a", "never"), L!Token("skip", ""),
          L!Token("bypass-all", ""), L!Token("", "bypassPermissions"), L!Token("", "workspace-write"),
          L!Token("", "word") }
\* A small file system: a work tree, another home, the managed state of this
\* session and another, a caller's StateDir, and cgroupfs.
Tree == { <<>>, <<"work">>, <<"work", "sub">>, <<"user">>, L!StateParent, L!Own \o <<"tmp">>,
          L!StateParent \o <<"other">>, <<"user", "dir">>, <<"user", "dir", "home">>, <<"sys">>, L!CgroupRoot,
          <<"absent">> }
Command == { L!F("tmux-session", "s"), L!F("model", "m"), L!F("permission-mode", "plan"),
             L!F("permission-mode", "bypass"), L!F("sandbox-defaults", ""), L!F("contain", "landlock"),
             L!F("contain-rw", "/p"), L!F("contain-ro", "/q"), L!F("contain-restrict-tcp", ""),
             L!F("contain-allow-tcp", "443"), L!Word("claude"), L!Sep }
\* Session files: the lines each harness writes, and torn ones.
Text(t) == [type |-> "text", text |-> t, tool |-> ""]
Block(k, tool) == [type |-> k, text |-> "out", tool |-> tool]
Blank == [json |-> TRUE, fits |-> TRUE, payload |-> TRUE, type |-> "", kind |-> "", role |-> "", body |-> "array",
          blocks |-> <<>>, id |-> "", uuid |-> "", stop |-> "", api |-> "", sub |-> "", use |-> [has |-> FALSE, number |-> FALSE, value |-> 0], tool |-> ""]
Torn == [Blank EXCEPT !.json = FALSE]
Count(n) == [has |-> TRUE, number |-> TRUE, value |-> n]
ClaudeLines ==
    LET user == [Blank EXCEPT !.type = "user"]
        reply == [Blank EXCEPT !.type = "assistant", !.id = "m1", !.use = Count(2)]
    IN { Torn, [Torn EXCEPT !.json = TRUE, !.fits = FALSE, !.type = "system"], [user EXCEPT !.fits = FALSE],
         [user EXCEPT !.body = "string", !.blocks = <<Text("hi")>>], [user EXCEPT !.body = "bad"],
         [user EXCEPT !.blocks = <<Text("tags"), Block("tool_result", "t1")>>],
         [user EXCEPT !.blocks = <<Text("interrupted")>>],
         [reply EXCEPT !.blocks = <<Text("yes")>>], [reply EXCEPT !.blocks = <<Block("tool_use", "t1")>>],
         [reply EXCEPT !.blocks = <<Block("thinking", "")>>, !.stop = "end_turn", !.id = "m2", !.use = Count(-1)],
         [reply EXCEPT !.blocks = <<Text("")>>, !.api = "overloaded", !.id = "", !.uuid = "u1", !.use = Count(1)],
         [Blank EXCEPT !.type = "system", !.sub = "stop_hook_summary"] }
CodexLines ==
    LET item == [Blank EXCEPT !.type = "response_item", !.kind = "message"]
        said(t) == [type |-> "output_text", text |-> t, tool |-> ""]
        msg(k) == [Blank EXCEPT !.type = "event_msg", !.kind = k]
    IN { Torn, [item EXCEPT !.payload = FALSE], [item EXCEPT !.role = "user", !.blocks = <<Text("hi")>>],
         [item EXCEPT !.role = "user", !.blocks = <<Text("goal")>>], [item EXCEPT !.role = "developer", !.blocks = <<Text("be")>>],
         [item EXCEPT !.role = "assistant", !.blocks = <<said("a"), said(""), said("b")>>],
         [item EXCEPT !.kind = "function_call", !.tool = "t1"],
         [item EXCEPT !.kind = "custom_tool_call_output", !.tool = "t1", !.blocks = <<Text("out")>>],
         [item EXCEPT !.kind = "reasoning"], msg("task_started"), msg("task_complete"), msg("other"),
         [msg("user_message") EXCEPT !.blocks = <<Text("hi")>>], [msg("token_count") EXCEPT !.use = Count(3)], msg("token_count") }
PiLines ==
    LET said(r) == [Blank EXCEPT !.type = "message", !.role = r, !.id = "e"]
    IN { Torn, [Blank EXCEPT !.type = "session", !.id = "s"], [Blank EXCEPT !.type = "custom", !.sub = "hw.input", !.id = "i"],
         [said("user") EXCEPT !.blocks = <<Text("hi"), Text("there")>>], said("user"), [said("system") EXCEPT !.blocks = <<Text("be")>>],
         [said("assistant") EXCEPT !.blocks = <<Text("a"), Block("toolCall", "t1"), Text("b")>>],
         [said("assistant") EXCEPT !.blocks = <<Text("")>>], [said("assistant") EXCEPT !.payload = FALSE],
         [said("toolResult") EXCEPT !.blocks = <<Text("out")>>, !.tool = "t1"], [said("notice") EXCEPT !.blocks = <<Text("x")>>] }
\* Rollouts, the launch's own first: started no earlier than the second it was launched in.
LaunchedAt == 5
Metas == {[id |-> i, dir |-> d, start |-> t, written |-> 7, subagent |-> b, ok |-> TRUE, mod |-> n] :
            i \in {"own", "x", "y"}, d \in {"here", "else"}, t \in {3, 4, 5, 6, R!NoTime}, b \in BOOLEAN, n \in {1, 2}}
PiFiles == {[named |-> n, header |-> h] : n \in {{"id"}, {"id", "id2"}, {"z"}}, h \in {"id", "id2", R!None}}
\* An Agent Spec, item by item; what another item belongs to comes before it.
Item(add, name, path, size) == [add |-> add, name |-> name, path |-> path, size |-> size]
SpecItems ==
    { Item("model", "anthropic", <<>>, 0), Item("model", "other", <<>>, 0), Item("effort", "max", <<>>, 0),
      Item("posture", "gated", <<>>, 0), Item("credential", "api_key", <<>>, 0), Item("policy", "strict", <<>>, 0),
      Item("persona", "", <<>>, 1), Item("persona", "", <<>>, 3), Item("workspace", "", <<>>, 2) }
    \union {Item("skill", n, q, z) : n \in {"s", "t", ".."}, q \in {<<"SKILL.md">>, <<"x">>, <<"..", "x">>}, z \in {1, 3}}
    \union {Item("memory", "", q, 2) : q \in {<<"x">>, <<"SKILL.md">>}}
    \union {Item("connector", n, <<"http">>, 0) : n \in {"s", "t", "a b"}} \union {Item("connector", "s", <<"stdio">>, 0)}
    \union {Item("header", n, <<o[1], o[2]>>, 0) : n \in {"X-Key", "x-key", "b"},
              o \in {<<"headers", "v">>, <<"headers_env", "VAR">>, <<"headers_file", "secret CRLF">>, <<"headers_file", "control">>}}
Stage == <<"model", "effort", "posture", "credential", "policy", "persona", "workspace", "memory", "skill", "connector", "header">>
\* A load: the source's workspace, then the new one, then its Sessions' own directories.
Directories == {<<"/">>, <<"/", "a">>, <<"/", "a", "/", "b">>, <<"/", "a", "-", "b">>, <<"/", "a", "/", "b", "/", "b">>,
                <<"b">>, <<"b", "/", "b">>, <<"b", "-", "b">>, <<"b", ".", "b">>}
\* A question: the pane as it was raised, as it is when the answer is written, then the options and
\* the words of the answer.
Panes(highlights, typed) ==
    { D!Pane(TRUE, 2, h, c, t) : h \in highlights, c \in SUBSET {1, 2}, t \in typed }
    \union { D!Pane(FALSE, 2, h, {}, t) : h \in highlights, t \in typed }
Raised == Panes({1, 3}, {<<>>})
Live   == Panes({1, 3, 4}, {<<>>, <<"old">>})
Name(id, alias, label) == [id |-> id, alias |-> alias, label |-> label, word |-> ""]
Names  == { Name(1, "", <<>>), Name(0, "", <<"blue">>), Name(0, "other", <<>>), Name(4, "", <<>>) }
Answers == Names \union { [Name(0, "", <<>>) EXCEPT !.word = w] : w \in {"new", "\n"} }
\* The conversation above a dialog of claude's: prose, an anchor a reply quotes, the echo of a prompt,
\* a rule; and above one of codex's: prose, quoted phrases, a list, the echo of a numbered prompt.
ScrollLines == { D!Words("text", <<"prose">>), D!Words("anchor", <<"bypass">>), D!Words("anchor", <<"trust">>), D!Line("tab"),
                 D!Row(<<"prompt">>, TRUE, 2), D!Line("rule"), D!Blank }
CodexScroll == { D!Words("says", <<x>>) : x \in {"prose", "update", "press enter", "migration", "run the command", "make the edits"} }
               \union { D!Numbered(1, <<"apple">>, FALSE), D!Numbered(2, <<"no">>, FALSE), D!Numbered(4, <<"yes">>, TRUE) }
Alphabet(p) ==
    CASE p = "argv"       -> Argv
      [] p = "thresholds" -> {-1, 0, 10, 90, 400}
      [] p = "lines"      -> R!Lines
      [] p = "bytes"      -> {"x", "\n", "u", "E", "[", "]", "D", "\\", "B", "C", "i", "p"}
      [] p = "reads"      -> {"x", "\n", "cut"}
      [] p = "screen"     -> {"x", "esc", "[", ">", "?", "u", "L", "c", "cut"}
      [] p = "login"      -> {"h", "x", "P", " ", "\n"}
      [] p = "grants"     -> {[of |-> f, path |-> q] : f \in {"wd", "ro", "rw", "state"}, q \in Tree}
      [] p = "command"    -> Command
      [] p = "claude file" -> ClaudeLines
      [] p = "codex file"  -> CodexLines
      [] p = "pi file"     -> PiLines
      [] p = "rollouts"    -> Metas
      [] p = "pi files"    -> PiFiles
      [] p = "spec"        -> SpecItems
      [] p = "load"        -> Directories
      [] p = "question"    -> Raised \union Live \union Answers
      [] p = "dialog"      -> ScrollLines
      [] p = "codex screen" -> CodexScroll
      [] p = "credential"  -> {"s", "-", "S", " ", "\n"}
Parts == {"argv", "thresholds", "lines", "bytes", "reads", "screen", "login", "grants", "command",
          "claude file", "codex file", "pi file", "rollouts", "pi files", "spec", "load", "credential",
          "question", "dialog", "codex screen"}

\* A launch names each kind of path once, in this order.
Fields == <<"wd", "state", "ro", "rw">>
Follows(c) ==
    part = "grants" =>
      \A i \in DOMAIN input : \E m, n \in 1..4 : Fields[m] = input[i].of /\ Fields[n] = c.of /\ m < n

\* The launch's own rollout, and no other session's id twice.
FollowsOwn(c) ==
    part = "rollouts" =>
      /\ input = <<>> => c.id = "own" /\ c.dir = "here" /\ ~c.subagent /\ (c.start = R!NoTime \/ c.start >= 4)
      /\ \A i \in DOMAIN input : input[i].id # c.id

FollowsItem(c) ==
    /\ part = "spec" /\ input # <<>> =>
         LET at(add) == CHOOSE i \in DOMAIN Stage : Stage[i] = add
         IN  /\ at(input[Len(input)].add) <= at(c.add)
             /\ at(c.add) <= 7 => input[Len(input)].add # c.add
    /\ part = "spec" /\ c.add = "header" => \E i \in DOMAIN input : input[i].add = "connector" /\ input[i].path = <<"http">>
    /\ part = "load" => (Len(input) < 2 <=> Head(c) = "/")
    /\ part = "question" =>
         CASE input = <<>> -> c \in Raised
           [] Len(input) = 1 -> c \in Live /\ c.multi = input[1].multi
           [] OTHER -> c \in Answers /\ (Len(input) > 2 /\ input[Len(input)].word # "" => c.word # "")

Init == part \in Parts /\ input = <<>>
Next == /\ Len(input) < MaxInput[part]
        /\ \E c \in Alphabet(part) : Follows(c) /\ FollowsOwn(c) /\ FollowsItem(c) /\ input' = Append(input, c)
        /\ UNCHANGED part
Spec == Init /\ [][Next]_vars

MCMaxInput == [argv |-> 4, thresholds |-> 3, lines |-> 4, bytes |-> 4, reads |-> 9, screen |-> 4, login |-> 6,
               grants |-> 4, command |-> 4] @@
               ("claude file" :> 3 @@ "codex file" :> 3 @@ "pi file" :> 3 @@ "rollouts" :> 3 @@ "pi files" :> 3 @@
                "spec" :> 3 @@ "load" :> 5 @@ "credential" :> 5 @@
                "question" :> 5 @@ "dialog" :> 4 @@ "codex screen" :> 4)

-----------------------------------------------------------------------------
Modes == {"", "plan", "manual", "ask", "auto", "bypass", "acceptEdits", "dontAsk",
          "bypassPermissions", "read-only", "danger-full-access"}
Harnesses == {"claude", "codex", "opencode"}

\* A launch Start accepts runs unrestricted exactly when EffectiveLaunchRung
\* calls it bypass, whatever the caller's argv already holds and in whatever
\* order: the field that containment and the permission ring rely on neither
\* misses a bypass nor invents one.
BypassIsReported ==
    part = "argv" =>
      \A h \in {"claude", "codex"}, m \in Modes :
        L!ValidPermissionMode(h, input, m) =>
          LET argv == L!InjectPermissionMode(h, input, m)
          IN  L!HarnessRuns(h, argv) = "unrestricted" <=>
                {L!EffectiveLaunchRung(h, argv, m), L!EffectiveLaunchRung(h, input, m)} = {"bypass"}

\* A restricted mode that Start accepts is what the harness runs, unless the
\* caller's own argv set the axis: it is never launched beside a flag that
\* lifts every restriction, and never left out of argv.
RestrictionIsKept ==
    part = "argv" =>
      \A h \in Harnesses, m \in Modes \ {""} :
        L!ValidPermissionMode(h, input, m) /\ ~L!IsBypassMode(h, m) =>
          LET argv == L!InjectPermissionMode(h, input, m)
          IN  /\ ~L!ContainsFlag(argv, L!BypassEnablingFlags(h))
              /\ ~L!ContainsFlag(input, L!PermissionFlags(h)) =>
                   L!HarnessRuns(h, argv) = IF h = "claude" THEN L!ClaudeMode(m) ELSE L!CodexSandbox(m)

\* applyDefaults: a threshold left to its default never undercuts an earlier
\* one that the caller set.
NoDefaultUndercuts ==
    part = "thresholds" /\ Len(input) = 3 /\ L!ValidThresholds(input[1], input[2], input[3]) =>
      LET d == L!ApplyDefaults(input[1], input[2], input[3])
      IN  /\ input[2] = 0 => d.classify >= d.quiet
          /\ input[3] = 0 => d.stale >= d.classify

\* A run that must outlive its walls (ADR-006) never sees an idle pass: without
\* one the only verdict that ends a run is the session-limit banner, and no
\* phrase in the output, in any order, makes another.
OnlyBannerEndsLive ==
    part = "lines" =>
      \A h \in Harnesses, quiet \in BOOLEAN :
        R!ClassifyOutput(h, input, quiet, FALSE).terminal =>
          h = "claude" /\ R!Holds(input, "banner")

\* A wall is not hidden by what came before it: when the output ends with a
\* cost phrase, an idle pass stops the run, even if an API error that both
\* matchers recognise stands earlier.
LastWallStops ==
    part = "lines" /\ input # <<>> =>
      \A h \in {"claude", "codex"} :
        LET cost == R!MatchAny(input, R!CostPhrases(h))
        IN  cost # "" /\ input[Len(input)] = cost =>
              R!ClassifyOutput(h, input, FALSE, TRUE).status = "blocked_by_cost"

\* The wide table for finished runs only fills a gap: a class the live matchers
\* reached stands, except that a transient failure may turn into a timeout, and
\* a number inside a timestamp condemns nothing.
ResidualFillsGaps ==
    part = "lines" =>
      \A h \in Harnesses :
        LET live == R!ClassifyOutput(h, input, FALSE, TRUE).class
            done == R!FinishedClass(h, input)
        IN  /\ live # "None" => done = live \/ (live = "Transient" /\ done = "Timeout")
            /\ R!ToSet(input) \subseteq {"plain", "millis", "prompt"} => done = "None"

-----------------------------------------------------------------------------
\* The text a poll reads is a prefix of what any later poll reads, wherever the
\* two polls cut an escape sequence.
StripGrows ==
    part = "bytes" => \A n \in 0..Len(input) : R!IsPrefix(R!Strip(SubSeq(input, 1, n)), R!Strip(input))

\* ECMA-48's own definition of a whole control sequence.
WellFormed(s) ==
    LET inner == SubSeq(s, 3, Len(s) - 1)
        In(t, S) == R!ToSet(t) \subseteq S
    IN  /\ Len(s) >= 2 /\ s[1] = "E"
        /\ \/ s[2] = "[" /\ Len(s) >= 3 /\ s[Len(s)] \in {"x", "[", "]", "D", "\\"} /\ In(inner, {"i", "p"})
           \/ s[2] = "]" /\ Len(s) >= 3 /\ s[Len(s)] = "B"
              /\ R!ToSet(inner) \cap {"E", "B", "C"} = {}
           \/ s[2] \in {"]", "D"} /\ Len(s) >= 4 /\ s[Len(s)] = "\\" /\ s[Len(s) - 1] = "E"
              /\ R!ToSet(SubSeq(s, 3, Len(s) - 2)) \cap (IF s[2] = "]" THEN {"E", "B", "C"} ELSE {"E", "C"}) = {}
           \/ Len(s) = 2 /\ s[2] \in {"x", "p", "\\"}
\* A whole control sequence leaves no trace: the text is that of the bytes
\* around it, so a window title or a link quoting a wall is never read as one.
SequencesVanish ==
    part = "bytes" =>
      \A i \in 0..Len(input) : \A j \in (i + 2)..Len(input) :
        R!Parse(SubSeq(input, 1, i)).state = "ground" /\ WellFormed(SubSeq(input, i + 1, j)) =>
          R!Strip(input) = R!Strip(SubSeq(input, 1, i)) \o R!Strip(SubSeq(input, j + 1, Len(input)))

\* The durable line tap delivers the same lines however the reads cut them.
LinesIgnoreCuts ==
    part = "reads" => R!TapLines(input) = R!TapLines(R!Bytes(input))

\* A keep-alive pass reads everything retained since its mark, and a line cut by
\* the mark whole, for every mark and every cut.
PassReadsWholeLines ==
    part = "reads" =>
      LET limit == 4
          r     == R!Recent(input, limit)
          all   == R!Bytes(input)
      IN  /\ r.total = Len(all) /\ R!IsSuffix(r.buf, all)
          /\ \A mark \in 0..r.total :
               LET text == R!TextFrom(r, mark)
                   from == r.total - Len(text)
               IN  /\ R!IsSuffix(text, all)
                   /\ \/ from = r.total - Len(r.buf)
                      \/ from <= mark /\ all[from] = "\n"

\* The emulator is handed the same bytes however the reads cut them, a sequence it
\* would misread never, and a character always in one write, which it decodes alone.
Spelled(bytes) ==
    /\ \A k \in DOMAIN bytes : bytes[k] = "c" =>
          (k > 1 /\ bytes[k - 1] = "L") \/ (k > 2 /\ bytes[k - 1] = "c" /\ bytes[k - 2] = "L")
    /\ \A k \in DOMAIN bytes : bytes[k] = "L" =>
          \A n \in 1 .. 2 : k + n <= Len(bytes) => bytes[k + n] = "c"
ScreenIgnoresCuts ==
    part = "screen" =>
      LET cut  == R!Screen(input, 64)
          once == R!Screen(R!Bytes(input), 64)
      IN  /\ R!FlattenSeq(cut.given) = R!FlattenSeq(once.given)
          /\ Spelled(R!Bytes(input)) =>
               \A i \in DOMAIN cut.given :
                 LET w == cut.given[i]
                 IN  w # <<>> => w[1] # "c" /\ \A k \in DOMAIN w : w[k] = "L" => k + 2 <= Len(w)
          /\ \A k \in 1 .. Len(once.given[1]) - 3 :
               SubSeq(once.given[1], k, k + 3) \notin { <<"esc", "[", ">", "u">>, <<"esc", "[", "?", "u">> }

\* The sign-in page a login reports is never one that a write cut short: once
\* found, the rest of the output does not change it.
PromptIsWhole ==
    part = "login" =>
      \A wants \in BOOLEAN, n \in 0..Len(input) :
        LET early == R!LoginPrompt(SubSeq(input, 1, n), wants)
        IN  early.found => R!LoginPrompt(input, wants) = early

-----------------------------------------------------------------------------
\* The launch an input of grants asks for, on every host.
Named(f) == {input[i].path : i \in {j \in DOMAIN input : input[j].of = f}}
OneOf(S, default) == IF S = {} THEN default ELSE CHOOSE p \in S : TRUE
Existing == (Tree \ {<<"absent">>}) \cup {<<"usr">>}
Hosts == { [abi |-> 5, layer |-> {}], [abi |-> 7, layer |-> {}], [abi |-> 9, layer |-> {}],
           [abi |-> 7, layer |-> {<<"work">>, <<"user">>}],
           [abi |-> 7, layer |-> {<<"work">>, L!StateParent, <<"user", "dir", "home">>}] }
Launches ==
    { [wd |-> OneOf(Named("wd"), <<"work">>), ro |-> Named("ro"), rw |-> Named("rw"),
       stateDir |-> OneOf(Named("state"), L!None), minABI |-> m, login |-> FALSE, supervise |-> FALSE,
       fs |-> IF fresh THEN Existing \ {p \in Existing : L!contains(L!StateParent, p)} ELSE Existing,
       sibling |-> fresh, abi |-> h.abi, layer |-> h.layer, cgroups |-> TRUE] :
       m \in {0, 9}, h \in Hosts, fresh \in BOOLEAN }

\* A contained launch gives what its policy says and no more: a path granted
\* read-only cannot be written through any other rule, another session's
\* private state and cgroupfs stay out of reach, and without RESOLVE_UNIX
\* every writable place is one where the socket layer holds.
GrantsAreKept ==
    part = "grants" =>
      \A in \in Launches : L!Prepare(in) =>
        LET grants == L!CollectGrants(in)
            rights(p) == L!Rights(grants, p)
        IN  /\ \A p \in in.ro : "read" \in rights(p) /\ "write" \notin rights(p)
            /\ \A p \in in.rw \cup {in.wd} \cup L!StatePins(in) : "write" \in rights(p)
            /\ rights(L!StateParent \o <<"other">>) = {}
            /\ "write" \notin rights(L!CgroupRoot) \cup rights(L!CgroupRoot \o <<"session">>)
            /\ in.abi >= L!RequiredABI(in)
            /\ in.abi < L!ResolveUnixABI =>
                 \A p \in Existing : "write" \in rights(p) => L!Covers(in, p)

\* contain-check foretells the launch: they disagree only where the preview
\* does not look inside the state it cannot allocate (a read-only path inside
\* the directories provisioned there is refused by the launch alone), and
\* where it looks at all of a StateDir for the socket layer.
PreviewForetells ==
    part = "grants" =>
      \A in \in Launches :
        /\ L!WouldLaunch(in) => L!Prepare(in) \/ L!ReadOnlyInside(in, L!StatePins(in))
        /\ L!Prepare(in) => \/ L!WouldLaunch(in)
                            \/ L!Sockets(in) /\ in.stateDir # L!None /\ ~L!Covers(in, in.stateDir)

\* The pane of a tmux-backed run is launched as the caller asked: the argv the
\* parent rebuilds is accepted and means the same, whatever the order the flags
\* came in; dropping one would run the harness unrestricted or uncontained.
PaneRunsAsAsked ==
    part = "command" =>
      \A a \in {L!Parse(input)} :
        a.ok /\ a.session # "" /\ ~a.sandbox /\ L!ValidRequest(a.contain) =>
          \A b \in {L!Parse(L!TmuxReexecArgv(a))} :
            /\ b.ok /\ b.child = a.session /\ b.session = ""
            /\ <<b.mode, b.model, b.harness, b.args, b.sandbox>> = <<a.mode, a.model, a.harness, a.args, FALSE>>
            /\ L!Normalize(b.contain) = L!Normalize(a.contain)

\* With --sandbox-defaults claude runs unrestricted on exactly one directive:
\* the flag it adds and the permission mode never both stand in argv, and the
\* environment half is never added for anything else.
OneDirective ==
    part = "command" =>
      \A a \in {L!Parse(input)} : a.ok =>
        \A run \in {L!RunArgs(a, {})} :
          /\ "IS_SANDBOX" \in run.env <=> a.sandbox
          /\ a.sandbox => \A argv \in {L!InjectPermissionMode(a.harness, run.args, a.mode)} :
               /\ L!Cardinality({i \in DOMAIN argv : argv[i].flag \in L!PermissionFlags("claude")}) = 1
               /\ L!HarnessRuns("claude", argv) = "unrestricted"

-----------------------------------------------------------------------------
Followed(decode(_)) == R!OfBlocks(input, LAMBDA l : decode(l).events)
Flat(events) == R!OfBlocks(events, LAMBDA e : IF e.role \in {"user", "assistant"} /\ e.type = "text"
                    THEN (IF e.role = "user" THEN [i \in DOMAIN e.text |-> <<"user", e.text[i]>>] ELSE <<<<"assistant", e.text>>>>)
                    ELSE <<>>)
Whole(events) == R!OfBlocks(events, LAMBDA e : IF e.role = "system" THEN <<>>
                    ELSE [i \in DOMAIN e.text |-> <<e.role, e.text[i]>>])
Work(events) == SelectSeq(events, LAMBDA e : e.role \in {"assistant", "tool"})
\* The same file gives the same conversation read whole, for the history, and line by line, by the
\* follower a Record keeps; and the follower reports as unreadable only a torn line or one that
\* holds conversation, never an entry of claude's that was not conversation at all.
FollowedAsRead ==
    /\ part = "claude file" =>
         /\ R!ClaudeEvents(input) = Followed(R!DecodeRecord)
         /\ \A i \in DOMAIN input : LET l == input[i] IN
              /\ ~R!DecodeRecord(l).ok => ~l.json \/ l.type \in {"user", "assistant"}
              /\ SelectSeq(R!ClaudeDecodeEntry(l).entries, LAMBDA e : e.event.type # "entry")
                   = [j \in DOMAIN R!DecodeRecord(l).events |-> [event |-> R!DecodeRecord(l).events[j], meta |-> R!ClaudeFacts(l)]]
         /\ \A i \in DOMAIN R!TurnsFromEvents(R!ClaudeEvents(input)) :
              R!TurnsFromEvents(R!ClaudeEvents(input))[i].role \in {"user", "assistant"}
         /\ \A n \in 0..3 : R!ParseFromFileAtLine(input, n) = R!ParseFromBytes(R!SliceFromLine(input, n))
    /\ part = "codex file" => Work(R!CodexEvents(input)) = Work(Followed(R!CodexDecodeEntry))
    /\ part = "pi file" /\ R!PiRead(input).ok => Flat(Followed(R!PiDecodeEntry)) = Whole(R!PiRead(input).events)

\* What ends a turn reaches the record even from a line that says nothing: a stop reason beside
\* thinking, an API error, the summary of the Stop hooks, codex's start and end of a turn.
EndsAreSeen ==
    /\ part = "claude file" => \A i \in DOMAIN input :
         LET f == R!ClaudeFacts(input[i])
             d == R!ClaudeDecodeEntry(input[i])
         IN d.ok /\ (f.stop # "" \/ f.api # "" \/ f.hooksRan) =>
              d.entries # <<>> /\ \A j \in DOMAIN d.entries : d.entries[j].meta = f
    /\ part = "codex file" => \A i \in DOMAIN input :
         input[i].kind \in {"task_started", "task_complete"} => R!CodexDecodeEntry(input[i]).events # <<>>

\* A session's usage counts each API call once, however many lines repeat it; a call's count that
\* is no positive number adds nothing.
UsageOncePerCall ==
    part = "claude file" =>
      LET calls == {<<l.id, l.uuid, l.use.value>> : l \in {x \in R!ToSet(input) : x.type = "assistant" /\ x.use.has}}
      IN R!ClaudeUsage(input) = IF calls = {} THEN R!NoUsage
           ELSE R!FoldSet(LAMBDA c, n : n + (IF c[3] > 0 THEN c[3] ELSE 0), 0, calls)

\* The session a launch is said to have started is its own whenever its own has been written, or
\* none when another started in its directory since: an earlier session there, or one codex started
\* for itself, is never taken for it, and does not hide it.  A pi session's file is the one whose
\* header says so.
LocatedIsOwn ==
    /\ part = "rollouts" /\ input # <<>> =>
         LET found == R!LocateLaunchSession(R!ToSet(input), "here", LaunchedAt)
             rivals == {m \in R!ToSet(input) : m.id # "own" /\ m.dir = "here" /\ ~m.subagent /\ (m.start = R!NoTime \/ m.start >= 4)}
         IN /\ found = IF rivals = {} THEN "own" ELSE R!None
            /\ (\A m \in R!ToSet(input) : m.dir = "here" => m.id = "own")
                 => found = R!LocateLatestSession(R!ToSet(input), "here")
    /\ part = "pi files" => R!PiLocate(<<>>, <<input>>, "id") \in {"id", R!None}

-----------------------------------------------------------------------------
\* The Agent Spec the items make.
NoLoad == [has |-> FALSE, harness |-> "", format |-> 1, version |-> "pin", workspace |-> <<>>, dirs |-> <<>>]
Layout(ws) == [home |-> <<"/", "h">>, config |-> <<"/", "c">>, workspace |-> ws, secrets |-> <<"/", "s">>, scratch |-> <<"/", "t">>]
Bare == [model |-> "", effort |-> "", posture |-> "", credential |-> "", policy |-> "", minor |-> 9, persona |-> 0,
         workspace |-> 0, memory |-> <<>>, skills |-> <<>>, connectors |-> <<>>]
WithItem(s, t) ==
    CASE t.add = "model" -> [s EXCEPT !.model = t.name]
      [] t.add = "effort" -> [s EXCEPT !.effort = t.name]
      [] t.add = "posture" -> [s EXCEPT !.posture = t.name]
      [] t.add = "credential" -> [s EXCEPT !.credential = t.name]
      [] t.add = "policy" -> [s EXCEPT !.policy = t.name]
      [] t.add = "persona" -> [s EXCEPT !.persona = t.size]
      [] t.add = "workspace" -> [s EXCEPT !.workspace = t.size]
      [] t.add = "memory" -> [s EXCEPT !.memory = Append(@, [path |-> t.path, size |-> t.size])]
      [] t.add = "skill" ->
           LET file == [path |-> t.path, size |-> t.size]
               n == Len(s.skills)
           IN  IF n > 0 /\ s.skills[n].name = t.name THEN [s EXCEPT !.skills[n].files = Append(@, file)]
               ELSE [s EXCEPT !.skills = Append(@, [name |-> t.name, files |-> <<file>>])]
      [] t.add = "connector" ->
           [s EXCEPT !.connectors = Append(@, [name |-> t.name, kind |-> t.path[1], target |-> "url", headers |-> <<>>])]
      [] t.add = "header" ->
           LET n == L!Max({i \in DOMAIN s.connectors : s.connectors[i].kind = "http"})
           IN  [s EXCEPT !.connectors[n].headers = Append(@, [of |-> t.path[1], name |-> t.name, value |-> t.path[2]])]
SpecOf(items) == L!FoldLeft(WithItem, Bare, items)
\* What of the spec must be in some file.
Contents(s) ==
    UNION {{<<"skill", i, j>> : j \in DOMAIN s.skills[i].files} : i \in DOMAIN s.skills}
      \union {<<"memory", i, 0>> : i \in DOMAIN s.memory} \union L!Persona(s)
      \union (IF s.workspace = 0 THEN {} ELSE {<<"workspace", 0, 0>>})

\* An Agent Spec that passes the checks is rendered, whole, by each profile: no combination of
\* skills, memory and connectors makes two files of one place and so an internal error, and each
\* part of the spec is in exactly one file.
SpecIsRendered ==
    part = "spec" =>
      \A p \in L!Profiles :
        LET s == SpecOf(input)
            res == L!Provision(p, s, Layout(<<"/", "w">>), NoLoad)
        IN  /\ res.code \in {"ok", "unsupported", "invalid_spec"}
            /\ res.code = "ok" => \A x \in Contents(s) : L!Cardinality({i \in DOMAIN res.files : x \in res.files[i].holds}) = 1

\* A connector's header reaches its server from the one source that the spec names, under whatever
\* case the name has: no two values compete for it, none is lost, and a value kept in a file is
\* presented without its line end or not at all.
HeadersArrive ==
    part = "spec" =>
      \A p \in L!Profiles :
        LET s == SpecOf(input)
        IN  L!Provision(p, s, Layout(<<"/", "w">>), NoLoad).code = "ok" =>
              \A i \in DOMAIN s.connectors :
                LET c == s.connectors[i]
                    sent == L!Server(p, c)
                IN  /\ \A h, g \in sent : h # g => L!ToLower(h.name) # L!ToLower(g.name)
                    /\ \A h \in L!ToSet(c.headers) :
                         \/ h.of # "headers_file" /\ h \in sent
                         \/ h.of = "headers_file" /\ [h EXCEPT !.value = "secret"] \in sent
                         \/ h.of = "headers_file" /\ \E g \in sent : g.value = "fails"

\* A load that is taken finds each Session where its harness will look: claude's transcripts beneath
\* the directory named for the Session's place in the new workspace, pi's header naming it; and no
\* two places of the saved history become one.
LoadedIsFound ==
    part = "load" /\ Len(input) >= 2 =>
      \A p \in L!Profiles :
        LET dirs == SubSeq(input, 3, Len(input))
            load == [NoLoad EXCEPT !.has = TRUE, !.harness = p, !.workspace = input[1], !.dirs = dirs]
            res == L!Provision(p, [Bare EXCEPT !.model = "openai"], Layout(input[2]), load)
            subs == {<<>>} \union L!ToSet(dirs)
            old(d) == L!Join(input[1], d)
            new(d) == L!Join(input[2], d)
            saved == {L!At("config", L!Project(old(d)).path \o <<"id">>) : d \in subs} \union {L!At("config", <<"memory", "x">>)}
        IN  res.code = "ok" =>
              /\ p = "claude" => \A d \in subs :
                   L!Relocate(res.relocations, L!At("config", L!Project(old(d)).path \o <<"id">>))
                     = L!At("config", L!Project(new(d)).path \o <<"id">>)
              /\ p = "pi" => \A d \in subs :
                   L!RewriteFirstLine(res.rewrites, L!At("config", <<"sessions", "f">>), [cwd |-> old(d)]) = [cwd |-> new(d)]
              /\ \A x, y \in saved : x # y => L!Relocate(res.relocations, x) # L!Relocate(res.relocations, y)
              /\ \A x \in saved : L!Archived(res, x) => L!Archived(res, L!Relocate(res.relocations, x))

\* What stands in for a credential behind a broker never holds it, in the file or in what the harness
\* sends, and the broker puts the credential back for the hosts and headers of one provider: that of
\* the agent's model, where a kind serves several.
PlaceholderHides ==
    part = "credential" =>
      \A p \in L!Profiles, kind \in {"token", "api_key", "access_token", "login"}, m \in {"", "anthropic", "openai"}, w \in {"", "withheld", "held"} :
        LET login == [json |-> TRUE, access |-> input, refresh |-> w, jwt |-> TRUE, idJwt |-> TRUE]
            r == L!Placeholder(p, kind, m, input, login)
        IN  r.code = "ok" =>
              /\ ~L!Holds(r.file, r.secret) /\ ~L!Holds(r.placeholder, r.secret)
              /\ L!Cardinality(r.hosts) = 1
              /\ p = "pi" => r.hosts = {m} /\ r.headers = L!Providers[m].headers
              /\ kind = "login" => w # "held"

-----------------------------------------------------------------------------
\* The answer an input of the question part gives, and what may come of it.
Chosen == SelectSeq(SubSeq(input, 3, Len(input)), LAMBDA c : c.word = "")
Written == LET words == SelectSeq(SubSeq(input, 3, Len(input)), LAMBDA c : c.word # "")
           IN  [i \in DOMAIN words |-> words[i].word]
\* An answer to a pane whose ticks are those it was raised with reports success only when it is the
\* answer claude took, whatever key was lost or typed where it did not belong, wherever the highlight
\* went meanwhile, and whatever frame was half painted when the evidence was read: each option chosen
\* and the text, and nothing beside them but what was ticked or typed already.  An answer that does
\* not fit is refused before a key is written; on the pane it was planned for, one that fits can land.
Took(live, text, ids, picked, r) ==
    CASE ids = <<4>> -> r.pane.at = "chat"
      [] ids # <<4>> /\ ~live.multi /\ text = <<>> -> r.pane.at = "done" /\ r.pane.took = picked
      [] ids # <<4>> /\ ~live.multi /\ text # <<>> -> r.pane.at = "done" /\ r.pane.took = {3} /\ r.pane.typed = text
      [] OTHER -> /\ r.pane.at = "review" /\ picked \subseteq r.pane.took /\ r.pane.took \subseteq picked \union live.checked
                  /\ r.pane.typed = IF text = <<>> THEN live.typed ELSE text
AnswerIsTaken ==
    part = "question" /\ Len(input) > 2 =>
      \A live \in {input[2]}, text \in {D!oneLine(Written)}, asked \in {D!DetectInputDetail(D!Frame(input[1])).req} :
        \A resolved \in {D!answerOptionIDs(asked, Chosen, Written)} :
          \A planned \in {D!PlanAnswer(asked, resolved.ids, Written)} :
            \A outcomes \in {D!runAnswerPlan(asked, planned.steps, live)}, picked \in {{id \in R!ToSet(resolved.ids) : id <= 2}} :
              /\ planned.ok <=> /\ resolved.ok /\ resolved.ids # <<>>
                                /\ ~live.multi \/ 4 \in R!ToSet(resolved.ids) => Len(resolved.ids) = 1
                                /\ 3 \in R!ToSet(resolved.ids) <=> text # <<>>
              /\ planned.ok /\ live.checked = input[1].checked =>
                   \A r \in outcomes : r.ok => Took(live, text, resolved.ids, picked, r)
              /\ planned.ok /\ input[1] = live => \E r \in outcomes : r.ok

\* A dialog of claude's below the conversation, painted as far as its n-th line: the words between
\* the question and the rows, two or three rows, one of them highlighted, a hint.
RowLabels == <<<<"no", "exit">>, <<"yes", "proceed">>, <<"do not", "trust">>>>
DialogOf(a, m, h) == <<D!Words("anchor", <<a>>), D!Words("text", <<"prose">>), D!Blank>>
                     \o [i \in 1..m |-> D!Row(RowLabels[i], i = h, 3)] \o <<D!Line("hint")>>
Moved(h, keys) == h + R!MapThenSumSet(LAMBDA i : IF keys[i].c = "down" THEN 1 ELSE IF keys[i].c = "up" THEN -1 ELSE 0, DOMAIN keys)
\* No prompt is typed into a dialog, however much of it is painted: it is never taken for the
\* composer.  Once it can be read, the keys of a choice reach the row that says it, and a row that
\* refuses never reads as consent.  A conversation that quotes a dialog above the composer is none.
DialogIsRead ==
    part = "dialog" =>
      /\ (\A i \in DOMAIN input : input[i].k # "anchor") =>
           \A a \in R!ToSet(D!dialogAnchors), m \in 2..3 : \A h \in 1..m, n \in 1..(m + 4) :
             \A screen \in {input \o SubSeq(DialogOf(a, m, h), 1, n)} :
               /\ ~D!ReadyForInput(screen)
               /\ \A read \in {D!DetectInputDetail(screen)} :
                    /\ n >= m + 3 => read.det = "ok" /\ Len(read.req.options) = m
                    /\ read.det = "ok" =>
                         /\ read.req.kind = D!KindOf(a)
                         /\ \A i \in DOMAIN read.req.options : \A o \in {read.req.options[i]} :
                              /\ o.label = RowLabels[i] /\ Moved(h, o.keys) = i
                              /\ o.alias = "proceed" <=> i = 2
      /\ \A settled \in {input \o <<D!Line("rule"), D!Row(<<"draft">>, TRUE, 2), D!Line("rule")>>} :
           D!ReadyForInput(settled) /\ ~D!AnchorPresent(settled)

\* What codex paints below its conversation.
Menu == <<D!Numbered(1, <<"update", "now">>, TRUE), D!Numbered(2, <<"skip">>, FALSE), D!Numbered(3, <<"skip", "until">>, FALSE)>>
CodexLive ==
    [ approval  |-> <<D!Words("says", <<"run the command">>), D!Numbered(1, <<"yes">>, TRUE), D!Numbered(2, <<"no">>, FALSE),
                      D!Words("says", <<"press enter to confirm">>)>>,
      update    |-> <<D!Words("says", <<"update">>)>> \o Menu \o <<D!Words("says", <<"press enter">>)>>,
      migration |-> <<D!Words("says", <<"migration">>), D!Words("says", <<"press enter">>), D!Blank>>,
      notice    |-> <<D!Numbered(1, <<"news">>, FALSE), D!Words("says", <<"press enter">>)>>,
      signin    |-> <<D!Words("says", <<"sign in">>), D!Numbered(1, <<"sign in">>, TRUE), D!Words("says", <<"press enter">>)>>,
      composer  |-> <<D!Row(<<"draft">>, TRUE, 2), D!Words("says", <<"status">>)>> ]
\* A key is pressed for the caller only where codex shows an interstitial, and on the update notice
\* only a row that skips: never Update now, never an approval or a sign-in, never into the composer,
\* whatever the conversation above quotes.  An approval that no reply quoted first blocks sends.
DismissIsSafe ==
    part = "codex screen" =>
      \A live \in DOMAIN CodexLive :
        LET screen == input \o CodexLive[live]
            quoted == \E a \in R!ToSet(D!approvalAnchors) : D!Says(input, a) # 0
        IN  \A req \in {D!codexDetectInput(screen)} : \A keys \in {D!AutoDismissKeys(req)} :
              /\ keys # <<>> => live \in {"update", "migration", "notice"}
              /\ live = "update" /\ keys # <<>> => \E i \in 2..3 : keys = <<D!Digit(i), D!Enter>>
              /\ live = "approval" /\ ~quoted => req.kind = "approval_prompt" /\ ~D!codexReadyForInput(screen)
              /\ live = "composer" /\ ~quoted => req = D!None /\ D!codexReadyForInput(screen)
-----------------------------------------------------------------------------
\* What a launch runs is what was asked for: a bypass of permissions is told, no
\* default undercuts a restriction, a contained harness writes where its caller
\* may and its own state is, and the preview foretells the launch (permissions.go,
\* sandbox defaults, containment's grants, the command line of a pane).
LaunchIsAsAsked ==
    /\ BypassIsReported /\ RestrictionIsKept /\ NoDefaultUndercuts
    /\ GrantsAreKept /\ PreviewForetells /\ PaneRunsAsAsked /\ OneDirective

\* Output means the same however it is cut into reads, no escape sequence is left
\* in it, and only what is certain ends a live run (classify, the stripper, the
\* tap, the screen, the login prompt).
OutputIsRead ==
    /\ OnlyBannerEndsLive /\ LastWallStops /\ ResidualFillsGaps
    /\ StripGrows /\ SequencesVanish /\ LinesIgnoreCuts /\ PassReadsWholeLines
    /\ ScreenIgnoresCuts /\ PromptIsWhole

\* A harness's record is read alike live and later, its ends are seen, its usage
\* counted once and its file its own; and what is provisioned is what the
\* harness finds (transcript readers, provision, load).
FilesAreRead ==
    /\ FollowedAsRead /\ EndsAreSeen /\ UsageOncePerCall /\ LocatedIsOwn
    /\ SpecIsRendered /\ HeadersArrive /\ LoadedIsFound /\ PlaceholderHides

\* The keys typed at a dialog choose what was answered, and a dialog is dismissed
\* only by what dismisses it (question.go, answer_plan.go, the dialog detectors).
DialogsAreAnswered == AnswerIsTaken /\ DialogIsRead /\ DismissIsSafe
=============================================================================
