------------------------------- MODULE Launch -------------------------------
(***************************************************************************)
(* How a harness is launched: what it is asked for on the command line, what*)
(* a contained launch may reach, and the files an Agent Spec is rendered to.*)
(***************************************************************************)
EXTENDS Integers, SequencesExt, FiniteSetsExt, Sequences, FiniteSets

-----------------------------------------------------------------------------
(* How wrapper.Start turns a Config into the argv it launches: the checks  *)
(* of validateConfig, the defaults of the three silence thresholds, the    *)
(* injection of the permission flags, and EffectiveLaunchRung, which says  *)
(* afterwards what posture a given argv launches at.                       *)
(* An argv is a sequence of tokens.  A token is a flag, with the value     *)
(* attached to it ("--sandbox=x", "-sx") or "" when the value is the next  *)
(* token, or a bare word (flag "").                                        *)

Token(flag, value) == [flag |-> flag, value |-> value]

PermissionRungs == <<"plan", "manual", "ask", "auto", "bypass">>
RungIndex(rung) == SelectInSeq(PermissionRungs, LAMBDA r : r = rung)

NativeModes(harness) ==
    CASE harness = "claude" -> {"acceptEdits", "dontAsk", "bypassPermissions"}
      [] harness = "codex"  -> {"read-only", "workspace-write", "danger-full-access"}
      [] OTHER              -> {}
IsSupportedMode(harness, mode) == RungIndex(mode) > 0 \/ mode \in NativeModes(harness)

\* The flags that suppress the injection, those that leave the launch
\* unrestricted, and those that carry the value of the permission axis.
PermissionFlags(harness) ==
    CASE harness = "claude" -> {"--permission-mode", "skip"}
      [] harness = "codex"  -> {"-s", "-a", "bypass-all"}
      [] OTHER              -> {}
BypassEnablingFlags(harness) ==
    CASE harness = "claude" -> {"skip"}
      [] harness = "codex"  -> {"bypass-all"}
      [] OTHER              -> {}
AxisFlag(harness) == IF harness = "claude" THEN "--permission-mode" ELSE "-s"

ContainsFlag(args, flags) == \E i \in DOMAIN args : args[i].flag \in flags

\* The operand of the last occurrence, "" when there is none to read.  A
\* separated flag takes the next token whatever it is: one that is itself a
\* flag is an operand no rung has.
FirstFlagValue(args, flag) ==
    LET i == SelectInSeq(args, LAMBDA t : t.flag = flag)
    IN  IF args[i].value # "" THEN args[i].value
        ELSE IF i < Len(args) /\ args[i + 1].flag = "" THEN args[i + 1].value ELSE ""
FlagValue(args, flag) ==
    LET i == SelectLastInSeq(args, LAMBDA t : t.flag = flag)
    IN  IF args[i].value # "" THEN args[i].value
        ELSE IF i < Len(args) /\ args[i + 1].flag = "" THEN args[i + 1].value ELSE ""

\* The two translations, and their inverses.
ClaudeMode(mode) ==
    CASE mode = "ask" -> "acceptEdits" [] mode = "bypass" -> "bypassPermissions" [] OTHER -> mode
CodexSandbox(mode) ==
    CASE mode = "manual"          -> "read-only"
      [] mode \in {"ask", "auto"} -> "workspace-write"
      [] mode = "bypass"          -> "danger-full-access"
      [] OTHER                    -> mode
CodexApproval(mode) ==
    CASE mode = "manual"             -> "untrusted"
      [] mode = "ask"                -> "on-request"
      [] mode \in {"auto", "bypass"} -> "never"
      [] OTHER                       -> ""
ClaudeRung(value) ==
    CASE value = "acceptEdits"       -> "ask"
      [] value = "bypassPermissions" -> "bypass"
      [] value = "dontAsk"           -> "manual"
      [] OTHER -> IF RungIndex(value) > 0 THEN value ELSE ""
CodexSandboxRung(value) ==
    CASE value = "read-only"          -> "manual"
      [] value = "workspace-write"    -> "ask"
      [] value = "danger-full-access" -> "bypass"
      [] OTHER                        -> ""
CodexRung(value) == IF RungIndex(value) > 0 THEN value ELSE CodexSandboxRung(value)

\* validatePermissionMode: what Start refuses before anything is launched.
IsBypassMode(harness, mode) ==
    mode \in {"bypass", IF harness = "codex" THEN "danger-full-access" ELSE "bypassPermissions"}
AcceptsContradiction(harness, args, mode) ==
    mode # "" => IsSupportedMode(harness, mode) /\ ~(harness = "codex" /\ mode = "plan")
ValidPermissionMode(harness, args, mode) ==
    mode # "" =>
      /\ harness \in {"claude", "codex"}
      /\ ~(harness = "codex" /\ mode = "plan")
      /\ IsSupportedMode(harness, mode)
      /\ ~IsBypassMode(harness, mode) => ~ContainsFlag(args, BypassEnablingFlags(harness))

\* argsWithHarnessPermissionMode: any permission flag already there wins whole.
InjectPermissionMode(harness, args, mode) ==
    IF mode = "" \/ ContainsFlag(args, PermissionFlags(harness)) THEN args
    ELSE CASE harness = "claude" -> <<Token("--permission-mode", ""), Token("", ClaudeMode(mode))>> \o args
           [] harness = "codex" ->
                <<Token("-s", ""), Token("", CodexSandbox(mode))>>
                \o (IF CodexApproval(mode) = "" THEN <<>>
                    ELSE <<Token("-a", ""), Token("", CodexApproval(mode))>>) \o args
           [] OTHER -> args

FirstOccurrenceRung(harness, args, mode) ==
    IF ContainsFlag(args, BypassEnablingFlags(harness)) THEN "bypass"
    ELSE IF ContainsFlag(args, {AxisFlag(harness)})
         THEN (IF harness = "claude" THEN ClaudeRung(FirstFlagValue(args, AxisFlag(harness)))
               ELSE CodexSandboxRung(FirstFlagValue(args, AxisFlag(harness))))
         ELSE IF harness = "claude" THEN ClaudeRung(mode) ELSE CodexRung(mode)
EffectiveLaunchRung(harness, args, mode) ==
    LET axis == AxisFlag(harness) IN
    CASE harness \notin {"claude", "codex"} -> ""
      [] ContainsFlag(args, BypassEnablingFlags(harness)) -> "bypass"
      [] ~ContainsFlag(args, BypassEnablingFlags(harness)) /\ ContainsFlag(args, {axis}) ->
           IF harness = "claude" THEN ClaudeRung(FlagValue(args, axis))
                                 ELSE CodexSandboxRung(FlagValue(args, axis))
      [] OTHER ->
           IF harness = "claude" THEN ClaudeRung(mode)
           ELSE IF ContainsFlag(args, {"-a"}) THEN "" ELSE CodexRung(mode)

\* What the harness itself makes of an argv, its parser being last-wins on each
\* axis: the sandbox or mode value it runs with, "" being its own default.
HarnessRuns(harness, args) ==
    IF ContainsFlag(args, BypassEnablingFlags(harness)) THEN "unrestricted"
    ELSE IF ContainsFlag(args, {AxisFlag(harness)})
         THEN LET v == FlagValue(args, AxisFlag(harness))
              IN  IF v = (IF harness = "claude" THEN "bypassPermissions" ELSE "danger-full-access")
                  THEN "unrestricted" ELSE v
         ELSE ""

-----------------------------------------------------------------------------
\* The silence thresholds (0: unset, negative StaleThreshold: off), checked
\* between the fields the caller set and then filled in.
ValidThresholds(quiet, classify, stale) ==
    /\ quiet >= 0 /\ classify >= 0
    /\ classify > 0 /\ quiet > 0 => classify >= quiet
    /\ stale > 0 /\ classify > 0 => stale >= classify
DefaultsUndercut(quiet, classify, stale) ==
    [quiet    |-> IF quiet = 0 THEN 15 ELSE quiet,
     classify |-> IF classify = 0 THEN 60 ELSE classify,
     stale    |-> IF stale = 0 THEN 300 ELSE stale]
ApplyDefaults(quiet, classify, stale) ==
    LET q == IF quiet = 0 THEN 15 ELSE quiet
        c == IF classify = 0 THEN Max({60, q}) ELSE classify
    IN  [quiet |-> q, classify |-> c, stale |-> IF stale = 0 THEN Max({300, c}) ELSE stale]

-----------------------------------------------------------------------------
(* The harness-wrapper command line: parseHarnessWrapperArgs, the          *)
(* containment request behind the --contain* flags and its normal form,    *)
(* the argv a tmux-backed run hands to the pane it runs in, and the two    *)
(* halves of --sandbox-defaults.                                           *)
(* A token is a wrapper flag with its value, the "--" separator, or a bare *)
(* word; flag package parsing stops at the first bare word.                *)

F(flag, value) == [flag |-> flag, value |-> value]
Word(w) == F("", w)
Sep == F("--", "")

\* The value of a flag given at most once (the last one wins), and the values
\* of a repeatable one, in order.
Value(pre, flag) ==
    LET i == SelectLastInSeq(pre, LAMBDA t : t.flag = flag)
    IN  IF i = 0 THEN "" ELSE pre[i].value
Values(pre, flag) ==
    LET given == SelectSeq(pre, LAMBDA t : t.flag = flag)
    IN  [i \in DOMAIN given |-> given[i].value]
Given(pre, flag) == \E i \in DOMAIN pre : pre[i].flag = flag

ContainFlags(pre) ==
    [kind |-> Value(pre, "contain"), rw |-> Values(pre, "contain-rw"), ro |-> Values(pre, "contain-ro"),
     restrict |-> Given(pre, "contain-restrict-tcp"), ports |-> Values(pre, "contain-allow-tcp"),
     state |-> Value(pre, "contain-state-dir")]
AnyContain(c) == c.kind # "" \/ c.rw # <<>> \/ c.ro # <<>> \/ c.restrict \/ c.ports # <<>> \/ c.state # ""
ValidContain(c) == c.kind = "" => ~AnyContain(c)
NoRequest == [kind |-> "none"]
Request(c) == IF c.kind = "" THEN NoRequest ELSE c

IsBypassPermissionMode(mode) == mode \in {"bypass", "bypassPermissions"}

\* A refused command line, and a parsed one.
Refused == [ok |-> FALSE]
Parse(in) ==
    LET sep  == SelectInSeq(in, LAMBDA t : t = Sep)
        all  == IF sep = 0 THEN <<>> ELSE SubSeq(in, 1, sep - 1)
        word == SelectInSeq(all, LAMBDA t : t.flag = "")
        pre  == IF word = 0 THEN all ELSE SubSeq(all, 1, word - 1)
        c    == ContainFlags(pre)
        mode == Value(pre, "permission-mode")
    IN  IF \/ sep = 0
           \/ "0" \in {c.ports[i] : i \in DOMAIN c.ports}
           \/ Given(pre, "tmux-session") /\ Given(pre, "tmux-child")
           \/ Given(pre, "sandbox-defaults") /\ mode # "" /\ ~IsBypassPermissionMode(mode)
           \/ ~ValidContain(c)
           \/ word = 0 \/ word # Len(all)
        THEN Refused
        ELSE [ok |-> TRUE, mode |-> mode, model |-> Value(pre, "model"),
              session |-> Value(pre, "tmux-session"), child |-> Value(pre, "tmux-child"),
              sandbox |-> Given(pre, "sandbox-defaults"), contain |-> Request(c),
              harness |-> all[word].value, args |-> SubSeq(in, sep + 1, Len(in))]

-----------------------------------------------------------------------------
\* Normalize: what the request asks for, without order or repetition; a
\* request it refuses launches nothing.
ValidRequest(r) == r = NoRequest \/ (r.kind = "landlock" /\ (r.ports # <<>> => r.restrict))
Normalize(r) ==
    IF r = NoRequest THEN r
    ELSE [r EXCEPT !.rw = ToSet(r.rw), !.ro = ToSet(r.ro), !.ports = ToSet(r.ports)]

Each(flag, values) == [i \in DOMAIN values |-> F(flag, values[i])]
Opt(cond, token) == IF cond THEN <<token>> ELSE <<>>

CLIFlags(r) ==
    IF r = NoRequest THEN <<>>
    ELSE <<F("contain", r.kind)>> \o Each("contain-rw", r.rw) \o Each("contain-ro", r.ro)
         \o Opt(r.restrict, F("contain-restrict-tcp", "")) \o Each("contain-allow-tcp", r.ports)
         \o Opt(r.state # "", F("contain-state-dir", r.state))

TmuxReexecArgv(a) ==
    <<F("tmux-child", a.session)>>
    \o Opt(a.model # "", F("model", a.model))
    \o Opt(a.mode # "", F("permission-mode", a.mode))
    \o CLIFlags(a.contain) \o <<Word(a.harness), Sep>> \o a.args

-----------------------------------------------------------------------------
\* --sandbox-defaults: the argv half is left to the permission mode when that
\* is a bypass, so that one directive stands in argv; the env half always goes
\* in, and both only for the literal harness name.
SkipFlag == F("skip", "")
ApplyNothing(harness, mode, args, env) ==
    IF harness # "claude" \/ IsBypassPermissionMode(mode) THEN [args |-> args, env |-> env]
    ELSE [args |-> IF SkipFlag \in ToSet(args) THEN args ELSE Append(args, SkipFlag),
          env  |-> env \cup {"IS_SANDBOX"}]
ApplySandboxDefaults(harness, mode, args, env) ==
    IF harness # "claude" THEN [args |-> args, env |-> env]
    ELSE [args |-> IF IsBypassPermissionMode(mode) \/ SkipFlag \in ToSet(args) THEN args
                   ELSE Append(args, SkipFlag),
          env  |-> env \cup {"IS_SANDBOX"}]

RunArgs(a, env) ==
    IF a.sandbox THEN ApplySandboxDefaults(a.harness, a.mode, a.args, env)
    ELSE [args |-> a.args, env |-> env]

-----------------------------------------------------------------------------
(* What a contained launch may reach (internal/contain): the checks of     *)
(* Prepare, the grants it collects, and the preview of contain-check.      *)
(* A pinned object is the path of names from the root to it: pinPath opens *)
(* the object and walks its ancestors, so two pins are compared by what    *)
(* they are, and beneath means what it says.  An input is a record of the  *)
(* request (ro, rw, stateDir, minABI), the launch (wd, login, supervise)   *)
(* and the host (fs, the directories that exist; abi; layer, the roots of  *)
(* the socket layer; cgroups).                                             *)

None == <<"none">>               \* no path given

StateParent == <<"user", "state">>
Own         == StateParent \o <<"own">>
CgroupRoot  == <<"sys", "cgroup">>

LowestABI      == 6
ResolveUnixABI == 9

contains(p, other) == IsPrefix(p, other)
overlaps(p, other) == contains(p, other) \/ contains(other, p)

\* The rights of an access class.
ClassAccess(class) ==
    CASE class = "ro" -> {"read"}
      [] class = "rx" -> {"read", "execute"}
      [] class = "rw" -> {"read", "write", "execute"}

Grant(pin, class) == [pin |-> pin, class |-> class]

\* The kernel a request requires: its own floor, or what detection finds.
RequiredABI(in) ==
    IF in.minABI # 0 THEN in.minABI
    ELSE IF in.abi >= ResolveUnixABI THEN ResolveUnixABI ELSE LowestABI

Floor(in) == IF in.minABI > LowestABI THEN in.minABI ELSE LowestABI

\* Below RESOLVE_UNIX the AppArmor socket layer must stand in.
Sockets(in) == in.abi < ResolveUnixABI
KernelRefuses(in) == in.abi < Floor(in) \/ (Sockets(in) /\ in.layer = {})
Covers(in, p) == \E r \in in.layer : contains(r, p)

\* A login runs into a caller's StateDir and nowhere else.
LoginRefuses(in) == in.login /\ in.stateDir = None

-----------------------------------------------------------------------------
\* TMPDIR always lies in the session's own state; HOME and a sibling harness
\* state root lie in the StateDir when there is one.
Base(in) == IF in.stateDir # None THEN in.stateDir ELSE Own
StatePins(in) ==
    {Own \o <<"tmp">>, Base(in) \o <<"home">>} \cup
    (IF in.sibling THEN {Base(in) \o <<"config">>} ELSE {})

\* pinPath on what exists once the state is provisioned.
Provisioned(in) == in.fs \cup StatePins(in) \cup {StateParent, Own}
Missing(in, fs) == {p \in {in.wd} \cup in.ro \cup in.rw \cup ({in.stateDir} \ {None}) : p \notin fs}

Exposed(in) == {in.wd} \cup in.ro \cup in.rw \cup ({in.stateDir} \ {None})
ExposesState(in) == \E p \in Exposed(in) : overlaps(p, StateParent)

\* What the caller makes writable, and what the launch does.
CallerWritable(in) == {in.wd} \cup in.rw
Writable(in) == {in.wd} \cup StatePins(in) \cup in.rw

ReadOnlyInside(in, writable) == \E r \in in.ro, w \in writable : contains(w, r)
ExposesCgroups(in) == \E w \in CallerWritable(in) : overlaps(w, CgroupRoot)

CollectRefuses(in) ==
    \/ Missing(in, Provisioned(in)) # {}
    \/ ExposesState(in)
    \/ ReadOnlyInside(in, Writable(in))
    \/ ExposesCgroups(in)

\* The rules of the domain: profile and executable, working directory, state,
\* and the caller's own.
Profile == {Grant(<<"usr">>, "rx")}
CollectGrants(in) ==
    Profile \cup {Grant(in.wd, "rw")}
    \cup {Grant(p, "rw") : p \in StatePins(in)}
    \cup {Grant(p, "ro") : p \in in.ro}
    \cup {Grant(p, "rw") : p \in in.rw}

SocketRootsRefuse(in) ==
    Sockets(in) /\ \E g \in CollectGrants(in) : g.class = "rw" /\ ~Covers(in, g.pin)

SupervisionRefuses(in) == in.supervise /\ ~in.cgroups

Prepare(in) ==
    ~ \/ LoginRefuses(in) \/ KernelRefuses(in) \/ in.wd \notin in.fs
      \/ (in.stateDir # None /\ in.stateDir \notin in.fs)
      \/ CollectRefuses(in) \/ SocketRootsRefuse(in) \/ SupervisionRefuses(in)

-----------------------------------------------------------------------------
\* contain-check allocates nothing: the managed state may not exist yet, and
\* then only its nearest existing ancestor can be checked.
Nearest(in) ==
    CHOOSE p \in in.fs : /\ contains(p, StateParent)
                         /\ \A q \in in.fs : contains(q, StateParent) => contains(q, p)
PreviewExposesState(in) ==
    \E p \in Exposed(in) \cap in.fs :
      \/ contains(p, Nearest(in))
      \/ Nearest(in) = StateParent /\ contains(StateParent, p)

PreviewSockets(in) ==
    /\ Sockets(in) /\ in.layer # {}
    /\ \/ \E w \in (CallerWritable(in) \cup ({in.stateDir} \ {None})) \cap in.fs : ~Covers(in, w)
       \/ ~Covers(in, StateParent)

\* A mutant: the preview looks only at what lies above the managed state.
PreviewAbove(in) ==
    ~ \/ KernelRefuses(in) \/ Missing(in, in.fs) # {}
      \/ (\E p \in Exposed(in) : contains(p, Nearest(in)))
      \/ ReadOnlyInside(in, CallerWritable(in))
      \/ PreviewSockets(in) \/ ExposesCgroups(in) \/ SupervisionRefuses(in)

\* WouldLaunch: nothing is missing.
WouldLaunch(in) ==
    ~ \/ KernelRefuses(in) \/ Missing(in, in.fs) # {}
      \/ PreviewExposesState(in)
      \/ ReadOnlyInside(in, CallerWritable(in))
      \/ PreviewSockets(in) \/ ExposesCgroups(in) \/ SupervisionRefuses(in)

-----------------------------------------------------------------------------
\* Landlock: rules in one layer only add, and a rule covers all that lies
\* beneath its object (external).
Rights(grants, object) == UNION {ClassAccess(g.class) : g \in {h \in grants : contains(h.pin, object)}}

-----------------------------------------------------------------------------
(* Rendering an agent's configuration: the checks of pkg/contract          *)
(* (provision.go), the three profiles of pkg/adapter that render it        *)
(* (claudecode, codex, pi), the rules that carry a saved Session's history *)
(* to another environment, and the placeholder that stands in for a        *)
(* credential behind an egress broker (pkg/contract/broker.go).            *)
(* A relative path is the sequence of its components; a directory that     *)
(* names a harness's history is the sequence of its characters.  A file    *)
(* keeps its place, its size and what of the spec it holds.  An outcome is *)
(* "ok" or the code of the error.                                          *)

Profiles == {"claude", "codex", "pi"}
NoDir == "none"

\* Sizes, in units of which the smallest bound is two.
MaxPersona == 2
MaxSkillFiles == 2
MaxSkillFile == 2
MaxMemoryFile == 2
MaxProfileSize == 5

\* What each profile's Descriptor says it takes.
Describe(p) ==
    [harness  |-> p,
     efforts  |-> {"low", "high"},
     postures |-> IF p = "claude" THEN {"bypass", "gated"} ELSE {"bypass"},
     kinds    |-> CASE p = "claude" -> {"token"} [] p = "codex" -> {"api_key", "access_token", "login"} [] p = "pi" -> {"api_key"},
     sources  |-> IF p = "pi" THEN {"pin"} ELSE {"pin", "earlier"},
     formats  |-> {1},
     routes   |-> CASE p = "claude" -> <<[kind |-> "token", hosts |-> {"anthropic"}, headers |-> {"Authorization"}]>>
                    [] p = "codex"  -> <<[kind |-> "api_key", hosts |-> {"openai"}, headers |-> {"Authorization"}],
                                         [kind |-> "login", hosts |-> {"chatgpt"}, headers |-> {"Authorization"}]>>
                    [] p = "pi"     -> <<[kind |-> "api_key", hosts |-> {"anthropic", "openai", "google"},
                                          headers |-> {"x-api-key", "Authorization", "x-goog-api-key"}]>>]

-----------------------------------------------------------------------------
(* The checks of an Agent Spec. *)

\* CheckRelPath: no empty, "." or ".." component, and one at least.
CheckRelPath(path) == path # <<>> /\ \A i \in DOMAIN path : path[i] \notin {"", ".", ".."}

\* validName and validToken: "a b" stands for a name with a character neither takes.
ValidName(n) == n \notin {"", "a b"}
ValidToken(n) == n \notin {"", "a b"}

\* strings.ToLower of a header's name, over the names in use.
ToLower(n) == IF n = "X-Key" THEN "x-key" ELSE n
ValidHeadersExactly(h) ==
    /\ \A i \in DOMAIN h : ValidToken(h[i].name)
    /\ \A i, j \in DOMAIN h : i # j => h[i].name # h[j].name
    /\ \A i \in DOMAIN h : h[i].of = "headers_file" => h[i].value # "relative"
\* validHeaders: a header is named once across headers, headers_env and
\* headers_file, in any case, and a file by a clean absolute path.
ValidHeaders(h) ==
    /\ \A i \in DOMAIN h : ValidToken(h[i].name)
    /\ \A i, j \in DOMAIN h : i # j => ToLower(h[i].name) # ToLower(h[j].name)
    /\ \A i \in DOMAIN h : h[i].of = "headers_file" => h[i].value # "relative"

Twice(s) == \E i, j \in DOMAIN s : i # j /\ s[i] = s[j]
PathsOf(files) == [i \in DOMAIN files |-> files[i].path]
NamesOf(items) == [i \in DOMAIN items |-> items[i].name]

\* CheckSpec: the first check that fails decides, and each is unsupported or
\* invalid_spec.
ConnectorCheck(c) ==
    CASE ~ValidName(c.name) -> "invalid_spec"
      [] c.target = "" -> "invalid_spec"
      [] c.kind = "http" /\ ~ValidHeaders(c.headers) -> "invalid_spec"
      [] OTHER -> "ok"
SkillCheck(sk) ==
    IF /\ ValidName(sk.name) /\ sk.name \notin {".", ".."}
       /\ \A i \in DOMAIN sk.files : CheckRelPath(sk.files[i].path)
       /\ ~Twice(PathsOf(sk.files))
       /\ \E i \in DOMAIN sk.files : sk.files[i].path = <<"SKILL.md">>
    THEN "ok" ELSE "invalid_spec"
CheckSpecApart(d, s) ==
    CASE s.effort # "" /\ s.effort \notin d.efforts -> "unsupported"
      [] Twice(NamesOf(s.connectors)) \/ \E i \in DOMAIN s.connectors : ConnectorCheck(s.connectors[i]) # "ok" -> "invalid_spec"
      [] \E i \in DOMAIN s.skills : SkillCheck(s.skills[i]) # "ok" -> "invalid_spec"
      [] ~(\A i \in DOMAIN s.memory : CheckRelPath(s.memory[i].path)) \/ Twice(PathsOf(s.memory)) -> "invalid_spec"
      [] OTHER -> "ok"
CheckSpec(d, s) ==
    CASE s.effort # "" /\ s.effort \notin d.efforts -> "unsupported"
      [] Twice(NamesOf(s.connectors)) \/ \E i \in DOMAIN s.connectors : ConnectorCheck(s.connectors[i]) # "ok" -> "invalid_spec"
      [] s.posture \in {"bypass", "gated"} \ d.postures -> "unsupported"
      [] s.posture \notin {"", "bypass", "gated"} -> "invalid_spec"
      [] s.credential # "" /\ s.credential \notin d.kinds -> "unsupported"
      [] s.policy \notin {"", "strict", "flexible"} -> "invalid_spec"
      [] Twice(NamesOf(s.skills)) \/ \E i \in DOMAIN s.skills : SkillCheck(s.skills[i]) # "ok" -> "invalid_spec"
      [] ~(\A i \in DOMAIN s.memory : CheckRelPath(s.memory[i].path)) \/ Twice(PathsOf(s.memory)) -> "invalid_spec"
      [] OTHER -> "ok"

\* Layout.Validate: five clean absolute roots, no two the same.
LayoutValid(l) == \A r, q \in DOMAIN l : l[r] # <<>> /\ Head(l[r]) = "/" /\ (r # q => l[r] # l[q])

\* CheckMinor: what a request's minor may say.
CheckMinor(minor, policy, load) ==
    ~(policy # "" /\ minor < 7) /\ ~(load.has /\ load.dirs # <<>> /\ minor < 9)

-----------------------------------------------------------------------------
(* Places beneath the roots, and the history of a Session. *)

At(root, path) == [root |-> root, path |-> path]
\* RootPath.Within.
Within(p, q) == p.root = q.root /\ IsPrefix(q.path, p.path)

\* Relocate: the rule whose source the path is, or lies beneath, moves it.
Relocate(rules, p) ==
    LET named == {i \in DOMAIN rules : Within(p, rules[i].from)}
    IN  IF named = {} THEN p
        ELSE LET r == rules[Min(named)]
             IN  At(r.to.root, r.to.path \o SubSeq(p.path, Len(r.from.path) + 1, Len(p.path)))

\* Archived.
Archived(res, p) == (\E h \in res.history : Within(p, h)) /\ ~(\E s \in res.secret : Within(p, s))

\* RewriteFirstLine and rewriteField: the first rule over the file whose field
\* holds its value replaces that value alone.
RewriteField(line, r) == r.field \in DOMAIN line /\ line[r.field] = r.from
RewriteFirstLine(rules, at, line) ==
    LET named == {i \in DOMAIN rules : Within(at, rules[i].path) /\ RewriteField(line, rules[i])}
    IN  IF named = {} THEN line ELSE LET r == rules[Min(named)] IN [line EXCEPT ![r.field] = r.to]

\* CheckLoad: the source's harness, format and version, its layout and
\* workspace, and the directories its Sessions worked in.
MaxLoadWorkDirs == 3
CheckLoad(d, load) ==
    CASE load.harness # d.harness -> "unsupported"
      [] load.format \notin d.formats -> "unsupported"
      [] load.version \notin d.sources -> "unsupported"
      [] load.workspace = <<>> \/ Head(load.workspace) # "/" -> "invalid_spec"
      [] Len(load.dirs) > MaxLoadWorkDirs \/ Twice(load.dirs) -> "invalid_spec"
      [] OTHER -> "ok"

\* path.Join of a directory and one beneath it; WorkDirPath.
Join(dir, sub) == IF sub = <<>> THEN dir ELSE IF dir = <<"/">> THEN dir \o sub ELSE dir \o <<"/">> \o sub

\* EncodedCWD: a character that is no letter or digit becomes a hyphen.
EncodedCWD(dir) == [i \in DOMAIN dir |-> IF dir[i] \in {"/", ".", "-", "_"} THEN "-" ELSE dir[i]]
Project(dir) == At("config", <<"projects", EncodedCWD(dir)>>)

\* claudecode relocations: the directory each working directory named moves to
\* the one the same directory beneath the new workspace names.
MoveOne(from, to) == IF EncodedCWD(from) = EncodedCWD(to) THEN <<>> ELSE <<[from |-> Project(from), to |-> Project(to)]>>
WorkspaceMoves(load, l) == IF ~load.has THEN <<>> ELSE MoveOne(load.workspace, l.workspace)
Relocations(load, l) ==
    IF ~load.has THEN <<>>
    ELSE MoveOne(load.workspace, l.workspace)
         \o FlattenSeq([i \in DOMAIN load.dirs |-> MoveOne(Join(load.workspace, load.dirs[i]), Join(l.workspace, load.dirs[i]))])

\* pi rewrites: the working directory in each session's header.
RewriteOne(from, to) == [path |-> At("config", <<"sessions">>), field |-> "cwd", from |-> from, to |-> to]
Rewrites(load, l) ==
    IF ~load.has \/ load.workspace = l.workspace THEN <<>>
    ELSE <<RewriteOne(load.workspace, l.workspace)>>
         \o [i \in DOMAIN load.dirs |-> RewriteOne(Join(load.workspace, load.dirs[i]), Join(l.workspace, load.dirs[i]))]

-----------------------------------------------------------------------------
(* Rendering. *)

File(root, path, size, holds) == [root |-> root, path |-> path, size |-> size, holds |-> holds]

\* A connector's headers_file, as what reads it makes of each file: the value
\* without its line ends; a file that cannot be read, or that holds another
\* control character, fails the whole script.
FileValue(content) ==
    CASE content \in {"missing", "control"} -> "fails"
      [] content \in {"secret", "secret CRLF"} -> "secret"
FilesOf(c) == {i \in DOMAIN c.headers : c.headers[i].of = "headers_file"}
HeadersScript(c) ==
    IF \E i \in FilesOf(c) : FileValue(c.headers[i].value) = "fails" THEN {[of |-> "headers_file", name |-> "", value |-> "fails"]}
    ELSE {[c.headers[i] EXCEPT !.value = FileValue(@)] : i \in FilesOf(c)}
\* HeaderCommand: one command a header.
HeaderCommand(content) == FileValue(content)

\* The headers of an http connector as the harness will present them: a value
\* as it is, one from a variable, and one a helper reads.
Static(c) == {c.headers[i] : i \in DOMAIN c.headers \ FilesOf(c)}
ClaudeServer(c) == IF c.kind = "stdio" THEN {} ELSE Static(c) \union (IF FilesOf(c) = {} THEN {} ELSE HeadersScript(c))
CodexServer(c) == IF c.kind = "stdio" THEN {} ELSE Static(c) \union (IF FilesOf(c) = {} THEN {} ELSE HeadersScript(c))
PiServer(c) ==
    IF c.kind = "stdio" THEN {}
    ELSE Static(c) \union {[c.headers[i] EXCEPT !.value = HeaderCommand(@)] : i \in FilesOf(c)}
Server(p, c) == CASE p = "claude" -> ClaudeServer(c) [] p = "codex" -> CodexServer(c) [] p = "pi" -> PiServer(c)

\* headerHelpers: a script a connector with headers_file.
HeaderHelpers(conns) ==
    LET helper(c) == IF c.kind = "http" /\ FilesOf(c) # {} THEN <<File("config", <<"mcp-headers", c.name>>, 0, {})>> ELSE <<>>
    IN  FlattenSeq([i \in DOMAIN conns |-> helper(conns[i])])
SkillFiles(s) ==
    FlattenSeq([i \in DOMAIN s.skills |-> [j \in DOMAIN s.skills[i].files |->
        File("config", <<"skills", s.skills[i].name>> \o s.skills[i].files[j].path, s.skills[i].files[j].size, {<<"skill", i, j>>})]])
MemoryFiles(s) == [i \in DOMAIN s.memory |-> File("config", <<"memory">> \o s.memory[i].path, s.memory[i].size, {<<"memory", i, 0>>})]
WorkspaceFile(p, s) ==
    IF s.workspace = 0 THEN <<>>
    ELSE <<File("workspace", <<IF p = "claude" THEN "CLAUDE.md" ELSE "AGENTS.md">>, s.workspace, {<<"workspace", 0, 0>>})>>
Persona(s) == IF s.persona = 0 THEN {} ELSE {<<"persona", 0, 0>>}

\* settings.json, .claude.json, the persona, skills, memory, connectors and
\* the workspace's instructions.
ClaudeFiles(s) ==
    << File("config", <<"settings.json">>, 0, {}), File("config", <<".claude.json">>, 0, {}),
       File("config", <<"persona.md">>, s.persona, Persona(s)) >>
    \o SkillFiles(s) \o MemoryFiles(s)
    \o (IF s.connectors = <<>> THEN <<>> ELSE HeaderHelpers(s.connectors) \o <<File("config", <<"mcp.json">>, 0, {})>>)
    \o WorkspaceFile("claude", s)
CodexFiles(s) ==
    << File("config", <<"config.toml">>, 0, {}), File("config", <<"AGENTS.md">>, s.persona, Persona(s)) >>
    \o HeaderHelpers(s.connectors) \o SkillFiles(s) \o MemoryFiles(s) \o WorkspaceFile("codex", s)
PiFiles(s) ==
    << File("config", <<"settings.json">>, 0, {}), File("config", <<"APPEND_SYSTEM.md">>, s.persona, Persona(s)) >>
    \o (IF s.connectors = <<>> THEN <<>> ELSE <<File("config", <<"mcp.json">>, 0, {})>>)
    \o SkillFiles(s) \o MemoryFiles(s) \o WorkspaceFile("pi", s)

TooLarge(s, files) ==
    \/ s.persona > MaxPersona
    \/ \E i \in DOMAIN s.skills : Len(s.skills[i].files) > MaxSkillFiles \/ \E j \in DOMAIN s.skills[i].files : s.skills[i].files[j].size > MaxSkillFile
    \/ \E i \in DOMAIN s.memory : s.memory[i].size > MaxMemoryFile
    \/ MapThenSumSet(LAMBDA i : files[i].size, DOMAIN files) > MaxProfileSize

Nothing == [code |-> "", files |-> <<>>, history |-> {}, secret |-> {}, relocations |-> <<>>, rewrites |-> <<>>]
SpecRefused(code) == [Nothing EXCEPT !.code = code]
ConfigPaths(names) == {At("config", <<n>>) : n \in names}

ClaudeProvision(s, l, load) ==
    IF TooLarge(s, ClaudeFiles(s)) THEN SpecRefused("invalid_spec")
    ELSE [code |-> "ok", files |-> ClaudeFiles(s), history |-> ConfigPaths({"projects", "memory"}),
          secret |-> ConfigPaths({".credentials.json"}), relocations |-> Relocations(load, l), rewrites |-> <<>>]
CodexProvision(s, l, load) ==
    IF TooLarge(s, CodexFiles(s)) THEN SpecRefused("invalid_spec")
    ELSE [code |-> "ok", files |-> CodexFiles(s),
          history |-> ConfigPaths({"sessions", "memory", "session_index", "goals", "goals-wal"}) \union {At("scratch", <<"native">>)},
          secret |-> ConfigPaths({"auth.json"}), relocations |-> <<>>, rewrites |-> <<>>]

\* splitModel: <provider>/<id>, with a provider the profile serves.
Providers == [anthropic |-> [hosts |-> {"anthropic"}, headers |-> {"x-api-key"}],
              openai    |-> [hosts |-> {"openai"}, headers |-> {"Authorization"}],
              google    |-> [hosts |-> {"google"}, headers |-> {"x-goog-api-key"}]]
SplitModel(m) == IF m \in DOMAIN Providers THEN m ELSE NoDir
PiProvision(s, l, load) ==
    IF SplitModel(s.model) = NoDir \/ TooLarge(s, PiFiles(s)) THEN SpecRefused("invalid_spec")
    ELSE [code |-> "ok", files |-> PiFiles(s), history |-> ConfigPaths({"sessions", "memory"}),
          secret |-> ConfigPaths({"auth.json"}), relocations |-> <<>>, rewrites |-> Rewrites(load, l)]
ProfileProvision(p, s, l, load) ==
    CASE p = "claude" -> ClaudeProvision(s, l, load) [] p = "codex" -> CodexProvision(s, l, load) [] p = "pi" -> PiProvision(s, l, load)

\* ProvisionResult.Validate: each file named once, beneath config, workspace or
\* home; history moved and rewritten within the history, no two rules over one
\* source or onto one destination.
Place(f) == At(f.root, f.path)
Overlap(p, q) == Within(p, q) \/ Within(q, p)
ResultValid(res) ==
    /\ \A i \in DOMAIN res.files : res.files[i].root \in {"config", "workspace", "home"} /\ CheckRelPath(res.files[i].path)
    /\ \A i, j \in DOMAIN res.files : i # j => Place(res.files[i]) # Place(res.files[j])
    /\ \A i \in DOMAIN res.relocations :
         LET m == res.relocations[i]
         IN  /\ Archived(res, m.from) /\ Archived(res, m.to)
             /\ \A j \in 1..(i - 1) : ~Overlap(m.from, res.relocations[j].from) /\ ~Overlap(m.to, res.relocations[j].to)
    /\ \A i \in DOMAIN res.rewrites :
         LET w == res.rewrites[i]
         IN  /\ Archived(res, w.path) /\ w.from # w.to
             /\ \A j \in 1..(i - 1) : Overlap(w.path, res.rewrites[j].path) =>
                  w.field = res.rewrites[j].field /\ w.from # res.rewrites[j].from

\* harnessAdapter.Provision: the request's checks, the profile's rendering, and
\* the result's.
Provision(p, s, l, load) ==
    LET d == Describe(p)
        res == ProfileProvision(p, s, l, load)
    IN  CASE ~CheckMinor(s.minor, s.policy, load) -> SpecRefused("protocol")
          [] ~LayoutValid(l) -> SpecRefused("invalid_spec")
          [] CheckSpec(d, s) # "ok" -> SpecRefused(CheckSpec(d, s))
          [] load.has /\ CheckLoad(d, load) # "ok" -> SpecRefused(CheckLoad(d, load))
          [] res.code # "ok" -> res
          [] ~ResultValid(res) -> SpecRefused("internal")
          [] ~load.has /\ (res.relocations # <<>> \/ res.rewrites # <<>>) -> SpecRefused("internal")
          [] OTHER -> res

-----------------------------------------------------------------------------
(* The placeholder of a credential.  A token is the sequence of its          *)
(* characters: "s" a lower-case letter or digit, "-", "S" any other visible  *)
(* one, and " " and "\n".                                                    *)

\* Drawn (external: an HMAC of the nonce): letters no token here holds.
Drawn(n) == [i \in 1..n |-> "D"]
TrimSpace(t) ==
    LET solid == {i \in DOMAIN t : t[i] \notin {" ", "\n"}}
    IN  IF solid = {} THEN <<>> ELSE SubSeq(t, Min(solid), Max(solid))
\* tokenPrefix: the leading lower-case run, within 16 bytes, up to its last
\* hyphen, unless that is its first byte.
TokenPrefix(t) ==
    LET run == {i \in 0..Len(t) : i <= 16 /\ \A j \in 1..i : t[j] \in {"s", "-"}}
        hyphens == {i \in 1..Max(run) : t[i] = "-"}
    IN  IF hyphens = {} \/ Max(hyphens) = 1 THEN <<>> ELSE SubSeq(t, 1, Max(hyphens))
TokenPlaceholder(t) == TokenPrefix(t) \o Drawn(Max({Len(t) - Len(TokenPrefix(t)), 32}))

NoSwap == [code |-> "", file |-> <<>>, placeholder |-> <<>>, secret |-> <<>>, hosts |-> {}, headers |-> {}]
TokenResult(credential, route) ==
    LET tok == TrimSpace(credential)
    IN  IF tok = <<>> \/ \E i \in DOMAIN tok : tok[i] = "\n" THEN [NoSwap EXCEPT !.code = "invalid_spec"]
        ELSE [code |-> "ok", file |-> TokenPlaceholder(tok), placeholder |-> TokenPlaceholder(tok), secret |-> tok,
              hosts |-> route.hosts, headers |-> route.headers]
PlaceholderAnywhere(model, credential) ==
    IF SplitModel(model) = NoDir THEN [NoSwap EXCEPT !.code = "invalid_spec"]
    ELSE TokenResult(credential, Describe("pi").routes[1])
\* pi PlaceholderFor: the swap narrowed to the provider the model names.
PlaceholderFor(model, credential) ==
    IF SplitModel(model) = NoDir THEN [NoSwap EXCEPT !.code = "invalid_spec"]
    ELSE TokenResult(credential, Providers[model])
\* codex placeholderLogin: a login with no refresh token, rebuilt with
\* placeholder tokens and the account's claims.
PlaceholderLogin(login, route) ==
    IF ~login.json \/ login.access = <<>> \/ login.refresh \notin {"", "withheld"} \/ ~login.jwt \/ ~login.idJwt
    THEN [NoSwap EXCEPT !.code = "invalid_spec"]
    ELSE [code |-> "ok", file |-> <<"{">> \o Drawn(32) \o <<"}">>, placeholder |-> Drawn(32), secret |-> login.access,
          hosts |-> route.hosts, headers |-> route.headers]

\* headerValue, and PlaceholderResult.Validate for the one swap each renders.
Visible(v) == v # <<>> /\ \A i \in DOMAIN v : v[i] \notin {" ", "\n"}
Holds(s, t) == \E i \in 1..(Len(s) - Len(t) + 1) : SubSeq(s, i, i + Len(t) - 1) = t
SwapValid(r, route) ==
    /\ r.file # <<>> /\ Visible(r.placeholder) /\ Len(r.placeholder) >= 16 /\ Visible(r.secret)
    /\ r.hosts # {} /\ r.hosts \subseteq route.hosts
    /\ r.headers # {} /\ r.headers \subseteq route.headers
    /\ ~Holds(r.file, r.secret) /\ ~Holds(r.placeholder, r.secret) /\ ~Holds(r.secret, r.placeholder)

\* Egress.Route, and harnessAdapter.Placeholder.
Route(p, kind) == {i \in DOMAIN Describe(p).routes : Describe(p).routes[i].kind = kind}
Placeholder(p, kind, model, credential, login) ==
    IF Route(p, kind) = {} THEN [NoSwap EXCEPT !.code = "unsupported"]
    ELSE LET route == Describe(p).routes[Min(Route(p, kind))]
             r == CASE kind = "login" -> PlaceholderLogin(login, route)
                    [] p = "pi" -> PlaceholderFor(model, credential)
                    [] OTHER -> TokenResult(credential, route)
         IN  IF kind # "login" /\ credential = <<>> THEN [NoSwap EXCEPT !.code = "invalid_spec"]
             ELSE IF r.code = "ok" /\ ~SwapValid(r, route) THEN [NoSwap EXCEPT !.code = "internal"] ELSE r
=============================================================================
