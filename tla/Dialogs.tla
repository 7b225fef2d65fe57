------------------------------ MODULE Dialogs ------------------------------
(***************************************************************************)
(* How the claude-code and codex adapters read the dialogs of their        *)
(* harness off the screen, and how an answer to claude's question dialog   *)
(* is planned and written (ADR-025).  A screen is a sequence of lines, a   *)
(* line a record of what the parsers tell apart: its shape, its number,    *)
(* the words of its label, its highlight, its checkbox and its column.     *)
(***************************************************************************)
EXTENDS Integers, Sequences, FiniteSets, FiniteSetsExt, SequencesExt

Blank == [k |-> "blank", n |-> 0, label |-> <<>>, hi |-> FALSE, box |-> "", col |-> 0]
Line(k) == [Blank EXCEPT !.k = k]
Words(k, label) == [Blank EXCEPT !.k = k, !.label = label]
Numbered(n, label, hi) == [Blank EXCEPT !.k = "option", !.n = n, !.label = label, !.hi = hi]
Row(label, hi, col) == [Blank EXCEPT !.k = "row", !.label = label, !.hi = hi, !.col = col]

From(s, i) == SubSeq(s, i, Len(s))
LastIndex(s, from, Is(_)) == Max({0} \union {i \in from..Len(s) : Is(s[i])})
FirstIndex(s, Is(_)) == LET found == {i \in DOMAIN s : Is(s[i])} IN IF found = {} THEN 0 ELSE Min(found)

\* The meaning of a label, by its words.
ProceedWords == {"proceed", "accept", "trust", "continue", "allow", "approve"}
DenyWords == {"exit", "deny", "reject", "cancel", "quit", "don't", "do not"}
IntentAlias(label) ==
    LET words == ToSet(label)
    IN  CASE label # <<>> /\ label[1] = "yes" -> "proceed"
          [] label # <<>> /\ label[1] = "no"  -> "deny"
          [] \E i \in 1..(Len(label) - 1) : label[i] \in {"don't", "do not", "not"} /\ label[i + 1] \in ProceedWords -> "deny"
          [] words \cap ProceedWords # {} -> "proceed"
          [] words \cap DenyWords # {} -> "deny"
          [] OTHER -> ""

Option(id, alias, label, keys) ==
    [id |-> id, alias |-> alias, label |-> label, keys |-> keys, hi |-> FALSE, checked |-> FALSE, typed |-> <<>>]
Request(kind, prompt, multi, options) == [kind |-> kind, prompt |-> prompt, multi |-> multi, options |-> options]
None == Request("", <<>>, FALSE, <<>>)
\* What a request's id is made of: never a tick, the highlight or typed text.
InputID(req) == <<req.kind, req.prompt, [i \in DOMAIN req.options |-> req.options[i].label]>>
FindByAlias(options, alias) == FirstIndex(options, LAMBDA o : o.alias = alias)
\* The numbered rows of lines, the first of each number.
FirstOfEach(lines) ==
    FoldLeft(LAMBDA rows, l : IF l.k # "option" \/ l.label = <<>> \/ \E i \in DOMAIN rows : rows[i].n = l.n
                              THEN rows ELSE Append(rows, l), <<>>, lines)
\* Keys, as one write sends them.
Key(c) == [c |-> c, n |-> 0, text |-> <<>>]
Digit(n) == [Key("digit") EXCEPT !.n = n]
Typing(text) == [Key("text") EXCEPT !.text = text]
Enter == Key("enter")
arrowKeys(delta) == IF delta >= 0 THEN [i \in 1..delta |-> Key("down")] ELSE [i \in 1..(0 - delta) |-> Key("up")]

-----------------------------------------------------------------------------
(* claude's question and review panes. *)
Other == <<"Type something">>
Chat  == <<"Chat about this">>
IsTab(l)     == l.k \in {"tab", "submit tab"}
IsReview(l)  == l.k = "review"
isQuestionFooter(l) == l.k = "footer"
questionTabLine(lines) == LastIndex(lines, 1, IsTab)
lastLineAfter(lines, after, Is(_)) == LastIndex(lines, after + 1, Is)

\* The question, then the numbered options: a row painted twice is read once,
\* the Submit row and the rules are the widget's.
parseQuestionRegion(lines, from, to) ==
    LET region == SelectSeq(SubSeq(lines, from, to - 1), LAMBDA l : l.k \notin {"blank", "rule", "submit row"})
        rows   == SelectSeq(FirstOfEach(region), LAMBDA l : l.n # 0)
        first  == FirstIndex(region, LAMBDA l : l.k = "option" /\ l.n # 0 /\ l.label # <<>>)
        before == SubSeq(region, 1, IF first = 0 THEN Len(region) ELSE first - 1)
    IN  [preamble |-> FlattenSeq([i \in DOMAIN before |-> IF before[i].k = "option" THEN <<>> ELSE before[i].label]),
         options |-> rows, multi |-> \E i \in DOMAIN region : region[i].k = "option" /\ region[i].box # ""]

\* The row before Chat about this takes text, which replaces its label on the
\* screen and never in the request.
questionRequest(parsed) ==
    LET chat  == LastIndex(parsed.options, 1, LAMBDA o : o.label = Chat /\ o.n > 1)
        other == IF chat = 0 THEN 0 ELSE parsed.options[chat].n - 1
        isOther(o) == o.label # Chat /\ (o.n = other \/ (other = 0 /\ o.label = Other))
        read(o) == [id |-> o.n, keys |-> <<Digit(o.n)>>, hi |-> o.hi, checked |-> o.box = "x",
                    alias |-> IF o.label = Chat THEN "chat" ELSE IF isOther(o) THEN "other" ELSE IntentAlias(o.label),
                    label |-> IF isOther(o) THEN Other ELSE o.label,
                    typed |-> IF isOther(o) /\ o.label # Other THEN o.label ELSE <<>>]
    IN  Request("question", parsed.preamble, parsed.multi, [i \in DOMAIN parsed.options |-> read(parsed.options[i])])

reviewAlias(label) == IF "submit" \in ToSet(label) THEN "proceed" ELSE IntentAlias(label)
reviewRequest(lines, tab, anchor) ==
    LET parsed == parseQuestionRegion(lines, anchor + 1, Len(lines) + 1)
        body   == SelectSeq(SubSeq(lines, tab + 1, anchor), LAMBDA l : l.k \notin {"blank", "rule"})
    IN  IF Len(parsed.options) < 2 THEN [det |-> "pending", req |-> None]
        ELSE [det |-> "ok",
              req |-> Request("question_review", FlattenSeq([i \in DOMAIN body |-> body[i].label]), FALSE,
                        [i \in DOMAIN parsed.options |-> LET o == parsed.options[i] IN
                           [Option(o.n, reviewAlias(o.label), o.label, <<Digit(o.n)>>) EXCEPT !.hi = o.hi]])]

questionRead(parsed) ==
    IF parsed.options = <<>> \/ parsed.preamble = <<>> THEN [det |-> "pending", req |-> None]
    ELSE [det |-> "ok", req |-> questionRequest(parsed)]
questionAt(lines, tab, review, footer) ==
    CASE tab = 0 -> [det |-> "none", req |-> None]
      [] tab # 0 /\ lines[tab].k = "submit tab" /\ review # 0 -> reviewRequest(lines, tab, review)
      [] OTHER -> IF footer = 0 THEN [det |-> "none", req |-> None]
                  ELSE questionRead(parseQuestionRegion(lines, tab + 1, footer))
detectQuestion(lines) ==
    LET tab == questionTabLine(lines)
    IN  questionAt(lines, tab, lastLineAfter(lines, tab, IsReview), lastLineAfter(lines, tab, isQuestionFooter))
questionPresent(lines) ==
    LET tab == questionTabLine(lines)
    IN  tab # 0 /\ lastLineAfter(lines, tab, LAMBDA l : isQuestionFooter(l) \/ IsReview(l)) # 0

-----------------------------------------------------------------------------
(* claude's startup dialogs: the trust question in its two wordings, the   *)
(* acceptance of bypass, the auto-mode nudge, in the order they are tried. *)
dialogAnchors == <<"trust", "trust alt", "bypass", "nudge">>
dialogKind == [trust |-> "trust_prompt", bypass |-> "bypass_acceptance", nudge |-> "auto_mode_nudge"]
KindOf(anchor) == IF anchor = "trust alt" THEN dialogKind["trust"] ELSE dialogKind[anchor]
composerFollows(lines) == \E i \in 1..(Len(lines) - 1) : lines[i].k = "rule" /\ lines[i + 1].hi
liveAnchor(lines) ==
    LET shows(a, l) == l.k = "anchor" /\ l.label = <<a>>
        live == {j \in DOMAIN dialogAnchors :
                   LET last == LastIndex(lines, 1, LAMBDA l : shows(dialogAnchors[j], l))
                   IN  last # 0 /\ ~composerFollows(From(lines, last + 1))}
        a == dialogAnchors[Min(live)]
    IN  IF live = {} THEN [anchor |-> "", at |-> 0]
        ELSE [anchor |-> a, at |-> FirstIndex(lines, LAMBDA l : shows(a, l))]

parseNumberedMenu(lines) ==
    LET rows == SelectSeq(FirstOfEach(lines), LAMBDA l : l.n # 0)
    IN  [i \in DOMAIN rows |-> Option(rows[i].n, IntentAlias(rows[i].label), rows[i].label, <<Digit(rows[i].n), Enter>>)]

minSelectorRows == 2
maxSelectorRows == 8
maxAnchorToMenuRows == 20
isTerminator(l) == l.k \in {"blank", "hint", "rule"}
isSelectorSibling(l, col) == ~isTerminator(l) /\ ~l.hi /\ l.col = col
\* Mutant: Enter alone takes any row.
selectorKeysBare(delta) == <<Enter>>
selectorKeys(delta) == Append(arrowKeys(delta), Enter)
selectorOption(l, i, delta) ==
    [Option(i, IntentAlias(l.label), l.label, selectorKeys(delta)) EXCEPT !.hi = l.hi]
selectorRows(after, hi, start, end) ==
    IF \/ ~(end - start + 1 >= minSelectorRows /\ end - start + 1 <= maxSelectorRows)
       \/ \E i \in start..end : after[i].label = <<>>
    THEN <<>>
    ELSE [i \in 1..(end - start + 1) |-> selectorOption(after[start + i - 1], i - 1, start + i - 1 - hi)]
\* The rows aligned with the first highlighted one, and touching it.
selectorAround(after, hi) ==
    IF hi = 0 \/ hi > maxAnchorToMenuRows THEN <<>>
    ELSE selectorRows(after, hi,
           Min({i \in 1..hi : \A j \in i..(hi - 1) : isSelectorSibling(after[j], after[hi].col)}),
           Max({i \in hi..Len(after) : \A j \in (hi + 1)..i : isSelectorSibling(after[j], after[hi].col)}))
parseSelectorMenu(after) == selectorAround(after, FirstIndex(after, LAMBDA l : l.hi /\ l.label # <<>>))
parseMenuOptions(lines, after) ==
    LET numbered == parseNumberedMenu(lines) IN IF numbered # <<>> THEN numbered ELSE parseSelectorMenu(after)
hasChoiceShapedLine(after) == \E i \in DOMAIN after : after[i].hi \/ after[i].k = "option"

dialogRead(anchor, after, options) ==
    IF options = <<>>
    THEN [det |-> IF hasChoiceShapedLine(after) THEN "unparseable" ELSE "pending", req |-> None]
    ELSE [det |-> "ok", req |-> Request(KindOf(anchor), <<anchor>>, FALSE, options)]
dialogAt(lines, live) ==
    IF live.at = 0 THEN detectQuestion(lines)
    ELSE dialogRead(live.anchor, From(lines, live.at + 1), parseMenuOptions(lines, From(lines, live.at + 1)))
DetectInputDetail(lines) == dialogAt(lines, liveAnchor(lines))
AnchorPresent(lines) == liveAnchor(lines).at # 0 \/ questionPresent(lines)
ReadyForInput(lines) == DetectInputDetail(lines).det = "none" /\ \E i \in DOMAIN lines : lines[i].hi

-----------------------------------------------------------------------------
(* An answer: options named by id, alias or label, and text.               *)
findOption(req, name) ==
    FirstIndex(req.options, LAMBDA o : \/ o.id = name.id
                                       \/ name.alias # "" /\ o.alias = name.alias
                                       \/ name.label # <<>> /\ o.label = name.label)
answerOptionIDs(req, names, text) ==
    LET other == FindByAlias(req.options, "other")
        found == [i \in DOMAIN names |-> findOption(req, names[i])]
    IN  CASE names = <<>> /\ text # <<>> -> [ok |-> TRUE, ids |-> IF other = 0 THEN <<>> ELSE <<req.options[other].id>>]
          [] \E i \in DOMAIN found : found[i] = 0 -> [ok |-> FALSE, ids |-> <<>>]
          [] OTHER -> [ok |-> TRUE,
                       ids |-> FoldLeft(LAMBDA ids, i : IF req.options[i].id \in ToSet(ids) THEN ids ELSE Append(ids, req.options[i].id),
                                        <<>>, found)]

\* Text for the one-line field: its words, one space between them.
oneLine(text) == SelectSeq(text, LAMBDA w : w \notin {" ", "\n"})
optionByID(req, id) == FirstIndex(req.options, LAMBDA o : o.id = id)
highlightedIndex(req) == Max({1, FirstIndex(req.options, LAMBDA o : o.hi)})
Step(keys, kind, id, text) == [keys |-> keys, until |-> kind, id |-> id, text |-> text]
Gone(keys) == Step(keys, "gone", 0, <<>>)
Invalid == [ok |-> FALSE, steps |-> <<>>]
Plan(steps) == [ok |-> TRUE, steps |-> steps]

planReview(req, ids, text) ==
    IF Len(ids) # 1 \/ text # <<>> \/ optionByID(req, ids[1]) = 0 THEN Invalid
    ELSE Plan(<<Gone(req.options[optionByID(req, ids[1])].keys)>>)
planQuestion(req, ids, raw) ==
    LET text   == oneLine(raw)
        opt(id) == req.options[optionByID(req, id)]
        of(a)  == SelectSeq(ids, LAMBDA id : opt(id).alias = a)
        other  == of("other")
        chat   == of("chat")
        picks  == SelectSeq(ids, LAMBDA id : opt(id).alias \notin {"other", "chat"})
        ticks  == SelectSeq(picks, LAMBDA id : ~opt(id).checked)
        field  == opt(other[Len(other)])
        nav    == arrowKeys(optionByID(req, field.id) - highlightedIndex(req))
        typed  == Step(<<Typing(text)>>, "typed", field.id, text)
        known  == \A i \in DOMAIN ids : optionByID(req, ids[i]) # 0
        fits   == /\ ids # <<>>
                  /\ Len(ids) > 1 => req.multi /\ chat = <<>>
                  /\ (other # <<>>) = (text # <<>>)
    IN  IF ~(known /\ fits) THEN Invalid
        ELSE CASE chat # <<>> -> Plan(<<Gone(opt(chat[1]).keys)>>)
               [] chat = <<>> /\ ~req.multi /\ other = <<>> -> Plan(<<Gone(opt(picks[1]).keys)>>)
               [] chat = <<>> /\ ~req.multi /\ other # <<>> ->
                    Plan(<<Step(field.keys, "highlighted", field.id, <<>>), typed, Gone(<<Enter>>)>>)
               [] OTHER ->
                    Plan([i \in DOMAIN ticks |-> Step(opt(ticks[i]).keys, "checked", ticks[i], <<>>)] \o
                         (IF other = <<>> THEN <<Gone(<<Key("tab")>>)>>
                          ELSE (IF nav = <<>> THEN <<>> ELSE <<Step(nav, "highlighted", field.id, <<>>)>>) \o
                               <<typed, Step(<<Key("down")>>, "unhighlighted", field.id, <<>>), Gone(<<Enter>>)>>))
\* ok is FALSE as well for a request whose kind is not planned.
PlanAnswer(req, ids, text) ==
    CASE req.options # <<>> /\ req.kind = "question" -> planQuestion(req, ids, text)
      [] req.options # <<>> /\ req.kind = "question_review" -> planReview(req, ids, text)
      [] OTHER -> Invalid

\* Mutant: any reading of the dialog shows that the keys landed.
evidenceHoldsUnread(lines, req, step) == DetectInputDetail(lines).det # "pending"
isRequest(live, req) == live.det = "ok" /\ InputID(live.req) = InputID(req)
rowShows(row, step) ==
    CASE step.until = "highlighted"   -> row.hi
      [] step.until = "unhighlighted" -> ~row.hi
      [] step.until = "checked"       -> row.checked
      [] step.until = "typed"         -> row.typed = step.text
evidenceHolds(lines, req, step) ==
    \E live \in {DetectInputDetail(lines)} :
       IF step.until = "gone"
       THEN IF live.det = "ok" THEN ~isRequest(live, req) ELSE ~AnchorPresent(lines)
       ELSE /\ isRequest(live, req)
            /\ \E at \in {optionByID(live.req, step.id)} : at # 0 /\ rowShows(live.req.options[at], step)

(* External: claude's question pane, as its keys were measured (the        *)
(* comment of question.go): n options, the text field, the Submit row of a *)
(* multi-select question, Chat about this; at is where the dialog is.      *)
Pane(multi, n, hi, checked, typed) ==
    [multi |-> multi, n |-> n, hi |-> hi, checked |-> checked, typed |-> typed, at |-> "asking", took |-> {}]
Field(p)  == p.n + 1
Bottom(p) == p.n + (IF p.multi THEN 3 ELSE 2)
Frame(p) ==
    LET box(i) == IF ~p.multi THEN "" ELSE IF i \in p.checked THEN "x" ELSE " "
        option(i) == [Numbered(i, <<<<"red", "blue", "green">>[i]>>, p.hi = i) EXCEPT !.box = box(i)]
        field == [Numbered(Field(p), IF p.typed = <<>> THEN Other ELSE p.typed, p.hi = Field(p)) EXCEPT !.box = box(0)]
        submit == IF p.multi THEN <<Line("submit row")>> ELSE <<>>
    IN  CASE p.at = "asking" -> <<Line(IF p.multi THEN "submit tab" ELSE "tab"), Words("text", <<"which">>)>>
               \o [i \in 1..p.n |-> option(i)] \o <<field>> \o submit
               \o <<Numbered(p.n + 2, Chat, p.hi = Bottom(p)), Line("footer")>>
          [] p.at = "review" -> <<Line("submit tab"), Words("text", <<"which">>), Words("review", <<"ready">>),
                                  Numbered(1, <<"submit">>, TRUE), Numbered(2, <<"cancel">>, FALSE)>>
          [] OTHER -> <<Words("text", <<"which">>), Line("rule"), Row(<<"idle">>, TRUE, 2), Line("rule")>>
Leave(p, at, took) == [p EXCEPT !.at = at, !.took = took]
Type(p, text) == IF p.hi = Field(p) THEN [p EXCEPT !.typed = @ \o text] ELSE p
Toggle(p, i) == [p EXCEPT !.checked = IF i \in @ THEN @ \ {i} ELSE @ \union {i}]
Choose(p, i) ==
    CASE i = p.n + 2 -> Leave(p, "chat", {})
      [] i = Field(p) -> [p EXCEPT !.hi = i]
      [] i <= p.n /\ p.multi -> Toggle(p, i)
      [] i <= p.n /\ ~p.multi -> Leave(p, "done", {i})
      [] OTHER -> p
Confirm(p) ==
    CASE p.hi = Field(p) /\ p.typed = <<>> -> Leave(p, "declined", {})
      [] p.hi = Field(p) /\ p.typed # <<>> /\ ~p.multi -> Leave(p, "done", {Field(p)})
      [] p.multi /\ p.hi = Field(p) + 1 -> Leave(p, "review", p.checked)
      [] OTHER -> IF p.hi = Field(p) THEN p ELSE Choose(p, IF p.hi = Bottom(p) THEN p.n + 2 ELSE p.hi)
\* What a key may do: a digit pressed on the text field may be typed there, a
\* burst pressed elsewhere is lost or acts as its first key, and a line break
\* in it confirms.
Presses(p, key) ==
    CASE p.at # "asking" -> {p}
      [] p.at = "asking" /\ key.c = "digit" -> {Choose(p, key.n)} \union (IF p.hi = Field(p) THEN {Type(p, <<"digit">>)} ELSE {})
      [] p.at = "asking" /\ key.c = "text" ->
           IF p.hi # Field(p) THEN {p, Choose(p, 1)}
           ELSE {IF "\n" \in ToSet(key.text)
                 THEN Confirm(Type(p, SubSeq(key.text, 1, FirstIndex(key.text, LAMBDA w : w = "\n") - 1)))
                 ELSE Type(p, key.text)}
      [] p.at = "asking" /\ key.c = "enter" -> {Confirm(p)}
      [] p.at = "asking" /\ key.c = "tab" -> {IF p.multi THEN Leave(p, "review", p.checked) ELSE p}
      [] p.at = "asking" /\ key.c = "down" -> {[p EXCEPT !.hi = Min({@ + 1, Bottom(p)})]}
      [] p.at = "asking" /\ key.c = "up" -> {[p EXCEPT !.hi = Max({@ - 1, 1})]}
\* A write may also be lost whole.
Written(p, keys) == {p} \union FoldLeft(LAMBDA ps, key : UNION {Presses(q, key) : q \in ps}, {p}, keys)
\* The frames between two panes: the new one painted over the old, top down.
Frames(old, new) ==
    LET at(s, i) == IF i \in DOMAIN s THEN s[i] ELSE Blank
        rows == Max({Len(old), Len(new)})
    IN  {[i \in 1..rows |-> IF i <= k THEN at(new, i) ELSE at(old, i)] : k \in 0..rows}

\* A plan is written a step at a time, into its own dialog only, the evidence
\* of one step before the keys of the next: the panes it may leave, and
\* whether it succeeds.
runAnswerPlan(req, steps, pane) ==
    LET on(p) == isRequest(DetectInputDetail(Frame(p)), req)
        write(p, step) == {[pane |-> q, ok |-> \E f \in Frames(Frame(p), Frame(q)) : evidenceHolds(f, req, step)] :
                            q \in Written(p, step.keys)}
        next(rs, step) == UNION {IF ~r.ok THEN {r} ELSE IF ~on(r.pane) THEN {[r EXCEPT !.ok = FALSE]}
                                 ELSE write(r.pane, step) : r \in rs}
    IN  FoldLeft(next, {[pane |-> pane, ok |-> TRUE]}, steps)

-----------------------------------------------------------------------------
(* codex's startup interstitials and its approval dialog.  A line's label  *)
(* is what it says: an anchor where k is "says".                           *)
Says(lines, what) == FirstIndex(lines, LAMBDA l : l.k = "says" /\ l.label = <<what>>)
codexAlias(label) == IF "skip" \in ToSet(label) THEN "skip" ELSE IF "update" \in ToSet(label) THEN "update" ELSE IntentAlias(label)
codexMenuOptions(lines) ==
    LET rows == FirstOfEach(lines)
    IN  [i \in DOMAIN rows |-> [Option(rows[i].n, codexAlias(rows[i].label), rows[i].label, <<Digit(rows[i].n), Enter>>)
                                  EXCEPT !.hi = rows[i].hi]]
continueOption == <<Option(-1, "continue", <<"continue">>, <<Enter>>)>>
approvalAnchors == <<"run the command", "make the edits">>
\* The rows below the anchor: one to proceed, one to refuse, one highlighted.
detectApproval(lines) ==
    LET shown   == {j \in DOMAIN approvalAnchors : Says(lines, approvalAnchors[j]) # 0}
        anchor  == approvalAnchors[Min(shown)]
        options == codexMenuOptions(From(lines, Says(lines, anchor) + 1))
    IN  IF \/ shown = {}
           \/ FindByAlias(options, "proceed") = 0
           \/ FindByAlias(options, "deny") = 0
           \/ \A i \in DOMAIN options : ~options[i].hi
        THEN None ELSE Request("approval_prompt", <<anchor>>, FALSE, options)
continueFooterLast(lines) ==
    LET last == LastIndex(lines, 1, LAMBDA l : l.k # "blank")
    IN  last # 0 /\ lines[last] = Words("says", <<"press enter">>)
codexDetectInput(lines) ==
    LET approval == detectApproval(lines)
        options  == codexMenuOptions(lines)
    IN  IF approval # None THEN approval
        ELSE CASE Says(lines, "sign in") # 0 -> None
               [] Says(lines, "sign in") = 0 /\ Says(lines, "update") # 0 ->
                    IF FindByAlias(options, "skip") = 0 THEN None ELSE Request("codex_update_notice", <<"update">>, FALSE, options)
               [] OTHER ->
                    IF ~continueFooterLast(lines) THEN None
                    ELSE IF Says(lines, "migration") # 0 THEN Request("codex_model_migration", <<"migration">>, FALSE, continueOption)
                    ELSE Request("codex_notice", <<"press enter">>, FALSE, IF options = <<>> THEN continueOption ELSE options)
\* Mutant: the update notice is dismissed like the others.
AutoDismissBlind(req) == IF req.kind \in {"", "approval_prompt"} THEN <<>> ELSE <<Enter>>
\* The keys that dismiss an interstitial, and none where there is none.
AutoDismissKeys(req) ==
    CASE req.kind = "codex_update_notice" ->
           LET skip == FindByAlias(req.options, "skip") IN IF skip = 0 THEN <<>> ELSE req.options[skip].keys
      [] req.kind \in {"codex_notice", "codex_model_migration"} -> <<Enter>>
      [] OTHER -> <<>>
codexReadyForInput(lines) == codexDetectInput(lines) = None /\ \E i \in DOMAIN lines : lines[i].hi
====
