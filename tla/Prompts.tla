------------------------------ MODULE Prompts ------------------------------
(***************************************************************************)
(* internal/chatcore input.go, permmode.go: keys written into a harness's  *)
(* terminal and judged by its screen.                                      *)
(*                                                                         *)
(* The watcher goroutine raises the prompts it sees, answers them from the *)
(* policy or surfaces them; a caller answers a surfaced prompt or drives   *)
(* the harness to another permission mode by Shift+Tab.  Neither learns    *)
(* what a key did except from a later frame of the screen, and the frames  *)
(* lag.  A wait ends on what it looks for or on its render budget; a       *)
(* prompt harness has read every key and painted by then, and the watcher  *)
(* has looked; a slow one need not have.  Settings have both.              *)
(***************************************************************************)
EXTENDS Integers, Sequences, FiniteSets

CONSTANTS
    MaxDialogs,   \* bound on the dialogs the harness opens
    MaxResets,    \* bound on the redraws that lose a dialog's highlight
    Settings      \* the harnesses, launches and callers there may be: the modes the
                  \* harness has, the one it starts in, its launch flag ("bypass",
                  \* "plain", "unknown"), the row the policy or the handler picks (0 for
                  \* none), and bounds on the dialogs it opens on its own and on the
                  \* calls of SetPermissionMode and Answer

VARIABLES
    mode,       \* the harness's posture
    hidden,     \* its footer shows no posture
    working,    \* codex runs a task and refuses /plan
    dialog,     \* the dialog it has open
    deaf,       \* it redraws a dialog and drops what is typed
    keys,       \* keys written and not yet read
    screen,     \* the last frame
    opened,     \* dialogs opened so far
    resets,     \* highlights lost so far
    chosen,     \* history: the row each dialog was answered with
    input,      \* c.currentInput, 0 when nil
    raisedOn,   \* the row highlighted when it was raised
    surfaced,   \* c.inputSurfaced
    answer,     \* the answerAndConfirm each goroutine is in
    drive,      \* the SetPermissionMode the caller is in
    result,     \* what its last call returned
    wanted,     \* history: rows some answer was asked to choose, per dialog
    late,       \* history: dialogs that may get an answer's key meant for an older frame
    missed,     \* history: dialogs a key of the cycle met that pressGate could not know of
    taken,      \* dialogs an answer was reported taken by
    calls,      \* calls made
    setting     \* one of Settings, for good

harnessVars == <<mode, hidden, working, dialog, deaf, keys, screen, opened, resets, chosen>>
inputVars == <<input, raisedOn, surfaced>>
pastVars == <<wanted, late, missed, calls, setting>>
callVars == <<result, taken>>
vars == <<harnessVars, inputVars, answer, drive, callVars, pastVars>>

Dialogs == 1 .. MaxDialogs
Rows == 1 .. 3
Answerers == {"watcher", "caller"}
NoMode == -1                  \* no readable posture
Bypass == 4                   \* plan, manual, ask, auto, bypass: 0 .. 4
DontAsk == 5                  \* claude's launch-only spelling of manual
Plan == 0
ByTab == 4                    \* a dialog that took a key of the cycle for an answer
NoDialog == [id |-> 0, row |-> 1, kind |-> "none"]
NoAnswer == [pc |-> "idle", id |-> 0, row |-> 1, split |-> FALSE, n |-> 0]
NoDrive == [pc |-> "idle", target |-> 0, start |-> NoMode, last |-> NoMode,
            n |-> 0, restoring |-> FALSE, refused |-> FALSE, from |-> NoMode, clean |-> TRUE]
NoResult == [kind |-> "none", mode |-> NoMode, from |-> NoMode, clean |-> TRUE]
answerAttempts == 3
codexPlanRetryAttempts == 5

Init ==
    /\ setting \in Settings
    /\ mode = setting.start
    /\ hidden = setting.blind
    /\ working = setting.busy
    /\ dialog = NoDialog
    /\ deaf = FALSE
    /\ keys = <<>>
    /\ screen = [mode |-> IF hidden THEN NoMode ELSE mode, dialog |-> NoDialog, refused |-> FALSE]
    /\ opened = 0
    /\ resets = 0
    /\ chosen = [d \in Dialogs |-> 0]
    /\ input = 0
    /\ raisedOn = 1
    /\ surfaced = FALSE
    /\ answer = [p \in Answerers |-> NoAnswer]
    /\ drive = NoDrive
    /\ result = NoResult
    /\ wanted = [d \in Dialogs |-> {}]
    /\ late = {}
    /\ missed = {}
    /\ taken = {}
    /\ calls = 0

-----------------------------------------------------------------------------
(* The harness (external).                                                 *)

Rung(m) == IF m = DontAsk THEN 1 ELSE m
OnRing(m) == m # DontAsk
Key(k, by) == [key |-> k, by |-> by]
Clamp(row) == IF row < 1 THEN 1 ELSE IF row > 3 THEN 3 ELSE row
Frame == [mode |-> IF hidden \/ dialog.id # 0 THEN NoMode ELSE mode,
          dialog |-> dialog, refused |-> screen.refused]

\* Where one Shift+Tab takes the harness; from dontAsk, anywhere on the ring.
NextModes(m) ==
    IF m = DontAsk THEN setting.modes
    ELSE LET above == {x \in setting.modes : x > m}
         IN  {CHOOSE x \in IF above = {} THEN setting.modes ELSE above :
                \A y \in IF above = {} THEN setting.modes ELSE above : x <= y}

Opens(kind) ==
    /\ opened < MaxDialogs
    /\ opened' = opened + 1
    /\ dialog' = [id |-> opened + 1, row |-> 1, kind |-> kind]

\* The harness asks on its own, over a key of the cycle already let through or not.
HarnessAsks ==
    /\ dialog = NoDialog
    /\ opened < setting.asks
    /\ Opens("approval")
    /\ missed' = IF drive.pc = "press" \/ \E k \in 1 .. Len(keys) : keys[k].key \in {"tab", "plan"}
                 THEN missed \cup {opened + 1} ELSE missed
    /\ UNCHANGED <<mode, hidden, working, deaf, keys, screen, resets, chosen,
                   inputVars, answer, drive, callVars, wanted, late, calls, setting>>

\* A redraw puts the highlight back on the first row and drops what is typed
\* until the frame that shows it.
HarnessResets ==
    /\ dialog # NoDialog
    /\ resets < MaxResets
    /\ resets' = resets + 1
    /\ dialog' = [dialog EXCEPT !.row = 1]
    /\ deaf' = TRUE
    /\ UNCHANGED <<mode, hidden, working, keys, screen, opened, chosen, inputVars,
                   answer, drive, callVars, pastVars>>

HarnessPaints ==
    /\ deaf \/ screen # Frame
    /\ screen' = Frame
    /\ deaf' = FALSE
    /\ keys' = IF deaf THEN <<>> ELSE keys
    /\ late' = IF deaf /\ \E p \in Answerers : answer[p].pc = "confirm" THEN Dialogs ELSE late
    /\ UNCHANGED <<mode, hidden, working, dialog, opened, resets, chosen,
                   inputVars, answer, drive, callVars, wanted, missed, calls, setting>>

\* A frame of a redraw shows the dialog's prompt and not yet its rows.
HarnessTears ==
    /\ deaf
    /\ screen.dialog.row # 0
    /\ screen' = [Frame EXCEPT !.dialog.row = 0]
    /\ UNCHANGED <<mode, hidden, working, dialog, deaf, keys, opened, resets, chosen,
                   inputVars, answer, drive, callVars, pastVars>>

HarnessFinishes ==
    /\ working
    /\ working' = FALSE
    /\ UNCHANGED <<mode, hidden, dialog, deaf, keys, screen, opened, resets,
                   chosen, inputVars, answer, drive, callVars, pastVars>>

\* The dialog takes its answer; row 2 of the acceptance dialog enables bypass.
Takes(row) ==
    /\ chosen' = [chosen EXCEPT ![dialog.id] = row]
    /\ dialog' = NoDialog
    /\ mode' = IF dialog.kind = "accept" /\ row = 2 THEN Bypass ELSE mode

HarnessReads ==
    /\ keys # <<>>
    /\ keys' = Tail(keys)
    /\ LET k == Head(keys) IN
         \/ /\ deaf
            /\ UNCHANGED <<mode, hidden, dialog, screen, opened, chosen>>
         \/ /\ ~deaf
            /\ dialog # NoDialog
            /\ \/ /\ k.key = "move"
                  /\ dialog' = [dialog EXCEPT !.row = Clamp(@ + k.by)]
                  /\ UNCHANGED <<mode, chosen>>
               \/ k.key = "enter" /\ Takes(dialog.row)
               \/ k.key = "tab" /\ Takes(ByTab)
               \/ k.key = "plan" /\ Takes(ByTab)
            /\ UNCHANGED <<hidden, screen, opened>>
         \/ /\ ~deaf
            /\ dialog = NoDialog
            /\ \/ /\ k.key = "tab"
                  /\ \E m \in NextModes(mode) :
                       IF m = Bypass /\ ~setting.codex /\ opened < MaxDialogs
                       THEN Opens("accept") /\ UNCHANGED mode
                       ELSE mode' = m /\ UNCHANGED <<dialog, opened>>
                  /\ UNCHANGED screen
                  /\ hidden' = FALSE
               \/ /\ k.key = "plan"
                  /\ IF working
                     THEN screen' = [screen EXCEPT !.refused = TRUE] /\ UNCHANGED mode
                     ELSE mode' = Plan /\ UNCHANGED screen
                  /\ UNCHANGED <<hidden, dialog, opened>>
               \/ /\ k.key \in {"move", "enter"}
                  /\ UNCHANGED <<mode, hidden, dialog, screen, opened>>
            /\ UNCHANGED chosen
    /\ UNCHANGED <<working, deaf, resets, inputVars, answer, drive, callVars, pastVars>>

Write(k) == keys' = Append(keys, k)
Quiet == UNCHANGED <<mode, hidden, working, dialog, deaf, screen, opened, resets, chosen>>

Behind == keys # <<>> \/ screen # Frame \/ deaf

\* A render budget elapses: a prompt harness has read and painted all by then.
BudgetElapses == setting.slow \/ ~Behind

\* All is read and painted, the watcher has looked at the last frame, and it is
\* done with its dialog unless the policy's or the handler's answer takes long.
Settled ==
    /\ ~Behind
    /\ screen.dialog.id \in {0, input}
    /\ setting.ponders \/ (answer["watcher"].pc = "idle" /\ screen.dialog.id = input)

\* As a bound, a slow harness keeps one call waiting in vain once.
DriveBudgetElapses == Settled \/ (setting.slow /\ drive.clean)

-----------------------------------------------------------------------------
(* Answers: answerAndConfirm, by the watcher from the policy and by the    *)
(* caller of Answer.                                                       *)

dialogStateOf(a) ==
    IF screen.dialog.id # a.id THEN "gone"
    ELSE IF screen.dialog.row = 0 THEN "unreadable"
    ELSE IF screen.dialog.row = a.row THEN "onTarget" ELSE "offTarget"

\* The first write: the arrows when the row is not highlighted, else nothing.
Sends(a, by) ==
    IF by = 0 THEN [a EXCEPT !.pc = "confirm", !.split = FALSE]
    ELSE [a EXCEPT !.pc = "moved", !.split = TRUE]

Begin(p, row) ==
    LET by == row - raisedOn
        a == [NoAnswer EXCEPT !.id = input, !.row = row]
    IN  /\ answer' = [answer EXCEPT ![p] = Sends(a, by)]
        /\ keys' = IF by = 0 THEN keys ELSE Append(keys, Key("move", by))
        /\ wanted' = [wanted EXCEPT ![input] = @ \cup {row}]
        /\ late' = IF setting.slow /\ wanted[input] # {} THEN Dialogs ELSE late

\* An answer returns; the watcher surfaces what it could not resolve.
Ends(p, kind) ==
    /\ answer' = [answer EXCEPT ![p] = NoAnswer]
    /\ surfaced' = (surfaced \/ (p = "watcher" /\ kind = "unresolved" /\ input # 0))
    /\ taken' = IF kind = "answered" THEN taken \cup {answer[p].id} ELSE taken
    /\ result' = IF p = "caller" THEN [NoResult EXCEPT !.kind = kind] ELSE result

Answer(row) ==
    /\ calls < setting.calls
    /\ calls' = calls + 1
    /\ answer["caller"].pc = "idle"
    /\ drive.pc = "idle"
    /\ input \notin taken \cup {0}
    /\ surfaced
    /\ Begin("caller", row)
    /\ Quiet
    /\ UNCHANGED <<inputVars, drive, callVars, missed, setting>>

\* As a mutant: Enter follows the arrows at once.
AwaitsNothing(p) ==
    /\ answer[p].pc = "moved"
    /\ answer' = [answer EXCEPT ![p].pc = "confirm"]
    /\ UNCHANGED <<harnessVars, inputVars, callVars, drive, pastVars>>

\* The arrows were written: Enter follows only once the row is highlighted.
AwaitsTarget(p) ==
    LET a == answer[p] IN
    /\ a.pc = "moved"
    /\ \/ /\ dialogStateOf(a) = "onTarget"
          /\ answer' = [answer EXCEPT ![p].pc = "confirm"]
          /\ UNCHANGED <<surfaced, callVars>>
       \/ /\ dialogStateOf(a) = "gone"
          /\ Ends(p, "answered")
       \/ /\ dialogStateOf(a) \in {"offTarget", "unreadable"}
          /\ BudgetElapses
          /\ Ends(p, "unresolved")
    /\ UNCHANGED <<harnessVars, input, raisedOn, drive, pastVars>>

Confirms(p) ==
    /\ answer[p].pc = "confirm"
    /\ Write(Key("enter", 0))
    /\ answer' = [answer EXCEPT ![p].pc = "sent", ![p].n = @ + 1]
    /\ Quiet
    /\ UNCHANGED <<inputVars, drive, callVars, pastVars>>

\* The dialog gone is the answer taken; its highlight off the row confirmed is
\* the one sight that permits another.
AwaitsClose(p) ==
    LET a == answer[p] IN
    /\ a.pc = "sent"
    /\ \/ /\ dialogStateOf(a) = "gone"
          /\ Ends(p, "answered")
       \/ /\ a.split
          /\ dialogStateOf(a) = "offTarget"
          /\ IF a.n >= answerAttempts THEN Ends(p, "unresolved")
             ELSE answer' = [answer EXCEPT ![p].pc = "backoff"] /\ UNCHANGED <<surfaced, callVars>>
       \/ /\ dialogStateOf(a) # "gone"
          /\ BudgetElapses
          /\ Ends(p, "unresolved")
    /\ UNCHANGED <<harnessVars, input, raisedOn, drive, pastVars>>

\* After the backoff the keys are worked out again from the live screen.
Reanswers(p) ==
    LET a == answer[p]
        by == a.row - screen.dialog.row
    IN
    /\ a.pc = "backoff"
    /\ IF dialogStateOf(a) \in {"gone", "unreadable"}
       THEN /\ Ends(p, IF dialogStateOf(a) = "gone" THEN "answered" ELSE "unresolved")
            /\ UNCHANGED keys
       ELSE /\ answer' = [answer EXCEPT ![p] = Sends(a, by)]
            /\ keys' = IF by = 0 THEN keys ELSE Append(keys, Key("move", by))
            /\ UNCHANGED <<surfaced, callVars>>
    /\ Quiet
    /\ UNCHANGED <<input, raisedOn, drive, pastVars>>

-----------------------------------------------------------------------------
(* The watcher.                                                            *)

\* handleInputRequested, up to the policy's first key or the surfacing.
HandleInputRequested ==
    /\ answer["watcher"].pc = "idle"
    /\ screen.dialog.id \notin {0, input}
    /\ screen.dialog.row # 0
    /\ input' = screen.dialog.id
    /\ raisedOn' = screen.dialog.row
    /\ surfaced' = FALSE
    /\ answer' = [answer EXCEPT !["watcher"].pc = "resolve"]
    /\ UNCHANGED <<harnessVars, drive, callVars, pastVars>>

TryResolveInput ==
    /\ answer["watcher"].pc = "resolve"
    /\ IF setting.policy # 0
       THEN Begin("watcher", setting.policy) /\ UNCHANGED surfaced
       ELSE /\ answer' = [answer EXCEPT !["watcher"] = NoAnswer]
            /\ surfaced' = TRUE
            /\ UNCHANGED <<keys, wanted, late>>
    /\ Quiet
    /\ UNCHANGED <<input, raisedOn, drive, callVars, missed, calls, setting>>

\* A frame the dialog cannot be read from resolves its request like one without it.
HandleInputResolved ==
    /\ answer["watcher"].pc = "idle"
    /\ input # 0
    /\ screen.dialog.id = 0 \/ screen.dialog.row = 0
    /\ input' = 0
    /\ surfaced' = FALSE
    /\ missed' = missed \cup ({screen.dialog.id} \ {0})
    /\ UNCHANGED <<harnessVars, raisedOn, answer, drive, callVars, wanted, late, calls, setting>>

-----------------------------------------------------------------------------
(* SetPermissionMode.                                                      *)

\* cycleRing: how long the ring may be, and whether bypass is on it.
RingLen == IF setting.codex THEN 2 ELSE IF setting.launch = "plain" THEN 4 ELSE 5
BypassOnRing == ~setting.codex /\ setting.launch # "plain"
permissionModeCapabilities == IF setting.codex THEN 0 .. 1 ELSE 0 .. 4
Bound == 2 * RingLen
PlanCommand == setting.codex /\ drive.target = Plan /\ ~drive.restoring
matchTarget(m) == m = drive.target /\ OnRing(m)
matchRung(m) == Rung(m) = Rung(drive.start)
Arrived(m) == IF drive.restoring THEN matchRung(m) ELSE matchTarget(m)
MorePermissive(a, b) == a # NoMode /\ b # NoMode /\ Rung(a) > Rung(b)

Reports(kind, m, clean) ==
    /\ drive' = NoDrive
    /\ result' = [kind |-> kind, mode |-> m, from |-> drive.from, clean |-> clean]
Returns(kind, m) == Reports(kind, m, drive.clean)

SetPermissionMode(target) ==
    /\ calls < setting.calls
    /\ calls' = calls + 1
    /\ drive.pc = "idle"
    /\ answer["caller"].pc = "idle"
    /\ target \in permissionModeCapabilities
    /\ IF target = Bypass /\ ~BypassOnRing
       THEN drive' = drive /\ result' = [NoResult EXCEPT !.kind = "unreachable"]
       ELSE /\ drive' = [NoDrive EXCEPT !.pc = "ready", !.target = target, !.from = mode,
                                        !.clean = ~Behind]
            /\ result' = NoResult
    /\ UNCHANGED <<harnessVars, inputVars, answer, taken, wanted, late, missed, setting>>

\* waitReadyForSend, and the starting posture.
WaitReadyForSend ==
    /\ drive.pc = "ready"
    /\ IF surfaced /\ input # 0
       THEN Returns("pending", screen.mode)
       ELSE /\ screen.dialog.id = 0
            /\ IF matchTarget(screen.mode)
               THEN Returns("ok", screen.mode)
               ELSE /\ drive' = [drive EXCEPT !.pc = "gate", !.start = screen.mode, !.last = screen.mode]
                    /\ UNCHANGED result
    /\ UNCHANGED <<harnessVars, inputVars, answer, taken, pastVars>>

\* As a mutant: only a surfaced prompt stops the cycle.
PressGateSurfaced ==
    /\ drive.pc = "gate"
    /\ IF input = 0 \/ ~surfaced THEN drive' = [drive EXCEPT !.pc = "press"] /\ UNCHANGED result
       ELSE Returns("blocked", drive.last)
    /\ UNCHANGED <<harnessVars, inputVars, answer, taken, pastVars>>

\* pressGate.  It knows of no dialog the watcher has not raised yet.
PressGate ==
    /\ drive.pc = "gate"
    /\ IF input = 0
       THEN /\ drive' = [drive EXCEPT !.pc = "press"]
            /\ missed' = IF dialog.kind = "approval" THEN missed \cup {dialog.id} ELSE missed
            /\ UNCHANGED result
       ELSE /\ surfaced \/ BudgetElapses
            /\ Returns("blocked", drive.last)
            /\ UNCHANGED missed
    /\ UNCHANGED <<harnessVars, inputVars, answer, taken, wanted, late, calls, setting>>

Press ==
    /\ drive.pc = "press"
    /\ Write(Key(IF PlanCommand THEN "plan" ELSE "tab", 0))
    /\ drive' = [drive EXCEPT !.pc = "await"]
    /\ missed' = IF drive.clean THEN missed ELSE Dialogs
    /\ Quiet
    /\ UNCHANGED <<inputVars, answer, callVars, wanted, late, calls, setting>>

\* The bound is used up: the drive turns back, the restore gives its verdict.
Exhausted(m, clean) ==
    IF drive.restoring
    THEN Reports(IF MorePermissive(m, drive.start) THEN "indeterminate" ELSE "failed", m, clean)
    ELSE IF Rung(screen.mode) = Rung(drive.start)
         THEN Reports("failed", screen.mode, clean)
         ELSE /\ drive' = [drive EXCEPT !.pc = "gate", !.n = 0, !.restoring = TRUE,
                                        !.last = screen.mode, !.clean = clean]
              /\ UNCHANGED result

\* One more press has been judged: m is the last posture read.
Judge(m, clean) ==
    LET n == drive.n + 1
        refused == drive.refused \/ (PlanCommand /\ screen.refused)
    IN  IF Arrived(m)
        THEN Reports(IF drive.restoring THEN "failed" ELSE "ok", m, clean)
        ELSE IF n < (IF PlanCommand THEN codexPlanRetryAttempts ELSE Bound)
             THEN /\ drive' = [drive EXCEPT !.pc = "gate", !.n = n, !.last = m, !.refused = refused,
                                            !.clean = clean]
                  /\ UNCHANGED result
             ELSE IF refused THEN Reports("busy", m, clean) ELSE Exhausted(m, clean)

\* awaitPostureChange.  A budget that elapses is no error: the cycle goes on,
\* whether or not the harness has read the key and the watcher looked.
AwaitPostureChange ==
    /\ drive.pc = "await"
    /\ IF surfaced /\ input # 0
       THEN Returns("blocked", IF screen.mode = NoMode THEN drive.last ELSE screen.mode)
       ELSE IF screen.mode \notin {NoMode, drive.last} THEN Judge(screen.mode, drive.clean)
       ELSE /\ DriveBudgetElapses
            /\ Judge(drive.last, drive.clean /\ Settled)
    /\ UNCHANGED <<harnessVars, inputVars, answer, taken, pastVars>>

\* The caller's context ends a wait.
CallerGivesUp ==
    /\ drive.pc \in {"ready", "await"} \/ (drive.pc = "gate" /\ input # 0 /\ ~surfaced)
    /\ Returns(IF drive.refused THEN "busy" ELSE "cancelled", drive.last)
    /\ UNCHANGED <<harnessVars, inputVars, answer, taken, pastVars>>

Next ==
    \/ HarnessAsks
    \/ HarnessResets
    \/ HarnessPaints
    \/ HarnessTears
    \/ HarnessFinishes
    \/ HarnessReads
    \/ \E row \in Rows : Answer(row)
    \/ \E p \in Answerers : AwaitsTarget(p)
    \/ \E p \in Answerers : Confirms(p)
    \/ \E p \in Answerers : AwaitsClose(p)
    \/ \E p \in Answerers : Reanswers(p)
    \/ HandleInputRequested
    \/ TryResolveInput
    \/ HandleInputResolved
    \/ \E target \in 0 .. 4 : SetPermissionMode(target)
    \/ WaitReadyForSend
    \/ PressGate
    \/ Press
    \/ AwaitPostureChange
    \/ CallerGivesUp

Spec == Init /\ [][Next]_vars

-----------------------------------------------------------------------------
(* Properties.                                                             *)

TypeOK ==
    /\ mode \in 0 .. 5
    /\ {hidden, working, deaf, surfaced} \subseteq BOOLEAN
    /\ dialog \in [id : 0 .. MaxDialogs, row : Rows, kind : {"none", "approval", "accept"}]
    /\ screen.mode \in NoMode .. 5
    /\ chosen \in [Dialogs -> 0 .. ByTab]
    /\ input \in 0 .. MaxDialogs
    /\ raisedOn \in Rows
    /\ \A p \in Answerers : answer[p].n \in 0 .. answerAttempts
    /\ drive.n \in 0 .. Bound
    /\ wanted \in [Dialogs -> SUBSET Rows]

\* However slow the harness is and whatever it loses or redraws, a dialog is
\* answered with a row some answer asked for, or not at all (answerAndConfirm).
\* Left out (late): a highlight lost between the frame that showed it and the
\* Enter sent on it and, on a slow harness, an answer that follows one that gave
\* up: its arrows are worked out from the frame the dialog was raised on.
AnswerIsChosen ==
    (\A d \in Dialogs : chosen[d] # ByTab) =>
       \A d \in Dialogs \ late : chosen[d] \in wanted[d] \cup {0}

\* A switch that returns has left the harness where it says: in the target
\* when it succeeded, in the starting rung when it failed and that could be read
\* (SetPermissionMode).  Left out: a call that found keys of an earlier one in
\* flight, or pressed again after a budget that a slow harness did not keep.
SwitchIsHonest ==
    (drive.pc = "idle" /\ result.clean /\ keys = <<>>) =>
       /\ result.kind = "ok" => mode = result.mode
       /\ result.kind = "failed" /\ ~setting.blind => Rung(mode) = Rung(result.from)

\* No key of the cycle is taken by a dialog that an earlier one opened, or that
\* was pending when the key was let through (pressGate).  Left out (missed):
\* a dialog of the harness's own that was not raised yet, one whose request a
\* torn frame dropped, and keys pressed after a budget a slow harness did not
\* keep, or by a call that found an earlier one's in flight.
NeverPressesThrough ==
    \A d \in Dialogs \ missed : chosen[d] # ByTab
=============================================================================
