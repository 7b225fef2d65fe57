---------------------------- MODULE AdapterSession ----------------------------
(***************************************************************************)
(* pkg/adapter/session.go: the Session a Harness Adapter runs over a        *)
(* Transport, from the moment its harness has started: admission, Send,     *)
(* the harness's events, turns the harness starts itself, the gate a wall   *)
(* closes and its timer, Interrupt, and Close.                              *)
(*                                                                          *)
(* report and the gate's timer learn an observation under the Session's     *)
(* lock and push it to the cursor after they let it go; the two steps are   *)
(* separate here.  The harness and the Transport's calls are modelled from  *)
(* the Transport interface: events arrive in order, one at a time.          *)
(***************************************************************************)
EXTENDS Integers, Sequences, FiniteSets, TLC

CONSTANTS
    Inputs,      \* input ids
    Autos,       \* turns the harness starts itself
    Callers,     \* concurrent Interrupt calls
    MaxOps,      \* bound on interrupts that reach the Transport
    Settings     \* the harnesses a Session may run, and what may go wrong: see below

None == "none"

ASSUME SessionAssumption ==
    /\ None \notin Inputs \cup Autos
    /\ Inputs \cap Autos = {}
    /\ MaxOps \in Nat
    /\ Settings \subseteq SUBSET {"usage", "unknown", "auth", "billing", "prompting",
                                 "own", "autonomous", "uncertain"}

VARIABLES
    phase, closing,
    made,        \* s.turns: inputs whose id is taken
    native,      \* s.byNative: inputs whose events are taken
    started, ended,   \* turns, inputs' and the harness's own
    outcome,     \* how an ended turn ended
    current,     \* s.current
    auto,        \* s.auto
    prompt,      \* s.prompt: the turn whose prompt awaits an answer
    gate,        \* s.gate
    armed,       \* s.gateTimer is running
    fired,       \* timer callbacks that have not had the lock yet
    op,          \* each turn's interruptOp, 0 when none
    opOut,       \* each op's outcome, "" until established
    ops,         \* ops made
    send,        \* the outstanding send
    call, want, joined, answer,   \* Interrupt calls: where, for which turn, on
                                  \* which op, and what they said last
    toPush,      \* observations report has yet to push
    unblocks,    \* Unblocked observations a timer has yet to push
    log,         \* observations pushed
    inbox, on, stop, asking, alive,   \* the harness
    events,      \* events on their way to report
    ran,         \* history: turns the harness was ever on
    setting      \* one of Settings, for good

turnVars == <<made, native, started, ended, outcome, current, auto, prompt>>
gateVars == <<gate, armed, fired, unblocks>>
opVars == <<op, opOut, ops>>
callVars == <<call, want, joined, answer>>
harnessVars == <<inbox, on, stop, asking, alive, ran, setting>>
vars == <<phase, closing, turnVars, gateVars, opVars, send, callVars, toPush, log,
          harnessVars, events>>

Turns == Inputs \cup Autos
Symmetry == Permutations(Inputs)          \* inputs are interchangeable
\* Errors that close the gate (blockFor): a usage limit whose reset is known or
\* is not, a credential or an account refused.
Walls == setting \cap {"usage", "unknown", "auth", "billing"}
Prompting == "prompting" \in setting      \* the harness raises prompts
StartsOwn == "own" \in setting            \* it starts turns of its own
Autonomous == "autonomous" \in setting    \* as capability autonomous_turns, not background
OwnWalled == StartsOwn /\ Walls # {}      \* those turns meet walls
Uncertain == "uncertain" \in setting      \* a Submit or a marker may fail without certainty
Outcomes == {"completed", "errored", "interrupted", "cancelled"}
Idle == [at |-> "idle", input |-> None, result |-> ""]

Event == [kind : {"started", "ended", "asked", "resolved", "exited"},
          turn : Turns \cup {None}, out : Outcomes \cup {""}, wall : Walls \cup {""}]
Obs == [kind : {"started", "ended", "raised", "resolved", "blocked", "unblocked",
                "exited"}, turn : Turns \cup {None}]

TypeOK ==
    /\ phase \in {"starting", "idle", "busy", "awaiting_answer", "blocked", "exited"}
    /\ closing \in {"no", "stopping", "waiting", "done"}
    /\ made \subseteq Inputs /\ native \subseteq made
    /\ ended \subseteq started /\ started \subseteq Turns
    /\ outcome \in [Turns -> Outcomes \cup {""}]
    /\ current \in made \cup {None}
    /\ auto \in Autos \cup {None}
    /\ prompt \in Inputs \cup {None}
    /\ gate \in Walls \cup {None}
    /\ armed \in BOOLEAN
    /\ fired \in Nat /\ unblocks \in Nat
    /\ op \in [Turns -> 0 .. ops]
    /\ opOut \in [1 .. MaxOps -> {"", "stopped", "cancelled", "too_late"}]
    /\ ops \in 0 .. MaxOps
    /\ send \in [at : {"idle", "mark", "submit", "result"}, input : Inputs \cup {None},
                 result : {"", "ok", "not", "maybe"}]
    /\ call \in [Callers -> {"idle", "calling", "waiting"}]
    /\ joined \in [Callers -> 0 .. ops]
    /\ want \in [Callers -> Turns \cup {None}]
    /\ answer \in [Callers -> {"", "stopped", "cancelled", "too_late", "no_turn",
                               "unconfirmed"}]
    /\ toPush \in Seq(Obs) /\ log \in Seq(Obs)
    /\ inbox \in Seq(Inputs)
    /\ on \in Turns \cup {None}
    /\ {stop, alive} \subseteq BOOLEAN
    /\ asking \in {"no", "yes", "done"}
    /\ events \in Seq(Event)
    /\ ran \subseteq Turns
    /\ setting \in Settings

O(kind, t) == [kind |-> kind, turn |-> t]
Ev(kind, t, out, wall) == [kind |-> kind, turn |-> t, out |-> out, wall |-> wall]

-----------------------------------------------------------------------------
(* The harness: it takes up inputs and turns of its own, one at a time.    *)

HarnessStarts ==
    /\ alive /\ on = None /\ inbox # <<>>
    /\ on' = Head(inbox)
    /\ inbox' = Tail(inbox)
    /\ ran' = ran \cup {on'}
    /\ events' = Append(events, Ev("started", on', "", ""))
    /\ UNCHANGED <<phase, closing, turnVars, gateVars, opVars, send, callVars, toPush,
                   log, stop, asking, alive, setting>>

HarnessStartsOwn(a) ==
    /\ StartsOwn /\ alive /\ on = None /\ a \notin ran
    /\ on' = a
    /\ ran' = ran \cup {a}
    /\ events' = Append(events, Ev("started", a, "", ""))
    /\ UNCHANGED <<phase, closing, turnVars, gateVars, opVars, send, callVars, toPush,
                   log, inbox, stop, asking, alive, setting>>

HarnessEnds ==
    /\ alive /\ on # None
    /\ \E e \in {Ev("ended", on, "completed", "")}
                \cup {Ev("ended", on, "errored", w) : w \in Walls}
                \cup (IF stop THEN {Ev("ended", on, "interrupted", "")} ELSE {}) :
          events' = Append(events, e)
    /\ on' = None /\ stop' = FALSE /\ asking' = "no"
    /\ UNCHANGED <<phase, closing, turnVars, gateVars, opVars, send, callVars, toPush,
                   log, inbox, alive, ran, setting>>

\* A request to stop reaches an input that has not begun.
HarnessWithdraws ==
    /\ alive /\ on = None /\ stop /\ inbox # <<>>
    /\ events' = Append(events, Ev("ended", Head(inbox), "cancelled", ""))
    /\ inbox' = Tail(inbox)
    /\ stop' = FALSE
    /\ UNCHANGED <<phase, closing, turnVars, gateVars, opVars, send, callVars, toPush,
                   log, on, asking, alive, ran, setting>>

\* Bound: one prompt a turn.
HarnessAsks ==
    /\ Prompting
    /\ alive /\ on \in Inputs /\ asking = "no"
    /\ asking' = "yes"
    /\ events' = Append(events, Ev("asked", on, "", ""))
    /\ UNCHANGED <<phase, closing, turnVars, gateVars, opVars, send, callVars, toPush,
                   log, inbox, on, stop, alive, ran, setting>>

\* Answered, or withdrawn by the harness.
HarnessResolves ==
    /\ alive /\ asking = "yes"
    /\ asking' = "done"
    /\ events' = Append(events, Ev("resolved", on, "", ""))
    /\ UNCHANGED <<phase, closing, turnVars, gateVars, opVars, send, callVars, toPush,
                   log, inbox, on, stop, alive, ran, setting>>

Die ==
    /\ alive' = FALSE
    /\ on' = None /\ inbox' = <<>> /\ stop' = FALSE /\ asking' = "no"
    /\ events' = Append(events, Ev("exited", None, "", ""))

HarnessExits ==
    /\ alive
    /\ Die
    /\ UNCHANGED <<phase, closing, turnVars, gateVars, opVars, send, callVars, toPush,
                   log, ran, setting>>

-----------------------------------------------------------------------------
(* Open returns: the Session is idle, unless the harness took up work.     *)

Opened ==
    /\ phase = "starting"
    /\ phase' = IF auto # None THEN "busy" ELSE "idle"
    /\ UNCHANGED <<closing, turnVars, gateVars, opVars, send, callVars, toPush, log,
                   harnessVars, events>>

-----------------------------------------------------------------------------
(* report: one event, under the lock; what it learned is pushed next.      *)

\* restLocked, on the values the step leaves.
Rest(ph) == IF ph = "busy" /\ current' = None /\ auto' = None THEN "idle" ELSE ph

Reported(kind) ==
    /\ events # <<>> /\ toPush = <<>>
    /\ Head(events).kind = kind
    /\ events' = Tail(events)

Ignored ==
    UNCHANGED <<phase, turnVars, gate, armed, opOut, toPush>>

ReportStarted ==
    /\ Reported("started")
    /\ LET t == Head(events).turn IN
       /\ t \in Inputs
       /\ \/ /\ t \in native \ started
             /\ started' = started \cup {t}
             /\ toPush' = <<O("started", t)>>
             /\ phase' = IF t = current /\ phase = "idle" THEN "busy" ELSE phase
             /\ UNCHANGED <<made, native, ended, outcome, current, auto, prompt, gate,
                            armed, opOut>>
          \/ t \notin native \ started /\ Ignored
    /\ UNCHANGED <<closing, fired, unblocks, op, ops, send, callVars, log, harnessVars>>

\* Mutant: a turn that ended was stopped.
InterruptOutcomeStopped(out) == IF out = "cancelled" THEN "cancelled" ELSE "stopped"

InterruptOutcome(out) ==
    CASE out = "interrupted" -> "stopped"
      [] out = "cancelled" -> "cancelled"
      [] OTHER -> "too_late"

\* An interrupt of the turn that ended is settled by how it ended.
Settle(t, out) ==
    opOut' = IF op[t] # 0 /\ opOut[op[t]] = ""
             THEN [opOut EXCEPT ![op[t]] = InterruptOutcome(out)] ELSE opOut

\* Mutant: nothing opens the gate again.
BlockUnarmed(wall) ==
    /\ gate' = wall
    /\ phase' = "blocked"
    /\ UNCHANGED armed

\* Mutant: every wall's gate opens by the timer.
BlockArmed(wall) ==
    /\ gate' = wall
    /\ phase' = "blocked"
    /\ armed' = TRUE

\* The gate a wall closes; a usage wall whose reset is known opens it again by a
\* timer.
Block(wall) ==
    /\ gate' = wall
    /\ phase' = "blocked"
    /\ armed' = (wall = "usage" \/ armed)

\* Mutant: a turn that never began ends all the same.
StartedFirstNot(t) == <<>>

StartedFirst(t) == IF t \in started THEN <<>> ELSE <<O("started", t)>>

CurrentAfter(t) == IF current = t THEN None ELSE current

\* endLocked.
ReportEnded ==
    /\ Reported("ended")
    /\ LET e == Head(events)
           t == e.turn
           resolved == IF prompt # None THEN <<O("resolved", prompt)>> ELSE <<>>
           obs == StartedFirst(t) \o <<O("ended", t)>> \o resolved
       IN
       /\ t \in Inputs
       /\ \/ /\ t \in native \ ended
             /\ started' = started \cup {t}
             /\ ended' = ended \cup {t}
             /\ outcome' = [outcome EXCEPT ![t] = e.out]
             /\ current' = CurrentAfter(t)
             /\ prompt' = None
             /\ UNCHANGED <<made, native, auto>>
             /\ Settle(t, e.out)
             /\ \/ /\ phase # "exited" /\ e.wall # ""
                   /\ Block(e.wall)
                   /\ toPush' = Append(obs, O("blocked", None))
                \/ /\ phase = "exited" \/ e.wall = ""
                   /\ phase' = Rest(IF phase = "awaiting_answer" THEN "busy" ELSE phase)
                   /\ toPush' = obs
                   /\ UNCHANGED <<gate, armed>>
          \/ t \notin native \ ended /\ Ignored
    /\ UNCHANGED <<closing, fired, unblocks, op, ops, send, callVars, log, harnessVars>>

\* autoLocked.
ReportAutoStarted ==
    /\ Reported("started")
    /\ LET t == Head(events).turn IN
       /\ t \in Autos \ started
       /\ started' = started \cup {t}
       /\ auto' = t
       /\ toPush' = <<O("started", t)>>
       /\ phase' = IF phase = "idle" THEN "busy" ELSE phase
    /\ UNCHANGED <<closing, made, native, ended, outcome, current, prompt, gateVars,
                   opVars, send, callVars, log, harnessVars>>

ReportAutoEnded ==
    /\ Reported("ended")
    /\ LET e == Head(events)
           t == e.turn
           obs == StartedFirst(t) \o <<O("ended", t)>>
       IN
       /\ t \in Autos \ ended
       /\ started' = started \cup {t}
       /\ ended' = ended \cup {t}
       /\ outcome' = [outcome EXCEPT ![t] = e.out]
       /\ auto' = IF auto = t THEN None ELSE auto
       /\ Settle(t, e.out)
       /\ UNCHANGED current
       /\ \/ /\ phase # "exited" /\ current = None /\ e.wall # ""
             /\ Block(e.wall)
             /\ toPush' = Append(obs, O("blocked", None))
          \/ /\ phase = "exited" \/ current # None \/ e.wall = ""
             /\ phase' = Rest(phase)
             /\ toPush' = obs
             /\ UNCHANGED <<gate, armed>>
    /\ UNCHANGED <<closing, made, native, prompt, fired, unblocks, op, ops, send,
                   callVars, log, harnessVars>>

ReportAsked ==
    /\ Reported("asked")
    /\ LET t == Head(events).turn IN
       \/ /\ t \in native \ ended
          /\ prompt' = t
          /\ phase' = IF phase \in {"busy", "idle"} THEN "awaiting_answer" ELSE phase
          /\ toPush' = <<O("raised", t)>>
          /\ UNCHANGED <<made, native, started, ended, outcome, current, auto, gate,
                         armed, opOut>>
       \/ t \notin native \ ended /\ Ignored
    /\ UNCHANGED <<closing, fired, unblocks, op, ops, send, callVars, log, harnessVars>>

ReportResolved ==
    /\ Reported("resolved")
    /\ LET t == Head(events).turn IN
       \/ /\ prompt = t
          /\ prompt' = None
          /\ phase' = IF phase = "awaiting_answer" THEN "busy" ELSE phase
          /\ toPush' = <<O("resolved", t)>>
          /\ UNCHANGED <<made, native, started, ended, outcome, current, auto, gate,
                         armed, opOut>>
       \/ prompt # t /\ Ignored
    /\ UNCHANGED <<closing, fired, unblocks, op, ops, send, callVars, log, harnessVars>>

ReportExited ==
    /\ Reported("exited")
    /\ phase' = "exited"
    /\ prompt' = None
    /\ armed' = FALSE
    /\ toPush' = <<O("exited", None)>>
    /\ UNCHANGED <<closing, made, native, started, ended, outcome, current, auto, gate,
                   fired, unblocks, opVars, send, callVars, log, harnessVars>>

Push ==
    /\ toPush # <<>>
    /\ log' = log \o toPush
    /\ toPush' = <<>>
    /\ UNCHANGED <<phase, closing, turnVars, gateVars, opVars, send, callVars,
                   harnessVars, events>>

Report ==
    \/ ReportStarted \/ ReportEnded \/ ReportAutoStarted \/ ReportAutoEnded
    \/ ReportAsked \/ ReportResolved \/ ReportExited \/ Push

-----------------------------------------------------------------------------
(* The gate's timer: it fires, its callback gets the lock, it pushes.      *)

GateFires ==
    /\ armed
    /\ armed' = FALSE
    /\ fired' = fired + 1
    /\ UNCHANGED <<phase, closing, turnVars, gate, unblocks, opVars, send, callVars,
                   toPush, log, harnessVars, events>>

GateOpens ==
    /\ fired > 0
    /\ fired' = fired - 1
    /\ IF phase = "blocked" /\ gate # None
       THEN /\ gate' = None
            /\ phase' = "idle"
            /\ unblocks' = unblocks + 1
       ELSE UNCHANGED <<gate, phase, unblocks>>
    /\ UNCHANGED <<closing, turnVars, armed, opVars, send, callVars, toPush, log,
                   harnessVars, events>>

GatePushes ==
    /\ unblocks > 0
    /\ unblocks' = unblocks - 1
    /\ log' = Append(log, O("unblocked", None))
    /\ UNCHANGED <<phase, closing, turnVars, gate, armed, fired, opVars, send, callVars,
                   toPush, harnessVars, events>>

Gate == GateFires \/ GateOpens \/ GatePushes

-----------------------------------------------------------------------------
(* Send.                                                                   *)

\* admitLocked.
Admits ==
    /\ closing = "no"
    /\ send.at = "idle"
    /\ \/ phase = "idle"
       \/ phase = "busy" /\ current = None /\ auto # None /\ Autonomous

\* Bound: one input where turns of the harness's own meet walls.
SendAdmit(i) ==
    /\ Admits
    /\ i \notin made
    /\ OwnWalled => made = {}
    /\ send' = [at |-> "mark", input |-> i, result |-> ""]
    /\ UNCHANGED <<phase, closing, turnVars, gateVars, opVars, callVars, toPush, log,
                   harnessVars, events>>

\* The marker is written and the turn made current; or the write fails, and the
\* send with it.
SendMark ==
    /\ send.at = "mark"
    /\ \/ /\ made' = made \cup {send.input}
          /\ native' = native \cup {send.input}
          /\ current' = send.input
          /\ send' = [send EXCEPT !.at = "submit"]
       \/ /\ Uncertain
          /\ send' = Idle
          /\ UNCHANGED <<made, native, current>>
    /\ UNCHANGED <<phase, closing, started, ended, outcome, auto, prompt, gateVars,
                   opVars, callVars, toPush, log, harnessVars, events>>

\* Transport.Submit: a harness on a turn of its own is stopped first.
SubmitYields == Autonomous /\ on \in Autos

SendSubmit ==
    /\ send.at = "submit"
    /\ \E given \in {g \in BOOLEAN : g => alive}, result \in {"ok", "not", "maybe"} :
          /\ result = "ok" => given
          /\ result = "not" => ~given
          /\ result = "maybe" => Uncertain \/ ~alive
          /\ result = "not" => Uncertain \/ ~alive
          /\ inbox' = IF given THEN Append(inbox, send.input) ELSE inbox
          /\ send' = [send EXCEPT !.at = "result", !.result = result]
    /\ on' = IF SubmitYields THEN None ELSE on
    /\ stop' = IF SubmitYields THEN FALSE ELSE stop
    /\ events' = IF SubmitYields
                 THEN Append(events, Ev("ended", on, "interrupted", "")) ELSE events
    /\ UNCHANGED <<phase, closing, turnVars, gateVars, opVars, callVars, toPush, log,
                   asking, alive, ran, setting>>

\* Mutant: the Session turns busy only once the harness says the turn began.
SendResultIdle ==
    /\ send.at = "result"
    /\ send.result \in {"ok", "maybe"}
    /\ send' = Idle
    /\ UNCHANGED <<phase, closing, turnVars, gateVars, opVars, callVars, toPush, log,
                   harnessVars, events>>

\* Handed over, or perhaps: the turn stays the current one.
SendResult ==
    /\ send.at = "result"
    /\ send.result \in {"ok", "maybe"}
    /\ phase' = IF send.input \notin ended /\ phase = "idle" THEN "busy" ELSE phase
    /\ send' = Idle
    /\ UNCHANGED <<closing, turnVars, gateVars, opVars, callVars, toPush, log,
                   harnessVars, events>>

\* Mutant: the refused input's turn stays the current one.
SendRefusedCurrent ==
    /\ send.at = "result"
    /\ send.result = "not"
    /\ native' = native \ {send.input}
    /\ made' \in {made, made \ {send.input}}
    /\ UNCHANGED <<current, auto>>
    /\ phase' = Rest(phase)
    /\ send' = Idle
    /\ UNCHANGED <<closing, started, ended, outcome, prompt, gateVars, opVars, callVars,
                   toPush, log, harnessVars, events>>

\* Nothing reached the harness: the marker is withdrawn, which may fail.
SendRefused ==
    /\ send.at = "result"
    /\ send.result = "not"
    /\ native' = native \ {send.input}
    /\ made' \in {made, made \ {send.input}}
    /\ current' = IF current = send.input THEN None ELSE current
    /\ UNCHANGED auto
    /\ phase' = Rest(phase)
    /\ send' = Idle
    /\ UNCHANGED <<closing, started, ended, outcome, prompt, gateVars, opVars, callVars,
                   toPush, log, harnessVars, events>>

Send ==
    \/ \E i \in Inputs : SendAdmit(i)
    \/ SendMark \/ SendSubmit \/ SendResult \/ SendRefused

-----------------------------------------------------------------------------
(* Interrupt and interruptAuto.                                            *)

Return(c, what) ==
    /\ call' = [call EXCEPT ![c] = "idle"]
    /\ joined' = [joined EXCEPT ![c] = 0]
    /\ answer' = [answer EXCEPT ![c] = what]

\* A turn the Session knows: an input's in s.turns, one of its own in s.autos.
Known == made \cup (Autos \cap started)

\* Mutant: an outstanding send is not waited for.
SendOverAlways == TRUE

\* "An interrupt never lands inside an outstanding send".
SendOver == send.at = "idle"

\* Once no send is outstanding: answered at once, joining the turn's interrupt,
\* or starting one.
InterruptAsk(c, t) ==
    /\ call[c] = "idle"
    /\ SendOver
    /\ phase # "starting"
    /\ want' = [want EXCEPT ![c] = t]
    /\ \/ /\ t \notin Known
          /\ Return(c, IF current = None /\ auto = None THEN "no_turn" ELSE "too_late")
          /\ UNCHANGED <<op, ops>>
       \/ /\ t \in Known /\ op[t] # 0
          /\ call' = [call EXCEPT ![c] = "waiting"]
          /\ joined' = [joined EXCEPT ![c] = op[t]]
          /\ answer' = [answer EXCEPT ![c] = ""]
          /\ UNCHANGED <<op, ops>>
       \/ /\ t \in Known /\ op[t] = 0
          /\ t \in ended \/ t \notin {current, auto}
          /\ Return(c, "too_late")
          /\ UNCHANGED <<op, ops>>
       \/ /\ t \in Known /\ op[t] = 0
          /\ t \notin ended /\ t \in {current, auto}
          /\ phase = "exited"
          /\ Return(c, "unconfirmed")
          /\ UNCHANGED <<op, ops>>
       \/ /\ t \in Known /\ op[t] = 0
          /\ t \notin ended /\ t \in {current, auto}
          /\ phase # "exited"
          /\ ops < MaxOps
          /\ ops' = ops + 1
          /\ op' = [op EXCEPT ![t] = ops + 1]
          /\ call' = [call EXCEPT ![c] = "calling"]
          /\ joined' = [joined EXCEPT ![c] = ops + 1]
          /\ answer' = [answer EXCEPT ![c] = ""]
    /\ UNCHANGED <<phase, closing, turnVars, gateVars, opOut, send, toPush, log,
                   harnessVars, events>>

\* Transport.Interrupt stops the turn the harness is on, InterruptTurn only the
\* one named.
InterruptCall(c) ==
    /\ call[c] = "calling"
    /\ alive
    /\ stop' = (stop \/ IF want[c] \in Autos THEN on = want[c]
                        ELSE on # None \/ inbox # <<>>)
    /\ call' = [call EXCEPT ![c] = "waiting"]
    /\ UNCHANGED <<phase, closing, turnVars, gateVars, opVars, send, want, joined,
                   answer, toPush, log, inbox, on, asking, alive, ran,
                   setting, events>>

\* It fails: unless the turn ended meanwhile, a repeat asks again.
InterruptFails(c) ==
    /\ call[c] = "calling"
    /\ Uncertain \/ ~alive
    /\ IF opOut[joined[c]] = ""
       THEN /\ op' = [op EXCEPT ![want[c]] = IF @ = joined[c] THEN 0 ELSE @]
            /\ Return(c, "unconfirmed")
       ELSE /\ call' = [call EXCEPT ![c] = "waiting"]
            /\ UNCHANGED <<op, joined, answer>>
    /\ UNCHANGED <<phase, closing, turnVars, gateVars, opOut, ops, send, want, toPush,
                   log, harnessVars, events>>

\* awaitInterrupt: the outcome, or the deadline or the exit before it.
InterruptReturn(c) ==
    /\ call[c] = "waiting"
    /\ \/ opOut[joined[c]] # "" /\ Return(c, opOut[joined[c]])
       \/ Return(c, "unconfirmed")
    /\ UNCHANGED <<phase, closing, turnVars, gateVars, opVars, send, want, toPush, log,
                   harnessVars, events>>

Interrupt(c) ==
    \/ \E t \in Turns : InterruptAsk(c, t)
    \/ InterruptCall(c) \/ InterruptFails(c) \/ InterruptReturn(c)

-----------------------------------------------------------------------------
(* Close.                                                                  *)

CloseStart ==
    /\ closing = "no"
    /\ phase # "starting"
    /\ closing' = "stopping"
    /\ UNCHANGED <<phase, turnVars, gateVars, opVars, send, callVars, toPush, log,
                   harnessVars, events>>

\* Transport.Stop: the harness is gone, or Stop could not end it.
CloseStop ==
    /\ closing = "stopping"
    /\ closing' = "waiting"
    /\ \/ alive /\ Die
       \/ /\ ~alive \/ Uncertain
          /\ UNCHANGED <<alive, on, inbox, stop, asking, events>>
    /\ UNCHANGED <<phase, turnVars, gateVars, opVars, send, callVars, toPush, log,
                   ran, setting>>

\* The exit was reported, or the wait for it ran out.
CloseFinish ==
    /\ closing = "waiting"
    /\ closing' = "done"
    /\ phase' = "exited"
    /\ armed' = FALSE
    /\ UNCHANGED <<turnVars, gate, fired, unblocks, opVars, send, callVars, toPush, log,
                   harnessVars, events>>

Close == CloseStart \/ CloseStop \/ CloseFinish

-----------------------------------------------------------------------------
Init ==
    /\ phase = "starting" /\ closing = "no"
    /\ made = {} /\ native = {} /\ started = {} /\ ended = {}
    /\ outcome = [t \in Turns |-> ""]
    /\ current = None /\ auto = None /\ prompt = None
    /\ gate = None /\ armed = FALSE /\ fired = 0 /\ unblocks = 0
    /\ op = [t \in Turns |-> 0]
    /\ opOut = [o \in 1 .. MaxOps |-> ""]
    /\ ops = 0
    /\ send = Idle
    /\ call = [c \in Callers |-> "idle"]
    /\ want = [c \in Callers |-> None]
    /\ joined = [c \in Callers |-> 0]
    /\ answer = [c \in Callers |-> ""]
    /\ toPush = <<>> /\ log = <<>>
    /\ inbox = <<>> /\ on = None /\ stop = FALSE /\ asking = "no" /\ alive = TRUE
    /\ events = <<>>
    /\ ran = {}
    /\ setting \in Settings

Works ==
    \/ HarnessStarts \/ HarnessEnds \/ HarnessWithdraws
    \/ HarnessAsks \/ HarnessResolves

Next ==
    \/ Works \/ HarnessExits
    \/ \E a \in Autos : HarnessStartsOwn(a)
    \/ Opened \/ Report \/ Gate \/ Send \/ Close
    \/ \E c \in Callers : Interrupt(c)

Spec == Init /\ [][Next]_vars

-----------------------------------------------------------------------------
(* What the Session promises.                                              *)

\* "while it runs the Session is busy" (autoLocked), and an input's turn too: an
\* idle Session has no turn, or the next Send would meet it.  (Where turns of the
\* harness's own meet walls, the gate's timer makes the Session idle beside a turn
\* that runs: README, session.go:551.)
IdleMeansIdle ==
    phase = "idle" /\ ~OwnWalled => auto = None /\ (current # None => send.at # "idle")

Holds(i) == i = on \/ \E k \in DOMAIN inbox : inbox[k] = i

\* "takes no other input, until the harness ends it or exits": the harness never
\* has two inputs.  (Where turns of its own meet walls, the timer lets the next
\* input in beside one that was being sent: README, session.go:551.)
OneInputAtATime == ~OwnWalled => Cardinality({i \in Inputs : Holds(i)}) <= 1

Count(o) == Cardinality({k \in DOMAIN log : log[k] = o})

\* "A turn ends after it starts": each turn is observed to start once, then to end
\* once, a turn cancelled before it began and one of the harness's own included.
TurnObserved ==
    \A t \in Turns :
        /\ Count(O("started", t)) <= 1
        /\ Count(O("ended", t)) <= 1
        /\ \A k \in DOMAIN log : log[k] = O("ended", t) =>
              \E j \in 1 .. k - 1 : log[j] = O("started", t)

\* An interrupt that answers no_turn or too_late leaves no input behind that it was
\* asked to stop, not even one a send was about to start (nor one that another was
\* let in beside, as above).
NothingLeftRunning ==
    [][~OwnWalled => \A c \in Callers :
          /\ want'[c] \in Inputs /\ answer'[c] \in {"no_turn", "too_late"}
          /\ call'[c] = "idle" /\ (call[c] # "idle" \/ want'[c] # want[c])
          => ~Holds(want'[c]) /\ send.input # want'[c]]_vars

\* "once its turn ended so": what an interrupt answers is how the turn ended, and
\* cancelled only for an input that never ran.
InterruptTruthful ==
    \A c \in Callers :
        /\ answer[c] = "stopped" => outcome[want[c]] = "interrupted"
        /\ answer[c] = "cancelled" => outcome[want[c]] = "cancelled" /\ want[c] \notin ran

\* What a Session says of its turns is what they did.
TurnsAreTrue == TypeOK /\ IdleMeansIdle /\ TurnObserved /\ InterruptTruthful

\* A turn ends, and the Session takes inputs again.
Busy == phase = "busy"

\* "a usage wall with a known reset lets the caller try again from then".
Blocked == phase = "blocked"
UsageBlocked == Blocked /\ gate = "usage"

\* "the adapter refuses a new input until the condition in State.Block clears": no
\* timer clears a credential or an account refused, or a usage limit of which no
\* reset is known, whatever wall was met before.  (A turn the harness starts by
\* itself may meet such a wall while the timer of an earlier one still runs.)
AuthBlockStays ==
    [][~StartsOwn /\ phase = "blocked" /\ gate # "usage" => phase' \in {"blocked", "exited"}]_vars
=============================================================================
