-------------------------------- MODULE Job ---------------------------------
(***************************************************************************)
(* A job, and the environment it runs in.  They are two machines, each with its*)
(* variables.                                                              *)
(***************************************************************************)
EXTENDS Integers, Sequences, FiniteSets, SequencesExt

-----------------------------------------------------------------------------
(* The environment layer (internal/env): Env acquires a machine, a         *)
(* containment on it and credentials in it, in that order, and unwinds     *)
(* what it acquired when a step fails; the Environment's Destroy tears     *)
(* down in reverse under the retention policy.  The machine is local (a    *)
(* directory; an OpenShell sandbox then lives beside it on the host) or    *)
(* remote (a Daytona sandbox; whatever runs there goes with it).           *)

CONSTANTS EnvSettings,        \* machine, contain, retention, injectors
          MaxDestroys      \* calls of Destroy

VARIABLES
    envSetting,
    envPc,           \* the step Env or Destroy is at
    ctx,          \* the caller's context: "live", "done"
    machine,      \* the workspace: "none", "up", "gone"
    sandbox,      \* the containment's sandbox: "none", "left" by a crash, "up"
    composed,     \* teardownWs is the composed workspace
    token,        \* the injectors whose file is in the guest
    staged,       \* those a copy of whose file lies on the machine, outside the sandbox
    redacted,     \* the injectors whose secrets are registered
    unwind,       \* the cleanup thunks still to run, the next one last
    errs,         \* a thunk failed
    destroyed,    \* inner.destroyed
    torndown,     \* openShellLayer.torndown
    outcome,      \* of the Destroy under way
    result,       \* what the last call returned
    calls,
    unremoved,    \* the injectors whose file Cleanup failed to remove
    lost          \* what a call made and then reported failed, or could not delete
envVars == <<envSetting, envPc, ctx, machine, sandbox, composed, token, staged, redacted, unwind, errs,
          destroyed, torndown, outcome, result, calls, unremoved, lost>>

Injectors == 1..envSetting.injectors
ShouldKeep(o) ==
    /\ o # "setup-failure"
    /\ envSetting.retention = "always" \/ (envSetting.retention = "keep-on-failure" /\ o = "failure")

EnvInit ==
    /\ envSetting \in EnvSettings
    /\ envPc = "preflight" /\ ctx = "live"
    /\ machine = "none"
    /\ sandbox \in IF envSetting.contain = "openshell" /\ envSetting.machine = "local" THEN {"none", "left"} ELSE {"none"}
    /\ composed = FALSE /\ token = {} /\ staged = {} /\ redacted = {} /\ unwind = <<>> /\ errs = FALSE
    /\ destroyed = FALSE /\ torndown = FALSE
    /\ outcome = "none" /\ result = "none" /\ calls = 0 /\ unremoved = {} /\ lost = {}

\* The context of the step: setup runs on the caller's, the unwind on one of
\* its own, and Destroy on what it is given.
Live == envPc \in {"unwind", "unwind-inner"} \/ ctx = "live"
\* A command on the machine works, fails, or takes effect and is then reported
\* as failed (its context ended, the transport broke).
LocalExec == IF Live THEN {"ok", "failed", "late"} ELSE {"failed"}
RemoteExec == IF Live THEN {"ok", "failed", "late"} ELSE {"failed"}
Outcomes == IF envSetting.machine = "local" THEN LocalExec ELSE RemoteExec
Took(o) == o \in {"ok", "late"}
\* What is done to a local machine's files never looks at the context.
LocalFiles == {"ok", "failed"}
RemoteFiles == RemoteExec
FileOutcomes == IF envSetting.machine = "local" THEN LocalFiles ELSE RemoteFiles

ContextEnds == ctx = "live" /\ ctx' = "done" /\ envPc # "returned"
               /\ UNCHANGED <<envSetting, envPc, machine, sandbox, composed, token, staged, redacted, unremoved, unwind, errs,
                              destroyed, torndown, outcome, result, calls, lost>>

resources == <<machine, sandbox, token, staged, redacted, unremoved>>
flags == <<destroyed, torndown, composed>>

\* fail: unwind what was acquired, the setup error first.
Fail == envPc' = "unwind" /\ outcome' = "setup-failure"
To(step) == envPc' = step /\ UNCHANGED outcome

Preflight ==
    /\ envPc = "preflight"
    /\ To("create") \/ Fail
    /\ UNCHANGED <<envSetting, ctx, resources, flags, unwind, errs, result, calls, lost>>

LocalCreate == {"ok", "failed"}
RemoteCreate == RemoteExec
\* A creation that failed after it took effect leaves a machine nobody holds:
\* a remote one, which only the sweep finds.
Create ==
    /\ envPc = "create"
    /\ \E o \in IF envSetting.machine = "local" THEN LocalCreate ELSE RemoteCreate :
         IF o = "ok" THEN machine' = "up" /\ unwind' = <<0>> /\ To("checks") /\ UNCHANGED lost
         ELSE /\ machine' = IF o = "late" THEN "up" ELSE machine
              /\ lost' = IF o = "late" THEN lost \cup {"machine"} ELSE lost
              /\ Fail /\ UNCHANGED unwind
    /\ UNCHANGED <<envSetting, ctx, sandbox, token, staged, redacted, unremoved, flags, errs, result, calls>>

\* containment Preflight, then, without an Acquire hook, the layer.
Checks ==
    /\ envPc = "checks"
    /\ \/ Fail /\ UNCHANGED composed
       \/ /\ envSetting.contain = "none" /\ composed' = TRUE /\ To("inject")
       \/ /\ envSetting.contain = "openshell" /\ To("acquire") /\ UNCHANGED composed
    /\ UNCHANGED <<envSetting, ctx, resources, destroyed, torndown, unwind, errs, result, calls, lost>>

\* Acquire: delete a leftover of the same name, create, prepare the layout.
DeleteLeftover ==
    /\ envPc = "acquire"
    /\ \E o \in Outcomes : sandbox' = IF Took(o) THEN "none" ELSE sandbox
    /\ To("policy")
    /\ UNCHANGED <<envSetting, ctx, machine, token, staged, redacted, unremoved, flags, unwind, errs, result, calls, lost>>

\* The tier's policy is rendered and written to the machine, or refused.
StagePolicy ==
    /\ envPc = "policy"
    /\ (To("sandbox") /\ "ok" \in Outcomes) \/ Fail
    /\ UNCHANGED <<envSetting, ctx, resources, flags, unwind, errs, result, calls, lost>>

\* A sandbox that stands there already makes the creation fail.
CreateSandbox ==
    /\ envPc = "sandbox"
    /\ \E o \in IF sandbox = "left" THEN {"failed"} ELSE Outcomes :
         /\ sandbox' = IF Took(o) THEN "up" ELSE sandbox
         /\ IF o = "ok" THEN To("prepare") ELSE Fail
         /\ lost' = IF o = "late" THEN lost \cup {"sandbox"} ELSE lost
    /\ UNCHANGED <<envSetting, ctx, machine, token, staged, redacted, unremoved, flags, unwind, errs, result, calls>>

\* The layout failed: the sandbox is deleted, best effort, on the same context.
NoDelete == UNCHANGED <<sandbox, lost>>
DeleteOnFailure ==
    \E o \in Outcomes :
      /\ sandbox' = IF Took(o) THEN "none" ELSE sandbox
      /\ lost' = IF Took(o) THEN lost ELSE lost \cup {"sandbox"}
PrepareLayout ==
    /\ envPc = "prepare"
    /\ \/ "ok" \in Outcomes /\ composed' = TRUE /\ To("inject") /\ UNCHANGED <<sandbox, lost>>
       \/ Fail /\ DeleteOnFailure /\ UNCHANGED composed
    /\ UNCHANGED <<envSetting, ctx, machine, token, staged, redacted, unremoved, destroyed, torndown, unwind, errs, result, calls>>

\* Upload to the composed workspace: straight to the guest, or to a staging
\* file on the machine and from there across the boundary.
Uploads ==
    IF envSetting.contain = "none"
    THEN {[staged |-> FALSE, guest |-> Took(c), ok |-> c = "ok"] : c \in FileOutcomes}
    ELSE {[staged |-> Took(c), guest |-> c = "ok" /\ Took(x), ok |-> c = "ok" /\ x = "ok"] :
          c \in FileOutcomes, x \in Outcomes}

\* One injector: its redactions, its cleanup, and only then its Apply.
CleanupAfterApply(i, o) == IF o.ok THEN Append(unwind, i) ELSE unwind
PushCleanup(i, o) == Append(unwind, i)
Inject ==
    /\ envPc = "inject"
    /\ LET i == Cardinality(redacted) + 1 IN
       IF i > envSetting.injectors
       THEN /\ To("returned") /\ result' = "ok" /\ unwind' = <<>> /\ UNCHANGED resources
       ELSE \E o \in Uploads :
              /\ redacted' = redacted \cup {i}
              /\ unwind' = PushCleanup(i, o)
              /\ token' = IF o.guest THEN token \cup {i} ELSE token
              /\ staged' = IF o.staged THEN staged \cup {i} ELSE staged
              /\ IF o.ok THEN To("inject") ELSE Fail
              /\ UNCHANGED <<machine, sandbox, unremoved, result>>
    /\ UNCHANGED <<envSetting, ctx, flags, errs, calls, lost>>

-----------------------------------------------------------------------------
\* Cleanup removes the file by a command in the guest, and reports no failure.
Cleanup(i) ==
    /\ \E o \in Outcomes :
         /\ token' = IF Took(o) THEN token \ {i} ELSE token
         /\ unremoved' = IF Took(o) \/ i \notin token THEN unremoved ELSE unremoved \cup {i}
    /\ UNCHANGED <<machine, sandbox, staged, errs, destroyed, torndown, lost>>

\* The containment's teardown, which the layer hands out once.
TeardownAlways ==
    IF envSetting.contain = "none" \/ torndown
    THEN UNCHANGED <<sandbox, torndown, errs>>
    ELSE torndown' = TRUE /\ sandbox' = "none" /\ UNCHANGED errs
Teardown ==
    IF \/ ShouldKeep(outcome) \/ envSetting.contain = "none" \/ torndown
    THEN UNCHANGED <<sandbox, torndown, errs>>
    ELSE /\ torndown' = TRUE
         /\ \E o \in Outcomes : /\ sandbox' = IF Took(o) THEN "none" ELSE sandbox
                                /\ errs' = (errs \/ o # "ok")

\* inner.Destroy: at most once; a remote deletion that failed can be retried.
LocalDestroyed(o) == TRUE
RemoteDestroyed(o) == o = "ok"
InnerDestroy ==
    IF destroyed THEN UNCHANGED <<machine, sandbox, token, staged, destroyed, errs>>
    ELSE IF ShouldKeep(outcome)
    THEN destroyed' = TRUE /\ UNCHANGED <<machine, sandbox, token, staged, errs>>
    ELSE \E o \in FileOutcomes :
           /\ destroyed' = IF envSetting.machine = "local" THEN LocalDestroyed(o) ELSE RemoteDestroyed(o)
           /\ errs' = (errs \/ o # "ok")
           /\ machine' = IF Took(o) THEN "gone" ELSE machine
           /\ sandbox' = IF Took(o) /\ envSetting.machine = "remote" THEN "none" ELSE sandbox
           /\ staged' = IF Took(o) THEN {} ELSE staged
           /\ token' = IF Took(o) /\ (envSetting.machine = "remote" \/ envSetting.contain = "none") THEN {} ELSE token

\* The workspace thunk, 0: the containment first, then the machine; neither
\* failure stops the other.  A token in a sandbox that is deleted is gone.
TeardownStep ==
    /\ envPc \in {"unwind", "destroy"} /\ unwind # <<>> /\ unwind[Len(unwind)] = 0 /\ composed
    /\ envPc' = IF envPc = "unwind" THEN "unwind-inner" ELSE "destroy-inner"
    /\ Teardown
    /\ token' = IF sandbox = "up" /\ sandbox' = "none" THEN {} ELSE token
    /\ UNCHANGED <<envSetting, ctx, machine, staged, redacted, unremoved, composed, unwind, destroyed, outcome, result, calls, lost>>
InnerStep ==
    /\ \/ envPc \in {"unwind-inner", "destroy-inner"}
       \/ envPc = "unwind" /\ unwind # <<>> /\ unwind[Len(unwind)] = 0 /\ ~composed
    /\ envPc' = IF envPc = "destroy-inner" THEN "destroy" ELSE "unwind"
    /\ unwind' = SubSeq(unwind, 1, Len(unwind) - 1)
    /\ InnerDestroy
    /\ UNCHANGED <<envSetting, ctx, redacted, unremoved, composed, torndown, outcome, result, calls, lost>>
CleanupStep ==
    /\ envPc \in {"unwind", "destroy"} /\ unwind # <<>> /\ unwind[Len(unwind)] # 0
    /\ Cleanup(unwind[Len(unwind)])
    /\ unwind' = SubSeq(unwind, 1, Len(unwind) - 1)
    /\ UNCHANGED <<envSetting, envPc, ctx, redacted, composed, outcome, result, calls>>

Return ==
    /\ envPc \in {"unwind", "destroy"} /\ unwind = <<>>
    /\ envPc' = IF envPc = "unwind" THEN "failed" ELSE "returned"
    /\ result' = IF errs THEN "teardown error" ELSE IF envPc = "unwind" THEN "setup error" ELSE "ok"
    /\ UNCHANGED <<envSetting, ctx, resources, flags, unwind, errs, outcome, calls, lost>>

\* The caller destroys what it was handed, with the outcome of its run and a
\* context of its own; it may call again after an error or with another outcome.
Destroy(o) ==
    /\ envPc = "returned" /\ calls < MaxDestroys
    /\ calls' = calls + 1 /\ outcome' = o /\ envPc' = "destroy" /\ errs' = FALSE /\ ctx' = "live"
    /\ unwind' = <<0>> \o [i \in Injectors |-> i]
    /\ UNCHANGED <<envSetting, resources, flags, result, lost>>

\* Sweep, from outside: every remote machine with the labels of this run is
\* deleted, the one whose creation nobody saw succeed included.
Sweep ==
    /\ envPc \in {"failed", "returned"} /\ envSetting.machine = "remote" /\ machine = "up"
    /\ \E o \in {"ok", "failed"} :
         /\ machine' = IF o = "ok" THEN "gone" ELSE machine
         /\ sandbox' = IF o = "ok" THEN "none" ELSE sandbox
         /\ token' = IF o = "ok" THEN {} ELSE token
         /\ staged' = IF o = "ok" THEN {} ELSE staged
         /\ lost' = IF o = "ok" THEN (lost \ {"machine"}) \cup {"swept"} ELSE lost
    /\ UNCHANGED <<envSetting, envPc, ctx, redacted, unremoved, flags, unwind, errs, outcome, result, calls>>

EnvNext ==
    \/ ContextEnds \/ Preflight \/ Create \/ Checks
    \/ DeleteLeftover \/ StagePolicy \/ CreateSandbox \/ PrepareLayout \/ Inject
    \/ TeardownStep \/ InnerStep \/ CleanupStep \/ Return \/ Sweep
    \/ \E o \in {"success", "failure"} : Destroy(o)

EnvSpec == EnvInit /\ [][EnvNext]_envVars

-----------------------------------------------------------------------------
EnvTypeOK ==
    /\ machine \in {"none", "up", "gone"} /\ sandbox \in {"none", "left", "up"}
    /\ token \subseteq Injectors /\ redacted \subseteq Injectors
    /\ result \in {"none", "ok", "setup error", "teardown error"}
    /\ unwind \in UNION {[1..n -> 0..envSetting.injectors] : n \in 0..(envSetting.injectors + 1)}

\* Env that fails without reporting a teardown error leaves nothing behind, at
\* whatever step it failed and whatever half of it took effect: no machine, no
\* sandbox it made, no credential (but for what a call did after it reported
\* failure, and what Acquire's own best-effort delete could not remove).
FailureLeavesNothing ==
    result = "setup error" =>
      /\ machine # "up" \/ "machine" \in lost
      /\ sandbox # "up" \/ "sandbox" \in lost
      /\ \A i \in token : "sandbox" \in lost \/ "machine" \in lost

\* Destroy that reports success leaves what the retention policy keeps, whole,
\* and nothing else: the sandbox outlives the call exactly when its machine
\* does, and no credential stays in what is kept unless removing it failed.
\* (Only the first call of several: a second one retries nothing.)
DestroyKeepsWhole ==
    calls = 1 /\ envPc = "returned" /\ result = "ok" =>
      /\ machine = "up" <=> ShouldKeep(outcome) /\ "swept" \notin lost
      /\ envSetting.contain = "openshell" => (sandbox = "up" <=> machine = "up")
      /\ \A i \in token : i \in unremoved

\* What must hold while credentials are around: none reaches the guest before
\* its secrets are registered for redaction, and on every path, as long as the
\* machine that may hold it stands, its cleanup is still to come or was tried.
CredentialsAreWatched ==
    /\ token \subseteq redacted
    /\ envPc \in {"failed", "returned"} /\ outcome # "none" =>
         \A i \in token : i \in unremoved

-----------------------------------------------------------------------------
(* A headless run (pkg/harness Run): the transcript of one harness process *)
(* acquired from its output lines, from the files its hooks report, or     *)
(* from both with one of them held back, and delivered to one sink; and    *)
(* the display queue, which may drop lines but never stalls the tap.       *)
(* Record k of the conversation is said on the output as line k and        *)
(* written to the transcript file some time later.                         *)

CONSTANTS JobSettings,     \* mode, hooks, stream, sessions, sink, fails
          MaxRecords, MaxHooks, DisplayCap

VARIABLES
    jobSetting,
    jobPc,          \* "running", "exited", "done"
    said,        \* records on the output
    written,     \* records in the transcript file
    spool,       \* what the fired hooks left, in order
    cancelled,   \* the run's context, which a failed delivery ends
    tapVars,     \* streamTap: lines read, shadow, delivered, failed, session
    push,        \* the tap inside display.push: "idle", "full", "evicted"
    display,     \* the display queue
    shown,       \* lines the display callback saw
    dropped,
    strategy
displayVars == <<push, display, shown, dropped>>
harnessVars == <<said, written, spool>>
jobVars == <<jobSetting, jobPc, harnessVars, cancelled, tapVars, displayVars, strategy>>

\* planAcquisition
UseHooks == jobSetting.sink /\ jobSetting.mode = "hooks" /\ jobSetting.hooks
UseStream == jobSetting.sink /\ jobSetting.stream /\ ~UseHooks /\ jobSetting.mode # "off"
Shadow == UseHooks /\ jobSetting.stream
Label == IF UseHooks THEN "hooks" ELSE IF UseStream THEN "stream" ELSE "none"

JobInit ==
    /\ jobSetting \in JobSettings
    /\ jobPc = "running" /\ said = 0 /\ written = 0 /\ spool = <<>> /\ cancelled = FALSE
    /\ tapVars = [read |-> 0, shadow |-> <<>>, delivered |-> <<>>, failed |-> FALSE, session |-> "none"]
    /\ push = "idle" /\ display = <<>> /\ shown = <<>> /\ dropped = 0
    /\ strategy = "none"

-----------------------------------------------------------------------------
\* The harness speaks, persists and fires hooks; a hook may also be lost.
Say == /\ jobPc = "running" /\ said < MaxRecords /\ said' = said + 1
       /\ UNCHANGED <<jobSetting, jobPc, written, spool, cancelled, tapVars, displayVars, strategy>>
Write == /\ jobPc = "running" /\ written < said /\ written' = written + 1
         /\ UNCHANGED <<jobSetting, jobPc, said, spool, cancelled, tapVars, displayVars, strategy>>

Event(src, kind, sub, rec) == [src |-> src, kind |-> kind, sub |-> sub, rec |-> rec]
\* readParentTranscript: the whole file, on each stop; the session's marker; a
\* subagent's records, under its own session and its parent's.
StopEvents == [r \in 1..written |-> Event("file", "text", FALSE, r)]
MarkerEvents == <<Event("file", "session", FALSE, 0)>>
SubagentEvents == <<Event("file", "text", TRUE, 0), Event("hook", "marker", TRUE, 0)>>
HookFires ==
    /\ jobPc = "running" /\ UseHooks /\ Len(spool) < MaxHooks
    /\ \E events \in {StopEvents, MarkerEvents, SubagentEvents} : spool' = Append(spool, events)
    /\ UNCHANGED <<jobSetting, jobPc, said, written, cancelled, tapVars, displayVars, strategy>>

-----------------------------------------------------------------------------
IsParentConversationKind(e) == e.kind = "text"
AdmitParent(mode, e) ==
    /\ e.src # "hook"
    /\ \/ e.sub
       \/ mode = "stream" /\ e.src = "live"
       \/ mode = "hooks" /\ (e.src = "file" \/ ~IsParentConversationKind(e))

\* emit, one event after the other until the sink refuses one, which fails the
\* run: setting.fails is the delivery it refuses.
Admitted(events, mode) == SelectSeq(events, LAMBDA e : AdmitParent(mode, e))
EmitOn(tap, events, mode) ==
    LET all == tap.delivered \o Admitted(events, mode)
    IN  [tap EXCEPT !.delivered = all, !.failed = Len(all) >= jobSetting.fails]
Emit(tap, events, mode) ==
    LET all == tap.delivered \o Admitted(events, mode)
    IN  IF tap.failed THEN tap
        ELSE IF Len(all) < jobSetting.fails THEN [tap EXCEPT !.delivered = all]
        ELSE [tap EXCEPT !.delivered = SubSeq(all, 1, jobSetting.fails - 1), !.failed = TRUE]

\* onLine: the display first, then the session id, then the events.
Heard(tap) == IF jobSetting.sessions /\ tap.session = "none" THEN [tap EXCEPT !.session = "parent"] ELSE tap
OnLine ==
    LET rec == tapVars.read + 1
        tap == [Heard(tapVars) EXCEPT !.read = rec]
        event == <<Event("live", "text", FALSE, rec)>>
    IN  tapVars' = IF tapVars.failed THEN [tapVars EXCEPT !.read = rec]
                   ELSE IF Shadow THEN [tap EXCEPT !.shadow = @ \o event]
                   ELSE IF UseStream THEN Emit(tap, event, "stream")
                   ELSE tap
Line ==
    /\ jobPc = "running" /\ tapVars.read < said /\ push = "idle"
    /\ OnLine
    /\ cancelled' = (cancelled \/ (tapVars'.failed /\ ~tapVars.failed))
    /\ IF Len(display) < DisplayCap
       THEN display' = Append(display, tapVars.read + 1) /\ push' = "idle"
       ELSE push' = "full" /\ UNCHANGED display
    /\ UNCHANGED <<jobSetting, jobPc, said, written, spool, shown, dropped, strategy>>
\* A full queue gives up its oldest line; the drain may have made room meanwhile.
DropNewest ==
    /\ push = "full" /\ push' = "idle" /\ dropped' = dropped + 1 /\ UNCHANGED display
Evict ==
    /\ push = "full" /\ push' = "evicted"
    /\ IF display # <<>> THEN display' = Tail(display) /\ dropped' = dropped + 1
       ELSE UNCHANGED <<display, dropped>>
EvictStep == Evict /\ UNCHANGED <<jobSetting, jobPc, harnessVars, cancelled, tapVars, shown, strategy>>
Retry ==
    /\ push = "evicted" /\ push' = "idle"
    /\ IF Len(display) < DisplayCap THEN display' = Append(display, tapVars.read) /\ UNCHANGED dropped
       ELSE dropped' = dropped + 1 /\ UNCHANGED display
    /\ UNCHANGED <<jobSetting, jobPc, harnessVars, cancelled, tapVars, shown, strategy>>
Show ==
    /\ display # <<>> /\ display' = Tail(display) /\ shown' = Append(shown, Head(display))
    /\ UNCHANGED <<jobSetting, jobPc, harnessVars, cancelled, tapVars, push, dropped, strategy>>

\* The process ends by itself or because the run was cancelled, and Wait
\* returns once all it printed was read and the tap has joined.
Exit ==
    /\ jobPc = "running" /\ tapVars.read = said /\ push = "idle"
    /\ jobPc' = "exited"
    /\ UNCHANGED <<jobSetting, harnessVars, cancelled, tapVars, displayVars, strategy>>

\* display.close waits for the queue to be drained; then drainHooks: the hooks'
\* events first and, if none was of the parent's conversation, the held-back
\* lines.
Recovered(tap, events) ==
    IF tap.session = "none" /\ \E i \in 1..Len(events) : ~events[i].sub
    THEN [tap EXCEPT !.session = "parent"] ELSE tap
Parents(events) == \E i \in 1..Len(events) : IsParentConversationKind(events[i])
DrainHooksOnly ==
    /\ tapVars' = Emit(Recovered(tapVars, FlattenSeq(spool)), FlattenSeq(spool), "hooks")
    /\ strategy' = "hooks"
DrainBoth ==
    LET hooked == Emit(Recovered(tapVars, FlattenSeq(spool)), FlattenSeq(spool), "hooks")
    IN  tapVars' = Emit(hooked, hooked.shadow, "stream") /\ strategy' = "hooks"
DrainHooks ==
    LET events == FlattenSeq(spool)
        hooked == Emit(Recovered(tapVars, events), events, "hooks")
    IN  IF hooked.failed \/ Parents(events)
        THEN tapVars' = hooked /\ strategy' = "hooks"
        ELSE /\ tapVars' = Emit(hooked, hooked.shadow, "stream")
             /\ strategy' = IF hooked.shadow # <<>> THEN "stream" ELSE "hooks"
Finish ==
    /\ jobPc = "exited" /\ display = <<>>
    /\ jobPc' = "done"
    /\ IF UseHooks THEN DrainHooks ELSE strategy' = Label /\ UNCHANGED tapVars
    /\ UNCHANGED <<jobSetting, harnessVars, cancelled, displayVars>>

JobNext ==
    \/ Say \/ Write \/ HookFires
    \/ Line \/ EvictStep \/ Retry \/ Show
    \/ Exit \/ Finish
JobSpec == JobInit /\ [][JobNext]_jobVars

-----------------------------------------------------------------------------
JobTypeOK ==
    /\ said \in 0..MaxRecords /\ written \in 0..said /\ Len(display) <= DisplayCap
    /\ tapVars.read \in 0..said /\ tapVars.session \in {"none", "parent"}
    /\ strategy \in {"none", "hooks", "stream"}

\* The authority filter: no record of the parent's conversation reaches the
\* sink from two sources, whatever hooks fired and whenever they read the file.
OneSource ==
    LET d == tapVars.delivered IN
    \A i, j \in 1..Len(d) : ~d[i].sub /\ ~d[j].sub /\ d[i].rec = d[j].rec /\ d[i].kind = d[j].kind
                            => d[i].src = d[j].src

\* The transcript is never lost: a run that ends without a delivery error has
\* delivered every record, from the file or from the output, up to the last
\* one a hook that read the conversation could see.
TranscriptIsWhole ==
    jobPc = "done" /\ (UseHooks \/ UseStream) /\ ~tapVars.failed =>
      LET d == tapVars.delivered
          seen == {e.rec : e \in {d[i] : i \in {k \in 1..Len(d) : ~d[k].sub /\ d[k].kind = "text"}}}
          stops == FlattenSeq(spool)
          hooked == {stops[i].rec : i \in {k \in 1..Len(stops) : ~stops[k].sub /\ stops[k].kind = "text"}}
      IN  IF hooked # {} THEN seen = hooked
          ELSE jobSetting.stream /\ ~Parents(stops) => seen = 1..said

\* A refused delivery ends the run: nothing is delivered after it, from either
\* source, and the harness was told to stop if it still ran.
FailsFast ==
    /\ tapVars.failed => Len(tapVars.delivered) = jobSetting.fails - 1
    /\ tapVars.failed /\ jobPc = "running" => cancelled

\* The display drops old lines only and counts them: at the end every line was
\* shown or counted, in order, and the last one printed was shown.
DisplayIsCurrent ==
    jobPc = "done" =>
      /\ Len(shown) + dropped = said
      /\ said > 0 => shown # <<>> /\ shown[Len(shown)] = said
      /\ \A i \in 1..(Len(shown) - 1) : shown[i] < shown[i + 1]
=============================================================================
