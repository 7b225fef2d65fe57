# Verification of harness-wrapper

TLA+ models of harness-wrapper, checked with TLC on small instances and, where it says
so, proved with TLAPS for all values of the constants. Paths below are relative to the
repository, `src/` being its root.

## The system

A *harness* is a coding-agent CLI (Claude Code, Codex, Pi, ...). The repository drives
one in two ways.

**The layers** (`docs/md/internal/architecture.md`). `pkg/wrapper`
(`internal/wrapcore`) runs the harness on a PTY, classifies its output and stops it.
`pkg/screen` renders the terminal. `pkg/turns` reads events off the screen: a turn
ended, a wall was hit, a question is asked. `pkg/chat` (`internal/chatcore`) makes a
*conversation* of it: `Send` types a prompt and begins a turn, the turn ends by
whichever of several signals is first, `Interrupt` stops it, `Close` ends it all, and
every event goes, in order, through one bounded queue to one callback. On claude's
stream-json protocol the same conversation runs over pipes instead of a terminal.
Around them: contained launches (`internal/contain`), jobs and environments
(`pkg/harness`, `internal/env`), the command-line tools, runs in tmux and the chat daemon.

**The Harness Adapter contract** (`pkg/contract`, `pkg/adapter`). A *Host* process
drives Sessions for a *Supervisor* which stores what it observes. A Session admits one
input at a time and hands it to a transport (claude, codex, pi, or claude on a
terminal); it writes a durable *submission marker* first, so that after a crash it can
tell whether an input may have reached its harness. A *cursor* merges what the Session
learns live with what the harness wrote to its own record, in batches the Host
acknowledges after its Supervisor has committed them.

`PROJECT.json` lists every part with what is modelled of it, and the hazards of the code
with the line where each bites.

## Modules

Each module's variables are named for the code's fields, `pc` (or a name ending in `pc`)
saying where a goroutine is between two critical sections; everything a handler does
under one lock is one action. What happens outside the code is an action too: the harness
works, ends, dies and writes its record; a person presses a key; a process or the
machine crashes. Variables called *history* in their comment are read by no action, only
by properties. A definition whose comment begins with "Mutant" is no part of the model:
it is a plausible mistake in the definition that follows it, kept to show that some
property would notice.

| module | models | what is hard about it |
|---|---|---|
| `DeliveryQueue`, `OrderedStream` | the delivery queue of `internal/delivery`, and what it promises: accepted values are handed over once, in order, until it ends | producers parked on a channel that is replaced; two bounds at once; a callback that panics; an end that overtakes waiting producers |
| `Supervisor` | `internal/wrapcore`: the process group, the reader, the classifier, the reaper and the supervisor that waits for whichever of exit, verdict, `Stop`, cancellation and failure is first | a verdict about output that has moved on; a harness that leaves a child; a failure faster than the classifier's tick |
| `Frames` | the screen, its watchers' coalesced signals, the Watcher's pumps, `Resize` | lost wake-ups; two sizes changed by two calls |
| `ControlQueue`, `FifoLock` | the control token, and the first-come, first-served lock it implements | a context that ends in the moment of the grant |
| `Conversation` | `Send`, the event loop, the idle watcher, the exit and `Close` of a conversation on a terminal | five goroutines race to end one turn; the exit must come last; outcomes decided after the lock is let go |
| `Interrupt` | `Interrupt` calls and `Send`'s keystrokes on the composer they share | Esc between a prompt and its submit key; joined calls; contexts that end anywhere |
| `Prompts` | prompts raised, answered by policy or by a caller; the keys that cycle permission modes | a screen that lags behind the keys |
| `Stream` | a conversation on the stream-json protocol | receipts given up, results that name no message, a death anywhere |
| `Opening` | Open, Reopen and Delete of one stored conversation, and the discovery of the harness's id | several processes, a Store that fails, ids captured before the record exists |
| `Containment` | the managed states of contained launches, their locks, cgroups, removal and sweep | wrappers that die between two steps |
| `AdapterSession` | a Session of the Harness Adapter, with a transport as its environment | submits that fail without certainty; turns the harness starts itself; timers |
| `SessionOpen` | NewSession, Open step by step, the Session's lock, Close, and Hosts that die | an exit reported while Open is still at work |
| `Cursor` | the observation cursor, the record's reader, the Host and its Supervisor | two locks taken one after the other; chunks that span batches; a crash anywhere |
| `Markers`, `MarkerIndex` | the marker store several Hosts share, and its index by native id | directory entries not yet on disk when the machine crashes; a clock coarser than two writes |
| `ClaudeTransport`, `CodexTransport`, `PiSession`, `TuiSession` | the four transports, each with its harness | whose turn is it; frames that name no input; two channels nobody orders |
| `ClaudeRecord`, `Records` | the readers of claude's transcript, of codex's rollout, and the transcript follower | chunks cut anywhere, restarts, files replaced or truncated |
| `CodexProcess` | starting codex on saved state under a lock, and the keeper of its sign-in | two sessions and a sign-out at once |
| `Contract` | the fake adapter's Session and cursor, and the answers to a Session's questions | the reference every adapter is compared with |
| `Hooks` | the spool hooks report through, and the settings file that names them | power failures between write, rename and sync; two releases editing one file |
| `Job`, `Commands` | a job's transcript and its environment; a one-shot run, a run in tmux, the chat daemon | two sources of one transcript; clients that hang up |
| `Launch`, `Reading`, `Dialogs` | pure functions: launch arguments, grants and rendered homes; classifiers, terminal text and transcripts; dialogs and the keys that answer them | bytes cut into reads anywhere; flags that undercut one another |
| `MC*` | the instances TLC checks | |
| `*Proofs` | theorems and their proofs | |

`Contract`, `Records`, `Hooks`, `CodexProcess`, `Job` and `Commands` hold two or three
machines each, with variables of their own and no step in common.

What is abstracted: text is left out, so that a turn, an input or an observation is a
number or a model value; the composer's content is empty, one prompt, a draft or a
mixture; a line of output or of a transcript is a record of what its reader tells apart;
times are only told apart where the code's own order of steps decides, so any timer may
fire whenever it is armed. Many modules take a set of `Settings`: what the harness and
the callers are like, chosen in the initial state and never changed.

## What the runs check

A run follows one component, or one of several: its module then EXTENDS the component
that has theorems and INSTANCEs the others over shared variables `s1, s2, ...`; the
variable `part`, chosen initially, says which component is followed, and all the others
stand still. So one run asks one layer's questions, and a property `part = "x" => P`
holds of every reachable state of component x.

| run | instance | shows |
|---|---|---|
| `delivery` | queue: 3 producers, 2 events, 3 bytes, sizes 1, 2, 4, 4 pushes; supervisor in 6 configurations; frames; 9 ways of opening, up to 3 callers | every value is delivered, counted lost, queued or with its producer, neither bound is passed and `OrderedStream` is implemented; a run's report is right and final; a watcher sees the last frame at the terminal's size; a failed open leaves nothing, and what was contained stays contained |
| `conversation` | 2 turns, each event channel one ahead, 3 settings | a turn ends once, after its pending event; `EventExited` is last and nothing is turned away after it; a `Send` types alone into an idle harness; a held or a swallowed turn succeeds only on its own recorded reply |
| `interrupt` | 2 turns, 1 round of clear keys, 2 calls, with a person at the terminal, without, and with a composer that cannot be read; stream in 6 settings; prompts on 12 terminals, three of them slow and one with no posture to read | keys never land inside a submit, prompts never run together, one call drives a turn's interrupt, every caller learns how the turn ended, a reply cut short is not completed; the same over stream-json; dialogs and permission modes get only the keys meant for them |
| `session` | 2 inputs, 1 turn of the harness's own, 1 interrupt; 5 settings, with every kind of wall, prompts, turns of the harness's own, and those meeting a wall (1 input) | an idle Session has no turn, inputs do not overlap, every turn is observed from start to end, interrupts answer what happened, no timer clears a refusal that has no reset |
| `cursor` | 3 record items, 2 live ones, 1 crash, batch bounds 1, 2, 4; the record readers, job, one-shot, tmux, environment and daemon | a checkpoint covers only committed items, nothing is delivered out of order; readers say what the harness wrote; what hosts a run gives back what it took |
| `markers` | 2 Hosts, 2 inputs, 2 crashes; spool, hook configuration of 2 releases and a user, containment with 3 wrappers, fake adapter with 2 callers, answers | absence of a marker in an intact store proves its input was not handed over, no input is handed over twice; what is kept in files survives; the contract's reference keeps its promises |
| `transports` | 2 Hosts, 3 ids; codex transport, start, keeper | one Host per running Session, no lock kept by what no longer runs; inputs run once in codex or not at all |
| `harnesses` | index with ticks of 2 and slack 2 over 5 units of time; claude transport, a foreign and a lacking claude included; pi; claude on a terminal | no lookup misses a marker; what is reported of a turn is what the harness did |
| `functions` | every input up to 3 to 9 tokens, by function | launches are as asked; output is read the same however it is cut; files are read and rendered whole; answers reach the row they name |
| `liveness` | smallest instances: 3 callers of the token, 1 turn, 1 input, 1 item | the token is never lost and `FifoLock` is implemented; everything waited for comes |

The bounds are the smallest at which the races exist: two turns so that one can be
mistaken for the other, three callers so that two can wait on one, a chunk of several
items so that batches split it, two crashes so that a store can be lost and made anew.
Deadlock is checked except in `interrupt`, `cursor`, `transports` and `functions`, where
callers, records, Hosts or inputs run out and the system may stop.

### Conditions on the properties

Some properties are stated, or checked, under a condition. Each marks a case where the
code does not give the guarantee, or where it is not looked for.

* `HeldNeedsReply` and `ProofIsOwn` (in `SuccessIsReplied`) are checked where callers
  send once the last turn's terminal event is out (`patient`). `heldRelabel` reads
  `c.heldReason` (`internal/chatcore/relabel.go:108`) after the turn was claimed; by then
  the `beginTurn` of a caller that does not wait may have cleared it
  (`internal/chatcore/send.go:204`), and a turn that was blocked, or whose prompt was
  swallowed, is then passed off as a success on another turn's record.
* `TerminalOnce` and `ExitedIsLast` (in `TurnsEndOnce`) ask less where there are sign-in
  walls: the turn `emitAuthRequiredTurn` makes has no pending event and is in neither
  group `EventExited` waits for.
* `PromptsNotMixed` is about a composer that can be read off the screen;
  `CutIsNotComplete` about a terminal nobody else presses Esc at, and a turn on which no
  call gave up after its Esc: the idle fallback holds off only for an interrupt that
  awaits its answer.
* `AnswerIsChosen`, `SwitchIsHonest` and `NeverPressesThrough` (in `KeysAreSafe`) leave out
  what is listed below: an Enter that overtakes a redraw, an answer after one that gave up
  on a slow harness (`late`), keys pressed after a budget a slow harness did not keep, by a
  call that found another's in flight, or into a dialog not raised yet (`missed`, `clean`).
  A switch that fails from a posture that could not be read promises no way back.
* `IdleMeansIdle` (in `TurnsAreTrue`), `OneInputAtATime` and `NothingLeftRunning` are about
  a harness whose own turns meet no walls, `AuthBlockStays` about one that starts none. As a
  bound, the setting that has both admits one input.
* `OneHost` is about harnesses of Hosts that live: "A harness that outlives its Host ... is
  not covered" (ADR-022).
* `Damage` takes the sentinel first and leaves something in the directory.
  `AbsenceProves` leaves out a store damaged between the two looks of one `Lookup`, which
  answers from it all the same.
* `ReportsAreTrue` lets the result of a claude that is to be stopped end an input it did
  not run.
* `AbsenceProves`, `GivenOnce` and their theorems need `SyncsParents`: that syncing a
  directory makes its own entry durable. `OpenMarkers` syncs the scratch root only where
  it created the store, so a Host that finds a store another has just renamed into place
  may otherwise write markers that a crash takes away with the store.
* `TuiSession` assumes that a poll falls within every turn, that claude writes what a turn
  owes within the graces, and that keys are read only after the turn is logged and hooked.
* `Frames`, `Stream`, `Job`, `Commands`, `Containment` and `Hooks` name the race they leave
  out in the property's comment (`torn`, `raced`, `forged`, `late`, ...); those are listed
  below.

### Where the code disagrees with what it says

Two runs are expected to find a violation.

* `conversation_unsubmitted`: `beginTurn` relies on "nothing can end a turn that has not
  been submitted" (`internal/chatcore/send.go:150`). `handleTurnsEvent` finds no turn in
  flight, lets the lock go and claims whatever is in flight when it takes it again. If
  the idle watcher has ended the event's own turn and a `Send` gets as far as its
  `beginTurn` in between, the new turn completes before its prompt is typed.
* `cursor_settled`: `settled` looks at the queue, lets the lock go and reads; a chunk an
  `observe` queued in between is taken for an empty record, and `Close` reports that
  everything was acknowledged (`pkg/adapter/cursor.go:250`).

Others were met while modelling. The models have them; the passing properties leave them
out by the condition their comments name.

| where | what the code does | what is said of it |
|---|---|---|
| `pkg/screen/screen.go:194` | the PTY is resized with the screen unlocked, so output painted for the new size is read at the old one | "Screen reads and writes are paused while the PTY is resized" (`internal/chatcore/conversation.go:922`) |
| `internal/chatcore/stream.go:738` | after a `Send` gave up, the old message's result ends the next turn | "one message in flight keeps each turn's receipt and result unambiguous" (ADR-009) |
| `internal/chatcore/stream.go:983` | a `Send` that registers its turn while the exit is handled leaves `stream.turn` without a current turn | "the in-flight turn's protocol state, nil when none" |
| `internal/chatcore/stream.go:984` | an `Interrupt` that finds `stream.turn` after the exit has ended the current turn dereferences nil | an interrupt is "settled by the turn's result — stopped or cancelled, or too late when it finished first" (`:968`) |
| `internal/chatcore/permmode.go:815` | a render budget that elapses on a slow harness is no error and the next key is pressed: into the dialog the unread one opens, or one not raised yet, or one whose request a torn frame resolved (`pkg/turns/harness/claudecode/claudecode.go:282`) | "Shift+Tab must never be typed into it" (`:679`) |
| `internal/chatcore/input.go:505` | an answer that follows one that gave up sends the arrows of the frame the dialog was raised on, while the first one's may still be unread | "re-sending navigation while the first may still be in flight can walk the real highlight past the target" (`:468`) |
| `internal/chatcore/permmode.go:527` | a dialog answered by a slow policy is waited out and a key pressed from a posture read before it | `SetPermissionMode` "returns the FINAL OBSERVED posture" |
| `internal/chatcore/conversation.go:668` | a contained conversation's record is stored before its launch's targets are | "A resume whose paths now resolve elsewhere is refused" (`containment.go:60`) |
| `internal/chatcore/answer_plan.go:83` | the evidence that a key landed may be a frame older than the key | steps "must be seen to land before the next is sent" (`pkg/turns/turns.go:629`) |
| `internal/contain/launch_linux.go` | `Release` of a launch refused at the lock ends the record of the launch that holds it | `recoverPrevious` "makes sure nothing from the state's previous launch is still running" |
| `internal/contain/state_linux.go:362` | `RemoveAll` may unlink the lock file before the rest; a launch then makes and locks a new one while the removal goes on | "a launch racing for the state must not win it half-deleted" (`:361`) |
| `internal/harnesscore/hookensure.go:87` | what the user writes between an ensure's read and its rename is overwritten | "preserves the user's hooks" (`settingsjson.go:36`) |
| `pkg/adapter/session.go:551` | the gate's timer makes the Session idle while a turn of the harness's own runs, or opens the gate of a wall met later | "while it runs the Session is busy" (`:377`) |
| `pkg/adapter/session.go:492` | a turn of the harness's own meets a wall while a `Send` is on its way; once the timer fires, the Session takes a second input beside the first, and an interrupt of the first answers `too_late` | "takes no other input, until the harness ends it or exits" (`:679`) |
| `pkg/adapter/claudecode/transport.go:558` | until a claude that was found foreign or lacking is gone, its result of the input that erred ends the next input | "Nothing it does is the Session's" (`:497`) |
| `pkg/adapter/session.go:696` | claude's and pi's interrupts name no turn; one may reach the next input's | "Interrupt stops the named turn" (`pkg/contract/adapter.go:57`) |
| `pkg/adapter/codex/transport.go:341` | a resume that cannot read the thread's state saves an empty one over it | "syncNative keeps what codex last said" (`:440`) |
| `pkg/adapter/codex/keeper.go:123` | a sign-in whose codex dies, or whose completion comes before its id is kept, is pending for ever | "It completes, or fails, on its own" (`pkg/contract/keeper.go:39`) |
| `pkg/adapter/claudecodetui/asks.go:192` | a hook that takes its answer and exits between two looks is taken for lost | "a hook gone before it handed claude an answer" (`:166`) |
| `pkg/adapter/claudecodetui/live/live.go:282` | claude's automatic continue, taken while an input is typed, is bound to the input | "A prompt of claude's own ... is not an input's" (`:278`) |
| `pkg/adapter/claudecode/provision.go:134` | a load whose Sessions worked in directories that encode alike (`b.b`, `b/b`) is refused: two relocations have one source | "the profile moves what the harness keeps by each" (`docs/md/internal/contract.md:89`) |
| `internal/env/openshell/openshell.go:471` | a create that fails after it took effect is not undone | "A failed Acquire must best-effort delete its own half-created resources" |
| `pkg/harness/run.go:469` | a spooled subagent's transcript counts as the parent's, and keeps the buffered stream from being delivered | "if no PARENT-conversation event was captured" it is flushed (`:455`) |
| `pkg/oneshot/oneshot.go:287` | a failed `Send` after the launch is reported as a startup error | "A startup_error means no harness was launched" (`structured_run.go:145`) |
| `cmd/harness-wrapper/tmux.go:220` | `kill-session -t` of a name that is gone kills another that begins with it | it kills "the tmux session a --tmux-child run is executing inside" (`:199`) |
| `cmd/harness-chatd/server.go:153` | a conversation opened while the daemon shuts down is closed by nobody | "Shutdown closes every conversation" (`:152`) |
| `pkg/contract/fakeadapter/session.go:623` | an ask after the exit revives an exited Session; an end is reported before it is recorded | "a session_exited observation reports how, once" (`:311`) |

### Fairness

Weak fairness of a goroutine's steps stands for Go's scheduler and its mutexes: a
runnable goroutine runs, and one whose `select` has a ready case leaves it. Where several
cases of a `select` stay ready, each is taken in the end because Go chooses among them at
random: the supervisor's cases have strong fairness. The rest is what the code asks of
others: the delivery callback returns (except where a stalled one is the point); a holder
of the control token releases it; a working harness takes up what it was given and ends
its turn, and one that was stopped dies; a usage wall's reset comes; a Host keeps
observing with a bound that is large enough, stores and acknowledges. The Host's steps
have strong fairness, because a crash disables them and there is a bounded number of
crashes. Nothing is assumed of a caller's context, of a second input, or of whoever is to
answer: no client and no person has to answer a permission that claude asks for. So what
is promised of a stream's turn, its `Interrupt` and a claude input is that it ends *or* that
a permission is before the client, and of a permission that it gets there. `part` never changes, so fair steps of different components share a conjunct of
`MCLiveness!Fairness`, and so do the promises of `WhatIsAwaitedComes`.

## What is proved

All proofs are for any sets of producers, Hosts, callers and inputs, any bounds and any
number of crashes.

**`DeliveryQueueProofs`.** `TypeCorrect`: the variables' types are inductive once it is
known what an entry of the queue is (`EventFacts`).

**`MarkersProofs`.** A store is made in several steps, by any number of Hosts at once, and
every step may be the last before a crash. `StoreInv` follows each Host's directory
through them: one about to be renamed has its sentinel, on disk; so then does the store,
which keeps it through any crash. `StoresAreWhole` follows, on any filesystem. None of the
other properties is inductive either. `MarkerInv` adds what a Host that
holds a claim relies on: its marker is in the store, and on disk once it was synced; no
other Host claims the same input; the input was not handed over. And it says that what
was handed over is on disk, in a store whose own entry is. `MarkerStep` shows that every
step keeps it, assuming `SyncsParents`; the crash of the machine is where durability is
needed, and `Damage` is harmless because it takes the sentinel. From it: `AbsenceIsProof`
(absence in an intact store proves an input was never handed over), `ClaimsAreExclusive`
(no two Hosts hold the claim of one input), `IdsGivenOnce` (no input is handed over twice
from a store nothing damaged).

**`MarkerIndexProofs`.** `MissIsTrueAlways`: a lookup begun after a marker's write returned
finds it. The invariant relates the time the directory shows to the time of the last scan:
a scan that could have missed a marker is too young to be trusted, within the slack.

**`SessionOpenProofs`.** `OneHostAlways` and `LockIsLetGoAlways`: the lock's owner, each
Host's place in `Open` and what became of its harness are kept together, one Host at a
time; a step of one Host leaves the others' facts alone because it can take the lock only
when nobody has it.

### What is only model-checked

Every property of a passing run that has no theorem above. Liveness stays with TLC in any
case: TLAPS proves neither fairness nor `ENABLED`. So do the pure functions of `Launch`,
`Reading` and `Dialogs` and the record readers: what they compute is defined by recursion
over their input, and the provers here have no induction over data.

## Not modelled

The terminal emulator, Landlock, AppArmor, cgroups, tmux, codex's JSON-RPC and HTTP are
other code's, modelled only as far as `src/` relies on them. The memory Store is a map
behind a lock; `Conversation` and `Opening` take a Store as an operation that may fail.
Contract types, conformance scenarios, generated facades, mocks, benches, version lookups
and date parsing hold no state that a property is about. Wording, logs and traces are
left out everywhere.
