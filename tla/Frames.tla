-------------------------------- MODULE Frames --------------------------------
(***************************************************************************)
(* pkg/screen/screen.go and pkg/turns/watcher.go: the emulated screen a       *)
(* harness's output is written to, its subscribers' coalesced signals, the    *)
(* Watcher whose pumps turn frames and status events into turn events, and    *)
(* Conversation.Resize, which resizes the PTY and then the screen.           *)
(***************************************************************************)
EXTENDS Integers, Sequences, FiniteSets

CONSTANTS
    Callers,    \* callers of Resize
    Sizes,
    Start,      \* the size both begin with
    Cap,        \* of the events channel
    MaxWrites, MaxResizes, MaxStatus    \* bounds

VARIABLES
    output,     \* reads of the PTY not yet written: the size each was painted for
    size, gen,  \* the screen
    peer,       \* the PTY's size
    notifying,  \* Write bumped gen and has yet to notify
    resizeMu, resize,
    signal,     \* the watcher's subscription: "none", "empty", "full", "closed"
    pump,       \* pumpScreen: where it is
    snap,       \* the generation of its snapshot
    status,     \* pumpStatus
    statuses,   \* status events it forwarded
    events,     \* the channel: generations, or 0 for a status
    eventsOpen, done,
    since,      \* history: the generation at the subscription
    seen,       \* history: the last generation OnScreen was given
    panicked,   \* history: a closed channel was sent to
    writes, resizes

screenVars == <<output, size, gen, peer, notifying, resizeMu, resize, writes, resizes>>
watcherVars == <<signal, pump, snap, status, statuses, events, eventsOpen, done, since, seen>>
vars == <<screenVars, watcherVars, panicked>>

TypeOK ==
    /\ output \in Seq(Sizes) /\ size \in Sizes /\ peer \in Sizes
    /\ gen \in 0 .. MaxWrites + MaxResizes
    /\ notifying \in BOOLEAN
    /\ resizeMu \in BOOLEAN
    /\ resize \in [Callers -> {<<"idle">>} \cup ({"peer", "commit", "notify"} \X Sizes)]
    /\ signal \in {"none", "empty", "full", "closed"}
    /\ pump \in {"none", "wait", "snap", "send", "ended"}
    /\ status \in {"none", "wait", "send", "ended"}
    /\ events \in Seq(0 .. MaxWrites + MaxResizes) /\ Len(events) <= Cap
    /\ {eventsOpen, done, panicked} \subseteq BOOLEAN
    /\ resizeMu <=> \E c \in Callers : resize[c] # <<"idle">>

-----------------------------------------------------------------------------
(* The screen.                                                              *)

\* The harness paints for the size its terminal has.
Paint ==
    /\ writes < MaxWrites
    /\ writes' = writes + 1
    /\ output' = Append(output, peer)
    /\ UNCHANGED <<size, gen, peer, notifying, resizeMu, resize, resizes, watcherVars, panicked>>

\* Write, under mu; its notify comes after.
Write ==
    /\ output # << >> /\ ~notifying
    /\ output' = Tail(output)
    /\ gen' = gen + 1
    /\ notifying' = TRUE
    /\ UNCHANGED <<size, peer, resizeMu, resize, writes, resizes, watcherVars, panicked>>

\* Mutant: only a pump that waits is signalled.
notifyWaiting == signal' = IF signal = "empty" /\ pump = "wait" THEN "full" ELSE signal

\* notify, under subMu: a signal, or one that is pending stands for this too.
notify == signal' = IF signal = "empty" THEN "full" ELSE signal

WriteNotifies ==
    /\ notifying
    /\ notifying' = FALSE
    /\ notify
    /\ UNCHANGED <<output, size, gen, peer, resizeMu, resize, writes, resizes>>
    /\ UNCHANGED <<pump, snap, status, statuses, events, eventsOpen, done, since, seen, panicked>>

\* Mutant: resizes run side by side.
ResizeBeside(c, s) ==
    /\ resize[c] = <<"idle">> /\ resizes < MaxResizes
    /\ resizes' = resizes + 1
    /\ resize' = [resize EXCEPT ![c] = <<"peer", s>>]
    /\ resizeMu' = TRUE
    /\ UNCHANGED <<output, size, gen, peer, notifying, writes, watcherVars, panicked>>

\* ResizeWithPeer takes resizeMu.
Resize(c, s) ==
    /\ resize[c] = <<"idle">> /\ ~resizeMu /\ resizes < MaxResizes
    /\ resizes' = resizes + 1
    /\ resize' = [resize EXCEPT ![c] = <<"peer", s>>]
    /\ resizeMu' = TRUE
    /\ UNCHANGED <<output, size, gen, peer, notifying, writes, watcherVars, panicked>>

Idle(c) ==
    /\ resize' = [resize EXCEPT ![c] = <<"idle">>]
    /\ resizeMu' = (\E k \in Callers \ {c} : resize[k] # <<"idle">>)

\* resizePeer, with mu free; a PTY that is gone leaves the screen as it is.
ResizePeer(c) ==
    /\ resize[c][1] = "peer"
    /\ \/ /\ peer' = resize[c][2]
          /\ resize' = [resize EXCEPT ![c][1] = "commit"]
          /\ UNCHANGED resizeMu
       \/ Idle(c) /\ UNCHANGED peer
    /\ UNCHANGED <<output, size, gen, notifying, writes, resizes, watcherVars, panicked>>

\* The emulator follows; an unchanged size moves no generation.
ResizeCommit(c) ==
    /\ resize[c][1] = "commit"
    /\ size' = resize[c][2]
    /\ \/ size' = size /\ Idle(c) /\ UNCHANGED gen
       \/ /\ size' # size
          /\ gen' = gen + 1
          /\ resize' = [resize EXCEPT ![c][1] = "notify"]
          /\ UNCHANGED resizeMu
    /\ UNCHANGED <<output, peer, notifying, writes, resizes, watcherVars, panicked>>

ResizeNotifies(c) ==
    /\ resize[c][1] = "notify"
    /\ notify
    /\ Idle(c)
    /\ UNCHANGED <<output, size, gen, peer, notifying, writes, resizes>>
    /\ UNCHANGED <<pump, snap, status, statuses, events, eventsOpen, done, since, seen, panicked>>

-----------------------------------------------------------------------------
(* The watcher.                                                             *)

\* Watch: the subscription is taken before either pump runs.
Watch ==
    /\ pump = "none"
    /\ signal' = "empty"
    /\ since' = gen
    /\ pump' = "wait" /\ status' = "wait"
    /\ eventsOpen' = TRUE
    /\ UNCHANGED <<screenVars, snap, statuses, events, done, seen, panicked>>

\* pumpScreen: Close, or a signal, which is taken before the snapshot.
PumpScreen ==
    /\ pump = "wait"
    /\ \/ done /\ pump' = "ended" /\ signal' = "closed"
       \/ signal = "full" /\ pump' = "snap" /\ signal' = "empty"
    /\ UNCHANGED <<screenVars, snap, status, statuses, events, eventsOpen, done, since, seen, panicked>>

\* Snapshot, and OnScreen, which makes an event of it or not.
Snapshot ==
    /\ pump = "snap"
    /\ snap' = gen /\ seen' = gen
    /\ pump' \in {"send", "wait"}
    /\ UNCHANGED <<screenVars, signal, status, statuses, events, eventsOpen, done, since, panicked>>

\* send: room in the channel, or Close; both may be ready.
Send(ev) ==
    \/ /\ Len(events) < Cap
       /\ events' = Append(events, ev)
       /\ panicked' = (panicked \/ ~eventsOpen)
    \/ done /\ UNCHANGED <<events, panicked>>

SendFrame ==
    /\ pump = "send"
    /\ Send(snap)
    /\ pump' = "wait"
    /\ UNCHANGED <<screenVars, signal, snap, status, statuses, eventsOpen, done, since, seen>>

\* pumpStatus: the Session's events, to its last.
PumpStatus ==
    /\ status = "wait"
    /\ \/ statuses < MaxStatus /\ statuses' = statuses + 1 /\ status' = "send"
       \/ status' = "ended" /\ UNCHANGED statuses
    /\ UNCHANGED <<screenVars, signal, pump, snap, events, eventsOpen, done, since, seen, panicked>>

SendStatus ==
    /\ status = "send"
    /\ Send(0)
    /\ status' = "wait"
    /\ UNCHANGED <<screenVars, signal, pump, snap, statuses, eventsOpen, done, since, seen>>

\* Mutant: the channel is closed with the screen's pump.
CloseEventsEarly ==
    /\ eventsOpen /\ pump = "ended"
    /\ eventsOpen' = FALSE
    /\ UNCHANGED <<screenVars, signal, pump, snap, status, statuses, events, done, since, seen, panicked>>

\* wg.Wait: the channel is closed once both pumps have ended.
CloseEvents ==
    /\ eventsOpen /\ pump = "ended" /\ status = "ended"
    /\ eventsOpen' = FALSE
    /\ UNCHANGED <<screenVars, signal, pump, snap, status, statuses, events, done, since, seen, panicked>>

Close ==
    /\ pump # "none" /\ ~done
    /\ done' = TRUE
    /\ UNCHANGED <<screenVars, signal, pump, snap, status, statuses, events, eventsOpen, since, seen, panicked>>

\* The reader of Events.
Receive ==
    /\ events # << >>
    /\ events' = Tail(events)
    /\ UNCHANGED <<screenVars, signal, pump, snap, status, statuses, eventsOpen, done, since, seen, panicked>>

-----------------------------------------------------------------------------
Init ==
    /\ output = << >> /\ size = Start /\ peer = Start /\ gen = 0 /\ notifying = FALSE
    /\ resizeMu = FALSE /\ resize = [c \in Callers |-> <<"idle">>]
    /\ writes = 0 /\ resizes = 0
    /\ signal = "none" /\ pump = "none" /\ snap = 0 /\ status = "none" /\ statuses = 0
    /\ events = << >> /\ eventsOpen = FALSE /\ done = FALSE
    /\ since = 0 /\ seen = 0 /\ panicked = FALSE

Next ==
    \/ Paint \/ Write \/ WriteNotifies
    \/ \E c \in Callers : (\E s \in Sizes : Resize(c, s)) \/ ResizePeer(c) \/ ResizeCommit(c) \/ ResizeNotifies(c)
    \/ Watch \/ PumpScreen \/ Snapshot \/ SendFrame \/ PumpStatus \/ SendStatus
    \/ CloseEvents \/ Close \/ Receive

Spec == Init /\ [][Next]_vars

-----------------------------------------------------------------------------
(* What the screen and the watcher promise.                                 *)

\* Signals are coalesced, and none is lost that matters: a watcher at rest, with no
\* signal pending and no write about to give one, has been given the screen as it is,
\* if anything was written since it subscribed.
LastFrameIsSeen ==
    /\ pump = "wait" /\ signal = "empty" /\ gen > since
    /\ ~notifying /\ \A c \in Callers : resize[c][1] # "notify"
    => seen = gen

\* "concurrent resizes cannot leave the two at different final dimensions": with no
\* resize under way, whichever failed, the PTY and the screen have one size.
SizesAgree == (\A c \in Callers : resize[c][1] # "commit") => size = peer

\* The events channel is closed only after both pumps have sent their last.
ChannelOutlives == ~panicked
=============================================================================
