----------------------------- MODULE MCMarkers ------------------------------
(* The markers an adapter leaves before it submits an input, extended for   *)
(* their assumptions and theorems, and, one at a time, what else outlives a *)
(* process or is shared between processes: the spool of hooks, the hook     *)
(* configuration, the state of containments, and the contract's reference.  *)
EXTENDS Markers, TLC

CONSTANTS h1, h2, i1, i2, w1, w2, w3

VARIABLE part       \* the component followed
\* The state of the component followed, by position.
VARIABLES
    s1, s2, s3, s4, s5, s6, s7, s8, s9, s10, s11, s12, s13, s14, s15, s16, s17, s18, s19, s20,
    s21, s22, s23, s24, s25, s26, s27

\* Wrappers run the same code.
Symmetry == Permutations({w1, w2, w3})

\* A legacy file of two sessions beside a hook's; a resumed session; files that
\* do not parse; one with nothing in it.
Spools == { [resume |-> FALSE, readers |-> {1}, files |-> {"legacy", "hook1"}],
            [resume |-> FALSE, readers |-> {1, 2}, files |-> {"legacy"}],
            [resume |-> TRUE, readers |-> {1, 2}, files |-> {"hook1", "hook2"}],
            [resume |-> FALSE, readers |-> {1}, files |-> {"hook1", "bad", "worse"}],
            [resume |-> FALSE, readers |-> {1}, files |-> {"hook1", "empty"}] }
SpoolFiles == {"legacy", "hook1", "hook2", "bad", "worse", "empty"}
SpoolKind(f) == CASE f \in {"bad", "worse"} -> "bad"
                  [] f = "empty" -> "nothing"
                  [] f = "hook2" -> "stale"
                  [] OTHER -> "own"
SpoolHolds(f) == IF f = "legacy" THEN {1, 2} ELSE IF f = "hook2" THEN {2} ELSE {1}

\* The hooks of an older release of the wrapper and of a newer one.
Hook(e, m) == [event |-> e, matcher |-> m]
HookSpec == [old |-> <<Hook("PreToolUse", "Task"), Hook("PreToolUse", "")>>,
             new |-> <<Hook("PreToolUse", ""), Hook("Stop", "")>>]

Contained == [supervised |-> TRUE, stored |-> FALSE, fresh |-> FALSE, remove |-> FALSE,
              sweep |-> TRUE, refuse |-> FALSE, stuck |-> FALSE]
Containments ==
    { [Contained EXCEPT !.stored = TRUE, !.remove = TRUE, !.stuck = TRUE, !.sweep = FALSE],
      [Contained EXCEPT !.stored = TRUE, !.refuse = TRUE],
      [Contained EXCEPT !.fresh = TRUE, !.refuse = TRUE],
      [Contained EXCEPT !.fresh = TRUE, !.stuck = TRUE],
      [Contained EXCEPT !.fresh = TRUE, !.supervised = FALSE] }

\* Of two inputs, the second is answered at once.
FakeKinds(i) == IF i = 1 THEN {"reply", "ask", "limit", "goal", "background"} ELSE {"reply"}

Asked == << [options |-> {"yes", "no"}, multi |-> FALSE],
            [options |-> {"x", "y"}, multi |-> TRUE], [options |-> {}, multi |-> FALSE] >>
Chosen == LET choice == [option |-> "none", options |-> << >>, text |-> ""]
          IN << [choice EXCEPT !.option = "yes"], [choice EXCEPT !.option = "no"],
                [choice EXCEPT !.options = <<"x", "y">>], [choice EXCEPT !.text = "t"] >>

Hooks == INSTANCE Hooks WITH
    setting <- s1, loc <- s2, dur <- s3, hook <- s4, moves <- s5, journal <- s6, reader <- s7,
    lock <- s8, faults <- s9, file <- s1, valid <- s2, configLock <- s3, pc <- s4, read <- s5,
    edits <- s6, user <- s7, raced <- s8, ensured <- s9, Settings <- Spools, Sessions <- {1, 2},
    Files <- SpoolFiles, Root <- {"legacy"}, Kind <- SpoolKind, Holds <- SpoolHolds, MaxRead <- 1,
    MaxQuarantine <- 1, MaxMoves <- 2, MaxFaults <- 1, Procs <- {"old", "new"}, Hooks <- HookSpec,
    MaxEdits <- 1
Held == INSTANCE Containment WITH
    setting <- s1, dir <- s2, young <- s3, record <- s4, proc <- s5, tree <- s6, stateOf <- s7,
    launches <- s8, inode <- s9, crashes <- s10, forged <- s11, raced <- s12, killed <- s13,
    Settings <- Containments, Wrappers <- {w1, w2, w3}, Ids <- {1, 2}, Stored <- 1,
    MaxLaunches <- 2, MaxCrashes <- 1
Fake == INSTANCE Contract WITH
    phase <- s1, opening <- s2, closing <- s3, held <- s4, turn <- s5, run <- s6, auto <- s7,
    own <- s8, autoEnd <- s9, rest <- s10, goal <- s11, work <- s12, background <- s13,
    taken <- s14, block <- s15, endBlock <- s16, prompt <- s17, answered <- s18, ended <- s19,
    sender <- s20, refused <- s21, caller <- s22, closer <- s23, marked <- s24, recorded <- s25,
    recordEnd <- s26, liveEnd <- s27, record <- s1, epoch <- s2, lives <- s3, opens <- s4,
    cursorOpen <- s5, pending <- s6, committed <- s7, read <- s8, out <- s9, took <- s10,
    last <- s11, notice <- s12, seq <- s13, kept <- s14, applied <- s15, raised <- s1,
    asked <- s2, question <- s3, asking <- s4, answers <- s5, events <- s6, call <- s7,
    calls <- s8, given <- s9, accepted <- s10, Inputs <- {1, 2}, Kinds <- FakeKinds,
    Callers <- {1, 2}, MaxGoal <- 2, MaxOwn <- 2, MaxLines <- 3, MaxLive <- 1, MaxOpens <- 3,
    MaxRewrites <- 1, Answerers <- {1, 2}, Questions <- Asked, Choices <- Chosen, MaxCalls <- 2

state == <<s1, s2, s3, s4, s5, s6, s7, s8, s9, s10, s11, s12, s13, s14, s15, s16, s17, s18, s19, s20,
           s21, s22, s23, s24, s25, s26, s27>>
all == <<part, vars, state>>

OnMarkers == part = "markers" /\ UNCHANGED <<part, state>>
OnSpool == part = "spool" /\ UNCHANGED <<part, vars, s10, s11, s12, s13, s14, s15, s16, s17, s18, s19, s20, s21, s22, s23, s24, s25,
                                         s26, s27>>
OnConfig == part = "hooks" /\ UNCHANGED <<part, vars, s10, s11, s12, s13, s14, s15, s16, s17, s18, s19, s20, s21, s22, s23, s24, s25,
                                          s26, s27>>
OnHeld == part = "containment" /\ UNCHANGED <<part, vars, s14, s15, s16, s17, s18, s19, s20, s21, s22, s23, s24, s25, s26, s27>>
OnSession == part = "fake" /\ UNCHANGED <<part, vars>>
OnCursor == part = "cursor" /\ UNCHANGED <<part, vars, s16, s17, s18, s19, s20, s21, s22, s23, s24, s25, s26, s27>>
OnAnswers == part = "answers" /\ UNCHANGED <<part, vars, s11, s12, s13, s14, s15, s16, s17, s18, s19, s20, s21, s22, s23, s24, s25, s26,
                                             s27>>

\* The sets a component chooses from, while it is followed.
When(on, set) == IF on THEN set ELSE {}

-----------------------------------------------------------------------------
\* Variables the component followed has no use for.
Unused(from) ==
    /\ (from < 1 => s1 = 0) /\ (from < 2 => s2 = 0) /\ (from < 3 => s3 = 0)
    /\ (from < 4 => s4 = 0) /\ (from < 5 => s5 = 0) /\ (from < 6 => s6 = 0)
    /\ (from < 7 => s7 = 0) /\ (from < 8 => s8 = 0) /\ (from < 9 => s9 = 0)
    /\ (from < 10 => s10 = 0) /\ (from < 11 => s11 = 0) /\ (from < 12 => s12 = 0)
    /\ (from < 13 => s13 = 0) /\ (from < 14 => s14 = 0) /\ (from < 15 => s15 = 0)
    /\ (from < 16 => s16 = 0) /\ (from < 17 => s17 = 0) /\ (from < 18 => s18 = 0)
    /\ (from < 19 => s19 = 0) /\ (from < 20 => s20 = 0) /\ (from < 21 => s21 = 0)
    /\ (from < 22 => s22 = 0) /\ (from < 23 => s23 = 0) /\ (from < 24 => s24 = 0)
    /\ (from < 25 => s25 = 0) /\ (from < 26 => s26 = 0) /\ (from < 27 => s27 = 0)

AllInit ==
    /\ Init
    /\ \/ part = "markers" /\ Unused(0)
       \/ part = "spool" /\ Hooks!SpoolInit /\ Unused(9)
       \/ part = "hooks" /\ Hooks!ConfigInit /\ Unused(9)
       \/ part = "containment" /\ Held!Init /\ Unused(13)
       \/ part = "fake" /\ Fake!SessionInit
       \/ part = "cursor" /\ Fake!CursorInit /\ Unused(15)
       \/ part = "answers" /\ Fake!AnswersInit /\ Unused(10)

MarkersNext ==
    \/ \E h \in Hosts :
           \/ (OnMarkers /\ Open(h)) \/ (OnMarkers /\ MakeTemp(h))
           \/ (OnMarkers /\ WriteSentinel(h)) \/ (OnMarkers /\ SyncTemp(h))
           \/ (OnMarkers /\ Rename(h)) \/ (OnMarkers /\ SyncScratch(h))
           \/ \E i \in Inputs : (OnMarkers /\ Write(h, i)) \/ (OnMarkers /\ Lookup(h, i))
           \/ (OnMarkers /\ Check(h)) \/ (OnMarkers /\ Link(h)) \/ (OnMarkers /\ Sync(h))
           \/ (OnMarkers /\ Submit(h)) \/ (OnMarkers /\ Withdraw(h)) \/ (OnMarkers /\ Remove(h))
           \/ (OnMarkers /\ Resync(h)) \/ (OnMarkers /\ LookupReads(h))
           \/ (OnMarkers /\ HostCrash(h))
    \/ (OnMarkers /\ MachineCrash) \/ (OnMarkers /\ Damage)

SpoolNext ==
    \/ \E f \in SpoolFiles :
           \/ (OnSpool /\ Hooks!HookWrites(f)) \/ (OnSpool /\ Hooks!HookRenames(f))
           \/ (OnSpool /\ Hooks!HookSyncs(f))
    \/ \E s \in {1, 2} :
           \/ (OnSpool /\ Hooks!MigrateLocks(s)) \/ (OnSpool /\ Hooks!MigrateTakes(s))
           \/ (OnSpool /\ Hooks!MoveRenames(s)) \/ (OnSpool /\ Hooks!MoveSyncs(s))
           \/ (OnSpool /\ Hooks!MigrateAcks(s)) \/ (OnSpool /\ Hooks!SpoolReads(s))
           \/ (OnSpool /\ Hooks!Stored(s)) \/ (OnSpool /\ Hooks!AckRemoves(s))
           \/ (OnSpool /\ Hooks!AckSyncs(s)) \/ (OnSpool /\ Hooks!Crash(s))
    \/ (OnSpool /\ Hooks!PowerFails)

ConfigNext ==
    \/ \E p \in {"old", "new"} :
           \/ (OnConfig /\ Hooks!Lock(p)) \/ (OnConfig /\ Hooks!Read(p))
           \/ (OnConfig /\ Hooks!Rename(p)) \/ (OnConfig /\ Hooks!Again(p))
           \/ (OnConfig /\ Hooks!Dies(p))
    \/ \E e \in Hooks!Events :
           \/ (OnConfig /\ Hooks!UserAdds(e)) \/ (OnConfig /\ Hooks!UserJoins(e))
           \/ (OnConfig /\ Hooks!UserRemoves(e))
    \/ (OnConfig /\ Hooks!UserBreaks) \/ (OnConfig /\ Hooks!UserRepairs)

HeldNext ==
    \/ \E w \in {w1, w2, w3} :
           \/ (OnHeld /\ Held!OpenState(w)) \/ (OnHeld /\ Held!NewState(w))
           \/ (OnHeld /\ Held!SweepStale(w)) \/ (OnHeld /\ Held!Lock(w))
           \/ (OnHeld /\ Held!WriteLifecycle(w)) \/ (OnHeld /\ Held!RecoverKills(w))
           \/ (OnHeld /\ Held!RecoverWaits(w)) \/ (OnHeld /\ Held!RecordLaunch(w))
           \/ (OnHeld /\ Held!Start(w)) \/ (OnHeld /\ Held!Release(w))
           \/ (OnHeld /\ Held!RemoveLists(w)) \/ (OnHeld /\ Held!RemoveUnlinks(w))
           \/ (OnHeld /\ Held!RemoveDir(w)) \/ (OnHeld /\ Held!FinishKills(w))
           \/ (OnHeld /\ Held!FinishWaits(w)) \/ (OnHeld /\ Held!Crash(w))
    \/ \E i \in {1, 2} : (OnHeld /\ Held!Ages(i))
    \/ \E l \in Held!Launches :
           \/ (OnHeld /\ Held!LeaderExits(l)) \/ (OnHeld /\ Held!Dies(l))

\* A second caller comes after the first, for the same input, one that asks.
InTurn(c, i) == c = 2 => i = 1 /\ s22[1].input = i /\ s6[i].kind = "ask"

SessionNext ==
    \/ (OnSession /\ Fake!OpenBegins) \/ (OnSession /\ Fake!Hold) \/ (OnSession /\ Fake!OpenFails)
    \/ (OnSession /\ Fake!OpenEnds) \/ (OnSession /\ Fake!Crash) \/ (OnSession /\ Fake!CloseBegins)
    \/ (OnSession /\ Fake!CloseEnds)
    \/ \E i \in {1, 2} : (OnSession /\ Fake!SendBegins(i))
    \/ (OnSession /\ Fake!SendPreempts) \/ (OnSession /\ Fake!SendGoesOn)
    \/ (OnSession /\ Fake!SendGivesUp) \/ (OnSession /\ Fake!SendRefuses)
    \/ (OnSession /\ Fake!SendAccepts) \/ (OnSession /\ Fake!SendMarks)
    \/ (OnSession /\ Fake!SendMarksNot) \/ (OnSession /\ Fake!SendRecords)
    \/ \E k \in When(part = "fake", FakeKinds(s20.input)) : (OnSession /\ Fake!SendStarts(k))
    \/ \E i \in {1, 2} :
           \/ (OnSession /\ Fake!Queued(i)) \/ (OnSession /\ Fake!Replies(i))
           \/ (OnSession /\ Fake!Asks(i)) \/ (OnSession /\ Fake!PromptResolves(i))
           \/ (OnSession /\ Fake!Fails(i)) \/ (OnSession /\ Fake!MakesGoal(i))
           \/ (OnSession /\ Fake!StartBackground(i)) \/ (OnSession /\ Fake!EndReports(i))
           \/ (OnSession /\ Fake!EndRecords(i)) \/ (OnSession /\ Fake!EndSettles(i))
    \/ (OnSession /\ Fake!Work) \/ (OnSession /\ Fake!RunAuto) \/ (OnSession /\ Fake!EndAuto)
    \/ (OnSession /\ Fake!RunBackground)
    \/ \E c \in {1, 2} :
           \/ (OnSession /\ Fake!Interrupt(c)) \/ (OnSession /\ Fake!InterruptLearns(c))
           \/ (OnSession /\ Fake!InterruptExpires(c))
           \/ \E i \in {1, 2} : (OnSession /\ InTurn(c, i) /\ Fake!AfterSend(c, i))
    \/ (OnSession /\ Fake!InterruptAuto) \/ (OnSession /\ Fake!Answer)

CursorNext ==
    \/ (OnCursor /\ Fake!Load) \/ (OnCursor /\ Fake!PushRecord) \/ (OnCursor /\ Fake!PushLive)
    \/ (OnCursor /\ Fake!HostApplies) \/ (OnCursor /\ Fake!Ack) \/ (OnCursor /\ Fake!HandleGoes)
    \/ (OnCursor /\ Fake!OtherAdapter)
    \/ \E n \in 0 .. (3 + 1) : (OnCursor /\ Fake!Build(n))
    \/ \E n \in 0 .. 3 : (OnCursor /\ Fake!Rewrite(n))

AnswersNext ==
    \/ (OnAnswers /\ Fake!Raise) \/ (OnAnswers /\ Fake!TakeBack) \/ (OnAnswers /\ Fake!Report)
    \/ \E c \in {1, 2} :
           \/ \E p \in Fake!Prompts, k \in DOMAIN Chosen : (OnAnswers /\ Fake!AnswerCall(c, p, k))
           \/ (OnAnswers /\ Fake!TransportAnswer(c)) \/ (OnAnswers /\ Fake!Record(c))

\* These end.
Ended == part \in {"spool", "hooks", "containment", "fake", "cursor", "answers"} /\ UNCHANGED all

AllNext ==
    MarkersNext \/ SpoolNext \/ ConfigNext \/ HeldNext \/ SessionNext \/ CursorNext \/
    AnswersNext \/ Ended

AllSpec == AllInit /\ [][AllNext]_all

-----------------------------------------------------------------------------
\* A marker store is whole and gives a claim to one Host (pkg/adapter); what a hook
\* left is moved into the journal of the session it is for and acked there, or kept
\* (internal/harnesscore's spool); two releases of the wrapper merge their hooks into
\* the user's configuration and neither's ensure undoes the other's (hookensure); a
\* containment's live tree is alone in its state and keeps it, whoever removes or
\* sweeps, except where a refused launch ended its record or a removal let a second
\* owner in by unlinking the lock (internal/contain).
FilesAreKept ==
    /\ TypeOK
    /\ part = "markers" => StoreWhole /\ OneClaimant
    /\ part = "spool" => Hooks!SpoolTypeOK /\ Hooks!SpoolKept
    /\ part = "hooks" => Hooks!ConfigTypeOK /\ Hooks!HooksAreMerged
    /\ part = "containment" => Held!TypeOK /\ Held!StateIsHeld /\ Held!OthersAreSafe

\* The fake adapter, the reference of the contract, reports only what its
\* harness did and lets go of its directory, and a drained cursor of its holds
\* the whole record (fakeadapter); the answer a session
\* gives a harness's question is the one that was given it, whoever else answered
\* (pkg/adapter's pending questions).
ContractIsKept ==
    /\ part = "fake" => Fake!SessionTypeOK /\ Fake!FakeTellsTruth /\ Fake!DirectoryIsLetGo
    /\ part = "cursor" => Fake!CursorTypeOK /\ Fake!DrainedHoldsRecord
    /\ part = "answers" => Fake!AnswersTypeOK /\ Fake!AnswerIsGiven
=============================================================================
