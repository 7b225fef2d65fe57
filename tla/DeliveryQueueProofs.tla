------------------------ MODULE DeliveryQueueProofs ------------------------
(***************************************************************************)
(* Proofs, for any number of producers, any bounds and any sizes, of what  *)
(* DeliveryQueue promises and that it implements OrderedStream.            *)
(***************************************************************************)
EXTENDS DeliveryQueue, FiniteSetTheorems, TLAPS

\* Every value has a size, and Push makes a value of the bounded ids.
LEMMA EventFacts ==
    /\ \A e \in Event : e.size \in Nat
    /\ \A i \in 1 .. MaxPushes, n \in Sizes : [id |-> i, size |-> n] \in Event
BY LimitsAssumption DEF Event

\* The queue's variables keep their types in every reachable state.
THEOREM TypeCorrect == Spec => []TypeOK
<1>1. Init => TypeOK
  <2>1. Init => closed \in BOOLEAN /\ abandoned \in BOOLEAN /\ aborted \in BOOLEAN
    BY Zenon DEF Init
  <2>2. QED
    BY <2>1, LimitsAssumption DEF Init, TypeOK
<1>2. TypeOK /\ [Next]_vars => TypeOK'
  <2> SUFFICES ASSUME TypeOK, [Next]_vars PROVE TypeOK'
    OBVIOUS
  <2> USE LimitsAssumption, NoEventAssumption, EventFacts DEF TypeOK
  <2>1. ASSUME NEW p \in Producers, NEW e \in Event, Attempt(p, e)
        PROVE  /\ items' \in Seq(Event) /\ bytes' \in Int
               /\ closed' \in BOOLEAN /\ abandoned' \in BOOLEAN
               /\ ready' \in {0, 1} /\ lost' \in Nat
               /\ hand' \in [Producers -> Event \cup {NoEvent}]
               /\ parked' \subseteq Producers /\ accepted' \in Seq(Event)
    <3>1. closed' = closed /\ abandoned' = abandoned
      BY <2>1, Zenon DEF Attempt, queueVars
    <3>2. CASE UNCHANGED <<queueVars, accepted>>
      BY <2>1, <3>2 DEF Attempt, queueVars
    <3>3. CASE Enqueue(e)
      <4>1. bytes' \in Int /\ ready' \in {0, 1}
        BY <3>3 DEF Enqueue, Signal
      <4>2. items' \in Seq(Event) /\ accepted' \in Seq(Event)
        BY <3>3 DEF Enqueue
      <4>3. lost' \in Nat /\ parked' \subseteq Producers
        BY <2>1 DEF Attempt
      <4>4. hand' \in [Producers -> Event \cup {NoEvent}]
        BY <2>1 DEF Attempt
      <4>5. QED
        BY <3>1, <4>1, <4>2, <4>3, <4>4
    <3>4. QED
      BY <2>1, <3>2, <3>3 DEF Attempt
  <2>2. ASSUME NEW p \in Producers, NEW n \in Sizes, Push(p, n)
        PROVE  TypeOK'
    BY <2>1, <2>2 DEF Push, workerVars
  <2>3. ASSUME NEW p \in Producers, Retry(p)
        PROVE  TypeOK'
    BY <2>1, <2>3 DEF Retry, workerVars
  <2>4. ASSUME NEW p \in Producers, GiveUp(p)
        PROVE  TypeOK'
    BY <2>4 DEF GiveUp, workerVars, queueVars
  <2>5. ASSUME NEW n \in Sizes, PushLast(n)
        PROVE  TypeOK'
    <3>1. CASE closed \/ abandoned
      BY <2>5, <3>1 DEF PushLast, workerVars, queueVars
    <3>2. CASE ~(closed \/ abandoned)
      <4>1. closed' \in BOOLEAN /\ abandoned' \in BOOLEAN /\ parked' = {}
        BY <2>5, <3>2, Zenon DEF PushLast, CloseLocked, WakeWaiters
      <4>2. PICK e \in Event : Enqueue(e)
        <5>1. pushed + 1 \in 1 .. MaxPushes
          BY <2>5 DEF PushLast
        <5>2. [id |-> pushed + 1, size |-> n] \in Event
          BY <5>1
        <5>3. Enqueue([id |-> pushed + 1, size |-> n])
          BY <2>5, <3>2, Zenon DEF PushLast
        <5>4. QED
          BY <5>2, <5>3, Zenon
      <4>3. items' \in Seq(Event) /\ accepted' \in Seq(Event)
        BY <4>2 DEF Enqueue
      <4>4. bytes' \in Int /\ ready' \in {0, 1}
        BY <4>2 DEF Enqueue, Signal
      <4>5. pushed' \in 0 .. MaxPushes /\ lost' = lost
        BY <2>5, <3>2 DEF PushLast
      <4>6. QED
        BY <2>5, <4>1, <4>3, <4>4, <4>5 DEF PushLast, workerVars
    <3>3. QED
      BY <3>1, <3>2
  <2>6. CASE Close
    BY <2>6 DEF Close, CloseLocked, Signal, WakeWaiters, workerVars
  <2>7. CASE Abandon
    <3>1. closed' \in BOOLEAN /\ abandoned' \in BOOLEAN
      BY <2>7, Zenon DEF Abandon, CloseLocked
    <3>2. parked' \subseteq Producers /\ ready' \in {0, 1}
      BY <2>7 DEF Abandon, CloseLocked, Signal, WakeWaiters
    <3>3. QED
      BY <2>7, <3>1, <3>2 DEF Abandon, workerVars
  <2>8. CASE Abort
    BY <2>8 DEF Abort, workerVars, queueVars
  <2>9. CASE Take
    BY <2>9 DEF Take, WakeWaiters
  <2>10. CASE Idle
    BY <2>10 DEF Idle, queueVars
  <2>11. CASE Receive
    BY <2>11 DEF Receive
  <2>12. ASSUME NEW ok \in BOOLEAN, Return(ok)
         PROVE  TypeOK'
    BY <2>12 DEF Return, queueVars
  <2>13. CASE UNCHANGED vars
    BY <2>13 DEF vars
  <2>14. QED
    BY <2>2, <2>3, <2>4, <2>5, <2>6, <2>7, <2>8, <2>9, <2>10, <2>11, <2>12, <2>13
       DEF Next, Run
<1>3. QED
  BY <1>1, <1>2, PTL DEF Spec
=============================================================================
