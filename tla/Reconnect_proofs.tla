-------------------------- MODULE Reconnect_proofs --------------------------
(***************************************************************************)
(* Proofs about Reconnect, for every initial back-off, cap and set of      *)
(* interfaces.  The inductive invariant says who may hold the lock and     *)
(* what the thread that holds it has in its hands at each point of an      *)
(* attempt; leaks, closed live interfaces and delays follow from it.       *)
(***************************************************************************)
EXTENDS Reconnect, TLAPS

\* The lock is held exactly while one thread, and one only, is in an attempt.
OneAttempt ==
    /\ \A t \in Threads : pc[t] \in Attempt => lock
    /\ \A t, u \in Threads : pc[t] \in Attempt /\ pc[u] \in Attempt => t = u
    /\ lock => \E t \in Threads : pc[t] \in Attempt

\* What an attempt holds: a second interface from the rebuild to the swap, and
\* a current one that is dead, and stays dead, from the second look on.
InHand(t) ==
    /\ pc[t] \notin {"close", "install"} => new[t] = {}
    /\ pc[t] = "close" => /\ \E i \in Interfaces : new[t] = {i} /\ i # current /\ i \notin stuck
                          /\ open = {current} \cup new[t] \cup stuck
                          /\ current \notin stuck
    /\ pc[t] = "install" => \E i \in Interfaces : /\ new[t] = {i} /\ i \notin stuck
                                                  /\ open = {i} \cup stuck
    /\ pc[t] \in {"rebuild", "close"} => current \notin alive

\* With nothing in hand there is one interface open, beside those that could not
\* be closed.
OneOpen == (\A t \in Threads : pc[t] \notin {"close", "install"})
             => open = {current} \cup stuck /\ current \notin stuck

Held == OneAttempt /\ (\A t \in Threads : InHand(t)) /\ OneOpen

\* The initial state: nobody holds the lock and one interface is open.
LEMMA InitSafe == Init => TypeOK /\ Held /\ DelayIsCapped
<1> SUFFICES ASSUME Init PROVE TypeOK /\ Held /\ DelayIsCapped
  OBVIOUS
<1> USE BackoffAssumption DEF BackoffAssumption, Init
<1>1. TypeOK
  <2>1. backoff \in 0..Cap /\ wait \in -Cap..Cap /\ events \in Nat /\ deaths \in 0..MaxDeaths
    OBVIOUS
  <2>4. lock \in BOOLEAN /\ overtaken \in BOOLEAN
    BY Zenon
  <2>2. current \in Interfaces /\ open \subseteq Interfaces /\ alive \subseteq open /\ stuck \subseteq open
    OBVIOUS
  <2>3. /\ pc \in [Threads -> {"rest", "healthy", "acquire"} \cup Attempt]
        /\ age \in [Threads -> 0..Cap] /\ new \in [Threads -> SUBSET Interfaces]
        /\ doubled \in [Threads -> 0..Cap]
    OBVIOUS
  <2> QED
    BY <2>1, <2>2, <2>3, <2>4 DEF TypeOK
<1>2. Held
  BY DEF Held, OneAttempt, InHand, OneOpen, Attempt, Threads
<1>3. DelayIsCapped
  BY DEF DelayIsCapped
<1> QED
  BY <1>1, <1>2, <1>3

\* Every step of the radio library, the clock and the two threads keeps every
\* variable in its type.
LEMMA StepTypes == TypeOK /\ Held /\ [Next]_vars => TypeOK'
<1> SUFFICES ASSUME TypeOK, Held, [Next]_vars PROVE TypeOK'
  OBVIOUS
<1> USE BackoffAssumption DEF BackoffAssumption, TypeOK, radio, hands, GoTo, Threads, Attempt
<1>1. ASSUME NEW i \in Interfaces, Dies(i) PROVE TypeOK'
  BY <1>1 DEF Dies
<1>2. CASE Second
  BY <1>2 DEF Second
<1>3. CASE ConnectionLost
  <2>1. events' \in Nat /\ age' \in [Threads -> 0..Cap]
    BY <1>3 DEF ConnectionLost
  <2> QED
    BY <1>3, <2>1 DEF ConnectionLost
<1>4. CASE CheckHealthy
  BY <1>4 DEF CheckHealthy
<1>7. CASE StartOver
  BY <1>7 DEF StartOver
<1>8. CASE CheckDue
  <2>1. age' \in [Threads -> 0..Cap]
    BY <1>8 DEF CheckDue
  <2> QED
    BY <1>8, <2>1 DEF CheckDue
<1>5. ASSUME NEW t \in Threads, Step(t) PROVE TypeOK'
  <2>1. CASE Acquire(t) \/ Recheck(t) \/ RebuildFails(t) \/ Release(t)
    BY <2>1 DEF Acquire, Recheck, RebuildFails, Release
  <2>2. CASE Rebuilt(t)
    BY <2>2 DEF Rebuilt
  <2>3. CASE Schedule(t)
    <3>1. overtaken' \in BOOLEAN
      BY <2>3, Zenon DEF Schedule
    <3>2. wait' \in -Cap..Cap
      BY <2>3 DEF Schedule
    <3> QED
      BY <2>3, <3>1, <3>2 DEF Schedule
  <2>6. CASE StoreDoubled(t) \/ Reset(t)
    BY <2>6 DEF StoreDoubled, Reset
  <2>7. CASE Double(t)
    <3>1. doubled' \in [Threads -> 0..Cap]
      BY <2>7 DEF Double
    <3> QED
      BY <2>7, <3>1 DEF Double
  <2>4. CASE CloseOld(t)
    <3>1. current \in open /\ current \notin stuck
      BY <2>4 DEF CloseOld, Held, InHand
    <3> QED
      BY <2>4, <3>1 DEF CloseOld
  <2>5. CASE Install(t)
    BY <2>5 DEF Install
  <2> QED
    BY <1>5, <2>1, <2>2, <2>3, <2>4, <2>5, <2>6, <2>7 DEF Step
<1>6. CASE UNCHANGED vars
  BY <1>6 DEF vars, radio, hands
<1> QED
  BY <1>1, <1>2, <1>3, <1>4, <1>5, <1>6, <1>7, <1>8 DEF Next

\* Every step keeps the lock's discipline and what an attempt holds: the steps
\* of an attempt are taken by the one thread that holds the lock, and no other
\* step opens or closes an interface.
LEMMA StepHolds == TypeOK /\ Held /\ [Next]_vars => Held'
<1> SUFFICES ASSUME TypeOK, Held, [Next]_vars PROVE Held'
  OBVIOUS
<1> USE DEF TypeOK, Held, OneAttempt, InHand, OneOpen, radio, hands, GoTo, Threads, Attempt
<1>1. ASSUME NEW i \in Interfaces, Dies(i) PROVE Held'
  BY <1>1 DEF Dies
<1>2. CASE Second
  BY <1>2 DEF Second
<1>3. CASE ConnectionLost
  BY <1>3 DEF ConnectionLost
<1>4. CASE CheckHealthy \/ StartOver \/ CheckDue
  BY <1>4 DEF CheckHealthy, StartOver, CheckDue
<1>5. ASSUME NEW t \in Threads, Step(t) PROVE Held'
  <2>1. CASE Acquire(t)
    BY <2>1 DEF Acquire
  <2>2. CASE Recheck(t)
    BY <2>2 DEF Recheck, Connected
  <2>3. CASE Rebuilt(t)
    BY <2>3 DEF Rebuilt
  <2>4. CASE RebuildFails(t)
    BY <2>4 DEF RebuildFails
  <2>5. CASE Schedule(t) \/ Double(t) \/ StoreDoubled(t) \/ Reset(t)
    BY <2>5 DEF Schedule, Double, StoreDoubled, Reset
  <2>6. CASE CloseOld(t)
    BY <2>6 DEF CloseOld
  <2>7. CASE Install(t)
    BY <2>7 DEF Install
  <2>8. CASE Release(t)
    BY <2>8 DEF Release
  <2> QED
    BY <1>5, <2>1, <2>2, <2>3, <2>4, <2>5, <2>6, <2>7, <2>8 DEF Step
<1>6. CASE UNCHANGED vars
  BY <1>6 DEF vars, radio, hands
<1> QED
  BY <1>1, <1>2, <1>3, <1>4, <1>5, <1>6 DEF Next

\* A doubled back-off that waits to be stored is one, too.
StoredLater == \A t \in Threads : pc[t] = "store" => Initial <= doubled[t]

\* Every step keeps the delay between the first back-off and the cap.
LEMMA StepCapped ==
    TypeOK /\ DelayIsCapped /\ StoredLater /\ [Next]_vars => DelayIsCapped' /\ StoredLater'
<1> SUFFICES ASSUME TypeOK, DelayIsCapped, StoredLater, [Next]_vars
             PROVE  DelayIsCapped' /\ StoredLater'
  OBVIOUS
<1> USE BackoffAssumption DEF BackoffAssumption, TypeOK, DelayIsCapped, StoredLater, GoTo
<1>1. CASE Second
  BY <1>1 DEF Second, hands
<1>2. CASE StartOver
  BY <1>2 DEF StartOver, hands
<1>3. ASSUME NEW t \in Threads, Schedule(t) \/ StoreDoubled(t) \/ Reset(t)
      PROVE  DelayIsCapped' /\ StoredLater'
  BY <1>3 DEF Schedule, StoreDoubled, Reset, hands
<1>4. ASSUME NEW t \in Threads, Double(t) PROVE DelayIsCapped' /\ StoredLater'
  <2>1. DelayIsCapped'
    BY <1>4 DEF Double
  <2>2. Initial <= doubled'[t] /\ \A u \in Threads \ {t} : doubled'[u] = doubled[u] /\ pc'[u] = pc[u]
    BY <1>4 DEF Double
  <2> QED
    BY <2>1, <2>2
<1>5. CASE UNCHANGED <<backoff, wait, pc, doubled>>
  BY <1>5
<1>6. CASE /\ UNCHANGED <<backoff, wait, doubled>>
           /\ \E t \in Threads : \E place : GoTo(t, place) /\ place # "store"
  BY <1>6
<1>7. ASSUME NEW t \in Threads, Step(t), ~(Schedule(t) \/ StoreDoubled(t) \/ Reset(t) \/ Double(t))
      PROVE  UNCHANGED <<backoff, wait, doubled>> /\ \E place : GoTo(t, place) /\ place # "store"
  BY <1>7 DEF Step, Acquire, Recheck, Rebuilt, RebuildFails, CloseOld, Install, Release, hands, Connected
<1>8. \/ Second \/ StartOver \/ \E t \in Threads : Step(t)
      \/ UNCHANGED <<backoff, wait, pc, doubled>>
      \/ /\ UNCHANGED <<backoff, wait, doubled>>
         /\ \E t \in Threads : \E place : GoTo(t, place) /\ place # "store"
  BY DEF Next, vars, Dies, ConnectionLost, CheckHealthy, CheckDue, hands, Threads
<1> QED
  BY <1>1, <1>2, <1>3, <1>4, <1>5, <1>6, <1>7, <1>8

\* The gate of check was passed with no delay left, and only a failure of the
\* other thread's attempt sets a new one before the lock is taken.
LEMMA StepsEarly ==
    TypeOK /\ EarlyOnlyIfOvertaken /\ [Next]_vars => EarlyOnlyIfOvertaken'
<1> SUFFICES ASSUME TypeOK, EarlyOnlyIfOvertaken, [Next]_vars PROVE EarlyOnlyIfOvertaken'
  OBVIOUS
<1> USE DEF TypeOK, EarlyOnlyIfOvertaken, radio, hands, GoTo, Threads, Attempt
<1>1. ASSUME NEW i \in Interfaces, Dies(i) PROVE EarlyOnlyIfOvertaken'
  BY <1>1 DEF Dies
<1>2. CASE Second
  BY <1>2 DEF Second
<1>3. CASE ConnectionLost
  BY <1>3 DEF ConnectionLost
<1>4. CASE CheckHealthy \/ StartOver
  BY <1>4 DEF CheckHealthy, StartOver
<1>5. CASE CheckDue
  BY <1>5 DEF CheckDue
<1>6. ASSUME NEW t \in Threads, Step(t) PROVE EarlyOnlyIfOvertaken'
  <2>1. CASE Schedule(t)
    BY <2>1 DEF Schedule
  <2>2. CASE Acquire(t) \/ Recheck(t) \/ Rebuilt(t) \/ RebuildFails(t)
    BY <2>2 DEF Acquire, Recheck, Rebuilt, RebuildFails
  <2>3. CASE Double(t) \/ StoreDoubled(t) \/ CloseOld(t) \/ Install(t) \/ Reset(t) \/ Release(t)
    BY <2>3 DEF Double, StoreDoubled, CloseOld, Install, Reset, Release
  <2> QED
    BY <1>6, <2>1, <2>2, <2>3 DEF Step
<1>7. CASE UNCHANGED vars
  BY <1>7 DEF vars
<1> QED
  BY <1>1, <1>2, <1>3, <1>4, <1>5, <1>6, <1>7 DEF Next

\* The invariant of the specification, from which the theorems are read off.
THEOREM AttemptsAreOne == Spec => [](TypeOK /\ Held /\ DelayIsCapped /\ StoredLater)
<1>1. Init => TypeOK /\ Held /\ DelayIsCapped /\ StoredLater
  BY InitSafe DEF Init, StoredLater
<1>2. TypeOK /\ Held /\ DelayIsCapped /\ StoredLater /\ [Next]_vars
        => (TypeOK /\ Held /\ DelayIsCapped /\ StoredLater)'
  BY StepTypes, StepHolds, StepCapped
<1> QED
  BY <1>1, <1>2, PTL DEF Spec

\* The supervisor's state stays well formed, for every back-off and interface.
THEOREM ReconnectTypeCorrect == Spec => []TypeOK
BY AttemptsAreOne, PTL

\* No interface is left behind open, however losses and polls interleave, but
\* those whose close() raised.
THEOREM NoInterfaceLeaks == Spec => []NothingLeaks
<1>1. TypeOK /\ Held => NothingLeaks
  BY DEF TypeOK, Held, OneAttempt, InHand, OneOpen, NothingLeaks, Threads, Attempt
<1> QED
  BY <1>1, AttemptsAreOne, PTL

\* Neither the two threads together nor a slow rebuild takes the delay beyond
\* its cap.
THEOREM DelaysAreCapped == Spec => []DelayIsCapped
BY AttemptsAreOne, PTL

\* A polled attempt comes before its time only if the lost event's attempt
\* failed between the gate and the lock.
THEOREM EarlyAttemptsWereOvertaken == Spec => []EarlyOnlyIfOvertaken
<1>1. Init => EarlyOnlyIfOvertaken
  BY DEF Init, EarlyOnlyIfOvertaken
<1> QED
  BY <1>1, StepsEarly, ReconnectTypeCorrect, PTL DEF Spec

\* A live interface is never closed by a late attempt.
THEOREM LiveInterfacesStay == Spec => LiveIsKept
<1>1. TypeOK /\ Held /\ [Next]_vars => [\A i \in open \ open' : i \notin alive]_vars
  <2> SUFFICES ASSUME TypeOK, Held, Next PROVE \A i \in open \ open' : i \notin alive
    BY DEF vars, radio
  <2>1. ASSUME NEW t \in Threads, CloseOld(t) PROVE \A i \in open \ open' : i \notin alive
    BY <2>1 DEF CloseOld, Held, InHand
  <2>2. ASSUME NEW t \in Threads, Rebuilt(t) PROVE \A i \in open \ open' : i \notin alive
    BY <2>2 DEF Rebuilt
  <2>3. \/ \E t \in Threads : CloseOld(t) \/ Rebuilt(t)
        \/ open' = open
    BY DEF Next, Step, radio, Dies, Second, ConnectionLost, CheckHealthy, StartOver, CheckDue, Acquire,
           Recheck, RebuildFails, Schedule, Double, StoreDoubled, Install, Reset, Release
  <2> QED
    BY <2>1, <2>2, <2>3
<1> QED
  BY <1>1, AttemptsAreOne, PTL DEF Spec, LiveIsKept
=============================================================================
