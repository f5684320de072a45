----------------------------- MODULE Reconnect -----------------------------
(***************************************************************************)
(* reconnect.Supervisor and the part of transport.py it works on: a radio  *)
(* interface that dies is rebuilt and swapped in, from two threads.  The   *)
(* idle loop polls check() once a second; the radio library's callback     *)
(* thread runs on_connection_lost for each "connection.lost" it publishes. *)
(* A step is one access to what they share.                                *)
(*                                                                         *)
(* The clock is kept as differences: `wait` is how far _next_attempt_at    *)
(* lies ahead, and `age` how long ago a thread took its `now`, counted up  *)
(* to the cap of the back-off.  An attempt that is due stays due: `wait`   *)
(* is at or below zero then and runs no further down.                      *)
(***************************************************************************)
EXTENDS Integers

CONSTANTS Initial,     \* INITIAL_BACKOFF_SECONDS
          Cap,         \* MAX_BACKOFF_SECONDS
          Interfaces,  \* the interfaces that may be open, at one time or another
          MaxDeaths    \* bound: how often an interface dies

ASSUME BackoffAssumption == /\ Initial \in Nat \ {0} /\ Cap \in Nat /\ Initial <= Cap
                            /\ MaxDeaths \in Nat

VARIABLES backoff,     \* Supervisor._backoff
          wait,        \* Supervisor._next_attempt_at, ahead of the clock
          lock,        \* Supervisor._lock: is it held
          current,     \* MeshtasticTransport._interface
          open,        \* interfaces that have been built and not closed
          alive,       \* those of them whose isConnected is set
          events,      \* "connection.lost" published and not yet handled
          deaths,      \* how often an interface has died
          pc, age,     \* where each thread is, and how old its `now` is
          new,         \* the interface a thread has built and not yet swapped in
          doubled,     \* the back-off a thread has worked out and not yet stored
          stuck,       \* history: interfaces whose close() raised
          overtaken    \* history: has another attempt failed since the gate was passed

radio == <<current, open, alive, events, deaths, stuck>>
hands == <<new, doubled>>
vars == <<backoff, wait, lock, radio, pc, age, hands, overtaken>>

Threads == {"poll", "lost"}
Attempt == {"recheck", "rebuild", "schedule", "double", "store", "close", "install", "reset", "release"}

TypeOK ==
    /\ backoff \in 0..Cap /\ wait \in -Cap..Cap /\ lock \in BOOLEAN
    /\ current \in Interfaces /\ open \subseteq Interfaces
    /\ alive \subseteq open /\ stuck \subseteq open
    /\ events \in Nat /\ deaths \in 0..MaxDeaths
    /\ pc \in [Threads -> {"rest", "healthy", "acquire"} \cup Attempt]
    /\ age \in [Threads -> 0..Cap]
    /\ new \in [Threads -> SUBSET Interfaces] /\ doubled \in [Threads -> 0..Cap]
    /\ overtaken \in BOOLEAN

\* main: get_interface, then the Transport and its Supervisor.
Init == /\ backoff = Initial /\ wait = 0 /\ lock = FALSE
        /\ current \in Interfaces /\ open = {current} /\ alive = {current}
        /\ events = 0 /\ deaths = 0
        /\ pc = [t \in Threads |-> "rest"] /\ age = [t \in Threads |-> 0]
        /\ new = [t \in Threads |-> {}] /\ doubled = [t \in Threads |-> 0]
        /\ stuck = {} /\ overtaken = FALSE

Connected == current \in alive

GoTo(t, place) == pc' = [pc EXCEPT ![t] = place]

----------------------------------------------------------------------------
(* The radio library and the clock *)

\* A connection breaks.  The library publishes "connection.lost" when its
\* reader ends, and nothing when its heartbeat does.
Dies(i) == /\ i \in alive /\ deaths < MaxDeaths
           /\ alive' = alive \ {i} /\ deaths' = deaths + 1
           /\ events' \in {events, events + 1}
           /\ UNCHANGED <<backoff, wait, lock, current, open, stuck, pc, age, hands, overtaken>>

Second == /\ wait' = IF wait > 0 THEN wait - 1 ELSE wait
          /\ age' = [t \in Threads |-> IF pc[t] = "rest" THEN 0
                                       ELSE IF age[t] < Cap THEN age[t] + 1 ELSE Cap]
          /\ UNCHANGED <<backoff, lock, radio, pc, hands, overtaken>>

----------------------------------------------------------------------------
(* Two ways into an attempt *)

\* on_connection_lost: at once, whatever the back-off.
ConnectionLost == /\ pc["lost"] = "rest" /\ events > 0
                  /\ events' = events - 1
                  /\ age' = [age EXCEPT !["lost"] = 0]
                  /\ GoTo("lost", "acquire")
                  /\ UNCHANGED <<backoff, wait, lock, current, open, alive, deaths, stuck, hands, overtaken>>

\* check, connected: the back-off starts over, which is a second access.
CheckHealthy == /\ pc["poll"] = "rest" /\ Connected
                /\ GoTo("poll", "healthy")
                /\ UNCHANGED <<backoff, wait, lock, radio, age, hands, overtaken>>
StartOver == /\ pc["poll"] = "healthy"
             /\ backoff' = Initial
             /\ GoTo("poll", "rest")
             /\ UNCHANGED <<wait, lock, radio, age, hands, overtaken>>

\* A check that forgets the gate.
CheckUngated == /\ pc["poll"] = "rest" /\ ~Connected
                /\ age' = [age EXCEPT !["poll"] = 0]
                /\ GoTo("poll", "acquire")
                /\ overtaken' = FALSE
                /\ UNCHANGED <<backoff, wait, lock, radio, hands>>

\* check, disconnected: an attempt once the back-off has elapsed.
CheckDue == /\ pc["poll"] = "rest" /\ ~Connected /\ wait <= 0
            /\ age' = [age EXCEPT !["poll"] = 0]
            /\ GoTo("poll", "acquire")
            /\ overtaken' = FALSE
            /\ UNCHANGED <<backoff, wait, lock, radio, hands>>

----------------------------------------------------------------------------
(* _try_reconnect *)

\* An attempt without the lock.
AcquireAlways(t) == /\ pc[t] = "acquire"
                    /\ lock' = TRUE /\ GoTo(t, "recheck")
                    /\ UNCHANGED <<backoff, wait, radio, age, hands, overtaken>>

\* acquire(blocking=False): whoever finds it taken leaves it to the other.
Acquire(t) == /\ pc[t] = "acquire"
              /\ IF lock THEN GoTo(t, "rest") /\ UNCHANGED lock
                         ELSE lock' = TRUE /\ GoTo(t, "recheck")
              /\ UNCHANGED <<backoff, wait, radio, age, hands, overtaken>>

\* An attempt that trusts the check made before the lock.
RecheckNothing(t) == /\ pc[t] = "recheck"
                     /\ GoTo(t, "rebuild")
                     /\ UNCHANGED <<backoff, wait, lock, radio, age, hands, overtaken>>

Recheck(t) == /\ pc[t] = "recheck"
              /\ GoTo(t, IF Connected THEN "release" ELSE "rebuild")
              /\ UNCHANGED <<backoff, wait, lock, radio, age, hands, overtaken>>

\* get_interface returns an interface, after however long.
Rebuilt(t) == /\ pc[t] = "rebuild"
              /\ \E i \in Interfaces \ open :
                    /\ open' = open \cup {i} /\ alive' = alive \cup {i}
                    /\ new' = [new EXCEPT ![t] = {i}]
              /\ GoTo(t, "close")
              /\ UNCHANGED <<backoff, wait, lock, current, events, deaths, stuck, age, doubled,
                             overtaken>>

\* ... or raises.
RebuildFails(t) == /\ pc[t] = "rebuild"
                   /\ GoTo(t, "schedule")
                   /\ UNCHANGED <<backoff, wait, lock, radio, age, hands, overtaken>>

\* The next attempt is counted from the `now` the attempt was made with: after
\* a rebuild that took longer than the back-off it lies in the past.
Schedule(t) == /\ pc[t] = "schedule"
               /\ wait' = backoff - age[t]
               /\ overtaken' = (overtaken \/ (t = "lost" /\ pc["poll"] = "acquire"))
               /\ GoTo(t, "double")
               /\ UNCHANGED <<backoff, lock, radio, age, hands>>

\* A back-off without a cap.
DoubleUncapped(t) == /\ pc[t] = "double"
                     /\ doubled' = [doubled EXCEPT ![t] = 2 * backoff]
                     /\ GoTo(t, "store")
                     /\ UNCHANGED <<backoff, wait, lock, radio, age, new, overtaken>>

\* The back-off is read, ...
Double(t) == /\ pc[t] = "double"
             /\ doubled' = [doubled EXCEPT ![t] = IF 2 * backoff < Cap THEN 2 * backoff ELSE Cap]
             /\ GoTo(t, "store")
             /\ UNCHANGED <<backoff, wait, lock, radio, age, new, overtaken>>

\* ... and written: a StartOver in between is lost.
StoreDoubled(t) == /\ pc[t] = "store"
                   /\ backoff' = doubled[t]
                   /\ doubled' = [doubled EXCEPT ![t] = 0]
                   /\ GoTo(t, "release")
                   /\ UNCHANGED <<wait, lock, radio, age, new, overtaken>>

\* A swap that does not close the old interface.
SwapOnly(t) == /\ pc[t] = "close"
               /\ GoTo(t, "install")
               /\ UNCHANGED <<backoff, wait, lock, radio, age, hands, overtaken>>

\* Transport.reconnect closes the old interface, whose reader may then publish
\* a "connection.lost" of its own.  An exception out of close() is swallowed,
\* and the interface may be open still ...
CloseOld(t) == /\ pc[t] = "close"
               /\ \/ open' = open \ {current} /\ UNCHANGED stuck
                  \/ stuck' = stuck \cup {current} /\ UNCHANGED open
               /\ alive' = alive \ {current}
               /\ events' \in {events, events + 1}
               /\ GoTo(t, "install")
               /\ UNCHANGED <<backoff, wait, lock, current, deaths, age, hands, overtaken>>

\* ... when the new one is put in its place.
Install(t) == /\ pc[t] = "install"
              /\ current' \in new[t]
              /\ new' = [new EXCEPT ![t] = {}]
              /\ GoTo(t, "reset")
              /\ UNCHANGED <<backoff, wait, lock, open, alive, events, deaths, stuck, age, doubled,
                             overtaken>>

\* A reset to no delay, from which doubling never leads away.
ResetToZero(t) == /\ pc[t] = "reset"
                  /\ backoff' = 0
                  /\ GoTo(t, "release")
                  /\ UNCHANGED <<wait, lock, radio, age, hands, overtaken>>

Reset(t) == /\ pc[t] = "reset"
            /\ backoff' = Initial
            /\ GoTo(t, "release")
            /\ UNCHANGED <<wait, lock, radio, age, hands, overtaken>>

\* An attempt that keeps the lock when it leaves early.
ReleaseIfInstalled(t) == /\ pc[t] = "release"
                         /\ lock' = ~Connected
                         /\ GoTo(t, "rest")
                         /\ UNCHANGED <<backoff, wait, radio, age, hands, overtaken>>

\* finally
Release(t) == /\ pc[t] = "release"
              /\ lock' = FALSE
              /\ GoTo(t, "rest")
              /\ UNCHANGED <<backoff, wait, radio, age, hands, overtaken>>

Step(t) == \/ Acquire(t) \/ Recheck(t) \/ Rebuilt(t) \/ RebuildFails(t)
           \/ Schedule(t) \/ Double(t) \/ StoreDoubled(t)
           \/ CloseOld(t) \/ Install(t) \/ Reset(t) \/ Release(t)

Next == \/ \E i \in Interfaces : Dies(i)
        \/ Second \/ ConnectionLost \/ CheckHealthy \/ StartOver \/ CheckDue
        \/ \E t \in Threads : Step(t)

Spec == Init /\ [][Next]_vars

\* Time passes, the idle loop comes round, an attempt goes on, and a radio that
\* is asked again and again is there in the end.
FairSpec == /\ Spec
            /\ WF_vars(Second) /\ WF_vars(CheckDue) /\ WF_vars(StartOver) /\ WF_vars(ConnectionLost)
            /\ \A t \in Threads : WF_vars(Step(t)) /\ SF_vars(Rebuilt(t))

----------------------------------------------------------------------------
(* Properties *)

\* However deaths, late events and polls fall, the interfaces open are the one
\* in use, the one being swapped in and those that could not be closed: none is
\* left behind because nobody tried, since a second one would hold the port or
\* the connection the next rebuild needs.
NothingLeaks == /\ open \subseteq {current} \cup new["poll"] \cup new["lost"] \cup stuck
                /\ ~lock => open = {current} \cup stuck /\ current \notin stuck

\* Only a dead interface is closed: an attempt that comes late, for a loss that
\* another attempt has already repaired, leaves the repaired connection alone.
LiveIsKept == [][\A i \in open \ open' : i \notin alive]_vars

\* The delay between attempts stays between the first one and the cap, also
\* when both threads move the back-off (StartOver takes no lock).
DelayIsCapped == /\ Initial <= backoff /\ backoff <= Cap
                 /\ wait <= Cap

\* The gate of check is looked at before the lock is taken: a polled attempt
\* comes before its time only if the other thread's attempt failed in between.
EarlyOnlyIfOvertaken == pc["poll"] = "acquire" /\ wait > 0 => overtaken

\* A lost connection is repaired, whether or not its loss was announced, and
\* however many attempts have failed.
LossIsRepaired == ~Connected ~> Connected
=============================================================================
