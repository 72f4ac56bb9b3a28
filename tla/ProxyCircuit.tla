---------------------------- MODULE ProxyCircuit ----------------------------
(***************************************************************************)
(* ProxyCircuitBreaker: the worker-local circuit breaker of the gateway's  *)
(* proxy transport.  A call takes a permit before it goes to the network   *)
(* and gives it back when the response head or an error arrives; a permit  *)
(* that is dropped on the way counts as a failure.  Many calls of one      *)
(* worker hold permits for the same key at the same time, so a permit      *)
(* taken while the circuit was closed may come back after it opened.       *)
(*                                                                         *)
(* The clock is abstracted to whether the cooldown of an open circuit is   *)
(* over.  An absent entry of `states` and Closed with no failures are the  *)
(* same state: no entry with zero failures is ever stored.                 *)
(***************************************************************************)
EXTENDS Naturals, FiniteSets

CONSTANTS
  Calls,            \* the calls a worker runs at the same time
  Routes,           \* ProxyCircuitKey: a channel, its proxy and its target
  Thresholds,       \* the settings of proxy_circuit_failure_threshold
  MaxStreak         \* bound on the failures in a row that the history counts

ASSUME ProxyCircuitAssumption ==
  /\ MaxStreak \in Nat
  /\ Thresholds \subseteq 0..MaxStreak

\* A call without a permit, and one whose permit is ProxyCircuitPermit::disabled.
NoPermit == "none"
DisabledPermit == "disabled"

ASSUME RoutesAreKeys == {NoPermit, DisabledPermit} \cap Routes = {}

VARIABLES
  failure_threshold, \* ProxyCircuitPolicy, fixed at the start; 0 disables it
  circuit,           \* ProxyCircuitBreaker.states
  permit,            \* the key of the permit that each call holds
  outage,            \* the routes on which calls fail or are given up now
  streak             \* history: failures in a row, counted up to MaxStreak

circuit_vars == <<failure_threshold, circuit, permit, outage, streak>>

CircuitState ==
  [state : {"closed"}, failures : 0..MaxStreak] \cup
  [state : {"open"}, cooling : BOOLEAN] \cup
  [state : {"half_open"}]

Closed(n) == [state |-> "closed", failures |-> n]
Open == [state |-> "open", cooling |-> TRUE]
HalfOpen == [state |-> "half_open"]

CircuitTypeOK ==
  /\ failure_threshold \in Thresholds
  /\ circuit \in [Routes -> CircuitState]
  /\ permit \in [Calls -> Routes \cup {NoPermit, DisabledPermit}]
  /\ outage \in SUBSET Routes
  /\ streak \in [Routes -> 0..MaxStreak]

CircuitInit ==
  /\ failure_threshold \in Thresholds
  /\ circuit = [k \in Routes |-> Closed(0)]
  /\ permit = [c \in Calls |-> NoPermit]
  /\ outage = {}
  /\ streak = [k \in Routes |-> 0]

-----------------------------------------------------------------------------
(***************************************************************************)
(* acquire                                                                 *)
(***************************************************************************)

CoolingDown(k) == circuit[k].state = "open" /\ circuit[k].cooling

\* acquire returns a permit.
Admits(k) ==
  \/ failure_threshold = 0
  \/ ~CoolingDown(k) /\ circuit[k].state # "half_open"

\* The state that a permit leaves behind: after the cooldown it is the probe.
Probing(k) == IF circuit[k].state = "open" THEN HalfOpen ELSE circuit[k]

Acquire(c, k) ==
  /\ permit[c] = NoPermit
  /\ Admits(k)
  /\ \/ /\ failure_threshold = 0
        /\ permit' = [permit EXCEPT ![c] = DisabledPermit]
        /\ UNCHANGED circuit
     \/ /\ failure_threshold # 0
        /\ permit' = [permit EXCEPT ![c] = k]
        /\ circuit' = [circuit EXCEPT ![k] = Probing(k)]
  /\ UNCHANGED <<failure_threshold, outage, streak>>

-----------------------------------------------------------------------------
(***************************************************************************)
(* record_success and record_failure                                       *)
(***************************************************************************)

Count(k) == IF streak[k] < MaxStreak THEN streak[k] + 1 ELSE MaxStreak

\* Variant of FailureCount: failure() leaves the permit armed, and its drop
\* counts the failure again.
FailureCountTwice(k) ==
  IF circuit[k].state = "closed" THEN circuit[k].failures + 2 ELSE failure_threshold

FailureCount(k) ==
  IF circuit[k].state = "closed" THEN circuit[k].failures + 1 ELSE failure_threshold

AfterFailure(k) ==
  IF FailureCount(k) >= failure_threshold THEN Open ELSE Closed(FailureCount(k))

Release(c) == permit' = [permit EXCEPT ![c] = NoPermit]

\* Variant of Success: a success in the half-open state does not close.
SuccessKeepingOpen(c) ==
  LET k == permit[c] IN
  /\ k \in Routes
  /\ k \notin outage
  /\ circuit' = IF circuit[k].state = "half_open" THEN [circuit EXCEPT ![k] = Open]
                                                  ELSE [circuit EXCEPT ![k] = Closed(0)]
  /\ streak' = [streak EXCEPT ![k] = 0]
  /\ Release(c)
  /\ UNCHANGED <<failure_threshold, outage>>

\* permit.success(): the entry is removed, whatever it was.
Success(c) ==
  LET k == permit[c] IN
  /\ k \in Routes
  /\ k \notin outage
  /\ circuit' = [circuit EXCEPT ![k] = Closed(0)]
  /\ streak' = [streak EXCEPT ![k] = 0]
  /\ Release(c)
  /\ UNCHANGED <<failure_threshold, outage>>

\* permit.failure(), and the drop of an armed permit.
Fails(c) ==
  LET k == permit[c] IN
  /\ circuit' = [circuit EXCEPT ![k] = AfterFailure(k)]
  /\ streak' = [streak EXCEPT ![k] = Count(k)]
  /\ Release(c)
  /\ UNCHANGED <<failure_threshold, outage>>

Failure(c) ==
  /\ permit[c] \in Routes
  /\ permit[c] \in outage
  /\ Fails(c)

\* Variant of Dropped: a dropped permit is not recorded.
DroppedSilently(c) ==
  /\ permit[c] \in Routes
  /\ permit[c] \in outage
  /\ Release(c)
  /\ UNCHANGED <<failure_threshold, circuit, outage, streak>>

\* The call is cancelled: the permit goes with it and counts as a failure.
Dropped(c) ==
  /\ permit[c] \in Routes
  /\ permit[c] \in outage
  /\ Fails(c)

\* A call with a disabled permit ends.
EndsUncounted(c) ==
  /\ permit[c] = DisabledPermit
  /\ Release(c)
  /\ UNCHANGED <<failure_threshold, circuit, outage, streak>>

CooldownElapses(k) ==
  /\ CoolingDown(k)
  /\ circuit' = [circuit EXCEPT ![k].cooling = FALSE]
  /\ UNCHANGED <<failure_threshold, permit, outage, streak>>

\* The transport to k breaks, or works again.
OutageBegins(k) ==
  /\ k \notin outage
  /\ outage' = outage \cup {k}
  /\ UNCHANGED <<failure_threshold, circuit, permit, streak>>

OutageEnds(k) ==
  /\ k \in outage
  /\ outage' = outage \ {k}
  /\ UNCHANGED <<failure_threshold, circuit, permit, streak>>

Ends(c) == Success(c) \/ Failure(c) \/ Dropped(c) \/ EndsUncounted(c)

CircuitNext ==
  \/ \E c \in Calls, k \in Routes : Acquire(c, k)
  \/ \E c \in Calls : Ends(c)
  \/ \E k \in Routes : CooldownElapses(k) \/ OutageBegins(k) \/ OutageEnds(k)

CircuitSpec == CircuitInit /\ [][CircuitNext]_circuit_vars

(***************************************************************************)
(* Fairness.  A call ends, by its timeouts or when it is cancelled, and    *)
(* time passes.  Recovery also needs clients that keep asking for a route. *)
(***************************************************************************)
CircuitFairness ==
  /\ \A c \in Calls : WF_circuit_vars(Ends(c))
  /\ \A k \in Routes : WF_circuit_vars(CooldownElapses(k))

ClientsKeepAsking == \A k \in Routes : SF_circuit_vars(\E c \in Calls : Acquire(c, k))

-----------------------------------------------------------------------------
(***************************************************************************)
(* Properties                                                              *)
(***************************************************************************)

\* A half-open circuit has a call whose end will decide it.  acquire refuses
\* everyone else in that state and no timer leaves it, so a circuit whose
\* probe got lost would reject its channel for as long as the worker lives.
HalfOpenHasProbe ==
  \A k \in Routes :
    circuit[k].state = "half_open" => \E c \in Calls : permit[c] = k

\* A circuit is open, or probes, only after the threshold of failures with no
\* success between them; a closed one counts exactly those failures.  Permits
\* from before the opening that come back later do not upset the count.
OpenIsEarned ==
  \A k \in Routes :
    IF circuit[k].state = "closed"
      THEN /\ circuit[k].failures = streak[k]
           /\ failure_threshold # 0 => streak[k] < failure_threshold
      ELSE streak[k] >= failure_threshold

\* A circuit whose route works again closes and stays closed.
CircuitRecovers ==
  \A k \in Routes : (<>[](k \notin outage)) => <>[](circuit[k] = Closed(0))

=============================================================================
