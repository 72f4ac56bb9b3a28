------------------------------ MODULE MCGateway ------------------------------
(***************************************************************************)
(* The parts of a gateway worker for TLC: the requests with the circuit    *)
(* breaker they go through, route selection over many snapshots, the       *)
(* circuit breaker alone with more calls, the affinity cache that the      *)
(* workers share, and the report queue.  A behaviour is one of a single    *)
(* part, chosen at the start; the others rest in their initial states.     *)
(***************************************************************************)
EXTENDS GatewayRequest, RoutingCases, AffinityCache, ReportQueue, TLC

CONSTANTS Parts, s1, k1, k2, k3

VARIABLE part  \* which part moves

mc_vars == <<gateway_vars, affinity_vars, queue_vars, part, routed>>

-----------------------------------------------------------------------------
Affinity(enabled, keep, skip) ==
  [enabled |-> enabled, keep_on_channel_disabled |-> keep, skip_retry_on_failure |-> skip,
   switch_on_success |-> TRUE]

\* Channel a, with two keys and behind a proxy, before channel b; channel a
\* disabled, with the affinity rule that forbids retries.
Both ==
  [channels |-> (a :> Channel(TRUE, 0, {}, {"vip"}, 2)) @@
                (b :> Channel(TRUE, 2, {}, {"all"}, 1)),
   mappings |-> <<Mapping(a, "m"), Mapping(b, "m")>>,
   affinity |-> Affinity(TRUE, FALSE, FALSE)]
Disabled ==
  [channels |-> (a :> Channel(FALSE, 0, {}, {"vip"}, 2)) @@
                (b :> Channel(TRUE, 2, {}, {"all"}, 1)),
   mappings |-> <<Mapping(a, "m"), Mapping(b, "m")>>,
   affinity |-> Affinity(TRUE, FALSE, TRUE)]
TwoSnapshots == {Both, Disabled}

OneSession == [r \in Requests |-> s1]
ShardOf == (k1 :> 0) @@ (k2 :> 1) @@ (k3 :> 0)

GatewaySymmetry == Permutations(Requests)

-----------------------------------------------------------------------------
Init ==
  /\ part \in Parts
  /\ routed \in IF part = "routing" THEN RoutedSnapshots ELSE {Both}
  /\ RequestInit /\ CircuitInit /\ AffinityInit /\ QueueInit
  /\ part # "requests" => snapshot = Both
  /\ part \in {"affinity", "routing", "queue"} => failure_threshold = 1

Next ==
  /\ \/ part = "requests" /\ RequestNext /\ UNCHANGED <<affinity_vars, queue_vars>>
     \/ /\ part = "circuit" /\ CircuitNext
        /\ UNCHANGED <<request_vars, affinity_vars, queue_vars>>
     \/ part = "affinity" /\ AffinityNext /\ UNCHANGED <<gateway_vars, queue_vars>>
     \/ part = "queue" /\ QueueNext /\ UNCHANGED <<gateway_vars, affinity_vars>>
  /\ UNCHANGED <<part, routed>>

Spec == Init /\ [][Next]_mc_vars

Fairness ==
  /\ RequestFairness /\ CircuitFairness /\ AffinityFairness
  /\ part = "circuit" => ClientsKeepAsking

FairSpec == Spec /\ Fairness

\* CircuitRecovers, where the fairness it needs is assumed: a circuit whose route
\* works again closes and stays closed.
CircuitAloneRecovers == part = "circuit" => CircuitRecovers

==============================================================================
