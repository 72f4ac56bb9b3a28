--------------------------- MODULE GatewayRequest ---------------------------
(***************************************************************************)
(* The life of a request in a gateway worker that has a control plane:     *)
(* ChatGatewayService::call, and with it the image, Claude and raw OpenAI  *)
(* services, which run the same loop, and the Gemini service, which makes  *)
(* one attempt.  A request is routed, its quota is reserved at the control *)
(* plane, up to MaxUpstreamAttempts upstream calls are made, and its usage *)
(* is reported once, with the reservation it holds.                        *)
(*                                                                         *)
(* The worker is single-threaded: an action is what runs between two       *)
(* awaits.  The snapshot is swapped, and other requests run, between them. *)
(* Calls of channels behind a proxy go through the circuit breaker         *)
(* (ProxyCircuit); the affinity cache (AffinityCache) is a map here.       *)
(***************************************************************************)
EXTENDS Routing, ProxyCircuit

CONSTANTS
  Requests,          \* the requests that clients send, a subset of Calls
  Snapshots,         \* the snapshots that the worker may hold: as in Routing, with
                     \* the affinity settings as a record of enabled,
                     \* keep_on_channel_disabled, skip_retry_on_failure and
                     \* switch_on_success
  MaxUpstreamAttempts, \* MAX_UPSTREAM_ATTEMPTS, and 1 in the Gemini service
  RouteGroups,       \* the groups of the requests' token, in order
  Session,           \* the affinity cache key of each request, or NoSession
  NoSession,         \* no affinity rule matches
  NoChannel          \* a session without a pinned channel

Sessions == {Session[r] : r \in Requests} \ {NoSession}

ASSUME GatewayRequestAssumption ==
  /\ IsFiniteSet(Requests) /\ Requests \subseteq Calls
  /\ MaxUpstreamAttempts \in Nat \ {0}
  /\ IsSequence(RouteGroups)
  /\ \A s \in Snapshots : IsSnapshot(s) /\ NoChannel \notin DOMAIN s.channels

VARIABLES
  snapshot, \* SnapshotStore
  next_key, \* AuthRouteService.next_key
  pins,     \* the affinity cache
  request,  \* where each request is
  reserved, \* the requests with a reservation at the control plane
  usage,    \* the usage events that each request reported
  feedback, \* the channel feedback that each request reported
  tried     \* history: the upstream attempts of each request

request_vars == <<snapshot, next_key, pins, request, reserved, usage, feedback, tried>>
gateway_vars == <<request_vars, circuit_vars>>

Channels == UNION {DOMAIN s.channels : s \in Snapshots}

\* pc: new, waiting for the reservation (reserve, or granted when the control
\* plane has made it), about to call upstream (attempt), waiting for the
\* answer (in_flight), passing a stream on (stream), or done.
\* sticky: route.affinity; once: its skip_retry_on_failure.  excluded:
\* failed_channels.  alternative (history): a usable channel that had not failed
\* was there when the route was chosen.  lost (history): the control plane's
\* grant did not reach the worker.
Request ==
  [pc : {"new", "reserve", "granted", "attempt", "in_flight", "stream", "done"},
   channel : Channels \cup {NoChannel}, key : Nat, sticky : BOOLEAN, once : BOOLEAN,
   attempt : 0..MaxUpstreamAttempts, excluded : SUBSET Channels,
   alternative : BOOLEAN, pre_consumed : BOOLEAN, lost : BOOLEAN]

NewRequest ==
  [pc |-> "new", channel |-> NoChannel, key |-> 0, sticky |-> FALSE, once |-> FALSE,
   attempt |-> 0, excluded |-> {}, alternative |-> FALSE, pre_consumed |-> FALSE,
   lost |-> FALSE]

Statuses == {"success", "retryable", "rejected"}
Attempt ==
  [channel : Channels, key : Nat, status : Statuses, blamed : BOOLEAN, once : BOOLEAN]

RequestTypeOK ==
  /\ snapshot \in Snapshots
  /\ next_key \in 0..Cardinality(Requests)
  /\ pins \in [Sessions -> Channels \cup {NoChannel}]
  /\ request \in [Requests -> Request]
  /\ reserved \in SUBSET Requests
  /\ usage \in [Requests -> Seq([channel : Channels, pre_consumed : BOOLEAN])]
  /\ feedback \in [Requests -> Seq([channel : Channels, key : Nat])]
  /\ tried \in [Requests -> Seq(Attempt)]
  /\ \A r \in Requests : Len(tried[r]) <= MaxUpstreamAttempts

RequestInit ==
  /\ snapshot \in Snapshots
  /\ next_key = 0
  /\ pins = [s \in Sessions |-> NoChannel]
  /\ request = [r \in Requests |-> NewRequest]
  /\ reserved = {}
  /\ usage = [r \in Requests |-> <<>>]
  /\ feedback = [r \in Requests |-> <<>>]
  /\ tried = [r \in Requests |-> <<>>]

-----------------------------------------------------------------------------
(***************************************************************************)
(* Routing                                                                 *)
(***************************************************************************)

\* resolve_affinity
HasAffinity(r) == snapshot.affinity.enabled /\ Session[r] # NoSession
Pinned(r) == HasAffinity(r) /\ pins[Session[r]] # NoChannel

\* select_route with affinity: the pinned channel when it still serves.
FirstRoute(r) ==
  LET specific == RouteSpecific(snapshot, RouteGroups, pins[Session[r]]) IN
  IF Pinned(r) /\ specific.ok THEN specific
  ELSE RouteWeighted(snapshot, RouteGroups, next_key, {})

\* route_with_affinity_seed forgets a pin that does not serve any more.
Unpin(r) ==
  pins' = IF /\ Pinned(r)
             /\ ~RouteSpecific(snapshot, RouteGroups, pins[Session[r]]).ok
             /\ ~snapshot.affinity.keep_on_channel_disabled
            THEN [pins EXCEPT ![Session[r]] = NoChannel] ELSE pins

\* Variant of RetryRoute: the failed channels are not excluded.
RetryRouteAnywhere(attempt, excluded) ==
  LET seed == next_key + attempt - 1 IN
  [route |-> RouteWeighted(snapshot, RouteGroups, seed, {}), seed |-> seed]

\* retry_route: without affinity, and without the exclusions when they leave
\* nothing.
RetryRoute(attempt, excluded) ==
  LET seed == next_key + attempt - 1
      elsewhere == RouteWeighted(snapshot, RouteGroups, seed, excluded)
  IN [route |-> IF elsewhere.ok THEN elsewhere
                ELSE RouteWeighted(snapshot, RouteGroups, seed, {}),
      seed |-> seed]

Finish(r) == request' = [request EXCEPT ![r] = [@ EXCEPT !.pc = "done"]]

\* A client's request arrives, is authenticated and routed, and the reservation
\* is sent.  A request that cannot be routed is answered with the error.
Begin(r) ==
  LET route == FirstRoute(r) IN
  /\ request[r].pc = "new"
  /\ next_key' = next_key + 1
  /\ Unpin(r)
  /\ \/ /\ route.ok
        /\ request' = [request EXCEPT ![r] =
             [@ EXCEPT !.pc = "reserve", !.channel = route.channel,
                       !.key = SelectApiKey(snapshot, route.channel, next_key),
                       !.sticky = HasAffinity(r),
                       !.once = HasAffinity(r) /\ snapshot.affinity.skip_retry_on_failure]]
     \/ ~route.ok /\ Finish(r)
  /\ UNCHANGED <<snapshot, reserved, usage, feedback, tried, circuit_vars>>

-----------------------------------------------------------------------------
(***************************************************************************)
(* reserve_request_quota                                                   *)
(***************************************************************************)

\* The control plane takes the reserved quota from the token and the user.
Grant(r) ==
  /\ request[r].pc = "reserve"
  /\ reserved' = reserved \cup {r}
  /\ request' = [request EXCEPT ![r] = [@ EXCEPT !.pc = "granted"]]
  /\ UNCHANGED <<snapshot, next_key, pins, usage, feedback, tried, circuit_vars>>

\* 402 for insufficient quota, 503 for a control plane that cannot be reached.
Refused(r) ==
  /\ request[r].pc = "reserve"
  /\ Finish(r)
  /\ UNCHANGED <<snapshot, next_key, pins, reserved, usage, feedback, tried, circuit_vars>>

Granted(r) ==
  /\ request[r].pc = "granted"
  /\ request' = [request EXCEPT ![r] = [@ EXCEPT !.pc = "attempt", !.pre_consumed = TRUE]]
  /\ UNCHANGED <<snapshot, next_key, pins, reserved, usage, feedback, tried, circuit_vars>>

\* The grant does not arrive: the client gets 503 and the worker forgets it.
GrantLost(r) ==
  /\ request[r].pc = "granted"
  /\ request' = [request EXCEPT ![r] = [@ EXCEPT !.pc = "done", !.lost = TRUE]]
  /\ UNCHANGED <<snapshot, next_key, pins, reserved, usage, feedback, tried, circuit_vars>>

-----------------------------------------------------------------------------
(***************************************************************************)
(* The attempt loop                                                        *)
(***************************************************************************)

\* A response of the relay.  Only what came from the channel, or from the
\* transport to it, carries ChannelFeedbackMeta.
Response(status, from_channel, stream) ==
  [status |-> status, stream |-> stream,
   blames |-> from_channel /\ status # "success"]

MayRetry(r, response) ==
  /\ request[r].attempt + 1 < MaxUpstreamAttempts
  /\ ~request[r].once
  /\ response.status = "retryable"

\* UsageReporter.report, with the channel that the request is on.
Report(r) ==
  usage' = [usage EXCEPT ![r] =
              Append(@, [channel |-> request[r].channel,
                         pre_consumed |-> request[r].pre_consumed])]

\* Variant of Blame: the feedback names the channel that is tried next.
BlameNext(r, response, next) ==
  feedback' = IF response.blames THEN [feedback EXCEPT ![r] = Append(@, next)]
              ELSE feedback

\* report_channel_feedback, with the channel and the key of this attempt.
Blame(r, response, next) ==
  feedback' = IF response.blames
                THEN [feedback EXCEPT ![r] =
                        Append(@, [channel |-> request[r].channel, key |-> request[r].key])]
                ELSE feedback

Tried(r, response) ==
  tried' = [tried EXCEPT ![r] = Append(@, [channel |-> request[r].channel,
                                           key |-> request[r].key,
                                           status |-> response.status,
                                           blamed |-> response.blames,
                                           once |-> request[r].once])]

\* The loop goes on with another route.  Its affinity is gone.
Retry(r, response, excluded, next) ==
  LET key == SelectApiKey(snapshot, next.route.channel, next.seed) IN
  /\ Blame(r, response, [channel |-> next.route.channel, key |-> key])
  /\ request' = [request EXCEPT ![r] =
       [request[r] EXCEPT !.pc = "attempt", !.channel = next.route.channel, !.key = key,
                          !.sticky = FALSE, !.once = FALSE,
                          !.attempt = request[r].attempt + 1, !.excluded = excluded,
                          !.alternative = Usable(snapshot, RouteGroups) \ excluded # {}]]
  /\ UNCHANGED <<pins, usage>>

\* Variant of RecordAffinity: a failed call pins too.
RecordAffinityAlways(r, response) ==
  pins' = IF request[r].sticky
            THEN [pins EXCEPT ![Session[r]] = request[r].channel] ELSE pins

\* record_affinity.  Only the first route carries an affinity (Retry drops it),
\* and switch_on_success is not looked at.
RecordAffinity(r, response) ==
  pins' = IF /\ request[r].sticky /\ response.status = "success"
             /\ snapshot.affinity.enabled
            THEN [pins EXCEPT ![Session[r]] = request[r].channel] ELSE pins

\* Variant of Conclude: a stream is passed on and nothing reports its usage.
ConcludeUnwatched(r, response) ==
  /\ RecordAffinity(r, response)
  /\ Blame(r, response, [channel |-> request[r].channel, key |-> request[r].key])
  /\ Finish(r)
  /\ IF response.stream THEN UNCHANGED usage ELSE Report(r)

\* The response goes to the client: record_affinity and
\* finalize_response_usage, which leaves the usage of a stream to the task that
\* passes it on.
Conclude(r, response) ==
  /\ RecordAffinity(r, response)
  /\ Blame(r, response, [channel |-> request[r].channel, key |-> request[r].key])
  /\ \/ /\ response.stream
        /\ request' = [request EXCEPT ![r] = [@ EXCEPT !.pc = "stream"]]
        /\ UNCHANGED usage
     \/ /\ ~response.stream
        /\ Finish(r)
        /\ Report(r)

Answered(r, response) ==
  LET excluded == request[r].excluded \cup {request[r].channel}
      next == RetryRoute(request[r].attempt + 1, excluded)
  IN
  /\ Tried(r, response)
  /\ \/ /\ MayRetry(r, response) /\ next.route.ok
        /\ Retry(r, response, excluded, next)
     \/ /\ ~(MayRetry(r, response) /\ next.route.ok)
        /\ Conclude(r, response)
  /\ UNCHANGED <<snapshot, next_key, reserved>>

Proxied(r) == request[r].channel \in Routes

Enter(r) == request' = [request EXCEPT ![r] = [@ EXCEPT !.pc = "in_flight"]]

\* The call goes out, through the circuit breaker when the channel has a proxy.
Send(r) ==
  /\ request[r].pc = "attempt"
  /\ Enter(r)
  /\ IF Proxied(r) THEN Acquire(r, request[r].channel) ELSE UNCHANGED circuit_vars
  /\ UNCHANGED <<snapshot, next_key, pins, reserved, usage, feedback, tried>>

\* ProxyTransportError::CircuitOpen
CircuitRejects(r) ==
  /\ request[r].pc = "attempt"
  /\ Proxied(r)
  /\ ~Admits(request[r].channel)
  /\ Answered(r, Response("retryable", TRUE, FALSE))
  /\ UNCHANGED circuit_vars

\* The request cannot be converted for the channel: 400 before anything is sent.
Unconvertible(r) ==
  /\ request[r].pc = "attempt"
  /\ Answered(r, Response("rejected", FALSE, FALSE))
  /\ UNCHANGED circuit_vars

\* The channel's provider does not implement the request: 502, which blames nobody.
Unsupported(r) ==
  /\ request[r].pc = "attempt"
  /\ Answered(r, Response("retryable", FALSE, FALSE))
  /\ UNCHANGED circuit_vars

\* A response head arrives; to the circuit breaker any status is a success.
Responds(r, status, stream) ==
  /\ request[r].pc = "in_flight"
  /\ IF Proxied(r) THEN Success(r) \/ EndsUncounted(r) ELSE UNCHANGED circuit_vars
  /\ Answered(r, Response(status, TRUE, stream))

\* The body of a response is lost after its head: 502, which blames nobody.
BodyLost(r) ==
  /\ request[r].pc = "in_flight"
  /\ IF Proxied(r) THEN Success(r) \/ EndsUncounted(r) ELSE UNCHANGED circuit_vars
  /\ Answered(r, Response("retryable", FALSE, FALSE))

\* 502, and a failure to the circuit breaker.
TransportFails(r) ==
  /\ request[r].pc = "in_flight"
  /\ IF Proxied(r) THEN Failure(r) \/ EndsUncounted(r) ELSE UNCHANGED circuit_vars
  /\ Answered(r, Response("retryable", TRUE, FALSE))

\* wrap_streaming_usage_body: the task reports when the upstream stream ends,
\* whether or not the client is still there.
StreamEnds(r) ==
  /\ request[r].pc = "stream"
  /\ Finish(r)
  /\ Report(r)
  /\ UNCHANGED <<snapshot, next_key, pins, reserved, feedback, tried, circuit_vars>>

\* spawn_snapshot_polling stores another snapshot.
Swap ==
  /\ snapshot' \in Snapshots \ {snapshot}
  /\ UNCHANGED <<next_key, pins, request, reserved, usage, feedback, tried, circuit_vars>>

\* The pin of a session expires or is evicted.
PinExpires(s) ==
  /\ pins[s] # NoChannel
  /\ pins' = [pins EXCEPT ![s] = NoChannel]
  /\ UNCHANGED <<snapshot, next_key, request, reserved, usage, feedback, tried, circuit_vars>>

-----------------------------------------------------------------------------
Answer(r) ==
  \/ \E status \in Statuses, stream \in BOOLEAN : Responds(r, status, stream)
  \/ TransportFails(r) \/ BodyLost(r)

Proceed(r) ==
  \/ Grant(r) \/ Refused(r) \/ Granted(r) \/ GrantLost(r)
  \/ Send(r) \/ Unconvertible(r) \/ Unsupported(r) \/ CircuitRejects(r) \/ Answer(r)
  \/ StreamEnds(r)

Environment ==
  \/ Swap
  \/ \E s \in Sessions : PinExpires(s)
  \/ /\ \E k \in Routes : CooldownElapses(k) \/ OutageBegins(k) \/ OutageEnds(k)
     /\ UNCHANGED request_vars

RequestNext == Environment \/ \E r \in Requests : Begin(r) \/ Proceed(r)

RequestSpec == RequestInit /\ CircuitInit /\ [][RequestNext]_gateway_vars

\* Every await of a request ends: the control plane's by its read timeout, the
\* upstream's by the configured one, or because the upstream answers.
RequestFairness == \A r \in Requests : WF_gateway_vars(Proceed(r))

-----------------------------------------------------------------------------
(***************************************************************************)
(* Properties                                                              *)
(***************************************************************************)

\* A reservation is given back, or charged, by exactly one usage event: every
\* way out of the loop, after however many attempts, streamed or not, reports
\* once and carries the reservation, and a request without one reports
\* nothing.  Only a grant that never reached the worker is not accounted for.
ReservationReportedOnce ==
  \A r \in Requests :
    /\ Len(usage[r]) = IF request[r].pc = "done" /\ r \in reserved /\ ~request[r].lost
                         THEN 1 ELSE 0
    /\ \A i \in DOMAIN usage[r] : usage[r][i].pre_consumed

\* How many of the first n attempts blame their channel.
Blamings(attempts, n) == Cardinality({i \in 1..n : attempts[i].blamed})

\* Feedback names exactly the attempts that the channel failed, in order, each with the
\* channel and the key it used, and the usage event names the channel that
\* answered last: a retry that moves the request to another channel, or a
\* snapshot swapped while the call was out, never puts the blame or the charge
\* on a channel that was not called.
BlameIsExact ==
  \A r \in Requests :
    /\ Len(feedback[r]) = Blamings(tried[r], Len(tried[r]))
    /\ \A i \in DOMAIN tried[r] :
         tried[r][i].blamed =>
           feedback[r][Blamings(tried[r], i)] =
             [channel |-> tried[r][i].channel, key |-> tried[r][i].key]
    /\ usage[r] # <<>> => usage[r][1].channel = tried[r][Len(tried[r])].channel

\* A retry returns to a channel that has failed this request only when the
\* snapshot it was routed with had no other usable channel, and a request is
\* tried once when its affinity rule says so.
RetryGoesElsewhere ==
  \A r \in Requests :
    /\ request[r].channel \in request[r].excluded => ~request[r].alternative
    /\ \A i \in DOMAIN tried[r] : tried[r][i].once => Len(tried[r]) = 1

\* A session is pinned only to a channel that has given one of its requests the
\* answer it was looking for: no failed attempt, and no answer to another
\* session's request, moves a pin, whichever snapshot is there when the call ends.
PinsAreEarned ==
  \A s \in Sessions :
    pins[s] # NoChannel =>
      \E r \in Requests :
        /\ Session[r] = s
        /\ \E i \in DOMAIN tried[r] :
             tried[r][i].channel = pins[s] /\ tried[r][i].status = "success"

\* When the channel that a session is pinned to fails a request of the session and
\* a retry succeeds on another channel, the session moves to that channel, as the
\* description of switch_on_success says.
SwitchesOnSuccess ==
  [][\A r \in Requests :
       LET n == Len(tried'[r]) IN
       /\ n = Len(tried[r]) + 1 /\ n > 1
       /\ HasAffinity(r) /\ snapshot.affinity.switch_on_success
       /\ tried[r][1].channel = pins[Session[r]]
       /\ tried'[r][n].status = "success"
       => pins'[Session[r]] = tried'[r][n].channel]_gateway_vars

\* How far a request is from its answer: the attempts it has left, of three steps
\* each, and where it is in this one.
StepsToEnd(q) ==
  LET stage == [new |-> 6, reserve |-> 5, granted |-> 4, attempt |-> 3, in_flight |-> 2,
                stream |-> 1, done |-> 0]
  IN 3 * (MaxUpstreamAttempts - q.attempt) + stage[q.pc]

\* Whatever happens to a request brings it nearer to its answer, so that none goes
\* round the loop for ever, however snapshots, circuits and other requests
\* change under it.
RequestsAdvance ==
  [][\A r \in Requests :
       request'[r] # request[r] => StepsToEnd(request'[r]) < StepsToEnd(request[r])]_gateway_vars

\* A request holds a permit of the circuit breaker exactly while its call through a
\* proxy is out, and then the one of the channel it is on: no retry takes a
\* permit along, and no answer finds its request without the permit it ends.
PermitsFollowRequests ==
  \A r \in Requests :
    permit[r] = IF request[r].pc = "in_flight" /\ Proxied(r)
                  THEN IF failure_threshold = 0 THEN DisabledPermit ELSE request[r].channel
                  ELSE NoPermit

\* Every reservation the worker knows of is reported in the end.
ReservationsReturn ==
  \A r \in Requests : request[r].pre_consumed ~> (usage[r] # <<>>)

=============================================================================
