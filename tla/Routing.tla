------------------------------ MODULE Routing ------------------------------
(***************************************************************************)
(* Route selection in router-core, for one requested model and a token     *)
(* that may use it.  A snapshot is a record of                             *)
(*   channels : a function from channel ids to their settings, a record of *)
(*              enabled, weight, models, groups and keys (how many API     *)
(*              keys there are to choose from);                            *)
(*   mappings : the model mappings of the requested model, in order, each  *)
(*              a record of channel_id and upstream_model.                 *)
(* The mappings name every channel at least once that can be routed to.    *)
(***************************************************************************)
EXTENDS Naturals, Sequences, FiniteSets

\* A list of whatever elements it has.
IsSequence(q) == q \in Seq({q[i] : i \in DOMAIN q})

\* What a published snapshot is known to be: weights are unsigned, and a channel
\* has an API key.
IsSnapshot(snapshot) ==
  /\ IsSequence(snapshot.mappings)
  /\ \A c \in DOMAIN snapshot.channels :
       snapshot.channels[c].weight \in Nat /\ snapshot.channels[c].keys \in Nat \ {0}

Min1(n) == IF n = 0 THEN 1 ELSE n

\* The position at which a loop over a list stops.
First(positions) == CHOOSE i \in positions : \A j \in positions : i <= j

\* The running totals of a sequence of weights; zero stands before the first.
RunningTotal(weights) ==
  LET total[i \in 0..Len(weights)] == IF i = 0 THEN 0 ELSE total[i - 1] + weights[i]
  IN total

-----------------------------------------------------------------------------
(***************************************************************************)
(* IndexedModelRoutes::new.  A candidate is the position of its mapping.   *)
(***************************************************************************)

\* channel_serves_mapping
Serves(channel, mapping) ==
  channel.models = {} \/ mapping.upstream_model \in channel.models

Known(snapshot, mapping) == mapping.channel_id \in DOMAIN snapshot.channels

\* The channel of a mapping is enabled, and in the group.
EnabledIn(snapshot, group, mapping) ==
  /\ Known(snapshot, mapping)
  /\ group \in snapshot.channels[mapping.channel_id].groups
  /\ snapshot.channels[mapping.channel_id].enabled

\* has_enabled_channel of a group
HasEnabledChannel(snapshot, group) ==
  \E i \in DOMAIN snapshot.mappings : EnabledIn(snapshot, group, snapshot.mappings[i])

IsCandidate(snapshot, group, i) ==
  LET mapping == snapshot.mappings[i] IN
  /\ EnabledIn(snapshot, group, mapping)
  /\ Serves(snapshot.channels[mapping.channel_id], mapping)

\* total_weight of the group after each mapping, which is the
\* cumulative_weight of the candidate that the mapping adds.
CumulativeWeight(snapshot, group) ==
  RunningTotal([i \in DOMAIN snapshot.mappings |->
    IF IsCandidate(snapshot, group, i)
      THEN Min1(snapshot.channels[snapshot.mappings[i].channel_id].weight) ELSE 0])

-----------------------------------------------------------------------------
(***************************************************************************)
(* route_weighted_excluding                                                *)
(***************************************************************************)

\* The candidates whose channels are not excluded.
IsOpen(snapshot, group, excluded, i) ==
  IsCandidate(snapshot, group, i) /\ snapshot.mappings[i].channel_id \notin excluded

\* The running total of the weights that are not excluded, taken from the
\* cumulative weights of all of them.
AvailableWeight(snapshot, group, excluded) ==
  LET cumulative == CumulativeWeight(snapshot, group) IN
  RunningTotal([i \in DOMAIN snapshot.mappings |->
    IF IsOpen(snapshot, group, excluded, i) THEN cumulative[i] - cumulative[i - 1] ELSE 0])

\* Variant of TotalWeight: the weight of the whole group, excluded channels
\* included.
TotalWeightOfGroup(snapshot, group, excluded) ==
  CumulativeWeight(snapshot, group)[Len(snapshot.mappings)]

\* group.total_weight, or route_group_available_weight
TotalWeight(snapshot, group, excluded) ==
  AvailableWeight(snapshot, group, excluded)[Len(snapshot.mappings)]

\* The candidate that holds the slot; 0 when the loop runs past the last one.
Pick(snapshot, group, excluded, slot) ==
  LET total == AvailableWeight(snapshot, group, excluded)
      holders == {i \in DOMAIN snapshot.mappings :
                    IsOpen(snapshot, group, excluded, i) /\ slot < total[i]}
  IN IF holders = {} THEN 0 ELSE First(holders)

Failed(error) == [ok |-> FALSE, error |-> error]
Routed(mapping, group) ==
  [ok |-> TRUE, channel |-> mapping.channel_id, group |-> group,
   upstream_model |-> mapping.upstream_model]

\* What a group answers to a seed: a candidate, or 0 for the next group's turn.
PickInGroup(snapshot, group, seed, excluded) ==
  LET weight == TotalWeight(snapshot, group, excluded)
  IN IF weight = 0 THEN 0 ELSE Pick(snapshot, group, excluded, seed % weight)

\* The first of the token's groups that answers.
RouteWeighted(snapshot, route_groups, seed, excluded) ==
  LET answer == [g \in DOMAIN route_groups |->
                   PickInGroup(snapshot, route_groups[g], seed, excluded)]
      answering == {g \in DOMAIN route_groups : answer[g] # 0}
  IN IF snapshot.mappings = <<>> THEN Failed("ModelNotFound")
     ELSE IF answering # {}
       THEN Routed(snapshot.mappings[answer[First(answering)]], route_groups[First(answering)])
     ELSE IF route_groups = <<>> \/ ~\E i \in DOMAIN snapshot.mappings :
                                         Known(snapshot, snapshot.mappings[i])
       THEN Failed("ChannelNotFound")
     ELSE IF ~\E g \in DOMAIN route_groups : HasEnabledChannel(snapshot, route_groups[g])
       THEN Failed("ChannelDisabled")
     ELSE Failed("ChannelModelMismatch")

\* route_specific_channel, with the first mapping of the channel.
RouteSpecific(snapshot, route_groups, channel_id) ==
  LET channel == snapshot.channels[channel_id]
      naming == {i \in DOMAIN snapshot.mappings : snapshot.mappings[i].channel_id = channel_id}
      serving == {g \in DOMAIN route_groups : route_groups[g] \in channel.groups}
  IN IF \/ naming = {}
        \/ channel_id \notin DOMAIN snapshot.channels
        \/ serving = {}
        \/ ~channel.enabled
        \/ ~Serves(channel, snapshot.mappings[First(naming)])
     THEN Failed("NotServing")
     ELSE Routed(snapshot.mappings[First(naming)], route_groups[First(serving)])

\* select_api_key_with_index
SelectApiKey(snapshot, channel_id, seed) == seed % snapshot.channels[channel_id].keys

-----------------------------------------------------------------------------
(***************************************************************************)
(* Reference definitions                                                   *)
(***************************************************************************)

\* The channels of a group that may serve the model.
UsableIn(snapshot, group) ==
  {c \in DOMAIN snapshot.channels :
     /\ snapshot.channels[c].enabled
     /\ group \in snapshot.channels[c].groups
     /\ \E i \in DOMAIN snapshot.mappings :
          /\ snapshot.mappings[i].channel_id = c
          /\ Serves(snapshot.channels[c], snapshot.mappings[i])}

Usable(snapshot, route_groups) ==
  UNION {UsableIn(snapshot, route_groups[g]) : g \in DOMAIN route_groups}

\* How many times the mappings offer a channel in a group.
Offers(snapshot, group, channel) ==
  Cardinality({i \in DOMAIN snapshot.mappings :
                 /\ snapshot.mappings[i].channel_id = channel
                 /\ channel \in UsableIn(snapshot, group)
                 /\ Serves(snapshot.channels[channel], snapshot.mappings[i])})

Share(snapshot, group, channel) ==
  Offers(snapshot, group, channel) * Min1(snapshot.channels[channel].weight)

\* Over one turn of the seed a group gives every channel that is usable and not
\* excluded as many of its slots as the channel weighs, and the excluded ones
\* none; and a group is passed over only when nothing is left in it.
SharesByWeight(snapshot, group, excluded) ==
  LET open == UsableIn(snapshot, group) \ excluded
      weight == TotalWeight(snapshot, group, excluded)
      Slots(c) == {seed \in 0..(weight - 1) :
                     LET i == PickInGroup(snapshot, group, seed, excluded) IN
                     i # 0 /\ snapshot.mappings[i].channel_id = c}
  IN /\ weight = 0 <=> open = {}
     /\ weight # 0 =>
          /\ \A seed \in 0..(weight - 1) : PickInGroup(snapshot, group, seed, excluded) # 0
          /\ \A c \in open : Cardinality(Slots(c)) = Share(snapshot, group, c)
          /\ \A c \in excluded : Slots(c) = {}

\* A seed is answered when some channel of the token's groups is left, by a
\* channel of the first group that has one.
RoutesInOrder(snapshot, route_groups, seed, excluded) ==
  LET route == RouteWeighted(snapshot, route_groups, seed, excluded)
      Left(g) == UsableIn(snapshot, route_groups[g]) \ excluded
  IN /\ route.ok <=> \E g \in DOMAIN route_groups : Left(g) # {}
     /\ route.ok => \E g \in DOMAIN route_groups :
                      /\ route.group = route_groups[g] /\ route.channel \in Left(g)
                      /\ \A h \in 1..(g - 1) : Left(h) = {}

=============================================================================
