---------------------------- MODULE RoutingCases ----------------------------
(***************************************************************************)
(* Route selection over many snapshots: two channels, in every             *)
(* combination of status, weight, models and groups, and four lists of     *)
(* mappings, one of them with a channel that is gone and one with a        *)
(* channel that occurs twice.                                              *)
(***************************************************************************)
EXTENDS Routing

CONSTANTS a, b, gone

VARIABLE routed  \* the snapshot that routes are selected from

Channel(enabled, weight, models, groups, keys) ==
  [enabled |-> enabled, weight |-> weight, models |-> models, groups |-> groups,
   keys |-> keys]
Mapping(c, m) == [channel_id |-> c, upstream_model |-> m]

Groups == <<"vip", "all">>

\* The snapshots of two channels with up to three mappings between them.
RoutedSnapshots ==
  LET settings == {Channel(e, w, m, g, 1) :
                     e \in BOOLEAN, w \in 0..2, m \in {{}, {"x"}},
                     g \in {{"vip"}, {"all"}, {"vip", "all"}}}
  IN [channels : [{a, b} -> settings],
      mappings : {<<>>, <<Mapping(b, "x")>>, <<Mapping(gone, "x")>>,
                  <<Mapping(a, "y"), Mapping(b, "x"), Mapping(a, "x")>>}]

\* Whatever the snapshot and whichever channels have failed, each group shares
\* its requests out by weight, and the token's groups are tried in order.
RoutingIsFair ==
  routed \in RoutedSnapshots =>
    \A excluded \in SUBSET {a, b} :
      /\ \A g \in DOMAIN Groups : SharesByWeight(routed, Groups[g], excluded)
      /\ \A seed \in 0..6 : RoutesInOrder(routed, Groups, seed, excluded)

=============================================================================
