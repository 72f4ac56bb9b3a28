--------------------------- MODULE GatewayProofs ---------------------------
(***************************************************************************)
(* Proofs about the gateway's request path, for any number of channels,    *)
(* requests, calls and keys: route selection (Routing), the circuit        *)
(* breaker (ProxyCircuit), and the retry loop (GatewayRequest) that takes  *)
(* its routes from the one and goes through the other.                     *)
(***************************************************************************)
EXTENDS GatewayRequest, RoutingCases, WellFoundedInduction, FiniteSetTheorems, TLAPS

-----------------------------------------------------------------------------
(***************************************************************************)
(* Route selection, for every snapshot, list of groups, seed and set of    *)
(* excluded channels.  The running totals are recursive functions, and     *)
(* what they compute is shown by a least counterexample: a set of naturals *)
(* that is not empty has a least element, since < is well founded.         *)
(***************************************************************************)

\* A set of naturals that is not empty has a least element.
LEMMA LeastNat ==
  ASSUME NEW T, T \subseteq Nat, T # {}
  PROVE  \E x \in T : \A y \in T : x <= y
<1> DEFINE R == {p \in Nat \X Nat : p[1] < p[2]}
<1>1. IsWellFoundedOn(R, Nat)
  BY Zenon, NatLessThanWellFounded DEF OpToRel
<1>2. PICK x \in T : \A y \in T : ~(<<y, x>> \in R)
  <2> HIDE DEF R
  <2> QED BY Zenon, <1>1, WFMin
<1>3. ASSUME NEW y \in T PROVE x <= y
  <2>1. x \in Nat /\ y \in Nat /\ ~(<<y, x>> \in R)
    BY Zenon, <1>2
  <2> QED BY <2>1
<1> QED BY Zenon, <1>3

\* First chooses the least element.
LEMMA FirstIsLeast ==
  ASSUME NEW T, T \subseteq Nat, T # {}
  PROVE  First(T) \in T /\ \A y \in T : First(T) <= y
  BY Zenon, LeastNat DEF First

\* A list of weights.
Weights(w) == Len(w) \in Nat /\ DOMAIN w = 1..Len(w) /\ \A i \in 1..Len(w) : w[i] \in Nat

\* What the recursive definition of RunningTotal asks of a function.
IsTotal(f, n, w) == f = [i \in 0..n |-> IF i = 0 THEN 0 ELSE f[i - 1] + w[i]]

\* There is such a function, by a least counterexample.
LEMMA TotalExists ==
  ASSUME NEW w, Weights(w)
  PROVE  \E f : IsTotal(f, Len(w), w)
<1> DEFINE Bad == {n \in 0..Len(w) : ~\E f : IsTotal(f, n, w)}
<1>1. SUFFICES ASSUME Bad # {} PROVE FALSE
  BY DEF Weights
<1>2. PICK n \in Bad : \A m \in Bad : n <= m
  <2>1. Bad \subseteq Nat
    BY DEF Weights
  <2> HIDE DEF Bad
  <2> QED BY Zenon, <1>1, <2>1, LeastNat
<1>3. n \in 0..Len(w) /\ ~\E f : IsTotal(f, n, w)
  BY Zenon
<1>4. CASE n = 0
  <2> DEFINE f == [i \in 0..0 |-> 0]
  <2>1. IsTotal(f, 0, w)
    BY DEF IsTotal
  <2> QED BY Zenon, <1>3, <1>4, <2>1
<1>5. CASE n # 0
  <2>1. n - 1 \in 0..Len(w) /\ ~(n <= n - 1)
    BY <1>3, <1>5 DEF Weights
  <2>2. PICK f : IsTotal(f, n - 1, w)
    BY Zenon, <1>2, <2>1
  <2> DEFINE g == [i \in 0..n |-> IF i = n THEN f[n - 1] + w[n] ELSE f[i]]
  <2>3. \A i \in 0..n : g[i] = IF i = 0 THEN 0 ELSE g[i - 1] + w[i]
    <3>1. n \in Nat /\ f = [i \in 0..(n - 1) |-> IF i = 0 THEN 0 ELSE f[i - 1] + w[i]]
      <4>1. n \in Nat
        BY <1>3 DEF Weights
      <4> QED BY Zenon, <2>2, <4>1 DEF IsTotal
    <3>2. ASSUME NEW i \in 0..n, i # n PROVE g[i] = IF i = 0 THEN 0 ELSE g[i - 1] + w[i]
      <4>1. i \in 0..(n - 1) /\ g[i] = f[i]
        BY <3>1, <3>2
      <4>2. f[i] = IF i = 0 THEN 0 ELSE f[i - 1] + w[i]
        BY Zenon, <3>1, <4>1
      <4>3. CASE i # 0
        <5>1. i - 1 \in 0..n /\ i - 1 # n
          BY <3>1, <4>1, <4>3
        <5> QED BY Zenon, <4>1, <4>2, <5>1
      <4> QED BY Zenon, <4>1, <4>2, <4>3
    <3>3. g[n] = g[n - 1] + w[n]
      <4>1. n \in 0..n /\ n - 1 \in 0..n /\ n - 1 # n
        BY <1>5, <3>1
      <4> QED BY Zenon, <4>1
    <3> QED BY Zenon, <1>5, <3>2, <3>3
  <2>4. IsTotal(g, n, w)
    BY Zenon, <2>3 DEF IsTotal
  <2> HIDE DEF g
  <2> QED BY Zenon, <1>3, <2>4
<1> QED BY Zenon, <1>4, <1>5

\* So RunningTotal satisfies its definition.
LEMMA TotalIs ==
  ASSUME NEW w, Weights(w)
  PROVE  IsTotal(RunningTotal(w), Len(w), w)
<1>1. PICK f : IsTotal(f, Len(w), w)
  BY Zenon, TotalExists
<1>2. RunningTotal(w) = CHOOSE h : IsTotal(h, Len(w), w)
  BY Zenon DEF RunningTotal, IsTotal
<1> QED BY Zenon, <1>1, <1>2

\* RunningTotal, as the equations that the rest uses.
LEMMA Totals ==
  ASSUME NEW w, Weights(w)
  PROVE  /\ RunningTotal(w) \in [0..Len(w) -> Nat]
         /\ RunningTotal(w)[0] = 0
         /\ \A i \in 1..Len(w) : RunningTotal(w)[i] = RunningTotal(w)[i - 1] + w[i]
<1> DEFINE t == RunningTotal(w)
           n == Len(w)
<1>0. n \in Nat
  BY Zenon DEF Weights
<1>1. t = [i \in 0..n |-> IF i = 0 THEN 0 ELSE t[i - 1] + w[i]]
  BY Zenon, TotalIs DEF IsTotal
<1> HIDE DEF t, n
<1>2. t[0] = 0 /\ \A i \in 1..n : t[i] = t[i - 1] + w[i]
  BY <1>0, <1>1
<1>3. ASSUME NEW i \in 0..n PROVE t[i] \in Nat
  <2> DEFINE Bad == {j \in 0..n : t[j] \notin Nat}
  <2>1. SUFFICES ASSUME Bad # {} PROVE FALSE
    BY Zenon
  <2>2. PICK j \in Bad : \A m \in Bad : j <= m
    <3>1. Bad \subseteq Nat
      BY <1>0
    <3> HIDE DEF Bad
    <3> QED BY Zenon, <2>1, <3>1, LeastNat
  <2>3. j \in 1..n /\ t[j - 1] \in Nat
    <3>1. j \in 0..n /\ j # 0
      BY <1>2
    <3>2. j - 1 \in 0..n /\ ~(j <= j - 1)
      BY <1>0, <3>1
    <3> QED BY <1>0, <2>2, <3>1, <3>2
  <2>4. t[j] \in Nat
    BY <1>2, <2>3 DEF Weights, n
  <2> QED BY Zenon, <2>4
<1>4. t \in [0..n -> Nat]
  BY Zenon, <1>1, <1>3
<1> QED BY Zenon, <1>2, <1>4 DEF t, n

\* The running total never falls.
LEMMA TotalsGrow ==
  ASSUME NEW w, Weights(w), NEW i \in 0..Len(w), NEW j \in 0..Len(w), i <= j
  PROVE  RunningTotal(w)[i] <= RunningTotal(w)[j]
<1> DEFINE t == RunningTotal(w)
           n == Len(w)
           Bad == {k \in i..n : ~(t[i] <= t[k])}
<1>1. /\ n \in Nat /\ t \in [0..n -> Nat] /\ i \in 0..n /\ j \in 0..n
      /\ \A k \in 1..n : t[k] = t[k - 1] + w[k] /\ w[k] \in Nat
  BY Zenon, Totals DEF Weights
<1> HIDE DEF t, n
<1>2. SUFFICES ASSUME Bad # {} PROVE FALSE
  BY <1>1 DEF t, n
<1>3. PICK k \in Bad : \A m \in Bad : k <= m
  <2>1. Bad \subseteq Nat
    BY <1>1
  <2> HIDE DEF Bad
  <2> QED BY Zenon, <1>2, <2>1, LeastNat
<1>4. k \in i..n /\ k # i
  BY <1>1
<1>5. k - 1 \in i..n /\ k \in 1..n /\ ~(k <= k - 1) /\ k - 1 \in 0..n /\ k \in 0..n
  BY <1>1, <1>4
<1>6. t[i] <= t[k - 1]
  BY Zenon, <1>3, <1>5
<1>7. t[i] \in Nat /\ t[k - 1] \in Nat /\ t[k] = t[k - 1] + w[k] /\ w[k] \in Nat
  BY Zenon, <1>1, <1>5
<1>8. t[i] <= t[k]
  BY <1>6, <1>7
<1> QED BY Zenon, <1>8

\* The position that holds a slot: the total reaches past the slot there and not before.
HoldsSlot(w, slot, i) ==
  RunningTotal(w)[i - 1] <= slot /\ slot < RunningTotal(w)[i]

\* Every slot below the total is held by some position.
LEMMA SlotIsHeld ==
  ASSUME NEW w, Weights(w), NEW slot \in Nat, slot < RunningTotal(w)[Len(w)]
  PROVE  \E i \in 1..Len(w) : HoldsSlot(w, slot, i)
<1> DEFINE t == RunningTotal(w)
           n == Len(w)
           Past == {k \in 0..n : slot < t[k]}
<1>1. /\ n \in Nat /\ t \in [0..n -> Nat] /\ t[0] = 0 /\ slot < t[n]
  BY Zenon, Totals DEF Weights
<1> HIDE DEF t, n
<1>2. PICK k \in Past : \A m \in Past : k <= m
  <2>1. Past \subseteq Nat /\ n \in Past
    BY <1>1
  <2> HIDE DEF Past
  <2> QED BY Zenon, <2>1, LeastNat
<1>3. k \in 1..n /\ k - 1 \in 0..n /\ ~(k <= k - 1)
  BY <1>1
<1>4. ~(slot < t[k - 1]) /\ t[k - 1] \in Nat
  BY Zenon, <1>1, <1>2, <1>3
<1>5. t[k - 1] <= slot /\ slot < t[k]
  BY <1>2, <1>4
<1> QED BY Zenon, <1>3, <1>5 DEF HoldsSlot, t, n

\* The position that holds a slot has a weight, and is the first whose total is
\* beyond the slot.
LEMMA HolderWeighs ==
  ASSUME NEW w, Weights(w), NEW slot \in Nat, NEW i \in 1..Len(w), HoldsSlot(w, slot, i)
  PROVE  w[i] # 0 /\ slot < RunningTotal(w)[Len(w)]
         /\ \A j \in 1..Len(w) : slot < RunningTotal(w)[j] <=> i <= j
<1> DEFINE t == RunningTotal(w)
           n == Len(w)
<1>1. /\ n \in Nat /\ t \in [0..n -> Nat] /\ i \in 1..n
      /\ t[i] = t[i - 1] + w[i] /\ w[i] \in Nat /\ t[i - 1] <= slot /\ slot < t[i]
  BY Zenon, Totals DEF Weights, HoldsSlot
<1>2. \A j, k \in 0..n : j <= k => t[j] <= t[k]
  BY Zenon, TotalsGrow
<1> HIDE DEF t, n
<1>3. /\ i \in 0..n /\ n \in 0..n /\ i - 1 \in 0..n /\ i <= n
      /\ t[i] \in Nat /\ t[n] \in Nat /\ t[i - 1] \in Nat
  BY <1>1
<1>4. w[i] # 0
  BY <1>1, <1>3
<1>5. t[i] <= t[n]
  BY Zenon, <1>2, <1>3
<1>6. slot < t[n]
  BY <1>1, <1>3, <1>5
<1>7. ASSUME NEW j \in 1..n PROVE slot < t[j] <=> i <= j
  <2>1. j \in 0..n /\ t[j] \in Nat /\ (i <= j \/ j <= i - 1)
    BY <1>1
  <2>2. CASE i <= j
    <3>1. t[i] <= t[j]
      BY Zenon, <1>2, <1>3, <2>1, <2>2
    <3> QED BY <1>1, <1>3, <2>1, <2>2, <3>1
  <2>3. CASE j <= i - 1
    <3>1. t[j] <= t[i - 1]
      BY Zenon, <1>2, <1>3, <2>1, <2>3
    <3> QED BY <1>1, <1>3, <2>1, <2>3, <3>1
  <2> QED BY Zenon, <2>1, <2>2, <2>3
<1> QED BY Zenon, <1>4, <1>6, <1>7 DEF t, n

\* One weight that is not zero shows in the total.
LEMMA WeightShows ==
  ASSUME NEW w, Weights(w), NEW i \in 1..Len(w), w[i] # 0
  PROVE  RunningTotal(w)[Len(w)] # 0
<1> DEFINE t == RunningTotal(w)
           n == Len(w)
<1>1. /\ n \in Nat /\ t \in [0..n -> Nat] /\ i \in 1..n
      /\ t[i] = t[i - 1] + w[i] /\ w[i] \in Nat
  BY Zenon, Totals DEF Weights
<1>2. \A j, k \in 0..n : j <= k => t[j] <= t[k]
  BY Zenon, TotalsGrow
<1> HIDE DEF t, n
<1>3. i \in 0..n /\ n \in 0..n /\ i <= n /\ i - 1 \in 0..n
  BY <1>1
<1>4. t[i] <= t[n] /\ t[i] \in Nat /\ t[n] \in Nat /\ t[i - 1] \in Nat
  BY Zenon, <1>1, <1>2, <1>3
<1>5. t[n] # 0
  BY <1>1, <1>4
<1> QED BY Zenon, <1>5 DEF t, n

-----------------------------------------------------------------------------
\* What position i of the mappings weighs when its channel is open.
OpenWeight(s, group, excluded, i) ==
  IF IsOpen(s, group, excluded, i) THEN Min1(s.channels[s.mappings[i].channel_id].weight) ELSE 0

\* The list of these weights.
OpenWeights(s, group, excluded) ==
  [i \in DOMAIN s.mappings |-> OpenWeight(s, group, excluded, i)]

\* The positions of a sequence.
LEMMA SequenceDomain ==
  ASSUME NEW q, IsSequence(q)
  PROVE  Len(q) \in Nat /\ DOMAIN q = 1..Len(q)
  BY DEF IsSequence

\* It is a list of weights, and exactly the open positions weigh something.
LEMMA OpenWeightsAreWeights ==
  ASSUME NEW s, IsSnapshot(s), NEW group, NEW excluded
  PROVE  /\ Weights(OpenWeights(s, group, excluded))
         /\ Len(OpenWeights(s, group, excluded)) = Len(s.mappings)
         /\ \A i \in DOMAIN s.mappings :
              /\ OpenWeights(s, group, excluded)[i] = OpenWeight(s, group, excluded, i)
              /\ OpenWeight(s, group, excluded, i) # 0 <=> IsOpen(s, group, excluded, i)
<1>1. Len(s.mappings) \in Nat /\ DOMAIN s.mappings = 1..Len(s.mappings)
  BY Zenon, SequenceDomain DEF IsSnapshot
<1>2. ASSUME NEW i \in DOMAIN s.mappings
      PROVE  /\ OpenWeight(s, group, excluded, i) \in Nat
             /\ OpenWeight(s, group, excluded, i) # 0 <=> IsOpen(s, group, excluded, i)
  <2>1. CASE IsOpen(s, group, excluded, i)
    <3>1. s.mappings[i].channel_id \in DOMAIN s.channels
      BY Zenon, <2>1 DEF IsOpen, IsCandidate, EnabledIn, Known
    <3>2. s.channels[s.mappings[i].channel_id].weight \in Nat
      BY Zenon, <3>1 DEF IsSnapshot
    <3>3. /\ Min1(s.channels[s.mappings[i].channel_id].weight) \in Nat
          /\ Min1(s.channels[s.mappings[i].channel_id].weight) # 0
      <4>1. \A n \in Nat : Min1(n) \in Nat /\ Min1(n) # 0
        BY DEF Min1
      <4> QED BY Zenon, <3>2, <4>1
    <3> QED BY Zenon, <2>1, <3>3 DEF OpenWeight
  <2>2. CASE ~IsOpen(s, group, excluded, i)
    BY <2>2 DEF OpenWeight
  <2> QED BY Zenon, <2>1, <2>2
<1>3. Len(OpenWeights(s, group, excluded)) = Len(s.mappings)
  BY <1>1 DEF OpenWeights
<1> QED BY Zenon, <1>1, <1>2, <1>3 DEF Weights, OpenWeights

\* The weights that the loop takes from the cumulative ones are the channels' own.
LEMMA AvailableIsTotal ==
  ASSUME NEW s, IsSnapshot(s), NEW group, NEW excluded
  PROVE  AvailableWeight(s, group, excluded) = RunningTotal(OpenWeights(s, group, excluded))
<1> DEFINE all == OpenWeights(s, group, {})
           cumulative == CumulativeWeight(s, group)
<1>1. cumulative = RunningTotal(all)
  <2>1. \A i \in DOMAIN s.mappings :
          OpenWeight(s, group, {}, i) =
            IF IsCandidate(s, group, i)
              THEN Min1(s.channels[s.mappings[i].channel_id].weight) ELSE 0
    BY Zenon DEF OpenWeight, IsOpen
  <2>2. all = [i \in DOMAIN s.mappings |->
                 IF IsCandidate(s, group, i)
                   THEN Min1(s.channels[s.mappings[i].channel_id].weight) ELSE 0]
    BY Zenon, <2>1 DEF OpenWeights
  <2> QED BY Zenon, <2>2 DEF CumulativeWeight
<1>2. Weights(all) /\ Len(all) = Len(s.mappings)
  BY Zenon, OpenWeightsAreWeights
<1>3. /\ Len(s.mappings) \in Nat /\ DOMAIN s.mappings = 1..Len(s.mappings)
      /\ cumulative \in [0..Len(s.mappings) -> Nat]
      /\ \A i \in DOMAIN s.mappings : cumulative[i] = cumulative[i - 1] + all[i] /\ all[i] \in Nat
  <2>1. Len(s.mappings) \in Nat /\ DOMAIN s.mappings = 1..Len(s.mappings)
    BY Zenon, SequenceDomain DEF IsSnapshot
  <2> HIDE DEF all, cumulative
  <2> QED BY Zenon, <1>1, <1>2, <2>1, Totals DEF Weights
<1>4. ASSUME NEW i \in DOMAIN s.mappings, IsOpen(s, group, excluded, i)
      PROVE  cumulative[i] - cumulative[i - 1] = OpenWeight(s, group, excluded, i)
  <2>1. all[i] = OpenWeight(s, group, excluded, i)
    BY Zenon, <1>4 DEF OpenWeights, OpenWeight, IsOpen
  <2> HIDE DEF all, cumulative
  <2>2. i - 1 \in 0..Len(s.mappings)
    BY <1>3
  <2>3. cumulative[i - 1] \in Nat /\ all[i] \in Nat /\ cumulative[i] = cumulative[i - 1] + all[i]
    BY Zenon, <1>3, <2>2
  <2> QED BY <2>1, <2>3
<1> HIDE DEF cumulative
<1>5. [i \in DOMAIN s.mappings |->
         IF IsOpen(s, group, excluded, i) THEN cumulative[i] - cumulative[i - 1] ELSE 0]
      = OpenWeights(s, group, excluded)
  <2>1. \A i \in DOMAIN s.mappings :
          (IF IsOpen(s, group, excluded, i) THEN cumulative[i] - cumulative[i - 1] ELSE 0)
          = OpenWeight(s, group, excluded, i)
    BY Zenon, <1>4 DEF OpenWeight
  <2> QED BY Zenon, <2>1 DEF OpenWeights
<1> QED BY Zenon, <1>5 DEF AvailableWeight, cumulative

\* The channels that are usable and not excluded are those of the open positions.
LEMMA OpenIsUsable ==
  ASSUME NEW s, NEW group, NEW excluded, NEW c
  PROVE  c \in UsableIn(s, group) \ excluded <=>
           \E i \in DOMAIN s.mappings :
             IsOpen(s, group, excluded, i) /\ s.mappings[i].channel_id = c
  BY Zenon DEF UsableIn, IsOpen, IsCandidate, EnabledIn, Known

\* route_group_available_weight is zero exactly when no position is open.
LEMMA TotalWeightShows ==
  ASSUME NEW s, IsSnapshot(s), NEW group, NEW excluded
  PROVE  /\ TotalWeight(s, group, excluded) \in Nat
         /\ TotalWeight(s, group, excluded) # 0 <=>
              \E i \in DOMAIN s.mappings : IsOpen(s, group, excluded, i)
<1> DEFINE w == OpenWeights(s, group, excluded)
           total == TotalWeight(s, group, excluded)
<1>1. /\ Weights(w) /\ Len(w) = Len(s.mappings)
      /\ DOMAIN s.mappings = 1..Len(w)
      /\ \A i \in DOMAIN s.mappings : w[i] # 0 <=> IsOpen(s, group, excluded, i)
  BY OpenWeightsAreWeights, SequenceDomain DEF IsSnapshot
<1>2. total = RunningTotal(w)[Len(w)]
  BY Zenon, <1>1, AvailableIsTotal DEF TotalWeight
<1> HIDE DEF w, total
<1>3. total \in Nat
  BY <1>1, <1>2, Totals DEF Weights
<1>4. ASSUME NEW i \in DOMAIN s.mappings, IsOpen(s, group, excluded, i)
      PROVE  total # 0
  BY Zenon, <1>1, <1>2, <1>4, WeightShows
<1>5. ASSUME total # 0
      PROVE  \E i \in DOMAIN s.mappings : IsOpen(s, group, excluded, i)
  <2>1. 0 < total
    BY <1>3, <1>5
  <2>2. PICK i \in 1..Len(w) : HoldsSlot(w, 0, i)
    BY Zenon, <1>1, <1>2, <2>1, SlotIsHeld
  <2>3. w[i] # 0
    BY Zenon, <1>1, <2>2, HolderWeighs
  <2> QED BY Zenon, <1>1, <2>3
<1> QED BY Zenon, <1>3, <1>4, <1>5 DEF total

\* A group answers a seed exactly if it has an open position, with the one
\* that holds the seed's slot.
LEMMA PickInGroupIs ==
  ASSUME NEW s, IsSnapshot(s), NEW group, NEW excluded, NEW seed \in Nat
  PROVE  LET i == PickInGroup(s, group, seed, excluded)
             total == TotalWeight(s, group, excluded)
         IN  /\ total = 0 => i = 0
             /\ total # 0 =>
                  /\ i \in DOMAIN s.mappings /\ i # 0
                  /\ IsOpen(s, group, excluded, i)
                  /\ HoldsSlot(OpenWeights(s, group, excluded), seed % total, i)
<1> DEFINE w == OpenWeights(s, group, excluded)
           total == TotalWeight(s, group, excluded)
           slot == seed % total
           holders == {i \in DOMAIN s.mappings :
                         IsOpen(s, group, excluded, i) /\ slot < RunningTotal(w)[i]}
<1>1. /\ Weights(w) /\ Len(w) = Len(s.mappings) /\ Len(w) \in Nat
      /\ DOMAIN s.mappings = 1..Len(w)
      /\ \A i \in DOMAIN s.mappings : w[i] # 0 <=> IsOpen(s, group, excluded, i)
  BY OpenWeightsAreWeights, SequenceDomain DEF IsSnapshot
<1>2. total = RunningTotal(w)[Len(w)] /\ AvailableWeight(s, group, excluded) = RunningTotal(w)
  BY Zenon, <1>1, AvailableIsTotal DEF TotalWeight
<1>3. total \in Nat
  BY Zenon, TotalWeightShows
<1>4. PickInGroup(s, group, seed, excluded) =
        IF total = 0 THEN 0 ELSE IF holders = {} THEN 0 ELSE First(holders)
  BY Zenon, <1>2 DEF PickInGroup, Pick
<1>5. ASSUME total # 0
      PROVE  /\ holders # {} /\ First(holders) \in 1..Len(w) /\ First(holders) # 0
             /\ IsOpen(s, group, excluded, First(holders))
             /\ HoldsSlot(w, slot, First(holders))
  <2>1. slot \in Nat /\ slot < total
    BY <1>3, <1>5
  <2> HIDE DEF w, total, slot
  <2>2. PICK i \in 1..Len(w) : HoldsSlot(w, slot, i)
    BY Zenon, <1>1, <1>2, <2>1, SlotIsHeld
  <2>3. w[i] # 0 /\ \A j \in 1..Len(w) : slot < RunningTotal(w)[j] <=> i <= j
    BY Zenon, <1>1, <2>1, <2>2, HolderWeighs
  <2>4. i \in holders /\ holders \subseteq Nat /\ \A j \in holders : i <= j
    BY <1>1, <2>3
  <2>5. First(holders) \in holders /\ First(holders) <= i
    <3> HIDE DEF holders
    <3> QED BY Zenon, <2>4, FirstIsLeast
  <2>6. First(holders) = i
    <3>1. First(holders) \in Nat /\ i \in Nat /\ i <= First(holders)
      <4> HIDE DEF holders
      <4> QED BY Zenon, <2>4, <2>5
    <3> QED BY <2>5, <3>1
  <2> QED BY <1>1, <2>2, <2>3, <2>4, <2>6
<1> HIDE DEF holders
<1> QED BY Zenon, <1>1, <1>4, <1>5

\* route_weighted_excluding
LEMMA AnswersWhenLeft ==
  ASSUME NEW s, IsSnapshot(s), NEW group, NEW excluded, NEW seed \in Nat
  PROVE  /\ PickInGroup(s, group, seed, excluded) # 0 <=> UsableIn(s, group) \ excluded # {}
         /\ PickInGroup(s, group, seed, excluded) # 0 =>
              /\ PickInGroup(s, group, seed, excluded) \in DOMAIN s.mappings
              /\ s.mappings[PickInGroup(s, group, seed, excluded)].channel_id
                   \in UsableIn(s, group) \ excluded
<1> DEFINE i == PickInGroup(s, group, seed, excluded)
           total == TotalWeight(s, group, excluded)
<1>1. /\ total = 0 => i = 0
      /\ total # 0 => i \in DOMAIN s.mappings /\ i # 0 /\ IsOpen(s, group, excluded, i)
  BY Zenon, PickInGroupIs
<1>2. total # 0 <=> \E j \in DOMAIN s.mappings : IsOpen(s, group, excluded, j)
  BY Zenon, TotalWeightShows
<1> HIDE DEF i, total
<1>3. (\E j \in DOMAIN s.mappings : IsOpen(s, group, excluded, j)) <=>
        UsableIn(s, group) \ excluded # {}
  <2>1. \A c : c \in UsableIn(s, group) \ excluded <=>
          \E j \in DOMAIN s.mappings :
            IsOpen(s, group, excluded, j) /\ s.mappings[j].channel_id = c
    BY Zenon, OpenIsUsable
  <2> DEFINE left == UsableIn(s, group) \ excluded
  <2> HIDE DEF left
  <2>2. ASSUME NEW j \in DOMAIN s.mappings, IsOpen(s, group, excluded, j)
        PROVE  s.mappings[j].channel_id \in left
    BY Zenon, <2>1, <2>2 DEF left
  <2>3. ASSUME NEW c \in left
        PROVE  \E j \in DOMAIN s.mappings : IsOpen(s, group, excluded, j)
    BY Zenon, <2>1 DEF left
  <2>4. (\E j \in DOMAIN s.mappings : IsOpen(s, group, excluded, j)) <=> left # {}
    BY Zenon, <2>2, <2>3
  <2> QED BY Zenon, <2>4 DEF left
<1>4. i # 0 => s.mappings[i].channel_id \in UsableIn(s, group) \ excluded
  <2>1. \A c : c \in UsableIn(s, group) \ excluded <=>
          \E j \in DOMAIN s.mappings :
            IsOpen(s, group, excluded, j) /\ s.mappings[j].channel_id = c
    BY Zenon, OpenIsUsable
  <2> QED BY Zenon, <1>1, <2>1
<1> QED BY Zenon, <1>1, <1>2, <1>3, <1>4 DEF i

\* Whatever the snapshot, the groups, the seed and the channels that have
\* failed, route_weighted_excluding answers if and only if a usable channel is
\* left, with such a channel of the first group that has one.
THEOREM RoutingInOrder ==
  ASSUME NEW s, IsSnapshot(s), NEW groups, IsSequence(groups), NEW seed \in Nat, NEW excluded
  PROVE  RoutesInOrder(s, groups, seed, excluded)
<1> DEFINE answer == [g \in DOMAIN groups |-> PickInGroup(s, groups[g], seed, excluded)]
           answering == {g \in DOMAIN groups : answer[g] # 0}
           first == First(answering)
           Left(g) == UsableIn(s, groups[g]) \ excluded
           route == RouteWeighted(s, groups, seed, excluded)
<1>1. \A g \in DOMAIN groups :
        /\ answer[g] # 0 <=> Left(g) # {}
        /\ answer[g] # 0 => /\ answer[g] \in DOMAIN s.mappings
                            /\ s.mappings[answer[g]].channel_id \in Left(g)
  BY Zenon, AnswersWhenLeft
<1>2. s.mappings = <<>> => answering = {}
  <2>1. s.mappings = <<>> => DOMAIN s.mappings = {}
    OBVIOUS
  <2> QED BY Zenon, <1>1, <2>1
<1>3. answering # {} =>
        /\ first \in answering /\ \A g \in answering : first <= g
        /\ DOMAIN groups \subseteq Nat
  <2>1. DOMAIN groups = 1..Len(groups) /\ Len(groups) \in Nat
    BY Zenon, SequenceDomain
  <2>2. DOMAIN groups \subseteq Nat
    BY <2>1
  <2>3. answering \subseteq Nat
    BY Zenon, <2>2
  <2> HIDE DEF answering
  <2> QED BY Zenon, <2>2, <2>3, FirstIsLeast DEF first
<1>4. route.ok <=> answering # {}
  BY Zenon, <1>2 DEF RouteWeighted, Routed, Failed
<1>5. answering # {} => route.group = groups[first] /\ route.channel = s.mappings[answer[first]].channel_id
  BY Zenon, <1>2 DEF RouteWeighted, Routed
<1>6. route.ok <=> \E g \in DOMAIN groups : Left(g) # {}
  BY Zenon, <1>1, <1>4
<1>7. ASSUME answering # {}
      PROVE  /\ first \in DOMAIN groups /\ route.group = groups[first]
             /\ route.channel \in Left(first)
             /\ \A h \in 1..(first - 1) : Left(h) = {}
  <2>1. DOMAIN groups = 1..Len(groups) /\ Len(groups) \in Nat
    BY Zenon, SequenceDomain
  <2> HIDE DEF answering, first, Left, answer, route
  <2> QED BY <1>1, <1>3, <1>5, <1>7, <2>1 DEF answering
<1> QED BY Zenon, <1>4, <1>6, <1>7 DEF RoutesInOrder

\* Distributivity, which the provers take in this form only.
LEMMA OneMore ==
  ASSUME NEW k \in Nat, NEW weight \in Nat
  PROVE  (k + 1) * weight = k * weight + weight
  OBVIOUS

\* An interval above a finite set adds its length.
LEMMA UnionCounts ==
  ASSUME NEW S, IsFiniteSet(S), NEW lo \in Nat, NEW hi \in Nat, lo <= hi,
         \A x \in S : x < lo /\ x \in Nat
  PROVE  /\ IsFiniteSet(S \cup (lo..(hi - 1)))
         /\ Cardinality(S \cup (lo..(hi - 1))) = Cardinality(S) + (hi - lo)
<1>1. IsFiniteSet(lo..(hi - 1)) /\ Cardinality(lo..(hi - 1)) = hi - lo
  <2>1. lo \in Int /\ hi - 1 \in Int
    OBVIOUS
  <2>2. /\ IsFiniteSet(lo..(hi - 1))
        /\ Cardinality(lo..(hi - 1)) = IF lo > hi - 1 THEN 0 ELSE (hi - 1) - lo + 1
    BY Zenon, <2>1, FS_Interval
  <2>3. (IF lo > hi - 1 THEN 0 ELSE (hi - 1) - lo + 1) = hi - lo
    OBVIOUS
  <2> QED BY Zenon, <2>2, <2>3
<1>2. S \cap (lo..(hi - 1)) = {}
  OBVIOUS
<1>3. Cardinality(S) \in Nat /\ Cardinality({}) = 0
  BY Zenon, FS_CardinalityType, FS_EmptySet
<1>4. /\ IsFiniteSet(S \cup (lo..(hi - 1)))
      /\ Cardinality(S \cup (lo..(hi - 1))) =
           Cardinality(S) + Cardinality(lo..(hi - 1)) - Cardinality(S \cap (lo..(hi - 1)))
  BY Zenon, <1>1, FS_Union
<1>5. Cardinality(S \cap (lo..(hi - 1))) = 0
  BY Zenon, <1>2, <1>3
<1> QED BY <1>1, <1>3, <1>4, <1>5

\* The slots below the total of the first k weights that positions of P hold.
HeldBy(w, P, k) ==
  {x \in 0..(RunningTotal(w)[k] - 1) : \E i \in P : HoldsSlot(w, x, i)}

\* The slots held up to position k, from those held up to k - 1.
LEMMA HeldByStep ==
  ASSUME NEW w, Weights(w), NEW P, P \subseteq 1..Len(w), NEW k \in 1..Len(w)
  PROVE  /\ k \in P => HeldBy(w, P, k) = HeldBy(w, P, k - 1) \cup
                           (RunningTotal(w)[k - 1]..(RunningTotal(w)[k] - 1))
         /\ k \notin P => HeldBy(w, P, k) = HeldBy(w, P, k - 1)
<1> DEFINE t == RunningTotal(w)
           n == Len(w)
<1>1. /\ n \in Nat /\ t \in [0..n -> Nat] /\ k \in 1..n /\ k - 1 \in 0..n /\ k \in 0..n
  BY Totals DEF Weights
<1>2. t[k - 1] <= t[k] /\ t[k - 1] \in Nat /\ t[k] \in Nat
  <2>1. k - 1 <= k
    BY <1>1
  <2> QED BY Zenon, <1>1, <2>1, TotalsGrow
<1>3. ASSUME NEW x \in Nat
      PROVE  HoldsSlot(w, x, k) <=> t[k - 1] <= x /\ x < t[k]
  BY Zenon DEF HoldsSlot
<1>4. ASSUME NEW x \in Nat, HoldsSlot(w, x, k), NEW i \in 1..n, HoldsSlot(w, x, i)
      PROVE  i = k
  <2>1. /\ \A j \in 1..n : x < t[j] <=> k <= j
        /\ \A j \in 1..n : x < t[j] <=> i <= j
    BY Zenon, <1>4, HolderWeighs
  <2>2. k <= k /\ i <= i /\ i \in Nat /\ k \in Nat
    BY <1>1
  <2>3. k <= i /\ i <= k
    BY Zenon, <2>1, <2>2, <1>1
  <2> QED BY <2>2, <2>3
<1>5. ASSUME NEW x PROVE x \in HeldBy(w, P, k) <=>
        x \in HeldBy(w, P, k - 1) \/ (k \in P /\ x \in t[k - 1]..(t[k] - 1))
  <2>1. CASE x \in 0..(t[k - 1] - 1)
    BY <1>2, <2>1 DEF HeldBy
  <2>2. CASE x \in t[k - 1]..(t[k] - 1)
    <3>1. x \in Nat /\ x \in 0..(t[k] - 1) /\ x \notin 0..(t[k - 1] - 1) /\ HoldsSlot(w, x, k)
      BY <1>2, <1>3, <2>2
    <3>2. (\E i \in P : HoldsSlot(w, x, i)) <=> k \in P
      BY Zenon, <1>4, <3>1
    <3> QED BY Zenon, <2>2, <3>1, <3>2 DEF HeldBy
  <2>3. CASE x \notin 0..(t[k - 1] - 1) /\ x \notin t[k - 1]..(t[k] - 1)
    <3>1. x \notin 0..(t[k] - 1)
      BY <1>2, <2>3
    <3> QED BY Zenon, <2>3, <3>1 DEF HeldBy
  <2> QED BY Zenon, <2>1, <2>2, <2>3
<1> QED BY Zenon, <1>5

\* Positions of the same weight hold as many slots as there are of them, times
\* the weight.
LEMMA SlotsCounted ==
  ASSUME NEW w, Weights(w), NEW P, P \subseteq 1..Len(w), NEW weight \in Nat,
         \A i \in P : w[i] = weight
  PROVE  Cardinality(HeldBy(w, P, Len(w))) = Cardinality(P) * weight
<1>0. ASSUME NEW k \in 1..Len(w)
      PROVE  /\ k \in P => HeldBy(w, P, k) = HeldBy(w, P, k - 1) \cup
                               (RunningTotal(w)[k - 1]..(RunningTotal(w)[k] - 1))
             /\ k \notin P => HeldBy(w, P, k) = HeldBy(w, P, k - 1)
  BY Zenon, HeldByStep
<1> DEFINE t == RunningTotal(w)
           n == Len(w)
           Good(k) == /\ IsFiniteSet(HeldBy(w, P, k))
                      /\ IsFiniteSet(P \cap 1..k)
                      /\ Cardinality(HeldBy(w, P, k)) = Cardinality(P \cap 1..k) * weight
           Bad == {k \in 0..n : ~Good(k)}
<1>1. /\ n \in Nat /\ t \in [0..n -> Nat] /\ t[0] = 0
      /\ \A i \in 1..n : t[i] = t[i - 1] + w[i]
  BY Zenon, Totals DEF Weights
<1>2. Good(0)
  <2>1. HeldBy(w, P, 0) = {} /\ P \cap 1..0 = {}
    BY <1>1 DEF HeldBy
  <2>2. IsFiniteSet({}) /\ Cardinality({}) = 0
    BY Zenon, FS_EmptySet
  <2>3. 0 * weight = 0
    OBVIOUS
  <2> QED BY Zenon, <2>1, <2>2, <2>3
<1>3. ASSUME NEW k \in 1..n, Good(k - 1) PROVE Good(k)
  <2> DEFINE held == HeldBy(w, P, k - 1)
             some == P \cap 1..(k - 1)
  <2>1. /\ k \in P => HeldBy(w, P, k) = held \cup (t[k - 1]..(t[k] - 1))
        /\ k \notin P => HeldBy(w, P, k) = held
    BY Zenon, <1>0
  <2>2. IsFiniteSet(held) /\ IsFiniteSet(some) /\ Cardinality(held) = Cardinality(some) * weight
    BY Zenon, <1>3
  <2>3. /\ t[k - 1] \in Nat /\ t[k] \in Nat /\ t[k] = t[k - 1] + w[k] /\ k \notin some
        /\ Cardinality(some) \in Nat
    <3>1. k - 1 \in 0..n /\ k \in 0..n /\ k \notin 1..(k - 1)
      BY <1>1
    <3> QED BY Zenon, <1>1, <2>2, <3>1, FS_CardinalityType
  <2>4. CASE k \notin P
    <3>1. P \cap 1..k = some
      BY <1>1, <2>4
    <3> QED BY Zenon, <2>1, <2>2, <2>4, <3>1
  <2>5. CASE k \in P
    <3>1. P \cap 1..k = some \cup {k}
      BY <1>1, <2>5
    <3>2. IsFiniteSet(P \cap 1..k) /\ Cardinality(P \cap 1..k) = Cardinality(some) + 1
      <4> HIDE DEF some
      <4>1. IsFiniteSet(some \cup {k}) /\ Cardinality(some \cup {k}) = Cardinality(some) + 1
        BY Zenon, <2>2, <2>3, FS_AddElement
      <4> QED BY Zenon, <3>1, <4>1
    <3>3. \A x \in held : x < t[k - 1] /\ x \in Nat
      BY <2>3 DEF HeldBy
    <3>4. t[k] = t[k - 1] + weight /\ t[k - 1] <= t[k] /\ t[k] - t[k - 1] = weight
      BY <2>3, <2>5
    <3>5. /\ IsFiniteSet(held \cup (t[k - 1]..(t[k] - 1)))
          /\ Cardinality(held \cup (t[k - 1]..(t[k] - 1))) = Cardinality(held) + (t[k] - t[k - 1])
      <4> HIDE DEF held, t
      <4> QED BY Zenon, <2>2, <2>3, <3>3, <3>4, UnionCounts
    <3>6. (Cardinality(some) + 1) * weight = Cardinality(some) * weight + weight
      BY Zenon, <2>3, OneMore
    <3>7. HeldBy(w, P, k) = held \cup (t[k - 1]..(t[k] - 1))
      BY Zenon, <2>1, <2>5
    <3> HIDE DEF held, some, t
    <3>8. IsFiniteSet(HeldBy(w, P, k)) /\ Cardinality(HeldBy(w, P, k)) = Cardinality(P \cap 1..k) * weight
      BY Zenon, <2>2, <3>2, <3>4, <3>5, <3>6, <3>7
    <3> QED BY Zenon, <3>2, <3>8
  <2> QED BY Zenon, <2>4, <2>5
<1> HIDE DEF Good, n
<1>4. Bad = {}
  <2>1. SUFFICES ASSUME Bad # {} PROVE FALSE
    BY Zenon
  <2>2. PICK k \in Bad : \A m \in Bad : k <= m
    <3>1. Bad \subseteq Nat
      BY <1>1
    <3> HIDE DEF Bad
    <3> QED BY Zenon, <2>1, <3>1, LeastNat
  <2>3. k \in 0..n /\ ~Good(k) /\ k # 0
    BY Zenon, <1>2
  <2>4. k \in 1..n /\ k - 1 \in 0..n /\ ~(k <= k - 1)
    BY <1>1, <2>3
  <2>5. Good(k - 1)
    BY Zenon, <2>2, <2>4
  <2> QED BY Zenon, <1>3, <2>3, <2>4, <2>5
<1>5. Good(n)
  <2>1. n \in 0..n
    BY <1>1
  <2> QED BY Zenon, <1>4, <2>1
<1>6. P \cap 1..n = P
  BY Zenon DEF n
<1> QED BY Zenon, <1>5, <1>6 DEF Good, n

\* The open positions of a channel, and the slots it is given in one turn.
OpenOf(s, group, excluded, c) ==
  {i \in DOMAIN s.mappings : IsOpen(s, group, excluded, i) /\ s.mappings[i].channel_id = c}

\* The slots that pick a channel.
SlotsOf(s, group, excluded, c) ==
  {seed \in 0..(TotalWeight(s, group, excluded) - 1) :
     /\ PickInGroup(s, group, seed, excluded) # 0
     /\ s.mappings[PickInGroup(s, group, seed, excluded)].channel_id = c}

\* Over one turn of the seed the slots of a channel are those its positions hold.
LEMMA SlotsOfChannel ==
  ASSUME NEW s, IsSnapshot(s), NEW group, NEW excluded, NEW c
  PROVE  SlotsOf(s, group, excluded, c) =
           HeldBy(OpenWeights(s, group, excluded), OpenOf(s, group, excluded, c), Len(s.mappings))
<1> DEFINE w == OpenWeights(s, group, excluded)
           total == TotalWeight(s, group, excluded)
           At(seed) == PickInGroup(s, group, seed, excluded)
           P == OpenOf(s, group, excluded, c)
<1>1. /\ Weights(w) /\ Len(w) = Len(s.mappings) /\ Len(w) \in Nat
      /\ DOMAIN s.mappings = 1..Len(w)
  BY ZenonT(30), OpenWeightsAreWeights, SequenceDomain DEF IsSnapshot
<1>2. total = RunningTotal(w)[Len(w)] /\ total \in Nat
  BY Zenon, <1>1, AvailableIsTotal, TotalWeightShows DEF TotalWeight
<1>3. ASSUME NEW seed \in 0..(total - 1)
      PROVE  /\ At(seed) # 0 /\ At(seed) \in 1..Len(w)
             /\ IsOpen(s, group, excluded, At(seed)) /\ HoldsSlot(w, seed, At(seed))
  <2>1. seed \in Nat /\ total # 0 /\ seed % total = seed
    BY <1>2
  <2> QED BY Zenon, <1>1, <2>1, PickInGroupIs
<1>4. ASSUME NEW seed \in 0..(total - 1), NEW i \in 1..Len(w), HoldsSlot(w, seed, i)
      PROVE  i = At(seed)
  <2> DEFINE j == At(seed)
  <2>1. seed \in Nat /\ j \in 1..Len(w) /\ HoldsSlot(w, seed, j)
    BY <1>2, <1>3
  <2> HIDE DEF w, j
  <2>2. /\ \A k \in 1..Len(w) : seed < RunningTotal(w)[k] <=> i <= k
        /\ \A k \in 1..Len(w) : seed < RunningTotal(w)[k] <=> j <= k
    BY Zenon, <1>1, <1>4, <2>1, HolderWeighs
  <2>3. i <= i /\ j <= j /\ i \in Nat /\ j \in Nat
    BY <1>1, <2>1
  <2>4. i <= j /\ j <= i
    BY Zenon, <2>1, <2>2, <2>3
  <2>5. i = j
    BY <2>3, <2>4
  <2> QED BY Zenon, <2>5 DEF j
<1> HIDE DEF At, w, total
<1>5. ASSUME NEW seed \in 0..(total - 1)
      PROVE  (At(seed) # 0 /\ s.mappings[At(seed)].channel_id = c)
               <=> \E i \in P : HoldsSlot(w, seed, i)
  <2>1. (\E i \in P : HoldsSlot(w, seed, i)) <=> At(seed) \in P
    BY Zenon, <1>1, <1>3, <1>4 DEF OpenOf
  <2> QED BY Zenon, <1>1, <1>3, <2>1 DEF OpenOf
<1>6. {seed \in 0..(total - 1) : At(seed) # 0 /\ s.mappings[At(seed)].channel_id = c}
      = HeldBy(w, P, Len(w))
  BY Zenon, <1>2, <1>5 DEF HeldBy
<1> QED BY Zenon, <1>1, <1>6 DEF At, w, total, SlotsOf

\* Whatever the snapshot and the channels that have failed, a turn of the seed
\* gives each usable channel of a group that has not failed as many slots as it
\* weighs, and the others none.
THEOREM RoutingByWeight ==
  ASSUME NEW s, IsSnapshot(s), NEW group, NEW excluded
  PROVE  SharesByWeight(s, group, excluded)
<1> DEFINE w == OpenWeights(s, group, excluded)
           total == TotalWeight(s, group, excluded)
           At(seed) == PickInGroup(s, group, seed, excluded)
           open == UsableIn(s, group) \ excluded
           Slots(c) == SlotsOf(s, group, excluded, c)
           P(c) == OpenOf(s, group, excluded, c)
<1>1. /\ Weights(w) /\ Len(w) = Len(s.mappings) /\ Len(w) \in Nat
      /\ DOMAIN s.mappings = 1..Len(w)
      /\ \A i \in DOMAIN s.mappings : w[i] = OpenWeight(s, group, excluded, i)
  BY Zenon, OpenWeightsAreWeights, SequenceDomain DEF IsSnapshot
<1>2. total \in Nat /\ (total # 0 <=> \E i \in DOMAIN s.mappings : IsOpen(s, group, excluded, i))
  BY Zenon, TotalWeightShows
<1>3. \A c : c \in open <=> P(c) # {}
  <2>1. \A c : c \in open <=>
          \E i \in DOMAIN s.mappings :
            IsOpen(s, group, excluded, i) /\ s.mappings[i].channel_id = c
    BY Zenon, OpenIsUsable
  <2> QED BY Zenon, <2>1 DEF OpenOf
<1>4. total = 0 <=> open = {}
  <2> HIDE DEF open, total
  <2> QED BY Zenon, <1>2, <1>3 DEF OpenOf
<1>5. ASSUME NEW seed \in 0..(total - 1) PROVE At(seed) # 0
  <2>1. seed \in Nat /\ total # 0
    BY <1>2
  <2> QED BY Zenon, <2>1, PickInGroupIs
<1>6. \A c : Slots(c) = HeldBy(w, P(c), Len(w))
  BY Zenon, <1>1, SlotsOfChannel
<1>7. ASSUME NEW c \in open PROVE Cardinality(Slots(c)) = Share(s, group, c)
  <2> DEFINE weight == Min1(s.channels[c].weight)
  <2>1. weight \in Nat /\ \A i \in P(c) : w[i] = weight
    <3>1. c \in DOMAIN s.channels
      BY Zenon DEF UsableIn
    <3>2. weight \in Nat
      BY Zenon, <3>1 DEF IsSnapshot, Min1
    <3>3. \A i \in P(c) : w[i] = weight
      BY Zenon, <1>1 DEF OpenWeight, OpenOf
    <3> QED BY Zenon, <3>2, <3>3
  <2>2. Cardinality(HeldBy(w, P(c), Len(w))) = Cardinality(P(c)) * weight
    <3>1. P(c) \subseteq 1..Len(w)
      BY Zenon, <1>1 DEF OpenOf
    <3> HIDE DEF w, P, weight
    <3> QED BY Zenon, <1>1, <2>1, <3>1, SlotsCounted
  <2>3. P(c) = {i \in DOMAIN s.mappings :
                  /\ s.mappings[i].channel_id = c
                  /\ c \in UsableIn(s, group)
                  /\ Serves(s.channels[c], s.mappings[i])}
    BY Zenon DEF OpenOf, IsOpen, IsCandidate, EnabledIn, Known, UsableIn
  <2>4. Cardinality(P(c)) = Offers(s, group, c)
    BY Zenon, <2>3 DEF Offers
  <2> QED BY Zenon, <1>6, <2>2, <2>4 DEF Share
<1>8. ASSUME NEW c \in excluded PROVE Slots(c) = {}
  <2>1. P(c) = {}
    BY Zenon DEF OpenOf, IsOpen
  <2> QED BY Zenon, <1>6, <2>1 DEF HeldBy
<1> QED BY Zenon, <1>4, <1>5, <1>7, <1>8 DEF SharesByWeight, SlotsOf

(***************************************************************************)
(* Route selection over the snapshots of RoutingCases.                     *)
(***************************************************************************)

\* The fields of a channel.
LEMMA ChannelFields ==
  ASSUME NEW e, NEW w, NEW m, NEW g, NEW n
  PROVE  Channel(e, w, m, g, n).weight = w /\ Channel(e, w, m, g, n).keys = n
  BY Zenon DEF Channel

\* The snapshots that routing is checked with are snapshots, and the groups of the
\* token a sequence.
LEMMA RoutedAreSnapshots ==
  ASSUME NEW s \in RoutedSnapshots
  PROVE  IsSnapshot(s) /\ IsSequence(Groups)
<1> DEFINE settings == {Channel(e, w, m, g, 1) :
                          e \in BOOLEAN, w \in 0..2, m \in {{}, {"x"}},
                          g \in {{"vip"}, {"all"}, {"vip", "all"}}}
<1>1. /\ s.channels \in [{a, b} -> settings]
      /\ s.mappings \in {<<>>, <<Mapping(b, "x")>>, <<Mapping(gone, "x")>>,
                         <<Mapping(a, "y"), Mapping(b, "x"), Mapping(a, "x")>>}
  BY DEF RoutedSnapshots
<1>2. ASSUME NEW c \in settings PROVE c.weight \in Nat /\ c.keys \in Nat \ {0}
  <2>1. c.weight \in 0..2 /\ c.keys = 1
    BY SMT, <1>2, ChannelFields
  <2> QED BY <2>1
<1> HIDE DEF settings
<1>3. \A c \in DOMAIN s.channels :
        s.channels[c].weight \in Nat /\ s.channels[c].keys \in Nat \ {0}
  BY Zenon, <1>1, <1>2
<1>4. ASSUME NEW x, NEW y, NEW z
      PROVE  IsSequence(<<>>) /\ IsSequence(<<x>>) /\ IsSequence(<<x, y>>) /\ IsSequence(<<x, y, z>>)
  BY DEF IsSequence
<1>5. IsSequence(s.mappings)
  <2>1. CASE s.mappings = <<>>
    BY Zenon, <1>4, <2>1
  <2>2. CASE s.mappings = <<Mapping(b, "x")>>
    BY Zenon, <1>4, <2>2
  <2>3. CASE s.mappings = <<Mapping(gone, "x")>>
    BY Zenon, <1>4, <2>3
  <2>4. CASE s.mappings = <<Mapping(a, "y"), Mapping(b, "x"), Mapping(a, "x")>>
    BY Zenon, <1>4, <2>4
  <2> QED BY Zenon, <1>1, <2>1, <2>2, <2>3, <2>4
<1>6. IsSequence(Groups)
  BY Zenon, <1>4 DEF Groups
<1> QED BY Zenon, <1>3, <1>5, <1>6 DEF IsSnapshot

\* route_weighted_excluding shares out by weight and in the order of the groups:
\* what RoutingByWeight and RoutingInOrder prove of every snapshot, for those
\* that the runs take.
THEOREM RoutingAlwaysFair == RoutingIsFair
<1> SUFFICES ASSUME routed \in RoutedSnapshots, NEW excluded
             PROVE  /\ \A g \in DOMAIN Groups : SharesByWeight(routed, Groups[g], excluded)
                    /\ \A seed \in 0..6 : RoutesInOrder(routed, Groups, seed, excluded)
  BY Zenon DEF RoutingIsFair
<1>1. IsSnapshot(routed) /\ IsSequence(Groups)
  BY Zenon, RoutedAreSnapshots
<1>2. \A seed \in 0..6 : seed \in Nat
  BY SMT
<1> QED BY Zenon, <1>1, <1>2, RoutingByWeight, RoutingInOrder

-----------------------------------------------------------------------------
(***************************************************************************)
(* The circuit breaker never loses its probe and never opens early, for    *)
(* any threshold.                                                          *)
(***************************************************************************)

\* A breaker with threshold zero hands out no permit that could count.
DisabledCountsNothing ==
  failure_threshold = 0 => \A c \in Calls : permit[c] \notin Routes

\* The inductive invariant: OpenIsEarned needs to know that with threshold zero
\* nothing is ever counted, for there the first failure would open.
CircuitInv == CircuitTypeOK /\ HalfOpenHasProbe /\ DisabledCountsNothing /\ OpenIsEarned

\* The three shapes of an entry of `states`.
LEMMA StateShapes ==
  /\ \A n \in 0..MaxStreak : Closed(n) \in CircuitState
  /\ Open \in CircuitState /\ HalfOpen \in CircuitState
  /\ \A n : Closed(n).state = "closed" /\ Closed(n).failures = n
  /\ Open.state = "open" /\ Open.cooling = TRUE /\ HalfOpen.state = "half_open"
  BY Zenon DEF CircuitState, Closed, Open, HalfOpen

\* What a failed call leaves behind, when the counts are right: an open circuit
\* with the threshold reached, or a closed one that counts this failure too.
LEMMA FailureEarnsOpening ==
  ASSUME CircuitInv, NEW k \in Routes, failure_threshold # 0
  PROVE  /\ AfterFailure(k) \in CircuitState
         /\ Count(k) \in 0..MaxStreak
         /\ AfterFailure(k).state # "half_open"
         /\ IF AfterFailure(k).state = "closed"
              THEN /\ AfterFailure(k).failures = Count(k)
                   /\ Count(k) < failure_threshold
              ELSE Count(k) >= failure_threshold
<1> USE ProxyCircuitAssumption
<1>1. /\ streak[k] \in 0..MaxStreak /\ failure_threshold \in 0..MaxStreak
      /\ circuit[k] \in CircuitState
  BY Zenon DEF CircuitInv, CircuitTypeOK
<1>2. Count(k) \in 0..MaxStreak
  BY <1>1 DEF Count
<1>3. CASE circuit[k].state = "closed"
  <2>1. circuit[k].failures = streak[k] /\ streak[k] < failure_threshold
    BY Zenon, <1>3 DEF CircuitInv, OpenIsEarned
  <2>2. FailureCount(k) = streak[k] + 1 /\ Count(k) = streak[k] + 1
    BY <1>1, <1>3, <2>1 DEF FailureCount, Count
  <2>3. CASE streak[k] + 1 >= failure_threshold
    <3>1. AfterFailure(k) = Open
      BY Zenon, <2>2, <2>3 DEF AfterFailure
    <3> QED BY Zenon, <1>2, <2>2, <2>3, <3>1, StateShapes
  <2>4. CASE ~(streak[k] + 1 >= failure_threshold)
    <3>1. AfterFailure(k) = Closed(streak[k] + 1)
      BY Zenon, <2>2, <2>4 DEF AfterFailure
    <3>2. streak[k] + 1 \in 0..MaxStreak /\ streak[k] + 1 < failure_threshold
      BY <1>1, <2>4
    <3> QED BY Zenon, <1>2, <2>2, <3>1, <3>2, StateShapes
  <2> QED BY Zenon, <2>3, <2>4
<1>4. CASE circuit[k].state # "closed"
  <2>1. streak[k] >= failure_threshold
    BY Zenon, <1>4 DEF CircuitInv, OpenIsEarned
  <2>2. FailureCount(k) = failure_threshold
    BY Zenon, <1>4 DEF FailureCount
  <2>3. AfterFailure(k) = Open
    BY <1>1, <2>2 DEF AfterFailure
  <2>4. Count(k) >= failure_threshold
    BY <1>1, <2>1 DEF Count
  <2> QED BY Zenon, <1>2, <2>3, <2>4, StateShapes
<1> QED BY Zenon, <1>3, <1>4

\* The breaker starts with no entries and no permits.
LEMMA CircuitInitInv == CircuitInit => CircuitInv
<1> SUFFICES ASSUME CircuitInit PROVE CircuitInv
  BY Zenon
<1> USE ProxyCircuitAssumption, RoutesAreKeys DEF CircuitInit
<1>1. CircuitTypeOK
  BY StateShapes DEF CircuitTypeOK
<1>2. HalfOpenHasProbe /\ OpenIsEarned
  BY StateShapes DEF HalfOpenHasProbe, OpenIsEarned
<1>3. DisabledCountsNothing
  BY Zenon DEF DisabledCountsNothing, NoPermit
<1> QED BY Zenon, <1>1, <1>2, <1>3 DEF CircuitInv

\* A call that returns a counted permit moves its own key to a state that is
\* not half-open, and leaves every other key and permit alone.
LEMMA ReturnKeepsInv ==
  ASSUME CircuitInv, NEW c \in Calls, permit[c] \in Routes,
         NEW s \in CircuitState, s.state # "half_open", NEW n \in 0..MaxStreak,
         circuit' = [circuit EXCEPT ![permit[c]] = s],
         streak' = [streak EXCEPT ![permit[c]] = n],
         permit' = [permit EXCEPT ![c] = NoPermit],
         UNCHANGED <<failure_threshold, outage>>,
         IF s.state = "closed"
           THEN s.failures = n /\ (failure_threshold # 0 => n < failure_threshold)
           ELSE n >= failure_threshold
  PROVE  CircuitInv'
<1> USE RoutesAreKeys
<1>1. CircuitTypeOK'
  BY Zenon DEF CircuitInv, CircuitTypeOK
<1>2. HalfOpenHasProbe'
  <2> SUFFICES ASSUME NEW k \in Routes, circuit'[k].state = "half_open"
               PROVE  \E d \in Calls : permit'[d] = k
    BY Zenon DEF HalfOpenHasProbe
  <2>1. k # permit[c] /\ circuit[k].state = "half_open"
    BY Zenon DEF CircuitInv, CircuitTypeOK
  <2>2. PICK d \in Calls : permit[d] = k
    BY Zenon, <2>1 DEF CircuitInv, HalfOpenHasProbe
  <2>3. d # c
    BY Zenon, <2>1, <2>2
  <2> QED BY Zenon, <2>2, <2>3 DEF CircuitInv, CircuitTypeOK
<1>3. DisabledCountsNothing'
  BY Zenon DEF CircuitInv, CircuitTypeOK, DisabledCountsNothing, NoPermit
<1>4. OpenIsEarned'
  <2> SUFFICES ASSUME NEW k \in Routes
               PROVE  IF circuit'[k].state = "closed"
                        THEN /\ circuit'[k].failures = streak'[k]
                             /\ failure_threshold' # 0 => streak'[k] < failure_threshold'
                        ELSE streak'[k] >= failure_threshold'
    BY Zenon DEF OpenIsEarned
  <2>1. CASE k = permit[c]
    BY Zenon, <2>1 DEF CircuitInv, CircuitTypeOK
  <2>2. CASE k # permit[c]
    BY Zenon, <2>2 DEF CircuitInv, CircuitTypeOK, OpenIsEarned
  <2> QED BY Zenon, <2>1, <2>2
<1> QED BY Zenon, <1>1, <1>2, <1>3, <1>4 DEF CircuitInv

\* Every call of the breaker keeps the inductive invariant.
LEMMA CircuitNextInv == CircuitInv /\ [CircuitNext]_circuit_vars => CircuitInv'
<1> SUFFICES ASSUME CircuitInv, [CircuitNext]_circuit_vars PROVE CircuitInv'
  BY Zenon
<1> USE RoutesAreKeys, ProxyCircuitAssumption
<1>1. CASE UNCHANGED circuit_vars
  BY Zenon, <1>1 DEF circuit_vars, CircuitInv, CircuitTypeOK, HalfOpenHasProbe,
              DisabledCountsNothing, OpenIsEarned
<1>2. ASSUME NEW c \in Calls, NEW k \in Routes, Acquire(c, k) PROVE CircuitInv'
  <2>1. CASE failure_threshold = 0
    <3>1. /\ permit[c] = NoPermit /\ permit' = [permit EXCEPT ![c] = DisabledPermit]
          /\ UNCHANGED <<failure_threshold, circuit, outage, streak>>
      BY Zenon, <1>2, <2>1 DEF Acquire
    <3>2. CircuitTypeOK' /\ DisabledCountsNothing'
      BY Zenon, <3>1 DEF CircuitInv, CircuitTypeOK, DisabledCountsNothing, DisabledPermit
    <3>3. HalfOpenHasProbe'
      BY Zenon, <3>1 DEF CircuitInv, CircuitTypeOK, HalfOpenHasProbe, NoPermit
    <3>4. OpenIsEarned'
      BY Zenon, <3>1 DEF CircuitInv, OpenIsEarned
    <3> QED BY Zenon, <3>2, <3>3, <3>4 DEF CircuitInv
  <2>2. CASE failure_threshold # 0
    <3>1. /\ permit[c] = NoPermit /\ permit' = [permit EXCEPT ![c] = k]
          /\ circuit' = [circuit EXCEPT ![k] = Probing(k)]
          /\ UNCHANGED <<failure_threshold, outage, streak>>
      BY Zenon, <1>2, <2>2 DEF Acquire
    <3>2. Probing(k) = circuit[k] \/ (circuit[k].state = "open" /\ Probing(k) = HalfOpen)
      BY Zenon DEF Probing
    <3>3. CircuitTypeOK'
      BY Zenon, <3>1, <3>2, StateShapes DEF CircuitInv, CircuitTypeOK
    <3>4. HalfOpenHasProbe'
      BY Zenon, <3>1 DEF CircuitInv, CircuitTypeOK, HalfOpenHasProbe, NoPermit
    <3>5. DisabledCountsNothing'
      BY Zenon, <2>2, <3>1 DEF DisabledCountsNothing
    <3>6. OpenIsEarned'
      BY ZenonT(30), <3>1, <3>2, StateShapes DEF CircuitInv, CircuitTypeOK, OpenIsEarned
    <3> QED BY Zenon, <3>3, <3>4, <3>5, <3>6 DEF CircuitInv
  <2> QED BY Zenon, <2>1, <2>2
<1>3. ASSUME NEW c \in Calls, Success(c) PROVE CircuitInv'
  <2>1. failure_threshold # 0 /\ failure_threshold \in Nat
    BY <1>3 DEF Success, CircuitInv, CircuitTypeOK, DisabledCountsNothing
  <2>2. Closed(0) \in CircuitState /\ 0 \in 0..MaxStreak
    BY StateShapes
  <2>3. /\ Closed(0).state # "half_open" /\ Closed(0).failures = 0
        /\ 0 < failure_threshold
    BY <2>1, StateShapes
  <2>4. /\ permit[c] \in Routes
        /\ circuit' = [circuit EXCEPT ![permit[c]] = Closed(0)]
        /\ streak' = [streak EXCEPT ![permit[c]] = 0]
        /\ permit' = [permit EXCEPT ![c] = NoPermit]
        /\ UNCHANGED <<failure_threshold, outage>>
    BY Zenon, <1>3 DEF Success, Release
  <2>5. IF Closed(0).state = "closed"
          THEN Closed(0).failures = 0 /\ (failure_threshold # 0 => 0 < failure_threshold)
          ELSE 0 >= failure_threshold
    BY Zenon, <2>3, StateShapes
  <2> HIDE ProxyCircuitAssumption, RoutesAreKeys
  <2> QED BY Zenon, <2>2, <2>3, <2>4, <2>5, ReturnKeepsInv
<1>4. ASSUME NEW c \in Calls, permit[c] \in Routes, Fails(c) PROVE CircuitInv'
  <2>1. failure_threshold # 0
    BY Zenon, <1>4 DEF CircuitInv, DisabledCountsNothing
  <2> QED BY Zenon, <1>4, <2>1, FailureEarnsOpening, ReturnKeepsInv DEF Fails, Release
<1>5. ASSUME NEW c \in Calls, EndsUncounted(c) PROVE CircuitInv'
  <2>1. /\ permit[c] \notin Routes /\ permit' = [permit EXCEPT ![c] = NoPermit]
        /\ UNCHANGED <<failure_threshold, circuit, outage, streak>>
    BY Zenon, <1>5 DEF EndsUncounted, Release
  <2>2. CircuitTypeOK' /\ DisabledCountsNothing'
    BY Zenon, <2>1 DEF CircuitInv, CircuitTypeOK, DisabledCountsNothing, NoPermit
  <2>3. HalfOpenHasProbe'
    BY Zenon, <2>1 DEF CircuitInv, CircuitTypeOK, HalfOpenHasProbe
  <2>4. OpenIsEarned'
    BY Zenon, <2>1 DEF CircuitInv, OpenIsEarned
  <2> QED BY Zenon, <2>2, <2>3, <2>4 DEF CircuitInv
<1>6. ASSUME NEW k \in Routes, CooldownElapses(k) PROVE CircuitInv'
  <2>1. /\ circuit[k] \in [state : {"open"}, cooling : BOOLEAN]
        /\ circuit' = [circuit EXCEPT ![k].cooling = FALSE]
        /\ UNCHANGED <<failure_threshold, permit, outage, streak>>
    BY Zenon, <1>6 DEF CooldownElapses, CoolingDown, CircuitInv, CircuitTypeOK, CircuitState
  <2>2. /\ circuit'[k] \in [state : {"open"}, cooling : BOOLEAN]
        /\ \A j \in Routes : j # k => circuit'[j] = circuit[j]
    BY Zenon, <2>1 DEF CircuitInv, CircuitTypeOK
  <2>3. CircuitTypeOK'
    BY Zenon, <2>1, <2>2 DEF CircuitInv, CircuitTypeOK, CircuitState
  <2>4. HalfOpenHasProbe' /\ DisabledCountsNothing'
    BY Zenon, <2>1, <2>2 DEF CircuitInv, HalfOpenHasProbe, DisabledCountsNothing
  <2>5. OpenIsEarned'
    BY Zenon, <2>1, <2>2 DEF CircuitInv, OpenIsEarned
  <2> QED BY Zenon, <2>3, <2>4, <2>5 DEF CircuitInv
<1>7. ASSUME NEW k \in Routes, OutageBegins(k) \/ OutageEnds(k) PROVE CircuitInv'
  BY <1>7 DEF OutageBegins, OutageEnds, CircuitInv, CircuitTypeOK, HalfOpenHasProbe,
              DisabledCountsNothing, OpenIsEarned
<1> QED BY Zenon, <1>1, <1>2, <1>3, <1>4, <1>5, <1>6, <1>7
        DEF CircuitNext, Ends, Failure, Dropped

\* Every reachable state of the circuit breaker satisfies the invariant.
THEOREM CircuitInvariant == CircuitSpec => []CircuitInv
  BY CircuitInitInv, CircuitNextInv, PTL DEF CircuitSpec

\* A half-open circuit always has a call in flight that will decide it, whatever
\* happens to the permits taken before it opened (acquire, record_success,
\* record_failure and the drop of a permit).
THEOREM ProbeIsNeverLost == CircuitSpec => []HalfOpenHasProbe
  BY CircuitInvariant, PTL DEF CircuitInv

\* A circuit opens only after the configured number of failures in a row
\* (record_failure).
THEOREM OpeningIsEarned == CircuitSpec => []OpenIsEarned
  BY CircuitInvariant, PTL DEF CircuitInv

-----------------------------------------------------------------------------
(***************************************************************************)
(* The handler of a request and its retry loop.                            *)
(***************************************************************************)

\* A reservation and its report: the worker knows of the one it holds from the
\* grant on, and reports it when it is done.
Accounted(r) ==
  /\ request[r].pc \in {"new", "reserve"} =>
       r \notin reserved /\ ~request[r].lost /\ ~request[r].pre_consumed
  /\ request[r].pc = "granted" =>
       r \in reserved /\ ~request[r].lost /\ ~request[r].pre_consumed
  /\ request[r].pc \in {"attempt", "in_flight", "stream"} =>
       r \in reserved /\ ~request[r].lost /\ request[r].pre_consumed
  /\ usage[r] = IF request[r].pc = "done" /\ r \in reserved /\ ~request[r].lost
                  THEN <<[channel |-> request[r].channel, pre_consumed |-> TRUE]>>
                  ELSE <<>>

\* The attempts so far: none before the grant; in the loop as many as the counter
\* says, and none that ended the loop; and the last is the channel the request
\* is on once it has left the loop.  Affinity is of the first attempt.
Looping(r) ==
  /\ request[r].pc \in {"new", "reserve", "granted"} =>
       tried[r] = <<>> /\ request[r].attempt = 0 /\ request[r].excluded = {}
  /\ request[r].pc \in {"reserve", "granted", "attempt", "in_flight", "stream"} =>
       request[r].channel \in Channels
  /\ request[r].pc \in {"attempt", "in_flight"} =>
       /\ Len(tried[r]) = request[r].attempt /\ request[r].attempt < MaxUpstreamAttempts
       /\ \A i \in DOMAIN tried[r] : ~tried[r][i].once /\ tried[r][i].status # "success"
  /\ request[r].pc = "stream" \/ usage[r] # <<>> =>
       tried[r] # <<>> /\ tried[r][Len(tried[r])].channel = request[r].channel
  /\ request[r].sticky => request[r].attempt = 0 /\ Session[r] # NoSession
  /\ request[r].once => request[r].attempt = 0

\* Whether a retry went elsewhere, for one request.
Elsewhere(r) ==
  /\ request[r].channel \in request[r].excluded => ~request[r].alternative
  /\ \A i \in DOMAIN tried[r] : tried[r][i].once => Len(tried[r]) = 1

\* Whether the feedback is that of the attempts, for one request.
Exact(r) ==
  /\ Len(feedback[r]) = Blamings(tried[r], Len(tried[r]))
  /\ \A i \in DOMAIN tried[r] :
       tried[r][i].blamed =>
         feedback[r][Blamings(tried[r], i)] =
           [channel |-> tried[r][i].channel, key |-> tried[r][i].key]

\* The requests that have taken a routing key.
Begun == {r \in Requests : request[r].pc # "new"}

\* A session is pinned only to a channel that served one of its requests at the
\* first attempt: a retry has no affinity to record.
PinnedAtFirst ==
  \A s \in Sessions :
    pins[s] # NoChannel =>
      \E r \in Requests :
        /\ Session[r] = s
        /\ Len(tried[r]) = 1
        /\ tried[r][1].channel = pins[s] /\ tried[r][1].status = "success"

\* The inductive invariant of the request path.
RequestInv ==
  /\ RequestTypeOK
  /\ next_key = Cardinality(Begun)
  /\ \A r \in Requests : Accounted(r) /\ Looping(r) /\ Elsewhere(r) /\ Exact(r)
  /\ PinnedAtFirst

-----------------------------------------------------------------------------
\* A weighted route is found exactly when a usable channel is not excluded, and it
\* is one of those.
LEMMA RoutedChannel ==
  ASSUME NEW s, IsSnapshot(s), NEW groups, IsSequence(groups), NEW seed \in Nat, NEW excluded
  PROVE  LET route == RouteWeighted(s, groups, seed, excluded)
         IN  /\ route.ok <=> Usable(s, groups) \ excluded # {}
             /\ route.ok => route.channel \in DOMAIN s.channels /\ route.channel \notin excluded
<1> DEFINE route == RouteWeighted(s, groups, seed, excluded)
           LeftOf(g) == UsableIn(s, groups[g]) \ excluded
<1>1. /\ route.ok <=> \E g \in DOMAIN groups : LeftOf(g) # {}
      /\ route.ok => \E g \in DOMAIN groups : route.channel \in LeftOf(g)
  <2>1. RoutesInOrder(s, groups, seed, excluded)
    BY Zenon, RoutingInOrder
  <2> QED BY Zenon, <2>1 DEF RoutesInOrder
<1> HIDE DEF route
<1>2. (\E g \in DOMAIN groups : LeftOf(g) # {}) <=> Usable(s, groups) \ excluded # {}
  BY Zenon DEF Usable
<1>3. ASSUME NEW g \in DOMAIN groups, route.channel \in LeftOf(g)
      PROVE  route.channel \in DOMAIN s.channels /\ route.channel \notin excluded
  BY Zenon, <1>3 DEF UsableIn
<1>4. /\ route.ok <=> Usable(s, groups) \ excluded # {}
      /\ route.ok => route.channel \in DOMAIN s.channels /\ route.channel \notin excluded
  BY Zenon, <1>1, <1>2, <1>3
<1> QED BY Zenon, <1>4 DEF route

\* A route to a channel the token names is to that channel.
LEMMA SpecificChannel ==
  ASSUME NEW s, IsSnapshot(s), NEW groups, NEW c, RouteSpecific(s, groups, c).ok
  PROVE  RouteSpecific(s, groups, c).channel = c /\ c \in DOMAIN s.channels
<1> DEFINE naming == {i \in DOMAIN s.mappings : s.mappings[i].channel_id = c}
<1>1. naming # {} => First(naming) \in naming
  <2>1. naming \subseteq Nat
    BY SequenceDomain DEF IsSnapshot
  <2> HIDE DEF naming
  <2> QED BY Zenon, <2>1, FirstIsLeast
<1>2. /\ naming # {} /\ c \in DOMAIN s.channels
      /\ RouteSpecific(s, groups, c).channel = s.mappings[First(naming)].channel_id
  BY Zenon DEF RouteSpecific, Routed, Failed
<1> QED BY Zenon, <1>1, <1>2

\* The index of the selected API key is a number.
LEMMA ApiKeyIsNat ==
  ASSUME NEW s, IsSnapshot(s), NEW c \in DOMAIN s.channels, NEW seed \in Nat
  PROVE  SelectApiKey(s, c, seed) \in Nat
  BY DEF SelectApiKey, IsSnapshot

-----------------------------------------------------------------------------
USE GatewayRequestAssumption

\* A request that has not begun is well formed.
LEMMA NewRequestOK ==
  NewRequest \in Request
  BY DEF NewRequest, Request

\* The invariant holds before the first request.
LEMMA RequestInit_Inv == RequestInit => RequestInv
<1> SUFFICES ASSUME RequestInit PROVE RequestInv
  BY Zenon
<1>1. ASSUME NEW r \in Requests
      PROVE  /\ request[r] = NewRequest /\ usage[r] = <<>> /\ feedback[r] = <<>> /\ tried[r] = <<>>
             /\ Len(<<>>) = 0
  BY Zenon DEF RequestInit
<1>2. Begun = {}
  BY <1>1 DEF Begun, NewRequest
<1>3. Cardinality({}) = 0 /\ Cardinality(Requests) \in Nat
  BY Zenon, FS_EmptySet, FS_CardinalityType
<1>4. RequestTypeOK
  <2>1. ASSUME NEW r \in Requests
        PROVE  /\ usage[r] \in Seq([channel : Channels, pre_consumed : BOOLEAN])
               /\ feedback[r] \in Seq([channel : Channels, key : Nat])
               /\ tried[r] \in Seq(Attempt) /\ Len(tried[r]) <= MaxUpstreamAttempts
    <3>1. /\ <<>> \in Seq([channel : Channels, pre_consumed : BOOLEAN])
          /\ <<>> \in Seq([channel : Channels, key : Nat])
          /\ <<>> \in Seq(Attempt)
      OBVIOUS
    <3>2. 0 <= MaxUpstreamAttempts
      OBVIOUS
    <3> QED BY Zenon, <1>1, <3>1, <3>2
  <2>2. /\ usage \in [Requests -> Seq([channel : Channels, pre_consumed : BOOLEAN])]
        /\ feedback \in [Requests -> Seq([channel : Channels, key : Nat])]
        /\ tried \in [Requests -> Seq(Attempt)]
    BY Zenon, <2>1 DEF RequestInit
  <2> QED BY <1>3, <2>1, <2>2, NewRequestOK DEF RequestInit, RequestTypeOK
<1>5. ASSUME NEW r \in Requests PROVE Accounted(r) /\ Looping(r) /\ Elsewhere(r) /\ Exact(r)
  <2>1. Blamings(<<>>, 0) = 0
    <3>1. {i \in 1..0 : <<>>[i].blamed} = {}
      OBVIOUS
    <3> QED BY Zenon, <1>3, <3>1 DEF Blamings
  <2>2. Accounted(r)
    BY Zenon, <1>1 DEF Accounted, NewRequest, RequestInit
  <2>3. Looping(r)
    BY <1>1 DEF Looping, NewRequest
  <2>4. Elsewhere(r)
    BY <1>1 DEF Elsewhere, NewRequest
  <2>5. Exact(r)
    BY <1>1, <2>1 DEF Exact
  <2> QED BY Zenon, <2>2, <2>3, <2>4, <2>5
<1>6. PinnedAtFirst
  BY Zenon DEF RequestInit, PinnedAtFirst
<1> QED BY Zenon, <1>2, <1>3, <1>4, <1>5, <1>6 DEF RequestInit, RequestInv

\* What the steps of one request leave of the others.
OnlyMoves(r) ==
  \A q \in Requests \ {r} :
    /\ request'[q] = request[q] /\ usage'[q] = usage[q]
    /\ feedback'[q] = feedback[q] /\ tried'[q] = tried[q]
    /\ q \in reserved' <=> q \in reserved

\* A step that touches one request has to keep the invariant of that one.
LEMMA OneRequestMoves ==
  ASSUME RequestInv, NEW r \in Requests, OnlyMoves(r),
         RequestTypeOK', next_key' = Cardinality(Begun)',
         Accounted(r)', Looping(r)', Elsewhere(r)', Exact(r)', PinnedAtFirst'
  PROVE  RequestInv'
<1>1. ASSUME NEW q \in Requests PROVE Accounted(q)' /\ Looping(q)' /\ Elsewhere(q)' /\ Exact(q)'
  <2>1. CASE q = r
    BY Zenon, <2>1
  <2>2. CASE q # r
    <3>1. Accounted(q) /\ Looping(q) /\ Elsewhere(q) /\ Exact(q)
      BY Zenon DEF RequestInv
    <3>2. /\ request'[q] = request[q] /\ usage'[q] = usage[q]
          /\ feedback'[q] = feedback[q] /\ tried'[q] = tried[q]
          /\ q \in reserved' <=> q \in reserved
      BY Zenon, <2>2 DEF OnlyMoves
    <3>3. Accounted(q)'
      BY Zenon, <3>1, <3>2 DEF Accounted
    <3>4. Looping(q)'
      BY Zenon, <3>1, <3>2 DEF Looping
    <3>5. Elsewhere(q)'
      BY Zenon, <3>1, <3>2 DEF Elsewhere
    <3>6. Exact(q)'
      BY Zenon, <3>1, <3>2 DEF Exact
    <3> QED BY Zenon, <3>3, <3>4, <3>5, <3>6
  <2> QED BY Zenon, <2>1, <2>2
<1> QED BY Zenon, <1>1 DEF RequestInv

\* Pins stay earned while no attempt is added and none is pinned anew.
LEMMA PinsStayEarned ==
  ASSUME PinnedAtFirst, UNCHANGED tried, \A s \in Sessions : pins'[s] \in {pins[s], NoChannel}
  PROVE  PinnedAtFirst'
  BY DEF PinnedAtFirst

\* A step of a request up to its call: only where it is, and what it knows of its
\* reservation, changes.
WaitStep(r, q) ==
  /\ \/ request[r].pc = "reserve" /\ q.pc \in {"granted", "done"}
     \/ request[r].pc = "granted" /\ q.pc \in {"attempt", "done"}
     \/ request[r].pc = "attempt" /\ q.pc = "in_flight"
  /\ q.channel = request[r].channel /\ q.key = request[r].key
  /\ q.sticky = request[r].sticky /\ q.once = request[r].once
  /\ q.attempt = request[r].attempt /\ q.excluded = request[r].excluded
  /\ q.alternative = request[r].alternative

\* A step that waits or gives up before an attempt keeps the invariant.
LEMMA WaitStepKeepsInv ==
  ASSUME RequestInv, NEW r \in Requests, NEW q \in Request, WaitStep(r, q),
         request' = [request EXCEPT ![r] = q],
         reserved' \in {reserved, reserved \cup {r}}, Accounted(r)',
         UNCHANGED <<snapshot, next_key, pins, usage, feedback, tried>>
  PROVE  RequestInv'
<1>1. /\ request \in [Requests -> Request] /\ request' \in [Requests -> Request]
      /\ request'[r] = q /\ \A p \in Requests \ {r} : request'[p] = request[p]
  BY Zenon DEF RequestInv, RequestTypeOK
<1>2. RequestTypeOK'
  BY Zenon, <1>1 DEF RequestInv, RequestTypeOK
<1>3. Begun' = Begun
  BY Zenon, <1>1 DEF Begun, WaitStep
<1>4. Accounted(r) /\ Looping(r) /\ Elsewhere(r) /\ Exact(r)
  BY Zenon DEF RequestInv
<1>5. usage[r] = <<>>
  BY Zenon, <1>4 DEF Accounted, WaitStep
<1>6. Looping(r)'
  <2>1. request[r].pc \in {"reserve", "granted"} =>
          tried[r] = <<>> /\ q.attempt = 0 /\ q.excluded = {} /\ Len(tried[r]) = 0
    BY Zenon, <1>4 DEF Looping, WaitStep
  <2>2. 0 < MaxUpstreamAttempts /\ DOMAIN <<>> = {}
    OBVIOUS
  <2>3. request'[r] = q /\ tried'[r] = tried[r] /\ usage'[r] = usage[r]
    BY Zenon, <1>1
  <2> QED BY Zenon, <1>4, <1>5, <2>1, <2>2, <2>3 DEF Looping, WaitStep
<1>7. Elsewhere(r)' /\ Exact(r)'
  BY Zenon, <1>1, <1>4 DEF Elsewhere, Exact, WaitStep
<1>8. PinnedAtFirst'
  BY Zenon, PinsStayEarned DEF RequestInv
<1>9. OnlyMoves(r)
  BY Zenon, <1>1 DEF OnlyMoves
<1>10. next_key' = Cardinality(Begun)'
  BY Zenon, <1>3 DEF RequestInv
<1> QED BY Zenon, <1>2, <1>6, <1>7, <1>8, <1>9, <1>10, OneRequestMoves

\* The steps of the reservation, and sending an attempt.
LEMMA ReservationKeepsInv ==
  ASSUME RequestInv, NEW r \in Requests,
         Grant(r) \/ Refused(r) \/ Granted(r) \/ GrantLost(r) \/ Send(r)
  PROVE  RequestInv'
<1>1. request \in [Requests -> Request] /\ request[r] \in Request
  BY Zenon DEF RequestInv, RequestTypeOK
<1>2. Accounted(r)
  BY Zenon DEF RequestInv
<1>3. CASE Grant(r)
  <2> DEFINE q == [request[r] EXCEPT !.pc = "granted"]
  <2>1. /\ q \in Request /\ WaitStep(r, q) /\ q.pc = "granted"
        /\ q.lost = request[r].lost /\ q.pre_consumed = request[r].pre_consumed
    BY Zenon, <1>1, <1>3 DEF Request, WaitStep, Grant
  <2>2. request' = [request EXCEPT ![r] = q] /\ request'[r] = q
    BY Zenon, <1>1, <1>3 DEF Grant
  <2> HIDE DEF q
  <2>3. Accounted(r)'
    BY Zenon, <1>2, <1>3, <2>1, <2>2 DEF Accounted, Grant
  <2> QED BY Zenon, <1>3, <2>1, <2>2, <2>3, WaitStepKeepsInv DEF Grant
<1>4. CASE Refused(r)
  <2> DEFINE q == [request[r] EXCEPT !.pc = "done"]
  <2>1. /\ q \in Request /\ WaitStep(r, q) /\ q.pc = "done"
        /\ q.lost = request[r].lost /\ q.pre_consumed = request[r].pre_consumed
    BY Zenon, <1>1, <1>4 DEF Request, WaitStep, Refused
  <2>2. request' = [request EXCEPT ![r] = q] /\ request'[r] = q
    BY Zenon, <1>1, <1>4 DEF Refused, Finish
  <2> HIDE DEF q
  <2>3. Accounted(r)'
    BY Zenon, <1>2, <1>4, <2>1, <2>2 DEF Accounted, Refused
  <2> QED BY Zenon, <1>4, <2>1, <2>2, <2>3, WaitStepKeepsInv DEF Refused
<1>5. CASE Granted(r)
  <2> DEFINE q == [request[r] EXCEPT !.pc = "attempt", !.pre_consumed = TRUE]
  <2>1. /\ q \in Request /\ WaitStep(r, q) /\ q.pc = "attempt"
        /\ q.lost = request[r].lost /\ q.pre_consumed
    BY Zenon, <1>1, <1>5 DEF Request, WaitStep, Granted
  <2>2. request' = [request EXCEPT ![r] = q] /\ request'[r] = q
    BY Zenon, <1>1, <1>5 DEF Granted
  <2> HIDE DEF q
  <2>3. Accounted(r)'
    BY Zenon, <1>2, <1>5, <2>1, <2>2 DEF Accounted, Granted
  <2> QED BY Zenon, <1>5, <2>1, <2>2, <2>3, WaitStepKeepsInv DEF Granted
<1>6. CASE GrantLost(r)
  <2> DEFINE q == [request[r] EXCEPT !.pc = "done", !.lost = TRUE]
  <2>1. /\ q \in Request /\ WaitStep(r, q) /\ q.pc = "done" /\ q.lost
    BY Zenon, <1>1, <1>6 DEF Request, WaitStep, GrantLost
  <2>2. request' = [request EXCEPT ![r] = q] /\ request'[r] = q
    BY Zenon, <1>1, <1>6 DEF GrantLost
  <2> HIDE DEF q
  <2>3. Accounted(r)'
    BY Zenon, <1>2, <1>6, <2>1, <2>2 DEF Accounted, GrantLost
  <2> QED BY Zenon, <1>6, <2>1, <2>2, <2>3, WaitStepKeepsInv DEF GrantLost
<1>7. CASE Send(r)
  <2> DEFINE q == [request[r] EXCEPT !.pc = "in_flight"]
  <2>1. /\ q \in Request /\ WaitStep(r, q) /\ q.pc = "in_flight"
        /\ q.lost = request[r].lost /\ q.pre_consumed = request[r].pre_consumed
    BY Zenon, <1>1, <1>7 DEF Request, WaitStep, Send
  <2>2. request' = [request EXCEPT ![r] = q] /\ request'[r] = q
    BY Zenon, <1>1, <1>7 DEF Send, Enter
  <2> HIDE DEF q
  <2>3. Accounted(r)'
    BY Zenon, <1>2, <1>7, <2>1, <2>2 DEF Accounted, Send
  <2> QED BY Zenon, <1>7, <2>1, <2>2, <2>3, WaitStepKeepsInv DEF Send
<1> QED BY Zenon, <1>3, <1>4, <1>5, <1>6, <1>7

\* The worker's snapshot is well formed, and its channels are the gateway's.
LEMMA HeldSnapshot ==
  ASSUME RequestTypeOK
  PROVE  /\ IsSnapshot(snapshot) /\ IsSequence(RouteGroups) /\ next_key \in Nat
         /\ DOMAIN snapshot.channels \subseteq Channels /\ NoChannel \notin Channels
         /\ Cardinality(Requests) \in Nat
<1>1. Cardinality(Requests) \in Nat
  BY Zenon, FS_CardinalityType
<1>2. NoChannel \notin Channels
  BY Zenon DEF Channels
<1>3. next_key \in Nat
  <2>1. next_key \in 0..Cardinality(Requests)
    BY Zenon DEF RequestTypeOK
  <2> QED BY <1>1, <2>1
<1> QED BY Zenon, <1>1, <1>2, <1>3 DEF RequestTypeOK, Channels

\* The first route leads to a channel of the snapshot.
LEMMA FirstRouteIs ==
  ASSUME RequestTypeOK, NEW r \in Requests, FirstRoute(r).ok
  PROVE  FirstRoute(r).channel \in DOMAIN snapshot.channels
<1>1. IsSnapshot(snapshot) /\ IsSequence(RouteGroups) /\ next_key \in Nat
  BY Zenon, HeldSnapshot
<1> DEFINE specific == RouteSpecific(snapshot, RouteGroups, pins[Session[r]])
           weighted == RouteWeighted(snapshot, RouteGroups, next_key, {})
<1>2. specific.ok => specific.channel \in DOMAIN snapshot.channels
  BY Zenon, <1>1, SpecificChannel
<1>3. weighted.ok => weighted.channel \in DOMAIN snapshot.channels
  BY Zenon, <1>1, RoutedChannel
<1> HIDE DEF specific, weighted
<1>4. FirstRoute(r) = IF Pinned(r) /\ specific.ok THEN specific ELSE weighted
  BY Zenon DEF FirstRoute, specific, weighted
<1> QED BY Zenon, <1>2, <1>3, <1>4

\* Accepting a request.
LEMMA BeginKeepsInv ==
  ASSUME RequestInv, NEW r \in Requests, Begin(r)
  PROVE  RequestInv'
<1> DEFINE route == FirstRoute(r)
           key == SelectApiKey(snapshot, route.channel, next_key)
           once == HasAffinity(r) /\ snapshot.affinity.skip_retry_on_failure
           go == [request[r] EXCEPT !.pc = "reserve", !.channel = route.channel,
                                    !.key = key, !.sticky = HasAffinity(r), !.once = once]
           stop == [request[r] EXCEPT !.pc = "done"]
<1>1. /\ request \in [Requests -> Request] /\ request[r] \in Request
      /\ RequestTypeOK /\ request[r].pc = "new"
      /\ Accounted(r) /\ Looping(r) /\ Elsewhere(r) /\ Exact(r)
  BY Zenon DEF RequestInv, RequestTypeOK, Begin
<1>2. /\ IsSnapshot(snapshot) /\ next_key \in Nat /\ Cardinality(Requests) \in Nat
      /\ DOMAIN snapshot.channels \subseteq Channels /\ NoChannel \notin Channels
  BY Zenon, <1>1, HeldSnapshot
<1>3. HasAffinity(r) \in BOOLEAN /\ once \in BOOLEAN
  BY Zenon DEF HasAffinity
<1>4. ASSUME route.ok
      PROVE  /\ go \in Request /\ go.pc = "reserve" /\ go.channel \in Channels
             /\ go.sticky = HasAffinity(r) /\ go.once = once
             /\ go.attempt = request[r].attempt /\ go.excluded = request[r].excluded
             /\ go.alternative = request[r].alternative
             /\ go.lost = request[r].lost /\ go.pre_consumed = request[r].pre_consumed
  <2>1. route.channel \in DOMAIN snapshot.channels
    BY Zenon, <1>1, <1>4, FirstRouteIs
  <2>2. key \in Nat
    BY Zenon, <1>2, <2>1, ApiKeyIsNat
  <2> HIDE DEF route, key, once
  <2> QED BY Zenon, <1>1, <1>2, <1>3, <2>1, <2>2 DEF Request
<1>5. /\ stop \in Request /\ stop.pc = "done" /\ stop.channel = request[r].channel
      /\ stop.sticky = request[r].sticky /\ stop.once = request[r].once
      /\ stop.attempt = request[r].attempt /\ stop.excluded = request[r].excluded
      /\ stop.alternative = request[r].alternative
      /\ stop.lost = request[r].lost /\ stop.pre_consumed = request[r].pre_consumed
  BY Zenon, <1>1 DEF Request
<1>6. \/ route.ok /\ request' = [request EXCEPT ![r] = go]
      \/ request' = [request EXCEPT ![r] = stop]
  BY Zenon DEF Begin, Finish
<1> HIDE DEF route, key, go, stop
<1>7. PICK q \in Request :
        /\ request' = [request EXCEPT ![r] = q]
        /\ \/ /\ q.pc = "reserve" /\ q.channel \in Channels
              /\ q.sticky = HasAffinity(r) /\ q.once = once
           \/ /\ q.pc = "done" /\ q.channel = request[r].channel
              /\ q.sticky = request[r].sticky /\ q.once = request[r].once
        /\ q.attempt = request[r].attempt /\ q.excluded = request[r].excluded
        /\ q.alternative = request[r].alternative
        /\ q.lost = request[r].lost /\ q.pre_consumed = request[r].pre_consumed
  BY Zenon, <1>4, <1>5, <1>6
<1>8. UNCHANGED <<snapshot, reserved, usage, feedback, tried>> /\ next_key' = next_key + 1
  BY Zenon DEF Begin
<1>9. /\ request' \in [Requests -> Request] /\ request'[r] = q
      /\ \A p \in Requests \ {r} : request'[p] = request[p]
  BY Zenon, <1>1, <1>7
<1>10. pins' \in [Sessions -> Channels \cup {NoChannel}]
       /\ \A s \in Sessions : pins'[s] \in {pins[s], NoChannel}
  <2>1. pins' = pins \/ pins' = [pins EXCEPT ![Session[r]] = NoChannel]
    BY Zenon DEF Begin, Unpin
  <2> QED BY Zenon, <1>1, <2>1 DEF RequestTypeOK
<1>11. /\ IsFiniteSet(Begun) /\ Begun' = Begun \cup {r} /\ r \notin Begun
       /\ Begun' \in SUBSET Requests
  <2>1. IsFiniteSet(Begun)
    BY Zenon, FS_Subset DEF Begun
  <2> QED BY Zenon, <1>1, <1>7, <1>9, <2>1 DEF Begun
<1>12. next_key' = Cardinality(Begun)' /\ next_key' \in 0..Cardinality(Requests)
  <2>1. Cardinality(Begun \cup {r}) = Cardinality(Begun) + 1
    BY Zenon, <1>11, FS_AddElement
  <2>2. Cardinality(Begun') <= Cardinality(Requests)
    BY Zenon, <1>11, FS_Subset
  <2>3. next_key' = Cardinality(Begun')
    BY Zenon, <1>8, <1>11, <2>1 DEF RequestInv
  <2> QED BY <1>2, <1>8, <2>2, <2>3
<1>13. RequestTypeOK'
  BY Zenon, <1>1, <1>8, <1>9, <1>10, <1>12 DEF RequestTypeOK
<1>14. Accounted(r)'
  BY Zenon, <1>1, <1>7, <1>8, <1>9 DEF Accounted
<1>15. Looping(r)'
  <2>1. tried[r] = <<>> /\ request[r].attempt = 0 /\ request[r].excluded = {} /\ usage[r] = <<>>
    BY Zenon, <1>1 DEF Looping, Accounted
  <2>2. HasAffinity(r) => Session[r] # NoSession
    BY Zenon DEF HasAffinity
  <2> HIDE DEF once
  <2> QED BY Zenon, <1>1, <1>7, <1>8, <1>9, <2>1, <2>2 DEF Looping
<1>16. Elsewhere(r)' /\ Exact(r)'
  <2>1. tried[r] = <<>> /\ request[r].excluded = {}
    BY Zenon, <1>1 DEF Looping
  <2>2. Elsewhere(r)'
    BY <1>7, <1>8, <1>9, <2>1 DEF Elsewhere
  <2>3. Exact(r)'
    BY Zenon, <1>1, <1>8 DEF Exact
  <2> QED BY Zenon, <2>2, <2>3
<1>17. PinnedAtFirst'
  BY Zenon, <1>8, <1>10, PinsStayEarned DEF RequestInv
<1>18. OnlyMoves(r)
  BY Zenon, <1>8, <1>9 DEF OnlyMoves
<1> QED BY Zenon, <1>12, <1>13, <1>14, <1>15, <1>16, <1>17, <1>18, OneRequestMoves

\* The end of a stream.
LEMMA StreamEndsKeepsInv ==
  ASSUME RequestInv, NEW r \in Requests, StreamEnds(r)
  PROVE  RequestInv'
<1> DEFINE q == [request[r] EXCEPT !.pc = "done"]
           event == [channel |-> request[r].channel, pre_consumed |-> request[r].pre_consumed]
<1>1. /\ request \in [Requests -> Request] /\ request[r] \in Request
      /\ RequestTypeOK /\ request[r].pc = "stream"
      /\ Accounted(r) /\ Looping(r) /\ Elsewhere(r) /\ Exact(r)
  BY Zenon DEF RequestInv, RequestTypeOK, StreamEnds
<1>2. /\ q \in Request /\ q.pc = "done" /\ q.channel = request[r].channel
      /\ q.sticky = request[r].sticky /\ q.once = request[r].once
      /\ q.attempt = request[r].attempt /\ q.excluded = request[r].excluded
      /\ q.alternative = request[r].alternative
      /\ q.lost = request[r].lost /\ q.pre_consumed = request[r].pre_consumed
  BY Zenon, <1>1 DEF Request
<1>3. request' = [request EXCEPT ![r] = q]
  BY Zenon DEF StreamEnds, Finish
<1> HIDE DEF q
<1>4. /\ UNCHANGED <<snapshot, next_key, pins, reserved, feedback, tried>>
      /\ usage' = [usage EXCEPT ![r] = Append(usage[r], event)]
  BY Zenon DEF StreamEnds, Report
<1>5. /\ r \in reserved /\ ~request[r].lost /\ request[r].pre_consumed /\ usage[r] = <<>>
      /\ request[r].channel \in Channels
  BY Zenon, <1>1 DEF Accounted, Looping
<1>6. /\ event = [channel |-> request[r].channel, pre_consumed |-> TRUE]
      /\ event \in [channel : Channels, pre_consumed : BOOLEAN]
  <2>1. request[r].pre_consumed = TRUE
    BY Zenon, <1>1, <1>5 DEF Request
  <2> QED BY Zenon, <1>5, <2>1
<1>7. /\ request' \in [Requests -> Request] /\ request'[r] = q
      /\ \A p \in Requests \ {r} : request'[p] = request[p]
  BY Zenon, <1>1, <1>2, <1>3
<1>8. /\ usage' \in [Requests -> Seq([channel : Channels, pre_consumed : BOOLEAN])]
      /\ usage'[r] = <<[channel |-> request[r].channel, pre_consumed |-> TRUE]>>
      /\ \A p \in Requests \ {r} : usage'[p] = usage[p]
  <2> DEFINE Event == [channel : Channels, pre_consumed : BOOLEAN]
  <2>1. usage \in [Requests -> Seq(Event)] /\ event \in Event
    BY Zenon, <1>1, <1>6 DEF RequestTypeOK
  <2> HIDE DEF event, Event
  <2>2. Append(usage[r], event) \in Seq(Event) /\ Append(usage[r], event) = <<event>>
    BY <1>5, <2>1
  <2>3. /\ usage' \in [Requests -> Seq(Event)] /\ usage'[r] = <<event>>
        /\ \A p \in Requests \ {r} : usage'[p] = usage[p]
    BY Zenon, <1>4, <2>1, <2>2
  <2> QED BY Zenon, <1>6, <2>3 DEF Event
<1>9. Begun' = Begun
  BY Zenon, <1>1, <1>2, <1>7 DEF Begun
<1>10. RequestTypeOK'
  BY Zenon, <1>1, <1>4, <1>7, <1>8 DEF RequestTypeOK
<1>11. Accounted(r)'
  BY Zenon, <1>2, <1>4, <1>5, <1>7, <1>8 DEF Accounted
<1>12. Looping(r)'
  BY Zenon, <1>1, <1>2, <1>4, <1>7 DEF Looping
<1>13. Elsewhere(r)' /\ Exact(r)'
  BY Zenon, <1>1, <1>2, <1>4, <1>7 DEF Elsewhere, Exact
<1>14. PinnedAtFirst'
  BY Zenon, <1>4, PinsStayEarned DEF RequestInv
<1>15. OnlyMoves(r)
  BY Zenon, <1>4, <1>7, <1>8 DEF OnlyMoves
<1>16. next_key' = Cardinality(Begun)'
  BY Zenon, <1>4, <1>9 DEF RequestInv
<1> QED BY Zenon, <1>10, <1>11, <1>12, <1>13, <1>14, <1>15, <1>16, OneRequestMoves

\* The worker's surroundings touch no request: another snapshot comes, a pin goes.
LEMMA EnvironmentKeepsInv ==
  ASSUME RequestInv, Environment \/ UNCHANGED request_vars
  PROVE  RequestInv'
<1>1. /\ UNCHANGED <<next_key, request, reserved, usage, feedback, tried>>
      /\ snapshot' \in Snapshots
      /\ pins' \in [Sessions -> Channels \cup {NoChannel}]
      /\ \A s \in Sessions : pins'[s] \in {pins[s], NoChannel}
  <2>1. RequestTypeOK
    BY Zenon DEF RequestInv
  <2>2. CASE Swap
    BY Zenon, <2>1, <2>2 DEF Swap, RequestTypeOK
  <2>3. ASSUME NEW s \in Sessions, PinExpires(s)
        PROVE  <1>1!:
    BY Zenon, <2>1, <2>3 DEF PinExpires, RequestTypeOK
  <2>4. CASE UNCHANGED request_vars
    BY Zenon, <2>1, <2>4 DEF request_vars, RequestTypeOK
  <2> QED BY Zenon, <2>2, <2>3, <2>4 DEF Environment
<1>2. RequestTypeOK'
  BY Zenon, <1>1 DEF RequestInv, RequestTypeOK
<1>3. PinnedAtFirst'
  BY Zenon, <1>1, PinsStayEarned DEF RequestInv
<1>4. ASSUME NEW r \in Requests
      PROVE  Accounted(r)' /\ Looping(r)' /\ Elsewhere(r)' /\ Exact(r)'
  <2>1. Accounted(r) /\ Looping(r) /\ Elsewhere(r) /\ Exact(r)
    BY Zenon DEF RequestInv
  <2> QED BY Zenon, <1>1, <2>1 DEF Accounted, Looping, Elsewhere, Exact
<1>5. Begun' = Begun
  BY Zenon, <1>1 DEF Begun
<1> QED BY Zenon, <1>1, <1>2, <1>3, <1>4, <1>5 DEF RequestInv

-----------------------------------------------------------------------------
\* What an attempt adds to the number of blamed ones.
LEMMA BlamingsAppend ==
  ASSUME NEW t \in Seq(Attempt), NEW att \in Attempt
  PROVE  /\ \A i \in 0..Len(t) : Blamings(Append(t, att), i) = Blamings(t, i)
         /\ att.blamed => Blamings(Append(t, att), Len(t) + 1) = Blamings(t, Len(t)) + 1
         /\ ~att.blamed => Blamings(Append(t, att), Len(t) + 1) = Blamings(t, Len(t))
         /\ Blamings(t, Len(t)) \in Nat
         /\ \A i \in 1..Len(t) : t[i].blamed => Blamings(t, i) \in 1..Blamings(t, Len(t))
<1> DEFINE u == Append(t, att)
           n == Len(t)
           B(s, i) == {j \in 1..i : s[j].blamed}
<1>1. /\ n \in Nat /\ Len(u) = n + 1 /\ u[n + 1] = att
      /\ \A j \in 1..n : u[j] = t[j]
  OBVIOUS
<1> HIDE DEF u, n
<1>2. \A i \in 0..n : B(u, i) = B(t, i)
  BY <1>1
<1>3. \A i \in 0..n : IsFiniteSet(B(t, i)) /\ Cardinality(B(t, i)) \in Nat
  <2> SUFFICES ASSUME NEW i \in 0..n
               PROVE  IsFiniteSet(B(t, i)) /\ Cardinality(B(t, i)) \in Nat
    BY Zenon
  <2>1. IsFiniteSet(1..i)
    BY <1>1, FS_Interval
  <2>2. B(t, i) \subseteq 1..i
    BY Zenon
  <2> HIDE DEF B
  <2>3. IsFiniteSet(B(t, i))
    BY Zenon, <2>1, <2>2, FS_Subset
  <2> QED BY Zenon, <2>3, FS_CardinalityType
<1>4. att.blamed => B(u, n + 1) = B(t, n) \cup {n + 1} /\ n + 1 \notin B(t, n)
  BY <1>1
<1>5. ~att.blamed => B(u, n + 1) = B(t, n)
  BY <1>1
<1>6. ASSUME NEW i \in 1..n, t[i].blamed
      PROVE  Cardinality(B(t, i)) \in 1..Cardinality(B(t, n))
  <2>1. B(t, i) \subseteq B(t, n) /\ i \in B(t, i)
    BY <1>1, <1>6
  <2>2. IsFiniteSet(B(t, i)) /\ IsFiniteSet(B(t, n)) /\ Cardinality(B(t, i)) \in Nat
        /\ Cardinality(B(t, n)) \in Nat
    <3>1. i \in 0..n /\ n \in 0..n
      BY <1>1
    <3> HIDE DEF B
    <3> QED BY Zenon, <1>3, <3>1
  <2> HIDE DEF B
  <2>3. Cardinality(B(t, i)) <= Cardinality(B(t, n))
    BY Zenon, <2>1, <2>2, FS_Subset
  <2>4. Cardinality(B(t, i)) # 0
    BY Zenon, <2>1, <2>2, FS_EmptySet
  <2> QED BY <2>2, <2>3, <2>4
<1>7. \A s, i : Blamings(s, i) = Cardinality(B(s, i))
  BY Zenon DEF Blamings
<1>8. IsFiniteSet(B(t, n)) /\ Cardinality(B(t, n)) \in Nat
  <2>1. n \in 0..n
    BY <1>1
  <2> HIDE DEF B
  <2> QED BY Zenon, <1>3, <2>1
<1> HIDE DEF B
<1>9. att.blamed => Cardinality(B(u, n + 1)) = Cardinality(B(t, n)) + 1
  BY Zenon, <1>4, <1>8, FS_AddElement
<1>10. /\ \A i \in 0..n : Blamings(u, i) = Blamings(t, i)
       /\ att.blamed => Blamings(u, n + 1) = Blamings(t, n) + 1
       /\ ~att.blamed => Blamings(u, n + 1) = Blamings(t, n)
       /\ Blamings(t, n) \in Nat
       /\ \A i \in 1..n : t[i].blamed => Blamings(t, i) \in 1..Blamings(t, n)
  BY Zenon, <1>2, <1>5, <1>6, <1>7, <1>8, <1>9
<1> QED BY Zenon, <1>10 DEF u, n

\* The positions of a sequence.
LEMMA ListFacts ==
  ASSUME NEW S, NEW s \in Seq(S)
  PROVE  Len(s) \in Nat /\ DOMAIN s = 1..Len(s)
  OBVIOUS

\* The positions up to n + 1 are those up to n, and n + 1.
LEMMA LastOrEarlier ==
  ASSUME NEW n \in Nat
  PROVE  /\ \A i \in 1..(n + 1) : i = n + 1 \/ i \in 1..n
         /\ \A i \in 1..n : i \in 0..n
  OBVIOUS

\* What an attempt may come back with.
Responses == [status : Statuses, stream : BOOLEAN, blames : BOOLEAN]

\* The attempt that a response ends.
AttemptOf(r, response) ==
  [channel |-> request[r].channel, key |-> request[r].key, status |-> response.status,
   blamed |-> response.blames, once |-> request[r].once]

\* The history of attempts and the feedback grow together.
LEMMA AttemptAdded ==
  ASSUME RequestInv, NEW r \in Requests, request[r].pc \in {"attempt", "in_flight"},
         NEW response \in Responses, NEW next, Tried(r, response), Blame(r, response, next)
  PROVE  LET att == AttemptOf(r, response) IN
         /\ tried' \in [Requests -> Seq(Attempt)] /\ tried'[r] = Append(tried[r], att)
         /\ Len(tried'[r]) = request[r].attempt + 1
         /\ tried'[r][request[r].attempt + 1] = att
         /\ \A i \in 1..request[r].attempt : tried'[r][i] = tried[r][i]
         /\ feedback' \in [Requests -> Seq([channel : Channels, key : Nat])]
         /\ \A p \in Requests \ {r} : tried'[p] = tried[p] /\ feedback'[p] = feedback[p]
         /\ Exact(r)'
<1> DEFINE att == AttemptOf(r, response)
           f == [channel |-> request[r].channel, key |-> request[r].key]
           F == [channel : Channels, key : Nat]
           n == Len(tried[r])
           B(i) == Blamings(tried[r], i)
<1>1. /\ request[r] \in Request /\ tried \in [Requests -> Seq(Attempt)]
      /\ feedback \in [Requests -> Seq(F)]
  BY Zenon DEF RequestInv, RequestTypeOK
<1>2. /\ request[r].channel \in Channels /\ n = request[r].attempt /\ n \in Nat /\ Exact(r)
  <2>1. Looping(r) /\ Exact(r)
    BY Zenon DEF RequestInv
  <2>2. n \in Nat
    BY Zenon, <1>1, ListFacts
  <2> QED BY Zenon, <2>1, <2>2 DEF Looping
<1>3. /\ att \in Attempt /\ f \in F /\ att.blamed = response.blames /\ response.blames \in BOOLEAN
      /\ f = [channel |-> att.channel, key |-> att.key]
  BY Zenon, <1>1, <1>2 DEF AttemptOf, Attempt, Request, Responses
<1>4. /\ tried' = [tried EXCEPT ![r] = Append(tried[r], att)]
      /\ response.blames => feedback' = [feedback EXCEPT ![r] = Append(feedback[r], f)]
      /\ ~response.blames => feedback' = feedback
  BY Zenon DEF Tried, Blame, AttemptOf
<1> HIDE DEF att, f, F
<1>5. /\ Append(tried[r], att) \in Seq(Attempt) /\ Append(feedback[r], f) \in Seq(F)
      /\ Len(Append(tried[r], att)) = n + 1 /\ Append(tried[r], att)[n + 1] = att
      /\ \A i \in 1..n : Append(tried[r], att)[i] = tried[r][i]
  <2>1. tried[r] \in Seq(Attempt) /\ feedback[r] \in Seq(F)
    BY Zenon, <1>1
  <2>2. att \in Attempt /\ f \in F
    BY Zenon, <1>3
  <2> DEFINE t == tried[r]
             g == feedback[r]
  <2>3. t \in Seq(Attempt) /\ g \in Seq(F)
    BY Zenon, <2>1
  <2> HIDE DEF t, g
  <2>4. /\ Append(t, att) \in Seq(Attempt) /\ Append(g, f) \in Seq(F)
        /\ Len(Append(t, att)) = Len(t) + 1 /\ Append(t, att)[Len(t) + 1] = att
        /\ \A i \in 1..Len(t) : Append(t, att)[i] = t[i]
    BY <2>2, <2>3
  <2> QED BY Zenon, <2>4 DEF t, g
<1>6. /\ tried' \in [Requests -> Seq(Attempt)] /\ tried'[r] = Append(tried[r], att)
      /\ \A p \in Requests \ {r} : tried'[p] = tried[p]
  BY Zenon, <1>1, <1>4, <1>5
<1>7. /\ feedback' \in [Requests -> Seq(F)]
      /\ \A p \in Requests \ {r} : feedback'[p] = feedback[p]
      /\ att.blamed => feedback'[r] = Append(feedback[r], f)
      /\ ~att.blamed => feedback'[r] = feedback[r]
  BY Zenon, <1>1, <1>3, <1>4, <1>5
<1>8. /\ \A i \in 0..n : Blamings(tried'[r], i) = B(i)
      /\ att.blamed => Blamings(tried'[r], n + 1) = B(n) + 1
      /\ ~att.blamed => Blamings(tried'[r], n + 1) = B(n)
      /\ B(n) \in Nat
      /\ \A i \in 1..n : tried[r][i].blamed => B(i) \in 1..B(n)
  <2>1. tried[r] \in Seq(Attempt)
    BY Zenon, <1>1
  <2> QED BY Zenon, <1>3, <1>6, <2>1, BlamingsAppend
<1>9. /\ Len(feedback[r]) = B(n) /\ DOMAIN tried[r] = 1..n
      /\ \A i \in 1..n : tried[r][i].blamed =>
           feedback[r][B(i)] = [channel |-> tried[r][i].channel, key |-> tried[r][i].key]
  <2>1. DOMAIN tried[r] = 1..n
    BY Zenon, <1>1, ListFacts
  <2> QED BY Zenon, <1>2, <2>1 DEF Exact
<1> HIDE DEF B
<1>10. /\ att.blamed => /\ Len(feedback'[r]) = B(n) + 1 /\ feedback'[r][B(n) + 1] = f
                      /\ \A j \in 1..B(n) : feedback'[r][j] = feedback[r][j]
       /\ ~att.blamed => Len(feedback'[r]) = B(n)
  <2> DEFINE g == feedback[r]
  <2>1. g \in Seq(F) /\ f \in F /\ Len(g) = B(n)
    BY Zenon, <1>1, <1>3, <1>9
  <2> HIDE DEF g
  <2>2. /\ Len(Append(g, f)) = Len(g) + 1 /\ Append(g, f)[Len(g) + 1] = f
        /\ \A j \in 1..Len(g) : Append(g, f)[j] = g[j]
    BY <2>1
  <2> QED BY Zenon, <1>7, <2>1, <2>2 DEF g
<1>11. Len(tried'[r]) = n + 1 /\ DOMAIN tried'[r] = 1..(n + 1)
  <2>1. DOMAIN tried'[r] = 1..Len(tried'[r])
    <3>1. tried'[r] \in Seq(Attempt)
      BY Zenon, <1>6
    <3> QED BY Zenon, <3>1, ListFacts
  <2> QED BY Zenon, <1>5, <1>6, <2>1
<1>12. Exact(r)'
  <2>1. Len(feedback'[r]) = Blamings(tried'[r], Len(tried'[r]))
    BY Zenon, <1>8, <1>10, <1>11
  <2>2. ASSUME NEW i \in 1..(n + 1), tried'[r][i].blamed
        PROVE  feedback'[r][Blamings(tried'[r], i)] =
                 [channel |-> tried'[r][i].channel, key |-> tried'[r][i].key]
    <3>1. CASE i = n + 1
      BY Zenon, <1>3, <1>5, <1>6, <1>8, <1>10, <2>2, <3>1
    <3>2. CASE i \in 1..n
      <4>1. tried'[r][i] = tried[r][i] /\ tried[r][i].blamed
        BY Zenon, <1>5, <1>6, <2>2, <3>2
      <4>2. Blamings(tried'[r], i) = B(i) /\ B(i) \in 1..B(n)
        BY Zenon, <1>2, <1>8, <3>2, <4>1, LastOrEarlier
      <4>3. feedback'[r][B(i)] = feedback[r][B(i)]
        BY Zenon, <1>7, <1>10, <4>2
      <4> QED BY Zenon, <1>9, <3>2, <4>1, <4>2, <4>3
    <3> QED BY Zenon, <1>2, <3>1, <3>2, LastOrEarlier
  <2> QED BY Zenon, <1>11, <2>1, <2>2 DEF Exact
<1>13. /\ tried' \in [Requests -> Seq(Attempt)] /\ tried'[r] = Append(tried[r], att)
       /\ Len(tried'[r]) = request[r].attempt + 1
       /\ tried'[r][request[r].attempt + 1] = att
       /\ \A i \in 1..request[r].attempt : tried'[r][i] = tried[r][i]
       /\ feedback' \in [Requests -> Seq(F)]
       /\ \A p \in Requests \ {r} : tried'[p] = tried[p] /\ feedback'[p] = feedback[p]
       /\ Exact(r)'
  BY Zenon, <1>2, <1>5, <1>6, <1>7, <1>11, <1>12
<1> QED BY Zenon, <1>13 DEF att, F

\* Who earned a pin before an attempt ends has still earned it.
LEMMA EarnedStays ==
  ASSUME RequestInv, NEW r \in Requests, request[r].pc \in {"attempt", "in_flight"},
         \A p \in Requests \ {r} : tried'[p] = tried[p],
         NEW s \in Sessions, pins[s] # NoChannel
  PROVE  \E p \in Requests : /\ Session[p] = s /\ Len(tried'[p]) = 1
                             /\ tried'[p][1].channel = pins[s]
                             /\ tried'[p][1].status = "success"
<1>1. PICK p \in Requests : /\ Session[p] = s /\ Len(tried[p]) = 1
                            /\ tried[p][1].channel = pins[s] /\ tried[p][1].status = "success"
  BY Zenon DEF RequestInv, PinnedAtFirst
<1>2. p # r
  <2>1. tried[p] \in Seq(Attempt)
    BY Zenon DEF RequestInv, RequestTypeOK
  <2>2. 1 \in DOMAIN tried[p]
    BY <1>1, <2>1
  <2>3. Looping(r)
    BY Zenon DEF RequestInv
  <2> QED BY Zenon, <1>1, <2>2, <2>3 DEF Looping
<1> QED BY Zenon, <1>1, <1>2

\* Where retry_route leads, and that it excludes what it can.
LEMMA RetryRouteIs ==
  ASSUME RequestTypeOK, NEW n \in Nat, NEW excluded, RetryRoute(n + 1, excluded).route.ok
  PROVE  LET next == RetryRoute(n + 1, excluded) IN
         /\ next.seed \in Nat /\ next.route.channel \in DOMAIN snapshot.channels
         /\ next.route.channel \in excluded => Usable(snapshot, RouteGroups) \ excluded = {}
<1> DEFINE next == RetryRoute(n + 1, excluded)
           seed == next_key + (n + 1) - 1
           elsewhere == RouteWeighted(snapshot, RouteGroups, seed, excluded)
           anywhere == RouteWeighted(snapshot, RouteGroups, seed, {})
<1>1. IsSnapshot(snapshot) /\ IsSequence(RouteGroups) /\ next_key \in Nat
  BY Zenon, HeldSnapshot
<1>2. seed \in Nat
  BY <1>1
<1>3. next = [route |-> IF elsewhere.ok THEN elsewhere ELSE anywhere, seed |-> seed]
  BY Zenon DEF RetryRoute
<1>4. next.route.ok
  BY Zenon
<1> HIDE DEF next, seed
<1>5. /\ elsewhere.ok <=> Usable(snapshot, RouteGroups) \ excluded # {}
      /\ elsewhere.ok => elsewhere.channel \in DOMAIN snapshot.channels
                         /\ elsewhere.channel \notin excluded
  BY Zenon, <1>1, <1>2, RoutedChannel
<1>6. anywhere.ok => anywhere.channel \in DOMAIN snapshot.channels
  BY Zenon, <1>1, <1>2, RoutedChannel
<1> HIDE DEF elsewhere, anywhere
<1>7. /\ next.seed \in Nat /\ next.route.channel \in DOMAIN snapshot.channels
      /\ next.route.channel \in excluded => Usable(snapshot, RouteGroups) \ excluded = {}
  BY Zenon, <1>2, <1>3, <1>4, <1>5, <1>6
<1> QED BY Zenon, <1>7 DEF next

\* What it means for the list of attempts to be one longer than the attempts
\* before it.
LEMMA OneAttemptMore ==
  ASSUME NEW S, NEW s \in Seq(S), NEW n \in Nat, n < MaxUpstreamAttempts, Len(s) = n + 1
  PROVE  /\ Len(s) <= MaxUpstreamAttempts /\ DOMAIN s = 1..(n + 1) /\ s # <<>>
         /\ \A i \in 1..(n + 1) : i = n + 1 \/ i \in 1..n
         /\ n = 0 => Len(s) = 1 /\ n + 1 = 1
  OBVIOUS

\* A failed attempt that goes to another channel.
LEMMA RetryKeepsInv ==
  ASSUME RequestInv, NEW r \in Requests, request[r].pc \in {"attempt", "in_flight"},
         NEW response \in Responses, Tried(r, response), MayRetry(r, response),
         NEW excluded, excluded = request[r].excluded \cup {request[r].channel},
         NEW next, next.seed \in Nat, next.route.channel \in DOMAIN snapshot.channels,
         next.route.channel \in excluded => Usable(snapshot, RouteGroups) \ excluded = {},
         Retry(r, response, excluded, next),
         UNCHANGED <<snapshot, next_key, reserved>>
  PROVE  RequestInv'
<1> DEFINE key == SelectApiKey(snapshot, next.route.channel, next.seed)
           alternative == Usable(snapshot, RouteGroups) \ excluded # {}
           q == [request[r] EXCEPT !.pc = "attempt", !.channel = next.route.channel,
                                   !.key = key, !.sticky = FALSE, !.once = FALSE,
                                   !.attempt = request[r].attempt + 1,
                                   !.excluded = excluded, !.alternative = alternative]
           att == AttemptOf(r, response)
<1>1. /\ request \in [Requests -> Request] /\ request[r] \in Request /\ RequestTypeOK
      /\ Accounted(r) /\ Looping(r) /\ Elsewhere(r)
  BY Zenon DEF RequestInv, RequestTypeOK
<1>2. IsSnapshot(snapshot) /\ DOMAIN snapshot.channels \subseteq Channels
  BY Zenon, <1>1, HeldSnapshot
<1>3. /\ request[r].channel \in Channels /\ request[r].attempt \in Nat
      /\ request[r].attempt + 1 < MaxUpstreamAttempts
      /\ request[r].attempt < MaxUpstreamAttempts /\ ~request[r].once
      /\ response.status = "retryable" /\ excluded \in SUBSET Channels
  <2>1. /\ request[r].channel \in Channels /\ request[r].attempt \in 0..MaxUpstreamAttempts
        /\ request[r].attempt + 1 < MaxUpstreamAttempts /\ ~request[r].once
        /\ response.status = "retryable" /\ excluded \in SUBSET Channels
    BY ZenonT(30), <1>1 DEF Looping, MayRetry, Request
  <2>2. ASSUME NEW n \in 0..MaxUpstreamAttempts, n + 1 < MaxUpstreamAttempts
        PROVE  n \in Nat /\ n < MaxUpstreamAttempts
    BY <2>2
  <2> QED BY Zenon, <2>1, <2>2
<1>5. next.route.channel \in excluded => ~alternative
  BY Zenon
<1>6. key \in Nat
  BY Zenon, <1>2, ApiKeyIsNat
<1>7. alternative \in BOOLEAN
  BY Zenon
<1>8. /\ request' = [request EXCEPT ![r] = q] /\ UNCHANGED <<pins, usage>>
      /\ Blame(r, response, [channel |-> next.route.channel, key |-> key])
  BY Zenon DEF Retry
<1> HIDE DEF key, alternative
<1>9. /\ q \in Request /\ q.pc = "attempt" /\ q.channel = next.route.channel
      /\ ~q.sticky /\ ~q.once /\ q.attempt = request[r].attempt + 1
      /\ q.excluded = excluded /\ q.alternative = alternative
      /\ q.lost = request[r].lost /\ q.pre_consumed = request[r].pre_consumed
  <2> DEFINE n == request[r].attempt + 1
  <2>1. n \in 0..MaxUpstreamAttempts /\ next.route.channel \in Channels \cup {NoChannel}
    <3>1. \A m \in Nat : m + 1 < MaxUpstreamAttempts => m + 1 \in 0..MaxUpstreamAttempts
      OBVIOUS
    <3> QED BY Zenon, <1>2, <1>3, <3>1
  <2> HIDE DEF n
  <2>2. q = [request[r] EXCEPT !.pc = "attempt", !.channel = next.route.channel, !.key = key,
                               !.sticky = FALSE, !.once = FALSE, !.attempt = n,
                               !.excluded = excluded, !.alternative = alternative]
    BY Zenon DEF n
  <2> HIDE DEF q
  <2>3. /\ q \in Request /\ q.pc = "attempt" /\ q.channel = next.route.channel
        /\ q.sticky = FALSE /\ q.once = FALSE /\ q.attempt = n
        /\ q.excluded = excluded /\ q.alternative = alternative
        /\ q.lost = request[r].lost /\ q.pre_consumed = request[r].pre_consumed
    BY ZenonT(30), <1>1, <1>3, <1>6, <1>7, <2>1, <2>2 DEF Request
  <2> QED BY Zenon, <2>3 DEF n
<1> HIDE DEF q
<1>10. /\ request' \in [Requests -> Request] /\ request'[r] = q
       /\ \A p \in Requests \ {r} : request'[p] = request[p]
  BY Zenon, <1>1, <1>8, <1>9
<1>11. /\ tried' \in [Requests -> Seq(Attempt)] /\ Len(tried'[r]) = request[r].attempt + 1
       /\ tried'[r][request[r].attempt + 1] = att
       /\ \A i \in 1..request[r].attempt : tried'[r][i] = tried[r][i]
       /\ feedback' \in [Requests -> Seq([channel : Channels, key : Nat])]
       /\ \A p \in Requests \ {r} : tried'[p] = tried[p] /\ feedback'[p] = feedback[p]
       /\ Exact(r)'
  BY Zenon, <1>8, AttemptAdded
<1>11a. /\ Len(tried'[r]) <= MaxUpstreamAttempts /\ DOMAIN tried'[r] = 1..(request[r].attempt + 1)
        /\ \A i \in 1..(request[r].attempt + 1) :
             i = request[r].attempt + 1 \/ i \in 1..request[r].attempt
  <2>1. /\ tried'[r] \in Seq(Attempt) /\ Len(tried'[r]) = request[r].attempt + 1
        /\ request[r].attempt \in Nat /\ request[r].attempt < MaxUpstreamAttempts
    BY Zenon, <1>3, <1>11
  <2> QED BY Zenon, <2>1, OneAttemptMore
<1>12. ~att.once /\ att.status = "retryable"
  BY Zenon, <1>3 DEF AttemptOf
<1> HIDE DEF att
<1>13. RequestTypeOK'
  <2>1. ASSUME NEW p \in Requests PROVE Len(tried'[p]) <= MaxUpstreamAttempts
    <3>1. CASE p = r
      BY Zenon, <1>11a, <3>1
    <3>2. CASE p # r
      BY Zenon, <1>1, <1>11, <3>2 DEF RequestTypeOK
    <3> QED BY Zenon, <3>1, <3>2
  <2> QED BY Zenon, <1>1, <1>8, <1>10, <1>11, <2>1 DEF RequestTypeOK
<1>14. Accounted(r)'
  BY Zenon, <1>1, <1>8, <1>9, <1>10 DEF Accounted
<1>15. \A i \in DOMAIN tried'[r] : ~tried'[r][i].once /\ tried'[r][i].status # "success"
  <2>1. DOMAIN tried'[r] = 1..(request[r].attempt + 1)
    BY Zenon, <1>11a
  <2>2. DOMAIN tried[r] = 1..request[r].attempt
    <3>1. tried[r] \in Seq(Attempt) /\ Len(tried[r]) = request[r].attempt
      BY Zenon, <1>1 DEF RequestTypeOK, Looping
    <3> QED BY Zenon, <3>1, ListFacts
  <2>3. \A i \in 1..request[r].attempt :
          ~tried[r][i].once /\ tried[r][i].status # "success"
    BY Zenon, <1>1, <2>2 DEF Looping
  <2>4. ASSUME NEW i \in 1..(request[r].attempt + 1)
        PROVE  ~tried'[r][i].once /\ tried'[r][i].status # "success"
    <3>1. CASE i = request[r].attempt + 1
      BY Zenon, <1>11, <1>12, <3>1
    <3>2. CASE i \in 1..request[r].attempt
      BY Zenon, <1>11, <2>3, <3>2
    <3> QED BY Zenon, <1>11a, <3>1, <3>2
  <2> QED BY Zenon, <2>1, <2>4
<1>16. Looping(r)'
  <2>1. usage'[r] = <<>> /\ q.channel \in Channels
    BY Zenon, <1>1, <1>2, <1>5, <1>8, <1>9 DEF Accounted
  <2> QED BY Zenon, <1>3, <1>9, <1>10, <1>11, <1>15, <2>1 DEF Looping
<1>17. Elsewhere(r)'
  BY Zenon, <1>5, <1>9, <1>10, <1>15 DEF Elsewhere
<1>18. PinnedAtFirst'
  <2> SUFFICES ASSUME NEW s \in Sessions, pins'[s] # NoChannel
               PROVE  \E p \in Requests : /\ Session[p] = s /\ Len(tried'[p]) = 1
                                          /\ tried'[p][1].channel = pins'[s]
                                          /\ tried'[p][1].status = "success"
    BY Zenon DEF PinnedAtFirst
  <2>1. pins' = pins
    BY Zenon, <1>8
  <2> QED BY Zenon, <1>11, <2>1, EarnedStays
<1>19. OnlyMoves(r)
  BY Zenon, <1>8, <1>10, <1>11 DEF OnlyMoves
<1>20. next_key' = Cardinality(Begun)'
  <2>1. Begun' = Begun
    BY Zenon, <1>9, <1>10 DEF Begun
  <2> QED BY Zenon, <2>1 DEF RequestInv
<1> QED BY Zenon, <1>11, <1>13, <1>14, <1>16, <1>17, <1>18, <1>19, <1>20, OneRequestMoves

\* An attempt that ends the loop.
LEMMA ConcludeKeepsInv ==
  ASSUME RequestInv, NEW r \in Requests, request[r].pc \in {"attempt", "in_flight"},
         NEW response \in Responses, Tried(r, response), Conclude(r, response),
         UNCHANGED <<snapshot, next_key, reserved>>
  PROVE  RequestInv'
<1> DEFINE to(pc) == [request[r] EXCEPT !.pc = pc]
           event == [channel |-> request[r].channel, pre_consumed |-> request[r].pre_consumed]
           Event == [channel : Channels, pre_consumed : BOOLEAN]
           att == AttemptOf(r, response)
<1>1. /\ request \in [Requests -> Request] /\ request[r] \in Request /\ RequestTypeOK
      /\ Accounted(r) /\ Looping(r) /\ Elsewhere(r)
  BY Zenon DEF RequestInv, RequestTypeOK
<1>2. /\ request[r].channel \in Channels /\ request[r].attempt \in Nat
      /\ request[r].attempt < MaxUpstreamAttempts
      /\ r \in reserved /\ ~request[r].lost /\ request[r].pre_consumed = TRUE
      /\ usage[r] = <<>>
  <2>1. /\ request[r].channel \in Channels /\ request[r].attempt \in 0..MaxUpstreamAttempts
        /\ request[r].attempt < MaxUpstreamAttempts
        /\ r \in reserved /\ ~request[r].lost /\ request[r].pre_consumed = TRUE
        /\ usage[r] = <<>>
    BY Zenon, <1>1 DEF Looping, Accounted, Request
  <2>2. ASSUME NEW n \in 0..MaxUpstreamAttempts PROVE n \in Nat
    OBVIOUS
  <2> QED BY Zenon, <2>1, <2>2
<1>3. \A pc \in {"stream", "done"} :
        /\ to(pc) \in Request /\ to(pc).pc = pc /\ to(pc).channel = request[r].channel
        /\ to(pc).sticky = request[r].sticky /\ to(pc).once = request[r].once
        /\ to(pc).attempt = request[r].attempt /\ to(pc).excluded = request[r].excluded
        /\ to(pc).alternative = request[r].alternative
        /\ to(pc).lost = request[r].lost /\ to(pc).pre_consumed = request[r].pre_consumed
  BY Zenon, <1>1 DEF Request
<1>4. \/ request' = [request EXCEPT ![r] = to("stream")] /\ usage' = usage
      \/ /\ request' = [request EXCEPT ![r] = to("done")]
         /\ usage' = [usage EXCEPT ![r] = Append(usage[r], event)]
  BY Zenon DEF Conclude, Finish, Report
<1>5. event = [channel |-> request[r].channel, pre_consumed |-> TRUE] /\ event \in Event
  BY Zenon, <1>2
<1> HIDE DEF to
<1>6. PICK q \in Request :
        /\ request' = [request EXCEPT ![r] = q]
        /\ \/ q.pc = "stream" /\ usage' = usage
           \/ q.pc = "done" /\ usage' = [usage EXCEPT ![r] = Append(usage[r], event)]
        /\ q.channel = request[r].channel
        /\ q.sticky = request[r].sticky /\ q.once = request[r].once
        /\ q.attempt = request[r].attempt /\ q.excluded = request[r].excluded
        /\ q.alternative = request[r].alternative
        /\ q.lost = request[r].lost /\ q.pre_consumed = request[r].pre_consumed
  BY Zenon, <1>3, <1>4
<1>7. /\ request' \in [Requests -> Request] /\ request'[r] = q
      /\ \A p \in Requests \ {r} : request'[p] = request[p]
  BY Zenon, <1>1, <1>6
<1>8. /\ usage' \in [Requests -> Seq(Event)]
      /\ usage'[r] = IF q.pc = "done" THEN <<event>> ELSE <<>>
      /\ \A p \in Requests \ {r} : usage'[p] = usage[p]
  <2>1. usage \in [Requests -> Seq(Event)]
    BY Zenon, <1>1 DEF RequestTypeOK
  <2> HIDE DEF event, Event
  <2>2. Append(usage[r], event) \in Seq(Event) /\ Append(usage[r], event) = <<event>>
    <3>1. usage[r] = <<>> /\ <<>> \in Seq(Event) /\ event \in Event
      BY Zenon, <1>2, <1>5, <2>1
    <3>2. Append(<<>>, event) = <<event>> /\ <<event>> \in Seq(Event)
      BY <3>1
    <3> QED BY Zenon, <3>1, <3>2
  <2> QED BY Zenon, <1>2, <1>6, <2>1, <2>2
<1>9. /\ tried' \in [Requests -> Seq(Attempt)] /\ Len(tried'[r]) = request[r].attempt + 1
      /\ tried'[r][request[r].attempt + 1] = att
      /\ \A i \in 1..request[r].attempt : tried'[r][i] = tried[r][i]
      /\ feedback' \in [Requests -> Seq([channel : Channels, key : Nat])]
      /\ \A p \in Requests \ {r} : tried'[p] = tried[p] /\ feedback'[p] = feedback[p]
      /\ Exact(r)'
  <2>1. \E n : Blame(r, response, n)
    BY Zenon DEF Conclude
  <2> QED BY Zenon, <2>1, AttemptAdded
<1>9a. /\ Len(tried'[r]) <= MaxUpstreamAttempts /\ tried'[r] # <<>>
       /\ DOMAIN tried'[r] = 1..(request[r].attempt + 1)
       /\ \A i \in 1..(request[r].attempt + 1) :
            i = request[r].attempt + 1 \/ i \in 1..request[r].attempt
       /\ request[r].attempt = 0 => Len(tried'[r]) = 1 /\ request[r].attempt + 1 = 1
  <2>1. /\ tried'[r] \in Seq(Attempt) /\ Len(tried'[r]) = request[r].attempt + 1
        /\ request[r].attempt \in Nat /\ request[r].attempt < MaxUpstreamAttempts
    BY Zenon, <1>2, <1>9
  <2> QED BY Zenon, <2>1, OneAttemptMore
<1>10. /\ att.once = request[r].once /\ att.status = response.status
       /\ att.channel = request[r].channel
  BY Zenon DEF AttemptOf
<1> HIDE DEF att
<1>11. \/ pins' = pins
       \/ /\ request[r].sticky /\ response.status = "success"
          /\ pins' = [pins EXCEPT ![Session[r]] = request[r].channel]
  BY Zenon DEF Conclude, RecordAffinity
<1>12. request[r].sticky => Session[r] \in Sessions /\ request[r].attempt = 0
  BY Zenon, <1>1 DEF Looping, Sessions
<1>13. RequestTypeOK'
  <2>1. pins' \in [Sessions -> Channels \cup {NoChannel}]
    BY Zenon, <1>1, <1>2, <1>11 DEF RequestTypeOK
  <2>2. ASSUME NEW p \in Requests PROVE Len(tried'[p]) <= MaxUpstreamAttempts
    <3>1. CASE p = r
      BY Zenon, <1>9a, <3>1
    <3>2. CASE p # r
      BY Zenon, <1>1, <1>9, <3>2 DEF RequestTypeOK
    <3> QED BY Zenon, <3>1, <3>2
  <2> QED BY Zenon, <1>1, <1>7, <1>8, <1>9, <2>1, <2>2 DEF RequestTypeOK
<1>14. Accounted(r)'
  BY Zenon, <1>2, <1>5, <1>6, <1>7, <1>8 DEF Accounted
<1>15. Looping(r)'
  <2>1. tried'[r] # <<>> /\ tried'[r][Len(tried'[r])].channel = q.channel
    BY Zenon, <1>6, <1>9, <1>9a, <1>10
  <2> QED BY Zenon, <1>1, <1>2, <1>6, <1>7, <2>1 DEF Looping
<1>16. Elsewhere(r)'
  <2>1. ASSUME NEW i \in DOMAIN tried'[r], tried'[r][i].once
        PROVE  Len(tried'[r]) = 1
    <3>1. i \in 1..(request[r].attempt + 1)
      BY Zenon, <1>9a
    <3>2. CASE i = request[r].attempt + 1
      <4>1. request[r].attempt = 0
        BY Zenon, <1>1, <1>9, <1>10, <2>1, <3>2 DEF Looping
      <4> QED BY Zenon, <1>9a, <4>1
    <3>3. CASE i \in 1..request[r].attempt
      <4>1. tried[r] \in Seq(Attempt) /\ Len(tried[r]) = request[r].attempt
        BY Zenon, <1>1 DEF RequestTypeOK, Looping
      <4>2. i \in DOMAIN tried[r]
        BY Zenon, <3>3, <4>1, ListFacts
      <4> QED BY Zenon, <1>1, <1>9, <2>1, <3>3, <4>2 DEF Looping
    <3> QED BY Zenon, <1>9a, <3>1, <3>2, <3>3
  <2> QED BY Zenon, <1>1, <1>6, <1>7, <2>1 DEF Elsewhere
<1>17. PinnedAtFirst'
  <2> SUFFICES ASSUME NEW s \in Sessions, pins'[s] # NoChannel
               PROVE  \E p \in Requests : /\ Session[p] = s /\ Len(tried'[p]) = 1
                                          /\ tried'[p][1].channel = pins'[s]
                                          /\ tried'[p][1].status = "success"
    BY Zenon DEF PinnedAtFirst
  <2>1. CASE pins'[s] = pins[s]
    <3>1. \E p \in Requests : /\ Session[p] = s /\ Len(tried'[p]) = 1
                              /\ tried'[p][1].channel = pins[s]
                              /\ tried'[p][1].status = "success"
      BY Zenon, <1>9, <2>1, EarnedStays
    <3> QED BY Zenon, <2>1, <3>1
  <2>2. CASE pins'[s] # pins[s]
    <3>1. /\ s = Session[r] /\ pins'[s] = request[r].channel
          /\ request[r].sticky /\ response.status = "success"
      BY Zenon, <1>1, <1>11, <2>2 DEF RequestTypeOK
    <3>2. Len(tried'[r]) = 1 /\ tried'[r][1] = att
      BY Zenon, <1>9, <1>9a, <1>12, <3>1
    <3> QED BY Zenon, <1>10, <3>1, <3>2
  <2> QED BY Zenon, <2>1, <2>2
<1>18. OnlyMoves(r)
  BY Zenon, <1>7, <1>8, <1>9 DEF OnlyMoves
<1>19. next_key' = Cardinality(Begun)'
  <2>1. Begun' = Begun
    BY Zenon, <1>6, <1>7 DEF Begun
  <2> QED BY Zenon, <2>1 DEF RequestInv
<1> QED BY Zenon, <1>9, <1>13, <1>14, <1>15, <1>16, <1>17, <1>18, <1>19, OneRequestMoves

\* The answer to an attempt: a retry, or the end of the loop.
LEMMA AnsweredKeepsInv ==
  ASSUME RequestInv, NEW r \in Requests, request[r].pc \in {"attempt", "in_flight"},
         NEW response \in Responses, Answered(r, response)
  PROVE  RequestInv'
<1> DEFINE excluded == request[r].excluded \cup {request[r].channel}
           next == RetryRoute(request[r].attempt + 1, excluded)
<1>1. /\ Tried(r, response) /\ UNCHANGED <<snapshot, next_key, reserved>>
      /\ \/ /\ MayRetry(r, response) /\ next.route.ok
            /\ Retry(r, response, excluded, next)
         \/ Conclude(r, response)
  BY Zenon DEF Answered
<1> HIDE DEF next
<1>2. CASE Conclude(r, response)
  BY Zenon, <1>1, <1>2, ConcludeKeepsInv
<1>3. CASE MayRetry(r, response) /\ next.route.ok /\ Retry(r, response, excluded, next)
  <2>1. RequestTypeOK /\ request[r].attempt \in Nat
    <3>1. RequestTypeOK /\ request[r] \in Request
      BY Zenon DEF RequestInv, RequestTypeOK
    <3>2. request[r].attempt \in 0..MaxUpstreamAttempts
      BY Zenon, <3>1 DEF Request
    <3> QED BY <3>1, <3>2
  <2> HIDE DEF excluded
  <2>2. /\ next.seed \in Nat /\ next.route.channel \in DOMAIN snapshot.channels
        /\ next.route.channel \in excluded => Usable(snapshot, RouteGroups) \ excluded = {}
    BY Zenon, <1>3, <2>1, RetryRouteIs DEF next
  <2>3. excluded = request[r].excluded \cup {request[r].channel}
    BY Zenon DEF excluded
  <2> QED BY Zenon, <1>1, <1>3, <2>2, <2>3, RetryKeepsInv
<1> QED BY Zenon, <1>1, <1>2, <1>3

\* Every outcome that the model enumerates is such a response.
LEMMA ResponseIs ==
  ASSUME NEW status \in Statuses, NEW from_channel \in BOOLEAN, NEW stream \in BOOLEAN
  PROVE  Response(status, from_channel, stream) \in Responses
<1>1. (from_channel /\ status # "success") \in BOOLEAN
  BY Zenon
<1> QED BY Zenon, <1>1 DEF Response, Responses

\* Every step of the request path keeps the invariant.
LEMMA RequestNext_Inv == RequestInv /\ [RequestNext]_gateway_vars => RequestInv'
<1> SUFFICES ASSUME RequestInv, [RequestNext]_gateway_vars PROVE RequestInv'
  BY Zenon
<1>1. CASE Environment \/ UNCHANGED gateway_vars
  BY Zenon, <1>1, EnvironmentKeepsInv DEF gateway_vars
<1>2. ASSUME NEW r \in Requests, Begin(r) PROVE RequestInv'
  BY Zenon, <1>2, BeginKeepsInv
<1>3. ASSUME NEW r \in Requests, Proceed(r) PROVE RequestInv'
  <2>1. CASE Grant(r) \/ Refused(r) \/ Granted(r) \/ GrantLost(r) \/ Send(r)
    BY Zenon, <2>1, ReservationKeepsInv
  <2>2. CASE StreamEnds(r)
    BY Zenon, <2>2, StreamEndsKeepsInv
  <2>3. ASSUME NEW status \in Statuses, NEW from_channel \in BOOLEAN, NEW stream \in BOOLEAN,
               request[r].pc \in {"attempt", "in_flight"},
               Answered(r, Response(status, from_channel, stream))
        PROVE  RequestInv'
    BY Zenon, <2>3, ResponseIs, AnsweredKeepsInv
  <2>4. CASE CircuitRejects(r)
    BY Zenon, <2>3, <2>4 DEF CircuitRejects, Statuses
  <2>5. CASE Unconvertible(r) \/ Unsupported(r)
    BY Zenon, <2>3, <2>5 DEF Unconvertible, Unsupported, Statuses
  <2>6. CASE TransportFails(r)
    BY Zenon, <2>3, <2>6 DEF TransportFails, Statuses
  <2>7. CASE BodyLost(r)
    BY Zenon, <2>3, <2>7 DEF BodyLost, Statuses
  <2>8. ASSUME NEW status \in Statuses, NEW stream \in BOOLEAN, Responds(r, status, stream)
        PROVE  RequestInv'
    BY Zenon, <2>3, <2>8 DEF Responds
  <2> QED BY Zenon, <1>3, <2>1, <2>2, <2>4, <2>5, <2>6, <2>7, <2>8 DEF Proceed, Answer
<1> QED BY Zenon, <1>1, <1>2, <1>3 DEF RequestNext

-----------------------------------------------------------------------------
\* The invariant of the attempt loop holds of every request, however its awaits
\* interleave with those of others, with snapshot swaps and with the breaker.
THEOREM RequestInvariant == RequestSpec => []RequestInv
  BY RequestInit_Inv, RequestNext_Inv, PTL DEF RequestSpec

\* Every path of ChatGatewayService::call that ends a request with a reservation
\* reports it in exactly one usage event, and no other path reports one.
THEOREM ReservationsReportedOnce == RequestSpec => []ReservationReportedOnce
<1>1. RequestInv => ReservationReportedOnce
  <2> SUFFICES ASSUME RequestInv, NEW r \in Requests
               PROVE  /\ Len(usage[r]) =
                           IF request[r].pc = "done" /\ r \in reserved /\ ~request[r].lost
                             THEN 1 ELSE 0
                      /\ \A i \in DOMAIN usage[r] : usage[r][i].pre_consumed
    BY Zenon DEF ReservationReportedOnce
  <2>1. Accounted(r)
    BY Zenon DEF RequestInv
  <2> DEFINE event == [channel |-> request[r].channel, pre_consumed |-> TRUE]
  <2>2. event.pre_consumed
    BY Zenon
  <2>3. usage[r] = IF request[r].pc = "done" /\ r \in reserved /\ ~request[r].lost
                     THEN <<event>> ELSE <<>>
    BY Zenon, <2>1 DEF Accounted
  <2> HIDE DEF event
  <2> QED BY <2>2, <2>3
<1> QED BY <1>1, RequestInvariant, PTL

\* report_channel_feedback names the channel and the key of the attempt that
\* failed, once for each, and UsageReporter.report the channel tried last.
THEOREM FeedbackIsExact == RequestSpec => []BlameIsExact
<1>1. RequestInv => BlameIsExact
  <2> SUFFICES ASSUME RequestInv, NEW r \in Requests
               PROVE  /\ Exact(r)
                      /\ usage[r] # <<>> => usage[r][1].channel = tried[r][Len(tried[r])].channel
    BY Zenon DEF BlameIsExact, Exact
  <2>1. Accounted(r) /\ Looping(r) /\ Exact(r)
    BY Zenon DEF RequestInv
  <2>2. usage[r] # <<>> => usage[r][1].channel = request[r].channel
    <3> DEFINE event == [channel |-> request[r].channel, pre_consumed |-> TRUE]
    <3>1. event.channel = request[r].channel
      BY Zenon
    <3>2. usage[r] \in {<<event>>, <<>>}
      BY Zenon, <2>1 DEF Accounted
    <3> HIDE DEF event
    <3> QED BY <3>1, <3>2
  <2>3. usage[r] # <<>> => tried[r][Len(tried[r])].channel = request[r].channel
    BY Zenon, <2>1 DEF Looping
  <2> QED BY Zenon, <2>1, <2>2, <2>3
<1> QED BY <1>1, RequestInvariant, PTL

\* retry_route goes back to a channel that failed only for want of another, and
\* the loop never retries a request whose affinity rule skips retries.
THEOREM RetriesGoElsewhere == RequestSpec => []RetryGoesElsewhere
<1>1. RequestInv => RetryGoesElsewhere
  BY Zenon DEF RequestInv, Elsewhere, RetryGoesElsewhere
<1> QED BY <1>1, RequestInvariant, PTL

\* record_affinity pins a session only to a channel that gave one of its requests
\* a successful answer.
THEOREM PinsEarned == RequestSpec => []PinsAreEarned
<1>1. RequestInv => PinsAreEarned
  <2> SUFFICES ASSUME RequestInv, NEW s \in Sessions, pins[s] # NoChannel
               PROVE  \E r \in Requests :
                        /\ Session[r] = s
                        /\ \E i \in DOMAIN tried[r] :
                             tried[r][i].channel = pins[s] /\ tried[r][i].status = "success"
    BY Zenon DEF PinsAreEarned
  <2>1. PICK r \in Requests : /\ Session[r] = s /\ Len(tried[r]) = 1
                              /\ tried[r][1].channel = pins[s] /\ tried[r][1].status = "success"
    BY Zenon DEF RequestInv, PinnedAtFirst
  <2>2. tried[r] \in Seq(Attempt)
    BY Zenon DEF RequestInv, RequestTypeOK
  <2>3. 1 \in DOMAIN tried[r]
    BY <2>1, <2>2
  <2> QED BY Zenon, <2>1, <2>3
<1> QED BY <1>1, RequestInvariant, PTL

\* In front of the breaker the attempt loop is a client like any other: what it
\* does to the breaker are steps of the breaker, so that the breaker's
\* guarantees hold in the gateway.
THEOREM RequestsUseCircuit == RequestSpec => CircuitSpec
<1>1. [RequestNext]_gateway_vars => [CircuitNext]_circuit_vars
  <2> SUFFICES ASSUME [RequestNext]_gateway_vars PROVE [CircuitNext]_circuit_vars
    BY Zenon
  <2> USE DEF CircuitNext, Ends, circuit_vars
  <2>1. CASE UNCHANGED gateway_vars
    BY Zenon, <2>1 DEF gateway_vars
  <2>2. CASE Environment
    BY Zenon, <2>2 DEF Environment, Swap, PinExpires
  <2>3. ASSUME NEW r \in Requests, Begin(r) PROVE UNCHANGED circuit_vars
    BY Zenon, <2>3 DEF Begin
  <2>4. ASSUME NEW r \in Requests, Proceed(r) PROVE [CircuitNext]_circuit_vars
    <3>1. r \in Calls
      BY Zenon
    <3>2. CASE Grant(r) \/ Refused(r) \/ Granted(r) \/ GrantLost(r) \/ StreamEnds(r)
               \/ CircuitRejects(r) \/ Unconvertible(r) \/ Unsupported(r)
      BY Zenon, <3>2 DEF Grant, Refused, Granted, GrantLost, StreamEnds, CircuitRejects,
                         Unconvertible, Unsupported
    <3>3. CASE Send(r)
      BY Zenon, <3>1, <3>3 DEF Send, Proxied
    <3>4. CASE Answer(r)
      BY Zenon, <3>1, <3>4 DEF Answer, TransportFails, BodyLost, Responds
    <3> QED BY Zenon, <2>4, <3>2, <3>3, <3>4 DEF Proceed
  <2> QED BY Zenon, <2>1, <2>2, <2>3, <2>4 DEF RequestNext
<1> QED BY <1>1, PTL DEF RequestSpec, CircuitSpec

\* So the breaker keeps its promises in the request path: a half-open circuit has
\* a request that holds its probe, and none opens before the threshold.
THEOREM RequestsKeepProbe == RequestSpec => [](HalfOpenHasProbe /\ OpenIsEarned)
  BY RequestsUseCircuit, ProbeIsNeverLost, OpeningIsEarned, PTL

-----------------------------------------------------------------------------
(***************************************************************************)
(* The end of every request.  Liveness is left to TLC; what it rests on is *)
(* that each step of a request brings it nearer to its end, and that a     *)
(* call in flight holds the permit that its answer gives back.             *)
(***************************************************************************)

\* A request moves on within an attempt, or to the next one.
Nearer(p, q) ==
  \/ /\ q.attempt = p.attempt
     /\ \/ p.pc = "new" /\ q.pc \in {"reserve", "done"}
        \/ p.pc = "reserve" /\ q.pc \in {"granted", "done"}
        \/ p.pc = "granted" /\ q.pc \in {"attempt", "done"}
        \/ p.pc = "attempt" /\ q.pc \in {"in_flight", "stream", "done"}
        \/ p.pc = "in_flight" /\ q.pc \in {"stream", "done"}
        \/ p.pc = "stream" /\ q.pc = "done"
  \/ p.pc \in {"attempt", "in_flight"} /\ q.pc = "attempt" /\ q.attempt = p.attempt + 1

\* Moving on leaves fewer steps.
LEMMA NearerHasFewer ==
  ASSUME NEW p, NEW q, p.attempt \in 0..MaxUpstreamAttempts, Nearer(p, q)
  PROVE  StepsToEnd(q) < StepsToEnd(p)
  BY DEF Nearer, StepsToEnd

\* An end of a request's wait, with or without a retry, moves it on.
LEMMA AnsweredMoves ==
  ASSUME RequestTypeOK, NEW r \in Requests, request[r].pc \in {"attempt", "in_flight"},
         NEW response, Answered(r, response)
  PROVE  \E q : /\ request' = [request EXCEPT ![r] = q] /\ Nearer(request[r], q)
                /\ q.pc # "in_flight"
<1>1. request[r] \in Request
  BY Zenon DEF RequestTypeOK
<1>2. ASSUME NEW excluded, NEW next, Retry(r, response, excluded, next)
      PROVE  \E q : /\ request' = [request EXCEPT ![r] = q] /\ Nearer(request[r], q)
                    /\ q.pc # "in_flight"
  <2> DEFINE key == SelectApiKey(snapshot, next.route.channel, next.seed)
             alternative == Usable(snapshot, RouteGroups) \ excluded # {}
             q == [request[r] EXCEPT !.pc = "attempt", !.channel = next.route.channel,
                                     !.key = key, !.sticky = FALSE, !.once = FALSE,
                                     !.attempt = request[r].attempt + 1,
                                     !.excluded = excluded, !.alternative = alternative]
  <2>1. request' = [request EXCEPT ![r] = q]
    BY Zenon, <1>2 DEF Retry
  <2> HIDE DEF key, alternative
  <2>2. q.pc = "attempt" /\ q.attempt = request[r].attempt + 1
    BY Zenon, <1>1 DEF Request
  <2> HIDE DEF q
  <2>3. Nearer(request[r], q) /\ q.pc # "in_flight"
    BY Zenon, <2>2 DEF Nearer
  <2> QED BY Zenon, <2>1, <2>3
<1>3. ASSUME NEW pc \in {"stream", "done"},
             request' = [request EXCEPT ![r] = [@ EXCEPT !.pc = pc]]
      PROVE  \E q : /\ request' = [request EXCEPT ![r] = q] /\ Nearer(request[r], q)
                    /\ q.pc # "in_flight"
  <2> DEFINE q == [request[r] EXCEPT !.pc = pc]
  <2>1. request' = [request EXCEPT ![r] = q] /\ q.pc = pc /\ q.attempt = request[r].attempt
    BY Zenon, <1>1, <1>3 DEF RequestTypeOK, Request
  <2> HIDE DEF q
  <2>2. Nearer(request[r], q) /\ q.pc # "in_flight"
    BY Zenon, <2>1 DEF Nearer
  <2> QED BY Zenon, <2>1, <2>2
<1>4. \/ \E excluded, next : Retry(r, response, excluded, next)
      \/ \E pc \in {"stream", "done"} : request' = [request EXCEPT ![r] = [@ EXCEPT !.pc = pc]]
  BY Zenon DEF Answered, Conclude, Finish
<1> QED BY Zenon, <1>2, <1>3, <1>4

\* Only the request that acts moves, and it moves on.
LEMMA RequestMoves ==
  ASSUME RequestTypeOK, NEW r \in Requests, Begin(r) \/ Proceed(r)
  PROVE  \E q : request' = [request EXCEPT ![r] = q] /\ Nearer(request[r], q)
<1>1. request[r] \in Request
  BY Zenon DEF RequestTypeOK
<1>2. ASSUME NEW q, request' = [request EXCEPT ![r] = q], q.attempt = request[r].attempt,
             \/ request[r].pc = "new" /\ q.pc \in {"reserve", "done"}
             \/ request[r].pc = "reserve" /\ q.pc \in {"granted", "done"}
             \/ request[r].pc = "granted" /\ q.pc \in {"attempt", "done"}
             \/ request[r].pc = "attempt" /\ q.pc = "in_flight"
             \/ request[r].pc = "stream" /\ q.pc = "done"
      PROVE  \E n : request' = [request EXCEPT ![r] = n] /\ Nearer(request[r], n)
  BY Zenon, <1>2 DEF Nearer
<1>3. ASSUME NEW pc, request' = [request EXCEPT ![r] = [@ EXCEPT !.pc = pc]],
             \/ request[r].pc = "new" /\ pc = "done"
             \/ request[r].pc = "reserve" /\ pc \in {"granted", "done"}
             \/ request[r].pc = "attempt" /\ pc = "in_flight"
             \/ request[r].pc = "stream" /\ pc = "done"
      PROVE  \E n : request' = [request EXCEPT ![r] = n] /\ Nearer(request[r], n)
  <2> DEFINE q == [request[r] EXCEPT !.pc = pc]
  <2>1. request' = [request EXCEPT ![r] = q] /\ q.pc = pc /\ q.attempt = request[r].attempt
    BY Zenon, <1>1, <1>3 DEF RequestTypeOK, Request
  <2> HIDE DEF q
  <2> QED BY Zenon, <1>2, <1>3, <2>1
<1>4. CASE Begin(r) /\ ~FirstRoute(r).ok
  BY Zenon, <1>3, <1>4 DEF Begin, Finish
<1>5. CASE Begin(r) /\ FirstRoute(r).ok
  <2> DEFINE route == FirstRoute(r)
             key == SelectApiKey(snapshot, route.channel, next_key)
             once == HasAffinity(r) /\ snapshot.affinity.skip_retry_on_failure
             q == [request[r] EXCEPT !.pc = "reserve", !.channel = route.channel,
                                     !.key = key, !.sticky = HasAffinity(r), !.once = once]
  <2>1. request[r].pc = "new" /\ request' = [request EXCEPT ![r] = q]
    BY Zenon, <1>5 DEF Begin
  <2> HIDE DEF route, key, once
  <2>2. q.pc = "reserve" /\ q.attempt = request[r].attempt
    BY Zenon, <1>1 DEF Request
  <2> HIDE DEF q
  <2> QED BY Zenon, <1>2, <2>1, <2>2
<1>6. CASE Grant(r) \/ Refused(r) \/ Send(r) \/ StreamEnds(r)
  BY Zenon, <1>3, <1>6 DEF Grant, Refused, Send, Enter, StreamEnds, Finish
<1>7. CASE Granted(r)
  <2> DEFINE q == [request[r] EXCEPT !.pc = "attempt", !.pre_consumed = TRUE]
  <2>1. /\ request' = [request EXCEPT ![r] = q] /\ request[r].pc = "granted"
        /\ q.pc = "attempt" /\ q.attempt = request[r].attempt
    BY Zenon, <1>1, <1>7 DEF Granted, RequestTypeOK, Request
  <2> HIDE DEF q
  <2> QED BY Zenon, <1>2, <2>1
<1>8. CASE GrantLost(r)
  <2> DEFINE q == [request[r] EXCEPT !.pc = "done", !.lost = TRUE]
  <2>1. /\ request' = [request EXCEPT ![r] = q] /\ request[r].pc = "granted"
        /\ q.pc = "done" /\ q.attempt = request[r].attempt
    BY Zenon, <1>1, <1>8 DEF GrantLost, RequestTypeOK, Request
  <2> HIDE DEF q
  <2> QED BY Zenon, <1>2, <2>1
<1>9. CASE Unconvertible(r) \/ Unsupported(r) \/ CircuitRejects(r) \/ Answer(r)
  <2> DEFINE moved == \E n : request' = [request EXCEPT ![r] = n] /\ Nearer(request[r], n)
  <2>1. ASSUME NEW status \in Statuses, NEW from_channel \in BOOLEAN, NEW stream \in BOOLEAN,
               request[r].pc \in {"attempt", "in_flight"},
               Answered(r, Response(status, from_channel, stream))
        PROVE  moved
    <3> DEFINE response == Response(status, from_channel, stream)
    <3>1. Answered(r, response)
      BY Zenon, <2>1
    <3> HIDE DEF response
    <3> QED BY Zenon, <2>1, <3>1, AnsweredMoves
  <2> HIDE DEF moved
  <2>2. CASE Unconvertible(r) \/ Unsupported(r) \/ CircuitRejects(r)
    <3>1. moved
      BY Zenon, <2>1, <2>2 DEF Unconvertible, Unsupported, CircuitRejects, Statuses
    <3> QED BY Zenon, <3>1 DEF moved
  <2>3. ASSUME NEW status \in Statuses, NEW stream \in BOOLEAN, Responds(r, status, stream)
        PROVE  moved
    BY Zenon, <2>1, <2>3 DEF Responds
  <2>4. CASE TransportFails(r) \/ BodyLost(r)
    <3>1. moved
      BY Zenon, <2>1, <2>4 DEF TransportFails, BodyLost, Statuses
    <3> QED BY Zenon, <3>1 DEF moved
  <2> QED BY Zenon, <1>9, <2>2, <2>3, <2>4 DEF Answer, moved
<1> QED BY Zenon, <1>4, <1>5, <1>6, <1>7, <1>8, <1>9 DEF Proceed

\* The attempt loop and the awaits around it only ever move a request on: it ends
\* after at most 3 * MAX_UPSTREAM_ATTEMPTS + 6 steps of its own.
THEOREM RequestsAlwaysAdvance == RequestSpec => RequestsAdvance
<1>1. ASSUME RequestInv, [RequestNext]_gateway_vars, NEW r \in Requests,
             request'[r] # request[r]
      PROVE  StepsToEnd(request'[r]) < StepsToEnd(request[r])
  <2>1. RequestTypeOK /\ request \in [Requests -> Request]
    BY Zenon, <1>1 DEF RequestInv, RequestTypeOK
  <2>2. request[r].attempt \in 0..MaxUpstreamAttempts
    BY Zenon, <2>1 DEF Request
  <2>3. PICK p \in Requests : Begin(p) \/ Proceed(p)
    BY Zenon, <1>1 DEF RequestNext, Environment, Swap, PinExpires, gateway_vars, request_vars
  <2>4. PICK q : request' = [request EXCEPT ![p] = q] /\ Nearer(request[p], q)
    BY Zenon, <2>1, <2>3, RequestMoves
  <2>5. p = r /\ request'[r] = q
    BY Zenon, <1>1, <2>1, <2>4
  <2> QED BY Zenon, <2>2, <2>4, <2>5, NearerHasFewer
<1>2. RequestInv /\ [RequestNext]_gateway_vars =>
        [\A r \in Requests :
           request'[r] # request[r] =>
             StepsToEnd(request'[r]) < StepsToEnd(request[r])]_gateway_vars
  BY Zenon, <1>1
<1> QED BY <1>2, RequestInvariant, PTL DEF RequestSpec, RequestsAdvance

\* The permit of a request, and where it is, determine each other.
PermitFollows(r) ==
  permit[r] = IF request[r].pc = "in_flight" /\ Proxied(r)
                THEN IF failure_threshold = 0 THEN DisabledPermit ELSE request[r].channel
                ELSE NoPermit

\* The steps of one request leave the permits of the others alone.
LEMMA OthersKeepPermits ==
  ASSUME RequestTypeOK, CircuitTypeOK, NEW r \in Requests, NEW q, NEW held,
         request' = [request EXCEPT ![r] = q], permit' = [permit EXCEPT ![r] = held],
         failure_threshold' = failure_threshold, PermitsFollowRequests
  PROVE  /\ \A p \in Requests \ {r} : PermitFollows(p)'
         /\ request'[r] = q /\ permit'[r] = held
<1>1. r \in Calls /\ Requests \subseteq Calls
  BY Zenon, GatewayRequestAssumption
<1>2. request'[r] = q /\ permit'[r] = held
  BY Zenon, <1>1 DEF RequestTypeOK, CircuitTypeOK
<1>3. ASSUME NEW p \in Requests \ {r} PROVE PermitFollows(p)'
  <2>1. request'[p] = request[p] /\ permit'[p] = permit[p] /\ PermitFollows(p)
    BY Zenon, <1>1 DEF RequestTypeOK, CircuitTypeOK, PermitsFollowRequests, PermitFollows
  <2> QED BY Zenon, <2>1 DEF PermitFollows, Proxied
<1> QED BY Zenon, <1>2, <1>3

\* A step that leaves the breaker alone and the request without a call in flight.
LEMMA NoCallNoPermit ==
  ASSUME RequestTypeOK, CircuitTypeOK, NEW r \in Requests, NEW q, q.pc # "in_flight",
         request' = [request EXCEPT ![r] = q], PermitsFollowRequests,
         failure_threshold' = failure_threshold,
         \/ permit' = [permit EXCEPT ![r] = NoPermit]
         \/ permit' = permit /\ permit[r] = NoPermit
  PROVE  PermitsFollowRequests'
<1>1. r \in Calls
  BY Zenon, GatewayRequestAssumption
<1>2. permit' = [permit EXCEPT ![r] = NoPermit]
  BY Zenon, <1>1 DEF CircuitTypeOK
<1>3. /\ \A p \in Requests \ {r} : PermitFollows(p)'
      /\ request'[r] = q /\ permit'[r] = NoPermit
  BY Zenon, <1>2, OthersKeepPermits
<1>4. PermitFollows(r)'
  BY Zenon, <1>3 DEF PermitFollows
<1> QED BY Zenon, <1>3, <1>4 DEF PermitsFollowRequests, PermitFollows

\* Every step of the request path keeps the permits with their requests.
LEMMA PermitsNext ==
  ASSUME RequestTypeOK, CircuitTypeOK, PermitsFollowRequests, [RequestNext]_gateway_vars
  PROVE  PermitsFollowRequests'
<1> USE DEF PermitsFollowRequests
<1>1. CASE UNCHANGED <<request, permit, failure_threshold>>
  BY Zenon, <1>1 DEF Proxied
<1>2. CASE Environment \/ UNCHANGED gateway_vars
  BY Zenon, <1>1, <1>2 DEF Environment, Swap, PinExpires, CooldownElapses, OutageBegins,
                           OutageEnds, gateway_vars, request_vars, circuit_vars
<1> USE DEF PermitFollows
<1>3. ASSUME NEW r \in Requests, Begin(r) \/ Proceed(r) PROVE PermitsFollowRequests'
  <2>1. PermitFollows(r) /\ r \in Calls
    BY Zenon, GatewayRequestAssumption
  <2> HIDE DEF PermitsFollowRequests, PermitFollows
  <2>2. PICK q : request' = [request EXCEPT ![r] = q] /\ Nearer(request[r], q)
    BY Zenon, <1>3, RequestMoves
  <2>3. CASE q.pc # "in_flight" /\ request[r].pc # "in_flight" /\ UNCHANGED circuit_vars
    <3>1. permit[r] = NoPermit
      BY Zenon, <2>1, <2>3 DEF PermitFollows
    <3> QED BY Zenon, <2>2, <2>3, <3>1, NoCallNoPermit DEF circuit_vars
  <2>4. CASE Begin(r) \/ Grant(r) \/ Refused(r) \/ Granted(r) \/ GrantLost(r) \/ StreamEnds(r)
    <3>1. q.pc # "in_flight" /\ request[r].pc # "in_flight"
      BY Zenon, <2>2, <2>4 DEF Nearer, Begin, Grant, Refused, Granted, GrantLost, StreamEnds
    <3>2. UNCHANGED circuit_vars
      BY Zenon, <2>4 DEF Begin, Grant, Refused, Granted, GrantLost, StreamEnds
    <3> QED BY Zenon, <2>3, <3>1, <3>2
  <2>5. CASE Unconvertible(r) \/ Unsupported(r) \/ CircuitRejects(r)
    <3>1. \E response : Answered(r, response)
      BY Zenon, <2>5 DEF Unconvertible, Unsupported, CircuitRejects
    <3>2. request[r].pc = "attempt" /\ UNCHANGED circuit_vars
      BY Zenon, <2>5 DEF Unconvertible, Unsupported, CircuitRejects
    <3>3. PICK n : request' = [request EXCEPT ![r] = n] /\ n.pc # "in_flight"
      BY Zenon, <3>1, <3>2, AnsweredMoves
    <3>4. permit[r] = NoPermit
      BY Zenon, <2>1, <3>2 DEF PermitFollows
    <3> QED BY Zenon, <3>2, <3>3, <3>4, NoCallNoPermit DEF circuit_vars
  <2>6. CASE Answer(r)
    <3>1. PICK response : /\ request[r].pc = "in_flight" /\ Answered(r, response)
                          /\ IF Proxied(r)
                               THEN Success(r) \/ Failure(r) \/ EndsUncounted(r)
                               ELSE UNCHANGED circuit_vars
      BY Zenon, <2>6 DEF Answer, Responds, TransportFails, BodyLost
    <3>2. PICK n : request' = [request EXCEPT ![r] = n] /\ n.pc # "in_flight"
      BY Zenon, <3>1, AnsweredMoves
    <3>3. CASE Proxied(r)
      <4>1. permit' = [permit EXCEPT ![r] = NoPermit] /\ failure_threshold' = failure_threshold
        BY Zenon, <3>1, <3>3 DEF Success, Failure, Fails, EndsUncounted, Release
      <4> QED BY Zenon, <3>2, <4>1, NoCallNoPermit
    <3>4. CASE ~Proxied(r)
      <4>1. permit[r] = NoPermit /\ UNCHANGED circuit_vars
        BY Zenon, <2>1, <3>1, <3>4 DEF PermitFollows
      <4> QED BY Zenon, <3>2, <4>1, NoCallNoPermit DEF circuit_vars
    <3> QED BY Zenon, <3>3, <3>4
  <2>7. CASE Send(r)
    <3> DEFINE n == [request[r] EXCEPT !.pc = "in_flight"]
    <3>1. /\ request' = [request EXCEPT ![r] = n] /\ n.pc = "in_flight"
          /\ n.channel = request[r].channel /\ request[r].pc = "attempt"
      BY Zenon, <2>7 DEF Send, Enter, RequestTypeOK, Request
    <3> HIDE DEF n
    <3>2. permit[r] = NoPermit
      BY Zenon, <2>1, <3>1 DEF PermitFollows
    <3> DEFINE held == IF Proxied(r)
                         THEN IF failure_threshold = 0 THEN DisabledPermit
                              ELSE request[r].channel
                         ELSE NoPermit
    <3>3. permit' = [permit EXCEPT ![r] = held] /\ failure_threshold' = failure_threshold
      <4>1. CASE Proxied(r)
        BY Zenon, <2>7, <4>1 DEF Send, Acquire
      <4>2. CASE ~Proxied(r)
        BY Zenon, <2>1, <2>7, <3>2, <4>2 DEF Send, circuit_vars, CircuitTypeOK
      <4> QED BY Zenon, <4>1, <4>2
    <3>4. held = IF n.channel \in Routes
                   THEN IF failure_threshold = 0 THEN DisabledPermit ELSE n.channel
                   ELSE NoPermit
      BY Zenon, <3>1 DEF Proxied
    <3> HIDE DEF held
    <3>5. /\ \A p \in Requests \ {r} : PermitFollows(p)'
          /\ request'[r] = n /\ permit'[r] = held
      BY Zenon, <3>1, <3>3, OthersKeepPermits
    <3>6. PermitFollows(r)'
      BY Zenon, <3>1, <3>3, <3>4, <3>5 DEF PermitFollows, Proxied
    <3> QED BY Zenon, <3>5, <3>6 DEF PermitsFollowRequests, PermitFollows
  <2> QED BY Zenon, <1>3, <2>4, <2>5, <2>6, <2>7 DEF Proceed
<1> QED BY Zenon, <1>2, <1>3 DEF RequestNext

\* The attempt loop and the breaker agree on who has a call out: the permit that
\* acquire gives is held until the answer, and goes back to the circuit it came
\* from, through every retry and every change of the snapshot.
THEOREM PermitsAlwaysFollow == RequestSpec => []PermitsFollowRequests
<1>1. RequestInit /\ CircuitInit => PermitsFollowRequests
  <2> SUFFICES ASSUME RequestInit, CircuitInit, NEW r \in Requests PROVE PermitFollows(r)
    BY Zenon DEF PermitsFollowRequests, PermitFollows
  <2>1. r \in Calls
    BY Zenon, GatewayRequestAssumption
  <2>2. permit[r] = NoPermit /\ request[r].pc = "new"
    BY Zenon, <2>1 DEF RequestInit, CircuitInit, NewRequest
  <2> QED BY Zenon, <2>2 DEF PermitFollows
<1>2. RequestInv /\ CircuitInv => RequestTypeOK /\ CircuitTypeOK
  BY Zenon DEF RequestInv, CircuitInv
<1>3. /\ RequestInv /\ CircuitInv /\ PermitsFollowRequests
      /\ [RequestNext]_gateway_vars
      => PermitsFollowRequests'
  BY Zenon, <1>2, PermitsNext
<1> QED BY <1>1, <1>3, RequestInvariant, RequestsUseCircuit, CircuitInvariant, PTL DEF RequestSpec

=============================================================================
