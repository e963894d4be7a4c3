------------------------------ MODULE Topology ------------------------------
(***************************************************************************)
(* TopologyBuilder::build: the dendrogram, then the tiers of the nodes,    *)
(* the hidden nodes and the edges between them, each a step.               *)
(*                                                                         *)
(* A hidden node is a record of its tier and of the nodes of its cluster;  *)
(* infer_hidden_nodes does not keep the members, construct_edges finds     *)
(* them again by building the same dendrogram and going through the same   *)
(* cuts.  Its number hv_id is its place in `hidden' minus one.  Labels,    *)
(* types and confidences are left out.                                     *)
(***************************************************************************)
EXTENDS Dendrogram, SequencesExt

CONSTANTS
  Thresholds,  \* tier_thresholds
  MinSize,     \* min_cluster_size_for_switch
  Scale        \* units of distance in a nanosecond

ASSUME ThresholdsAssumption ==
  /\ Thresholds \in Seq(Nat)
  /\ \A s, t \in DOMAIN Thresholds : s < t => Thresholds[s] < Thresholds[t]
ASSUME ScaleAssumption ==
  MinSize \in Nat \ {0} /\ Scale \in Nat \ {0}

VARIABLES phase, tier, cluster, hidden, edges
tvars == <<phase, tier, cluster, hidden, edges>>
vars == <<dvars, tvars>>

TopTier == Len(Thresholds)   \* of nodes that cluster with nobody
Tiers == 0 .. TopTier

Init ==
  /\ DInit
  /\ phase = "cluster"
  /\ tier = [a \in Leaves |-> TopTier] /\ cluster = [a \in Leaves |-> a]
  /\ hidden = <<>> /\ edges = {}

BuildDendrogram == phase = "cluster" /\ Merge /\ UNCHANGED tvars

----------------------------------------------------------------------------
\* The threshold of a tier; the highest tier gets all remaining merges.
Threshold(t) == IF t < TopTier THEN Thresholds[t + 1] ELSE max_distance + Scale

\* The place of a's cluster in the cut of tier t.
Place(t, a) == CHOOSE k \in DOMAIN Cut(Threshold(t)) : a \in Cut(Threshold(t))[k]
Companions(t, a) == Cut(Threshold(t))[Place(t, a)] \ {a}

\* Faulty variant: a looser grouping replaces a tighter one.
LoosestTier(a) ==
  LET ts == {t \in 0 .. TopTier - 1 : Companions(t, a) # {}}
  IN  IF ts = {} THEN TopTier ELSE Max(ts)

\* The first threshold at which a clusters with somebody.
TierOf(a) ==
  LET ts == {t \in 0 .. TopTier - 1 : Companions(t, a) # {}}
  IN  IF ts = {} THEN TopTier ELSE Min(ts)

\* Cluster numbers before normalisation: the place in the cut, or the node's
\* own number.
RawCluster(a) == IF TierOf(a) = TopTier THEN a ELSE Place(TierOf(a), a) - 1

\* Renumbered within the tier, in the order in which the nodes bring them up.
Normalised(a) ==
  LET peers == {b \in Leaves : TierOf(b) = TierOf(a)}
      first == Min({b \in peers : RawCluster(b) = RawCluster(a)})
  IN  Cardinality({RawCluster(b) : b \in {c \in peers : c < first}})

AssignTiers ==
  /\ phase = "cluster" /\ Built
  /\ tier' = [a \in Leaves |-> TierOf(a)]
  /\ cluster' = [a \in Leaves |-> Normalised(a)]
  /\ phase' = "tiers"
  /\ UNCHANGED <<dvars, hidden, edges>>

----------------------------------------------------------------------------
\* Faulty variant: a cluster counts at every tier at which it exists.
AnyClusters(t) ==
  LET cut == Cut(Threshold(t))
  IN  FlattenSeq([k \in DOMAIN cut |->
        IF Cardinality(cut[k]) >= MinSize THEN <<cut[k]>> ELSE <<>>])

\* Large enough, and not yet a cluster of the tier below.
IsNew(c, t) ==
  /\ Cardinality(c) >= MinSize
  /\ t > 0 => c \notin ToSet(Cut(Threshold(t - 1)))

\* The clusters of a tier that count, in the order of the cut.
NewClusters(t) ==
  LET cut == Cut(Threshold(t))
  IN  FlattenSeq([k \in DOMAIN cut |-> IF IsNew(cut[k], t) THEN <<cut[k]>> ELSE <<>>])

\* Hidden nodes are one tier above the nodes they connect.
InferHiddenNodes ==
  /\ phase = "tiers"
  /\ hidden' = FlattenSeq([t \in 1 .. TopTier + 1 |->
                 LET new == NewClusters(t - 1)
                 IN  [k \in DOMAIN new |-> [tier |-> t, members |-> new[k]]]])
  /\ phase' = "hidden"
  /\ UNCHANGED <<dvars, tier, cluster, edges>>

----------------------------------------------------------------------------
Ns(d) == d \div Scale
Hidden == DOMAIN hidden

\* A physical node is connected to the hidden node of the lowest tier there is,
\* if it is a member of one (0 if not).
Attached(a) ==
  LET hs == {h \in Hidden : hidden[h].tier = hidden[1].tier /\ a \in hidden[h].members}
  IN  IF hs = {} THEN 0 ELSE Min(hs)

\* Faulty variant: the whole way instead of half of it.
AttachedNsWhole(a) ==
  LET others == hidden[Attached(a)].members \ {a}
  IN  IF others = {} THEN 0
      ELSE SumFunctionOnSet([b \in Leaves |-> Ns(lat[a][b])], others) \div Cardinality(others)

\* Half the average latency to the others, rounded down twice.
AttachedNs(a) ==
  LET others == hidden[Attached(a)].members \ {a}
      total  == SumFunctionOnSet([b \in Leaves |-> Ns(lat[a][b])], others)
  IN  IF others = {} THEN 0 ELSE (total \div Cardinality(others)) \div 2

\* Faulty variant: any hidden node of the next tier.
ParentUnchecked(h) ==
  LET hs == {u \in Hidden : hidden[u].tier = hidden[h].tier + 1}
  IN  IF hs = {} THEN 0 ELSE Min(hs)

\* The hidden node of the next tier that contains all members of h (0: none).
Parent(h) ==
  LET hs == {u \in Hidden : /\ hidden[u].tier = hidden[h].tier + 1
                            /\ hidden[h].members \subseteq hidden[u].members}
  IN  IF hs = {} THEN 0 ELSE Min(hs)

\* The latency of the edge from h to its parent: what is left of half the
\* average latency across, after the way from the first member up to h, which
\* follows edges made before (and counts as nothing where they are missing).
UpNs ==
  LET up[h \in Hidden] ==
        LET inside  == hidden[h].members
            across  == inside \X (hidden[Parent(h)].members \ inside)
            total   == SumFunctionOnSet([p \in Leaves \X Leaves |-> lat[p[1]][p[2]]], across)
            sample  == Min(inside)
            climb[k \in Hidden \cup {0}] ==
              IF k \in {0, h} \/ Parent(k) = 0 \/ hidden[k].tier >= hidden[h].tier THEN 0
              ELSE up[k] + climb[Parent(k)]
            way     == IF Attached(sample) = 0 THEN 0
                       ELSE AttachedNs(sample) + climb[Attached(sample)]
            rest    == total - 2 * way * Scale * Cardinality(across)
        IN  IF Parent(h) = 0 \/ across = {} \/ rest <= 0 THEN 0
            ELSE rest \div (2 * Scale * Cardinality(across))
  IN  up

ConstructEdges ==
  /\ phase = "hidden"
  /\ edges' =
       {[kind |-> "node", from |-> a, to |-> Attached(a), ns |-> AttachedNs(a)] :
          a \in {b \in Leaves : hidden # <<>> /\ Attached(b) # 0}}
       \cup
       {[kind |-> "hidden", from |-> h, to |-> Parent(h), ns |-> UpNs[h]] :
          h \in {k \in Hidden : Parent(k) # 0}}
  /\ phase' = "done"
  /\ UNCHANGED <<dvars, tier, cluster, hidden>>

Finished == phase = "done" /\ UNCHANGED vars

Next ==
  \/ BuildDendrogram
  \/ AssignTiers
  \/ InferHiddenNodes
  \/ ConstructEdges
  \/ Finished

Spec == Init /\ [][Next]_vars

----------------------------------------------------------------------------
(***************************************************************************)
(* Properties.                                                             *)
(***************************************************************************)

\* With single linkage a node's tier is the first threshold within which it
\* has a neighbour at all; with every linkage two nodes of a tier have the same
\* cluster number exactly if they share a cluster at that tier's threshold.
\* A neighbour exactly at a threshold is within it, as cut_at_threshold has it
\* (dendrogram.hpp:56); TiersAsDocumented is the other reading.
TiersAreTightest ==
  phase # "cluster" =>
    \A a, b \in Leaves :
      /\ linkage = "SINGLE" /\ a # b /\ tier[a] > 0 =>
           lat[a][b] > Thresholds[tier[a]]
      /\ a # b /\ tier[a] = tier[b] =>
           (cluster[a] = cluster[b] <=> tier[a] < TopTier /\ b \in Companions(tier[a], a))

\* The hidden nodes are the clusters that any threshold shows, each once, at
\* the first tier that shows it.
HiddenAreClusters ==
  phase \in {"hidden", "done"} =>
    /\ \A h, k \in Hidden : hidden[h].members = hidden[k].members => h = k
    /\ \A h \in Hidden :
         hidden[h].members \in ToSet(Cut(Threshold(hidden[h].tier - 1)))
    /\ \A t \in Tiers : \A c \in ToSet(Cut(Threshold(t))) :
         Cardinality(c) >= MinSize =>
           \E h \in Hidden : hidden[h].members = c /\ hidden[h].tier <= t + 1

\* a is in a cluster with a hidden node, and no hidden node is of a lower tier than
\* that one.
InLowestTier(a) ==
  \E h \in Hidden :
    a \in hidden[h].members /\ \A k \in Hidden : hidden[h].tier <= hidden[k].tier

\* The edges form a forest that goes upwards: from every node at most one, and
\* to a hidden node whose cluster contains it.  In the end exactly the members of
\* the clusters of the lowest tier with any are connected: whoever joins a cluster
\* later is not, which docs/topology.md:284 ("Connect each physical node to its
\* cluster's hidden node") does not say.
EdgesAreForest ==
  /\ \A e \in edges :
       /\ e.kind = "node"   => e.from \in hidden[e.to].members
       /\ e.kind = "hidden" => /\ hidden[e.from].tier < hidden[e.to].tier
                               /\ hidden[e.from].members \subseteq hidden[e.to].members
       /\ \A f \in edges : e.kind = f.kind /\ e.from = f.from => e = f
  /\ phase = "done" =>
       \A a \in Leaves : InLowestTier(a) <=> \E e \in edges : e.kind = "node" /\ e.from = a

\* The latencies on the way from node a to hidden node h (-1: there is no way).
WayUp(a, h) ==
  LET way[k \in Hidden] ==
        IF k = h THEN 0
        ELSE LET es == {e \in edges : e.kind = "hidden" /\ e.from = k}
             IN  IF es = {} THEN -1
                 ELSE LET e == CHOOSE e \in es : TRUE
                      IN  IF way[e.to] < 0 THEN -1 ELSE e.ns + way[e.to]
      es == {e \in edges : e.kind = "node" /\ e.from = a}
  IN  IF es = {} THEN -1
      ELSE LET e == CHOOSE e \in es : TRUE
           IN  IF way[e.to] < 0 THEN -1 ELSE e.ns + way[e.to]

\* The first hidden node that joins two nodes.
Join(a, b) ==
  LET hs == {h \in Hidden : {a, b} \subseteq hidden[h].members}
  IN  IF hs = {} THEN 0 ELSE Min(hs)

\* No cluster within that of h lasts over a tier: each has a parent.  Where one
\* does, construct_edges cannot climb from it (a parent is exactly one tier
\* above), takes the way below h for shorter than it is, and gives h too long an
\* edge.
NoTierSkipped(h) ==
  \A k \in Hidden :
    k # h /\ hidden[k].members \subseteq hidden[h].members => Parent(k) # 0

\* In a network whose latencies are whole and even in nanoseconds and depend
\* only on where two nodes join, and in which every node is connected, the
\* latencies of the edges explain the measurements: there is a way from each of
\* two nodes up to where they join, and the two add up to what was measured.
Regular ==
  /\ \A a, b, c, d \in Leaves :
       a # b /\ c # d /\ Join(a, b) = Join(c, d) => lat[a][b] = lat[c][d]
  /\ \A a, b \in Leaves : lat[a][b] % (2 * Scale) = 0
  /\ \A a \in Leaves : \E e \in edges : e.kind = "node" /\ e.from = a

EdgesExplainLatencies ==
  phase = "done" /\ Regular =>
    \A a, b \in Leaves :
      LET h == Join(a, b)
      IN  a # b /\ h # 0 /\ NoTierSkipped(h) =>
            /\ WayUp(a, h) >= 0 /\ WayUp(b, h) >= 0
            /\ WayUp(a, h) + WayUp(b, h) = Ns(lat[a][b])

\* tier_config.hpp:50: "Nodes clustering below threshold[i] are assigned tier i",
\* and docs/topology_module.md:41: "< 5 us", ..., ">= 50 us".  With single linkage
\* a node clusters at the distance of its nearest neighbour.
TiersAsDocumented ==
  phase # "cluster" /\ linkage = "SINGLE" =>
    \A a \in Leaves, t \in 0 .. TopTier - 1 :
      tier[a] <= t <=> \E b \in Leaves \ {a} : lat[a][b] < Thresholds[t + 1]
=============================================================================
