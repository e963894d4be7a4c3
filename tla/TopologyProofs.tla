--------------------------- MODULE TopologyProofs ---------------------------
(***************************************************************************)
(* TopologyBuilder::build for every number of leaves, every matrix, every  *)
(* linkage and any thresholds, in the order in which it works:             *)
(*   - the clustering: clusters form a partition, merges get higher, and   *)
(*     with single and complete linkage they are those of the textbook;    *)
(*   - the dendrogram and its cuts;                                        *)
(*   - tiers, hidden nodes and edges, each phase on top of the one before; *)
(*   - the latencies of the edges, in networks that have one per cluster.  *)
(***************************************************************************)
EXTENDS Topology, Induction

Cluster == [left : Nat, right : Nat, merge : Nat, members : SUBSET Leaves]

Shape ==
  /\ lat \in [Leaves -> [Leaves -> Nat]] /\ dist \in [Leaves -> [Leaves -> Nat]]
  /\ linkage \in Linkages
  /\ nodes \in Seq(Cluster) /\ nodes # <<>>
  /\ active \subseteq Leaves
  /\ node \in [Leaves -> 1 .. Len(nodes)]

\* The members of the active clusters partition the leaves.
Partition ==
  /\ \A i \in active : i \in Members(i)
  /\ \A i, j \in active : i # j => Members(i) \cap Members(j) = {}
  /\ \A a \in Leaves : \E i \in active : a \in Members(i)

\* Both halves of the matrices agree where they are still in use.
Mirrored ==
  /\ \A a, b \in Leaves : lat[a][b] = lat[b][a]
  /\ \A i, j \in active : i # j => dist[i][j] = dist[j][i]

Least(d, A, B) ==
  /\ \E a \in A, b \in B : d = lat[a][b]
  /\ \A a \in A, b \in B : d <= lat[a][b]

Largest(d, A, B) ==
  /\ \E a \in A, b \in B : d = lat[a][b]
  /\ \A a \in A, b \in B : d >= lat[a][b]

\* The distances in use are those of the linkage.
Extremal ==
  \A i, j \in active : i # j =>
    /\ linkage = "SINGLE"   => Least(dist[i][j], Members(i), Members(j))
    /\ linkage = "COMPLETE" => Largest(dist[i][j], Members(i), Members(j))

\* No two clusters are closer than the latest merge was.
Beyond == \A i, j \in active : i # j => max_distance <= dist[i][j]

DInv == Shape /\ Partition /\ Mirrored /\ Extremal /\ Beyond

----------------------------------------------------------------------------
(***************************************************************************)
(* The distance of a cluster to two that are merged.                       *)
(***************************************************************************)

\* An average of two numbers, weighed by at least one each, is between them.
LEMMA WeighedAverage ==
  ASSUME NEW a \in Nat, NEW b \in Nat, NEW p \in Nat \ {0}, NEW q \in Nat \ {0}, NEW m \in Nat,
         m <= a, m <= b
  PROVE  (a * p + b * q) \div (p + q) \in Nat /\ m <= (a * p + b * q) \div (p + q)
  <1> DEFINE s == a * p + b * q
             d == p + q
  <1>1. a * p \in Nat /\ b * q \in Nat /\ m * p \in Nat /\ m * q \in Nat
    OBVIOUS
  <1>2. s \in Nat /\ d \in Nat \ {0} /\ m * d \in Nat
    BY <1>1
  <1>3. m * p <= a * p /\ m * q <= b * q
    OBVIOUS
  <1>4. m * d = m * p + m * q
    OBVIOUS
  <1>5. m * d <= s
    BY <1>1, <1>3, <1>4
  <1> HIDE DEF s, d
  <1>6. s \div d \in Nat /\ m <= s \div d
    BY <1>2, <1>5
  <1> QED
    BY <1>6 DEF s, d

\* A cluster has a size.
LEMMA SizeFacts ==
  ASSUME DInv, NEW i \in active
  PROVE  Size(i) \in Nat \ {0}
  <1>1. IsFiniteSet(Leaves)
    BY NAssumption, FS_Interval DEF Leaves
  <1>2. Members(i) \subseteq Leaves /\ i \in Members(i)
    <2>1. nodes \in Seq(Cluster) /\ node[i] \in 1 .. Len(nodes)
      BY DEF DInv, Shape
    <2>2. nodes[node[i]] \in Cluster
      BY <2>1
    <2> QED
      BY <2>2 DEF DInv, Partition, Members, Cluster
  <1>3. IsFiniteSet(Members(i))
    BY <1>1, <1>2, FS_Subset
  <1> QED
    BY <1>2, <1>3, FS_CardinalityType, FS_EmptySet DEF Size

LEMMA LinkedFacts ==
  ASSUME DInv, NEW i \in active, NEW j \in active, NEW k \in active,
         NEW m \in Nat, m <= dist[i][k], m <= dist[j][k]
  PROVE  Linked(i, j, k) \in Nat /\ m <= Linked(i, j, k)
  <1>1. dist[i][k] \in Nat /\ dist[j][k] \in Nat /\ linkage \in {"SINGLE", "COMPLETE", "AVERAGE"}
    BY LinkagesAssumption DEF DInv, Shape
  <1>2. CASE linkage = "SINGLE"
    BY <1>1, <1>2 DEF Linked
  <1>3. CASE linkage = "COMPLETE"
    BY <1>1, <1>3 DEF Linked
  <1>4. CASE linkage = "AVERAGE"
    <2>1. Linked(i, j, k) = (dist[i][k] * Size(i) + dist[j][k] * Size(j)) \div (Size(i) + Size(j))
      BY <1>4 DEF Linked
    <2> DEFINE a == dist[i][k]
               b == dist[j][k]
               p == Size(i)
               q == Size(j)
    <2>2. a \in Nat /\ b \in Nat /\ p \in Nat \ {0} /\ q \in Nat \ {0} /\ m <= a /\ m <= b
      BY <1>1, SizeFacts
    <2>3. Linked(i, j, k) = (a * p + b * q) \div (p + q)
      BY <2>1
    <2> HIDE DEF a, b, p, q
    <2> QED
      BY <2>2, <2>3, WeighedAverage
  <1> QED
    BY <1>1, <1>2, <1>3, <1>4

----------------------------------------------------------------------------
(***************************************************************************)
(* A merge.                                                                *)
(***************************************************************************)

\* The merge of i and j.
MergeOf(i, j) ==
  /\ i < j /\ Closest(i, j)
  /\ nodes' = Append(nodes, [left |-> node[i], right |-> node[j],
                             merge |-> dist[i][j],
                             members |-> Members(i) \cup Members(j)])
  /\ dist' = Updated(i, j)
  /\ active' = active \ {j}
  /\ node' = [node EXCEPT ![i] = Len(nodes) + 1]
  /\ UNCHANGED <<lat, linkage>>

\* The pair is closest in whichever order a pair is looked at.
LEMMA ClosestFacts ==
  ASSUME DInv, NEW i \in active, NEW j \in active, i < j, Closest(i, j)
  PROVE  \A k, l \in active : k # l => dist[i][j] <= dist[k][l]
  <1> SUFFICES ASSUME NEW k \in active, NEW l \in active, k # l
               PROVE  dist[i][j] <= dist[k][l]
    OBVIOUS
  <1>1. k \in Int /\ l \in Int
    BY DEF DInv, Shape, Leaves
  <1>2. dist[i][j] \in Nat /\ dist[k][l] \in Nat /\ dist[l][k] = dist[k][l]
    BY DEF DInv, Shape, Mirrored
  <1>3. \A q \in Candidates : dist[i][j] < dist[q[1]][q[2]] \/ dist[i][j] = dist[q[1]][q[2]]
    BY DEF Closest
  <1>4. CASE k < l
    <2>1. <<k, l>> \in Candidates
      BY <1>4 DEF Candidates
    <2> QED
      BY <1>2, <1>3, <2>1
  <1>5. CASE l < k
    <2>1. <<l, k>> \in Candidates
      BY <1>5 DEF Candidates
    <2> QED
      BY <1>2, <1>3, <2>1
  <1> QED
    BY <1>1, <1>4, <1>5

\* What a merge leaves behind.
LEMMA MergeFacts ==
  ASSUME DInv, NEW i \in active, NEW j \in active, MergeOf(i, j)
  PROVE  /\ max_distance' = dist[i][j]
         /\ Members(i)' = Members(i) \cup Members(j)
         /\ \A k \in active \ {i, j} :
              /\ Members(k)' = Members(k)
              /\ dist'[i][k] = Linked(i, j, k) /\ dist'[k][i] = Linked(i, j, k)
              /\ \A l \in active \ {i, j} : dist'[k][l] = dist[k][l]
  <1> DEFINE n == [left |-> node[i], right |-> node[j], merge |-> dist[i][j],
                   members |-> Members(i) \cup Members(j)]
  <1>1. i \in Leaves /\ j \in Leaves /\ i # j
    BY DEF DInv, Shape, MergeOf, Leaves
  <1>2. nodes \in Seq(Cluster) /\ node \in [Leaves -> 1 .. Len(nodes)]
    BY DEF DInv, Shape
  <1>3. nodes' = Append(nodes, n) /\ node' = [node EXCEPT ![i] = Len(nodes) + 1]
    BY DEF MergeOf
  <1>4. Len(nodes') = Len(nodes) + 1 /\ nodes'[Len(nodes) + 1] = n
        /\ \A x \in 1 .. Len(nodes) : nodes'[x] = nodes[x]
    BY <1>2, <1>3
  <1>5. max_distance' = dist[i][j]
    BY <1>4 DEF max_distance
  <1>6. Members(i)' = Members(i) \cup Members(j)
    BY <1>1, <1>2, <1>3, <1>4 DEF Members
  <1>7. ASSUME NEW k \in active \ {i, j}
        PROVE  /\ Members(k)' = Members(k)
               /\ dist'[i][k] = Linked(i, j, k) /\ dist'[k][i] = Linked(i, j, k)
               /\ \A l \in active \ {i, j} : dist'[k][l] = dist[k][l]
    <2>1. k \in Leaves
      BY DEF DInv, Shape
    <2>2. Members(k)' = Members(k)
      BY <1>2, <1>3, <1>4, <2>1 DEF Members
    <2>3. dist' = Updated(i, j) /\ active \subseteq Leaves
      BY DEF MergeOf, DInv, Shape
    <2>4. /\ dist'[i][k] = Linked(i, j, k) /\ dist'[k][i] = Linked(i, j, k)
          /\ \A l \in active \ {i, j} : dist'[k][l] = dist[k][l]
      BY <1>1, <2>1, <2>3 DEF Updated
    <2> QED
      BY <2>2, <2>4
  <1> QED
    BY <1>5, <1>6, <1>7

LEMMA MembersAreLeaves ==
  ASSUME DInv, NEW i \in active
  PROVE  Members(i) \in SUBSET Leaves
  <1>1. nodes \in Seq(Cluster) /\ node[i] \in 1 .. Len(nodes)
    BY DEF DInv, Shape
  <1>2. nodes[node[i]] \in Cluster
    BY <1>1
  <1> QED
    BY <1>2 DEF Members, Cluster

LEMMA ShapeKept ==
  ASSUME DInv, NEW i \in active, NEW j \in active, MergeOf(i, j)
  PROVE  Shape'
  <1>1. /\ i \in Leaves /\ j \in Leaves
        /\ dist \in [Leaves -> [Leaves -> Nat]] /\ active \subseteq Leaves
        /\ nodes \in Seq(Cluster) /\ node \in [Leaves -> 1 .. Len(nodes)]
    BY DEF DInv, Shape
  <1>2. [left |-> node[i], right |-> node[j], merge |-> dist[i][j],
         members |-> Members(i) \cup Members(j)] \in Cluster
    <2>1. Members(i) \cup Members(j) \in SUBSET Leaves
      BY MembersAreLeaves
    <2>2. node[i] \in Nat /\ node[j] \in Nat /\ dist[i][j] \in Nat
      BY <1>1
    <2> QED
      BY <2>1, <2>2 DEF Cluster
  <1>3. nodes' \in Seq(Cluster) /\ nodes' # <<>> /\ Len(nodes') = Len(nodes) + 1
    BY <1>1, <1>2 DEF MergeOf
  <1>4. node' \in [Leaves -> 1 .. Len(nodes')]
    <2>1. Len(nodes) \in Nat /\ node' = [node EXCEPT ![i] = Len(nodes) + 1]
      BY <1>1 DEF MergeOf
    <2>2. 1 .. Len(nodes) \subseteq 1 .. Len(nodes') /\ Len(nodes) + 1 \in 1 .. Len(nodes')
      BY <1>3, <2>1
    <2> QED
      BY <1>1, <2>1, <2>2
  <1>5. dist' \in [Leaves -> [Leaves -> Nat]]
    <2>1. \A k \in active : Linked(i, j, k) \in Nat
      BY <1>1, LinkedFacts
    <2>2. dist' = Updated(i, j)
      BY DEF MergeOf
    <2> QED
      BY <1>1, <2>1, <2>2 DEF Updated
  <1> QED
    BY <1>1, <1>3, <1>4, <1>5 DEF DInv, Shape, MergeOf

LEMMA PartitionKept ==
  ASSUME DInv, NEW i \in active, NEW j \in active, MergeOf(i, j)
  PROVE  Partition'
  <1>1. active' = active \ {j} /\ i # j
    BY DEF MergeOf, DInv, Shape, Leaves
  <1>2. /\ Members(i)' = Members(i) \cup Members(j)
        /\ \A k \in active \ {i, j} : Members(k)' = Members(k)
    BY MergeFacts
  <1>3. Partition
    BY DEF DInv
  <1>4. \A k \in active' : k \in Members(k)'
    BY <1>1, <1>2, <1>3 DEF Partition
  <1>5. \A k, l \in active' : k # l => Members(k)' \cap Members(l)' = {}
    BY <1>1, <1>2, <1>3 DEF Partition
  <1>6. ASSUME NEW a \in Leaves
        PROVE  \E k \in active' : a \in Members(k)'
    <2>1. PICK k \in active : a \in Members(k)
      BY <1>3 DEF Partition
    <2>2. CASE k \in {i, j}
      BY <1>1, <1>2, <2>1, <2>2
    <2>3. CASE k \notin {i, j}
      BY <1>1, <1>2, <2>1, <2>3
    <2> QED
      BY <2>2, <2>3
  <1> QED
    BY <1>4, <1>5, <1>6 DEF Partition

LEMMA MirroredKept ==
  ASSUME DInv, NEW i \in active, NEW j \in active, MergeOf(i, j)
  PROVE  Mirrored'
  <1>1. active' = active \ {j} /\ lat' = lat
    BY DEF MergeOf
  <1>2. \A k \in active \ {i, j} :
          /\ dist'[i][k] = dist'[k][i]
          /\ \A l \in active \ {i, j} : dist'[k][l] = dist[k][l]
    BY MergeFacts
  <1>3. Mirrored
    BY DEF DInv
  <1>4. ASSUME NEW k \in active', NEW l \in active', k # l
        PROVE  dist'[k][l] = dist'[l][k]
    <2>1. CASE k # i /\ l # i
      BY <1>1, <1>2, <1>3, <1>4, <2>1 DEF Mirrored
    <2>2. CASE k = i \/ l = i
      BY <1>1, <1>2, <1>4, <2>2
    <2> QED
      BY <2>1, <2>2
  <1> QED
    BY <1>1, <1>3, <1>4 DEF Mirrored

LEMMA BeyondKept ==
  ASSUME DInv, NEW i \in active, NEW j \in active, MergeOf(i, j)
  PROVE  Beyond' /\ max_distance <= max_distance'
  <1>1. active' = active \ {j} /\ i \in Leaves /\ j \in Leaves /\ i # j
    BY DEF MergeOf, DInv, Shape, Leaves
  <1>2. max_distance' = dist[i][j] /\ dist[i][j] \in Nat
    BY <1>1, MergeFacts DEF DInv, Shape
  <1>3. \A k, l \in active : k # l => dist[i][j] <= dist[k][l]
    BY ClosestFacts DEF MergeOf
  <1>4. \A k \in active \ {i, j} : dist[i][j] <= Linked(i, j, k)
    BY <1>1, <1>2, <1>3, LinkedFacts
  <1>5. \A k \in active \ {i, j} :
          /\ dist'[i][k] = Linked(i, j, k) /\ dist'[k][i] = Linked(i, j, k)
          /\ \A l \in active \ {i, j} : dist'[k][l] = dist[k][l]
    BY MergeFacts
  <1>6. ASSUME NEW k \in active', NEW l \in active', k # l
        PROVE  max_distance' <= dist'[k][l]
    <2>1. CASE k # i /\ l # i
      BY <1>1, <1>2, <1>3, <1>5, <1>6, <2>1
    <2>2. CASE k = i \/ l = i
      BY <1>1, <1>2, <1>4, <1>5, <1>6, <2>2
    <2> QED
      BY <2>1, <2>2
  <1>7. max_distance <= dist[i][j]
    BY <1>1 DEF DInv, Beyond
  <1> QED
    BY <1>2, <1>6, <1>7 DEF Beyond

\* The least and the largest distance of a cluster to two that are merged.
LEMMA JoinedLeast ==
  ASSUME NEW A, NEW B, NEW C, NEW d \in Nat, NEW e \in Nat, Least(d, A, C), Least(e, B, C),
         A \subseteq Leaves, B \subseteq Leaves, C \subseteq Leaves,
         lat \in [Leaves -> [Leaves -> Nat]]
  PROVE  Least(IF d < e THEN d ELSE e, A \cup B, C)
  <1>1. \A a, c \in Leaves : lat[a][c] \in Nat
    OBVIOUS
  <1> QED
    BY <1>1 DEF Least

LEMMA JoinedLargest ==
  ASSUME NEW A, NEW B, NEW C, NEW d \in Nat, NEW e \in Nat, Largest(d, A, C), Largest(e, B, C),
         A \subseteq Leaves, B \subseteq Leaves, C \subseteq Leaves,
         lat \in [Leaves -> [Leaves -> Nat]]
  PROVE  Largest(IF d < e THEN e ELSE d, A \cup B, C)
  <1>1. \A a, c \in Leaves : lat[a][c] \in Nat
    OBVIOUS
  <1> QED
    BY <1>1 DEF Largest

LEMMA ExtremalKept ==
  ASSUME DInv, NEW i \in active, NEW j \in active, MergeOf(i, j)
  PROVE  Extremal'
  <1>1. active' = active \ {j} /\ i # j /\ lat' = lat /\ linkage' = linkage
    BY DEF MergeOf, DInv, Shape, Leaves
  <1>2. /\ lat \in [Leaves -> [Leaves -> Nat]]
        /\ \A k, l \in active : dist[k][l] \in Nat
        /\ \A k \in active : Members(k) \subseteq Leaves
    BY MembersAreLeaves DEF DInv, Shape
  <1>3. /\ Members(i)' = Members(i) \cup Members(j)
        /\ \A k \in active \ {i, j} :
              /\ Members(k)' = Members(k)
              /\ dist'[i][k] = Linked(i, j, k) /\ dist'[k][i] = Linked(i, j, k)
              /\ \A l \in active \ {i, j} : dist'[k][l] = dist[k][l]
    BY MergeFacts
  <1>4. ASSUME NEW k \in active \ {i, j}, linkage = "SINGLE"
        PROVE  /\ Least(dist'[i][k], Members(i)', Members(k)')
               /\ Least(dist'[k][i], Members(k)', Members(i)')
    <2>1. Least(dist[i][k], Members(i), Members(k)) /\ Least(dist[j][k], Members(j), Members(k))
      BY <1>4 DEF DInv, Extremal
    <2>2. Least(Linked(i, j, k), Members(i) \cup Members(j), Members(k))
      BY <1>2, <1>4, <2>1, JoinedLeast DEF Linked
    <2>3. \A a, b \in Leaves : lat[a][b] = lat[b][a]
      BY DEF DInv, Mirrored
    <2>4. Least(Linked(i, j, k), Members(k), Members(i) \cup Members(j))
      BY <1>2, <2>2, <2>3 DEF Least
    <2> QED
      BY <1>3, <2>2, <2>4
  <1>5. ASSUME NEW k \in active \ {i, j}, linkage = "COMPLETE"
        PROVE  /\ Largest(dist'[i][k], Members(i)', Members(k)')
               /\ Largest(dist'[k][i], Members(k)', Members(i)')
    <2>1. Largest(dist[i][k], Members(i), Members(k)) /\ Largest(dist[j][k], Members(j), Members(k))
      BY <1>5 DEF DInv, Extremal
    <2>2. Largest(Linked(i, j, k), Members(i) \cup Members(j), Members(k))
      BY <1>2, <1>5, <2>1, JoinedLargest DEF Linked
    <2>3. \A a, b \in Leaves : lat[a][b] = lat[b][a]
      BY DEF DInv, Mirrored
    <2>4. Largest(Linked(i, j, k), Members(k), Members(i) \cup Members(j))
      BY <1>2, <2>2, <2>3 DEF Largest
    <2> QED
      BY <1>3, <2>2, <2>4
  <1>6. ASSUME NEW k \in active', NEW l \in active', k # l
        PROVE  /\ linkage = "SINGLE"   => Least(dist'[k][l], Members(k)', Members(l)')
               /\ linkage = "COMPLETE" => Largest(dist'[k][l], Members(k)', Members(l)')
    <2>1. CASE k # i /\ l # i
      <3>1. /\ dist'[k][l] = dist[k][l]
            /\ Members(k)' = Members(k) /\ Members(l)' = Members(l)
        BY <1>1, <1>3, <1>6, <2>1
      <3> QED
        BY <1>1, <1>6, <3>1 DEF DInv, Extremal
    <2>2. CASE k = i
      BY <1>1, <1>4, <1>5, <1>6, <2>2
    <2>3. CASE l = i
      BY <1>1, <1>4, <1>5, <1>6, <2>3
    <2> QED
      BY <2>1, <2>2, <2>3
  <1> QED
    BY <1>1, <1>6 DEF Extremal, Least, Largest

----------------------------------------------------------------------------
(***************************************************************************)
(* Theorems.                                                               *)
(***************************************************************************)
LEMMA MergeIsMergeOf ==
  Merge => \E i, j \in active : MergeOf(i, j)
  BY DEF Merge, MergeOf

LEMMA InitDInv ==
  DInit => DInv
  <1> SUFFICES ASSUME DInit PROVE DInv
    OBVIOUS
  <1>1. N \in Nat \ {0} /\ Leaves = 0 .. N - 1 /\ active = Leaves
    BY NAssumption DEF Leaves, DInit
  <1>2. PICK d \in [LeafPairs -> Distances] :
          lat = [i \in Leaves |-> [j \in Leaves |->
                   IF i < j THEN d[<<i, j>>] ELSE IF j < i THEN d[<<j, i>>] ELSE 0]]
    BY DEF DInit, Symmetric
  <1>3. /\ \A i, j \in Leaves : i < j => <<i, j>> \in LeafPairs
        /\ \A p \in LeafPairs : d[p] \in Nat
    BY <1>2, DistancesAssumption DEF LeafPairs
  <1>4. lat \in [Leaves -> [Leaves -> Nat]]
    BY <1>2, <1>3
  <1>5. ASSUME NEW a \in Leaves, NEW b \in Leaves
        PROVE  lat[a][b] = lat[b][a]
    <2>1. a \in Int /\ b \in Int
      BY <1>1
    <2>2. /\ lat[a][b] = IF a < b THEN d[<<a, b>>] ELSE IF b < a THEN d[<<b, a>>] ELSE 0
          /\ lat[b][a] = IF b < a THEN d[<<b, a>>] ELSE IF a < b THEN d[<<a, b>>] ELSE 0
      BY <1>2
    <2> QED
      BY <2>1, <2>2
  <1>6. nodes = [k \in 1 .. N |-> LeafNode(k - 1)] /\ dist = lat
        /\ node = [i \in Leaves |-> i + 1] /\ linkage \in Linkages
    BY DEF DInit
  <1>7. ASSUME NEW k \in 1 .. N
        PROVE  LeafNode(k - 1) \in Cluster
    <2>1. {k - 1} \in SUBSET Leaves
      BY <1>1
    <2> QED
      BY <2>1 DEF LeafNode, Cluster
  <1>8. nodes \in Seq(Cluster) /\ Len(nodes) = N
    BY <1>1, <1>6, <1>7
  <1>9. \A i \in Leaves : Members(i) = {i}
    BY <1>1, <1>6 DEF Members, LeafNode
  <1>10. max_distance = 0
    BY <1>1, <1>6, <1>8 DEF max_distance, LeafNode
  <1>11. Shape
    <2>1. node \in [Leaves -> 1 .. Len(nodes)]
      BY <1>1, <1>6, <1>8
    <2>2. nodes # <<>>
      BY <1>1, <1>8
    <2> QED
      BY <1>1, <1>4, <1>6, <1>8, <2>1, <2>2, LinkagesAssumption DEF Shape
  <1>12. Partition /\ Mirrored
    BY <1>1, <1>5, <1>6, <1>9 DEF Partition, Mirrored
  <1>13. Extremal
    <2>1. ASSUME NEW i \in Leaves, NEW j \in Leaves
          PROVE  Least(dist[i][j], {i}, {j}) /\ Largest(dist[i][j], {i}, {j})
      <3>1. dist[i][j] = lat[i][j] /\ lat[i][j] \in Nat
        BY <1>4, <1>6
      <3> QED
        BY <3>1 DEF Least, Largest
    <2>2. ASSUME NEW i \in active, NEW j \in active
          PROVE  /\ Least(dist[i][j], Members(i), Members(j))
                 /\ Largest(dist[i][j], Members(i), Members(j))
      <3>1. Members(i) = {i} /\ Members(j) = {j} /\ i \in Leaves /\ j \in Leaves
        BY <1>1, <1>9
      <3> QED
        BY <2>1, <3>1, Zenon
    <2> QED
      BY <2>2 DEF Extremal
  <1>14. Beyond
    BY <1>1, <1>4, <1>6, <1>10 DEF Beyond
  <1> QED
    BY <1>11, <1>12, <1>13, <1>14 DEF DInv

LEMMA MergeKeepsDInv ==
  DInv /\ Merge => DInv' /\ max_distance <= max_distance'
  <1> SUFFICES ASSUME DInv, Merge PROVE DInv' /\ max_distance <= max_distance'
    OBVIOUS
  <1>1. PICK i \in active, j \in active : MergeOf(i, j)
    BY MergeIsMergeOf
  <1> QED
    BY <1>1, ShapeKept, PartitionKept, MirroredKept, ExtremalKept, BeyondKept DEF DInv

\* The steps after the clustering leave the dendrogram alone.
LEMMA OtherStepsKeepDInv ==
  DInv /\ UNCHANGED dvars => DInv' /\ UNCHANGED nodes
  <1> SUFFICES ASSUME DInv, UNCHANGED dvars PROVE DInv' /\ UNCHANGED nodes
    OBVIOUS
  <1>1. UNCHANGED <<lat, linkage, nodes, dist, node, active>>
    BY DEF dvars
  <1>2. Shape'
    BY <1>1 DEF DInv, Shape
  <1>3. \A i : Members(i)' = Members(i)
    BY <1>1 DEF Members
  <1>4. Partition' /\ Mirrored'
    BY <1>1, <1>3 DEF DInv, Partition, Mirrored
  <1>5. Extremal'
    BY <1>1, <1>3 DEF DInv, Extremal, Least, Largest
  <1>6. Beyond'
    BY <1>1 DEF DInv, Beyond, max_distance
  <1> QED
    BY <1>1, <1>2, <1>4, <1>5, <1>6 DEF DInv

LEMMA StepsAreMerges ==
  [Next]_vars => Merge \/ UNCHANGED dvars
  BY DEF Next, BuildDendrogram, AssignTiers, InferHiddenNodes, ConstructEdges, Finished, vars

\* The clusters are always a partition, and the matrix holds what the later
\* merges rely on, for every number of leaves, every matrix and linkage.
THEOREM ClusteringInductive == Spec => []DInv
  <1>1. Init => DInv
    BY InitDInv DEF Init
  <1>2. DInv /\ [Next]_vars => DInv'
    BY StepsAreMerges, MergeKeepsDInv, OtherStepsKeepDInv
  <1> QED
    BY <1>1, <1>2, PTL DEF Spec

\* Merges get higher and higher, so that a cut need not look below a merge
\* within its threshold.
THEOREM MergesGetHigher == Spec => HeightsGrow
  <1>1. DInv /\ [Next]_vars => [max_distance <= max_distance']_nodes
    BY StepsAreMerges, MergeKeepsDInv, OtherStepsKeepDInv
  <1> QED
    BY <1>1, ClusteringInductive, PTL DEF Spec, HeightsGrow

----------------------------------------------------------------------------
(***************************************************************************)
(* The refinement, for the linkages whose distance is that of a pair.      *)
(***************************************************************************)
LEMMA LeastIsMin ==
  ASSUME NEW A \in SUBSET Leaves, NEW B \in SUBSET Leaves, NEW d \in Nat,
         lat \in [Leaves -> [Leaves -> Nat]], linkage = "SINGLE", Least(d, A, B)
  PROVE  TheClustering!Link(A, B) = d
  <1> DEFINE P == TheClustering!Pairs(A, B)
  <1>1. P = {lat[a][b] : a \in A, b \in B}
    BY DEF TheClustering!Pairs
  <1>2. P \subseteq Nat /\ d \in P /\ \A e \in P : d <= e
    BY <1>1 DEF Least
  <1>3. TheClustering!Min(P) = d
    BY <1>2 DEF TheClustering!Min
  <1> QED
    BY <1>3 DEF TheClustering!Link

LEMMA LargestIsMax ==
  ASSUME NEW A \in SUBSET Leaves, NEW B \in SUBSET Leaves, NEW d \in Nat,
         lat \in [Leaves -> [Leaves -> Nat]], linkage = "COMPLETE", Largest(d, A, B)
  PROVE  TheClustering!Link(A, B) = d
  <1> DEFINE P == TheClustering!Pairs(A, B)
  <1>1. P = {lat[a][b] : a \in A, b \in B}
    BY DEF TheClustering!Pairs
  <1>2. P \subseteq Nat /\ d \in P /\ \A e \in P : d >= e
    BY <1>1 DEF Largest
  <1>3. TheClustering!Max(P) = d
    BY <1>2 DEF TheClustering!Max
  <1> QED
    BY <1>3 DEF TheClustering!Link

LEMMA DistIsLink ==
  ASSUME DInv, "AVERAGE" \notin Linkages, NEW i \in active, NEW j \in active, i # j
  PROVE  dist[i][j] = TheClustering!Link(Members(i), Members(j))
  <1>1. /\ Members(i) \in SUBSET Leaves /\ Members(j) \in SUBSET Leaves
        /\ dist[i][j] \in Nat /\ lat \in [Leaves -> [Leaves -> Nat]]
        /\ linkage \in {"SINGLE", "COMPLETE"}
    BY MembersAreLeaves, LinkagesAssumption DEF DInv, Shape
  <1>2. CASE linkage = "SINGLE"
    <2>1. Least(dist[i][j], Members(i), Members(j))
      BY <1>2 DEF DInv, Extremal
    <2> QED
      BY <1>1, <1>2, <2>1, LeastIsMin
  <1>3. CASE linkage = "COMPLETE"
    <2>1. Largest(dist[i][j], Members(i), Members(j))
      BY <1>3 DEF DInv, Extremal
    <2> QED
      BY <1>1, <1>3, <2>1, LargestIsMax
  <1> QED
    BY <1>1, <1>2, <1>3

LEMMA InitIsAInit ==
  DInit => TheClustering!AInit
  <1> SUFFICES ASSUME DInit PROVE TheClustering!AInit
    OBVIOUS
  <1>1. N \in Nat \ {0} /\ Leaves = 0 .. N - 1
    BY NAssumption DEF Leaves
  <1>2. /\ nodes = [k \in 1 .. N |-> LeafNode(k - 1)] /\ active = Leaves
        /\ node = [i \in Leaves |-> i + 1]
    BY DEF DInit
  <1>3. \A i \in Leaves : Members(i) = {i}
    BY <1>1, <1>2 DEF Members, LeafNode
  <1>4. Clustering = {{a} : a \in Leaves}
    BY <1>2, <1>3 DEF Clustering
  <1>5. max_distance = 0
    <2>1. Len(nodes) = N
      BY <1>1, <1>2
    <2> QED
      BY <1>1, <1>2, <2>1 DEF max_distance, LeafNode
  <1> QED
    BY <1>4, <1>5 DEF TheClustering!AInit

LEMMA MergeIsAMerge ==
  ASSUME DInv, "AVERAGE" \notin Linkages, NEW i \in active, NEW j \in active, MergeOf(i, j)
  PROVE  TheClustering!AMerge
  <1> DEFINE A == Members(i)
             B == Members(j)
  <1>1. active' = active \ {j} /\ lat' = lat /\ linkage' = linkage /\ i # j
    BY DEF MergeOf, DInv, Shape, Leaves
  <1>2. \A k, l \in active : k # l => Members(k) # Members(l)
    BY DEF DInv, Partition
  <1>3. A \in Clustering /\ B \in Clustering /\ A # B
    BY <1>1, <1>2 DEF Clustering
  <1>4. max_distance' = dist[i][j] /\ dist[i][j] = TheClustering!Link(A, B)
    BY <1>1, MergeFacts, DistIsLink
  <1>5. ASSUME NEW C \in Clustering, NEW D \in Clustering, C # D
        PROVE  TheClustering!Link(A, B) <= TheClustering!Link(C, D)
    <2>1. PICK k \in active, l \in active : C = Members(k) /\ D = Members(l)
      BY DEF Clustering
    <2>2. k # l
      BY <1>5, <2>1
    <2>3. dist[k][l] = TheClustering!Link(C, D)
      BY <2>1, <2>2, DistIsLink
    <2>4. dist[i][j] <= dist[k][l]
      BY <2>2, ClosestFacts DEF MergeOf
    <2> QED
      BY <1>4, <2>3, <2>4
  <1>6. Clustering' = (Clustering \ {A, B}) \cup {A \cup B}
    <2>1. /\ Members(i)' = A \cup B
          /\ \A k \in active \ {i, j} : Members(k)' = Members(k)
      BY MergeFacts
    <2>2. Clustering' = {Members(k) : k \in active \ {i, j}} \cup {A \cup B}
      BY <1>1, <2>1 DEF Clustering
    <2>3. {Members(k) : k \in active \ {i, j}} = Clustering \ {A, B}
      BY <1>2 DEF Clustering
    <2> QED
      BY <2>2, <2>3
  <1> QED
    BY <1>1, <1>3, <1>4, <1>5, <1>6 DEF TheClustering!AMerge

\* With single and complete linkage the updated matrix holds the distances that
\* the linkage's definition gives for the original ones.
THEOREM MatrixIsLinkage ==
  ASSUME "AVERAGE" \notin Linkages
  PROVE  Spec => []LinkageDistances
  <1>1. DInv => LinkageDistances
    BY DistIsLink DEF LinkageDistances
  <1> QED
    BY <1>1, ClusteringInductive, PTL

\* With single and complete linkage every merge of build is one that the
\* textbook's clustering makes.
THEOREM BuildIsAgglomeration ==
  ASSUME "AVERAGE" \notin Linkages
  PROVE  Spec => KeepsAgglomeration
  <1>1. Init => TheClustering!AInit
    BY InitIsAInit DEF Init
  <1>2. DInv /\ [Next]_vars => [TheClustering!AMerge]_(TheClustering!agvars)
    <2> SUFFICES ASSUME DInv, [Next]_vars
                 PROVE  [TheClustering!AMerge]_(TheClustering!agvars)
      OBVIOUS
    <2>1. CASE Merge
      BY <2>1, MergeIsMergeOf, MergeIsAMerge
    <2>2. CASE UNCHANGED dvars
      <3>1. UNCHANGED <<lat, linkage, nodes, node, active>>
        BY <2>2 DEF dvars
      <3>2. Clustering' = Clustering /\ max_distance' = max_distance
        BY <3>1 DEF Clustering, Members, max_distance
      <3> QED
        BY <3>1, <3>2 DEF TheClustering!agvars
    <2> QED
      BY <2>1, <2>2, StepsAreMerges
  <1> QED
    BY <1>1, <1>2, ClusteringInductive, PTL DEF Spec, KeepsAgglomeration, TheClustering!ASpec

----------------------------------------------------------------------------
(***************************************************************************)
(* The tree of the merges, by which the cuts are judged.                   *)
(***************************************************************************)
Child(p, k) == p \in {nodes[k].left, nodes[k].right}

\* p has no parent among the first n nodes.
RootAt(p, n) == p \in 1 .. n /\ \A k \in N + 1 .. n : ~Child(p, k)

\* Node k joins two different nodes that had no parent before.
Joined(k) ==
  /\ RootAt(nodes[k].left, k - 1) /\ RootAt(nodes[k].right, k - 1)
  /\ nodes[k].left # nodes[k].right
  /\ nodes[k].members = nodes[nodes[k].left].members \cup nodes[nodes[k].right].members
  /\ nodes[nodes[k].left].members \cap nodes[nodes[k].right].members = {}

\* The members of a node are within its merge distance, as the linkage has it.
Within(k) ==
  /\ nodes[k].members # {}
  /\ linkage = "SINGLE" =>
       \A S \in (SUBSET nodes[k].members) \ {{}, nodes[k].members} :
         \E a \in S, b \in nodes[k].members \ S : lat[a][b] <= nodes[k].merge
  /\ linkage = "COMPLETE" => \A a, b \in nodes[k].members : lat[a][b] <= nodes[k].merge

\* Two nodes are at least d apart.
Apart(p, q, d) ==
  /\ linkage = "SINGLE"   => \A a \in nodes[p].members, b \in nodes[q].members : d <= lat[a][b]
  /\ linkage = "COMPLETE" => \E a \in nodes[p].members, b \in nodes[q].members : d <= lat[a][b]

\* The nodes are the trees of a forest: first the leaves, then the merges, each of
\* the two nodes without a parent that were closest at the time.
Tree ==
  /\ Len(nodes) >= N /\ \A k \in 1 .. N : nodes[k] = LeafNode(k - 1)
  /\ \A k \in N + 1 .. Len(nodes) : Joined(k)
  /\ \A k \in 1 .. Len(nodes) : \A l \in k .. Len(nodes) : nodes[k].merge <= nodes[l].merge
  /\ \A p \in 1 .. Len(nodes) : RootAt(p, Len(nodes)) <=> \E i \in active : p = node[i]
  /\ \A k \in 1 .. Len(nodes) : Within(k)
  /\ \A k \in N + 1 .. Len(nodes) : \A p, q \in 1 .. k - 1 :
       RootAt(p, k - 1) /\ RootAt(q, k - 1) /\ p # q => Apart(p, q, nodes[k].merge)

TInv == DInv /\ Tree

\* A merge adds one node and leaves the others.
LEMMA NodesGrow ==
  ASSUME DInv, NEW i \in active, NEW j \in active, MergeOf(i, j)
  PROVE  /\ Len(nodes) \in Nat /\ Len(nodes') = Len(nodes) + 1
         /\ \A x \in 1 .. Len(nodes) : nodes'[x] = nodes[x]
         /\ nodes'[Len(nodes) + 1] = [left |-> node[i], right |-> node[j],
                                      merge |-> dist[i][j],
                                      members |-> Members(i) \cup Members(j)]
  <1>1. nodes \in Seq(Cluster)
    BY DEF DInv, Shape
  <1> QED
    BY <1>1 DEF MergeOf

\* Different clusters are different nodes.
LEMMA NodesDiffer ==
  ASSUME DInv, NEW i \in active, NEW j \in active, i # j
  PROVE  node[i] # node[j]
  BY DEF DInv, Partition, Members

LEMMA RootsOfBefore ==
  ASSUME DInv, NEW i \in active, NEW j \in active, MergeOf(i, j),
         NEW n \in 1 .. Len(nodes), NEW p
  PROVE  RootAt(p, n)' <=> RootAt(p, n)
  <1>1. \A k \in N + 1 .. n : Child(p, k)' <=> Child(p, k)
    <2>1. \A k \in N + 1 .. n : k \in 1 .. Len(nodes)
      BY NodesGrow, NAssumption
    <2> QED
      BY <2>1, NodesGrow DEF Child
  <1> QED
    BY <1>1 DEF RootAt

LEMMA RootsAfter ==
  ASSUME TInv, NEW i \in active, NEW j \in active, MergeOf(i, j),
         NEW n, n = Len(nodes), NEW m, m = n + 1, NEW p \in 1 .. m
  PROVE  RootAt(p, m)' <=> \E k \in active' : p = node'[k]
  <1>1. m \in Nat /\ n \in Nat /\ n \in 1 .. Len(nodes) /\ N + 1 <= m /\ N \in Nat
    <2>1. n \in Nat /\ N <= n
      BY NodesGrow DEF TInv, Tree
    <2> QED
      BY <2>1, NAssumption
  <1>2. /\ active' = active \ {j} /\ i # j /\ active \subseteq Leaves
        /\ node' = [node EXCEPT ![i] = m] /\ node \in [Leaves -> 1 .. n]
    BY DEF MergeOf, DInv, TInv, Shape, Leaves
  <1>3. \A x : Child(x, m)' <=> x \in {node[i], node[j]}
    <2>1. nodes'[m] = [left |-> node[i], right |-> node[j], merge |-> dist[i][j],
                       members |-> Members(i) \cup Members(j)]
      BY NodesGrow DEF TInv
    <2> QED
      BY <2>1 DEF Child
  <1>4. CASE p # m
    <2>1. p \in 1 .. Len(nodes)
      BY <1>1, <1>4
    <2>2. RootAt(p, m)' <=> RootAt(p, n)' /\ ~Child(p, m)'
      <3>1. N + 1 .. m = (N + 1 .. n) \cup {m}
        BY <1>1
      <3> QED
        BY <1>1, <2>1, <3>1 DEF RootAt
    <2>3. RootAt(p, n)' <=> RootAt(p, n)
      BY <1>1, RootsOfBefore DEF TInv
    <2>4. RootAt(p, n) <=> \E k \in active : p = node[k]
      BY <2>1 DEF TInv, Tree
    <2>5. \A k \in active \ {i, j} : node'[k] = node[k] /\ node[k] \notin {node[i], node[j]}
      BY <1>2, NodesDiffer DEF TInv
    <2>6. ASSUME RootAt(p, m)'
          PROVE  \E k \in active' : p = node'[k]
      <3>1. PICK k \in active : p = node[k]
        BY <2>2, <2>3, <2>4, <2>6
      <3>2. k \notin {i, j}
        BY <1>3, <2>2, <2>6, <3>1
      <3> QED
        BY <1>2, <2>5, <3>1, <3>2
    <2>7. ASSUME NEW k \in active', p = node'[k]
          PROVE  RootAt(p, m)'
      <3>1. k # i
        BY <1>2, <1>4, <2>7
      <3>2. k \in active \ {i, j} /\ p = node[k]
        BY <1>2, <2>5, <2>7, <3>1
      <3> QED
        BY <1>3, <2>2, <2>3, <2>4, <2>5, <3>2
    <2> QED
      BY <2>6, <2>7
  <1>5. CASE p = m
    <2>1. node'[i] = m /\ i \in active'
      BY <1>2
    <2>2. ASSUME NEW k \in N + 1 .. m
          PROVE  ~Child(m, k)'
      <3>1. CASE k = m
        BY <1>1, <1>2, <1>3, <3>1
      <3>2. CASE k # m
        <4>1. k \in N + 1 .. Len(nodes) /\ k \in 1 .. Len(nodes) /\ k <= n
          BY <1>1, <3>2
        <4>2. nodes'[k] = nodes[k]
          BY <4>1, NodesGrow DEF TInv
        <4>3. nodes[k].left \in 1 .. k - 1 /\ nodes[k].right \in 1 .. k - 1
          BY <4>1 DEF TInv, Tree, Joined, RootAt
        <4>4. nodes[k].left # m /\ nodes[k].right # m
          BY <1>1, <4>1, <4>3
        <4> QED
          BY <4>2, <4>4 DEF Child
      <3> QED
        BY <3>1, <3>2
    <2>3. RootAt(m, m)'
      BY <1>1, <2>2 DEF RootAt
    <2> QED
      BY <1>5, <2>1, <2>3
  <1> QED
    BY <1>4, <1>5

LEMMA MergedNodes ==
  ASSUME DInv, NEW i \in active, NEW j \in active, MergeOf(i, j), NEW n, n = Len(nodes)
  PROVE  i # j /\ node[i] \in 1 .. n /\ node[j] \in 1 .. n
  <1>1. node \in [Leaves -> 1 .. n] /\ i \in Leaves /\ j \in Leaves
    BY DEF DInv, Shape
  <1>2. i \in Nat /\ j \in Nat /\ i < j
    BY <1>1, NAssumption DEF MergeOf, Leaves
  <1> QED
    BY <1>1, <1>2

\* The new node joins two roots.
LEMMA JoinedAfter ==
  ASSUME TInv, NEW i \in active, NEW j \in active, MergeOf(i, j),
         NEW n, n = Len(nodes), NEW m, m = n + 1
  PROVE  \A k \in N + 1 .. m : Joined(k)'
  <1>1. n \in Nat /\ N \in Nat /\ N <= n /\ n \in 1 .. Len(nodes)
    <2>1. n \in Nat /\ N <= n
      BY NodesGrow DEF TInv, Tree
    <2> QED
      BY <2>1, NAssumption
  <1>2. i # j /\ node[i] \in 1 .. n /\ node[j] \in 1 .. n
    BY MergedNodes DEF TInv
  <1>3. \A x \in 1 .. n : nodes'[x] = nodes[x]
    BY NodesGrow DEF TInv
  <1>4. ASSUME NEW k \in N + 1 .. n
        PROVE  Joined(k)'
    <2>1. Joined(k) /\ k \in 1 .. n /\ k - 1 \in 1 .. Len(nodes)
      BY <1>1, NAssumption DEF TInv, Tree
    <2>2. nodes[k].left \in 1 .. n /\ nodes[k].right \in 1 .. n
      BY <1>1, <2>1 DEF Joined, RootAt
    <2>3. \A p : RootAt(p, k - 1)' <=> RootAt(p, k - 1)
      <3> DEFINE l == k - 1
      <3>1. l \in 1 .. Len(nodes)
        BY <2>1
      <3> HIDE DEF l
      <3>2. \A p : RootAt(p, l)' <=> RootAt(p, l)
        BY <3>1, RootsOfBefore DEF TInv
      <3> QED
        BY <3>2 DEF l
    <2> QED
      BY <1>3, <2>1, <2>2, <2>3 DEF Joined
  <1>5. Joined(m)'
    <2>1. PICK l \in 1 .. n, r \in 1 .. n : l = node[i] /\ r = node[j]
      BY <1>2
    <2>2. RootAt(l, n) /\ RootAt(r, n)
      BY <1>2, <2>1 DEF TInv, Tree
    <2>3. RootAt(l, n)' /\ RootAt(r, n)'
      BY <1>1, <2>2, RootsOfBefore DEF TInv
    <2>4. RootAt(l, m - 1)' /\ RootAt(r, m - 1)'
      <3>1. m - 1 = n
        BY <1>1
      <3> QED
        BY <2>3, <3>1
    <2>5. l # r
      BY <1>2, <2>1, NodesDiffer DEF TInv
    <2>6. nodes[l].members \cap nodes[r].members = {}
      BY <1>2, <2>1 DEF TInv, DInv, Partition, Members
    <2>7. nodes'[m] = [left |-> l, right |-> r, merge |-> dist[i][j],
                       members |-> nodes[l].members \cup nodes[r].members]
      BY <2>1, NodesGrow DEF TInv, Members
    <2>8. nodes'[l] = nodes[l] /\ nodes'[r] = nodes[r]
      BY <1>3
    <2> QED
      BY <2>4, <2>5, <2>6, <2>7, <2>8 DEF Joined
  <1> QED
    BY <1>1, <1>4, <1>5

LEMMA HeightsAfter ==
  ASSUME TInv, NEW i \in active, NEW j \in active, MergeOf(i, j)
  PROVE  /\ \A k \in 1 .. Len(nodes) : nodes[k].merge <= dist[i][j]
         /\ (\A k \in 1 .. Len(nodes) : \A l \in k .. Len(nodes) :
               nodes[k].merge <= nodes[l].merge)'
  <1> DEFINE n == Len(nodes)
  <1>1. n \in Nat \ {0} /\ nodes \in Seq(Cluster) /\ dist[i][j] \in Nat
    BY DEF TInv, DInv, Shape
  <1>2. nodes[n].merge <= dist[i][j]
    <2>1. i \in active /\ j \in active /\ i # j
      BY DEF MergeOf, DInv, TInv, Shape, Leaves
    <2> QED
      BY <2>1 DEF TInv, DInv, Beyond, max_distance
  <1>3. ASSUME NEW k \in 1 .. n
        PROVE  nodes[k].merge \in Nat /\ nodes[k].merge <= dist[i][j]
    <2>1. nodes[k].merge \in Nat /\ nodes[n].merge \in Nat
      <3>1. nodes[k] \in Cluster /\ nodes[n] \in Cluster
        BY <1>1
      <3> QED
        BY <3>1 DEF Cluster
    <2>2. nodes[k].merge <= nodes[n].merge
      BY <1>1 DEF TInv, Tree
    <2> QED
      BY <1>1, <1>2, <2>1, <2>2
  <1>4. /\ Len(nodes') = n + 1 /\ \A x \in 1 .. n : nodes'[x] = nodes[x]
        /\ nodes'[n + 1].merge = dist[i][j]
    <2>1. DInv
      BY DEF TInv
    <2>2. nodes'[n + 1] = [left |-> node[i], right |-> node[j], merge |-> dist[i][j],
                           members |-> Members(i) \cup Members(j)]
      BY <2>1, NodesGrow
    <2> QED
      BY <2>1, <2>2, NodesGrow
  <1>5. ASSUME NEW k \in 1 .. n + 1, NEW l \in k .. n + 1
        PROVE  nodes'[k].merge <= nodes'[l].merge
    <2>1. CASE l # n + 1
      BY <1>1, <1>4, <2>1 DEF TInv, Tree
    <2>2. CASE l = n + 1
      BY <1>1, <1>3, <1>4, <2>2
    <2> QED
      BY <2>1, <2>2
  <1> QED
    BY <1>3, <1>4, <1>5

\* The members of the new node are within the distance that was merged.
LEMMA WithinAfter ==
  ASSUME TInv, NEW i \in active, NEW j \in active, MergeOf(i, j),
         NEW k \in 1 .. Len(nodes')
  PROVE  Within(k)'
  <1> DEFINE n == Len(nodes)
             A == Members(i)
             B == Members(j)
             d == dist[i][j]
  <1>1. /\ n \in Nat /\ Len(nodes') = n + 1 /\ \A x \in 1 .. n : nodes'[x] = nodes[x]
        /\ nodes'[n + 1].merge = d /\ nodes'[n + 1].members = A \cup B
        /\ lat' = lat /\ linkage' = linkage
    <2>1. DInv
      BY DEF TInv
    <2>2. nodes'[n + 1] = [left |-> node[i], right |-> node[j], merge |-> d, members |-> A \cup B]
      BY <2>1, NodesGrow
    <2> QED
      BY <2>1, <2>2, NodesGrow DEF MergeOf
  <1>2. CASE k # n + 1
    <2>1. k \in 1 .. n /\ nodes'[k] = nodes[k]
      BY <1>1, <1>2
    <2>2. Within(k)
      BY <2>1 DEF TInv, Tree
    <2> QED
      BY <1>1, <2>1, <2>2 DEF Within
  <1>3. CASE k = n + 1
    <2>1. /\ node[i] \in 1 .. n /\ node[j] \in 1 .. n /\ i # j /\ d \in Nat
          /\ nodes \in Seq(Cluster) /\ lat \in [Leaves -> [Leaves -> Nat]]
      <3>1. Shape
        BY DEF TInv, DInv
      <3>2. i \in Leaves /\ j \in Leaves /\ i < j /\ i \in Int /\ j \in Int
        BY <3>1 DEF MergeOf, Shape, Leaves
      <3>3. i # j
        BY <3>2
      <3> QED
        BY <3>1, <3>2, <3>3 DEF Shape
    <2> DEFINE e == nodes[node[i]].merge
               f == nodes[node[j]].merge
    <2>2. e <= d /\ f <= d /\ e \in Nat /\ f \in Nat
      <3>1. nodes[node[i]] \in Cluster /\ nodes[node[j]] \in Cluster
        BY <2>1
      <3> QED
        BY <2>1, <3>1, HeightsAfter DEF Cluster
    <2>3. Within(node[i]) /\ Within(node[j])
      BY <2>1 DEF TInv, Tree
    <2>4. A \in SUBSET Leaves /\ B \in SUBSET Leaves
      BY MembersAreLeaves DEF TInv
    <2>5. \A a, b \in Leaves : lat[a][b] \in Nat /\ lat[a][b] = lat[b][a]
      BY <2>1 DEF TInv, DInv, Mirrored
    <2>6. nodes'[k].members # {}
      BY <1>1, <1>3, <2>3 DEF Within, Members
    <2>7. ASSUME linkage = "SINGLE", NEW S \in (SUBSET (A \cup B)) \ {{}, A \cup B}
          PROVE  \E a \in S, b \in (A \cup B) \ S : lat[a][b] <= d
      <3>1. CASE S \cap A \notin {{}, A}
        <4>1. PICK a \in S \cap A, b \in A \ (S \cap A) : lat[a][b] <= e
          BY <2>3, <2>7, <3>1 DEF Within, Members
        <4>2. lat[a][b] <= d
          <5> HIDE DEF d, e, f, A, B
          <5> QED
            BY <2>1, <2>2, <2>4, <2>5, <4>1
        <4> QED
          BY <4>1, <4>2
      <3>2. CASE S \cap B \notin {{}, B}
        <4>1. PICK a \in S \cap B, b \in B \ (S \cap B) : lat[a][b] <= f
          BY <2>3, <2>7, <3>2 DEF Within, Members
        <4>2. lat[a][b] <= d
          <5> HIDE DEF d, e, f, A, B
          <5> QED
            BY <2>1, <2>2, <2>4, <2>5, <4>1
        <4> QED
          BY <4>1, <4>2
      <3>3. CASE S \cap A \in {{}, A} /\ S \cap B \in {{}, B}
        <4>1. A \cap B = {}
          BY <2>1 DEF TInv, DInv, Partition
        <4>2. S = A \/ S = B
          BY <2>7, <3>3
        <4>3. PICK a \in A, b \in B : d = lat[a][b]
          BY <2>1, <2>7 DEF TInv, DInv, Extremal, Least
        <4>4. lat[a][b] <= d /\ lat[b][a] <= d
          BY <2>1, <2>4, <2>5, <4>3
        <4> QED
          BY <4>1, <4>2, <4>3, <4>4
      <3> QED
        BY <3>1, <3>2, <3>3
    <2>8. ASSUME linkage = "COMPLETE", NEW a \in A \cup B, NEW b \in A \cup B
          PROVE  lat[a][b] <= d
      <3>1. \A x \in A, y \in B : lat[x][y] <= d
        BY <2>1, <2>4, <2>5, <2>8 DEF TInv, DInv, Extremal, Largest
      <3>2. \A x, y \in A : lat[x][y] <= d
        <4>1. \A x, y \in A : lat[x][y] <= e
          BY <2>3, <2>8 DEF Within, Members
        <4> HIDE DEF d, e, f, A, B
        <4> QED
          BY <2>1, <2>2, <2>4, <2>5, <4>1
      <3>3. \A x, y \in B : lat[x][y] <= d
        <4>1. \A x, y \in B : lat[x][y] <= f
          BY <2>3, <2>8 DEF Within, Members
        <4> HIDE DEF d, e, f, A, B
        <4> QED
          BY <2>1, <2>2, <2>4, <2>5, <4>1
      <3> QED
        BY <2>4, <2>5, <3>1, <3>2, <3>3
    <2> DEFINE W == A \cup B
    <2>9. nodes'[k].members = W /\ nodes'[k].merge = d
      BY <1>1, <1>3
    <2>10. /\ linkage = "SINGLE" => \A S \in (SUBSET W) \ {{}, W} :
                                      \E a \in S, b \in W \ S : lat[a][b] <= d
           /\ linkage = "COMPLETE" => \A a, b \in W : lat[a][b] <= d
      BY <2>7, <2>8
    <2> HIDE DEF W, d
    <2> QED
      BY <1>1, <2>6, <2>9, <2>10 DEF Within
  <1> QED
    BY <1>2, <1>3

\* The roots of every time were as far apart as the merge that came next.
LEMMA ApartAfter ==
  ASSUME TInv, NEW i \in active, NEW j \in active, MergeOf(i, j),
         NEW n, n = Len(nodes), NEW m, m = n + 1, NEW k \in N + 1 .. m,
         NEW p \in 1 .. k - 1, NEW q \in 1 .. k - 1,
         RootAt(p, k - 1)', RootAt(q, k - 1)', p # q
  PROVE  Apart(p, q, nodes[k].merge)'
  <1>1. n \in Nat /\ N \in Nat \ {0} /\ N <= n
    BY NodesGrow, NAssumption DEF TInv, Tree
  <1>2. /\ \A x \in 1 .. n : nodes'[x] = nodes[x]
        /\ nodes'[m].merge = dist[i][j] /\ lat' = lat /\ linkage' = linkage
    BY NodesGrow DEF TInv, MergeOf
  <1>3. p \in 1 .. n /\ q \in 1 .. n /\ k - 1 \in 1 .. n
    BY <1>1
  <1>4. RootAt(p, k - 1) /\ RootAt(q, k - 1)
    <2> DEFINE l == k - 1
    <2>1. l \in 1 .. Len(nodes)
      BY <1>3
    <2>2. RootAt(p, l)' /\ RootAt(q, l)'
      OBVIOUS
    <2> HIDE DEF l
    <2>3. RootAt(p, l) /\ RootAt(q, l)
      BY <2>1, <2>2, RootsOfBefore DEF TInv
    <2> QED
      BY <2>3 DEF l
  <1>5. CASE k # m
    <2>1. k \in N + 1 .. n /\ k \in 1 .. n
      BY <1>1, <1>5
    <2>2. Apart(p, q, nodes[k].merge)
      BY <1>4, <2>1 DEF TInv, Tree
    <2> QED
      BY <1>2, <1>3, <2>1, <2>2 DEF Apart
  <1>6. CASE k = m
    <2>1. PICK x \in active, y \in active : p = node[x] /\ q = node[y]
      BY <1>1, <1>3, <1>4, <1>6 DEF TInv, Tree
    <2>2. x # y
      BY <2>1
    <2>3. dist[i][j] <= dist[x][y]
      BY <2>2, ClosestFacts DEF TInv, MergeOf
    <2>4. /\ dist[i][j] \in Nat /\ dist[x][y] \in Nat
          /\ \A a, b \in Leaves : lat[a][b] \in Nat
      BY DEF TInv, DInv, Shape
    <2>5. Members(x) \in SUBSET Leaves /\ Members(y) \in SUBSET Leaves
      BY MembersAreLeaves DEF TInv
    <2>6. /\ linkage = "SINGLE"   => Least(dist[x][y], Members(x), Members(y))
          /\ linkage = "COMPLETE" => Largest(dist[x][y], Members(x), Members(y))
      BY <2>2 DEF TInv, DInv, Extremal
    <2>7. Apart(p, q, dist[i][j])
      BY <2>1, <2>3, <2>4, <2>5, <2>6 DEF Apart, Least, Largest, Members
    <2> QED
      BY <1>2, <1>3, <1>6, <2>7 DEF Apart
  <1> QED
    BY <1>5, <1>6

LEMMA InitTree ==
  Init => TInv
  <1> SUFFICES ASSUME Init PROVE TInv
    OBVIOUS
  <1>1. /\ N \in Nat \ {0} /\ Leaves = 0 .. N - 1 /\ active = Leaves
        /\ nodes = [k \in 1 .. N |-> LeafNode(k - 1)] /\ node = [i \in Leaves |-> i + 1]
    BY NAssumption DEF Leaves, Init, DInit
  <1>2. Len(nodes) = N
    BY <1>1
  <1>3. \A k \in 1 .. N : nodes[k] = LeafNode(k - 1) /\ k - 1 \in Leaves
    BY <1>1
  <1>4. \A a \in Leaves : lat[a][a] = 0
    <2>1. PICK d \in [LeafPairs -> Distances] :
            lat = [i \in Leaves |-> [j \in Leaves |->
                     IF i < j THEN d[<<i, j>>] ELSE IF j < i THEN d[<<j, i>>] ELSE 0]]
      BY DEF Init, DInit, Symmetric
    <2> QED
      BY <1>1, <2>1
  <1>5. ASSUME NEW k \in 1 .. N
        PROVE  nodes[k].merge = 0 /\ nodes[k].members = {k - 1}
    <2>1. nodes[k] = LeafNode(k - 1)
      BY <1>3
    <2> QED
      BY <2>1 DEF LeafNode
  <1>6. ASSUME NEW k \in 1 .. N
        PROVE  Within(k)
    <2> DEFINE W == nodes[k].members
    <2>1. W = {k - 1} /\ nodes[k].merge = 0
      BY <1>5
    <2>2. \A S \in (SUBSET W) \ {{}, W} : FALSE
      BY <2>1
    <2>3. \A a, b \in W : lat[a][b] <= 0
      BY <1>3, <1>4, <2>1
    <2> HIDE DEF W
    <2>4. W # {}
      BY <2>1
    <2> QED
      BY <2>1, <2>2, <2>3, <2>4 DEF Within, W
  <1>7. N + 1 .. N = {}
    BY <1>1
  <1>8. ASSUME NEW p \in 1 .. N
        PROVE  RootAt(p, N) <=> \E i \in active : p = node[i]
    <2>1. RootAt(p, N)
      BY <1>7 DEF RootAt
    <2>2. p = node[p - 1] /\ p - 1 \in active
      BY <1>1
    <2> QED
      BY <2>1, <2>2
  <1>9. Tree
    BY <1>1, <1>2, <1>3, <1>5, <1>6, <1>7, <1>8 DEF Tree
  <1> QED
    BY <1>9, InitDInv DEF TInv, Init

LEMMA MergeKeepsTree ==
  TInv /\ Merge => TInv'
  <1> SUFFICES ASSUME TInv, Merge PROVE TInv'
    OBVIOUS
  <1>1. PICK i \in active, j \in active : MergeOf(i, j)
    BY MergeIsMergeOf
  <1>2. PICK n : n = Len(nodes)
    OBVIOUS
  <1>3. PICK m : m = n + 1
    OBVIOUS
  <1>4. DInv /\ Tree
    BY DEF TInv
  <1>5. /\ Len(nodes') = m /\ n \in Nat /\ N \in Nat \ {0} /\ N <= n
        /\ \A x \in 1 .. n : nodes'[x] = nodes[x]
    BY <1>1, <1>2, <1>3, <1>4, NodesGrow, NAssumption DEF Tree
  <1>6. /\ Len(nodes') >= N
        /\ \A k \in 1 .. N : nodes'[k] = LeafNode(k - 1)
    <2>1. \A k \in 1 .. N : k \in 1 .. n
      BY <1>5
    <2> QED
      BY <1>3, <1>4, <1>5, <2>1 DEF Tree
  <1>7. \A k \in N + 1 .. m : Joined(k)'
    BY <1>1, <1>2, <1>3, JoinedAfter
  <1>8. (\A k \in 1 .. Len(nodes) : \A l \in k .. Len(nodes) : nodes[k].merge <= nodes[l].merge)'
    BY <1>1, HeightsAfter
  <1>9. \A p \in 1 .. m : RootAt(p, m)' <=> \E k \in active' : p = node'[k]
    BY <1>1, <1>2, <1>3, RootsAfter
  <1>10. \A k \in 1 .. Len(nodes') : Within(k)'
    BY <1>1, WithinAfter
  <1>11. ASSUME NEW k \in N + 1 .. m, NEW p \in 1 .. k - 1, NEW q \in 1 .. k - 1,
                RootAt(p, k - 1)', RootAt(q, k - 1)', p # q
         PROVE  Apart(p, q, nodes[k].merge)'
    BY <1>1, <1>2, <1>3, <1>11, ApartAfter
  <1>12. \A p \in 1 .. m : RootAt(p, Len(nodes))' <=> RootAt(p, m)'
    BY <1>5 DEF RootAt
  <1>13. \A k \in N + 1 .. m : \A p, q \in 1 .. k - 1 :
           RootAt(p, k - 1)' /\ RootAt(q, k - 1)' /\ p # q => Apart(p, q, nodes[k].merge)'
    BY <1>11
  <1>14. Tree'
    <2> USE DEF Tree
    <2>1. (\A p \in 1 .. Len(nodes) : RootAt(p, Len(nodes)) <=> \E i1 \in active : p = node[i1])'
      BY <1>5, <1>9, <1>12
    <2> QED
      BY <1>5, <1>6, <1>7, <1>8, <1>10, <1>13, <2>1
  <1> QED
    BY <1>4, <1>14, MergeKeepsDInv DEF TInv

LEMMA OtherStepsKeepTree ==
  TInv /\ UNCHANGED dvars => TInv'
  <1> SUFFICES ASSUME TInv, UNCHANGED dvars PROVE TInv'
    OBVIOUS
  <1>1. UNCHANGED <<lat, linkage, nodes, node, active>>
    BY DEF dvars
  <1>2. \A p, k : Child(p, k)' <=> Child(p, k)
    BY <1>1 DEF Child
  <1>3. \A p, n : RootAt(p, n)' <=> RootAt(p, n)
    BY <1>2 DEF RootAt
  <1>4. \A k : Joined(k)' <=> Joined(k)
    BY <1>1, <1>3 DEF Joined
  <1>5. \A k : Within(k)' <=> Within(k)
    BY <1>1 DEF Within
  <1>6. \A p, q, d : Apart(p, q, d)' <=> Apart(p, q, d)
    BY <1>1 DEF Apart
  <1>7. Tree'
    BY <1>1, <1>3, <1>4, <1>5, <1>6 DEF TInv, Tree
  <1> QED
    BY <1>7, OtherStepsKeepDInv DEF TInv

\* The nodes form a forest whose roots are the clusters at hand; each node holds
\* together within its distance, and the roots of every time were further apart.
THEOREM TreeInductive == Spec => []TInv
  <1>1. TInv /\ [Next]_vars => TInv'
    BY StepsAreMerges, MergeKeepsTree, OtherStepsKeepTree
  <1> QED
    BY <1>1, InitTree, PTL DEF Spec

----------------------------------------------------------------------------
(***************************************************************************)
(* Cuts.                                                                   *)
(***************************************************************************)
CutStep(t, g, k) ==
  IF nodes[k].left = 0 \/ nodes[k].merge <= t THEN <<nodes[k].members>>
  ELSE g[nodes[k].left] \o g[nodes[k].right]

Collects(g, t) == \A k \in 1 .. Len(nodes) : g[k] = CutStep(t, g, k)

LEMMA NodeFacts ==
  ASSUME TInv, NEW k \in 1 .. Len(nodes)
  PROVE  /\ k \in Nat /\ Len(nodes) \in Nat
         /\ nodes[k].merge \in Nat /\ nodes[k].members \in SUBSET Leaves
         /\ nodes[k].left = 0 => nodes[k].merge = 0
         /\ nodes[k].left # 0 =>
              /\ k \in N + 1 .. Len(nodes)
              /\ nodes[k].left \in 1 .. k - 1 /\ nodes[k].right \in 1 .. k - 1
              /\ nodes[k].left \in 1 .. Len(nodes) /\ nodes[k].right \in 1 .. Len(nodes)
              /\ Joined(k)
  <1>1. nodes \in Seq(Cluster) /\ Len(nodes) \in Nat /\ k \in Nat /\ N \in Nat \ {0}
    BY NAssumption DEF TInv, DInv, Shape
  <1>2. nodes[k] \in Cluster
    BY <1>1
  <1>3. CASE k <= N
    <2>1. nodes[k] = LeafNode(k - 1)
      BY <1>1, <1>3 DEF TInv, Tree
    <2> QED
      BY <1>1, <1>2, <2>1 DEF Cluster, LeafNode
  <1>4. CASE k > N
    <2>1. k \in N + 1 .. Len(nodes)
      BY <1>1, <1>4
    <2>2. Joined(k)
      BY <2>1 DEF TInv, Tree
    <2>3. nodes[k].left \in 1 .. k - 1 /\ nodes[k].right \in 1 .. k - 1
      BY <2>2 DEF Joined, RootAt
    <2>4. PICK l, r : l = nodes[k].left /\ r = nodes[k].right
      OBVIOUS
    <2>5. l \in 1 .. Len(nodes) /\ r \in 1 .. Len(nodes) /\ l # 0
      BY <1>1, <2>3, <2>4
    <2>6. nodes[k].merge \in Nat /\ nodes[k].members \in SUBSET Leaves
      BY <1>2 DEF Cluster
    <2> QED
      BY <1>1, <2>1, <2>2, <2>3, <2>4, <2>5, <2>6
  <1> QED
    BY <1>1, <1>3, <1>4

\* The recursion of a cut has a value.
LEMMA CutExists ==
  ASSUME TInv, NEW t, NEW n \in Nat, n <= Len(nodes)
  PROVE  \E g : g = [k \in 1 .. n |-> CutStep(t, g, k)]
  <1> DEFINE Bad == {m \in Nat : m <= Len(nodes) /\ ~\E g : g = [k \in 1 .. m |-> CutStep(t, g, k)]}
  <1>1. ASSUME NEW m \in Bad, \A l \in Bad : m <= l
        PROVE  FALSE
    <2>1. m \in Nat /\ m <= Len(nodes) /\ Len(nodes) \in Nat
      BY DEF TInv, DInv, Shape
    <2>2. m # 0
      <3>1. <<>> = [k \in 1 .. 0 |-> CutStep(t, <<>>, k)]
        OBVIOUS
      <3> QED
        BY <3>1
    <2>3. m - 1 \in Nat /\ ~(m <= m - 1) /\ m - 1 <= Len(nodes)
      BY <2>1, <2>2
    <2>4. m - 1 \notin Bad
      <3> HIDE DEF Bad
      <3> QED
        BY <1>1, <2>3
    <2>5. PICK g : g = [k \in 1 .. m - 1 |-> CutStep(t, g, k)]
      BY <2>3, <2>4
    <2> DEFINE h == [k \in 1 .. m |-> IF k < m THEN g[k] ELSE CutStep(t, g, m)]
    <2>6. ASSUME NEW k \in 1 .. m
          PROVE  h[k] = CutStep(t, h, k)
      <3>1. CutStep(t, h, k) = CutStep(t, g, k)
        <4>1. CASE nodes[k].left = 0
          BY <4>1 DEF CutStep
        <4>2. CASE nodes[k].left # 0
          <5>1. k \in 1 .. Len(nodes)
            BY <2>1
          <5>2. nodes[k].left \in 1 .. m - 1 /\ nodes[k].right \in 1 .. m - 1
            BY <2>1, <4>2, <5>1, NodeFacts
          <5>3. h[nodes[k].left] = g[nodes[k].left] /\ h[nodes[k].right] = g[nodes[k].right]
            BY <2>1, <5>2
          <5> HIDE DEF h
          <5> QED
            BY <5>3, Zenon DEF CutStep
        <4> QED
          BY <4>1, <4>2
      <3>2. CASE k < m
        <4>1. k \in 1 .. m - 1 /\ h[k] = g[k]
          BY <2>1, <3>2
        <4>2. g[k] = CutStep(t, g, k)
          BY <2>5, <4>1, Zenon
        <4> HIDE DEF h
        <4> QED
          BY <3>1, <4>1, <4>2
      <3>3. CASE k = m
        <4>1. h[k] = CutStep(t, g, m)
          BY <2>1, <3>3
        <4> HIDE DEF h
        <4> QED
          BY <3>1, <3>3, <4>1
      <3> QED
        BY <2>1, <3>2, <3>3
    <2>7. h = [k \in 1 .. m |-> h[k]]
      OBVIOUS
    <2> HIDE DEF h
    <2>8. h = [k \in 1 .. m |-> CutStep(t, h, k)]
      BY <2>6, <2>7
    <2> QED
      BY <2>8
  <1>2. Bad = {}
    <2>1. Bad \subseteq Nat
      OBVIOUS
    <2> HIDE DEF Bad
    <2> QED
      BY <1>1, <2>1, LeastNumber
  <1> QED
    BY <1>2

\* A cut is what is collected at the root.
LEMMA CutIsCollected ==
  ASSUME TInv, NEW t
  PROVE  \E g : Collects(g, t) /\ Cut(t) = g[Len(nodes)]
  <1> DEFINE n == Len(nodes)
             C == CHOOSE g : g = [k \in 1 .. n |-> CutStep(t, g, k)]
  <1>1. n \in Nat /\ n <= Len(nodes)
    BY DEF TInv, DInv, Shape
  <1>2. \E g : g = [k \in 1 .. n |-> CutStep(t, g, k)]
    BY <1>1, CutExists, Zenon
  <1>3. C = [k \in 1 .. n |-> CutStep(t, C, k)]
    BY <1>2, Zenon
  <1>4. Cut(t) = C[n]
    BY Zenon DEF Cut, CutStep
  <1> HIDE DEF C
  <1>5. Collects(C, t)
    BY <1>3, Zenon DEF Collects
  <1> QED
    BY <1>4, <1>5

\* The elements of two sequences, one after the other.
LEMMA Appended ==
  ASSUME NEW S, NEW u \in Seq(S), NEW v \in Seq(S)
  PROVE  /\ u \o v \in Seq(S) /\ Len(u) \in Nat /\ Len(v) \in Nat
         /\ Len(u \o v) = Len(u) + Len(v)
         /\ \A x \in 1 .. Len(u) : x \in 1 .. Len(u \o v) /\ (u \o v)[x] = u[x]
         /\ \A x \in 1 .. Len(v) : /\ Len(u) + x \in 1 .. Len(u \o v)
                                  /\ (u \o v)[Len(u) + x] = v[x]
         /\ \A x \in 1 .. Len(u \o v) :
              x \notin 1 .. Len(u) =>
                /\ x - Len(u) \in 1 .. Len(v)
                /\ (u \o v)[x] = v[x - Len(u)]
  OBVIOUS

\* The sets of s are parts of M, without overlap.
Divides(s, M) ==
  /\ s \in Seq(SUBSET Leaves)
  /\ \A x \in 1 .. Len(s) : s[x] # {} /\ s[x] \subseteq M
  /\ \A a \in M : \E x \in 1 .. Len(s) : a \in s[x]
  /\ \A x, y \in 1 .. Len(s) : x # y => s[x] \cap s[y] = {}

LEMMA DividesOne ==
  ASSUME NEW M \in SUBSET Leaves, M # {}
  PROVE  Divides(<<M>>, M)
  <1>1. <<M>> \in Seq(SUBSET Leaves) /\ Len(<<M>>) = 1 /\ <<M>>[1] = M
    OBVIOUS
  <1> QED
    BY <1>1 DEF Divides

LEMMA DividesBoth ==
  ASSUME NEW L, NEW R, NEW u, NEW v, Divides(u, L), Divides(v, R), L \cap R = {}
  PROVE  Divides(u \o v, L \cup R)
  <1> DEFINE w == u \o v
  <1>1. u \in Seq(SUBSET Leaves) /\ v \in Seq(SUBSET Leaves)
    BY DEF Divides
  <1>2. /\ w \in Seq(SUBSET Leaves) /\ Len(u) \in Nat /\ Len(v) \in Nat
        /\ \A x \in 1 .. Len(u) : x \in 1 .. Len(w) /\ w[x] = u[x]
        /\ \A x \in 1 .. Len(v) : Len(u) + x \in 1 .. Len(w) /\ w[Len(u) + x] = v[x]
        /\ \A x \in 1 .. Len(w) : x \notin 1 .. Len(u) =>
              x - Len(u) \in 1 .. Len(v) /\ w[x] = v[x - Len(u)]
    BY <1>1, Appended
  <1>3. \A x \in 1 .. Len(w) : \/ x \in 1 .. Len(u) /\ w[x] = u[x] /\ w[x] \subseteq L
                              \/ /\ x - Len(u) \in 1 .. Len(v)
                                 /\ w[x] = v[x - Len(u)] /\ w[x] \subseteq R
    BY <1>2 DEF Divides
  <1> HIDE DEF w
  <1>4. \A x \in 1 .. Len(w) : w[x] # {} /\ w[x] \subseteq L \cup R
    BY <1>3 DEF Divides
  <1>5. \A a \in L \cup R : \E x \in 1 .. Len(w) : a \in w[x]
    <2>1. ASSUME NEW a \in L
          PROVE  \E x \in 1 .. Len(w) : a \in w[x]
      <3>1. PICK x \in 1 .. Len(u) : a \in u[x]
        BY <2>1 DEF Divides
      <3> QED
        BY <1>2, <3>1
    <2>2. ASSUME NEW a \in R
          PROVE  \E x \in 1 .. Len(w) : a \in w[x]
      <3>1. PICK x \in 1 .. Len(v) : a \in v[x]
        BY <2>2 DEF Divides
      <3> QED
        BY <1>2, <3>1
    <2> QED
      BY <2>1, <2>2
  <1>6. ASSUME NEW x \in 1 .. Len(w), NEW y \in 1 .. Len(w), x # y
        PROVE  w[x] \cap w[y] = {}
    <2>1. CASE x \in 1 .. Len(u) /\ y \in 1 .. Len(u)
      BY <1>2, <1>6, <2>1 DEF Divides
    <2>2. CASE x \notin 1 .. Len(u) /\ y \notin 1 .. Len(u)
      <3>1. /\ x - Len(u) \in 1 .. Len(v) /\ w[x] = v[x - Len(u)]
            /\ y - Len(u) \in 1 .. Len(v) /\ w[y] = v[y - Len(u)]
        BY <1>2, <2>2
      <3>2. x - Len(u) # y - Len(u)
        BY <1>2, <1>6
      <3> QED
        BY <3>1, <3>2 DEF Divides
    <2>3. CASE x \in 1 .. Len(u) /\ y \notin 1 .. Len(u)
      <3>1. w[x] \subseteq L /\ w[y] \subseteq R
        BY <1>2, <2>3 DEF Divides
      <3> QED
        BY <3>1
    <2>4. CASE x \notin 1 .. Len(u) /\ y \in 1 .. Len(u)
      <3>1. w[x] \subseteq R /\ w[y] \subseteq L
        BY <1>2, <2>4 DEF Divides
      <3> QED
        BY <3>1
    <2> QED
      BY <2>1, <2>2, <2>3, <2>4
  <1>7. Divides(w, L \cup R)
    BY <1>2, <1>4, <1>5, <1>6 DEF Divides
  <1> QED
    BY <1>7 DEF w

\* Where a cut stops: at nodes within the threshold that have no parent within it.
CutNode(p, t) ==
  /\ p \in 1 .. Len(nodes) /\ nodes[p].merge <= t
  /\ \A k \in N + 1 .. Len(nodes) : Child(p, k) => nodes[k].merge > t

Reached(k, t) == nodes[k].merge > t \/ CutNode(k, t)

\* A node has one parent at most, so that what is below a reached merge beyond the
\* threshold is reached itself.
LEMMA ChildReached ==
  ASSUME TInv, NEW t \in Nat, NEW k \in 1 .. Len(nodes), nodes[k].left # 0,
         nodes[k].merge > t, NEW p, Child(p, k)
  PROVE  Reached(p, t)
  <1>1. k \in N + 1 .. Len(nodes) /\ p \in 1 .. Len(nodes) /\ Joined(k) /\ k \in Nat
    BY NodeFacts DEF Child
  <1>2. nodes[p].merge \in Nat
    BY <1>1, NodeFacts
  <1>3. ASSUME NEW l \in N + 1 .. Len(nodes), Child(p, l)
        PROVE  l = k
    <2>1. /\ Joined(l) /\ l \in Nat /\ N \in Nat /\ RootAt(p, k - 1) /\ RootAt(p, l - 1)
          /\ k \in Nat
      <3>1. Joined(l)
        BY <1>3 DEF TInv, Tree
      <3>2. RootAt(p, k - 1) /\ RootAt(p, l - 1)
        BY <1>1, <1>3, <3>1 DEF Joined, Child
      <3> QED
        BY <1>1, <3>1, <3>2, NAssumption
    <2>2. ~(l < k)
      <3>1. l < k => l \in N + 1 .. k - 1
        BY <2>1
      <3> QED
        BY <1>3, <2>1, <3>1 DEF RootAt
    <2>3. ~(k < l)
      <3>1. k < l => k \in N + 1 .. l - 1
        BY <1>1, <2>1
      <3> QED
        BY <2>1, <3>1 DEF RootAt
    <2> QED
      BY <2>1, <2>2, <2>3
  <1>4. CASE nodes[p].merge > t
    BY <1>4 DEF Reached
  <1>5. CASE nodes[p].merge <= t
    BY <1>1, <1>3, <1>5 DEF Reached, CutNode
  <1> QED
    BY <1>2, <1>4, <1>5

CutParts(t) == {nodes[p].members : p \in {q \in 1 .. Len(nodes) : CutNode(q, t)}}

\* What is collected at a reached node are the cut nodes below it.
LEMMA CollectedParts ==
  ASSUME TInv, NEW t \in Nat, NEW g, Collects(g, t)
  PROVE  \A k \in 1 .. Len(nodes) : Reached(k, t) =>
           /\ Divides(g[k], nodes[k].members)
           /\ g[k] \in Seq(CutParts(t))
  <1> DEFINE Good(k) == Reached(k, t) => Divides(g[k], nodes[k].members) /\ g[k] \in Seq(CutParts(t))
             Bad == {k \in 1 .. Len(nodes) : ~Good(k)}
  <1>1. ASSUME NEW k \in Bad, \A l \in Bad : k <= l
        PROVE  FALSE
    <2>1. k \in 1 .. Len(nodes) /\ Reached(k, t) /\ k \in Nat
      OBVIOUS
    <2>2. nodes[k].merge \in Nat /\ nodes[k].members \in SUBSET Leaves /\ nodes[k].members # {}
      BY <2>1, NodeFacts DEF TInv, Tree, Within
    <2>3. CASE nodes[k].left = 0 \/ nodes[k].merge <= t
      <3>1. g[k] = <<nodes[k].members>>
        BY <2>1, <2>3 DEF Collects, CutStep
      <3>2. Divides(g[k], nodes[k].members)
        BY <2>2, <3>1, DividesOne
      <3>3. nodes[k].merge <= t
        BY <2>1, <2>3, NodeFacts
      <3>4. CutNode(k, t)
        BY <2>1, <2>2, <3>3 DEF Reached
      <3>5. g[k] \in Seq(CutParts(t))
        <4>1. nodes[k].members \in CutParts(t)
          BY <2>1, <3>4 DEF CutParts
        <4> QED
          BY <3>1, <4>1
      <3> QED
        BY <3>2, <3>5
    <2>4. CASE nodes[k].left # 0 /\ ~(nodes[k].merge <= t)
      <3>1. PICK l, r : l = nodes[k].left /\ r = nodes[k].right
        OBVIOUS
      <3>2. /\ l \in 1 .. Len(nodes) /\ r \in 1 .. Len(nodes) /\ l \in 1 .. k - 1 /\ r \in 1 .. k - 1
            /\ nodes[k].members = nodes[l].members \cup nodes[r].members
            /\ nodes[l].members \cap nodes[r].members = {}
        <4>1. Joined(k)
          BY <2>1, <2>4, NodeFacts
        <4> QED
          BY <2>1, <2>4, <3>1, <4>1, NodeFacts DEF Joined
      <3>3. g[k] = g[l] \o g[r]
        BY <2>1, <2>4, <3>1, Zenon DEF Collects, CutStep
      <3>4. Reached(l, t) /\ Reached(r, t)
        BY <2>1, <2>2, <2>4, <3>1, ChildReached DEF Child
      <3>5. ~(k <= l) /\ ~(k <= r)
        BY <2>1, <3>2
      <3>6. Good(l) /\ Good(r)
        <4>1. l \notin Bad /\ r \notin Bad
          <5> HIDE DEF Bad
          <5> QED
            BY <1>1, <3>5
        <4> QED
          BY <3>2, <4>1
      <3>7. Divides(g[l], nodes[l].members) /\ Divides(g[r], nodes[r].members)
        BY <3>4, <3>6
      <3>8. g[l] \in Seq(CutParts(t)) /\ g[r] \in Seq(CutParts(t))
        BY <3>4, <3>6
      <3>9. Divides(g[k], nodes[k].members)
        BY <3>2, <3>3, <3>7, DividesBoth
      <3>10. g[k] \in Seq(CutParts(t))
        BY <3>3, <3>8
      <3> QED
        BY <3>9, <3>10
    <2> QED
      BY <2>3, <2>4
  <1>2. Bad = {}
    <2>1. Bad \subseteq Nat
      OBVIOUS
    <2> HIDE DEF Bad
    <2> QED
      BY <1>1, <2>1, LeastNumber
  <1> QED
    BY <1>2

\* A single active cluster holds all leaves and is the last node.
LEMMA BuiltFacts ==
  ASSUME TInv, Built
  PROVE  /\ Len(nodes) \in 1 .. Len(nodes) /\ nodes[Len(nodes)].members = Leaves
         /\ \A k \in N + 1 .. Len(nodes) : ~Child(Len(nodes), k)
         /\ \A p \in 1 .. Len(nodes) : RootAt(p, Len(nodes)) => p = Len(nodes)
  <1>1. Len(nodes) \in Nat /\ Len(nodes) \in 1 .. Len(nodes) /\ N \in Nat \ {0}
    BY NAssumption DEF TInv, DInv, Shape
  <1>2. PICK i : active = {i}
    <2>1. IsFiniteSet(active)
      <3>1. IsFiniteSet(Leaves)
        BY NAssumption, FS_Interval DEF Leaves
      <3> QED
        BY <3>1, FS_Subset DEF TInv, DInv, Shape
    <2> QED
      BY <2>1, FS_Singleton DEF Built
  <1>3. RootAt(Len(nodes), Len(nodes))
    <2>1. ASSUME NEW k \in N + 1 .. Len(nodes)
          PROVE  ~Child(Len(nodes), k)
      <3>1. k \in 1 .. Len(nodes) /\ Joined(k)
        BY <1>1 DEF TInv, Tree
      <3>2. nodes[k].left \in 1 .. k - 1 /\ nodes[k].right \in 1 .. k - 1
        BY <3>1 DEF Joined, RootAt
      <3> QED
        BY <1>1, <3>2 DEF Child
    <2> QED
      BY <1>1, <2>1 DEF RootAt
  <1>4. Len(nodes) = node[i]
    BY <1>1, <1>2, <1>3 DEF TInv, Tree
  <1>5. Members(i) = Leaves
    <2>1. Members(i) \in SUBSET Leaves
      BY <1>2, MembersAreLeaves DEF TInv
    <2> QED
      BY <1>2, <2>1 DEF TInv, DInv, Partition
  <1>6. \A p \in 1 .. Len(nodes) : RootAt(p, Len(nodes)) => p = Len(nodes)
    BY <1>2, <1>4 DEF TInv, Tree
  <1> QED
    BY <1>1, <1>3, <1>4, <1>5, <1>6 DEF Members, RootAt

\* Whatever the threshold, the cut of a finished dendrogram is a partition of the
\* leaves, and its parts are cut nodes.
LEMMA CutFacts ==
  ASSUME TInv, Built, NEW t \in Nat
  PROVE  Divides(Cut(t), Leaves) /\ Cut(t) \in Seq(CutParts(t))
  <1> DEFINE n == Len(nodes)
  <1>1. PICK g : Collects(g, t) /\ Cut(t) = g[n]
    BY CutIsCollected
  <1>2. n \in 1 .. n /\ nodes[n].members = Leaves /\ nodes[n].merge \in Nat
    BY BuiltFacts, NodeFacts
  <1>3. Reached(n, t)
    BY <1>2, BuiltFacts DEF Reached, CutNode
  <1> QED
    BY <1>1, <1>2, <1>3, CollectedParts

\* The linkage's distance is that of a closest pair, ...
LEMMA LinkIsLeast ==
  ASSUME NEW A \in SUBSET Leaves, NEW B \in SUBSET Leaves, A # {}, B # {},
         lat \in [Leaves -> [Leaves -> Nat]], linkage = "SINGLE"
  PROVE  TheClustering!Link(A, B) \in Nat /\ Least(TheClustering!Link(A, B), A, B)
  <1> DEFINE P == {lat[a][b] : a \in A, b \in B}
  <1>1. P \subseteq Nat /\ P # {}
    <2>1. PICK a \in A, b \in B : TRUE
      OBVIOUS
    <2>2. lat[a][b] \in P
      OBVIOUS
    <2>3. P \subseteq Nat
      OBVIOUS
    <2> HIDE DEF P
    <2> QED
      BY <2>2, <2>3
  <1>2. PICK d \in P : \A e \in P : d <= e
    <2> HIDE DEF P
    <2> QED
      BY <1>1, LeastNumber
  <1>3. Least(d, A, B) /\ d \in Nat
    BY <1>1, <1>2 DEF Least
  <1>4. TheClustering!Link(A, B) = d
    <2> HIDE DEF P
    <2> QED
      BY <1>3, LeastIsMin
  <1> QED
    BY <1>3, <1>4

\* ... or that of a pair furthest apart.
LEMMA LinkIsLargest ==
  ASSUME NEW A \in SUBSET Leaves, NEW B \in SUBSET Leaves, A # {}, B # {},
         lat \in [Leaves -> [Leaves -> Nat]], linkage = "COMPLETE",
         NEW m \in Nat, \A a, b \in Leaves : lat[a][b] <= m
  PROVE  TheClustering!Link(A, B) \in Nat /\ Largest(TheClustering!Link(A, B), A, B)
  <1> DEFINE P == {lat[a][b] : a \in A, b \in B}
  <1>1. P \subseteq Nat /\ P # {} /\ \A e \in P : e <= m
    <2>1. PICK a \in A, b \in B : TRUE
      OBVIOUS
    <2>2. lat[a][b] \in P
      OBVIOUS
    <2>3. P \subseteq Nat /\ \A e \in P : e <= m
      OBVIOUS
    <2> HIDE DEF P
    <2> QED
      BY <2>2, <2>3
  <1>2. PICK d \in P : \A e \in P : e <= d
    <2> HIDE DEF P
    <2> QED
      BY <1>1, GreatestNumber
  <1>3. d \in Nat /\ Largest(d, A, B)
    <2>1. d \in Nat /\ \E a \in A, b \in B : d = lat[a][b]
      BY <1>1
    <2>2. \A a \in A, b \in B : lat[a][b] \in P
      OBVIOUS
    <2>3. \A a \in A, b \in B : d >= lat[a][b]
      <3> HIDE DEF P
      <3> QED
        BY <1>1, <1>2, <2>2
    <2> QED
      BY <2>1, <2>3 DEF Largest
  <1>4. TheClustering!Link(A, B) = d
    <2> HIDE DEF P
    <2> QED
      BY <1>3, LargestIsMax
  <1> QED
    BY <1>3, <1>4

\* Two different cut nodes were both roots when the first merge beyond the
\* threshold was made.
LEMMA RootsBeyond ==
  ASSUME TInv, Built, NEW t \in Nat, NEW p, NEW q, CutNode(p, t), CutNode(q, t), p # q
  PROVE  \E m \in N + 1 .. Len(nodes) :
           /\ nodes[m].merge > t /\ nodes[m].merge \in Nat
           /\ p \in 1 .. m - 1 /\ q \in 1 .. m - 1
           /\ RootAt(p, m - 1) /\ RootAt(q, m - 1)
  <1> DEFINE n == Len(nodes)
             Beyonds == {k \in N + 1 .. n : nodes[k].merge > t}
  <1>1. /\ p \in 1 .. n /\ q \in 1 .. n /\ n \in Nat /\ N \in Nat
        /\ nodes[p].merge <= t /\ nodes[q].merge <= t
        /\ \A k \in 1 .. n : nodes[k].merge \in Nat
    BY NodeFacts, NAssumption DEF CutNode, TInv, DInv, Shape
  <1>2. Beyonds # {}
    <2>1. PICK c : c \in {p, q} /\ c # n
      OBVIOUS
    <2>2. ~RootAt(c, n)
      BY <1>1, <2>1, BuiltFacts
    <2>3. PICK k \in N + 1 .. n : Child(c, k)
      BY <1>1, <2>1, <2>2 DEF RootAt
    <2>4. nodes[k].merge > t
      BY <2>1, <2>3 DEF CutNode
    <2> QED
      BY <2>3, <2>4
  <1>3. PICK m \in Beyonds : \A k \in Beyonds : m <= k
    <2>1. Beyonds \subseteq Nat
      BY <1>1
    <2> HIDE DEF Beyonds
    <2> QED
      BY <1>2, <2>1, LeastNumber
  <1>4. m \in N + 1 .. n /\ m \in 1 .. n /\ nodes[m].merge > t /\ nodes[m].merge \in Nat
    BY <1>1, <1>3
  <1>5. ASSUME NEW c, CutNode(c, t)
        PROVE  c \in 1 .. m - 1 /\ RootAt(c, m - 1)
    <2>1. c \in 1 .. n /\ nodes[c].merge <= t /\ nodes[c].merge \in Nat
      BY <1>1, <1>5 DEF CutNode
    <2>2. ~(m <= c)
      <3>1. m <= c => nodes[m].merge <= nodes[c].merge
        BY <1>1, <1>4, <2>1 DEF TInv, Tree
      <3> QED
        BY <1>4, <2>1, <3>1
    <2>3. c \in 1 .. m - 1
      BY <1>1, <1>4, <2>1, <2>2
    <2>4. ASSUME NEW k \in N + 1 .. m - 1
          PROVE  ~Child(c, k)
      <3>1. k \in N + 1 .. n /\ ~(m <= k)
        BY <1>1, <1>4
      <3>2. k \notin Beyonds
        <4> HIDE DEF Beyonds
        <4> QED
          BY <1>3, <3>1
      <3>3. ~(nodes[k].merge > t)
        BY <3>1, <3>2
      <3> QED
        BY <1>5, <3>1, <3>3 DEF CutNode
    <2> QED
      BY <2>3, <2>4 DEF RootAt
  <1>6. p \in 1 .. m - 1 /\ q \in 1 .. m - 1 /\ RootAt(p, m - 1) /\ RootAt(q, m - 1)
    BY <1>5
  <1> QED
    BY <1>4, <1>6

\* So they are further apart than the threshold.
LEMMA CutNodesApart ==
  ASSUME TInv, Built, NEW t \in Nat, NEW p, NEW q, CutNode(p, t), CutNode(q, t), p # q
  PROVE  \E d \in Nat : d > t /\ Apart(p, q, d)
  <1>1. PICK m \in N + 1 .. Len(nodes) :
          /\ nodes[m].merge > t /\ nodes[m].merge \in Nat
          /\ p \in 1 .. m - 1 /\ q \in 1 .. m - 1
          /\ RootAt(p, m - 1) /\ RootAt(q, m - 1)
    BY RootsBeyond
  <1>2. Apart(p, q, nodes[m].merge)
    BY <1>1 DEF TInv, Tree
  <1> QED
    BY <1>1, <1>2

LEMMA CutSound ==
  ASSUME TInv, Built, "AVERAGE" \notin Linkages, NEW t \in Nat
  PROVE  CutIsSound(t)
  <1> DEFINE parts == {Cut(t)[k] : k \in DOMAIN Cut(t)}
  <1>1. Divides(Cut(t), Leaves) /\ Cut(t) \in Seq(CutParts(t))
    BY CutFacts
  <1>2. /\ lat \in [Leaves -> [Leaves -> Nat]] /\ linkage \in {"SINGLE", "COMPLETE"}
    BY LinkagesAssumption DEF TInv, DInv, Shape
  <1>3. UNION parts = Leaves
    BY <1>1 DEF Divides
  <1>4. ASSUME linkage = "COMPLETE"
        PROVE  \E m \in Nat : \A a, b \in Leaves : lat[a][b] <= m
    <2>1. nodes[Len(nodes)].merge \in Nat /\ nodes[Len(nodes)].members = Leaves
      BY BuiltFacts, NodeFacts
    <2>2. Within(Len(nodes))
      BY BuiltFacts DEF TInv, Tree
    <2> QED
      BY <1>4, <2>1, <2>2 DEF Within
  <1>5. \A A \in parts : /\ A # {} /\ A \in SUBSET Leaves
                         /\ \E p \in 1 .. Len(nodes) : CutNode(p, t) /\ A = nodes[p].members
    <2>1. \A A \in parts : A \in CutParts(t) /\ A # {} /\ A \in SUBSET Leaves
      BY <1>1 DEF Divides
    <2> HIDE DEF parts
    <2> QED
      BY <2>1 DEF CutParts
  <1>6. ASSUME NEW A \in parts, NEW B \in parts, A # B
        PROVE  A \cap B = {} /\ TheClustering!Link(A, B) > t
    <2>1. A \cap B = {}
      BY <1>1, <1>6 DEF Divides
    <2> HIDE DEF parts
    <2>2. PICK p \in 1 .. Len(nodes), q \in 1 .. Len(nodes) :
            CutNode(p, t) /\ CutNode(q, t) /\ A = nodes[p].members /\ B = nodes[q].members
      BY <1>5
    <2>3. PICK d \in Nat : d > t /\ Apart(p, q, d)
      BY <1>6, <2>2, CutNodesApart
    <2>4. A # {} /\ B # {} /\ A \in SUBSET Leaves /\ B \in SUBSET Leaves
      BY <1>5
    <2>5. CASE linkage = "SINGLE"
      <3>1. PICK e : e = TheClustering!Link(A, B)
        OBVIOUS
      <3>2. e \in Nat /\ Least(e, A, B)
        BY <1>2, <2>4, <2>5, <3>1, LinkIsLeast
      <3>3. PICK a \in A, b \in B : e = lat[a][b]
        BY <3>2 DEF Least
      <3>4. d <= e
        BY <2>2, <2>3, <2>5, <3>3 DEF Apart
      <3> QED
        BY <2>1, <2>3, <3>1, <3>2, <3>4
    <2>6. CASE linkage = "COMPLETE"
      <3>1. PICK e : e = TheClustering!Link(A, B)
        OBVIOUS
      <3>2. e \in Nat /\ Largest(e, A, B)
        BY <1>2, <1>4, <2>4, <2>6, <3>1, LinkIsLargest
      <3>3. PICK a \in A, b \in B : d <= lat[a][b]
        BY <2>2, <2>3, <2>6 DEF Apart
      <3>4. lat[a][b] \in Nat /\ lat[a][b] <= e
        BY <1>2, <2>4, <3>2, <3>3 DEF Largest
      <3> QED
        BY <2>1, <2>3, <3>1, <3>2, <3>3, <3>4
    <2> QED
      BY <1>2, <2>5, <2>6
  <1>7. ASSUME NEW A \in parts, linkage = "SINGLE", NEW S \in (SUBSET A) \ {{}, A}
        PROVE  TheClustering!Link(S, A \ S) <= t
    <2> HIDE DEF parts
    <2>1. PICK p \in 1 .. Len(nodes) : CutNode(p, t) /\ A = nodes[p].members
      BY <1>5
    <2>2. PICK a \in S, b \in A \ S : lat[a][b] <= nodes[p].merge
      BY <1>7, <2>1 DEF TInv, Tree, Within
    <2>3. PICK e : e = TheClustering!Link(S, A \ S)
      OBVIOUS
    <2>4. /\ S \in SUBSET Leaves /\ (A \ S) \in SUBSET Leaves /\ S # {} /\ A \ S # {}
          /\ a \in Leaves /\ b \in Leaves
      BY <1>5, <1>7, <2>2
    <2>5. e \in Nat /\ Least(e, S, A \ S)
      BY <1>2, <1>7, <2>3, <2>4, LinkIsLeast
    <2>6. e <= lat[a][b] /\ lat[a][b] \in Nat
      BY <1>2, <2>2, <2>4, <2>5 DEF Least
    <2>7. nodes[p].merge \in Nat /\ nodes[p].merge <= t
      BY <2>1, NodeFacts DEF CutNode
    <2>8. e <= t
      BY <2>2, <2>5, <2>6, <2>7
    <2> QED
      BY <2>3, <2>8
  <1>8. ASSUME NEW A \in parts, linkage = "COMPLETE", NEW a \in A, NEW b \in A
        PROVE  lat[a][b] <= t
    <2> HIDE DEF parts
    <2>1. PICK p \in 1 .. Len(nodes) : CutNode(p, t) /\ A = nodes[p].members
      BY <1>5
    <2>2. lat[a][b] <= nodes[p].merge
      BY <1>8, <2>1 DEF TInv, Tree, Within
    <2>3. nodes[p].merge \in Nat /\ nodes[p].merge <= t /\ lat[a][b] \in Nat
      BY <1>2, <1>5, <2>1, NodeFacts DEF CutNode
    <2> QED
      BY <2>2, <2>3
  <1>9. \A A \in parts :
          /\ linkage = "SINGLE" =>
               \A S \in (SUBSET A) \ {{}, A} : TheClustering!Link(S, A \ S) <= t
          /\ linkage = "COMPLETE" => \A a, b \in A : lat[a][b] <= t
    BY <1>7, <1>8
  <1>10. \A A, B \in parts : A # B => A \cap B = {} /\ TheClustering!Link(A, B) > t
    BY <1>6
  <1> HIDE DEF parts
  <1> QED
    BY <1>3, <1>9, <1>10, Zenon DEF CutIsSound, parts

\* With single and complete linkage the cuts of a finished dendrogram separate what
\* the linkage separates at the threshold, and nothing else: what cut_at_threshold
\* finds going down from the root is what the distances say.
THEOREM CutsAreRight ==
  ASSUME "AVERAGE" \notin Linkages
  PROVE  Spec => []CutsAreSound
  <1>1. TInv => CutsAreSound
    BY CutSound, DistancesAssumption DEF CutsAreSound
  <1> QED
    BY <1>1, TreeInductive, PTL

----------------------------------------------------------------------------
(***************************************************************************)
(* The cuts of the tiers.                                                  *)
(***************************************************************************)
LEMMA ToSetOfBoth ==
  ASSUME NEW S, NEW u \in Seq(S), NEW v \in Seq(S)
  PROVE  ToSet(u \o v) = ToSet(u) \cup ToSet(v)
  <1> DEFINE w == u \o v
  <1>1. /\ w \in Seq(S) /\ Len(u) \in Nat /\ Len(v) \in Nat
        /\ \A x \in 1 .. Len(u) : x \in 1 .. Len(w) /\ w[x] = u[x]
        /\ \A x \in 1 .. Len(v) : Len(u) + x \in 1 .. Len(w) /\ w[Len(u) + x] = v[x]
        /\ \A x \in 1 .. Len(w) : x \notin 1 .. Len(u) =>
              x - Len(u) \in 1 .. Len(v) /\ w[x] = v[x - Len(u)]
    BY Appended, SMTT(30)
  <1>2. DOMAIN u = 1 .. Len(u) /\ DOMAIN v = 1 .. Len(v) /\ DOMAIN w = 1 .. Len(w)
    BY <1>1
  <1> HIDE DEF w
  <1>3. \A c : c \in ToSet(w) => c \in ToSet(u) \/ c \in ToSet(v)
    BY <1>1, <1>2, SMTT(30) DEF ToSet
  <1>4. \A c : c \in ToSet(u) => c \in ToSet(w)
    BY <1>1, <1>2, SMTT(30) DEF ToSet
  <1>5. \A c : c \in ToSet(v) => c \in ToSet(w)
    BY <1>1, <1>2, SMTT(30) DEF ToSet
  <1>6. ToSet(w) = ToSet(u) \cup ToSet(v)
    BY <1>3, <1>4, <1>5
  <1> QED
    BY <1>6 DEF w

\* What divides a set, as a set of sets.
LEMMA PartFacts ==
  ASSUME NEW s, NEW M, Divides(s, M)
  PROVE  /\ DOMAIN s = 1 .. Len(s) /\ Len(s) \in Nat
         /\ \A c \in ToSet(s) : c # {} /\ c \subseteq M /\ c \subseteq Leaves
         /\ \A c, d \in ToSet(s) : c # d => c \cap d = {}
         /\ \A a \in M : \E c \in ToSet(s) : a \in c
  <1>1. s \in Seq(SUBSET Leaves) /\ DOMAIN s = 1 .. Len(s) /\ Len(s) \in Nat
    BY DEF Divides
  <1>2. \A x \in 1 .. Len(s) : s[x] # {} /\ s[x] \subseteq M /\ s[x] \subseteq Leaves
    BY <1>1 DEF Divides
  <1>3. \A c \in ToSet(s) : c # {} /\ c \subseteq M /\ c \subseteq Leaves
    BY <1>1, <1>2 DEF ToSet
  <1>4. \A c, d \in ToSet(s) : c # d => c \cap d = {}
    BY <1>1 DEF Divides, ToSet
  <1>5. \A a \in M : \E c \in ToSet(s) : a \in c
    BY <1>1 DEF Divides, ToSet
  <1> QED
    BY <1>1, <1>3, <1>4, <1>5

\* Every set of u is within one of v.
Nests(u, v) == \A c \in ToSet(u) : \E d \in ToSet(v) : c \subseteq d

\* What a cut keeps together, every cut at a higher threshold keeps together.
LEMMA CollectedNest ==
  ASSUME TInv, NEW s \in Nat, NEW t \in Nat, s <= t,
         NEW g, Collects(g, s), NEW h, Collects(h, t)
  PROVE  \A k \in 1 .. Len(nodes) : Reached(k, s) /\ Reached(k, t) => Nests(g[k], h[k])
  <1> DEFINE Good(k) == Reached(k, s) /\ Reached(k, t) => Nests(g[k], h[k])
             Bad == {k \in 1 .. Len(nodes) : ~Good(k)}
  <1>1. ASSUME NEW k \in Bad, \A l \in Bad : k <= l
        PROVE  FALSE
    <2>1. k \in 1 .. Len(nodes) /\ Reached(k, s) /\ Reached(k, t) /\ k \in Nat
      OBVIOUS
    <2>2. nodes[k].merge \in Nat
      BY <2>1, NodeFacts
    <2>3. CASE nodes[k].left = 0 \/ nodes[k].merge <= t
      <3>1. h[k] = <<nodes[k].members>>
        BY <2>1, <2>3 DEF Collects, CutStep
      <3>2. \A c \in ToSet(g[k]) : c \subseteq nodes[k].members
        <4>1. Divides(g[k], nodes[k].members)
          BY <2>1, CollectedParts
        <4> QED
          BY <4>1, PartFacts
      <3>3. nodes[k].members \in ToSet(h[k])
        BY <3>1 DEF ToSet
      <3> QED
        BY <3>2, <3>3 DEF Nests
    <2>4. CASE nodes[k].left # 0 /\ ~(nodes[k].merge <= t)
      <3>1. PICK l, r : l = nodes[k].left /\ r = nodes[k].right
        OBVIOUS
      <3>2. /\ l \in 1 .. Len(nodes) /\ r \in 1 .. Len(nodes) /\ l \in 1 .. k - 1 /\ r \in 1 .. k - 1
            /\ nodes[k].merge > t /\ nodes[k].merge > s /\ ~(nodes[k].merge <= s)
        BY <2>1, <2>2, <2>4, <3>1, NodeFacts
      <3>3. g[k] = g[l] \o g[r] /\ h[k] = h[l] \o h[r]
        BY <2>1, <2>4, <3>1, <3>2, Zenon DEF Collects, CutStep
      <3>4. Reached(l, s) /\ Reached(r, s) /\ Reached(l, t) /\ Reached(r, t)
        BY <2>1, <2>4, <3>1, <3>2, ChildReached DEF Child
      <3>5. ~(k <= l) /\ ~(k <= r)
        BY <2>1, <3>2
      <3>6. Nests(g[l], h[l]) /\ Nests(g[r], h[r])
        <4>1. l \notin Bad /\ r \notin Bad
          <5> HIDE DEF Bad
          <5> QED
            BY <1>1, <3>5
        <4> QED
          BY <3>2, <3>4, <4>1
      <3>7. /\ g[l] \in Seq(SUBSET Leaves) /\ g[r] \in Seq(SUBSET Leaves)
            /\ h[l] \in Seq(SUBSET Leaves) /\ h[r] \in Seq(SUBSET Leaves)
        BY <3>2, <3>4, CollectedParts DEF Divides
      <3>8. /\ ToSet(g[k]) = ToSet(g[l]) \cup ToSet(g[r])
            /\ ToSet(h[k]) = ToSet(h[l]) \cup ToSet(h[r])
        BY <3>3, <3>7, ToSetOfBoth
      <3> QED
        BY <3>6, <3>8 DEF Nests
    <2> QED
      BY <2>3, <2>4
  <1>2. Bad = {}
    <2>1. Bad \subseteq Nat
      OBVIOUS
    <2> HIDE DEF Bad
    <2> QED
      BY <1>1, <2>1, LeastNumber
  <1> QED
    BY <1>2

LEMMA CutsNest ==
  ASSUME TInv, Built, NEW s \in Nat, NEW t \in Nat, s <= t
  PROVE  Nests(Cut(s), Cut(t))
  <1> DEFINE n == Len(nodes)
  <1>1. PICK g : Collects(g, s) /\ Cut(s) = g[n]
    BY CutIsCollected
  <1>2. PICK h : Collects(h, t) /\ Cut(t) = h[n]
    BY CutIsCollected
  <1>3. n \in 1 .. n /\ nodes[n].merge \in Nat
    BY BuiltFacts, NodeFacts
  <1>4. Reached(n, s) /\ Reached(n, t)
    BY <1>3, BuiltFacts DEF Reached, CutNode
  <1> QED
    BY <1>1, <1>2, <1>3, <1>4, CollectedNest

\* Beyond the highest merge nothing is cut.
LEMMA WholeCut ==
  ASSUME TInv, Built, NEW t \in Nat, max_distance <= t
  PROVE  ToSet(Cut(t)) = {Leaves}
  <1> DEFINE n == Len(nodes)
  <1>1. PICK g : Collects(g, t) /\ Cut(t) = g[n]
    BY CutIsCollected
  <1>2. n \in 1 .. n /\ nodes[n].members = Leaves
    BY BuiltFacts
  <1>3. Cut(t) = <<Leaves>>
    BY <1>1, <1>2 DEF Collects, CutStep, max_distance
  <1> QED
    BY <1>3 DEF ToSet

LEMMA ThresholdFacts ==
  ASSUME TInv
  PROVE  /\ TopTier \in Nat /\ Tiers \subseteq Nat
         /\ max_distance \in Nat
         /\ \A t \in Tiers : Threshold(t) \in Nat
         /\ \A t \in 0 .. TopTier - 1 : Threshold(t) = Thresholds[t + 1]
         /\ Threshold(TopTier) = max_distance + Scale
         /\ \A s, t \in 0 .. TopTier - 1 : s <= t => Threshold(s) <= Threshold(t)
  <1>1. /\ Len(Thresholds) \in Nat /\ DOMAIN Thresholds = 1 .. Len(Thresholds)
        /\ \A k \in 1 .. Len(Thresholds) : Thresholds[k] \in Nat
        /\ Scale \in Nat
    BY ThresholdsAssumption, ScaleAssumption
  <1>2. TopTier \in Nat /\ Tiers \subseteq Nat
    BY <1>1 DEF TopTier, Tiers
  <1>3. max_distance \in Nat
    <2>1. Len(nodes) \in 1 .. Len(nodes)
      BY DEF TInv, DInv, Shape
    <2> QED
      BY <2>1, NodeFacts DEF max_distance
  <1>4. \A t \in 0 .. TopTier - 1 : Threshold(t) = Thresholds[t + 1] /\ Threshold(t) \in Nat
    BY <1>1 DEF Threshold, TopTier
  <1>5. Threshold(TopTier) = max_distance + Scale
    BY <1>1 DEF Threshold, TopTier
  <1>6. \A t \in Tiers : Threshold(t) \in Nat
    BY <1>1, <1>2, <1>3, <1>4, <1>5 DEF Tiers
  <1>7. ASSUME NEW s \in 0 .. TopTier - 1, NEW t \in 0 .. TopTier - 1, s <= t
        PROVE  Threshold(s) <= Threshold(t)
    <2>1. CASE s = t
      BY <1>4, <2>1
    <2>2. CASE s < t
      <3>1. Thresholds[s + 1] < Thresholds[t + 1]
        BY <1>1, <2>2, ThresholdsAssumption, SMTT(30) DEF TopTier
      <3>2. Threshold(s) \in Nat /\ Threshold(t) \in Nat
        BY <1>4
      <3> QED
        BY <1>4, <3>1, <3>2
    <2> QED
      BY <1>7, <2>1, <2>2
  <1> QED
    BY <1>2, <1>3, <1>4, <1>5, <1>6, <1>7

\* The cuts of the tiers get coarser, the one above the highest threshold included.
LEMMA TierCutsNest ==
  ASSUME TInv, Built, NEW s \in Tiers, NEW t \in Tiers, s <= t
  PROVE  Nests(Cut(Threshold(s)), Cut(Threshold(t)))
  <1>1. Threshold(s) \in Nat /\ Threshold(t) \in Nat /\ TopTier \in Nat
    BY ThresholdFacts
  <1>2. CASE Threshold(s) <= Threshold(t)
    BY <1>1, <1>2, CutsNest
  <1>3. CASE ~(Threshold(s) <= Threshold(t))
    <2>1. t = TopTier
      BY <1>1, <1>3, ThresholdFacts DEF Tiers
    <2>2. max_distance <= Threshold(t)
      BY <2>1, ThresholdFacts, ScaleAssumption
    <2>3. ToSet(Cut(Threshold(t))) = {Leaves}
      BY <1>1, <2>2, WholeCut
    <2>4. \A c \in ToSet(Cut(Threshold(s))) : c \subseteq Leaves
      BY <1>1, CutFacts, PartFacts
    <2> QED
      BY <2>3, <2>4 DEF Nests
  <1> QED
    BY <1>2, <1>3

\* A cluster of two tiers is a cluster of every tier between them.
LEMMA ClusterBetween ==
  ASSUME TInv, Built, NEW s \in Tiers, NEW t \in Tiers, NEW u \in Tiers, s <= u, u <= t,
         NEW c \in ToSet(Cut(Threshold(s))), c \in ToSet(Cut(Threshold(t)))
  PROVE  c \in ToSet(Cut(Threshold(u)))
  <1>1. PICK d \in ToSet(Cut(Threshold(u))) : c \subseteq d
    BY TierCutsNest DEF Nests
  <1>2. PICK e \in ToSet(Cut(Threshold(t))) : d \subseteq e
    BY TierCutsNest DEF Nests
  <1>3. Threshold(s) \in Nat /\ Threshold(t) \in Nat
    BY ThresholdFacts
  <1>4. Divides(Cut(Threshold(s)), Leaves) /\ Divides(Cut(Threshold(t)), Leaves)
    BY <1>3, CutFacts
  <1>5. c # {}
    BY <1>4, PartFacts
  <1>6. c = e
    BY <1>1, <1>2, <1>4, <1>5, PartFacts
  <1> QED
    BY <1>1, <1>2, <1>6

----------------------------------------------------------------------------
(***************************************************************************)
(* The tiers of the nodes.                                                 *)
(***************************************************************************)
LEMMA PlaceFacts ==
  ASSUME TInv, Built, NEW t \in Tiers, NEW a \in Leaves
  PROVE  /\ Divides(Cut(Threshold(t)), Leaves)
         /\ Place(t, a) \in 1 .. Len(Cut(Threshold(t)))
         /\ a \in Cut(Threshold(t))[Place(t, a)]
         /\ \A k \in 1 .. Len(Cut(Threshold(t))) :
              a \in Cut(Threshold(t))[k] => k = Place(t, a)
  <1> DEFINE c == Cut(Threshold(t))
  <1>1. Divides(c, Leaves)
    BY ThresholdFacts, CutFacts
  <1>2. DOMAIN c = 1 .. Len(c)
    BY <1>1, PartFacts
  <1>3. \E k \in 1 .. Len(c) : a \in c[k]
    BY <1>1 DEF Divides
  <1>4. \A k, l \in 1 .. Len(c) : a \in c[k] /\ a \in c[l] => k = l
    BY <1>1 DEF Divides
  <1>5. Place(t, a) = CHOOSE k \in DOMAIN c : a \in c[k]
    BY Zenon DEF Place
  <1> HIDE DEF c
  <1>6. Place(t, a) \in 1 .. Len(c) /\ a \in c[Place(t, a)]
    BY <1>2, <1>3, <1>5
  <1>7. \A k \in 1 .. Len(c) : a \in c[k] => k = Place(t, a)
    BY <1>4, <1>6
  <1> QED
    BY <1>1, <1>6, <1>7 DEF c

\* Companions share the place in the cut.
LEMMA CompanionFacts ==
  ASSUME TInv, Built, NEW t \in Tiers, NEW a \in Leaves, NEW b \in Leaves
  PROVE  /\ b \in Companions(t, a) <=> a # b /\ Place(t, a) = Place(t, b)
         /\ Companions(t, a) \subseteq Leaves
  <1>1. Divides(Cut(Threshold(t)), Leaves)
    BY PlaceFacts
  <1>2. Companions(t, a) \subseteq Leaves
    BY <1>1, PlaceFacts DEF Companions, Divides
  <1>3. b \in Companions(t, a) <=> a # b /\ Place(t, a) = Place(t, b)
    BY PlaceFacts DEF Companions
  <1> QED
    BY <1>2, <1>3

\* The tier is the first at which there are companions.
LEMMA TierFacts ==
  ASSUME TInv, NEW a \in Leaves
  PROVE  /\ TierOf(a) \in Tiers
         /\ TierOf(a) < TopTier => Companions(TierOf(a), a) # {}
         /\ \A t \in 0 .. TopTier - 1 : t < TierOf(a) => Companions(t, a) = {}
  <1> DEFINE ts == {t \in 0 .. TopTier - 1 : Companions(t, a) # {}}
  <1>1. TopTier \in Nat /\ ts \subseteq Nat
    BY ThresholdFacts
  <1>2. TierOf(a) = IF ts = {} THEN TopTier ELSE Min(ts)
    BY DEF TierOf
  <1>3. CASE ts = {}
    BY <1>1, <1>2, <1>3 DEF Tiers
  <1>4. CASE ts # {}
    <2>1. TierOf(a) = Min(ts)
      BY <1>2, <1>4
    <2>2. Min(ts) \in ts /\ \A t \in ts : Min(ts) <= t
      <3> HIDE DEF ts
      <3> QED
        BY <1>1, <1>4, MinFacts
    <2>3. TierOf(a) \in ts /\ \A t \in ts : TierOf(a) <= t
      BY <2>1, <2>2
    <2> QED
      BY <1>1, <2>3 DEF Tiers
  <1> QED
    BY <1>3, <1>4

\* A node without companions is a part of the cut by itself, and whatever is in
\* another part is further away than the threshold.
LEMMA AloneIsApart ==
  ASSUME TInv, Built, linkage = "SINGLE", NEW t \in Tiers, NEW a \in Leaves, NEW b \in Leaves,
         a # b, b \notin Companions(t, a)
  PROVE  lat[a][b] > Threshold(t)
  <1> DEFINE c == Cut(Threshold(t))
  <1>1. Threshold(t) \in Nat
    BY ThresholdFacts
  <1>2. PICK k, l : k = Place(t, a) /\ l = Place(t, b)
    OBVIOUS
  <1>3. k # l /\ k \in 1 .. Len(c) /\ l \in 1 .. Len(c) /\ a \in c[k] /\ b \in c[l]
    BY <1>2, CompanionFacts, PlaceFacts
  <1>4. c \in Seq(CutParts(Threshold(t))) /\ Divides(c, Leaves)
    BY <1>1, CutFacts
  <1>5. c[k] \in CutParts(Threshold(t)) /\ c[l] \in CutParts(Threshold(t)) /\ c[k] \cap c[l] = {}
    BY <1>3, <1>4 DEF Divides
  <1>6. PICK p \in 1 .. Len(nodes), q \in 1 .. Len(nodes) :
          CutNode(p, Threshold(t)) /\ CutNode(q, Threshold(t))
          /\ c[k] = nodes[p].members /\ c[l] = nodes[q].members
    BY <1>5 DEF CutParts
  <1>7. p # q
    BY <1>3, <1>5, <1>6
  <1>8. PICK d \in Nat : d > Threshold(t) /\ Apart(p, q, d)
    BY <1>1, <1>6, <1>7, CutNodesApart
  <1>9. d <= lat[a][b]
    BY <1>3, <1>6, <1>8 DEF Apart
  <1>10. lat[a][b] \in Nat
    BY DEF TInv, DInv, Shape
  <1> QED
    BY <1>1, <1>8, <1>9, <1>10

LEMMA RawFacts ==
  ASSUME TInv, Built, NEW a \in Leaves
  PROVE  /\ RawCluster(a) \in Nat
         /\ \A b \in Leaves : TierOf(a) = TierOf(b) =>
              (RawCluster(a) = RawCluster(b)
                 <=> a = b \/ (TierOf(a) < TopTier /\ b \in Companions(TierOf(a), a)))
         /\ \E n \in Nat : \A b \in Leaves : TierOf(a) = TierOf(b) => RawCluster(b) <= n
  <1>1. PICK t : t = TierOf(a)
    OBVIOUS
  <1>2. t \in Tiers /\ TopTier \in Nat /\ (t < TopTier <=> t # TopTier)
    BY <1>1, TierFacts, ThresholdFacts DEF Tiers
  <1>3. Leaves \subseteq Nat /\ \A b \in Leaves : b <= N /\ N \in Nat
    BY NAssumption DEF Leaves
  <1>4. CASE t = TopTier
    <2>1. \A b \in Leaves : TierOf(a) = TierOf(b) => RawCluster(b) = b
      BY <1>1, <1>4 DEF RawCluster
    <2> QED
      BY <1>1, <1>2, <1>3, <1>4, <2>1
  <1>5. CASE t # TopTier
    <2> DEFINE n == Len(Cut(Threshold(t)))
    <2>1. n \in Nat
      BY <1>2, PlaceFacts, PartFacts
    <2>2. \A b \in Leaves : TierOf(b) = t => RawCluster(b) = Place(t, b) - 1
      BY <1>5 DEF RawCluster
    <2>3. \A b \in Leaves : Place(t, b) \in 1 .. n
      BY <1>2, PlaceFacts
    <2> HIDE DEF n
    <2>4. \A b \in Leaves : b \in Companions(t, a) <=> a # b /\ Place(t, a) = Place(t, b)
      BY <1>2, CompanionFacts
    <2>5. RawCluster(a) \in Nat
      BY <1>1, <2>1, <2>2, <2>3
    <2>6. \A b \in Leaves : TierOf(b) = t => (RawCluster(a) = RawCluster(b) <=> Place(t, a) = Place(t, b))
      BY <1>1, <2>1, <2>2, <2>3
    <2>7. \A b \in Leaves : TierOf(b) = t => RawCluster(b) <= n
      BY <2>1, <2>2, <2>3
    <2> QED
      BY <1>1, <1>2, <1>5, <2>1, <2>4, <2>5, <2>6, <2>7
  <1> QED
    BY <1>4, <1>5

\* Renumbering tells apart what the numbers before it did.
LEMMA NormalisedFacts ==
  ASSUME TInv, Built, NEW a \in Leaves, NEW b \in Leaves, TierOf(a) = TierOf(b)
  PROVE  Normalised(a) = Normalised(b) <=> RawCluster(a) = RawCluster(b)
  <1> DEFINE peers == {c \in Leaves : TierOf(c) = TierOf(a)}
             same(x) == {c \in peers : RawCluster(c) = RawCluster(x)}
             first(x) == Min(same(x))
             below(x) == {RawCluster(c) : c \in {d \in peers : d < first(x)}}
  <1>1. Normalised(a) = Cardinality(below(a))
    BY DEF Normalised
  <1>2. Normalised(b) = Cardinality(below(b))
    <2>1. peers = {c \in Leaves : TierOf(c) = TierOf(b)}
      OBVIOUS
    <2> QED
      BY <2>1 DEF Normalised
  <1>3. a \in peers /\ b \in peers /\ peers \subseteq Nat /\ peers \subseteq Leaves
    BY NAssumption DEF Leaves
  <1>4. \A x \in peers : first(x) \in same(x) /\ \A y \in same(x) : first(x) <= y
    <2> TAKE x \in peers
    <2>1. same(x) # {} /\ same(x) \subseteq Nat
      BY <1>3
    <2> HIDE DEF same
    <2> QED
      BY <2>1, MinFacts
  <1>5. PICK n \in Nat : \A c \in peers : RawCluster(c) \in 0 .. n
    <2>1. PICK n \in Nat : \A c \in peers : RawCluster(c) <= n
      BY <1>3, RawFacts
    <2>2. \A c \in peers : RawCluster(c) \in Nat
      BY <1>3, RawFacts
    <2> QED
      BY <2>1, <2>2
  <1> HIDE DEF peers
  <1>6. ASSUME NEW x \in peers, NEW y \in peers, first(x) < first(y)
        PROVE  Cardinality(below(x)) # Cardinality(below(y))
    <2>1. /\ first(x) \in peers /\ first(x) \in Nat /\ first(y) \in Nat
          /\ RawCluster(first(x)) = RawCluster(x)
          /\ \A c \in peers : RawCluster(c) = RawCluster(x) => first(x) <= c
      BY <1>3, <1>4, <1>6
    <2> HIDE DEF first
    <2>2. below(x) \subseteq below(y) /\ below(y) \subseteq 0 .. n
      BY <1>3, <1>5, <1>6, <2>1
    <2>3. RawCluster(x) \in below(y)
      BY <1>6, <2>1
    <2>4. RawCluster(x) \notin below(x)
      BY <1>3, <2>1
    <2>5. IsFiniteSet(0 .. n)
      BY FS_Interval
    <2> HIDE DEF below
    <2>6. IsFiniteSet(below(y))
      BY <2>2, <2>5, FS_Subset
    <2> QED
      BY <2>2, <2>3, <2>4, <2>6, FS_Subset
  <1>7. ASSUME RawCluster(a) # RawCluster(b)
        PROVE  Normalised(a) # Normalised(b)
    <2>1. first(a) # first(b) /\ first(a) \in Nat /\ first(b) \in Nat
      BY <1>3, <1>4, <1>7
    <2> HIDE DEF first, below
    <2>2. first(a) < first(b) \/ first(b) < first(a)
      BY <2>1
    <2> QED
      BY <1>1, <1>2, <1>3, <1>6, <2>2
  <1>8. ASSUME RawCluster(a) = RawCluster(b)
        PROVE  Normalised(a) = Normalised(b)
    <2>1. same(a) = same(b)
      BY <1>8
    <2>2. first(a) = first(b)
      BY <2>1
    <2>3. below(a) = below(b)
      BY <2>2
    <2> QED
      BY <1>1, <1>2, <2>3
  <1> QED
    BY <1>7, <1>8

\* What TiersAreTightest says of the tiers and the numbers of the clusters.
Tightest(ti, cl) ==
  \A a, b \in Leaves :
    /\ linkage = "SINGLE" /\ a # b /\ ti[a] > 0 => lat[a][b] > Thresholds[ti[a]]
    /\ a # b /\ ti[a] = ti[b] =>
         (cl[a] = cl[b] <=> ti[a] < TopTier /\ b \in Companions(ti[a], a))

LEMMA AssignedAreTightest ==
  ASSUME TInv, Built
  PROVE  Tightest([a \in Leaves |-> TierOf(a)], [a \in Leaves |-> Normalised(a)])
  <1>1. ASSUME NEW a \in Leaves, NEW b \in Leaves, linkage = "SINGLE", a # b, TierOf(a) > 0
        PROVE  lat[a][b] > Thresholds[TierOf(a)]
    <2>1. PICK t : t = TierOf(a) - 1
      OBVIOUS
    <2>2. TierOf(a) \in Tiers /\ TopTier \in Nat
      BY TierFacts, ThresholdFacts
    <2>3. t \in 0 .. TopTier - 1 /\ t < TierOf(a) /\ t \in Tiers /\ t + 1 = TierOf(a)
      BY <1>1, <2>1, <2>2 DEF Tiers
    <2>4. Companions(t, a) = {}
      BY <2>3, TierFacts
    <2>5. lat[a][b] > Threshold(t)
      BY <1>1, <2>3, <2>4, AloneIsApart
    <2>6. Threshold(t) = Thresholds[t + 1]
      BY <2>3, ThresholdFacts
    <2> QED
      BY <2>3, <2>5, <2>6
  <1>2. ASSUME NEW a \in Leaves, NEW b \in Leaves, a # b, TierOf(a) = TierOf(b)
        PROVE  Normalised(a) = Normalised(b)
                 <=> TierOf(a) < TopTier /\ b \in Companions(TierOf(a), a)
    <2>1. Normalised(a) = Normalised(b) <=> RawCluster(a) = RawCluster(b)
      BY <1>2, NormalisedFacts
    <2>2. RawCluster(a) = RawCluster(b)
            <=> TierOf(a) < TopTier /\ b \in Companions(TierOf(a), a)
      BY <1>2, RawFacts
    <2> QED
      BY <2>1, <2>2
  <1> QED
    BY <1>1, <1>2 DEF Tightest

----------------------------------------------------------------------------
(***************************************************************************)
(* The hidden nodes.                                                       *)
(***************************************************************************)
LEMMA NewFacts ==
  ASSUME TInv, Built, NEW t \in Tiers
  PROVE  /\ NewClusters(t) \in Seq(SUBSET Leaves)
         /\ \A k \in 1 .. Len(NewClusters(t)) :
              /\ NewClusters(t)[k] \in ToSet(Cut(Threshold(t)))
              /\ IsNew(NewClusters(t)[k], t)
         /\ \A k, l \in 1 .. Len(NewClusters(t)) :
              NewClusters(t)[k] = NewClusters(t)[l] => k = l
         /\ \A c \in ToSet(Cut(Threshold(t))) : IsNew(c, t) =>
              \E k \in 1 .. Len(NewClusters(t)) : NewClusters(t)[k] = c
  <1> DEFINE cut == Cut(Threshold(t))
             seqs == [k \in DOMAIN cut |-> IF IsNew(cut[k], t) THEN <<cut[k]>> ELSE <<>>]
             new == NewClusters(t)
  <1>1. Divides(cut, Leaves)
    BY ThresholdFacts, CutFacts
  <1>2. DOMAIN cut = 1 .. Len(cut) /\ Len(cut) \in Nat /\ cut \in Seq(SUBSET Leaves)
    BY <1>1, PartFacts DEF Divides
  <1>3. new = FlattenSeq(seqs)
    BY DEF NewClusters
  <1>4. /\ DOMAIN seqs = 1 .. Len(cut)
        /\ \A k \in 1 .. Len(cut) : seqs[k] = IF IsNew(cut[k], t) THEN <<cut[k]>> ELSE <<>>
    BY <1>2
  <1>5. /\ \A k, l \in 1 .. Len(cut) : cut[k] = cut[l] => k = l
        /\ \A k \in 1 .. Len(cut) : cut[k] \in ToSet(cut)
        /\ \A c \in ToSet(cut) : \E k \in 1 .. Len(cut) : cut[k] = c
    <2>1. \A k \in 1 .. Len(cut) : cut[k] # {}
      BY <1>1 DEF Divides
    <2>2. \A k, l \in 1 .. Len(cut) : k # l => cut[k] \cap cut[l] = {}
      BY <1>1 DEF Divides
    <2>3. \A k, l \in 1 .. Len(cut) : cut[k] = cut[l] => k = l
      BY <2>1, <2>2
    <2> QED
      BY <1>2, <2>3 DEF ToSet
  <1> HIDE DEF cut, seqs, new
  <1>6. seqs \in Seq(Seq(SUBSET Leaves)) /\ Len(seqs) = Len(cut)
    <2>1. \A k \in 1 .. Len(cut) : cut[k] \in SUBSET Leaves
      BY <1>2
    <2>2. \A k \in 1 .. Len(cut) : seqs[k] \in Seq(SUBSET Leaves)
      <3> TAKE k \in 1 .. Len(cut)
      <3>1. PICK c : c = cut[k] /\ c \in SUBSET Leaves
        BY <2>1
      <3>2. seqs[k] = <<c>> \/ seqs[k] = <<>>
        BY <1>4, <3>1
      <3>3. <<c>> \in Seq(SUBSET Leaves) /\ <<>> \in Seq(SUBSET Leaves)
        BY <3>1
      <3> QED
        BY <3>2, <3>3
    <2>3. seqs = [k \in 1 .. Len(cut) |-> seqs[k]]
      BY <1>4 DEF seqs
    <2> QED
      BY <1>2, <2>2, <2>3
  <1>7. new \in Seq(SUBSET Leaves) /\ \E at : Spreads(at, new, seqs, Len(seqs))
    BY <1>3, <1>6, FlattenFacts
  <1>8. PICK at : Spreads(at, new, seqs, Len(cut))
    BY <1>6, <1>7
  <1>9. \A p \in Places(seqs, Len(cut)) : /\ p = <<p[1], p[2]>> /\ p[1] \in 1 .. Len(cut) /\ p[2] = 1
                                          /\ IsNew(cut[p[1]], t) /\ seqs[p[1]] = <<cut[p[1]]>>
    <2> TAKE p \in Places(seqs, Len(cut))
    <2>1. p = <<p[1], p[2]>> /\ p[1] \in 1 .. Len(cut) /\ p[2] \in Nat \ {0} /\ p[2] <= Len(seqs[p[1]])
      BY DEF Places
    <2>2. CASE IsNew(cut[p[1]], t)
      <3>1. PICK c : c = cut[p[1]]
        OBVIOUS
      <3>2. seqs[p[1]] = <<c>>
        BY <1>4, <2>1, <2>2, <3>1
      <3>3. Len(<<c>>) = 1
        OBVIOUS
      <3>4. p[2] = 1
        BY <2>1, <3>2, <3>3
      <3> QED
        BY <2>1, <2>2, <3>1, <3>2, <3>4
    <2>3. CASE ~IsNew(cut[p[1]], t)
      <3>1. Len(seqs[p[1]]) = 0
        BY <1>4, <2>1, <2>3
      <3> QED
        BY <2>1, <3>1
    <2> QED
      BY <2>2, <2>3
  <1>10. \A k \in 1 .. Len(cut) : IsNew(cut[k], t) => <<k, 1>> \in Places(seqs, Len(cut))
    BY <1>4, SMTT(30) DEF Places
  <1>11. \A x \in 1 .. Len(new) : /\ at[x] \in Places(seqs, Len(cut))
                                  /\ at[x][1] \in 1 .. Len(cut) /\ at[x] = <<at[x][1], 1>>
                                  /\ new[x] = cut[at[x][1]] /\ IsNew(new[x], t)
    <2> TAKE x \in 1 .. Len(new)
    <2>1. at[x] \in Places(seqs, Len(cut)) /\ new[x] = seqs[at[x][1]][at[x][2]]
      BY <1>8 DEF Spreads
    <2>2. PICK p : p = at[x]
      OBVIOUS
    <2>3. p = <<p[1], p[2]>> /\ p[1] \in 1 .. Len(cut) /\ p[2] = 1 /\ seqs[p[1]] = <<cut[p[1]]>>
          /\ IsNew(cut[p[1]], t)
      BY <1>9, <2>1, <2>2
    <2>4. new[x] = cut[p[1]]
      BY <2>1, <2>2, <2>3
    <2>5. p = <<p[1], 1>>
      BY <2>3
    <2> QED
      BY <2>1, <2>2, <2>3, <2>4, <2>5
  <1>12. \A x, y \in 1 .. Len(new) : new[x] = new[y] => x = y
    <2> SUFFICES ASSUME NEW x \in 1 .. Len(new), NEW y \in 1 .. Len(new), new[x] = new[y]
                 PROVE  x = y
      OBVIOUS
    <2>1. PICK p, q : p = at[x] /\ q = at[y]
      OBVIOUS
    <2>2. p[1] \in 1 .. Len(cut) /\ p = <<p[1], 1>> /\ new[x] = cut[p[1]]
      BY <1>11, <2>1
    <2>3. q[1] \in 1 .. Len(cut) /\ q = <<q[1], 1>> /\ new[y] = cut[q[1]]
      BY <1>11, <2>1
    <2>4. p[1] = q[1]
      BY <1>5, <2>2, <2>3, ZenonT(40)
    <2>5. p = q
      BY <2>2, <2>3, <2>4, Zenon
    <2> QED
      BY <1>8, <2>1, <2>5 DEF Spreads
  <1>13. ASSUME NEW c \in ToSet(cut), IsNew(c, t)
         PROVE  \E k \in 1 .. Len(new) : new[k] = c
    <2>1. PICK k \in 1 .. Len(cut) : cut[k] = c
      BY <1>5
    <2>2. PICK x \in 1 .. Len(new) : at[x] = <<k, 1>>
      BY <1>8, <1>10, <1>13, <2>1 DEF Spreads
    <2> QED
      BY <1>11, <2>1, <2>2
  <1> QED
    BY <1>5, <1>7, <1>11, <1>12, <1>13 DEF cut, new

\* What HiddenAreClusters says of a sequence of hidden nodes, with its type; they
\* are large enough and go by tiers.
HiddenNode == [tier : 1 .. TopTier + 1, members : SUBSET Leaves]
CutOf == [t \in Tiers |-> Cut(Threshold(t))]
ShowsClusters(F) ==
  /\ F \in Seq(HiddenNode)
  /\ \A h, k \in DOMAIN F : F[h].members = F[k].members => h = k
  /\ \A h \in DOMAIN F : F[h].members \in ToSet(CutOf[F[h].tier - 1])
  /\ \A t \in Tiers : \A c \in ToSet(CutOf[t]) :
       Cardinality(c) >= MinSize => \E h \in DOMAIN F : F[h].members = c /\ F[h].tier <= t + 1
  /\ \A h \in DOMAIN F : Cardinality(F[h].members) >= MinSize
  /\ \A h, k \in DOMAIN F : h <= k => F[h].tier <= F[k].tier

OfTier(t) == LET new == NewClusters(t - 1)
             IN  [k \in DOMAIN new |-> [tier |-> t, members |-> new[k]]]

LEMMA InferredShowClusters ==
  ASSUME TInv, Built
  PROVE  ShowsClusters(FlattenSeq([t \in 1 .. TopTier + 1 |-> OfTier(t)]))
  <1> DEFINE seqs == [t \in 1 .. TopTier + 1 |-> OfTier(t)]
             F == FlattenSeq(seqs)
             n == TopTier + 1
  <1>1. /\ n \in Nat /\ TopTier \in Nat
        /\ \A t \in 1 .. n : t - 1 \in Tiers /\ t \in Nat
        /\ \A t \in Tiers : t + 1 \in 1 .. n /\ t \in Nat
    BY ThresholdFacts DEF Tiers
  <1>2. \A t \in 1 .. n : /\ Len(NewClusters(t - 1)) \in Nat
                          /\ DOMAIN NewClusters(t - 1) = 1 .. Len(NewClusters(t - 1))
                          /\ NewClusters(t - 1) \in Seq(SUBSET Leaves)
    <2> TAKE t \in 1 .. n
    <2>1. NewClusters(t - 1) \in Seq(SUBSET Leaves)
      BY <1>1, NewFacts
    <2> QED
      BY <2>1
  <1>3. \A t \in 1 .. n : /\ OfTier(t) \in Seq(HiddenNode) /\ Len(OfTier(t)) = Len(NewClusters(t - 1))
                          /\ \A k \in 1 .. Len(NewClusters(t - 1)) :
                               OfTier(t)[k] = [tier |-> t, members |-> NewClusters(t - 1)[k]]
    <2> TAKE t \in 1 .. n
    <2>1. PICK new : new = NewClusters(t - 1)
      OBVIOUS
    <2>2. new \in Seq(SUBSET Leaves) /\ DOMAIN new = 1 .. Len(new) /\ Len(new) \in Nat
      BY <1>2, <2>1
    <2>3. OfTier(t) = [k \in 1 .. Len(new) |-> [tier |-> t, members |-> new[k]]]
      BY <2>1, <2>2 DEF OfTier
    <2>4. \A k \in 1 .. Len(new) : [tier |-> t, members |-> new[k]] \in HiddenNode
      BY <2>2 DEF HiddenNode
    <2> QED
      BY <2>1, <2>2, <2>3, <2>4
  <1>4. seqs \in Seq(Seq(HiddenNode)) /\ Len(seqs) = n /\ \A t \in 1 .. n : seqs[t] = OfTier(t)
    <2>1. \A t \in 1 .. n : OfTier(t) \in Seq(HiddenNode)
      BY <1>3
    <2>2. seqs \in [1 .. n -> Seq(HiddenNode)] /\ \A t \in 1 .. n : seqs[t] = OfTier(t)
      BY <2>1
    <2> HIDE DEF seqs
    <2> QED
      BY <1>1, <2>2
  <1> HIDE DEF seqs, F, n
  <1>5. F \in Seq(HiddenNode) /\ \E at : Spreads(at, F, seqs, Len(seqs))
    BY <1>4, FlattenFacts DEF F
  <1>6. PICK at : Spreads(at, F, seqs, n)
    BY <1>4, <1>5
  <1>7. DOMAIN F = 1 .. Len(F)
    BY <1>5
  <1>8. \A h \in 1 .. Len(F) : /\ at[h] = <<at[h][1], at[h][2]>>
                               /\ at[h][1] \in 1 .. n
                               /\ at[h][2] \in 1 .. Len(NewClusters(at[h][1] - 1))
                               /\ F[h].tier = at[h][1]
                               /\ F[h].members = NewClusters(at[h][1] - 1)[at[h][2]]
    <2> TAKE h \in 1 .. Len(F)
    <2>1. at[h] \in Places(seqs, n) /\ F[h] = seqs[at[h][1]][at[h][2]]
      BY <1>6 DEF Spreads
    <2>2. /\ at[h] = <<at[h][1], at[h][2]>> /\ at[h][1] \in 1 .. n
          /\ at[h][2] \in Nat \ {0} /\ at[h][2] <= Len(seqs[at[h][1]])
      BY <2>1 DEF Places
    <2>3. PICK t, k : t = at[h][1] /\ k = at[h][2]
      OBVIOUS
    <2>4. t \in 1 .. n /\ k \in 1 .. Len(NewClusters(t - 1)) /\ F[h] = OfTier(t)[k]
      BY <1>2, <1>3, <1>4, <2>1, <2>2, <2>3
    <2>5. F[h] = [tier |-> t, members |-> NewClusters(t - 1)[k]]
      BY <1>3, <2>4
    <2> QED
      BY <2>2, <2>3, <2>4, <2>5
  <1>9. \A h \in 1 .. Len(F) :
          /\ F[h].members \in ToSet(Cut(Threshold(F[h].tier - 1)))
          /\ IsNew(F[h].members, F[h].tier - 1)
          /\ F[h].tier \in 1 .. n
    <2> TAKE h \in 1 .. Len(F)
    <2>1. PICK t, k : t = at[h][1] /\ k = at[h][2]
      OBVIOUS
    <2>2. /\ t \in 1 .. n /\ k \in 1 .. Len(NewClusters(t - 1)) /\ t - 1 \in Tiers
          /\ F[h].tier = t /\ F[h].members = NewClusters(t - 1)[k]
      BY <1>1, <1>8, <2>1
    <2> QED
      BY <2>2, NewFacts
  <1>10. ASSUME NEW h \in 1 .. Len(F), NEW k \in 1 .. Len(F), F[h].members = F[k].members
         PROVE  ~(F[h].tier < F[k].tier)
    <2>1. PICK c, t, u : c = F[h].members /\ t = F[h].tier /\ u = F[k].tier
      OBVIOUS
    <2>2. c \in ToSet(Cut(Threshold(t - 1))) /\ c \in ToSet(Cut(Threshold(u - 1))) /\ IsNew(c, u - 1)
          /\ t \in 1 .. n /\ u \in 1 .. n
      BY <1>9, <1>10, <2>1
    <2>3. ASSUME t < u
          PROVE  FALSE
      <3>1. u - 2 \in Tiers /\ t - 1 <= u - 2 /\ u - 2 <= u - 1 /\ u - 1 > 0 /\ (u - 1) - 1 = u - 2
            /\ t - 1 \in Tiers /\ u - 1 \in Tiers
        BY <1>1, <2>2, <2>3 DEF Tiers, n
      <3>2. c \in ToSet(Cut(Threshold(u - 2)))
        BY <2>2, <3>1, ClusterBetween
      <3> QED
        BY <2>2, <3>1, <3>2 DEF IsNew
    <2> QED
      BY <2>1, <2>3
  <1>11. \A h, k \in 1 .. Len(F) : F[h].members = F[k].members => h = k
    <2> SUFFICES ASSUME NEW h \in 1 .. Len(F), NEW k \in 1 .. Len(F), F[h].members = F[k].members
                 PROVE  h = k
      OBVIOUS
    <2>1. F[h].tier = F[k].tier
      BY <1>1, <1>9, <1>10
    <2>2. PICK t : t = at[h][1] /\ t = at[k][1] /\ t \in 1 .. n
      BY <1>8, <2>1
    <2>3. PICK x, y : x = at[h][2] /\ y = at[k][2]
      OBVIOUS
    <2>4. /\ x \in 1 .. Len(NewClusters(t - 1)) /\ y \in 1 .. Len(NewClusters(t - 1)) /\ t - 1 \in Tiers
          /\ NewClusters(t - 1)[x] = NewClusters(t - 1)[y]
          /\ at[h] = <<t, x>> /\ at[k] = <<t, y>>
      BY <1>1, <1>8, <2>2, <2>3
    <2>5. x = y
      BY <2>4, NewFacts
    <2>6. at[h] = at[k]
      BY <2>4, <2>5
    <2>7. \A i, j \in 1 .. Len(F) : at[i] = at[j] => i = j
      BY <1>6 DEF Spreads
    <2> QED
      BY <2>6, <2>7
  <1>12. ASSUME NEW t \in Tiers, NEW c \in ToSet(Cut(Threshold(t))), Cardinality(c) >= MinSize
         PROVE  \E h \in 1 .. Len(F) : F[h].members = c /\ F[h].tier <= t + 1
    <2> DEFINE ss == {s \in Tiers : c \in ToSet(Cut(Threshold(s)))}
    <2>1. PICK s \in ss : \A u \in ss : s <= u
      <3>1. ss # {} /\ ss \subseteq Nat
        BY ThresholdFacts
      <3> HIDE DEF ss
      <3> QED
        BY <3>1, LeastNumber
    <2>2. s \in Tiers /\ s <= t /\ s + 1 \in 1 .. n /\ (s + 1) - 1 = s /\ s \in Nat /\ t \in Nat
      BY <1>1, <2>1
    <2>3. s > 0 => s - 1 \notin ss
      BY <2>1, <2>2
    <2>4. s > 0 => c \notin ToSet(Cut(Threshold(s - 1)))
      BY <1>1, <2>2, <2>3 DEF Tiers
    <2>5. IsNew(c, s)
      BY <1>12, <2>4 DEF IsNew
    <2>6. PICK k \in 1 .. Len(NewClusters(s)) : NewClusters(s)[k] = c
      BY <2>1, <2>5, NewFacts
    <2>7. k \in Nat \ {0} /\ k <= Len(seqs[s + 1])
      BY <1>2, <1>3, <1>4, <2>2, <2>6
    <2>8. <<s + 1, k>> \in Places(seqs, n)
      BY <2>2, <2>7 DEF Places
    <2>9. PICK h \in 1 .. Len(F) : at[h] = <<s + 1, k>>
      BY <1>6, <2>8 DEF Spreads
    <2>10. F[h].tier = s + 1 /\ F[h].members = c
      BY <1>8, <2>2, <2>6, <2>9, SMTT(30)
    <2> QED
      BY <2>2, <2>10
  <1>13. \A h \in 1 .. Len(F) : F[h].members \in ToSet(CutOf[F[h].tier - 1])
    <2> TAKE h \in 1 .. Len(F)
    <2>1. PICK t : t = F[h].tier - 1
      OBVIOUS
    <2>2. t \in Tiers /\ F[h].members \in ToSet(Cut(Threshold(t)))
      BY <1>1, <1>9, <2>1
    <2>3. CutOf[t] = Cut(Threshold(t))
      BY <2>2 DEF CutOf
    <2> QED
      BY <2>1, <2>2, <2>3
  <1>14. \A t \in Tiers : CutOf[t] = Cut(Threshold(t))
    BY DEF CutOf
  <1>15. \A h \in 1 .. Len(F) : Cardinality(F[h].members) >= MinSize
    BY <1>9 DEF IsNew
  <1>16. \A h, k \in 1 .. Len(F) : h <= k => F[h].tier <= F[k].tier
    <2> TAKE h, k \in 1 .. Len(F)
    <2>1. h <= k => at[h][1] <= at[k][1]
      BY <1>6 DEF Spreads
    <2> QED
      BY <1>8, <2>1
  <1>17. ShowsClusters(F)
    BY <1>5, <1>7, <1>11, <1>12, <1>13, <1>14, <1>15, <1>16 DEF ShowsClusters
  <1> QED
    BY <1>17 DEF F, seqs

----------------------------------------------------------------------------
(***************************************************************************)
(* The phases: what a phase has computed stays right, since no later one   *)
(* touches the dendrogram.                                                 *)
(***************************************************************************)
NodeEdges ==
  {[kind |-> "node", from |-> a, to |-> Attached(a), ns |-> AttachedNs(a)] :
     a \in {b \in Leaves : hidden # <<>> /\ Attached(b) # 0}}
HiddenEdges ==
  {[kind |-> "hidden", from |-> h, to |-> Parent(h), ns |-> UpNs[h]] :
     h \in {k \in Hidden : Parent(k) # 0}}

PInv ==
  /\ phase \in {"cluster", "tiers", "hidden", "done"}
  /\ phase # "cluster" => Built /\ Tightest(tier, cluster)
  /\ phase \in {"hidden", "done"} => ShowsClusters(hidden)
  /\ phase # "done" => edges = {}
  /\ phase = "done" => EdgesAreForest

LEMMA AttachedFacts ==
  ASSUME ShowsClusters(hidden), NEW a \in Leaves, Attached(a) # 0
  PROVE  a \in hidden[Attached(a)].members
  <1> DEFINE hs == {h \in Hidden : hidden[h].tier = hidden[1].tier /\ a \in hidden[h].members}
  <1>1. hs \subseteq Nat
    BY DEF Hidden, ShowsClusters
  <1>2. hs # {} /\ Attached(a) = Min(hs)
    BY DEF Attached
  <1>3. Attached(a) \in hs
    <2> HIDE DEF hs
    <2> QED
      BY <1>1, <1>2, MinFacts
  <1> QED
    BY <1>3

\* Hidden nodes come in the order of their tiers, so the first is of the lowest.
LEMMA LowestFacts ==
  ASSUME ShowsClusters(hidden), NEW a \in Leaves
  PROVE  InLowestTier(a) <=> hidden # <<>> /\ Attached(a) # 0
  <1> DEFINE hs == {h \in Hidden : hidden[h].tier = hidden[1].tier /\ a \in hidden[h].members}
  <1>1. hidden \in Seq(HiddenNode) /\ Hidden = 1 .. Len(hidden) /\ Len(hidden) \in Nat
    BY DEF Hidden, ShowsClusters
  <1>2. \A h \in Hidden : hidden[h].tier \in Nat
    <2> TAKE h \in Hidden
    <2>1. hidden[h] \in HiddenNode
      BY <1>1
    <2> QED
      BY <2>1 DEF HiddenNode
  <1>3. \A h \in Hidden : 1 \in Hidden /\ hidden[1].tier <= hidden[h].tier
    BY <1>1 DEF ShowsClusters
  <1>4. \A h \in Hidden :
          (\A k \in Hidden : hidden[h].tier <= hidden[k].tier) <=> hidden[h].tier = hidden[1].tier
    BY <1>2, <1>3
  <1>5. InLowestTier(a) <=> hs # {}
    BY <1>4 DEF InLowestTier
  <1>6. Attached(a) = IF hs = {} THEN 0 ELSE Min(hs)
    BY DEF Attached
  <1>7. hs # {} => Min(hs) \in hs
    <2>1. hs \subseteq Nat
      BY <1>1
    <2> HIDE DEF hs
    <2> QED
      BY <2>1, MinFacts
  <1>8. hs # {} => Min(hs) # 0 /\ hidden # <<>>
    BY <1>1, <1>7
  <1> QED
    BY <1>5, <1>6, <1>8

LEMMA ParentFacts ==
  ASSUME ShowsClusters(hidden), NEW h \in Hidden, Parent(h) # 0
  PROVE  /\ hidden[h].tier < hidden[Parent(h)].tier
         /\ hidden[h].members \subseteq hidden[Parent(h)].members
  <1> DEFINE hs == {u \in Hidden : /\ hidden[u].tier = hidden[h].tier + 1
                                   /\ hidden[h].members \subseteq hidden[u].members}
  <1>1. hs \subseteq Nat /\ hidden[h].tier \in Nat
    <2>1. hidden[h] \in HiddenNode
      BY DEF Hidden, ShowsClusters
    <2>2. hs \subseteq Nat
      BY DEF Hidden, ShowsClusters
    <2> QED
      BY <2>1, <2>2, ThresholdsAssumption DEF HiddenNode, TopTier
  <1>2. hs # {} /\ Parent(h) = Min(hs)
    BY DEF Parent
  <1>3. Parent(h) \in hs
    <2> HIDE DEF hs
    <2> QED
      BY <1>1, <1>2, MinFacts
  <1> QED
    BY <1>1, <1>3

\* The cuts depend on the nodes alone.
CutIn(ns, t) ==
  LET collect[k \in 1 .. Len(ns)] ==
        IF ns[k].left = 0 \/ ns[k].merge <= t THEN <<ns[k].members>>
        ELSE collect[ns[k].left] \o collect[ns[k].right]
  IN  collect[Len(ns)]
ThresholdIn(ns, t) == IF t < TopTier THEN Thresholds[t + 1] ELSE ns[Len(ns)].merge + Scale
PlaceIn(cut, a) == CHOOSE k \in DOMAIN cut : a \in cut[k]

LEMMA SameCuts ==
  ASSUME UNCHANGED dvars
  PROVE  /\ (Built' <=> Built)
         /\ CutOf' = CutOf
         /\ \A ti, cl : Tightest(ti, cl)' <=> Tightest(ti, cl)
         /\ \A F : ShowsClusters(F)' <=> ShowsClusters(F)
  <1>1. nodes' = nodes /\ active' = active /\ lat' = lat /\ linkage' = linkage
    BY DEF dvars
  <1>2. \A t : Cut(Threshold(t))' = Cut(Threshold(t))
    <2> TAKE t
    <2>1. Cut(Threshold(t)) = CutIn(nodes, ThresholdIn(nodes, t))
      BY Zenon DEF Cut, Threshold, max_distance, CutIn, ThresholdIn
    <2>2. Cut(Threshold(t))' = CutIn(nodes', ThresholdIn(nodes', t))
      BY Zenon DEF Cut, Threshold, max_distance, CutIn, ThresholdIn
    <2> QED
      BY <1>1, <2>1, <2>2
  <1>3. \A t, a : Companions(t, a)' = Companions(t, a)
    <2> TAKE t, a
    <2>1. PICK c : c = Cut(Threshold(t)) /\ c = Cut(Threshold(t))'
      BY <1>2
    <2>2. Companions(t, a) = c[PlaceIn(c, a)] \ {a}
      BY <2>1, Zenon DEF Companions, Place, PlaceIn
    <2>3. Companions(t, a)' = c[PlaceIn(c, a)] \ {a}
      BY <2>1, Zenon DEF Companions, Place, PlaceIn
    <2> QED
      BY <2>2, <2>3
  <1>4. CutOf' = CutOf
    BY <1>2, Zenon DEF CutOf
  <1>5. \A ti, cl : Tightest(ti, cl)' <=> Tightest(ti, cl)
    <2> TAKE ti, cl
    <2>1. \A a : Companions(ti[a], a)' = Companions(ti[a], a)
      BY <1>3
    <2> QED
      BY <1>1, <2>1 DEF Tightest
  <1>6. \A F : ShowsClusters(F)' <=> ShowsClusters(F)
    BY <1>4 DEF ShowsClusters
  <1>7. Built' <=> Built
    BY <1>1 DEF Built
  <1> QED
    BY <1>4, <1>5, <1>6, <1>7

LEMMA PhasesKept ==
  TInv /\ PInv /\ [Next]_vars => PInv'
  <1> SUFFICES ASSUME TInv, PInv, [Next]_vars
               PROVE  PInv'
    OBVIOUS
  <1>1. CASE BuildDendrogram
    BY <1>1 DEF BuildDendrogram, PInv, tvars
  <1>2. CASE AssignTiers
    <2>1. UNCHANGED dvars /\ Built /\ phase' = "tiers" /\ edges' = edges /\ phase = "cluster"
      BY <1>2 DEF AssignTiers
    <2>2. PICK ti, cl : /\ ti = [a \in Leaves |-> TierOf(a)] /\ cl = [a \in Leaves |-> Normalised(a)]
                        /\ tier' = ti /\ cluster' = cl
      BY <1>2, Zenon DEF AssignTiers
    <2>3. Tightest(ti, cl)
      BY <2>1, <2>2, AssignedAreTightest
    <2>4. Tightest(ti, cl)' /\ Built'
      BY <2>1, <2>3, SameCuts
    <2>5. Tightest(tier, cluster)'
      BY <2>2, <2>4, Zenon DEF Tightest
    <2> QED
      BY <2>1, <2>4, <2>5 DEF PInv
  <1>3. CASE InferHiddenNodes
    <2>1. /\ UNCHANGED dvars /\ phase' = "hidden" /\ phase = "tiers"
          /\ edges' = edges /\ tier' = tier /\ cluster' = cluster
      BY <1>3 DEF InferHiddenNodes
    <2>2. Built /\ Tightest(tier, cluster) /\ edges = {}
      BY <2>1 DEF PInv
    <2>3. PICK F : F = FlattenSeq([t \in 1 .. TopTier + 1 |-> OfTier(t)]) /\ hidden' = F
      BY <1>3, Zenon DEF InferHiddenNodes, OfTier
    <2>4. ShowsClusters(F)
      BY <2>2, <2>3, InferredShowClusters
    <2>5. ShowsClusters(F)' /\ Built'
      BY <2>1, <2>2, <2>4, SameCuts
    <2>6. ShowsClusters(hidden)'
      <3>1. hidden' = F
        BY <2>3
      <3> QED
        BY <2>5, <3>1 DEF ShowsClusters
    <2>7. Tightest(tier, cluster)'
      <3>1. PICK ti, cl : ti = tier /\ cl = cluster
        OBVIOUS
      <3>2. Tightest(ti, cl)'
        <4>1. Tightest(ti, cl)
          BY <2>2, <3>1
        <4> QED
          BY <2>1, <4>1, SameCuts
      <3> QED
        BY <2>1, <3>1, <3>2, Zenon DEF Tightest
    <2> QED
      BY <2>1, <2>2, <2>5, <2>6, <2>7 DEF PInv
  <1>4. CASE ConstructEdges
    <2>1. /\ UNCHANGED dvars /\ phase' = "done" /\ phase = "hidden"
          /\ hidden' = hidden /\ tier' = tier /\ cluster' = cluster
          /\ edges' = NodeEdges \cup HiddenEdges
      BY <1>4 DEF ConstructEdges, NodeEdges, HiddenEdges
    <2>2. Built /\ Tightest(tier, cluster) /\ ShowsClusters(hidden)
      BY <2>1 DEF PInv
    <2>3. PICK ti, cl, F : ti = tier /\ cl = cluster /\ F = hidden
      OBVIOUS
    <2>4. Tightest(ti, cl) /\ ShowsClusters(F)
      BY <2>2, <2>3
    <2>5. Tightest(ti, cl)' /\ ShowsClusters(F)' /\ Built'
      BY <2>1, <2>2, <2>4, SameCuts
    <2>6. Tightest(tier, cluster)'
      BY <2>1, <2>3, <2>5, Zenon DEF Tightest
    <2>7. ShowsClusters(hidden)'
      BY <2>1, <2>3, <2>5 DEF ShowsClusters
    <2>8. ASSUME NEW e \in NodeEdges
          PROVE  /\ e.kind = "node" /\ e.from \in hidden[e.to].members
                 /\ e = [kind |-> "node", from |-> e.from, to |-> Attached(e.from), ns |-> AttachedNs(e.from)]
      <3>1. PICK a \in Leaves : Attached(a) # 0 /\
              e = [kind |-> "node", from |-> a, to |-> Attached(a), ns |-> AttachedNs(a)]
        BY Zenon DEF NodeEdges
      <3>2. e.kind = "node" /\ e.from = a /\ e.to = Attached(a) /\ e.ns = AttachedNs(a)
        BY <3>1
      <3>3. a \in hidden[Attached(a)].members
        BY <2>2, <3>1, AttachedFacts
      <3> QED
        BY <3>1, <3>2, <3>3
    <2>9. ASSUME NEW e \in HiddenEdges
          PROVE  /\ e.kind = "hidden" /\ hidden[e.from].tier < hidden[e.to].tier
                 /\ hidden[e.from].members \subseteq hidden[e.to].members
                 /\ e = [kind |-> "hidden", from |-> e.from, to |-> Parent(e.from), ns |-> UpNs[e.from]]
      <3>1. PICK h \in Hidden : Parent(h) # 0 /\
              e = [kind |-> "hidden", from |-> h, to |-> Parent(h), ns |-> UpNs[h]]
        BY Zenon DEF HiddenEdges
      <3>2. e.kind = "hidden" /\ e.from = h /\ e.to = Parent(h) /\ e.ns = UpNs[h]
        BY <3>1
      <3>3. /\ hidden[h].tier < hidden[Parent(h)].tier
            /\ hidden[h].members \subseteq hidden[Parent(h)].members
        BY <2>2, <3>1, ParentFacts
      <3> QED
        BY <3>1, <3>2, <3>3
    <2>10. PICK E : E = NodeEdges \cup HiddenEdges
      OBVIOUS
    <2>11. \A e \in E :
             /\ e.kind = "node" => e.from \in hidden[e.to].members
             /\ e.kind = "hidden" => /\ hidden[e.from].tier < hidden[e.to].tier
                                     /\ hidden[e.from].members \subseteq hidden[e.to].members
      BY <2>8, <2>9, <2>10
    <2>12. ASSUME NEW e \in E, NEW f \in E, e.kind = f.kind, e.from = f.from
           PROVE  e = f
      <3>1. e \in NodeEdges <=> e.kind = "node"
        BY <2>8, <2>9, <2>10
      <3>2. f \in NodeEdges <=> f.kind = "node"
        BY <2>8, <2>9, <2>10
      <3>3. PICK x : x = e.from /\ x = f.from
        BY <2>12
      <3>4. CASE e \in NodeEdges /\ f \in NodeEdges
        <4>1. /\ e = [kind |-> "node", from |-> e.from, to |-> Attached(e.from), ns |-> AttachedNs(e.from)]
              /\ f = [kind |-> "node", from |-> f.from, to |-> Attached(f.from), ns |-> AttachedNs(f.from)]
          BY <2>8, <3>4
        <4> QED
          BY <2>12, <4>1, Zenon
      <3>5. CASE e \in HiddenEdges /\ f \in HiddenEdges
        <4>1. /\ e = [kind |-> "hidden", from |-> e.from, to |-> Parent(e.from), ns |-> UpNs[e.from]]
              /\ f = [kind |-> "hidden", from |-> f.from, to |-> Parent(f.from), ns |-> UpNs[f.from]]
          BY <2>9, <3>5
        <4> QED
          BY <2>12, <4>1, Zenon
      <3> QED
        BY <2>10, <2>12, <3>1, <3>2, <3>4, <3>5
    <2>13. edges' = E
      BY <2>1, <2>10
    <2>14. ASSUME NEW a \in Leaves
           PROVE  InLowestTier(a) <=> \E e \in E : e.kind = "node" /\ e.from = a
      <3>1. InLowestTier(a) <=> hidden # <<>> /\ Attached(a) # 0
        BY <2>2, LowestFacts
      <3>2. ASSUME hidden # <<>>, Attached(a) # 0
            PROVE  \E e \in E : e.kind = "node" /\ e.from = a
        <4> DEFINE f == [kind |-> "node", from |-> a, to |-> Attached(a), ns |-> AttachedNs(a)]
        <4>1. f \in NodeEdges
          BY <3>2, Zenon DEF NodeEdges
        <4>2. f.kind = "node" /\ f.from = a
          BY Zenon
        <4> QED
          BY <2>10, <4>1, <4>2, Zenon
      <3>3. ASSUME NEW e \in E, e.kind = "node", e.from = a
            PROVE  hidden # <<>> /\ Attached(a) # 0
        <4>1. e \in NodeEdges
          BY <2>9, <2>10, <3>3
        <4>2. PICK b \in Leaves : hidden # <<>> /\ Attached(b) # 0 /\
                e = [kind |-> "node", from |-> b, to |-> Attached(b), ns |-> AttachedNs(b)]
          BY <4>1, Zenon DEF NodeEdges
        <4>3. e.from = b
          BY <4>2
        <4> QED
          BY <3>3, <4>2, <4>3
      <3> QED
        BY <3>1, <3>2, <3>3
    <2>15. \A a \in Leaves : InLowestTier(a)' <=> InLowestTier(a)
      BY <2>1 DEF InLowestTier, Hidden
    <2>16. EdgesAreForest'
      BY <2>1, <2>11, <2>12, <2>13, <2>14, <2>15 DEF EdgesAreForest
    <2> QED
      BY <2>1, <2>5, <2>6, <2>7, <2>16 DEF PInv
  <1>5. CASE Finished \/ UNCHANGED vars
    <2>1. UNCHANGED dvars /\ UNCHANGED <<phase, tier, cluster, hidden, edges>>
      BY <1>5 DEF Finished, vars, tvars
    <2>2. PICK ti, cl, F : ti = tier /\ cl = cluster /\ F = hidden
      OBVIOUS
    <2>3. /\ phase # "cluster" => Built /\ Tightest(ti, cl)
          /\ phase \in {"hidden", "done"} => ShowsClusters(F)
      BY <2>2 DEF PInv
    <2>4. /\ phase # "cluster" => Built' /\ Tightest(ti, cl)'
          /\ phase \in {"hidden", "done"} => ShowsClusters(F)'
      BY <2>1, <2>3, SameCuts
    <2>5. Tightest(ti, cl)' => Tightest(tier, cluster)'
      BY <2>1, <2>2, Zenon DEF Tightest
    <2>6. ShowsClusters(F)' => ShowsClusters(hidden)'
      BY <2>1, <2>2 DEF ShowsClusters
    <2>7. EdgesAreForest => EdgesAreForest'
      BY <2>1 DEF EdgesAreForest, InLowestTier, Hidden
    <2> QED
      BY <2>1, <2>4, <2>5, <2>6, <2>7 DEF PInv
  <1> QED
    BY <1>1, <1>2, <1>3, <1>4, <1>5 DEF Next

\* What the phases have computed: tiers, hidden nodes and edges.
THEOREM PhasesInductive == Spec => [](TInv /\ PInv)
  <1>1. Init => PInv
    BY DEF Init, PInv
  <1>2. Init => TInv
    BY InitTree
  <1>3. TInv /\ PInv /\ [Next]_vars => TInv' /\ PInv'
    BY PhasesKept, StepsAreMerges, MergeKeepsTree, OtherStepsKeepTree
  <1> QED
    BY <1>1, <1>2, <1>3, PTL DEF Spec

\* A node's tier is the first threshold at which it has company (with single
\* linkage: within which it has a neighbour), and the cluster numbers of a tier,
\* renumbered, still tell its clusters apart: for any number of nodes, any
\* thresholds and all three linkages.
THEOREM TiersAreRight == Spec => []TiersAreTightest
  <1>1. PInv => TiersAreTightest
    BY Zenon DEF PInv, Tightest, TiersAreTightest
  <1> QED
    BY <1>1, PhasesInductive, PTL

\* The hidden nodes are the clusters that a threshold shows, each once, at the
\* first tier that shows it: comparing a cut with the one of the tier below is
\* enough, because a cluster of two tiers is a cluster of all between.
THEOREM HiddenNodesAreRight == Spec => []HiddenAreClusters
  <1>1. ASSUME PInv, phase \in {"hidden", "done"}
        PROVE  HiddenAreClusters
    <2>1. ShowsClusters(hidden)
      BY <1>1 DEF PInv
    <2>2. \A t \in Tiers : CutOf[t] = Cut(Threshold(t))
      BY DEF CutOf
    <2>3. \A h \in Hidden : hidden[h].members \in ToSet(Cut(Threshold(hidden[h].tier - 1)))
      <3> TAKE h \in Hidden
      <3>1. PICK t : t = hidden[h].tier - 1
        OBVIOUS
      <3>2. t \in Tiers
        <4>1. hidden[h] \in HiddenNode
          BY <2>1 DEF ShowsClusters, Hidden
        <4> QED
          BY <3>1, <4>1, ThresholdsAssumption DEF HiddenNode, Tiers, TopTier
      <3> QED
        BY <2>1, <2>2, <3>1, <3>2 DEF ShowsClusters, Hidden
    <2> QED
      BY <2>1, <2>2, <2>3 DEF ShowsClusters, HiddenAreClusters, Hidden
  <1>2. PInv => HiddenAreClusters
    BY <1>1 DEF HiddenAreClusters
  <1> QED
    BY <1>2, PhasesInductive, PTL

\* The edges go upwards, from every node at most one, to where it belongs, and
\* connect exactly the members of the clusters of the lowest tier.
THEOREM EdgesAreRight == Spec => []EdgesAreForest
  <1>1. PInv => EdgesAreForest
    BY DEF PInv, EdgesAreForest
  <1> QED
    BY <1>1, PhasesInductive, PTL
----------------------------------------------------------------------------
(***************************************************************************)
(* What any linkage says of some two leaves of two clusters: one pair is   *)
(* not further apart than the clusters, and one not closer.                *)
(***************************************************************************)
Spanned == \A i, j \in active : i # j =>
  /\ \E a \in Members(i), b \in Members(j) : lat[a][b] <= dist[i][j]
  /\ \E a \in Members(i), b \in Members(j) : dist[i][j] <= lat[a][b]

\* Two leaves that a merge brings together are within its distance.
Near(k) ==
  \E a \in nodes[nodes[k].left].members, b \in nodes[nodes[k].right].members :
    lat[a][b] <= nodes[k].merge

\* Some leaves of two nodes are at least d apart.
Far(p, q, d) == \E a \in nodes[p].members, b \in nodes[q].members : d <= lat[a][b]

SInv ==
  /\ Spanned
  /\ \A k \in N + 1 .. Len(nodes) : Near(k)
  /\ \A k \in N + 1 .. Len(nodes) : \A p, q \in 1 .. k - 1 :
       RootAt(p, k - 1) /\ RootAt(q, k - 1) /\ p # q => Far(p, q, nodes[k].merge)

LEMMA WeighedAverageBelow ==
  ASSUME NEW a \in Nat, NEW b \in Nat, NEW p \in Nat \ {0}, NEW q \in Nat \ {0}, NEW m \in Nat,
         a <= m, b <= m
  PROVE  (a * p + b * q) \div (p + q) <= m
  <1> DEFINE s == a * p + b * q
             d == p + q
  <1>1. a * p \in Nat /\ b * q \in Nat /\ m * p \in Nat /\ m * q \in Nat
    OBVIOUS
  <1>2. s \in Nat /\ d \in Nat \ {0} /\ m * d \in Nat
    BY <1>1
  <1>3. a * p <= m * p /\ b * q <= m * q
    OBVIOUS
  <1>4. m * d = m * p + m * q
    OBVIOUS
  <1>5. s <= m * d
    BY <1>1, <1>3, <1>4
  <1> HIDE DEF s, d
  <1>6. s \div d <= m
    BY <1>2, <1>5
  <1> QED
    BY <1>6 DEF s, d

LEMMA LinkedBelow ==
  ASSUME DInv, NEW i \in active, NEW j \in active, NEW k \in active,
         NEW m \in Nat, dist[i][k] <= m, dist[j][k] <= m
  PROVE  Linked(i, j, k) <= m
  <1>1. dist[i][k] \in Nat /\ dist[j][k] \in Nat /\ linkage \in {"SINGLE", "COMPLETE", "AVERAGE"}
    BY LinkagesAssumption DEF DInv, Shape
  <1>2. CASE linkage = "SINGLE"
    BY <1>1, <1>2 DEF Linked
  <1>3. CASE linkage = "COMPLETE"
    BY <1>1, <1>3 DEF Linked
  <1>4. CASE linkage = "AVERAGE"
    <2>1. Linked(i, j, k) = (dist[i][k] * Size(i) + dist[j][k] * Size(j)) \div (Size(i) + Size(j))
      BY <1>4 DEF Linked
    <2> DEFINE a == dist[i][k]
               b == dist[j][k]
               p == Size(i)
               q == Size(j)
    <2>2. a \in Nat /\ b \in Nat /\ p \in Nat \ {0} /\ q \in Nat \ {0} /\ a <= m /\ b <= m
      BY <1>1, SizeFacts
    <2>3. Linked(i, j, k) = (a * p + b * q) \div (p + q)
      BY <2>1
    <2> HIDE DEF a, b, p, q
    <2> QED
      BY <2>2, <2>3, WeighedAverageBelow
  <1> QED
    BY <1>1, <1>2, <1>3, <1>4

\* A cluster and two that are merged.
LEMMA LinkedSpans ==
  ASSUME DInv, Spanned, NEW i \in active, NEW j \in active, NEW k \in active,
         i # k, j # k
  PROVE  /\ \E a \in Members(i) \cup Members(j), b \in Members(k) : lat[a][b] <= Linked(i, j, k)
         /\ \E a \in Members(i) \cup Members(j), b \in Members(k) : Linked(i, j, k) <= lat[a][b]
  <1>1. PICK d, e : d = dist[i][k] /\ e = dist[j][k]
    OBVIOUS
  <1>2. d \in Nat /\ e \in Nat /\ Linked(i, j, k) \in Nat
    <2>1. dist[i][k] \in Nat /\ dist[j][k] \in Nat
      BY DEF DInv, Shape
    <2>2. 0 <= dist[i][k] /\ 0 <= dist[j][k]
      BY <2>1
    <2>3. Linked(i, j, k) \in Nat
      BY <2>2, LinkedFacts
    <2> QED
      BY <1>1, <2>1, <2>3
  <1>3. \A a, b \in Leaves : lat[a][b] \in Nat
    BY DEF DInv, Shape
  <1>4. Members(i) \subseteq Leaves /\ Members(j) \subseteq Leaves /\ Members(k) \subseteq Leaves
    BY MembersAreLeaves
  <1>5. /\ \E a \in Members(i), b \in Members(k) : lat[a][b] <= d
        /\ \E a \in Members(i), b \in Members(k) : d <= lat[a][b]
        /\ \E a \in Members(j), b \in Members(k) : lat[a][b] <= e
        /\ \E a \in Members(j), b \in Members(k) : e <= lat[a][b]
    BY <1>1 DEF Spanned
  <1>6. (d <= e => d <= Linked(i, j, k)) /\ (e <= d => e <= Linked(i, j, k))
    BY <1>1, <1>2, LinkedFacts
  <1>7. (d <= e => Linked(i, j, k) <= e) /\ (e <= d => Linked(i, j, k) <= d)
    BY <1>1, <1>2, LinkedBelow
  <1>8. PICK l : l = Linked(i, j, k)
    OBVIOUS
  <1>9. ASSUME d <= e
        PROVE  /\ \E a \in Members(i) \cup Members(j), b \in Members(k) : lat[a][b] <= l
               /\ \E a \in Members(i) \cup Members(j), b \in Members(k) : l <= lat[a][b]
    <2>1. PICK a \in Members(i), b \in Members(k) : lat[a][b] <= d
      BY <1>5
    <2>2. PICK x \in Members(j), y \in Members(k) : e <= lat[x][y]
      BY <1>5
    <2>3. lat[a][b] \in Nat /\ lat[x][y] \in Nat
      BY <1>3, <1>4
    <2>4. lat[a][b] <= l /\ l <= lat[x][y]
      BY <1>2, <1>6, <1>7, <1>8, <1>9, <2>1, <2>2, <2>3
    <2> QED
      BY <2>4
  <1>10. ASSUME e <= d
         PROVE  /\ \E a \in Members(i) \cup Members(j), b \in Members(k) : lat[a][b] <= l
                /\ \E a \in Members(i) \cup Members(j), b \in Members(k) : l <= lat[a][b]
    <2>1. PICK a \in Members(j), b \in Members(k) : lat[a][b] <= e
      BY <1>5
    <2>2. PICK x \in Members(i), y \in Members(k) : d <= lat[x][y]
      BY <1>5
    <2>3. lat[a][b] \in Nat /\ lat[x][y] \in Nat
      BY <1>3, <1>4
    <2>4. lat[a][b] <= l /\ l <= lat[x][y]
      BY <1>2, <1>6, <1>7, <1>8, <1>10, <2>1, <2>2, <2>3
    <2> QED
      BY <2>4
  <1> QED
    BY <1>2, <1>8, <1>9, <1>10

LEMMA SpannedKept ==
  ASSUME DInv, Spanned, NEW i \in active, NEW j \in active, MergeOf(i, j)
  PROVE  Spanned'
  <1>1. active' = active \ {j} /\ i # j /\ lat' = lat
    BY DEF MergeOf, DInv, Shape, Leaves
  <1>2. /\ Members(i)' = Members(i) \cup Members(j)
        /\ \A k \in active \ {i, j} :
              /\ Members(k)' = Members(k)
              /\ dist'[i][k] = Linked(i, j, k) /\ dist'[k][i] = Linked(i, j, k)
              /\ \A l \in active \ {i, j} : dist'[k][l] = dist[k][l]
    BY MergeFacts
  <1>3. /\ \A a, b \in Leaves : lat[a][b] = lat[b][a]
        /\ \A k \in active : Members(k) \subseteq Leaves
    BY MembersAreLeaves DEF DInv, Mirrored
  <1>4. ASSUME NEW k \in active \ {i, j}
        PROVE  /\ \E a \in Members(i)', b \in Members(k)' : lat'[a][b] <= dist'[i][k]
               /\ \E a \in Members(i)', b \in Members(k)' : dist'[i][k] <= lat'[a][b]
               /\ \E a \in Members(k)', b \in Members(i)' : lat'[a][b] <= dist'[k][i]
               /\ \E a \in Members(k)', b \in Members(i)' : dist'[k][i] <= lat'[a][b]
    <2>1. PICK l : l = Linked(i, j, k)
      OBVIOUS
    <2>2. PICK A, B : A = Members(i) \cup Members(j) /\ B = Members(k)
      OBVIOUS
    <2>3. /\ \E a \in A, b \in B : lat[a][b] <= l
          /\ \E a \in A, b \in B : l <= lat[a][b]
      BY <2>1, <2>2, LinkedSpans
    <2>4. A \subseteq Leaves /\ B \subseteq Leaves
      BY <1>3, <2>2
    <2>5. /\ \E a \in B, b \in A : lat[a][b] <= l
          /\ \E a \in B, b \in A : l <= lat[a][b]
      BY <1>3, <2>3, <2>4
    <2>6. Members(i)' = A /\ Members(k)' = B /\ dist'[i][k] = l /\ dist'[k][i] = l
      BY <1>2, <2>1, <2>2
    <2> QED
      BY <1>1, <2>3, <2>5, <2>6
  <1>5. ASSUME NEW k \in active', NEW l \in active', k # l
        PROVE  /\ \E a \in Members(k)', b \in Members(l)' : lat'[a][b] <= dist'[k][l]
               /\ \E a \in Members(k)', b \in Members(l)' : dist'[k][l] <= lat'[a][b]
    <2>1. CASE k # i /\ l # i
      <3>1. /\ dist'[k][l] = dist[k][l]
            /\ Members(k)' = Members(k) /\ Members(l)' = Members(l)
        BY <1>1, <1>2, <1>5, <2>1
      <3> QED
        BY <1>1, <1>5, <3>1 DEF Spanned
    <2>2. CASE k = i
      BY <1>1, <1>4, <1>5, <2>2
    <2>3. CASE l = i
      BY <1>1, <1>4, <1>5, <2>3
    <2> QED
      BY <2>1, <2>2, <2>3
  <1> QED
    BY <1>5 DEF Spanned
LEMMA NearAfter ==
  ASSUME TInv, SInv, NEW i \in active, NEW j \in active, MergeOf(i, j),
         NEW n, n = Len(nodes), NEW m, m = n + 1, NEW k \in N + 1 .. m
  PROVE  Near(k)'
  <1>1. n \in Nat /\ N \in Nat \ {0} /\ N <= n
    BY NodesGrow, NAssumption DEF TInv, Tree
  <1>2. /\ \A x \in 1 .. n : nodes'[x] = nodes[x]
        /\ nodes'[m] = [left |-> node[i], right |-> node[j], merge |-> dist[i][j],
                        members |-> Members(i) \cup Members(j)]
        /\ lat' = lat
    BY NodesGrow DEF TInv, MergeOf
  <1>3. CASE k # m
    <2>1. k \in N + 1 .. n /\ k \in 1 .. n
      BY <1>1, <1>3
    <2>2. PICK l, r : l = nodes[k].left /\ r = nodes[k].right
      OBVIOUS
    <2>3. l \in 1 .. n /\ r \in 1 .. n
      <3>1. nodes[k].left \in 1 .. k - 1 /\ nodes[k].right \in 1 .. k - 1
        BY <2>1 DEF TInv, Tree, Joined, RootAt
      <3> QED
        BY <1>1, <2>1, <2>2, <3>1
    <2>4. Near(k)
      BY <2>1 DEF SInv
    <2>5. nodes'[k] = nodes[k] /\ nodes'[l] = nodes[l] /\ nodes'[r] = nodes[r]
      BY <1>2, <2>1, <2>3
    <2> QED
      BY <1>2, <2>2, <2>4, <2>5 DEF Near
  <1>4. CASE k = m
    <2>1. PICK l, r : l = node[i] /\ r = node[j]
      OBVIOUS
    <2>2. l \in 1 .. n /\ r \in 1 .. n /\ i # j
      BY <2>1, MergedNodes DEF TInv
    <2>3. nodes'[l] = nodes[l] /\ nodes'[r] = nodes[r]
      BY <1>2, <2>2
    <2>4. \E a \in Members(i), b \in Members(j) : lat[a][b] <= dist[i][j]
      BY <2>2 DEF SInv, Spanned
    <2>5. nodes'[m].left = l /\ nodes'[m].right = r /\ nodes'[m].merge = dist[i][j]
      BY <1>2, <2>1
    <2> QED
      BY <1>2, <1>4, <2>1, <2>3, <2>4, <2>5 DEF Near, Members
  <1> QED
    BY <1>3, <1>4

LEMMA FarAfter ==
  ASSUME TInv, SInv, NEW i \in active, NEW j \in active, MergeOf(i, j),
         NEW n, n = Len(nodes), NEW m, m = n + 1, NEW k \in N + 1 .. m,
         NEW p \in 1 .. k - 1, NEW q \in 1 .. k - 1,
         RootAt(p, k - 1)', RootAt(q, k - 1)', p # q
  PROVE  Far(p, q, nodes[k].merge)'
  <1>1. n \in Nat /\ N \in Nat \ {0} /\ N <= n
    BY NodesGrow, NAssumption DEF TInv, Tree
  <1>2. /\ \A x \in 1 .. n : nodes'[x] = nodes[x]
        /\ nodes'[m].merge = dist[i][j] /\ lat' = lat
    BY NodesGrow DEF TInv, MergeOf
  <1>3. p \in 1 .. n /\ q \in 1 .. n /\ k - 1 \in 1 .. n
    BY <1>1
  <1>4. RootAt(p, k - 1) /\ RootAt(q, k - 1)
    <2> DEFINE l == k - 1
    <2>1. l \in 1 .. Len(nodes)
      BY <1>3
    <2>2. RootAt(p, l)' /\ RootAt(q, l)'
      OBVIOUS
    <2> HIDE DEF l
    <2>3. RootAt(p, l) /\ RootAt(q, l)
      BY <2>1, <2>2, RootsOfBefore DEF TInv
    <2> QED
      BY <2>3 DEF l
  <1>5. CASE k # m
    <2>1. k \in N + 1 .. n /\ k \in 1 .. n
      BY <1>1, <1>5
    <2>2. Far(p, q, nodes[k].merge)
      BY <1>4, <2>1 DEF SInv
    <2> QED
      BY <1>2, <1>3, <2>1, <2>2 DEF Far
  <1>6. CASE k = m
    <2>1. PICK x \in active, y \in active : p = node[x] /\ q = node[y]
      BY <1>1, <1>3, <1>4, <1>6 DEF TInv, Tree
    <2>2. x # y
      BY <2>1
    <2>3. dist[i][j] <= dist[x][y]
      BY <2>2, ClosestFacts DEF TInv, MergeOf
    <2>4. /\ dist[i][j] \in Nat /\ dist[x][y] \in Nat
          /\ \A a, b \in Leaves : lat[a][b] \in Nat
      BY DEF TInv, DInv, Shape
    <2>5. Members(x) \in SUBSET Leaves /\ Members(y) \in SUBSET Leaves
      BY MembersAreLeaves DEF TInv
    <2>6. \E a \in Members(x), b \in Members(y) : dist[x][y] <= lat[a][b]
      BY <2>2 DEF SInv, Spanned
    <2>7. Far(p, q, dist[i][j])
      BY <2>1, <2>3, <2>4, <2>5, <2>6 DEF Far, Members
    <2> QED
      BY <1>2, <1>3, <1>6, <2>7 DEF Far
  <1> QED
    BY <1>5, <1>6

LEMMA InitSpread ==
  Init => SInv
  <1> SUFFICES ASSUME Init PROVE SInv
    OBVIOUS
  <1>1. /\ N \in Nat \ {0} /\ Leaves = 0 .. N - 1 /\ active = Leaves /\ dist = lat
        /\ nodes = [k \in 1 .. N |-> LeafNode(k - 1)] /\ node = [i \in Leaves |-> i + 1]
    BY NAssumption DEF Leaves, Init, DInit
  <1>2. TInv
    BY InitTree
  <1>3. N + 1 .. Len(nodes) = {}
    BY <1>1
  <1>4. Spanned
    <2> SUFFICES ASSUME NEW i \in active, NEW j \in active, i # j
                 PROVE  /\ \E a \in Members(i), b \in Members(j) : lat[a][b] <= dist[i][j]
                        /\ \E a \in Members(i), b \in Members(j) : dist[i][j] <= lat[a][b]
      BY DEF Spanned
    <2>1. i \in Members(i) /\ j \in Members(j)
      BY <1>2 DEF TInv, DInv, Partition
    <2>2. dist[i][j] = lat[i][j] /\ lat[i][j] \in Nat
      BY <1>1, <1>2 DEF TInv, DInv, Shape
    <2> QED
      BY <2>1, <2>2
  <1> QED
    BY <1>3, <1>4 DEF SInv

LEMMA MergeKeepsSpread ==
  TInv /\ SInv /\ Merge => SInv'
  <1> SUFFICES ASSUME TInv, SInv, Merge PROVE SInv'
    OBVIOUS
  <1>1. PICK i \in active, j \in active : MergeOf(i, j)
    BY MergeIsMergeOf
  <1>2. PICK n : n = Len(nodes)
    OBVIOUS
  <1>3. PICK m : m = n + 1
    OBVIOUS
  <1>4. Len(nodes') = m
    BY <1>1, <1>2, <1>3, NodesGrow DEF TInv
  <1>5. Spanned'
    BY <1>1, SpannedKept DEF TInv, SInv
  <1>6. \A k \in N + 1 .. m : Near(k)'
    BY <1>1, <1>2, <1>3, NearAfter
  <1>7. ASSUME NEW k \in N + 1 .. m, NEW p \in 1 .. k - 1, NEW q \in 1 .. k - 1,
               RootAt(p, k - 1)', RootAt(q, k - 1)', p # q
        PROVE  Far(p, q, nodes[k].merge)'
    BY <1>1, <1>2, <1>3, <1>7, FarAfter
  <1>8. \A k \in N + 1 .. m : \A p, q \in 1 .. k - 1 :
          RootAt(p, k - 1)' /\ RootAt(q, k - 1)' /\ p # q => Far(p, q, nodes[k].merge)'
    BY <1>7
  <1> QED
    BY <1>4, <1>5, <1>6, <1>8 DEF SInv

LEMMA OtherStepsKeepSpread ==
  SInv /\ UNCHANGED dvars => SInv'
  <1> SUFFICES ASSUME SInv, UNCHANGED dvars PROVE SInv'
    OBVIOUS
  <1>1. UNCHANGED <<lat, nodes, node, active, dist>>
    BY DEF dvars
  <1>2. \A p, k : Child(p, k)' <=> Child(p, k)
    BY <1>1 DEF Child
  <1>3. \A p, n : RootAt(p, n)' <=> RootAt(p, n)
    BY <1>2 DEF RootAt
  <1>4. \A k : Near(k)' <=> Near(k)
    BY <1>1 DEF Near
  <1>5. \A p, q, d : Far(p, q, d)' <=> Far(p, q, d)
    BY <1>1 DEF Far
  <1>6. Spanned'
    BY <1>1 DEF SInv, Spanned, Members
  <1> QED
    BY <1>1, <1>3, <1>4, <1>5, <1>6 DEF SInv

\* With every linkage, average linkage included, what a merge brings together has
\* leaves within its distance, and what is still apart has leaves beyond it.
THEOREM SpreadInductive == Spec => [](TInv /\ SInv)
  <1>1. TInv /\ SInv /\ [Next]_vars => SInv'
    BY StepsAreMerges, MergeKeepsSpread, OtherStepsKeepSpread
  <1>2. Init => SInv
    BY InitSpread
  <1>3. Spec => []SInv
    BY <1>1, <1>2, TreeInductive, PTL DEF Spec
  <1> QED
    BY <1>3, TreeInductive, PTL
----------------------------------------------------------------------------
(***************************************************************************)
(* The parts of a cut and the latencies: what is within the threshold, and *)
(* what is beyond it, with every linkage.                                  *)
(***************************************************************************)
LEMMA PartIsNode ==
  ASSUME TInv, Built, NEW t \in Nat, NEW c \in ToSet(Cut(t))
  PROVE  \E p \in 1 .. Len(nodes) : CutNode(p, t) /\ nodes[p].members = c
  <1>1. Cut(t) \in Seq(CutParts(t))
    BY CutFacts
  <1>2. c \in CutParts(t)
    BY <1>1 DEF ToSet
  <1> QED
    BY <1>2 DEF CutParts

\* Some leaves of two parts are beyond the threshold.
LEMMA PartsFar ==
  ASSUME TInv, SInv, Built, NEW t \in Nat,
         NEW c \in ToSet(Cut(t)), NEW d \in ToSet(Cut(t)), c # d
  PROVE  \E a \in c, b \in d : lat[a][b] > t
  <1>1. PICK p \in 1 .. Len(nodes) : CutNode(p, t) /\ nodes[p].members = c
    BY PartIsNode
  <1>2. PICK q \in 1 .. Len(nodes) : CutNode(q, t) /\ nodes[q].members = d
    BY PartIsNode
  <1>3. p # q
    BY <1>1, <1>2
  <1>4. PICK m \in N + 1 .. Len(nodes) :
          /\ nodes[m].merge > t /\ nodes[m].merge \in Nat
          /\ p \in 1 .. m - 1 /\ q \in 1 .. m - 1
          /\ RootAt(p, m - 1) /\ RootAt(q, m - 1)
    BY <1>1, <1>2, <1>3, RootsBeyond
  <1>5. PICK a \in nodes[p].members, b \in nodes[q].members : nodes[m].merge <= lat[a][b]
    BY <1>3, <1>4 DEF SInv, Far
  <1>6. a \in Leaves /\ b \in Leaves
    BY NodeFacts
  <1>7. lat[a][b] \in Nat
    BY <1>6 DEF TInv, DInv, Shape
  <1>8. lat[a][b] > t
    BY <1>4, <1>5, <1>7
  <1> QED
    BY <1>1, <1>2, <1>8

\* Some leaves of a part are within the threshold, and in different parts of any
\* partition that splits it.
LEMMA PartNear ==
  ASSUME TInv, SInv, Built, NEW t \in Nat, NEW c \in ToSet(Cut(t)), NEW parts,
         \A a \in Leaves : \E e \in parts : a \in e,
         \A e, f \in parts : e # f => e \cap f = {},
         \A e \in parts : ~(c \subseteq e)
  PROVE  \E a, b \in c : lat[a][b] <= t /\ \A e \in parts : ~(a \in e /\ b \in e)
  <1>1. PICK k \in 1 .. Len(nodes) : CutNode(k, t) /\ nodes[k].members = c
    BY PartIsNode
  <1> DEFINE Split == {m \in 1 .. k : nodes[m].members \subseteq c
                                        /\ \A e \in parts : ~(nodes[m].members \subseteq e)}
  <1>2. PICK m \in Split : \A l \in Split : m <= l
    <2>1. k \in Split /\ Split \subseteq Nat
      BY <1>1, NodeFacts
    <2> HIDE DEF Split
    <2> QED
      BY <2>1, LeastNumber
  <1>3. /\ m \in 1 .. Len(nodes) /\ m <= k /\ m \in Nat /\ k \in Nat
        /\ nodes[m].members \subseteq c
        /\ \A e \in parts : ~(nodes[m].members \subseteq e)
    BY <1>2, NodeFacts
  <1>4. nodes[m].left # 0
    <2> SUFFICES ASSUME nodes[m].left = 0 PROVE FALSE
      OBVIOUS
    <2>1. m \in 1 .. N
      <3> SUFFICES ASSUME m \notin 1 .. N PROVE FALSE
        OBVIOUS
      <3>1. m \in N + 1 .. Len(nodes)
        BY <1>3, NAssumption
      <3>2. nodes[m].left \in 1 .. m - 1
        BY <3>1 DEF TInv, Tree, Joined, RootAt
      <3> QED
        BY <3>2
    <2>2. nodes[m] = LeafNode(m - 1) /\ m - 1 \in Leaves
      BY <2>1, NAssumption DEF TInv, Tree, Leaves
    <2>3. nodes[m].members = {m - 1}
      BY <2>2 DEF LeafNode
    <2>4. PICK e \in parts : m - 1 \in e
      BY <2>2
    <2> QED
      BY <1>3, <2>3, <2>4
  <1>5. PICK l, r : l = nodes[m].left /\ r = nodes[m].right
    OBVIOUS
  <1>6. /\ m \in N + 1 .. Len(nodes) /\ l \in 1 .. m - 1 /\ r \in 1 .. m - 1
        /\ nodes[m].members = nodes[l].members \cup nodes[r].members
    BY <1>3, <1>4, <1>5, NodeFacts DEF Joined
  <1>7. ASSUME NEW x \in {l, r}
        PROVE  \E e \in parts : nodes[x].members \subseteq e
    <2>1. x \in 1 .. k /\ ~(m <= x) /\ nodes[x].members \subseteq c
      BY <1>3, <1>6
    <2>2. x \notin Split
      <3> HIDE DEF Split
      <3> QED
        BY <1>2, <2>1
    <2> QED
      BY <2>1, <2>2
  <1>8. PICK e \in parts : nodes[l].members \subseteq e
    BY <1>7
  <1>9. PICK f \in parts : nodes[r].members \subseteq f
    BY <1>7
  <1>10. e # f
    BY <1>3, <1>6, <1>8, <1>9
  <1>11. PICK a \in nodes[l].members, b \in nodes[r].members : lat[a][b] <= nodes[m].merge
    BY <1>5, <1>6 DEF SInv, Near
  <1>12. a \in c /\ b \in c /\ a \in Leaves /\ b \in Leaves
    <2>1. nodes[m].members \in SUBSET Leaves
      BY <1>3, NodeFacts
    <2> QED
      BY <1>3, <1>6, <2>1
  <1>13. lat[a][b] <= t
    <2>1. nodes[m].merge <= nodes[k].merge
      BY <1>3 DEF TInv, Tree
    <2>2. nodes[k].merge <= t
      BY <1>1 DEF CutNode
    <2>3. lat[a][b] \in Nat
      BY <1>12 DEF TInv, DInv, Shape
    <2>4. nodes[m].merge \in Nat /\ nodes[k].merge \in Nat
      BY <1>3, NodeFacts
    <2> QED
      BY <1>11, <2>1, <2>2, <2>3, <2>4
  <1>14. \A g \in parts : ~(a \in g /\ b \in g)
    BY <1>8, <1>9, <1>10
  <1> QED
    BY <1>12, <1>13, <1>14
----------------------------------------------------------------------------
(***************************************************************************)
(* The clusters of the hidden nodes: two of them that share a node lie one *)
(* within the other, at different tiers.                                   *)
(***************************************************************************)
Inferred == TInv /\ SInv /\ Built /\ ShowsClusters(hidden)

Parts(t) == ToSet(Cut(Threshold(t)))

LEMMA PartsFacts ==
  ASSUME Inferred, NEW t \in Tiers
  PROVE  /\ t \in Nat /\ Threshold(t) \in Nat
         /\ \A c \in Parts(t) : c # {} /\ c \subseteq Leaves
         /\ \A c, d \in Parts(t) : c # d => c \cap d = {}
         /\ \A a \in Leaves : \E c \in Parts(t) : a \in c
         /\ \A s \in Tiers : t <= s => \A c \in Parts(t) : \E d \in Parts(s) : c \subseteq d
  <1>1. t \in Nat /\ Threshold(t) \in Nat
    BY ThresholdFacts DEF Inferred
  <1>2. Divides(Cut(Threshold(t)), Leaves)
    BY <1>1, CutFacts DEF Inferred
  <1>3. \A s \in Tiers : t <= s => Nests(Cut(Threshold(t)), Cut(Threshold(s)))
    BY TierCutsNest DEF Inferred
  <1>4. \A s \in Tiers : t <= s => \A c \in Parts(t) : \E d \in Parts(s) : c \subseteq d
    BY <1>3 DEF Nests, Parts
  <1>5. /\ \A c \in Parts(t) : c # {} /\ c \subseteq Leaves
        /\ \A c, d \in Parts(t) : c # d => c \cap d = {}
        /\ \A a \in Leaves : \E c \in Parts(t) : a \in c
    BY <1>2, PartFacts DEF Parts
  <1> QED
    BY <1>1, <1>4, <1>5

LEMMA HiddenFacts ==
  ASSUME Inferred, NEW h \in Hidden
  PROVE  /\ h \in Nat \ {0} /\ Len(hidden) \in Nat /\ Hidden = 1 .. Len(hidden)
         /\ TopTier \in Nat
         /\ hidden[h].tier \in 1 .. TopTier + 1 /\ hidden[h].tier - 1 \in Tiers
         /\ hidden[h].members \in Parts(hidden[h].tier - 1)
         /\ hidden[h].members # {} /\ hidden[h].members \in SUBSET Leaves
         /\ IsFiniteSet(hidden[h].members)
  <1>1. hidden \in Seq(HiddenNode)
    BY DEF Inferred, ShowsClusters
  <1>2. /\ Hidden = 1 .. Len(hidden) /\ Len(hidden) \in Nat /\ h \in Nat \ {0}
        /\ hidden[h] \in HiddenNode
    BY <1>1 DEF Hidden
  <1>3. TopTier \in Nat /\ hidden[h].tier \in 1 .. TopTier + 1
    BY <1>2, ThresholdFacts DEF Inferred, HiddenNode
  <1>4. hidden[h].tier - 1 \in Tiers
    BY <1>3 DEF Tiers
  <1>5. hidden[h].members \in ToSet(CutOf[hidden[h].tier - 1])
    BY DEF Inferred, ShowsClusters, Hidden
  <1>6. hidden[h].members \in Parts(hidden[h].tier - 1)
    BY <1>4, <1>5 DEF CutOf, Parts
  <1>7. hidden[h].members # {} /\ hidden[h].members \subseteq Leaves
    BY <1>4, <1>6, PartsFacts
  <1>8. IsFiniteSet(hidden[h].members)
    <2>1. IsFiniteSet(Leaves)
      BY NAssumption, FS_Interval DEF Leaves
    <2> QED
      BY <1>7, <2>1, FS_Subset
  <1> QED
    BY <1>2, <1>3, <1>4, <1>6, <1>7, <1>8

LEMMA HiddenNest ==
  ASSUME Inferred, NEW h \in Hidden, NEW k \in Hidden,
         NEW a, a \in hidden[h].members, a \in hidden[k].members
  PROVE  /\ hidden[h].tier <= hidden[k].tier => hidden[h].members \subseteq hidden[k].members
         /\ hidden[h].tier = hidden[k].tier => h = k
         /\ h # k => \/ /\ hidden[h].tier < hidden[k].tier
                        /\ hidden[h].members \subseteq hidden[k].members
                     \/ /\ hidden[k].tier < hidden[h].tier
                        /\ hidden[k].members \subseteq hidden[h].members
  <1>1. ASSUME NEW x \in {h, k}, NEW y \in {h, k}, hidden[x].tier <= hidden[y].tier
        PROVE  hidden[x].members \subseteq hidden[y].members
    <2>1. PICK s, t : s = hidden[x].tier - 1 /\ t = hidden[y].tier - 1
      OBVIOUS
    <2>2. /\ s \in Tiers /\ t \in Tiers
          /\ hidden[x].members \in Parts(s) /\ hidden[y].members \in Parts(t)
      BY <2>1, HiddenFacts
    <2>3. s <= t
      <3>1. hidden[x].tier \in 1 .. TopTier + 1 /\ hidden[y].tier \in 1 .. TopTier + 1 /\ TopTier \in Nat
        BY HiddenFacts
      <3> QED
        BY <1>1, <2>1, <3>1
    <2>4. PICK d \in Parts(t) : hidden[x].members \subseteq d
      BY <2>2, <2>3, PartsFacts
    <2>5. d = hidden[y].members
      BY <2>2, <2>4, PartsFacts
    <2> QED
      BY <2>4, <2>5
  <1>2. hidden[h].members = hidden[k].members => h = k
    BY DEF Inferred, ShowsClusters, Hidden
  <1>3. hidden[h].tier \in Nat /\ hidden[k].tier \in Nat
    BY HiddenFacts
  <1>4. ASSUME hidden[h].tier = hidden[k].tier
        PROVE  h = k
    <2>1. hidden[h].members \subseteq hidden[k].members
      BY <1>1, <1>3, <1>4
    <2>2. hidden[k].members \subseteq hidden[h].members
      BY <1>1, <1>3, <1>4
    <2> QED
      BY <1>2, <2>1, <2>2
  <1> QED
    BY <1>1, <1>3, <1>4

\* Proper parts are of lower tiers.
LEMMA HiddenWithin ==
  ASSUME Inferred, NEW h \in Hidden, NEW k \in Hidden,
         hidden[h].members \subseteq hidden[k].members
  PROVE  /\ hidden[h].tier <= hidden[k].tier
         /\ h # k => hidden[h].tier < hidden[k].tier
         /\ hidden[k].members \subseteq hidden[h].members => h = k
  <1>1. PICK a \in hidden[h].members : TRUE
    BY HiddenFacts
  <1>2. hidden[h].members = hidden[k].members => h = k
    BY DEF Inferred, ShowsClusters, Hidden
  <1>3. hidden[h].tier \in Nat /\ hidden[k].tier \in Nat
    BY HiddenFacts
  <1>4. h # k => \/ /\ hidden[h].tier < hidden[k].tier
                    /\ hidden[h].members \subseteq hidden[k].members
                 \/ /\ hidden[k].tier < hidden[h].tier
                    /\ hidden[k].members \subseteq hidden[h].members
    BY <1>1, HiddenNest, SMTT(30)
  <1> QED
    BY <1>2, <1>3, <1>4, SMTT(30)

LEMMA JoinFacts ==
  ASSUME Inferred, NEW a, NEW b, NEW k \in Hidden, a \in hidden[k].members, b \in hidden[k].members
  PROVE  /\ Join(a, b) \in Hidden
         /\ a \in hidden[Join(a, b)].members /\ b \in hidden[Join(a, b)].members
         /\ hidden[Join(a, b)].tier <= hidden[k].tier
         /\ hidden[Join(a, b)].members \subseteq hidden[k].members
  <1> DEFINE hs == {h \in Hidden : {a, b} \subseteq hidden[h].members}
  <1>1. k \in hs /\ hs \subseteq Nat
    BY HiddenFacts
  <1>2. Join(a, b) = Min(hs)
    BY <1>1 DEF Join
  <1>3. Join(a, b) \in hs /\ Join(a, b) <= k
    <2> HIDE DEF hs
    <2> QED
      BY <1>1, <1>2, MinFacts
  <1>4. PICK j : j = Join(a, b)
    OBVIOUS
  <1>5. j \in Hidden /\ a \in hidden[j].members /\ b \in hidden[j].members /\ j <= k
    BY <1>3, <1>4
  <1>6. hidden[j].tier <= hidden[k].tier
    BY <1>5 DEF Inferred, ShowsClusters, Hidden
  <1>7. hidden[j].members \subseteq hidden[k].members
    BY <1>5, <1>6, HiddenNest
  <1> QED
    BY <1>4, <1>5, <1>6, <1>7

LEMMA JoinWithin ==
  ASSUME Inferred, NEW a, NEW b, Join(a, b) # 0
  PROVE  Join(a, b) \in Hidden /\ a \in hidden[Join(a, b)].members /\ b \in hidden[Join(a, b)].members
  <1>1. PICK k \in Hidden : a \in hidden[k].members /\ b \in hidden[k].members
    BY DEF Join
  <1> QED
    BY <1>1, JoinFacts

LEMMA ParentIs ==
  ASSUME Inferred, NEW h \in Hidden, NEW u, u = Parent(h), u # 0
  PROVE  /\ u \in Hidden /\ hidden[u].tier = hidden[h].tier + 1 /\ u # h
         /\ hidden[h].members \subseteq hidden[u].members
         /\ ~(hidden[u].members \subseteq hidden[h].members)
  <1> DEFINE hs == {v \in Hidden : /\ hidden[v].tier = hidden[h].tier + 1
                                   /\ hidden[h].members \subseteq hidden[v].members}
  <1>1. hs \subseteq Nat
    BY HiddenFacts
  <1>2. hs # {} /\ u = Min(hs)
    BY DEF Parent
  <1>3. u \in hs
    <2> HIDE DEF hs
    <2> QED
      BY <1>1, <1>2, MinFacts
  <1>4. hidden[h].tier \in Nat
    BY HiddenFacts
  <1>5. u # h
    BY <1>3, <1>4
  <1> QED
    BY <1>3, <1>5, HiddenWithin

\* What a parent adds joins its child there.
LEMMA AcrossJoin ==
  ASSUME Inferred, NEW h \in Hidden, NEW u, u = Parent(h), u # 0,
         NEW a \in hidden[h].members, NEW b \in hidden[u].members, b \notin hidden[h].members
  PROVE  Join(a, b) = u
  <1>1. /\ u \in Hidden /\ hidden[u].tier = hidden[h].tier + 1
        /\ a \in hidden[u].members
    BY ParentIs
  <1>2. PICK j : j = Join(a, b)
    OBVIOUS
  <1>3. /\ j \in Hidden /\ a \in hidden[j].members /\ b \in hidden[j].members
        /\ hidden[j].tier <= hidden[u].tier
    BY <1>1, <1>2, JoinFacts
  <1>4. hidden[j].tier \in Nat /\ hidden[h].tier \in Nat
    BY <1>3, HiddenFacts
  <1>5. ~(hidden[j].tier <= hidden[h].tier)
    BY <1>3, HiddenNest
  <1>6. hidden[j].tier = hidden[u].tier
    BY <1>1, <1>3, <1>4, <1>5
  <1> QED
    BY <1>1, <1>2, <1>3, <1>6, HiddenNest
----------------------------------------------------------------------------
(***************************************************************************)
(* Latencies grow from a hidden node to its parent.                        *)
(***************************************************************************)

\* A cluster of two nodes or more joins two nodes within its threshold; ...
LEMMA NearPair ==
  ASSUME Inferred, NEW k \in Hidden, NEW x \in hidden[k].members, NEW y \in hidden[k].members, x # y
  PROVE  \E a, b \in hidden[k].members :
           a # b /\ Join(a, b) = k /\ lat[a][b] <= Threshold(hidden[k].tier - 1)
  <1>1. PICK c, s : c = hidden[k].members /\ s = hidden[k].tier - 1
    OBVIOUS
  <1>2. /\ s \in Tiers /\ s \in Nat /\ c \in Parts(s) /\ c \subseteq Leaves /\ TopTier \in Nat
        /\ hidden[k].tier = s + 1 /\ Threshold(s) \in Nat
    BY <1>1, HiddenFacts, PartsFacts
  <1>3. ASSUME NEW a \in c, NEW b \in c
        PROVE  /\ Join(a, b) \in Hidden /\ hidden[Join(a, b)].tier \in 1 .. s + 1
               /\ a \in hidden[Join(a, b)].members /\ b \in hidden[Join(a, b)].members
               /\ hidden[Join(a, b)].tier = s + 1 => Join(a, b) = k
    <2>1. PICK j : j = Join(a, b)
      OBVIOUS
    <2>2. /\ j \in Hidden /\ a \in hidden[j].members /\ b \in hidden[j].members
          /\ hidden[j].tier <= s + 1
      BY <1>1, <1>2, <1>3, <2>1, JoinFacts
    <2>3. hidden[j].tier \in 1 .. s + 1
      BY <1>2, <2>2, HiddenFacts
    <2>4. hidden[j].tier = s + 1 => j = k
      BY <1>1, <1>2, <1>3, <2>2, HiddenNest
    <2> QED
      BY <2>1, <2>2, <2>3, <2>4
  <1>4. CASE s = 0
    <2> DEFINE parts == {{z} : z \in Leaves}
    <2>1. /\ \A a \in Leaves : \E e \in parts : a \in e
          /\ \A e, f \in parts : e # f => e \cap f = {}
          /\ \A e \in parts : ~(c \subseteq e)
      BY <1>1
    <2>2. PICK a \in c, b \in c : lat[a][b] <= Threshold(s) /\ \A e \in parts : ~(a \in e /\ b \in e)
      <3> HIDE DEF parts
      <3>1. c \in ToSet(Cut(Threshold(s)))
        BY <1>2 DEF Parts
      <3> QED
        BY <1>2, <2>1, <3>1, PartNear DEF Inferred
    <2>3. a # b
      BY <1>2, <2>2
    <2>4. Join(a, b) = k
      <3>1. PICK t : t = hidden[Join(a, b)].tier
        OBVIOUS
      <3>2. t \in 1 .. s + 1 /\ (t = s + 1 => Join(a, b) = k)
        BY <1>3, <3>1
      <3> QED
        BY <1>4, <3>2
    <2> QED
      BY <1>1, <2>2, <2>3, <2>4
  <1>5. CASE s # 0
    <2>1. PICK r : r = s - 1
      OBVIOUS
    <2>2. r \in Nat /\ r \in Tiers /\ r <= s /\ s = r + 1
      BY <1>2, <1>5, <2>1 DEF Tiers
    <2>3. ASSUME NEW e \in Parts(r), c \subseteq e
          PROVE  FALSE
      <3>1. PICK d \in Parts(s) : e \subseteq d
        BY <1>2, <2>2, PartsFacts
      <3>2. d = c
        BY <1>1, <1>2, <2>3, <3>1, PartsFacts
      <3>3. c \in ToSet(CutOf[r])
        <4>1. e = c
          BY <2>3, <3>1, <3>2
        <4>2. CutOf[r] = Cut(Threshold(r))
          BY <2>2 DEF CutOf
        <4> QED
          BY <4>1, <4>2 DEF Parts
      <3>4. Cardinality(c) >= MinSize
        BY <1>1 DEF Inferred, ShowsClusters, Hidden
      <3>5. PICK h \in Hidden : hidden[h].members = c /\ hidden[h].tier <= r + 1
        BY <2>2, <3>3, <3>4 DEF Inferred, ShowsClusters, Hidden
      <3>6. h = k
        BY <1>1, <3>5 DEF Inferred, ShowsClusters, Hidden
      <3> QED
        BY <1>2, <2>2, <3>5, <3>6
    <2>4. /\ \A a \in Leaves : \E e \in Parts(r) : a \in e
          /\ \A e, f \in Parts(r) : e # f => e \cap f = {}
      BY <2>2, PartsFacts
    <2>5. PICK a \in c, b \in c : lat[a][b] <= Threshold(s) /\ \A e \in Parts(r) : ~(a \in e /\ b \in e)
      <3>1. c \in ToSet(Cut(Threshold(s)))
        BY <1>2 DEF Parts
      <3>2. \A e \in Parts(r) : ~(c \subseteq e)
        BY <2>3
      <3>3. PICK parts, t : parts = Parts(r) /\ t = Threshold(s)
        OBVIOUS
      <3>4. /\ \A a \in Leaves : \E e \in parts : a \in e
            /\ \A e, f \in parts : e # f => e \cap f = {}
            /\ \A e \in parts : ~(c \subseteq e)
        BY <2>4, <3>2, <3>3
      <3>5. t \in Nat /\ c \in ToSet(Cut(t)) /\ TInv /\ SInv /\ Built
        BY <1>2, <3>1, <3>3 DEF Inferred
      <3>6. \E a, b \in c : lat[a][b] <= t /\ \A e \in parts : ~(a \in e /\ b \in e)
        BY <3>4, <3>5, PartNear
      <3> QED
        BY <3>3, <3>6
    <2>6. a # b
      BY <1>2, <2>4, <2>5
    <2>7. Join(a, b) = k
      <3>1. PICK j, t : j = Join(a, b) /\ t = hidden[j].tier
        OBVIOUS
      <3>2. /\ j \in Hidden /\ t \in 1 .. s + 1 /\ (t = s + 1 => j = k)
            /\ a \in hidden[j].members /\ b \in hidden[j].members
        BY <1>3, <3>1
      <3>3. ASSUME t # s + 1
            PROVE  FALSE
        <4>1. PICK q : q = t - 1
          OBVIOUS
        <4>2. q \in Tiers /\ hidden[j].members \in Parts(q)
          BY <3>1, <3>2, <4>1, HiddenFacts
        <4>3. q <= r
          BY <1>2, <2>2, <3>2, <3>3, <4>1
        <4>4. PICK e \in Parts(r) : hidden[j].members \subseteq e
          BY <2>2, <4>2, <4>3, PartsFacts
        <4> QED
          BY <2>5, <3>2, <4>4
      <3> QED
        BY <3>1, <3>2, <3>3
    <2> QED
      BY <1>1, <2>5, <2>6, <2>7
  <1> QED
    BY <1>4, <1>5

\* ... its parent joins two nodes beyond that threshold.
LEMMA FarPair ==
  ASSUME Inferred, NEW h \in Hidden, NEW u, u = Parent(h), u # 0
  PROVE  \E a, b \in hidden[u].members :
           a # b /\ Join(a, b) = u /\ lat[a][b] > Threshold(hidden[h].tier - 1)
  <1>1. PICK c, s : c = hidden[h].members /\ s = hidden[h].tier - 1
    OBVIOUS
  <1>2. s \in Tiers /\ s \in Nat /\ c \in Parts(s) /\ hidden[h].tier = s + 1 /\ Threshold(s) \in Nat
    BY <1>1, HiddenFacts, PartsFacts
  <1>3. /\ u \in Hidden /\ hidden[u].tier = s + 2
        /\ c \subseteq hidden[u].members /\ ~(hidden[u].members \subseteq c)
    <2>1. /\ u \in Hidden /\ hidden[u].tier = hidden[h].tier + 1
          /\ c \subseteq hidden[u].members /\ ~(hidden[u].members \subseteq c)
      BY <1>1, ParentIs
    <2> QED
      BY <1>2, <2>1
  <1>4. PICK x \in hidden[u].members : x \notin c
    BY <1>3
  <1>5. PICK r : r = s + 1
    OBVIOUS
  <1>6. r \in Tiers /\ s <= r /\ hidden[u].members \in Parts(r) /\ hidden[u].members \subseteq Leaves
    <2>1. r = hidden[u].tier - 1
      BY <1>2, <1>3, <1>5
    <2> QED
      BY <1>2, <1>3, <1>5, <2>1, HiddenFacts
  <1>7. PICK d \in Parts(s) : x \in d
    BY <1>2, <1>4, <1>6, PartsFacts
  <1>8. d # c /\ d \cap c = {}
    BY <1>2, <1>4, <1>7, PartsFacts
  <1>9. d \subseteq hidden[u].members
    <2>1. PICK e \in Parts(r) : d \subseteq e
      BY <1>2, <1>6, <1>7, PartsFacts
    <2>2. e = hidden[u].members
      BY <1>4, <1>6, <1>7, <2>1, PartsFacts
    <2> QED
      BY <2>1, <2>2
  <1>10. PICK a \in c, b \in d : lat[a][b] > Threshold(s)
    BY <1>2, <1>7, <1>8, PartsFar DEF Inferred, Parts
  <1>11. a \in hidden[u].members /\ b \in hidden[u].members /\ b \notin c
    BY <1>3, <1>8, <1>9
  <1>12. Join(a, b) = u
    BY <1>1, <1>11, AcrossJoin
  <1> QED
    BY <1>1, <1>10, <1>11, <1>12
----------------------------------------------------------------------------
(***************************************************************************)
(* In a regular network a hidden node has one latency, and half of it is   *)
(* its height above the physical nodes.                                    *)
(***************************************************************************)
Halves(half) ==
  /\ half \in [Hidden -> Nat]
  /\ \A a, b \in Leaves : a # b /\ Join(a, b) # 0 => lat[a][b] = (2 * Scale) * half[Join(a, b)]
  /\ \A h \in Hidden : (\A a, b \in hidden[h].members : a = b) => half[h] = 0

LEMMA WholeQuotient ==
  ASSUME NEW x \in Nat, NEW d \in Nat \ {0}, x % d = 0
  PROVE  \E n \in Nat : x = d * n
  <1>1. x \div d \in Nat
    OBVIOUS
  <1>2. x = d * (x \div d)
    OBVIOUS
  <1> QED
    BY <1>1, <1>2

LEMMA HalvesExist ==
  ASSUME Inferred, Regular
  PROVE  \E half : Halves(half)
  <1> DEFINE Meet(a, b, k) == a # b /\ Join(a, b) = k
             IsHalf(n, k) ==
               /\ \A a, b \in Leaves : Meet(a, b, k) => lat[a][b] = (2 * Scale) * n
               /\ (\A a, b \in Leaves : ~Meet(a, b, k)) => n = 0
             half == [k \in Hidden |-> CHOOSE n \in Nat : IsHalf(n, k)]
  <1>1. ASSUME NEW k \in Hidden
        PROVE  \E n \in Nat : IsHalf(n, k)
    <2>1. CASE \E a, b \in Leaves : Meet(a, b, k)
      <3>1. PICK a \in Leaves, b \in Leaves : Meet(a, b, k)
        BY <2>1
      <3>2. PICK x, d : x = lat[a][b] /\ d = 2 * Scale
        OBVIOUS
      <3>3. x \in Nat /\ d \in Nat \ {0} /\ x % d = 0
        <4>1. lat[a][b] \in Nat
          BY DEF Inferred, TInv, DInv, Shape
        <4>2. 2 * Scale \in Nat \ {0}
          BY ScaleAssumption
        <4>3. lat[a][b] % (2 * Scale) = 0
          BY DEF Regular
        <4> QED
          BY <3>2, <4>1, <4>2, <4>3
      <3>4. PICK n \in Nat : x = d * n
        BY <3>3, WholeQuotient
      <3>5. \A e, f \in Leaves : Meet(e, f, k) => lat[e][f] = lat[a][b]
        BY <3>1 DEF Regular
      <3>6. \A e, f \in Leaves : Meet(e, f, k) => lat[e][f] = (2 * Scale) * n
        <4> HIDE DEF Meet
        <4> QED
          BY <3>2, <3>4, <3>5
      <3> QED
        BY <2>1, <3>6
    <2>2. CASE ~\E a, b \in Leaves : Meet(a, b, k)
      <3>1. IsHalf(0, k)
        BY <2>2
      <3> HIDE DEF IsHalf
      <3> QED
        BY <3>1
    <2> QED
      BY <2>1, <2>2
  <1>2. half \in [Hidden -> Nat] /\ \A k \in Hidden : IsHalf(half[k], k)
    <2> HIDE DEF IsHalf
    <2> QED
      BY <1>1
  <1> HIDE DEF half
  <1>3. ASSUME NEW a \in Leaves, NEW b \in Leaves, a # b, Join(a, b) # 0
        PROVE  lat[a][b] = (2 * Scale) * half[Join(a, b)]
    <2>1. Join(a, b) \in Hidden
      BY <1>3, JoinWithin
    <2>2. IsHalf(half[Join(a, b)], Join(a, b))
      <3> HIDE DEF IsHalf
      <3> QED
        BY <1>2, <2>1
    <2> QED
      BY <1>3, <2>2
  <1>4. ASSUME NEW h \in Hidden, \A a, b \in hidden[h].members : a = b
        PROVE  half[h] = 0
    <2>1. ASSUME NEW a \in Leaves, NEW b \in Leaves
          PROVE  ~Meet(a, b, h)
      <3>1. 0 \notin Hidden
        BY HiddenFacts
      <3> QED
        BY <1>4, <3>1, JoinWithin
    <2>2. IsHalf(half[h], h)
      BY <1>2
    <2> HIDE DEF Meet
    <2> QED
      BY <2>1, <2>2
  <1> QED
    BY <1>2, <1>3, <1>4 DEF Halves

LEMMA HalvesGrow ==
  ASSUME Inferred, NEW half, Halves(half), NEW h \in Hidden, NEW u, u = Parent(h), u # 0
  PROVE  /\ u \in Hidden /\ half[h] \in Nat /\ half[u] \in Nat
         /\ half[h] < half[u]
  <1>1. PICK d : d = 2 * Scale
    OBVIOUS
  <1>2. d \in Nat \ {0}
    BY <1>1, ScaleAssumption
  <1>3. u \in Hidden /\ 0 \notin Hidden
    BY ParentIs, HiddenFacts
  <1>4. \A k \in Hidden : hidden[k].members \subseteq Leaves
    BY HiddenFacts
  <1>5. ASSUME NEW k \in Hidden, NEW a \in hidden[k].members, NEW b \in hidden[k].members,
               a # b, Join(a, b) = k
        PROVE  lat[a][b] = d * half[k] /\ lat[a][b] \in Nat
    <2>1. a \in Leaves /\ b \in Leaves
      BY <1>4
    <2>2. lat[a][b] = d * half[k]
      BY <1>1, <1>3, <1>5, <2>1 DEF Halves
    <2>3. lat[a][b] \in Nat
      BY <2>1 DEF Inferred, TInv, DInv, Shape
    <2> QED
      BY <2>2, <2>3
  <1>6. PICK t : t = Threshold(hidden[h].tier - 1)
    OBVIOUS
  <1>7. t \in Nat
    BY <1>6, HiddenFacts, PartsFacts
  <1>8. PICK x, y : x = half[h] /\ y = half[u]
    OBVIOUS
  <1>9. x \in Nat /\ y \in Nat
    BY <1>3, <1>8 DEF Halves
  <1>10. d * y > t
    <2>1. PICK a \in hidden[u].members, b \in hidden[u].members :
            a # b /\ Join(a, b) = u /\ lat[a][b] > t
      BY <1>6, FarPair
    <2> QED
      BY <1>3, <1>5, <1>8, <2>1
  <1>11. d * x <= t
    <2>1. CASE \A a, b \in hidden[h].members : a = b
      <3>1. x = 0
        BY <1>8, <2>1 DEF Halves
      <3> QED
        BY <1>2, <1>7, <3>1
    <2>2. CASE ~\A a, b \in hidden[h].members : a = b
      <3>1. PICK a \in hidden[h].members, b \in hidden[h].members :
              a # b /\ Join(a, b) = h /\ lat[a][b] <= t
        BY <1>6, <2>2, NearPair
      <3> QED
        BY <1>5, <1>8, <3>1
    <2> QED
      BY <2>1, <2>2
  <1>12. x < y
    <2>1. d * x < d * y
      <3>1. d * x \in Nat /\ d * y \in Nat
        BY <1>2, <1>9
      <3> QED
        BY <1>7, <1>10, <1>11, <3>1
    <2> QED
      BY <1>2, <1>9, <2>1
  <1> QED
    BY <1>3, <1>8, <1>9, <1>12

LEMMA ExactQuotient ==
  ASSUME NEW d \in Nat \ {0}, NEW n \in Int
  PROVE  (d * n) \div d = n /\ (n * d) \div d = n
  <1>1. d * n = n * d
    OBVIOUS
  <1>2. (d * n) \div d = n
    OBVIOUS
  <1> QED
    BY <1>1, <1>2

\* The edge of a physical node spans the height of the hidden node it leads to,
\* one of the lowest tier.
LEMMA AttachedHalf ==
  ASSUME Inferred, NEW half, Halves(half), NEW a \in Leaves, NEW g, g = Attached(a), g # 0
  PROVE  /\ g \in Hidden /\ a \in hidden[g].members
         /\ \A k \in Hidden : hidden[g].tier <= hidden[k].tier
         /\ AttachedNs(a) = half[g] /\ half[g] \in Nat
  <1> DEFINE hs == {h \in Hidden : hidden[h].tier = hidden[1].tier /\ a \in hidden[h].members}
  <1>1. hs \subseteq Nat /\ hs # {} /\ g = Min(hs)
    BY HiddenFacts DEF Attached
  <1>2. g \in hs
    <2> HIDE DEF hs
    <2> QED
      BY <1>1, MinFacts
  <1>3. g \in Hidden /\ a \in hidden[g].members /\ hidden[g].tier = hidden[1].tier
    BY <1>2
  <1>4. \A k \in Hidden : hidden[g].tier <= hidden[k].tier
    <2> TAKE k \in Hidden
    <2>1. 1 \in Hidden /\ 1 <= k
      BY HiddenFacts
    <2> QED
      BY <1>3, <2>1 DEF Inferred, ShowsClusters, Hidden
  <1>5. half[g] \in Nat
    BY <1>3 DEF Halves
  <1>6. PICK n : n = half[g]
    OBVIOUS
  <1>7. PICK others : others = hidden[g].members \ {a}
    OBVIOUS
  <1>8. PICK f : f = [b \in Leaves |-> Ns(lat[a][b])]
    OBVIOUS
  <1>9. IsFiniteSet(others) /\ others \subseteq Leaves
    BY <1>3, <1>7, HiddenFacts, FS_Subset
  <1>10. \A b \in others : f[b] = 2 * n
    <2> TAKE b \in others
    <2>1. b \in Leaves /\ b \in hidden[g].members /\ a # b
      BY <1>7, <1>9
    <2>2. PICK j : j = Join(a, b)
      OBVIOUS
    <2>3. j = g
      <3>1. /\ j \in Hidden /\ a \in hidden[j].members
            /\ hidden[j].tier <= hidden[g].tier
        BY <1>3, <2>1, <2>2, JoinFacts
      <3>2. hidden[j].tier = hidden[g].tier
        <4>1. hidden[j].tier \in Nat /\ hidden[g].tier \in Nat
          BY <1>3, <3>1, HiddenFacts
        <4> QED
          BY <1>4, <3>1, <4>1
      <3> QED
        BY <1>3, <3>1, <3>2, HiddenNest
    <2>4. lat[a][b] = (2 * Scale) * n
      BY <1>6, <2>1, <2>2, <2>3 DEF Halves
    <2>5. (2 * Scale) * n = Scale * (2 * n) /\ 2 * n \in Int
      BY <1>5, <1>6, ScaleAssumption
    <2>6. Ns(lat[a][b]) = 2 * n
      BY <2>4, <2>5, ExactQuotient, ScaleAssumption DEF Ns
    <2> QED
      BY <1>8, <2>1, <2>6
  <1>11. AttachedNs(a) = IF others = {} THEN 0
                         ELSE (SumFunctionOnSet(f, others) \div Cardinality(others)) \div 2
    BY <1>7, <1>8, Zenon DEF AttachedNs
  <1>12. CASE others = {}
    <2>1. \A b, c \in hidden[g].members : b = c
      BY <1>7, <1>12
    <2>2. half[g] = 0
      BY <1>3, <2>1 DEF Halves
    <2> QED
      BY <1>3, <1>4, <1>5, <1>11, <1>12, <2>2
  <1>13. CASE others # {}
    <2>1. PICK c : c = Cardinality(others)
      OBVIOUS
    <2>2. c \in Nat \ {0}
      BY <1>9, <1>13, <2>1, FS_CardinalityType, FS_EmptySet
    <2>3. 2 * n \in Int
      BY <1>5, <1>6
    <2>4. SumFunctionOnSet(f, others) = (2 * n) * c
      BY <1>9, <1>10, <2>1, <2>3, SumOfSame
    <2>5. ((2 * n) * c) \div c = 2 * n
      BY <2>2, <2>3, ExactQuotient
    <2>6. (2 * n) \div 2 = n
      BY <1>5, <1>6
    <2>7. AttachedNs(a) = n
      BY <1>11, <1>13, <2>1, <2>4, <2>5, <2>6
    <2> QED
      BY <1>3, <1>4, <1>5, <1>6, <2>7
  <1> QED
    BY <1>12, <1>13
----------------------------------------------------------------------------
(***************************************************************************)
(* The two recursions of UpNs have values.                                 *)
(***************************************************************************)
AtTop(h, k) == k \in {0, h} \/ Parent(k) = 0 \/ hidden[k].tier >= hidden[h].tier
ClimbStep(up, h, climb, k) == IF AtTop(h, k) THEN 0 ELSE up[k] + climb[Parent(k)]
Climb(up, h) == CHOOSE climb : climb = [k \in Hidden \cup {0} |-> ClimbStep(up, h, climb, k)]

Across(h) == hidden[h].members \X (hidden[Parent(h)].members \ hidden[h].members)
AcrossTotal(h) == SumFunctionOnSet([p \in Leaves \X Leaves |-> lat[p[1]][p[2]]], Across(h))
Sample(h) == Min(hidden[h].members)
WayTo(up, h) == IF Attached(Sample(h)) = 0 THEN 0
                ELSE AttachedNs(Sample(h)) + Climb(up, h)[Attached(Sample(h))]
Rest(up, h) == AcrossTotal(h) - 2 * WayTo(up, h) * Scale * Cardinality(Across(h))
UpStep(up, h) ==
  IF Parent(h) = 0 \/ Across(h) = {} \/ Rest(up, h) <= 0 THEN 0
  ELSE Rest(up, h) \div (2 * Scale * Cardinality(Across(h)))

\* A climb goes on at a higher tier, and looks at lower tiers than its end.
LEMMA ClimbOn ==
  ASSUME Inferred, NEW h, NEW k \in Hidden \cup {0}, ~AtTop(h, k)
  PROVE  /\ k \in Hidden /\ Parent(k) \in Hidden
         /\ hidden[Parent(k)].tier = hidden[k].tier + 1
         /\ ~(hidden[k].tier >= hidden[h].tier)
  BY ParentIs DEF AtTop

\* A recursion that goes on from parent to parent, up to where it ends; a negative
\* value stays where values are checked.
UpwardStep(ends, base, up, checked, f, k) ==
  IF k \in ends THEN base[k]
  ELSE IF checked /\ f[Parent(k)] < 0 THEN -1
  ELSE up[k] + f[Parent(k)]

IsUpward(D, ends, base, up, checked, f) ==
  f = [k \in D |-> UpwardStep(ends, base, up, checked, f, k)]

LEMMA UpwardExists ==
  ASSUME Inferred, NEW D, Hidden \subseteq D, NEW ends, NEW base, NEW up, NEW checked \in BOOLEAN,
         \A k \in D : k \notin ends => k \in Hidden /\ Parent(k) # 0
  PROVE  \E f : IsUpward(D, ends, base, up, checked, f)
  <1> DEFINE Step(f, k) == UpwardStep(ends, base, up, checked, f, k)
             rank(k) == IF k \in Hidden THEN TopTier + 2 - hidden[k].tier ELSE 0
             Agrees(f, n) == f = [k \in D |-> f[k]]
                             /\ \A k \in D : rank(k) < n => f[k] = Step(f, k)
             Bad == {n \in Nat : ~\E f : Agrees(f, n)}
  <1>1. /\ \A k \in D : rank(k) \in Nat /\ rank(k) < TopTier + 2
        /\ TopTier \in Nat
    <2>1. TopTier \in Nat
      BY ThresholdFacts DEF Inferred
    <2>2. ASSUME NEW k \in D
          PROVE  rank(k) \in Nat /\ rank(k) < TopTier + 2
      <3>1. CASE k \in Hidden
        <4>1. hidden[k].tier \in 1 .. TopTier + 1
          BY <3>1, HiddenFacts
        <4> QED
          BY <2>1, <3>1, <4>1
      <3> QED
        BY <2>1, <3>1
    <2> QED
      BY <2>1, <2>2
  <1>2. ASSUME NEW k \in D, k \notin ends
        PROVE  Parent(k) \in D /\ rank(Parent(k)) < rank(k)
    <2>1. k \in Hidden /\ Parent(k) # 0
      BY <1>2
    <2>2. /\ Parent(k) \in Hidden
          /\ hidden[Parent(k)].tier = hidden[k].tier + 1
      BY <2>1, ParentIs
    <2>3. hidden[k].tier \in Nat
      BY <2>1, HiddenFacts
    <2> QED
      BY <1>1, <2>1, <2>2, <2>3
  <1> HIDE DEF rank
  <1>3. 0 \notin Bad
    <2>1. Agrees([k \in D |-> 0], 0)
      <3>1. \A k \in D : ~(rank(k) < 0)
        BY <1>1
      <3> HIDE DEF Step
      <3> QED
        BY <3>1
    <2> QED
      BY <2>1
  <1>4. ASSUME NEW n \in Bad, \A m \in Bad : n <= m
        PROVE  FALSE
    <2>1. n \in Nat \ {0} /\ n - 1 \in Nat
      BY <1>3
    <2>2. n - 1 \notin Bad
      <3>1. ~(n <= n - 1)
        BY <2>1
      <3> HIDE DEF Bad
      <3> QED
        BY <1>4, <3>1
    <2>3. PICK c : Agrees(c, n - 1)
      BY <2>1, <2>2
    <2> DEFINE e == [k \in D |-> IF rank(k) = n - 1 THEN Step(c, k) ELSE c[k]]
    <2>4. ASSUME NEW k \in D, rank(k) < n
          PROVE  e[k] = Step(e, k)
      <3>1. rank(k) \in Nat /\ (rank(k) = n - 1 \/ rank(k) < n - 1)
        <4>1. rank(k) \in Nat
          BY <1>1
        <4> QED
          BY <2>1, <2>4, <4>1
      <3>2. Step(e, k) = Step(c, k)
        <4>1. CASE k \in ends
          BY <4>1 DEF UpwardStep
        <4>2. CASE k \notin ends
          <5>1. Parent(k) \in D /\ rank(Parent(k)) # n - 1
            <6>1. Parent(k) \in D /\ rank(Parent(k)) < rank(k)
              BY <1>2, <4>2
            <6>2. rank(Parent(k)) \in Nat
              BY <1>1, <6>1
            <6> QED
              BY <2>1, <3>1, <6>1, <6>2
          <5>2. e[Parent(k)] = c[Parent(k)]
            BY <5>1
          <5> HIDE DEF e
          <5> QED
            BY <5>2, Zenon DEF UpwardStep
        <4> QED
          BY <4>1, <4>2
      <3>3. e[k] = Step(c, k)
        <4> HIDE DEF Step
        <4>1. CASE rank(k) = n - 1
          BY <4>1
        <4>2. CASE rank(k) # n - 1
          <5>1. e[k] = c[k]
            BY <4>2
          <5> QED
            BY <2>3, <3>1, <4>2, <5>1
        <4> QED
          BY <4>1, <4>2
      <3> HIDE DEF Step, e
      <3> QED
        BY <3>2, <3>3
    <2>5. e = [k \in D |-> e[k]]
      OBVIOUS
    <2> HIDE DEF e, Step
    <2>6. Agrees(e, n)
      BY <2>4, <2>5
    <2> QED
      BY <2>6
  <1>5. Bad = {}
    <2>1. Bad \subseteq Nat
      OBVIOUS
    <2> HIDE DEF Bad
    <2> QED
      BY <1>4, <2>1, LeastNumber
  <1>6. PICK f : Agrees(f, TopTier + 2)
    <2>1. TopTier + 2 \in Nat
      BY <1>1
    <2> HIDE DEF Agrees
    <2> QED
      BY <1>5, <2>1
  <1>7. f = [k \in D |-> Step(f, k)]
    <2> HIDE DEF Step
    <2> QED
      BY <1>1, <1>6
  <1>8. IsUpward(D, ends, base, up, checked, f)
    BY <1>7, Zenon DEF IsUpward
  <1> QED
    BY <1>8

LEMMA ClimbExists ==
  ASSUME Inferred, NEW up, NEW h
  PROVE  Climb(up, h) = [k \in Hidden \cup {0} |-> ClimbStep(up, h, Climb(up, h), k)]
  <1> DEFINE D == Hidden \cup {0}
             ends == {k \in D : AtTop(h, k)}
             base == [k \in D |-> 0]
  <1>1. \A k \in D : k \notin ends => k \in Hidden /\ Parent(k) # 0
    BY DEF AtTop
  <1>2. ASSUME NEW c, NEW k \in D
        PROVE  UpwardStep(ends, base, up, FALSE, c, k) = ClimbStep(up, h, c, k)
    BY DEF UpwardStep, ClimbStep
  <1>3. Hidden \subseteq D
    OBVIOUS
  <1> HIDE DEF D, ends, base
  <1>4. PICK c : IsUpward(D, ends, base, up, FALSE, c)
    BY <1>1, <1>3, UpwardExists
  <1>5. c = [k \in D |-> ClimbStep(up, h, c, k)]
    BY <1>2, <1>4 DEF IsUpward
  <1> QED
    BY <1>5, Zenon DEF Climb, D

LEMMA UpStepSame ==
  ASSUME Inferred, NEW h \in Hidden, NEW f, NEW g,
         \A k \in Hidden : ~(hidden[k].tier >= hidden[h].tier) => f[k] = g[k]
  PROVE  UpStep(f, h) = UpStep(g, h)
  <1>1. ASSUME NEW c, NEW k \in Hidden \cup {0}
        PROVE  ClimbStep(f, h, c, k) = ClimbStep(g, h, c, k)
    <2>1. CASE AtTop(h, k)
      BY <2>1 DEF ClimbStep
    <2>2. CASE ~AtTop(h, k)
      <3>1. f[k] = g[k]
        BY <2>2, ClimbOn
      <3> QED
        BY <3>1 DEF ClimbStep
    <2> QED
      BY <2>1, <2>2
  <1>2. \A c : [k \in Hidden \cup {0} |-> ClimbStep(f, h, c, k)]
               = [k \in Hidden \cup {0} |-> ClimbStep(g, h, c, k)]
    BY <1>1
  <1>3. Climb(f, h) = Climb(g, h)
    BY <1>2, Zenon DEF Climb
  <1> QED
    BY <1>3, Zenon DEF UpStep, Rest, WayTo

LEMMA UpNsIs ==
  UpNs = CHOOSE up : up = [h \in Hidden |-> UpStep(up, h)]
  BY Zenon DEF UpNs, UpStep, Rest, WayTo, Sample, AcrossTotal, Across, Climb, ClimbStep, AtTop

LEMMA UpNsExists ==
  ASSUME Inferred
  PROVE  UpNs = [h \in Hidden |-> UpStep(UpNs, h)]
  <1> DEFINE Agrees(f, n) ==
               /\ f = [h \in Hidden |-> f[h]]
               /\ \A h \in Hidden : hidden[h].tier < n => f[h] = UpStep(f, h)
             Bad == {n \in Nat : ~\E f : Agrees(f, n)}
  <1>1. TopTier \in Nat /\ \A h \in Hidden : hidden[h].tier \in Nat /\ hidden[h].tier < TopTier + 2
    <2>1. TopTier \in Nat
      BY ThresholdFacts DEF Inferred
    <2>2. \A h \in Hidden : hidden[h].tier \in 1 .. TopTier + 1
      BY HiddenFacts
    <2> QED
      BY <2>1, <2>2
  <1>2. 0 \notin Bad
    <2>1. Agrees([h \in Hidden |-> 0], 0)
      <3>1. \A h \in Hidden : ~(hidden[h].tier < 0)
        BY <1>1
      <3> QED
        BY <3>1
    <2> QED
      BY <2>1
  <1>3. ASSUME NEW n \in Bad, \A m \in Bad : n <= m
        PROVE  FALSE
    <2>1. n \in Nat \ {0} /\ n - 1 \in Nat
      BY <1>2
    <2>2. n - 1 \notin Bad
      <3>1. ~(n <= n - 1)
        BY <2>1
      <3> HIDE DEF Bad
      <3> QED
        BY <1>3, <3>1
    <2>3. PICK f : Agrees(f, n - 1)
      BY <2>1, <2>2
    <2> DEFINE g == [h \in Hidden |-> IF hidden[h].tier = n - 1 THEN UpStep(f, h) ELSE f[h]]
    <2>4. ASSUME NEW h \in Hidden, hidden[h].tier < n
          PROVE  g[h] = UpStep(g, h)
      <3>1. hidden[h].tier \in Nat /\ (hidden[h].tier = n - 1 \/ hidden[h].tier < n - 1)
        <4>1. hidden[h].tier \in Nat
          BY <1>1
        <4> QED
          BY <2>1, <2>4, <4>1
      <3>2. \A k \in Hidden : ~(hidden[k].tier >= hidden[h].tier) => f[k] = g[k]
        <4> TAKE k \in Hidden
        <4>1. hidden[k].tier \in Nat
          BY <1>1
        <4>2. ~(hidden[k].tier >= hidden[h].tier) => hidden[k].tier # n - 1
          BY <2>1, <3>1, <4>1
        <4> QED
          BY <4>2
      <3>3. UpStep(f, h) = UpStep(g, h)
        <4> HIDE DEF g
        <4> QED
          BY <3>2, UpStepSame
      <3>4. g[h] = UpStep(f, h)
        <4>1. CASE hidden[h].tier = n - 1
          BY <4>1
        <4>2. CASE hidden[h].tier # n - 1
          <5>1. g[h] = f[h]
            BY <4>2
          <5> QED
            BY <2>3, <3>1, <4>2, <5>1
        <4> QED
          BY <4>1, <4>2
      <3> QED
        BY <3>3, <3>4
    <2>5. g = [h \in Hidden |-> g[h]]
      OBVIOUS
    <2> HIDE DEF g
    <2>6. Agrees(g, n)
      BY <2>4, <2>5
    <2> QED
      BY <2>6
  <1>4. Bad = {}
    <2>1. Bad \subseteq Nat
      OBVIOUS
    <2> HIDE DEF Bad
    <2> QED
      BY <1>3, <2>1, LeastNumber
  <1>5. PICK f : Agrees(f, TopTier + 2)
    <2>1. TopTier + 2 \in Nat
      BY <1>1
    <2> QED
      BY <1>4, <2>1
  <1>6. f = [h \in Hidden |-> UpStep(f, h)]
    BY <1>1, <1>5
  <1> QED
    BY <1>6, UpNsIs, Zenon

----------------------------------------------------------------------------
(***************************************************************************)
(* Where no cluster lasts over a tier, the edge from a hidden node to its  *)
(* parent is as long as the one is higher than the other.                  *)
(***************************************************************************)

LEMMA AcrossSum ==
  ASSUME Inferred, NEW half, Halves(half), NEW h \in Hidden, NEW u, u = Parent(h), u # 0
  PROVE  /\ Cardinality(Across(h)) \in Nat \ {0}
         /\ Across(h) # {}
         /\ AcrossTotal(h) = ((2 * Scale) * half[u]) * Cardinality(Across(h))
  <1>1. /\ u \in Hidden /\ hidden[h].members \subseteq hidden[u].members
        /\ ~(hidden[u].members \subseteq hidden[h].members)
    BY ParentIs
  <1>2. PICK A, B : A = hidden[h].members /\ B = hidden[u].members \ hidden[h].members
    OBVIOUS
  <1>3. /\ A # {} /\ B # {} /\ IsFiniteSet(A) /\ IsFiniteSet(B)
        /\ A \subseteq Leaves /\ B \subseteq Leaves
    BY <1>1, <1>2, HiddenFacts, FS_Subset
  <1>4. PICK X : X = Across(h)
    OBVIOUS
  <1>5. X = A \X B
    BY <1>2, <1>4 DEF Across
  <1>6. IsFiniteSet(X) /\ X # {}
    <2>1. IsFiniteSet(X)
      BY <1>3, <1>5, FS_Product
    <2>2. PICK a \in A, b \in B : TRUE
      BY <1>3
    <2>3. <<a, b>> \in X
      BY <1>5
    <2> QED
      BY <2>1, <2>3
  <1>7. Cardinality(X) \in Nat \ {0}
    BY <1>6, FS_CardinalityType, FS_EmptySet
  <1>8. PICK f : f = [p \in Leaves \X Leaves |-> lat[p[1]][p[2]]]
    OBVIOUS
  <1>9. PICK d : d = (2 * Scale) * half[u]
    OBVIOUS
  <1>10. d \in Int
    <2>1. half[u] \in Nat
      BY <1>1 DEF Halves
    <2> QED
      BY <1>9, <2>1, ScaleAssumption
  <1>11. \A p \in X : f[p] = d
    <2> TAKE p \in X
    <2>1. PICK a \in A, b \in B : p = <<a, b>>
      BY <1>5
    <2>2. a \in Leaves /\ b \in Leaves /\ a # b
      BY <1>2, <1>3
    <2>3. Join(a, b) = u
      BY <1>2, AcrossJoin
    <2>4. lat[a][b] = d
      BY <1>9, <2>2, <2>3 DEF Halves
    <2>5. f[p] = lat[a][b]
      BY <1>8, <2>1, <2>2
    <2> QED
      BY <2>4, <2>5
  <1>12. AcrossTotal(h) = d * Cardinality(X)
    <2>1. AcrossTotal(h) = SumFunctionOnSet(f, X)
      BY <1>4, <1>8 DEF AcrossTotal
    <2> QED
      BY <1>6, <1>10, <1>11, <2>1, SumOfSame
  <1> QED
    BY <1>4, <1>6, <1>7, <1>9, <1>12

LEMMA RestFacts ==
  ASSUME NEW s \in Nat \ {0}, NEW c \in Nat \ {0}, NEW x \in Nat, NEW y \in Nat, x < y,
         NEW r, r = ((2 * s) * y) * c - 2 * x * s * c
  PROVE  ~(r <= 0) /\ r \div (2 * s * c) = y - x
  <1>1. PICK d, n : d = 2 * s * c /\ n = y - x
    OBVIOUS
  <1>2. d \in Nat \ {0} /\ n \in Nat \ {0}
    <2>1. 2 * s \in Nat \ {0}
      OBVIOUS
    <2>2. (2 * s) * c \in Nat \ {0}
      BY <2>1
    <2> QED
      BY <1>1, <2>2
  <1>3. r = d * n
    <2>1. r = ((2 * s) * c) * y - ((2 * s) * c) * x
      OBVIOUS
    <2>2. r = d * y - d * x
      BY <1>1, <2>1
    <2> QED
      BY <1>1, <1>2, <2>2
  <1>4. d * n > 0
    BY <1>2
  <1>5. (d * n) \div d = n
    BY <1>2, ExactQuotient
  <1> QED
    BY <1>1, <1>2, <1>3, <1>4, <1>5

\* What adds up, from parent to parent, the differences in height below h, ends
\* with the height of h.
LEMMA HeightsAddUp ==
  ASSUME Inferred, NEW half, Halves(half), NEW h \in Hidden, NoTierSkipped(h), NEW f, f[h] = 0,
         \A k \in Hidden :
           k # h /\ hidden[k].members \subseteq hidden[h].members /\ ~(f[Parent(k)] < 0) =>
             f[k] = (half[Parent(k)] - half[k]) + f[Parent(k)]
  PROVE  \A k \in Hidden : hidden[k].members \subseteq hidden[h].members =>
           half[k] <= half[h] /\ f[k] = half[h] - half[k]
  <1> DEFINE Good(k) == half[k] <= half[h] /\ f[k] = half[h] - half[k]
             Bad == {n \in Nat : \E k \in Hidden :
                       /\ hidden[k].members \subseteq hidden[h].members
                       /\ n = hidden[h].tier - hidden[k].tier
                       /\ ~Good(k)}
  <1>1. ASSUME NEW n \in Bad, \A m \in Bad : n <= m
        PROVE  FALSE
    <2>1. PICK k \in Hidden : /\ hidden[k].members \subseteq hidden[h].members
                              /\ n = hidden[h].tier - hidden[k].tier
                              /\ ~Good(k)
      OBVIOUS
    <2>2. half[h] \in Nat
      BY DEF Halves
    <2>3. CASE k = h
      BY <2>1, <2>2, <2>3
    <2>4. CASE k # h
      <3>1. PICK p : p = Parent(k)
        OBVIOUS
      <3>2. p # 0 /\ hidden[k].tier < hidden[h].tier
        BY <2>1, <2>4, <3>1, HiddenWithin DEF NoTierSkipped
      <3>3. hidden[h].tier \in Nat /\ hidden[k].tier \in Nat
        BY HiddenFacts
      <3>4. /\ p \in Hidden /\ hidden[p].tier = hidden[k].tier + 1
            /\ hidden[k].members \subseteq hidden[p].members
        BY <3>1, <3>2, ParentIs
      <3>5. hidden[p].members \subseteq hidden[h].members
        <4>1. PICK a \in hidden[k].members : TRUE
          BY HiddenFacts
        <4>2. hidden[p].tier <= hidden[h].tier
          BY <3>2, <3>3, <3>4
        <4> QED
          BY <2>1, <3>4, <4>1, <4>2, HiddenNest
      <3>6. Good(p)
        <4>1. n - 1 \in Nat /\ n - 1 = hidden[h].tier - hidden[p].tier /\ ~(n <= n - 1)
          BY <2>1, <3>2, <3>3, <3>4
        <4>2. n - 1 \notin Bad
          <5> HIDE DEF Bad
          <5> QED
            BY <1>1, <4>1
        <4> HIDE DEF Good
        <4> QED
          BY <3>4, <3>5, <4>1, <4>2
      <3>7. half[p] \in Nat /\ half[k] \in Nat /\ half[k] < half[p]
        BY <3>1, <3>2, HalvesGrow
      <3>8. ~(f[p] < 0)
        BY <2>2, <3>6, <3>7
      <3>9. f[k] = (half[p] - half[k]) + f[p]
        BY <2>1, <2>4, <3>1, <3>8
      <3> QED
        BY <2>1, <2>2, <3>6, <3>7, <3>9
    <2> QED
      BY <2>3, <2>4
  <1>2. Bad = {}
    <2>1. Bad \subseteq Nat
      OBVIOUS
    <2> HIDE DEF Bad
    <2> QED
      BY <1>1, <2>1, LeastNumber
  <1>3. ASSUME NEW k \in Hidden, hidden[k].members \subseteq hidden[h].members
        PROVE  Good(k)
    <2>1. hidden[h].tier - hidden[k].tier \in Nat
      <3>1. hidden[h].tier \in Nat /\ hidden[k].tier \in Nat /\ hidden[k].tier <= hidden[h].tier
        BY <1>3, HiddenFacts, HiddenWithin
      <3> QED
        BY <3>1
    <2> HIDE DEF Good
    <2> QED
      BY <1>2, <1>3, <2>1
  <1> QED
    BY <1>3

\* Climbing within h leads up to h.
LEMMA ClimbHalf ==
  ASSUME Inferred, NEW half, Halves(half), NEW h \in Hidden, NoTierSkipped(h), NEW up,
         \A k \in Hidden : k # h /\ hidden[k].members \subseteq hidden[h].members =>
           up[k] = half[Parent(k)] - half[k]
  PROVE  \A k \in Hidden : hidden[k].members \subseteq hidden[h].members =>
           Climb(up, h)[k] = half[h] - half[k]
  <1>1. PICK C : C = Climb(up, h)
    OBVIOUS
  <1>2. \A k \in Hidden : C[k] = ClimbStep(up, h, C, k)
    <2>1. C = [k \in Hidden \cup {0} |-> ClimbStep(up, h, C, k)]
      BY <1>1, ClimbExists
    <2> QED
      BY <2>1
  <1>3. C[h] = 0
    BY <1>2 DEF ClimbStep, AtTop
  <1>4. ASSUME NEW k \in Hidden, k # h, hidden[k].members \subseteq hidden[h].members
        PROVE  C[k] = (half[Parent(k)] - half[k]) + C[Parent(k)]
    <2>1. hidden[k].tier < hidden[h].tier /\ Parent(k) # 0
      BY <1>4, HiddenWithin DEF NoTierSkipped
    <2>2. hidden[h].tier \in Nat /\ hidden[k].tier \in Nat /\ k # 0
      BY HiddenFacts
    <2>3. ~AtTop(h, k)
      BY <1>4, <2>1, <2>2 DEF AtTop
    <2> QED
      BY <1>2, <1>4, <2>3 DEF ClimbStep
  <1> QED
    BY <1>1, <1>3, <1>4, HeightsAddUp

LEMMA NoTierSkippedWithin ==
  ASSUME Inferred, NEW h \in Hidden, NoTierSkipped(h),
         NEW k \in Hidden, hidden[k].members \subseteq hidden[h].members
  PROVE  NoTierSkipped(k)
  <1> SUFFICES ASSUME NEW l \in Hidden, l # k, hidden[l].members \subseteq hidden[k].members
               PROVE  Parent(l) # 0
    BY DEF NoTierSkipped
  <1>1. l # h
    BY HiddenWithin
  <1>2. hidden[l].members \subseteq hidden[h].members
    OBVIOUS
  <1> QED
    BY <1>1, <1>2 DEF NoTierSkipped

\* The edge of h, when those within h are right.
LEMMA RiseStep ==
  ASSUME Inferred, NEW half, Halves(half), \A a \in Leaves : Attached(a) # 0,
         NEW h \in Hidden, NoTierSkipped(h), NEW u, u = Parent(h), u # 0,
         \A k \in Hidden : k # h /\ hidden[k].members \subseteq hidden[h].members =>
           UpNs[k] = half[Parent(k)] - half[k]
  PROVE  UpNs[h] = half[u] - half[h]
  <1>1. PICK a, g : a = Sample(h) /\ g = Attached(a)
    OBVIOUS
  <1>2. a \in hidden[h].members /\ a \in Leaves
    <2>1. hidden[h].members \subseteq Leaves /\ hidden[h].members # {}
      BY HiddenFacts
    <2>2. hidden[h].members \subseteq Nat
      BY <2>1, NAssumption DEF Leaves
    <2>3. Sample(h) \in hidden[h].members
      BY <2>1, <2>2, MinFacts DEF Sample
    <2> QED
      BY <1>1, <2>1, <2>3
  <1>3. /\ g # 0 /\ g \in Hidden /\ a \in hidden[g].members
        /\ hidden[g].tier <= hidden[h].tier
        /\ AttachedNs(a) = half[g] /\ half[g] \in Nat
    <2>1. g # 0
      BY <1>1, <1>2
    <2> QED
      BY <1>1, <1>2, <2>1, AttachedHalf
  <1>4. hidden[g].members \subseteq hidden[h].members
    BY <1>2, <1>3, HiddenNest
  <1>5. Climb(UpNs, h)[g] = half[h] - half[g]
    BY <1>3, <1>4, ClimbHalf
  <1>6. PICK x, y, c, t : x = half[h] /\ y = half[u] /\ c = Cardinality(Across(h)) /\ t = AcrossTotal(h)
    OBVIOUS
  <1>7. x \in Nat /\ y \in Nat /\ x < y
    BY <1>6, HalvesGrow
  <1>8. c \in Nat \ {0} /\ Across(h) # {} /\ t = ((2 * Scale) * y) * c
    BY <1>6, AcrossSum
  <1>9. WayTo(UpNs, h) = x
    <2>1. WayTo(UpNs, h) = AttachedNs(a) + Climb(UpNs, h)[g]
      BY <1>1, <1>3 DEF WayTo
    <2>2. half[g] + (x - half[g]) = x
      BY <1>3, <1>7
    <2> QED
      BY <1>3, <1>5, <1>6, <2>1, <2>2
  <1>10. PICK r : r = Rest(UpNs, h)
    OBVIOUS
  <1>11. r = ((2 * Scale) * y) * c - 2 * x * Scale * c
    BY <1>6, <1>8, <1>9, <1>10 DEF Rest
  <1>12. ~(r <= 0) /\ r \div (2 * Scale * c) = y - x
    BY <1>7, <1>8, <1>11, RestFacts, ScaleAssumption
  <1>13. UpNs[h] = UpStep(UpNs, h)
    BY UpNsExists
  <1> QED
    BY <1>6, <1>8, <1>10, <1>12, <1>13 DEF UpStep

LEMMA Rises ==
  ASSUME Inferred, NEW half, Halves(half), \A a \in Leaves : Attached(a) # 0
  PROVE  \A h \in Hidden : NoTierSkipped(h) /\ Parent(h) # 0 =>
           UpNs[h] = half[Parent(h)] - half[h]
  <1> DEFINE Good(h) == NoTierSkipped(h) /\ Parent(h) # 0 => UpNs[h] = half[Parent(h)] - half[h]
             Bad == {n \in Nat : \E h \in Hidden : hidden[h].tier = n /\ ~Good(h)}
  <1>1. ASSUME NEW n \in Bad, \A m \in Bad : n <= m
        PROVE  FALSE
    <2>1. PICK h \in Hidden : hidden[h].tier = n /\ ~Good(h)
      OBVIOUS
    <2>2. NoTierSkipped(h) /\ Parent(h) # 0
      BY <2>1
    <2>3. ASSUME NEW k \in Hidden, k # h, hidden[k].members \subseteq hidden[h].members
          PROVE  UpNs[k] = half[Parent(k)] - half[k]
      <3>1. Parent(k) # 0 /\ NoTierSkipped(k)
        <4>1. Parent(k) # 0
          BY <2>2, <2>3 DEF NoTierSkipped
        <4>2. NoTierSkipped(k)
          BY <2>2, <2>3, NoTierSkippedWithin
        <4> QED
          BY <4>1, <4>2
      <3>2. PICK m : m = hidden[k].tier
        OBVIOUS
      <3>3. m \in Nat /\ ~(n <= m)
        <4>1. m < n
          BY <2>1, <2>3, <3>2, HiddenWithin
        <4>2. m \in Nat /\ n \in Nat
          BY <3>2, HiddenFacts
        <4> QED
          BY <4>1, <4>2
      <3>4. m \notin Bad
        <4> HIDE DEF Bad
        <4> QED
          BY <1>1, <3>3
      <3>5. Good(k)
        <4> HIDE DEF Good
        <4> QED
          BY <3>2, <3>3, <3>4
      <3> QED
        BY <3>1, <3>5
    <2>4. UpNs[h] = half[Parent(h)] - half[h]
      BY <2>2, <2>3, RiseStep
    <2> QED
      BY <2>1, <2>4
  <1>2. Bad = {}
    <2>1. Bad \subseteq Nat
      OBVIOUS
    <2> HIDE DEF Bad
    <2> QED
      BY <1>1, <2>1, LeastNumber
  <1>3. ASSUME NEW h \in Hidden
        PROVE  Good(h)
    <2>1. hidden[h].tier \in Nat
      BY HiddenFacts
    <2> HIDE DEF Good
    <2> QED
      BY <1>2, <2>1
  <1> QED
    BY <1>3

----------------------------------------------------------------------------
(***************************************************************************)
(* The edges, and the ways along them.                                     *)
(***************************************************************************)
Drawn == edges = NodeEdges \cup HiddenEdges

EdgesFrom(kind, x) == {e \in edges : e.kind = kind /\ e.from = x}
Along(es, way) ==
  IF es = {} THEN -1
  ELSE LET e == CHOOSE e \in es : TRUE
       IN  IF way[e.to] < 0 THEN -1 ELSE e.ns + way[e.to]
WayStep(h, way, k) == IF k = h THEN 0 ELSE Along(EdgesFrom("hidden", k), way)
Way(h) == CHOOSE way : way = [k \in Hidden |-> WayStep(h, way, k)]

LEMMA AlongOne ==
  ASSUME NEW e, NEW way
  PROVE  Along({e}, way) = IF way[e.to] < 0 THEN -1 ELSE e.ns + way[e.to]
  <1>1. (CHOOSE f \in {e} : TRUE) = e
    OBVIOUS
  <1>2. {e} # {}
    OBVIOUS
  <1> QED
    BY <1>1, <1>2, Zenon DEF Along

LEMMA EdgesUp ==
  ASSUME Drawn, NEW k \in Hidden
  PROVE  /\ Parent(k) = 0 => EdgesFrom("hidden", k) = {}
         /\ Parent(k) # 0 => \E e : EdgesFrom("hidden", k) = {e}
                                    /\ e.to = Parent(k) /\ e.ns = UpNs[k]
  <1> DEFINE E(x) == [kind |-> "hidden", from |-> x, to |-> Parent(x), ns |-> UpNs[x]]
  <1>1. \A e \in NodeEdges : e.kind = "node"
    BY DEF NodeEdges
  <1>2. \A e \in HiddenEdges : \E x \in Hidden : Parent(x) # 0 /\ e = E(x)
    BY DEF HiddenEdges
  <1>3. Parent(k) # 0 => E(k) \in HiddenEdges
    BY DEF HiddenEdges
  <1>4. \A x : E(x).kind = "hidden" /\ E(x).from = x /\ E(x).to = Parent(x) /\ E(x).ns = UpNs[x]
    OBVIOUS
  <1> HIDE DEF E
  <1>5. "node" # "hidden"
    OBVIOUS
  <1>6. \A e \in EdgesFrom("hidden", k) : e = E(k) /\ Parent(k) # 0
    BY <1>1, <1>2, <1>4, <1>5 DEF EdgesFrom, Drawn
  <1>7. Parent(k) # 0 => E(k) \in EdgesFrom("hidden", k)
    BY <1>3, <1>4 DEF EdgesFrom, Drawn
  <1>8. Parent(k) # 0 => EdgesFrom("hidden", k) = {E(k)}
    BY <1>6, <1>7
  <1> QED
    BY <1>4, <1>6, <1>8

LEMMA EdgeOfNode ==
  ASSUME Drawn, Regular, NEW a \in Leaves
  PROVE  /\ Attached(a) # 0
         /\ \E e : EdgesFrom("node", a) = {e} /\ e.to = Attached(a) /\ e.ns = AttachedNs(a)
  <1> DEFINE E(x) == [kind |-> "node", from |-> x, to |-> Attached(x), ns |-> AttachedNs(x)]
  <1>1. \A e \in HiddenEdges : e.kind = "hidden"
    BY DEF HiddenEdges
  <1>2. \A e \in NodeEdges : \E x \in Leaves : Attached(x) # 0 /\ e = E(x)
    BY DEF NodeEdges
  <1>4. \A x : E(x).kind = "node" /\ E(x).from = x /\ E(x).to = Attached(x) /\ E(x).ns = AttachedNs(x)
    OBVIOUS
  <1> HIDE DEF E
  <1>5. "node" # "hidden"
    OBVIOUS
  <1>6. \A e \in EdgesFrom("node", a) : e = E(a) /\ Attached(a) # 0
    BY <1>1, <1>2, <1>4, <1>5 DEF EdgesFrom, Drawn
  <1>7. EdgesFrom("node", a) # {}
    BY DEF Regular, EdgesFrom
  <1>8. EdgesFrom("node", a) = {E(a)}
    BY <1>6, <1>7
  <1> QED
    BY <1>4, <1>6, <1>8

LEMMA WayExists ==
  ASSUME Inferred, Drawn, NEW h
  PROVE  Way(h) = [k \in Hidden |-> WayStep(h, Way(h), k)]
  <1> DEFINE ends == {k \in Hidden : k = h \/ Parent(k) = 0}
             base == [k \in Hidden |-> IF k = h THEN 0 ELSE -1]
  <1>1. \A k \in Hidden : k \notin ends => k \in Hidden /\ Parent(k) # 0
    OBVIOUS
  <1>2. ASSUME NEW w, NEW k \in Hidden
        PROVE  UpwardStep(ends, base, UpNs, TRUE, w, k) = WayStep(h, w, k)
    <2>1. CASE k = h
      <3>1. k \in ends /\ base[k] = 0
        BY <2>1
      <3> HIDE DEF ends, base
      <3> QED
        BY <2>1, <3>1 DEF UpwardStep, WayStep
    <2>2. CASE k # h /\ Parent(k) = 0
      <3>1. k \in ends /\ base[k] = -1
        BY <2>2
      <3>2. Along({}, w) = -1
        BY Zenon DEF Along
      <3>3. EdgesFrom("hidden", k) = {}
        BY <2>2, EdgesUp
      <3> HIDE DEF ends, base
      <3> QED
        BY <2>2, <3>1, <3>2, <3>3 DEF UpwardStep, WayStep
    <2>3. CASE k # h /\ Parent(k) # 0
      <3>1. k \notin ends
        BY <2>3
      <3>2. PICK e : EdgesFrom("hidden", k) = {e} /\ e.to = Parent(k) /\ e.ns = UpNs[k]
        BY <2>3, EdgesUp
      <3>3. Along({e}, w) = IF w[e.to] < 0 THEN -1 ELSE e.ns + w[e.to]
        BY AlongOne
      <3> HIDE DEF ends, base
      <3> QED
        BY <2>3, <3>1, <3>2, <3>3 DEF UpwardStep, WayStep
    <2> QED
      BY <2>1, <2>2, <2>3
  <1> HIDE DEF ends, base
  <1>3. PICK w : IsUpward(Hidden, ends, base, UpNs, TRUE, w)
    BY <1>1, UpwardExists
  <1>4. w = [k \in Hidden |-> WayStep(h, w, k)]
    BY <1>2, <1>3 DEF IsUpward
  <1> QED
    BY <1>4, Zenon DEF Way

\* The way from a node up to a hidden node that contains it is as long as that
\* one is high.
LEMMA WayHalf ==
  ASSUME Inferred, Drawn, Regular, NEW half, Halves(half),
         NEW h \in Hidden, NoTierSkipped(h), NEW a \in hidden[h].members
  PROVE  WayUp(a, h) = half[h] /\ half[h] \in Nat
  <1>1. half[h] \in Nat /\ a \in Leaves
    BY HiddenFacts DEF Halves
  <1>2. \A b \in Leaves : Attached(b) # 0
    BY EdgeOfNode
  <1>3. PICK w : w = Way(h)
    OBVIOUS
  <1>4. \A k \in Hidden : w[k] = WayStep(h, w, k)
    <2>1. w = [k \in Hidden |-> WayStep(h, w, k)]
      BY <1>3, WayExists
    <2> QED
      BY <2>1
  <1>5. w[h] = 0
    BY <1>4 DEF WayStep
  <1>6. ASSUME NEW k \in Hidden, k # h, hidden[k].members \subseteq hidden[h].members,
               ~(w[Parent(k)] < 0)
        PROVE  w[k] = (half[Parent(k)] - half[k]) + w[Parent(k)]
    <2>1. Parent(k) # 0
      BY <1>6 DEF NoTierSkipped
    <2>2. NoTierSkipped(k)
      BY <1>6, NoTierSkippedWithin
    <2>3. UpNs[k] = half[Parent(k)] - half[k]
      BY <1>2, <2>1, <2>2, Rises
    <2>4. PICK e : EdgesFrom("hidden", k) = {e} /\ e.to = Parent(k) /\ e.ns = UpNs[k]
      BY <2>1, EdgesUp
    <2>5. Along({e}, w) = IF w[e.to] < 0 THEN -1 ELSE e.ns + w[e.to]
      BY AlongOne
    <2>6. w[k] = Along(EdgesFrom("hidden", k), w)
      BY <1>4, <1>6 DEF WayStep
    <2> QED
      BY <1>6, <2>3, <2>4, <2>5, <2>6
  <1>7. \A k \in Hidden : hidden[k].members \subseteq hidden[h].members =>
          half[k] <= half[h] /\ w[k] = half[h] - half[k]
    BY <1>5, <1>6, HeightsAddUp
  <1>8. PICK g : g = Attached(a)
    OBVIOUS
  <1>9. /\ g \in Hidden /\ a \in hidden[g].members /\ hidden[g].tier <= hidden[h].tier
        /\ AttachedNs(a) = half[g] /\ half[g] \in Nat
    BY <1>1, <1>2, <1>8, AttachedHalf
  <1>10. hidden[g].members \subseteq hidden[h].members
    BY <1>9, HiddenNest
  <1>11. half[g] <= half[h] /\ w[g] = half[h] - half[g]
    BY <1>7, <1>9, <1>10
  <1>12. PICK e : EdgesFrom("node", a) = {e} /\ e.to = g /\ e.ns = half[g]
    BY <1>1, <1>8, <1>9, EdgeOfNode
  <1>13. WayUp(a, h) = Along(EdgesFrom("node", a), w)
    <2>1. WayUp(a, h) = Along(EdgesFrom("node", a), Way(h))
      BY Zenon DEF WayUp, Along, EdgesFrom, Way, WayStep
    <2> QED
      BY <1>3, <2>1
  <1>14. Along({e}, w) = IF w[e.to] < 0 THEN -1 ELSE e.ns + w[e.to]
    BY AlongOne
  <1>15. WayUp(a, h) = half[g] + w[g]
    BY <1>1, <1>9, <1>11, <1>12, <1>13, <1>14
  <1> QED
    BY <1>1, <1>9, <1>11, <1>15

LEMMA WaysExplain ==
  ASSUME Inferred, Drawn, Regular, NEW a \in Leaves, NEW b \in Leaves, NEW h, h = Join(a, b),
         a # b, h # 0, NoTierSkipped(h)
  PROVE  /\ WayUp(a, h) >= 0 /\ WayUp(b, h) >= 0
         /\ WayUp(a, h) + WayUp(b, h) = Ns(lat[a][b])
  <1>1. PICK half : Halves(half)
    BY HalvesExist
  <1>2. h \in Hidden /\ a \in hidden[h].members /\ b \in hidden[h].members
    BY JoinWithin
  <1>3. WayUp(a, h) = half[h] /\ WayUp(b, h) = half[h] /\ half[h] \in Nat
    BY <1>1, <1>2, WayHalf
  <1>4. lat[a][b] = (2 * Scale) * half[h]
    BY <1>1 DEF Halves
  <1>5. PICK n : n = half[h]
    OBVIOUS
  <1>6. (2 * Scale) * n = Scale * (2 * n) /\ 2 * n \in Int
    BY <1>3, <1>5, ScaleAssumption
  <1>7. Ns(lat[a][b]) = 2 * n
    BY <1>4, <1>5, <1>6, ExactQuotient, ScaleAssumption DEF Ns
  <1> QED
    BY <1>3, <1>5, <1>7

----------------------------------------------------------------------------
(***************************************************************************)
(* Once drawn the edges stay, and so does what they are drawn from.        *)
(***************************************************************************)
LEMMA SameEdges ==
  ASSUME UNCHANGED <<lat, hidden>>
  PROVE  NodeEdges' = NodeEdges /\ HiddenEdges' = HiddenEdges
  <1>1. lat' = lat /\ hidden' = hidden /\ Hidden' = Hidden
    BY DEF Hidden
  <1>2. \A h : Parent(h)' = Parent(h)
    BY <1>1 DEF Parent
  <1>3. \A a : Attached(a)' = Attached(a)
    BY <1>1 DEF Attached
  <1>4. \A a : AttachedNs(a)' = AttachedNs(a)
    BY <1>1, <1>3 DEF AttachedNs, Ns
  <1>5. \A h : Sample(h)' = Sample(h) /\ Across(h)' = Across(h) /\ AcrossTotal(h)' = AcrossTotal(h)
    BY <1>1, <1>2 DEF Sample, Across, AcrossTotal
  <1>6. \A up, h, c, k : ClimbStep(up, h, c, k)' = ClimbStep(up, h, c, k)
    BY <1>1, <1>2 DEF ClimbStep, AtTop
  <1>7. \A up, h : Climb(up, h)' = Climb(up, h)
    BY <1>1, <1>6, Zenon DEF Climb
  <1>8. \A up, h : UpStep(up, h)' = UpStep(up, h)
    BY <1>2, <1>3, <1>4, <1>5, <1>7, Zenon DEF UpStep, Rest, WayTo
  <1>9. UpNs' = UpNs
    <2>1. UpNs = CHOOSE up : up = [h \in Hidden |-> UpStep(up, h)]
      BY UpNsIs
    <2>2. UpNs' = CHOOSE up : up = [h \in Hidden' |-> UpStep(up, h)']
      BY Zenon DEF UpNs, UpStep, Rest, WayTo, Sample, AcrossTotal, Across, Climb, ClimbStep, AtTop
    <2>3. \A up : [h \in Hidden' |-> UpStep(up, h)'] = [h \in Hidden |-> UpStep(up, h)]
      BY <1>1, <1>8
    <2> QED
      BY <2>1, <2>2, <2>3, Zenon
  <1> QED
    BY <1>1, <1>2, <1>3, <1>4, <1>9 DEF NodeEdges, HiddenEdges

LEMMA DrawnKept ==
  ASSUME [Next]_vars, phase = "done" => Drawn
  PROVE  (phase = "done" => Drawn)'
  <1>1. CASE ConstructEdges
    <2>1. edges' = NodeEdges \cup HiddenEdges
      BY <1>1, Zenon DEF ConstructEdges, NodeEdges, HiddenEdges
    <2>2. UNCHANGED <<lat, hidden>>
      BY <1>1 DEF ConstructEdges, dvars
    <2>3. NodeEdges' = NodeEdges /\ HiddenEdges' = HiddenEdges
      BY <2>2, SameEdges
    <2> QED
      BY <2>1, <2>3 DEF Drawn
  <1>2. CASE BuildDendrogram
    BY <1>2 DEF BuildDendrogram, tvars
  <1>3. CASE AssignTiers
    BY <1>3 DEF AssignTiers
  <1>4. CASE InferHiddenNodes
    BY <1>4 DEF InferHiddenNodes
  <1>5. CASE Finished \/ UNCHANGED vars
    <2>1. UNCHANGED <<lat, hidden, edges, phase>>
      BY <1>5 DEF Finished, vars, dvars, tvars
    <2>2. NodeEdges' = NodeEdges /\ HiddenEdges' = HiddenEdges
      BY <2>1, SameEdges
    <2> QED
      BY <2>1, <2>2 DEF Drawn
  <1> QED
    BY <1>1, <1>2, <1>3, <1>4, <1>5 DEF Next

\* The edges are right at the end.
LEMMA EdgesAreDrawn == Spec => [](phase = "done" => Drawn)
  <1>1. Init => (phase = "done" => Drawn)
    BY DEF Init
  <1>2. (phase = "done" => Drawn) /\ [Next]_vars => (phase = "done" => Drawn)'
    BY DrawnKept
  <1> QED
    BY <1>1, <1>2, PTL DEF Spec

\* In a regular network the latencies of the edges add up to those measured, for
\* any number of nodes, any thresholds and all three linkages: where no cluster
\* lasts over a tier, halving, rounding and subtracting the way below lose nothing.
THEOREM EdgesAddUp == Spec => []EdgesExplainLatencies
  <1>1. ASSUME TInv, SInv, PInv, phase = "done" => Drawn
        PROVE  EdgesExplainLatencies
    <2> SUFFICES ASSUME phase = "done", Regular, NEW a \in Leaves, NEW b \in Leaves
                 PROVE  LET h == Join(a, b)
                        IN  a # b /\ h # 0 /\ NoTierSkipped(h) =>
                              /\ WayUp(a, h) >= 0 /\ WayUp(b, h) >= 0
                              /\ WayUp(a, h) + WayUp(b, h) = Ns(lat[a][b])
      BY Zenon DEF EdgesExplainLatencies
    <2>1. Inferred /\ Drawn
      BY <1>1 DEF Inferred, PInv
    <2> QED
      BY <2>1, WaysExplain
  <1> QED
    BY <1>1, SpreadInductive, PhasesInductive, EdgesAreDrawn, PTL
=============================================================================
