----------------------------- MODULE Dendrogram -----------------------------
(***************************************************************************)
(* Dendrogram::build, one merge per step, and cut_at_threshold.            *)
(*                                                                         *)
(* A cluster is known by the number of one of its leaves, its slot in the  *)
(* distance matrix; merging i and j (i < j) reuses slot i and retires j.   *)
(* Distances are whole numbers in units small enough for the averages of   *)
(* the instance to be whole; rounding of doubles is left out.              *)
(***************************************************************************)
EXTENDS Integers, Sequences, FiniteSets

CONSTANTS
  N,          \* number of leaves
  Distances,  \* the values a distance may have
  Linkages    \* the linkage types looked at

Leaves == 0 .. N - 1

ASSUME NAssumption == N \in Nat \ {0}
ASSUME DistancesAssumption == Distances \subseteq Nat
ASSUME LinkagesAssumption == Linkages \subseteq {"SINGLE", "COMPLETE", "AVERAGE"}

VARIABLES
  lat,      \* LatencyMatrix::distance
  linkage,  \* config_.linkage
  nodes,    \* nodes_ (leaf i is nodes[i + 1]; a child is an index, 0 if none)
  dist,     \* dist_matrix; the code's infinite diagonal is never read
  node,     \* cluster_node_index
  active

dvars == <<lat, linkage, nodes, dist, node, active>>

\* symmetrize makes both halves of the matrix equal, and distance averages
\* them once more; the diagonal is zero.
LeafPairs == {p \in Leaves \X Leaves : p[1] < p[2]}
Symmetric ==
  {[i \in Leaves |-> [j \in Leaves |->
      IF i < j THEN d[<<i, j>>] ELSE IF j < i THEN d[<<j, i>>] ELSE 0]] :
     d \in [LeafPairs -> Distances]}

LeafNode(i) == [left |-> 0, right |-> 0, merge |-> 0, members |-> {i}]

DInit ==
  /\ lat \in Symmetric /\ linkage \in Linkages
  /\ nodes = [k \in 1 .. N |-> LeafNode(k - 1)]
  /\ dist = lat
  /\ node = [i \in Leaves |-> i + 1]
  /\ active = Leaves

----------------------------------------------------------------------------
Candidates == {p \in active \X active : p[1] < p[2]}

\* Faulty variant: only the row of the first cluster is searched.
ClosestInFirstRow(i, j) ==
  \A q \in Candidates :
    i <= q[1] /\ (i = q[1] => dist[i][j] <= dist[q[1]][q[2]])

\* The double loop keeps the first of the pairs with the least distance.
Closest(i, j) ==
  \A q \in Candidates :
    \/ dist[i][j] < dist[q[1]][q[2]]
    \/ dist[i][j] = dist[q[1]][q[2]] /\ (i < q[1] \/ (i = q[1] /\ j <= q[2]))

Members(i) == nodes[node[i]].members
Size(i) == Cardinality(Members(i))

\* Faulty variant: the average of the two clusters does not weigh them.
LinkedUnweighted(i, j, k) ==
  LET a == dist[i][k]
      b == dist[j][k]
  IN  CASE linkage = "SINGLE"   -> IF a < b THEN a ELSE b
        [] linkage = "COMPLETE" -> IF a < b THEN b ELSE a
        [] linkage = "AVERAGE"  -> (a + b) \div 2

\* The distance of cluster k to i and j merged.
Linked(i, j, k) ==
  LET a == dist[i][k]
      b == dist[j][k]
  IN  CASE linkage = "SINGLE"   -> IF a < b THEN a ELSE b
        [] linkage = "COMPLETE" -> IF a < b THEN b ELSE a
        [] linkage = "AVERAGE"  -> (a * Size(i) + b * Size(j)) \div (Size(i) + Size(j))

\* Faulty variant: the column is forgotten.
UpdatedOneWay(i, j) ==
  [x \in Leaves |-> [y \in Leaves |->
     IF x = i /\ y \in active \ {i, j} THEN Linked(i, j, y) ELSE dist[x][y]]]

\* Row and column i get the new distances.
Updated(i, j) ==
  [x \in Leaves |-> [y \in Leaves |->
     IF x = i /\ y \in active \ {i, j} THEN Linked(i, j, y)
     ELSE IF y = i /\ x \in active \ {i, j} THEN Linked(i, j, x)
     ELSE dist[x][y]]]

Merge == \E i, j \in active :
  /\ i < j /\ Closest(i, j)
  /\ nodes' = Append(nodes, [left |-> node[i], right |-> node[j],
                             merge |-> dist[i][j],
                             members |-> Members(i) \cup Members(j)])
  /\ dist' = Updated(i, j)
  /\ active' = active \ {j}
  /\ node' = [node EXCEPT ![i] = Len(nodes) + 1]
  /\ UNCHANGED <<lat, linkage>>

Built == Cardinality(active) = 1

----------------------------------------------------------------------------
\* Faulty variant: a merge at the threshold itself is cut.
CutBelow(t) ==
  LET collect[k \in 1 .. Len(nodes)] ==
        IF nodes[k].left = 0 \/ nodes[k].merge < t THEN <<nodes[k].members>>
        ELSE collect[nodes[k].left] \o collect[nodes[k].right]
  IN  collect[Len(nodes)]

\* cut_at_threshold: depth first from the root, down through the merges beyond
\* the threshold.
Cut(t) ==
  LET collect[k \in 1 .. Len(nodes)] ==
        IF nodes[k].left = 0 \/ nodes[k].merge <= t THEN <<nodes[k].members>>
        ELSE collect[nodes[k].left] \o collect[nodes[k].right]
  IN  collect[Len(nodes)]

max_distance == nodes[Len(nodes)].merge

----------------------------------------------------------------------------
(***************************************************************************)
(* Properties.                                                             *)
(***************************************************************************)
Clustering == {Members(i) : i \in active}

\* build clusters as the textbook does: every merge joins two closest
\* clusters, although the code never looks at the original distances again.
TheClustering == INSTANCE Agglomeration WITH
  parts  <- Clustering,
  height <- max_distance
KeepsAgglomeration == TheClustering!ASpec

\* The updated matrix holds what the linkage's definition says of the original
\* distances, for every pair of active clusters and in both halves.
LinkageDistances ==
  \A i, j \in active :
    i # j => dist[i][j] = TheClustering!Link(Members(i), Members(j))

\* The merges get higher and higher, for all three linkages: cut_at_threshold,
\* which never looks below a merge within the threshold, relies on it.
HeightsGrow == [][max_distance <= max_distance']_nodes

\* A cut separates what the linkage separates: different clusters are further
\* apart than the threshold; with single linkage no cluster falls into two parts
\* that are, and with complete linkage all pairs in a cluster are within it.
CutIsSound(t) ==
  LET parts == {Cut(t)[k] : k \in DOMAIN Cut(t)}
  IN  /\ UNION parts = Leaves
      /\ \A A, B \in parts :
           A # B => A \cap B = {} /\ TheClustering!Link(A, B) > t
      /\ \A A \in parts :
           /\ linkage = "SINGLE" =>
                \A S \in (SUBSET A) \ {{}, A} : TheClustering!Link(S, A \ S) <= t
           /\ linkage = "COMPLETE" => \A a, b \in A : lat[a][b] <= t

CutsAreSound == Built => \A t \in Distances : CutIsSound(t)
=============================================================================
