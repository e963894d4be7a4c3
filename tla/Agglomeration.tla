---------------------------- MODULE Agglomeration ----------------------------
(***************************************************************************)
(* Hierarchical clustering as a textbook has it: the clusters form a       *)
(* partition of the nodes, and of all pairs of clusters one that is        *)
(* closest, by the linkage's own definition on the original distances, is  *)
(* merged.                                                                 *)
(***************************************************************************)
EXTENDS Integers, FiniteSets, FiniteSetsExt

CONSTANT Leaves   \* the nodes

VARIABLES
  lat,      \* the distances between nodes
  linkage,  \* SINGLE, COMPLETE or AVERAGE
  parts,    \* the clusters
  height    \* the distance of the latest merge

agvars == <<lat, linkage, parts, height>>

Pairs(A, B) == {lat[a][b] : a \in A, b \in B}

\* The distance of two clusters; averages are assumed to come out even.
Link(A, B) ==
  CASE linkage = "SINGLE"   -> Min(Pairs(A, B))
    [] linkage = "COMPLETE" -> Max(Pairs(A, B))
    [] linkage = "AVERAGE"  ->
         MapThenSumSet(LAMBDA p : lat[p[1]][p[2]], A \X B)
           \div (Cardinality(A) * Cardinality(B))

AInit == parts = {{a} : a \in Leaves} /\ height = 0

AMerge ==
  \E A, B \in parts :
    /\ A # B
    /\ \A C, D \in parts : C # D => Link(A, B) <= Link(C, D)
    /\ parts' = (parts \ {A, B}) \cup {A \cup B}
    /\ height' = Link(A, B)
    /\ UNCHANGED <<lat, linkage>>

ASpec == AInit /\ [][AMerge]_agvars
=============================================================================
