----------------------------- MODULE MCTopology -----------------------------
(***************************************************************************)
(* Instances of Topology for TLC: distances are multiples of 12 units, so  *)
(* that averages over up to four pairs are whole numbers.                  *)
(***************************************************************************)
EXTENDS Topology

FourDistances  == {0, 48, 72, 96}
TwoThresholds  == <<48, 72>>
=============================================================================
