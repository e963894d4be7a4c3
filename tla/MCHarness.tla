----------------------------- MODULE MCHarness -----------------------------
(***************************************************************************)
(* Instances of Harness for TLC.                                           *)
(***************************************************************************)
EXTENDS HarnessInv

\* Two racks, which may share agents or lack them.
TwoRacks(rack1, intra1, rack2, intra2, between, spread) ==
  [tiers |-> <<[agents |-> rack1, latency |-> intra1], [agents |-> rack2, latency |-> intra2]>>,
   inter |-> between, jitter |-> spread, default |-> 1000]

MCCluster == TwoRacks({0, 1}, 100, {}, 100, 5000, 0)

MCConfigs == {MCCluster}

MCTests ==
  {[iterations |-> i, warmup |-> w, bandwidth |-> b, windows |-> 100] :
     i \in {100, 6000}, w \in {10}, b \in BOOLEAN}

MCUnread == [iterations |-> 100, warmup |-> 10, bandwidth |-> TRUE, windows |-> 100]
=============================================================================
