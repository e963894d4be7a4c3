---------------------------- MODULE MCShapedRun ----------------------------
(***************************************************************************)
(* An instance of ShapedRun for TLC.                                       *)
(***************************************************************************)
EXTENDS ShapedRun

\* Two racks, which may share agents or lack them.
TwoRacks(rack1, intra1, rack2, intra2, between, spread) ==
  [tiers |-> <<[agents |-> rack1, latency |-> intra1], [agents |-> rack2, latency |-> intra2]>>,
   inter |-> between, jitter |-> spread, default |-> 1000]

NoRacks(between) == [tiers |-> <<>>, inter |-> between, jitter |-> 0, default |-> 1000]

\* Latencies on both sides of a millisecond and of the limit of Separable.
MCConfigs ==
  {TwoRacks(r, i, q, j, b, s) : r, q \in SUBSET (0 .. 2), i \in {100, 999, 1250}, j \in {0, 2500},
                                b \in {0, 400, 999, 1999, 5000, 9999}, s \in {0, 99, 1250}}
    \cup {NoRacks(b) : b \in {0, 1, 1000, 5000}}

MCTests ==
  {[iterations |-> i, warmup |-> w, bandwidth |-> b, windows |-> 100] :
     i \in {100, 490, 6900}, w \in {10}, b \in BOOLEAN}

MCUnread == [iterations |-> 100, warmup |-> 10, bandwidth |-> TRUE, windows |-> 100]
=============================================================================
