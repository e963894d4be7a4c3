----------------------------- MODULE ShapedRun -----------------------------
(***************************************************************************)
(* One run of a shaped cluster, as far as numbers go: up validates the     *)
(* timeouts, the tests measure what the shaping adds, and collect derives  *)
(* a threshold with which the tiers are to be found in the measurements.   *)
(***************************************************************************)
EXTENDS Shaping

VARIABLES
  config,  \* the shaping in cluster.json
  test,    \* the parameters the controller will read
  found,   \* whether up has read them from the same file
  phase,   \* how far the run has come
  rtt      \* the latency matrix: a round trip for every pair

vars == <<config, test, found, phase, rtt>>

Pairs == {p \in Agents \X Agents : p[1] < p[2]}

Init ==
  /\ config \in Configs /\ test \in TestConfigs /\ found \in BOOLEAN
  /\ phase = "up"
  /\ rtt = [p \in Pairs |-> 0]

\* validate_timeout_config, in up
Validate ==
  /\ phase = "up"
  /\ phase' = IF Accepts(config, test, found) THEN "tests" ELSE "refused"
  /\ UNCHANGED <<config, test, found, rtt>>

\* The jitter netem adds falls either way on every pair.
Measure ==
  /\ phase = "tests"
  /\ \E late \in SUBSET Pairs :
       rtt' = [p \in Pairs |-> IF p \in late THEN MostRtt(config, p[1], p[2])
                                             ELSE LeastRtt(config, p[1], p[2])]
  /\ phase' = "measured"
  /\ UNCHANGED <<config, test, found>>

\* generate_tier_config, in collect: with this the topology is built.
Generate ==
  /\ phase = "measured"
  /\ phase' = "collected"
  /\ UNCHANGED <<config, test, found, rtt>>

Over == phase \in {"refused", "collected"} /\ UNCHANGED vars

Next == Validate \/ Measure \/ Generate \/ Over

Spec == Init /\ [][Next]_vars

----------------------------------------------------------------------------
(***************************************************************************)
(* Properties.                                                             *)
(***************************************************************************)

\* With the generated threshold every pair is found on its side: within it if
\* both agents are of one tier, beyond it otherwise, agents without a tier being
\* alone; wherever latencies are rounded and however the jitter falls.
TiersSeparated ==
  phase = "collected" /\ Separable(config) =>
    \A p \in Pairs : WithinThreshold(config, rtt[p]) <=> SameTier(config, p[1], p[2])

\* A ping-pong test that validate_timeout_config let pass takes no longer than
\* the limit on any pair, if its file was the one that was looked at, no product
\* exceeds 32 bits, and no tier is slower than what lies between the tiers.
AcceptedFits ==
  /\ phase \in {"measured", "collected"}
  /\ found
  /\ Unwrapped(config, test)
  /\ \A i \in DOMAIN config.tiers : config.tiers[i].latency <= config.inter
  => \A p \in Pairs : (test.iterations + test.warmup) * rtt[p] <= PingPongLimit

\* What is known when: no test without an accepted estimate, and every entry of
\* the matrix within the bounds of the rules.  The proofs rest on it.
RunInv ==
  /\ config \in Configs /\ test \in TestConfigs /\ found \in BOOLEAN
  /\ phase \in {"up", "refused", "tests", "measured", "collected"}
  /\ phase \in {"tests", "measured", "collected"} => Accepts(config, test, found)
  /\ phase \in {"measured", "collected"} =>
       \A p \in Pairs : rtt[p] \in {LeastRtt(config, p[1], p[2]), MostRtt(config, p[1], p[2])}
=============================================================================
