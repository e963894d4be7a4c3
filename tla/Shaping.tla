------------------------------ MODULE Shaping ------------------------------
(***************************************************************************)
(* What the simulation harness does with numbers: the delays it gives to   *)
(* the traffic between two agents, the threshold it derives from them for  *)
(* the topology, and its estimate of whether the tests fit into the        *)
(* agents' timeouts.  Times are in microseconds.                           *)
(*                                                                         *)
(* A configuration has a sequence of tiers (a set of agents and their      *)
(* latency), the latency and jitter between tiers, and a default.          *)
(***************************************************************************)
EXTENDS Integers, Sequences

CONSTANTS
  N,               \* num_agents
  Configs,         \* configurations of the shaping
  TestConfigs,     \* parameters of the tests
  UnreadTests,     \* the parameters assumed for a file that cannot be read
  W,               \* number of values of a uint32_t
  PingPongLimit,   \* PING_PONG_TIMEOUT_SEC
  BandwidthLimit   \* BANDWIDTH_TIMEOUT_SEC

Agents == 0 .. N - 1

Tier   == [agents : SUBSET Nat, latency : Nat]
Config == [tiers : Seq(Tier), inter : Nat, jitter : Nat, default : Nat]
Tests  == [iterations : Nat, warmup : Nat, bandwidth : BOOLEAN, windows : Nat]

ASSUME NumbersAssumption == N \in Nat /\ W \in Nat \ {0} /\ PingPongLimit \in Nat
ASSUME ConfigsAssumption == \A c \in Configs : c \in Config
ASSUME TestsAssumption   == UnreadTests \in Tests /\ \A t \in TestConfigs : t \in Tests

----------------------------------------------------------------------------
\* get_tier_index, with 0 for no tier: the first tier that lists the agent.
TierIndex(c, a) ==
  IF \E i \in DOMAIN c.tiers : a \in c.tiers[i].agents
    THEN CHOOSE i \in DOMAIN c.tiers :
           a \in c.tiers[i].agents /\ \A j \in 1 .. i - 1 : a \notin c.tiers[j].agents
    ELSE 0

\* Faulty variant: two agents without a tier share one.
SameTierOrNone(c, a, b) == TierIndex(c, a) = TierIndex(c, b)

SameTier(c, a, b) == TierIndex(c, a) > 0 /\ TierIndex(c, a) = TierIndex(c, b)

\* format_latency gives whole milliseconds from one millisecond on.
Formatted(us) == IF us >= 1000 THEN (us \div 1000) * 1000 ELSE us

IntraLatency(c, a) ==
  IF TierIndex(c, a) > 0 THEN c.tiers[TierIndex(c, a)].latency ELSE c.default

\* What netem adds to a packet from a to b when all of build_tc_commands have
\* been executed in a's container: the filter for b chooses the class.
LeastDelay(c, a, b) ==
  IF SameTier(c, a, b) THEN Formatted(IntraLatency(c, a))
  ELSE IF Formatted(c.inter) > Formatted(c.jitter)
         THEN Formatted(c.inter) - Formatted(c.jitter) ELSE 0

MostDelay(c, a, b) ==
  IF SameTier(c, a, b) THEN Formatted(IntraLatency(c, a))
  ELSE Formatted(c.inter) + Formatted(c.jitter)

\* The entry of the latency matrix is the time of a ping and its pong.
LeastRtt(c, a, b) == LeastDelay(c, a, b) + LeastDelay(c, b, a)
MostRtt(c, a, b)  == MostDelay(c, a, b) + MostDelay(c, b, a)

----------------------------------------------------------------------------
\* generate_tier_config: a latency of d microseconds is within the threshold.
\* The threshold is the geometric mean of the latency between tiers and the
\* largest within one; some tier has the largest.
WithinThreshold(c, d) ==
  IF c.inter = 0 THEN d <= 1000
  ELSE IF \E i \in DOMAIN c.tiers : c.tiers[i].latency > 0
         THEN \E i \in DOMAIN c.tiers : d * d <= c.tiers[i].latency * c.inter
         ELSE 2 * d <= c.inter

\* Tiers far enough apart: the matrix holds round trips, the threshold is made
\* of one-way latencies, which takes a factor of two twice.
Separable(c) ==
  /\ c.inter > 0
  /\ 4 * c.jitter <= c.inter
  /\ \A i \in DOMAIN c.tiers : 4 * c.tiers[i].latency <= c.inter

----------------------------------------------------------------------------
U32(x) == x % W

WorstRtt(c) == U32(2 * U32(c.inter + c.jitter))

\* Faulty variant: the warm-up is for free.
TimedRounds(t) == U32(t.iterations)

Rounds(t) == U32(t.iterations + t.warmup)

PingPongFits(c, t) == U32(Rounds(t) * WorstRtt(c)) <= PingPongLimit

BandwidthFits(c, t) ==
  t.bandwidth => U32(U32(2 * t.windows) * WorstRtt(c)) <= BandwidthLimit

\* validate_timeout_config; it looks for the file in ./output, wherever the
\* controller's /output may be, and takes the defaults if there is none.
Accepts(c, t, found) ==
  LET seen == IF found THEN t ELSE UnreadTests
  IN  PingPongFits(c, seen) /\ BandwidthFits(c, seen)

\* No product of the estimate exceeds its word.
Unwrapped(c, t) ==
  /\ t.iterations + t.warmup < W
  /\ 2 * (c.inter + c.jitter) < W
  /\ (t.iterations + t.warmup) * (2 * (c.inter + c.jitter)) < W
=============================================================================
