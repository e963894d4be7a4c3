--------------------------- MODULE ShapingProofs ---------------------------
(***************************************************************************)
(* Proofs about the harness's numbers, for every number of agents, every   *)
(* configuration and every choice of the limits.                           *)
(***************************************************************************)
EXTENDS ShapedRun, WellFoundedInduction, TLAPS

\* The first of several tiers exists.
LEMMA TierIndexType ==
  ASSUME NEW c \in Config, NEW a, TierIndex(c, a) # 0
  PROVE  TierIndex(c, a) \in DOMAIN c.tiers
  <1> DEFINE T == {i \in DOMAIN c.tiers : a \in c.tiers[i].agents}
  <1>1. T # {} /\ T \subseteq Nat /\ c.tiers \in Seq(Tier)
    BY DEF TierIndex, Config
  <1>2. PICK i \in T : \A j \in T : ~(<<j, i>> \in OpToRel(<, Nat))
    <2> HIDE DEF T
    <2> QED
      BY <1>1, NatLessThanWellFounded, WFMin, Zenon
  <1>3. \A j \in T : ~(j < i)
    BY <1>1, <1>2 DEF OpToRel
  <1>4. \A j \in 1 .. i - 1 : j \in DOMAIN c.tiers
    BY <1>1
  <1>5. i \in DOMAIN c.tiers /\ a \in c.tiers[i].agents
          /\ \A j \in 1 .. i - 1 : a \notin c.tiers[j].agents
    BY <1>1, <1>3, <1>4
  <1> QED
    BY <1>5 DEF TierIndex

LEMMA TierLatencyType ==
  ASSUME NEW c \in Config, NEW i \in DOMAIN c.tiers
  PROVE  c.tiers[i].latency \in Nat
  <1>1. c.tiers \in Seq(Tier)
    BY DEF Config
  <1>2. c.tiers[i] \in Tier
    BY <1>1
  <1> QED
    BY <1>2 DEF Tier

LEMMA SameTierSymmetric ==
  ASSUME NEW c \in Config, NEW a, NEW b
  PROVE  SameTier(c, a, b) <=> SameTier(c, b, a)
  <1>1. \A x : TierIndex(c, x) \in Nat
    BY TierIndexType DEF Config
  <1> HIDE DEF TierIndex
  <1> QED
    BY <1>1 DEF SameTier

\* Agents of one tier have the same latency to each other, one of a tier's.
LEMMA SameTierLatency ==
  ASSUME NEW c \in Config, NEW a, NEW b, SameTier(c, a, b)
  PROVE  \E i \in DOMAIN c.tiers :
           /\ IntraLatency(c, a) = c.tiers[i].latency
           /\ IntraLatency(c, b) = c.tiers[i].latency
           /\ c.tiers[i].latency \in Nat
  <1>1. TierIndex(c, a) > 0 /\ TierIndex(c, b) > 0 /\ TierIndex(c, a) = TierIndex(c, b)
    BY DEF SameTier
  <1>2. TierIndex(c, a) \in DOMAIN c.tiers
    BY <1>1, TierIndexType
  <1>3. c.tiers[TierIndex(c, a)].latency \in Nat
    BY <1>2, TierLatencyType
  <1> QED
    BY <1>1, <1>2, <1>3 DEF IntraLatency

----------------------------------------------------------------------------
\* Formatting rounds down, by less than a half.
LEMMA FormattedBounds ==
  ASSUME NEW us \in Nat
  PROVE  Formatted(us) \in Nat /\ Formatted(us) <= us /\ (us > 0 => 2 * Formatted(us) > us)
  BY DEF Formatted

LEMMA SquareWithin ==
  ASSUME NEW d \in Nat, NEW l \in Nat, NEW m \in Nat, d <= 2 * l, 4 * l <= m
  PROVE  d * d <= l * m
  <1>1. d * d <= (2 * l) * (2 * l)
    <2>1. \A x, y \in Nat : x <= y => x * x <= y * y
      OBVIOUS
    <2> QED
      BY <2>1
  <1>2. (2 * l) * (2 * l) = l * (4 * l)
    OBVIOUS
  <1>3. \A x, y, z \in Nat : x <= y => z * x <= z * y
    OBVIOUS
  <1>4. l * (4 * l) <= l * m
    BY <1>3
  <1> QED
    BY <1>1, <1>2, <1>4

LEMMA SquareBeyond ==
  ASSUME NEW d \in Nat, NEW l \in Nat, NEW m \in Nat, 2 * d > m, 4 * l <= m
  PROVE  ~(d * d <= l * m)
  <1>1. (2 * d) * (2 * d) > m * m
    <2>1. \A x, y \in Nat : x > y => x * x > y * y
      OBVIOUS
    <2> QED
      BY <2>1
  <1>2. m * m >= (4 * l) * m
    OBVIOUS
  <1>3. (2 * d) * (2 * d) = 4 * (d * d) /\ (4 * l) * m = 4 * (l * m)
    OBVIOUS
  <1> QED
    BY <1>1, <1>2, <1>3

\* Where tiers are far enough apart, a round trip within a tier is below the
\* threshold, and one between tiers above it.
LEMMA RoundTripsSeparated ==
  ASSUME NEW c \in Configs, Separable(c), NEW a, NEW b
  PROVE  IF SameTier(c, a, b)
           THEN WithinThreshold(c, LeastRtt(c, a, b)) /\ WithinThreshold(c, MostRtt(c, a, b))
           ELSE ~WithinThreshold(c, LeastRtt(c, a, b)) /\ ~WithinThreshold(c, MostRtt(c, a, b))
  <1>1. c \in Config /\ c.inter \in Nat /\ c.jitter \in Nat /\ c.tiers \in Seq(Tier)
    BY ConfigsAssumption DEF Config
  <1>2. \A i \in DOMAIN c.tiers : c.tiers[i].latency \in Nat /\ 4 * c.tiers[i].latency <= c.inter
    BY <1>1, TierLatencyType DEF Separable
  <1>3. c.inter > 0 /\ 4 * c.jitter <= c.inter
    BY DEF Separable
  <1>4. ASSUME SameTier(c, a, b)
        PROVE  WithinThreshold(c, LeastRtt(c, a, b)) /\ WithinThreshold(c, MostRtt(c, a, b))
    <2>1. PICK i \in DOMAIN c.tiers : /\ IntraLatency(c, a) = c.tiers[i].latency
                                      /\ IntraLatency(c, b) = c.tiers[i].latency
      BY <1>1, <1>4, SameTierLatency
    <2>2. MostRtt(c, a, b) = 2 * Formatted(c.tiers[i].latency)
      <3>1. MostDelay(c, a, b) = Formatted(c.tiers[i].latency)
        BY <1>4, <2>1 DEF MostDelay
      <3>2. MostDelay(c, b, a) = Formatted(c.tiers[i].latency)
        BY <1>1, <1>4, <2>1, SameTierSymmetric DEF MostDelay
      <3> QED
        BY <1>2, <3>1, <3>2, FormattedBounds DEF MostRtt
    <2>3. MostRtt(c, a, b) \in Nat /\ MostRtt(c, a, b) <= 2 * c.tiers[i].latency
      BY <1>2, <2>2, FormattedBounds
    <2>4. MostRtt(c, a, b) * MostRtt(c, a, b) <= c.tiers[i].latency * c.inter
      BY <1>1, <1>2, <2>3, SquareWithin
    <2>5. 2 * MostRtt(c, a, b) <= c.inter
      BY <1>1, <1>2, <2>3, SMTT(30)
    <2>6. LeastRtt(c, a, b) = MostRtt(c, a, b)
      BY <1>1, <1>4, SameTierSymmetric DEF LeastRtt, MostRtt, LeastDelay, MostDelay
    <2> QED
      BY <1>3, <2>4, <2>5, <2>6 DEF WithinThreshold
  <1>5. ASSUME ~SameTier(c, a, b)
        PROVE  ~WithinThreshold(c, LeastRtt(c, a, b)) /\ ~WithinThreshold(c, MostRtt(c, a, b))
    <2>1. /\ Formatted(c.inter) \in Nat /\ Formatted(c.jitter) \in Nat
          /\ 2 * Formatted(c.inter) > c.inter /\ Formatted(c.jitter) <= c.jitter
      BY <1>1, <1>3, FormattedBounds
    <2>2. /\ LeastDelay(c, a, b) = Formatted(c.inter) - Formatted(c.jitter)
          /\ MostDelay(c, a, b) = Formatted(c.inter) + Formatted(c.jitter)
      BY <1>1, <1>3, <1>5, <2>1 DEF LeastDelay, MostDelay
    <2>3. /\ LeastDelay(c, b, a) = Formatted(c.inter) - Formatted(c.jitter)
          /\ MostDelay(c, b, a) = Formatted(c.inter) + Formatted(c.jitter)
      BY <1>1, <1>3, <1>5, <2>1, SameTierSymmetric DEF LeastDelay, MostDelay
    <2>4. /\ LeastRtt(c, a, b) \in Nat /\ 2 * LeastRtt(c, a, b) > c.inter
          /\ MostRtt(c, a, b) \in Nat /\ 2 * MostRtt(c, a, b) > c.inter
      <3>1. ASSUME NEW f \in Nat, NEW j \in Nat, 2 * f > c.inter, 4 * j <= c.inter
            PROVE  /\ f - j + (f - j) \in Nat /\ 2 * (f - j + (f - j)) > c.inter
                   /\ f + j + (f + j) \in Nat /\ 2 * (f + j + (f + j)) > c.inter
        BY <1>1, <3>1
      <3>2. 4 * Formatted(c.jitter) <= c.inter
        BY <1>1, <1>3, <2>1
      <3> QED
        BY <2>1, <2>2, <2>3, <3>1, <3>2 DEF LeastRtt, MostRtt
    <2>5. ASSUME NEW d \in Nat, 2 * d > c.inter
          PROVE  ~WithinThreshold(c, d)
      <3>1. \A i \in DOMAIN c.tiers : ~(d * d <= c.tiers[i].latency * c.inter)
        BY <1>1, <1>2, <2>5, SquareBeyond
      <3> QED
        BY <1>1, <1>3, <2>5, <3>1 DEF WithinThreshold
    <2> QED
      BY <2>4, <2>5
  <1> QED
    BY <1>4, <1>5

----------------------------------------------------------------------------
LEMMA NotWrapped ==
  ASSUME NEW x \in Nat, x < W
  PROVE  U32(x) = x
  BY NumbersAssumption DEF U32

LEMMA ProductGrows ==
  ASSUME NEW n \in Nat, NEW x \in Nat, NEW y \in Nat, x <= y
  PROVE  n * x <= n * y
  OBVIOUS

\* Where no product exceeds 32 bits, tests that were accepted fit.
LEMMA RoundTripsFit ==
  ASSUME NEW c \in Configs, NEW t \in TestConfigs, NEW a, NEW b,
         Accepts(c, t, TRUE), Unwrapped(c, t),
         \A i \in DOMAIN c.tiers : c.tiers[i].latency <= c.inter
  PROVE  /\ (t.iterations + t.warmup) * LeastRtt(c, a, b) <= PingPongLimit
         /\ (t.iterations + t.warmup) * MostRtt(c, a, b) <= PingPongLimit
  <1> DEFINE n == t.iterations + t.warmup
             r == 2 * (c.inter + c.jitter)
  <1>1. c \in Config /\ c.inter \in Nat /\ c.jitter \in Nat
    BY ConfigsAssumption DEF Config
  <1>2. n \in Nat /\ r \in Nat /\ n < W /\ r < W /\ n * r < W /\ c.inter + c.jitter < W
    <2>1. t.iterations \in Nat /\ t.warmup \in Nat
      BY TestsAssumption DEF Tests
    <2>2. n < W /\ r < W /\ n * r < W
      BY DEF Unwrapped
    <2>3. n \in Nat /\ r \in Nat /\ c.inter + c.jitter <= r
      BY <1>1, <2>1
    <2> HIDE DEF n, r
    <2> QED
      BY <1>1, <2>2, <2>3, NumbersAssumption
  <1>3. Rounds(t) = n
    BY <1>2, NotWrapped DEF Rounds
  <1>4. WorstRtt(c) = r
    BY <1>1, <1>2, NotWrapped DEF WorstRtt
  <1>5. n * r <= PingPongLimit
    <2>1. n * r \in Nat
      BY <1>2
    <2>2. U32(n * r) = n * r
      BY <1>2, <2>1, NotWrapped
    <2> QED
      BY <1>3, <1>4, <2>2 DEF Accepts, PingPongFits
  <1>6. /\ Formatted(c.inter) \in Nat /\ Formatted(c.jitter) \in Nat
        /\ Formatted(c.inter) <= c.inter /\ Formatted(c.jitter) <= c.jitter
    BY <1>1, FormattedBounds
  <1>7. ASSUME NEW x, NEW y
        PROVE  MostDelay(c, x, y) \in Nat /\ MostDelay(c, x, y) <= c.inter + c.jitter
    <2>1. CASE SameTier(c, x, y)
      <3>1. PICK i \in DOMAIN c.tiers :
              IntraLatency(c, x) = c.tiers[i].latency /\ c.tiers[i].latency \in Nat
        BY <1>1, <2>1, SameTierLatency
      <3>2. MostDelay(c, x, y) = Formatted(c.tiers[i].latency)
        BY <2>1, <3>1 DEF MostDelay
      <3> QED
        BY <1>1, <3>1, <3>2, FormattedBounds
    <2>2. CASE ~SameTier(c, x, y)
      BY <1>1, <1>6, <2>2 DEF MostDelay
    <2> QED
      BY <2>1, <2>2
  <1>8. ASSUME NEW x, NEW y
        PROVE  LeastDelay(c, x, y) \in Nat /\ LeastDelay(c, x, y) <= MostDelay(c, x, y)
    <2>1. CASE SameTier(c, x, y)
      BY <1>7, <2>1 DEF LeastDelay, MostDelay
    <2>2. CASE ~SameTier(c, x, y)
      BY <1>6, <2>2 DEF LeastDelay, MostDelay
    <2> QED
      BY <2>1, <2>2
  <1>9. /\ MostRtt(c, a, b) \in Nat /\ MostRtt(c, a, b) <= r
        /\ LeastRtt(c, a, b) \in Nat /\ LeastRtt(c, a, b) <= r
    BY <1>1, <1>7, <1>8 DEF MostRtt, LeastRtt
  <1>10. ASSUME NEW d \in Nat, d <= r
         PROVE  n * d <= PingPongLimit
    <2>1. n * d <= n * r /\ n * d \in Nat /\ n * r \in Nat
      BY <1>2, <1>10, ProductGrows
    <2> QED
      BY <1>5, <2>1, NumbersAssumption
  <1> QED
    BY <1>9, <1>10

----------------------------------------------------------------------------
\* RunInv holds of every run: tests follow upon an accepted estimate only, and
\* the matrix keeps to the bounds of the rules.
THEOREM RunInvariant == Spec => []RunInv
  <1>1. Init => RunInv
    BY DEF Init, RunInv
  <1>2. RunInv /\ [Next]_vars => RunInv'
    <2> SUFFICES ASSUME RunInv, [Next]_vars
                 PROVE  RunInv'
      OBVIOUS
    <2>1. CASE Validate
      BY <2>1 DEF RunInv, Validate
    <2>2. CASE Measure
      BY <2>2 DEF RunInv, Measure
    <2>3. CASE Generate
      BY <2>3 DEF RunInv, Generate
    <2>4. CASE UNCHANGED vars
      BY <2>4 DEF RunInv, vars
    <2> QED
      BY <2>1, <2>2, <2>3, <2>4 DEF Next, Over
  <1> QED
    BY <1>1, <1>2, PTL DEF Spec

\* The generated threshold finds the tiers of every separable configuration.
THEOREM TiersAreSeparated == Spec => []TiersSeparated
  <1>1. RunInv => TiersSeparated
    <2> SUFFICES ASSUME RunInv, phase = "collected", Separable(config), NEW p \in Pairs
                 PROVE  WithinThreshold(config, rtt[p]) <=> SameTier(config, p[1], p[2])
      BY DEF TiersSeparated
    <2>1. /\ config \in Configs
          /\ rtt[p] \in {LeastRtt(config, p[1], p[2]), MostRtt(config, p[1], p[2])}
      BY DEF RunInv
    <2> QED
      BY <2>1, RoundTripsSeparated
  <1> QED
    BY <1>1, RunInvariant, PTL

\* Where nothing wraps and its file was looked at, an accepted test fits.
THEOREM AcceptedTestsFit == Spec => []AcceptedFits
  <1>1. RunInv => AcceptedFits
    <2> SUFFICES ASSUME RunInv, phase \in {"measured", "collected"}, found,
                        Unwrapped(config, test),
                        \A i \in DOMAIN config.tiers : config.tiers[i].latency <= config.inter,
                        NEW p \in Pairs
                 PROVE  (test.iterations + test.warmup) * rtt[p] <= PingPongLimit
      BY DEF AcceptedFits
    <2>1. /\ config \in Configs /\ test \in TestConfigs
          /\ Accepts(config, test, TRUE)
          /\ rtt[p] \in {LeastRtt(config, p[1], p[2]), MostRtt(config, p[1], p[2])}
      BY DEF RunInv, Accepts
    <2> QED
      BY <2>1, RoundTripsFit
  <1> QED
    BY <1>1, RunInvariant, PTL
=============================================================================
