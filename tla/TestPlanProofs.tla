--------------------------- MODULE TestPlanProofs ---------------------------
(***************************************************************************)
(* For every configuration and every size of the buffer: the windows of    *)
(* the bandwidth tests fit the agents' buffers, the commands are those of  *)
(* the plan, each as often as planned, and the two matrices show what was  *)
(* stored.                                                                 *)
(***************************************************************************)
EXTENDS TestPlan, Induction

Command == [kind : {"ping", "sweep", "bandwidth"}, from : Int, to : Int,
            size : Nat, window : Nat]

\* The commands are well formed, the loops keep to their turns, windows fit.
PlanInv ==
  /\ config \in Configs
  /\ left \subseteq Turns(phase)
  /\ commands \in Seq(Command)
  /\ WindowsFit

\* The quotient is the largest window that fits.
LEMMA LargestWindow ==
  ASSUME NEW room \in Nat, NEW size \in Nat \ {0}
  PROVE  /\ room \div size \in Nat
         /\ (room \div size) * size <= room
         /\ \A w \in Nat : w > room \div size => w * size > room
  OBVIOUS

\* The agents' numbers and the sizes are numbers.
LEMMA ConfigFacts ==
  ASSUME config \in Configs
  PROVE  /\ config.num_agents \in Nat /\ config.message_size \in Nat
         /\ config.bw_window_size \in Nat
         /\ \A k \in DOMAIN config.latency_message_sizes : config.latency_message_sizes[k] \in Nat
         /\ \A k \in DOMAIN config.bw_message_sizes : config.bw_message_sizes[k] \in Nat
         /\ Agents \subseteq Int /\ InboxOffset \in Nat
  BY ConfigsAssumption, LimitsAssumption, SMTT(30) DEF Agents

\* A turn names two agents, and a size of the list its phase goes through.
LEMMA TurnFacts ==
  ASSUME config \in Configs, NEW t \in Turns(phase)
  PROVE  /\ t[1] \in Int /\ t[2] \in Int
         /\ phase = "sweep" => t[3] \in DOMAIN config.latency_message_sizes
         /\ phase = "bandwidth" => t[3] \in DOMAIN config.bw_message_sizes
  <1> USE ConfigFacts
  <1>1. CASE phase = "latency"
    BY <1>1 DEF Turns, PingPairs
  <1>2. CASE phase = "sweep"
    BY <1>2 DEF Turns, PingPairs
  <1>3. CASE phase = "bandwidth"
    BY <1>3 DEF Turns, BandwidthPairs
  <1>4. CASE phase \notin {"latency", "sweep", "bandwidth"}
    BY <1>4 DEF Turns
  <1> QED
    BY <1>1, <1>2, <1>3, <1>4

\* One more command that is well formed and fits.
LEMMA OneMore ==
  ASSUME PlanInv, NEW c \in Command, commands' = Append(commands, c),
         config' = config, Fitting(c)
  PROVE  (commands \in Seq(Command) /\ WindowsFit)'
  <1>1. commands' \in Seq(Command)
    BY DEF PlanInv
  <1>2. \A d : Fitting(d)' <=> Fitting(d)
    BY DEF Fitting, AgentTakes
  <1>3. ASSUME NEW k \in DOMAIN commands'
        PROVE  Fitting(commands'[k])
    BY <1>3 DEF PlanInv, WindowsFit
  <1> QED
    BY <1>1, <1>2, <1>3 DEF WindowsFit

\* The window of a size that is not skipped fits, and is the largest that does.
LEMMA EffectiveFits ==
  ASSUME config \in Configs, NEW s \in Nat, ~TooLarge(s), NEW a \in Int, NEW b \in Int
  PROVE  LET c == [kind |-> "bandwidth", from |-> a, to |-> b,
                   size |-> s, window |-> EffectiveWindow(s)]
         IN  c \in Command /\ Fitting(c)
  <1> DEFINE w == EffectiveWindow(s)
             c == [kind |-> "bandwidth", from |-> a, to |-> b, size |-> s, window |-> w]
  <1> USE ConfigFacts
  <1>1. CASE config.bw_window_size * s > InboxOffset
    <2>1. s \in Nat \ {0}
      BY <1>1
    <2>2. w = InboxOffset \div s
      BY <1>1 DEF EffectiveWindow
    <2>3. /\ w \in Nat /\ w * s <= InboxOffset
          /\ \A v \in Nat : v > w => v * s > InboxOffset
      BY <2>1, <2>2, LargestWindow
    <2>4. c \in Command
      BY <2>3 DEF Command
    <2>5. \A v \in w + 1 .. config.bw_window_size : v * s > InboxOffset
      BY <2>3
    <2>6. Fitting(c)
      BY <2>3, <2>5 DEF Fitting, AgentTakes
    <2> QED
      BY <2>4, <2>6
  <1>2. CASE config.bw_window_size * s <= InboxOffset
    <2>1. w = config.bw_window_size
      BY <1>2 DEF EffectiveWindow
    <2>2. c \in Command
      BY <2>1 DEF Command
    <2>3. Fitting(c)
      BY <1>2, <2>1 DEF Fitting, AgentTakes
    <2> QED
      BY <2>2, <2>3
  <1>3. config.bw_window_size * s \in Int
    OBVIOUS
  <1> QED
    BY <1>1, <1>2, <1>3

\* What the loops leave is a part of their turns.
LEMMA LoopKeepsTurns ==
  ASSUME PlanInv, NEW ph, NEW t \in left, InLoop(ph, t)
  PROVE  (config \in Configs /\ left \subseteq Turns(phase))'
  <1>1. Turns(phase)' = Turns(phase)
    BY DEF InLoop, Turns, PingPairs, BandwidthPairs, Agents
  <1> QED
    BY <1>1 DEF InLoop, PlanInv

\* Without a new command the windows fit as before.
LEMMA SameCommands ==
  ASSUME PlanInv, UNCHANGED <<config, commands>>
  PROVE  (commands \in Seq(Command) /\ WindowsFit)'
  BY DEF PlanInv, WindowsFit, Fitting, AgentTakes

THEOREM PlanInductive == Spec => []PlanInv
  <1>1. Init => PlanInv
    BY DEF Init, PlanInv, WindowsFit
  <1>2. PlanInv /\ [Next]_vars => PlanInv'
    <2> SUFFICES ASSUME PlanInv, [Next]_vars PROVE PlanInv'
      OBVIOUS
    <2> USE ConfigFacts
    <2>0. config \in Configs /\ left \subseteq Turns(phase)
      BY DEF PlanInv
    <2>1. CASE LatencyTest
      <3>1. PICK t \in left : LatencyTest!(t)
        BY <2>1 DEF LatencyTest
      <3> DEFINE c == [kind |-> "ping", from |-> t[1], to |-> t[2],
                       size |-> config.message_size, window |-> 0]
      <3>2. c \in Command /\ Fitting(c)
        BY <2>0, TurnFacts DEF Command, Fitting
      <3>3. InLoop("latency", t) /\ config' = config
        BY <3>1 DEF InLoop
      <3>4. commands' = commands \/ commands' = Append(commands, c)
        BY <3>1
      <3> QED
        BY <3>2, <3>3, <3>4, OneMore, SameCommands, LoopKeepsTurns DEF PlanInv
    <2>2. CASE SweepTest
      <3>1. PICK t \in left : SweepTest!(t)
        BY <2>2 DEF SweepTest
      <3> DEFINE c == [kind |-> "sweep", from |-> t[1], to |-> t[2],
                       size |-> config.latency_message_sizes[t[3]], window |-> 0]
      <3>2. InLoop("sweep", t) /\ config' = config /\ phase = "sweep"
        BY <3>1 DEF InLoop
      <3>3. c \in Command /\ Fitting(c)
        BY <2>0, <3>2, TurnFacts DEF Command, Fitting
      <3>4. commands' = commands \/ commands' = Append(commands, c)
        BY <3>1
      <3> QED
        BY <3>2, <3>3, <3>4, OneMore, SameCommands, LoopKeepsTurns DEF PlanInv
    <2>3. CASE BandwidthTest
      <3>1. PICK t \in left : BandwidthTest!(t)
        BY <2>3 DEF BandwidthTest
      <3> DEFINE s == config.bw_message_sizes[t[3]]
                 c == [kind |-> "bandwidth", from |-> t[1], to |-> t[2],
                       size |-> s, window |-> EffectiveWindow(s)]
      <3>2. InLoop("bandwidth", t) /\ config' = config /\ phase = "bandwidth"
        BY <3>1 DEF InLoop
      <3>3. s \in Nat /\ t[1] \in Int /\ t[2] \in Int
        BY <2>0, <3>2, TurnFacts
      <3>4. CASE TooLarge(s)
        <4>1. commands' = commands
          BY <3>1, <3>4
        <4> QED
          BY <3>2, <4>1, SameCommands, LoopKeepsTurns DEF PlanInv
      <3>5. CASE ~TooLarge(s)
        <4>1. commands' = Append(commands, c)
          BY <3>1, <3>5
        <4>2. c \in Command /\ Fitting(c)
          BY <2>0, <3>3, <3>5, EffectiveFits
        <4> QED
          BY <3>2, <4>1, <4>2, OneMore, LoopKeepsTurns DEF PlanInv
      <3> QED
        BY <3>4, <3>5
    <2>4. CASE UNCHANGED <<config, commands>> /\ left' = Turns(phase')
      <3>1. Turns(phase)' = Turns(phase')
        BY <2>4 DEF Turns, PingPairs, BandwidthPairs, Agents
      <3> QED
        BY <2>0, <2>4, <3>1, SameCommands DEF PlanInv
    <2>5. CASE UNCHANGED <<config, commands, left, phase>>
      <3>1. Turns(phase)' = Turns(phase)
        BY <2>5 DEF Turns, PingPairs, BandwidthPairs, Agents
      <3> QED
        BY <2>0, <2>5, <3>1, SameCommands DEF PlanInv
    <2>6. CASE Begin \/ WriteLatencyMatrix \/ EndSweep \/ WriteBandwidthMatrix
      BY <2>4, <2>6 DEF Begin, WriteLatencyMatrix, EndSweep, WriteBandwidthMatrix,
                        LoopEnds, GoOn
    <2>7. CASE Interrupt \/ Finished \/ UNCHANGED vars
      BY <2>5, <2>7 DEF Interrupt, Finished, vars
    <2> QED
      BY <2>1, <2>2, <2>3, <2>6, <2>7 DEF Next
  <1> QED
    BY <1>1, <1>2, PTL DEF Spec

\* No agent refuses a bandwidth test for its windows, whatever the buffer and
\* the configuration: the controller's cut agrees with the agents' check.
THEOREM AllWindowsFit == Spec => []WindowsFit
  <1>1. PlanInv => WindowsFit
    BY DEF PlanInv
  <1> QED
    BY <1>1, PlanInductive, PTL

----------------------------------------------------------------------------
(***************************************************************************)
(* The count of the tests.  The three loops, seen as one.                  *)
(***************************************************************************)
Loops == {"latency", "sweep", "bandwidth"}
Kind(ph)  == CASE ph = "latency" -> "ping" [] ph = "sweep" -> "sweep" [] OTHER -> "bandwidth"
Sizes(ph) == CASE ph = "latency" -> <<config.message_size>>
               [] ph = "sweep"   -> config.latency_message_sizes
               [] OTHER          -> config.bw_message_sizes
Pairs(ph) == IF ph = "bandwidth" THEN BandwidthPairs ELSE PingPairs
Runs(ph)  == ph = "latency" \/ config.run[ph]
Later(ph) == CASE ph = "latency" -> {"sweep", "bandwidth"} [] ph = "sweep" -> {"bandwidth"} [] OTHER -> {}
Fit(ph, s) == IF ph = "bandwidth" THEN ~TooLarge(s) ELSE s <= MailboxPayload

\* The places of a size in the list of a loop, those that are done, and the
\* commands asked for.
Wanted(ph, s) == {k \in DOMAIN Sizes(ph) : Sizes(ph)[k] = s /\ Fit(ph, s) /\ Runs(ph)}
Gone(ph, a, b, s) == {k \in Wanted(ph, s) : <<a, b, k>> \notin left}
Matches(c, ph, a, b, s) == c.kind = Kind(ph) /\ c.from = a /\ c.to = b /\ c.size = s
AskedIn(cmds, ph, a, b, s) == {k \in DOMAIN cmds : Matches(cmds[k], ph, a, b, s)}

\* Every command was asked for by a loop that has begun.
OfLoop(c, ph) ==
  /\ c.kind = Kind(ph) /\ <<c.from, c.to>> \in Pairs(ph) /\ c.size \in ToSet(Sizes(ph))
  /\ phase = ph \/ phase \in Later(ph) \/ phase = "done"

\* As many commands as turns gone through that fit.
Counted(ph) ==
  \A p \in Pairs(ph) : \A s \in Nat :
    LET asked == Cardinality(AskedIn(commands, ph, p[1], p[2], s))
    IN  /\ asked <= Cardinality(Wanted(ph, s))
        /\ phase = ph => asked = Cardinality(Gone(ph, p[1], p[2], s))
        /\ Over(Later(ph)) => asked = Cardinality(Wanted(ph, s))

CountInv ==
  /\ phase \in {"begin", "done"} \cup Loops
  /\ phase \in Loops => Runs(phase)
  /\ \A k \in DOMAIN commands : \E ph \in Loops : OfLoop(commands[k], ph)
  /\ \A ph \in Loops : Counted(ph)

LEMMA LoopFacts ==
  ASSUME config \in Configs, NEW ph \in Loops
  PROVE  /\ Sizes(ph) \in Seq(Nat) /\ Pairs(ph) \subseteq Agents \X Agents
         /\ \A p \in Pairs(ph) : p = <<p[1], p[2]>> /\ p[1] \in Int /\ p[2] \in Int /\ p[1] # p[2]
         /\ \A s : Wanted(ph, s) \subseteq Nat /\ IsFiniteSet(Wanted(ph, s))
         /\ Turns(ph) = {<<p[1], p[2], k>> : p \in Pairs(ph), k \in DOMAIN Sizes(ph)}
  <1>1. Sizes(ph) \in Seq(Nat)
    BY ConfigsAssumption DEF Sizes, Loops
  <1>2. /\ Pairs(ph) \subseteq Agents \X Agents /\ Agents \subseteq Int
        /\ \A p \in Pairs(ph) : p[1] # p[2]
    BY ConfigFacts DEF Pairs, PingPairs, BandwidthPairs
  <1>3. \A p \in Pairs(ph) : p = <<p[1], p[2]>> /\ p[1] \in Int /\ p[2] \in Int
    BY <1>2
  <1>4. DOMAIN Sizes(ph) = 1 .. Len(Sizes(ph)) /\ Len(Sizes(ph)) \in Nat
    BY <1>1
  <1>5. IsFiniteSet(1 .. Len(Sizes(ph)))
    BY <1>4, FS_Interval
  <1>6. ASSUME NEW s
        PROVE  Wanted(ph, s) \subseteq Nat /\ IsFiniteSet(Wanted(ph, s))
    <2>1. Wanted(ph, s) \subseteq 1 .. Len(Sizes(ph))
      BY <1>4 DEF Wanted
    <2> QED
      BY <1>4, <1>5, <2>1, FS_Subset
  <1>7. Turns(ph) = {<<p[1], p[2], k>> : p \in Pairs(ph), k \in DOMAIN Sizes(ph)}
    <2>1. CASE ph = "latency"
      <3>1. Turns(ph) = {<<p[1], p[2], 1>> : p \in PingPairs} /\ Pairs(ph) = PingPairs
        BY <2>1 DEF Turns, Pairs
      <3>2. DOMAIN Sizes(ph) = {1}
        BY <2>1, <1>4 DEF Sizes
      <3> QED
        BY <3>1, <3>2
    <2>2. CASE ph = "sweep"
      BY <2>2 DEF Turns, Pairs, Sizes
    <2>3. CASE ph = "bandwidth"
      BY <2>3 DEF Turns, Pairs, Sizes
    <2> QED
      BY <2>1, <2>2, <2>3 DEF Loops
  <1> QED
    BY <1>1, <1>2, <1>3, <1>6, <1>7

LEMMA KindsDiffer ==
  ASSUME NEW ph \in Loops, NEW qh \in Loops
  PROVE  /\ Kind(ph) = Kind(qh) => ph = qh
         /\ ph \notin Later(ph) /\ Later(ph) \subseteq Loops
         /\ qh = ph \/ qh \in Later(ph) \/ ph \in Later(qh)
         /\ ~(qh \in Later(ph) /\ ph \in Later(qh))
  BY DEF Loops, Kind, Later

\* One command more is one place more for what it matches.
LEMMA OneCommandMore ==
  ASSUME NEW cmds \in Seq(Command), NEW c, NEW ph, NEW a, NEW b, NEW s
  PROVE  /\ Cardinality(AskedIn(cmds, ph, a, b, s)) \in Nat
         /\ Matches(c, ph, a, b, s) =>
              Cardinality(AskedIn(Append(cmds, c), ph, a, b, s))
                = Cardinality(AskedIn(cmds, ph, a, b, s)) + 1
         /\ ~Matches(c, ph, a, b, s) =>
              AskedIn(Append(cmds, c), ph, a, b, s) = AskedIn(cmds, ph, a, b, s)
  <1> DEFINE n == Len(cmds)
             A == AskedIn(cmds, ph, a, b, s)
             B == AskedIn(Append(cmds, c), ph, a, b, s)
  <1>1. /\ n \in Nat /\ DOMAIN cmds = 1 .. n /\ DOMAIN Append(cmds, c) = 1 .. n + 1
        /\ \A k \in 1 .. n : Append(cmds, c)[k] = cmds[k]
        /\ Append(cmds, c)[n + 1] = c
    OBVIOUS
  <1>2. A \subseteq 1 .. n /\ n + 1 \notin A
    BY <1>1 DEF AskedIn
  <1>3. IsFiniteSet(A)
    BY <1>1, <1>2, FS_Interval, FS_Subset
  <1>4. B = IF Matches(c, ph, a, b, s) THEN A \cup {n + 1} ELSE A
    <2>1. \A k : k \in B <=> k \in 1 .. n + 1 /\ Matches(Append(cmds, c)[k], ph, a, b, s)
      BY <1>1 DEF AskedIn
    <2>2. \A k : k \in A <=> k \in 1 .. n /\ Matches(cmds[k], ph, a, b, s)
      BY <1>1 DEF AskedIn
    <2> HIDE DEF A, B
    <2>3. \A k : k \in B <=> k \in A \/ (k = n + 1 /\ Matches(c, ph, a, b, s))
      BY <1>1, <2>1, <2>2
    <2> QED
      BY <2>3
  <1>5. Cardinality(A) \in Nat /\ Cardinality(A \cup {n + 1}) = Cardinality(A) + 1
    BY <1>2, <1>3, FS_CardinalityType, FS_AddElement
  <1> QED
    BY <1>4, <1>5

LEMMA SameConfig ==
  ASSUME config' = config
  PROVE  /\ \A ph : Pairs(ph)' = Pairs(ph) /\ Sizes(ph)' = Sizes(ph) /\ (Runs(ph)' <=> Runs(ph))
         /\ \A ph, s : Wanted(ph, s)' = Wanted(ph, s)
  <1>1. \A ph : Pairs(ph)' = Pairs(ph)
    BY DEF Pairs, PingPairs, BandwidthPairs, Agents
  <1>2. \A ph : Sizes(ph)' = Sizes(ph) /\ (Runs(ph)' <=> Runs(ph))
    BY DEF Sizes, Runs
  <1>3. \A ph, s : Fit(ph, s)' <=> Fit(ph, s)
    BY DEF Fit, TooLarge, EffectiveWindow
  <1>4. \A ph, s : Wanted(ph, s)' = Wanted(ph, s)
    BY <1>2, <1>3 DEF Wanted
  <1> QED
    BY <1>1, <1>2, <1>4

\* One turn of a loop.
LoopTurn(ph, t, c) ==
  /\ InLoop(ph, t)
  /\ c.kind = Kind(ph) /\ c.from = t[1] /\ c.to = t[2] /\ c.size = Sizes(ph)[t[3]]
  /\ commands' = IF Fit(ph, c.size) THEN Append(commands, c) ELSE commands

LEMMA TurnIsCounted ==
  ASSUME PlanInv, CountInv, NEW ph \in Loops, NEW t \in left, NEW c, LoopTurn(ph, t, c)
  PROVE  CountInv'
  <1>1. /\ phase = ph /\ left' = left \ {t} /\ config' = config /\ phase' = phase
        /\ interrupted' = interrupted
    BY DEF LoopTurn, InLoop
  <1>2. /\ config \in Configs /\ commands \in Seq(Command)
        /\ t \in Turns(ph) /\ Runs(ph)
    BY <1>1 DEF PlanInv, CountInv
  <1>3. PICK p \in Pairs(ph), k \in DOMAIN Sizes(ph) : t = <<p[1], p[2], k>>
    BY <1>2, LoopFacts
  <1>4. /\ c.kind = Kind(ph) /\ c.from = p[1] /\ c.to = p[2] /\ c.size = Sizes(ph)[k]
        /\ commands' = IF Fit(ph, c.size) THEN Append(commands, c) ELSE commands
        /\ p = <<p[1], p[2]>> /\ Sizes(ph)[k] \in Nat /\ Sizes(ph)[k] \in ToSet(Sizes(ph))
    BY <1>2, <1>3, LoopFacts DEF LoopTurn, ToSet
  <1>5. ASSUME NEW qh \in Loops, NEW q \in Pairs(qh), NEW s \in Nat
        PROVE  LET asked  == Cardinality(AskedIn(commands', qh, q[1], q[2], s))
                   wanted == Cardinality(Wanted(qh, s))
               IN  /\ asked <= wanted
                   /\ phase = qh => asked = Cardinality(Gone(qh, q[1], q[2], s)')
                   /\ Over(Later(qh)) => asked = wanted
    <2> DEFINE A == AskedIn(commands, qh, q[1], q[2], s)
               B == AskedIn(commands', qh, q[1], q[2], s)
               W == Wanted(qh, s)
               G == Gone(qh, q[1], q[2], s)
               H == {l \in W : <<q[1], q[2], l>> \notin left \ {t}}
    <2>1. Gone(qh, q[1], q[2], s)' = H
      BY <1>1, SameConfig DEF Gone
    <2>2. /\ Cardinality(A) <= Cardinality(W)
          /\ phase = qh => Cardinality(A) = Cardinality(G)
          /\ Over(Later(qh)) => Cardinality(A) = Cardinality(W)
      BY DEF CountInv, Counted
    <2>3. /\ G \subseteq W /\ H \subseteq W /\ IsFiniteSet(W) /\ W \subseteq Nat
          /\ Cardinality(A) \in Nat
      <3>1. IsFiniteSet(W) /\ W \subseteq Nat
        BY <1>2, LoopFacts, SMTT(30)
      <3>2. Cardinality(A) \in Nat
        BY <1>2, OneCommandMore
      <3> QED
        BY <3>1, <3>2 DEF Gone
    <2>4. CASE qh = ph /\ q = p /\ s = Sizes(ph)[k] /\ Fit(ph, s)
      <3>1. Matches(c, qh, q[1], q[2], s)
        BY <1>4, <2>4 DEF Matches
      <3>2. Cardinality(B) = Cardinality(A) + 1
        BY <1>2, <1>4, <2>4, <3>1, OneCommandMore
      <3>3. k \in W /\ k \notin G
        BY <1>2, <1>3, <2>4 DEF Wanted, Gone
      <3>4. H = G \cup {k}
        <4>1. \A l : l \in H <=> l \in W /\ (<<q[1], q[2], l>> \notin left \/ <<q[1], q[2], l>> = t)
          OBVIOUS
        <4>2. \A l : <<q[1], q[2], l>> = t <=> l = k
          BY <1>3, <2>4
        <4>3. \A l : l \in G <=> l \in W /\ <<q[1], q[2], l>> \notin left
          BY DEF Gone
        <4> HIDE DEF H, G, W
        <4> QED
          BY <3>3, <4>1, <4>2, <4>3
      <3>5. IsFiniteSet(G) /\ IsFiniteSet(H)
        BY <2>3, FS_Subset
      <3>6. Cardinality(H) = Cardinality(G) + 1 /\ Cardinality(H) <= Cardinality(W)
        <4> HIDE DEF H, G, W
        <4> QED
          BY <2>3, <3>3, <3>4, <3>5, FS_AddElement, FS_Subset
      <3>7. ~Over(Later(qh)) /\ phase = qh
        BY <1>1, <2>4 DEF Over, Later, Loops
      <3> HIDE DEF A, B, G, H, W
      <3>8. Cardinality(B) = Cardinality(H)
        BY <2>2, <3>2, <3>6, <3>7
      <3>9. Cardinality(B) <= Cardinality(W)
        BY <3>6, <3>8
      <3> QED
        BY <2>1, <3>7, <3>8, <3>9 DEF A, B, G, H, W
    <2>5. CASE ~(qh = ph /\ q = p /\ s = Sizes(ph)[k] /\ Fit(ph, s))
      <3>1. B = A
        <4>1. CASE Fit(ph, c.size)
          <5>1. q = <<q[1], q[2]>>
            BY <1>2, LoopFacts
          <5>2. ~Matches(c, qh, q[1], q[2], s)
            BY <1>4, <2>5, <4>1, <5>1, KindsDiffer DEF Matches
          <5> QED
            BY <1>2, <1>4, <4>1, <5>2, OneCommandMore
        <4>2. CASE ~Fit(ph, c.size)
          BY <1>4, <4>2
        <4> QED
          BY <4>1, <4>2
      <3>2. ASSUME phase = qh
            PROVE  H = G
        <4>1. qh = ph /\ q = <<q[1], q[2]>>
          BY <1>1, <1>2, <3>2, LoopFacts
        <4>2. \A l \in W : <<q[1], q[2], l>> # t
          BY <1>3, <1>4, <2>5, <4>1 DEF Wanted
        <4> QED
          BY <4>2 DEF Gone
      <3> HIDE DEF A, B, G, H, W
      <3>3. phase = qh => Cardinality(B) = Cardinality(H)
        BY <2>2, <3>1, <3>2
      <3> QED
        BY <2>1, <2>2, <3>1, <3>3 DEF A, B, G, H, W
    <2> QED
      BY <2>4, <2>5
  <1>6. \A qh \in Loops : Counted(qh)'
    <2>1. \A qh \in Loops : Over(Later(qh))' <=> Over(Later(qh))
      BY <1>1 DEF Over, Later
    <2> TAKE qh \in Loops
    <2>2. Pairs(qh)' = Pairs(qh) /\ \A s : Wanted(qh, s)' = Wanted(qh, s)
      BY <1>1, SameConfig
    <2> QED
      BY <1>1, <1>5, <2>1, <2>2 DEF Counted
  <1>7. ASSUME NEW l \in DOMAIN commands'
        PROVE  \E qh \in Loops : OfLoop(commands[l], qh)'
    <2>1. commands'[l] = c \/ (l \in DOMAIN commands /\ commands'[l] = commands[l])
      BY <1>2, <1>4, <1>7
    <2>2. OfLoop(c, ph)
      BY <1>1, <1>4 DEF OfLoop
    <2>3. \A i \in DOMAIN commands : \E qh \in Loops : OfLoop(commands[i], qh)
      BY DEF CountInv
    <2>4. PICK d : d = commands'[l]
      OBVIOUS
    <2>5. PICK qh \in Loops : OfLoop(d, qh)
      BY <2>1, <2>2, <2>3, <2>4
    <2>6. OfLoop(d, qh)'
      BY <1>1, <2>5, SameConfig DEF OfLoop
    <2> QED
      BY <2>4, <2>6 DEF OfLoop
  <1> QED
    BY <1>1, <1>2, <1>6, <1>7, SameConfig DEF CountInv

\* The next phase is the first that is wanted.
LEMMA GoOnFacts ==
  ASSUME NEW phases, DOMAIN phases \subseteq Nat, GoOn(phases)
  PROVE  /\ left' = Turns(phase')
         /\ \/ phase' = "done" /\ \A k \in DOMAIN phases : interrupted \/ ~config.run[phases[k]]
            \/ \E k \in DOMAIN phases :
                 /\ phase' = phases[k] /\ config.run[phases[k]] /\ ~interrupted
                 /\ \A l \in DOMAIN phases : config.run[phases[l]] => k <= l
  <1> DEFINE wanted == {k \in DOMAIN phases : config.run[phases[k]] /\ ~interrupted}
  <1>1. /\ phase' = IF wanted = {} THEN "done" ELSE phases[Min(wanted)]
        /\ left' = Turns(phase')
    BY Zenon DEF GoOn
  <1>2. CASE wanted = {}
    BY <1>1, <1>2
  <1>3. CASE wanted # {}
    <2>1. wanted \subseteq Nat
      OBVIOUS
    <2>2. Min(wanted) \in wanted /\ \A l \in wanted : Min(wanted) <= l
      <3> HIDE DEF wanted
      <3> QED
        BY <1>3, <2>1, MinFacts
    <2>3. PICK k : k = Min(wanted)
      OBVIOUS
    <2>4. phase' = phases[k]
      BY <1>1, <1>3, <2>3
    <2> QED
      BY <1>1, <2>2, <2>3, <2>4
  <1> QED
    BY <1>2, <1>3

\* A loop ends, gone through or interrupted.
Leaves(ph) ==
  /\ phase = ph /\ (interrupted \/ left = {})
  /\ UNCHANGED <<config, interrupted, commands>>
  /\ left' = Turns(phase') /\ phase' \in Later(ph) \cup {"done"}
  /\ phase' # "done" => Runs(phase') /\ ~interrupted
  /\ ~interrupted => \A qh \in Later(ph) : Runs(qh) => phase' = qh \/ qh \in Later(phase')

LEMMA LoopsEnd ==
  /\ WriteLatencyMatrix => Leaves("latency")
  /\ EndSweep => Leaves("sweep")
  /\ WriteBandwidthMatrix => Leaves("bandwidth")
  <1>1. ASSUME WriteLatencyMatrix
        PROVE  Leaves("latency")
    <2>1. LoopEnds("latency") /\ GoOn(<<"sweep", "bandwidth">>)
      BY <1>1 DEF WriteLatencyMatrix
    <2>2. PICK phases : phases = <<"sweep", "bandwidth">>
      OBVIOUS
    <2>3. DOMAIN phases = {1, 2} /\ phases[1] = "sweep" /\ phases[2] = "bandwidth"
      BY <2>2
    <2>4. /\ left' = Turns(phase')
          /\ \/ phase' = "done" /\ \A k \in {1, 2} : interrupted \/ ~config.run[phases[k]]
             \/ \E k \in {1, 2} : /\ phase' = phases[k] /\ config.run[phases[k]] /\ ~interrupted
                                  /\ \A l \in {1, 2} : config.run[phases[l]] => k <= l
      BY <2>1, <2>2, <2>3, GoOnFacts
    <2>5. CASE phase' = "done" /\ \A k \in {1, 2} : interrupted \/ ~config.run[phases[k]]
      BY <2>1, <2>3, <2>4, <2>5 DEF Leaves, LoopEnds, Later, Runs, results
    <2>6. CASE phase' = "sweep" /\ config.run["sweep"] /\ ~interrupted
      BY <2>1, <2>4, <2>6 DEF Leaves, LoopEnds, Later, Runs, results
    <2>7. CASE phase' = "bandwidth" /\ config.run["bandwidth"] /\ ~interrupted /\ ~config.run["sweep"]
      BY <2>1, <2>4, <2>7 DEF Leaves, LoopEnds, Later, Runs, results
    <2> QED
      BY <2>3, <2>4, <2>5, <2>6, <2>7
  <1>2. ASSUME EndSweep
        PROVE  Leaves("sweep")
    <2>1. LoopEnds("sweep") /\ GoOn(<<"bandwidth">>)
      BY <1>2 DEF EndSweep
    <2>2. PICK phases : phases = <<"bandwidth">>
      OBVIOUS
    <2>3. DOMAIN phases = {1} /\ phases[1] = "bandwidth"
      BY <2>2
    <2>4. /\ left' = Turns(phase')
          /\ \/ phase' = "done" /\ (interrupted \/ ~config.run["bandwidth"])
             \/ phase' = "bandwidth" /\ config.run["bandwidth"] /\ ~interrupted
      BY <2>1, <2>2, <2>3, GoOnFacts
    <2> QED
      BY <2>1, <2>4 DEF Leaves, LoopEnds, Later, Runs, results
  <1>3. ASSUME WriteBandwidthMatrix
        PROVE  Leaves("bandwidth")
    <2>1. LoopEnds("bandwidth") /\ GoOn(<<>>)
      BY <1>3 DEF WriteBandwidthMatrix
    <2>2. PICK phases : phases = <<>>
      OBVIOUS
    <2>3. DOMAIN phases = {}
      BY <2>2
    <2>4. left' = Turns(phase') /\ phase' = "done"
      BY <2>1, <2>2, <2>3, GoOnFacts
    <2> QED
      BY <2>1, <2>4 DEF Leaves, LoopEnds, Later, Runs, results
  <1> QED
    BY <1>1, <1>2, <1>3

LEMMA NoneAsked ==
  ASSUME CountInv, NEW ph \in Loops, phase # ph, phase \notin Later(ph), phase # "done"
  PROVE  \A a, b, s : Cardinality(AskedIn(commands, ph, a, b, s)) = 0
  <1> TAKE a, b, s
  <1>1. \A k \in DOMAIN commands : ~Matches(commands[k], ph, a, b, s)
    <2> TAKE k \in DOMAIN commands
    <2>1. PICK qh \in Loops : OfLoop(commands[k], qh)
      BY DEF CountInv
    <2>2. PICK c : c = commands[k]
      OBVIOUS
    <2>3. c.kind = Kind(qh) /\ (phase = qh \/ phase \in Later(qh) \/ phase = "done")
      BY <2>1, <2>2 DEF OfLoop
    <2>4. Kind(qh) # Kind(ph)
      BY <2>3, KindsDiffer
    <2> QED
      BY <2>2, <2>3, <2>4 DEF Matches
  <1>2. AskedIn(commands, ph, a, b, s) = {}
    BY <1>1 DEF AskedIn
  <1> QED
    BY <1>2, FS_EmptySet

LEMMA EndIsCounted ==
  ASSUME PlanInv, CountInv, NEW ph \in Loops, Leaves(ph)
  PROVE  CountInv'
  <1>1. /\ phase = ph /\ config' = config /\ interrupted' = interrupted /\ commands' = commands
        /\ left' = Turns(phase') /\ phase' \in Later(ph) \cup {"done"} /\ "done" \notin Loops
    BY DEF Leaves, Loops
  <1>2. config \in Configs /\ commands \in Seq(Command)
    BY DEF PlanInv
  <1>3. ASSUME NEW qh \in Loops, NEW q \in Pairs(qh), NEW s \in Nat
        PROVE  LET asked  == Cardinality(AskedIn(commands, qh, q[1], q[2], s))
                   wanted == Cardinality(Wanted(qh, s))
               IN  /\ asked <= wanted
                   /\ phase' = qh => asked = Cardinality(Gone(qh, q[1], q[2], s)')
                   /\ Over(Later(qh))' => asked = wanted
    <2> DEFINE n == Cardinality(AskedIn(commands, qh, q[1], q[2], s))
               W == Wanted(qh, s)
    <2>1. /\ n <= Cardinality(W) /\ n \in Nat /\ IsFiniteSet(W) /\ Cardinality(W) \in Nat
          /\ Over(Later(qh)) => n = Cardinality(W)
          /\ phase = qh => n = Cardinality(Gone(qh, q[1], q[2], s))
      <3>1. IsFiniteSet(W) /\ Cardinality(W) \in Nat
        BY <1>2, LoopFacts, FS_CardinalityType
      <3>2. n \in Nat
        BY <1>2, OneCommandMore
      <3> QED
        BY <3>1, <3>2 DEF CountInv, Counted
    <2>2. ASSUME phase' = qh
          PROVE  n = Cardinality(Gone(qh, q[1], q[2], s)')
      <3>1. qh \in Later(ph) /\ phase # qh /\ phase \notin Later(qh) /\ phase # "done"
        BY <1>1, <2>2, KindsDiffer DEF Loops
      <3>2. n = 0
        BY <3>1, NoneAsked
      <3>3. \A k \in W : <<q[1], q[2], k>> \in Turns(qh)
        BY <1>2, LoopFacts DEF Wanted
      <3>4. Gone(qh, q[1], q[2], s)' = {}
        BY <1>1, <2>2, <3>3, SameConfig DEF Gone
      <3> QED
        BY <3>2, <3>4, FS_EmptySet
    <2>3. ASSUME Over(Later(qh))'
          PROVE  n = Cardinality(W)
      <3>1. phase' \in Later(qh) \/ (phase' = "done" /\ ~interrupted)
        BY <1>1, <2>3 DEF Over, Later
      <3>2. ~interrupted
        BY <3>1, <1>1, KindsDiffer DEF Leaves
      <3>3. CASE qh = ph
        <4>1. left = {}
          BY <3>2 DEF Leaves
        <4>2. Gone(qh, q[1], q[2], s) = W
          BY <4>1 DEF Gone
        <4> QED
          BY <1>1, <2>1, <3>3, <4>2
      <3>4. CASE qh \in Later(ph)
        <4>1. phase' # qh /\ qh \notin Later(phase')
          BY <1>1, <3>1, KindsDiffer DEF Later
        <4>2. ~Runs(qh)
          BY <3>2, <3>4, <4>1 DEF Leaves
        <4>3. W = {}
          BY <4>2 DEF Wanted
        <4>4. Cardinality(W) = 0
          BY <4>3, FS_EmptySet
        <4> HIDE DEF n, W
        <4> QED
          BY <2>1, <4>4
      <3>5. CASE ph \in Later(qh)
        BY <1>1, <2>1, <3>5 DEF Over
      <3> QED
        BY <3>3, <3>4, <3>5, KindsDiffer
    <2> QED
      BY <2>1, <2>2, <2>3
  <1>4. \A qh \in Loops : Counted(qh)'
    <2> TAKE qh \in Loops
    <2>1. Pairs(qh)' = Pairs(qh) /\ \A s : Wanted(qh, s)' = Wanted(qh, s)
      BY <1>1, SameConfig
    <2> QED
      BY <1>1, <1>3, <2>1 DEF Counted
  <1>5. ASSUME NEW k \in DOMAIN commands
        PROVE  \E qh \in Loops : OfLoop(commands[k], qh)'
    <2>1. PICK c : c = commands[k] /\ c = commands'[k]
      BY <1>1
    <2>2. PICK qh \in Loops : OfLoop(c, qh)
      BY <2>1 DEF CountInv
    <2>3. phase' = "done" \/ phase' \in Later(qh)
      BY <1>1, <2>2, KindsDiffer DEF OfLoop, Later, Loops
    <2>4. OfLoop(c, qh)'
      BY <1>1, <2>2, <2>3, SameConfig DEF OfLoop, Later
    <2> QED
      BY <2>1, <2>4 DEF OfLoop
  <1>6. phase' \in {"begin", "done"} \cup Loops /\ (phase' \in Loops => Runs(phase'))
    BY <1>1, KindsDiffer DEF Leaves
  <1>7. (phase \in Loops => Runs(phase))'
    BY <1>1, <1>6 DEF Runs
  <1> QED
    BY <1>1, <1>4, <1>5, <1>6, <1>7 DEF CountInv

LEMMA TestsAreTurns ==
  ASSUME PlanInv
  PROVE  /\ LatencyTest => \E t \in left : \E c : LoopTurn("latency", t, c)
         /\ SweepTest => \E t \in left : \E c : LoopTurn("sweep", t, c)
         /\ BandwidthTest => \E t \in left : \E c : LoopTurn("bandwidth", t, c)
  <1> USE ConfigFacts
  <1>0. config \in Configs /\ left \subseteq Turns(phase)
    BY DEF PlanInv
  <1>1. ASSUME LatencyTest
        PROVE  \E t \in left : \E c : LoopTurn("latency", t, c)
    <2>1. PICK t \in left : LatencyTest!(t)
      BY <1>1 DEF LatencyTest
    <2>2. PICK c : c = [kind |-> "ping", from |-> t[1], to |-> t[2],
                        size |-> config.message_size, window |-> 0]
      OBVIOUS
    <2>3. InLoop("latency", t) /\ phase = "latency"
      BY <2>1 DEF InLoop
    <2>4. t[3] = 1
      BY <1>0, <2>3 DEF Turns
    <2>5. commands' = IF c.size > MailboxPayload THEN commands ELSE Append(commands, c)
      BY <2>1, <2>2
    <2>6. Sizes("latency")[1] = config.message_size /\ Kind("latency") = "ping"
      BY DEF Sizes, Kind
    <2>7. Fit("latency", c.size) <=> ~(c.size > MailboxPayload)
      BY <1>0, <2>2, LimitsAssumption DEF Fit
    <2>8. LoopTurn("latency", t, c)
      BY <2>2, <2>3, <2>4, <2>5, <2>6, <2>7 DEF LoopTurn
    <2> QED
      BY <2>8
  <1>2. ASSUME SweepTest
        PROVE  \E t \in left : \E c : LoopTurn("sweep", t, c)
    <2>1. PICK t \in left : SweepTest!(t)
      BY <1>2 DEF SweepTest
    <2>2. PICK c : c = [kind |-> "sweep", from |-> t[1], to |-> t[2],
                        size |-> config.latency_message_sizes[t[3]], window |-> 0]
      OBVIOUS
    <2>3. InLoop("sweep", t) /\ phase = "sweep"
      BY <2>1 DEF InLoop
    <2>4. config.latency_message_sizes[t[3]] \in Nat
      BY <1>0, <2>3, TurnFacts
    <2>5. commands' = IF c.size > MailboxPayload THEN commands ELSE Append(commands, c)
      BY <2>1, <2>2
    <2>6. Sizes("sweep") = config.latency_message_sizes /\ Kind("sweep") = "sweep"
      BY DEF Sizes, Kind
    <2>7. Fit("sweep", c.size) <=> ~(c.size > MailboxPayload)
      BY <2>2, <2>4, LimitsAssumption DEF Fit
    <2>8. LoopTurn("sweep", t, c)
      BY <2>2, <2>3, <2>5, <2>6, <2>7 DEF LoopTurn
    <2> QED
      BY <2>8
  <1>3. ASSUME BandwidthTest
        PROVE  \E t \in left : \E c : LoopTurn("bandwidth", t, c)
    <2>1. PICK t \in left : BandwidthTest!(t)
      BY <1>3 DEF BandwidthTest
    <2>2. PICK s : s = config.bw_message_sizes[t[3]]
      OBVIOUS
    <2>3. PICK c : c = [kind |-> "bandwidth", from |-> t[1], to |-> t[2],
                        size |-> s, window |-> EffectiveWindow(s)]
      OBVIOUS
    <2>4. InLoop("bandwidth", t)
      BY <2>1
    <2>5. commands' = IF TooLarge(s) THEN commands ELSE Append(commands, c)
      BY <2>1, <2>2, <2>3
    <2>6. Sizes("bandwidth") = config.bw_message_sizes /\ Kind("bandwidth") = "bandwidth"
      BY DEF Sizes, Kind
    <2>7. c.size = s /\ c.kind = "bandwidth" /\ c.from = t[1] /\ c.to = t[2]
      BY <2>3
    <2>8. Fit("bandwidth", s) <=> ~TooLarge(s)
      BY DEF Fit
    <2>9. LoopTurn("bandwidth", t, c)
      BY <2>2, <2>4, <2>5, <2>6, <2>7, <2>8 DEF LoopTurn
    <2> QED
      BY <2>9
  <1> QED
    BY <1>1, <1>2, <1>3

LEMMA BeginIsCounted ==
  ASSUME PlanInv, CountInv, Begin
  PROVE  CountInv'
  <1>1. /\ phase = "begin" /\ config' = config /\ interrupted' = interrupted /\ commands' = commands
        /\ phase' = IF interrupted \/ config.num_agents < 2 THEN "done" ELSE "latency"
        /\ left' = Turns(phase')
    BY DEF Begin
  <1>2. config \in Configs
    BY DEF PlanInv
  <1>3. DOMAIN commands = {}
    <2>1. ASSUME NEW k \in DOMAIN commands
          PROVE  FALSE
      <3>1. PICK qh \in Loops : OfLoop(commands[k], qh)
        BY DEF CountInv
      <3> QED
        BY <1>1, <3>1 DEF OfLoop, Loops, Later
    <2> QED
      BY <2>1
  <1>4. \A qh, a, b, s : Cardinality(AskedIn(commands, qh, a, b, s)) = 0
    <2> TAKE qh, a, b, s
    <2>1. AskedIn(commands, qh, a, b, s) = {}
      BY <1>3 DEF AskedIn
    <2> QED
      BY <2>1, FS_EmptySet
  <1>5. config.num_agents < 2 => \A qh \in Loops : Pairs(qh) = {}
    <2>1. ASSUME config.num_agents < 2
          PROVE  \A a, b \in Agents : a = b
      BY <1>2, <2>1, ConfigFacts DEF Agents
    <2>2. ASSUME NEW a \in Agents
          PROVE  ~(a < a)
      BY <1>2, ConfigFacts
    <2> QED
      BY <2>1, <2>2 DEF Pairs, PingPairs, BandwidthPairs
  <1>6. ASSUME NEW qh \in Loops, NEW q \in Pairs(qh), NEW s \in Nat
        PROVE  LET asked  == Cardinality(AskedIn(commands, qh, q[1], q[2], s))
                   wanted == Cardinality(Wanted(qh, s))
               IN  /\ asked <= wanted
                   /\ phase' = qh => asked = Cardinality(Gone(qh, q[1], q[2], s)')
                   /\ Over(Later(qh))' => asked = wanted
    <2>1. ~Over(Later(qh))'
      BY <1>1, <1>5, <1>6 DEF Over, Later
    <2>2. Cardinality(Wanted(qh, s)) \in Nat
      BY <1>2, LoopFacts, FS_CardinalityType
    <2>3. ASSUME phase' = qh
          PROVE  Cardinality(Gone(qh, q[1], q[2], s)') = 0
      <3>1. \A k \in Wanted(qh, s) : <<q[1], q[2], k>> \in Turns(qh)
        BY <1>2, LoopFacts DEF Wanted
      <3>2. Gone(qh, q[1], q[2], s)' = {}
        BY <1>1, <2>3, <3>1, SameConfig DEF Gone
      <3> QED
        BY <3>2, FS_EmptySet
    <2> QED
      BY <1>4, <2>1, <2>2, <2>3
  <1>7. \A qh \in Loops : Counted(qh)'
    <2> TAKE qh \in Loops
    <2>1. Pairs(qh)' = Pairs(qh) /\ \A s : Wanted(qh, s)' = Wanted(qh, s)
      BY <1>1, SameConfig
    <2> QED
      BY <1>1, <1>6, <2>1 DEF Counted
  <1> QED
    BY <1>1, <1>3, <1>7 DEF CountInv, Runs, Loops

LEMMA InterruptIsCounted ==
  ASSUME PlanInv, CountInv, Interrupt \/ Finished \/ UNCHANGED vars
  PROVE  CountInv'
  <1>1. /\ config' = config /\ phase' = phase /\ left' = left /\ commands' = commands
        /\ interrupted' = interrupted \/ phase # "done"
    BY DEF Interrupt, Finished, vars
  <1>2. \A qh \in Loops : Over(Later(qh))' => Over(Later(qh))
    BY <1>1 DEF Over, Later
  <1>3. \A qh \in Loops : Counted(qh)'
    <2> TAKE qh \in Loops
    <2>1. Pairs(qh)' = Pairs(qh) /\ \A s : Wanted(qh, s)' = Wanted(qh, s)
      BY <1>1, SameConfig
    <2>2. \A a, b, s : Gone(qh, a, b, s)' = Gone(qh, a, b, s)
      BY <1>1, <2>1 DEF Gone
    <2>3. Counted(qh)
      BY DEF CountInv
    <2> QED
      BY <1>1, <1>2, <2>1, <2>2, <2>3 DEF Counted
  <1>4. \A c, qh : OfLoop(c, qh)' <=> OfLoop(c, qh)
    BY <1>1, SameConfig DEF OfLoop
  <1>5. ASSUME NEW k \in DOMAIN commands
        PROVE  \E qh \in Loops : OfLoop(commands[k], qh)'
    <2>1. PICK c : c = commands[k] /\ c = commands'[k]
      BY <1>1
    <2>2. PICK qh \in Loops : OfLoop(c, qh)
      BY <2>1 DEF CountInv
    <2>3. OfLoop(c, qh)'
      BY <1>4, <2>2
    <2> QED
      BY <2>1, <2>3 DEF OfLoop
  <1>6. (phase \in Loops => Runs(phase))'
    BY <1>1 DEF CountInv, Runs
  <1> QED
    BY <1>1, <1>3, <1>5, <1>6 DEF CountInv

\* The commands are as many as the turns gone through whose size fits.
THEOREM CountInductive == Spec => [](PlanInv /\ CountInv)
  <1>1. Init => CountInv
    <2> SUFFICES ASSUME Init PROVE CountInv
      OBVIOUS
    <2>1. config \in Configs /\ phase = "begin" /\ DOMAIN commands = {}
      BY DEF Init
    <2>2. \A qh, a, b, s : Cardinality(AskedIn(commands, qh, a, b, s)) = 0
      <3> TAKE qh, a, b, s
      <3>1. AskedIn(commands, qh, a, b, s) = {}
        BY <2>1 DEF AskedIn
      <3> QED
        BY <3>1, FS_EmptySet
    <2>3. \A qh \in Loops : \A s : Cardinality(Wanted(qh, s)) \in Nat
      BY <2>1, LoopFacts, FS_CardinalityType
    <2>4. \A qh \in Loops : phase # qh /\ ~Over(Later(qh))
      BY <2>1 DEF Over, Later, Loops
    <2>5. \A qh \in Loops : Counted(qh)
      BY <2>2, <2>3, <2>4 DEF Counted
    <2> QED
      BY <2>1, <2>5 DEF CountInv, Loops
  <1>2. PlanInv /\ CountInv /\ [Next]_vars => CountInv'
    <2> SUFFICES ASSUME PlanInv, CountInv, [Next]_vars PROVE CountInv'
      OBVIOUS
    <2>1. CASE LatencyTest \/ SweepTest \/ BandwidthTest
      <3>1. PICK ph \in Loops : \E t \in left : \E c : LoopTurn(ph, t, c)
        BY <2>1, TestsAreTurns DEF Loops
      <3>2. PICK t \in left : \E c : LoopTurn(ph, t, c)
        BY <3>1
      <3>3. PICK c : LoopTurn(ph, t, c)
        BY <3>2
      <3> QED
        BY <3>3, TurnIsCounted
    <2>2. CASE WriteLatencyMatrix \/ EndSweep \/ WriteBandwidthMatrix
      <3>1. PICK ph \in Loops : Leaves(ph)
        BY <2>2, LoopsEnd DEF Loops
      <3> QED
        BY <3>1, EndIsCounted
    <2>3. CASE Begin
      BY <2>3, BeginIsCounted
    <2>4. CASE Interrupt \/ Finished \/ UNCHANGED vars
      BY <2>4, InterruptIsCounted
    <2> QED
      BY <2>1, <2>2, <2>3, <2>4 DEF Next
  <1>3. Spec => []CountInv
    BY <1>1, <1>2, PlanInductive, PTL DEF Spec
  <1> QED
    BY <1>3, PlanInductive, PTL

\* A size is too large for the buffer if not even one window of it fits.
LEMMA RoomFacts ==
  ASSUME config \in Configs, NEW s \in Nat
  PROVE  ~TooLarge(s) <=> config.bw_window_size = 0 \/ s <= InboxOffset
  <1> USE ConfigFacts
  <1>1. PICK w \in Nat, room \in Nat : w = config.bw_window_size /\ room = InboxOffset
    OBVIOUS
  <1>2. CASE w * s > room
    <2>1. w \in Nat \ {0} /\ s \in Nat \ {0}
      BY <1>2
    <2>2. EffectiveWindow(s) = room \div s
      BY <1>1, <1>2 DEF EffectiveWindow
    <2>3. room \div s < 1 <=> s > room
      BY <2>1
    <2> QED
      BY <1>1, <1>2, <2>1, <2>2, <2>3 DEF TooLarge
  <1>3. CASE ~(w * s > room)
    <2>1. w = 0 \/ s <= room
      <3>1. w # 0 => s <= w * s
        OBVIOUS
      <3> QED
        BY <1>3, <3>1
    <2> QED
      BY <1>1, <1>3, <2>1 DEF TooLarge
  <1> QED
    BY <1>2, <1>3

LEMMA RoundTripsAsked ==
  ASSUME PlanInv, CountInv, NEW ph \in {"latency", "sweep"}, NEW a \in Agents, NEW b \in Agents, a # b,
         NEW s
  PROVE  \E p \in Pairs(ph) : RoundTrips(Kind(ph), a, b, s) = AskedIn(commands, ph, p[1], p[2], s)
  <1>1. a \in Int /\ b \in Int /\ Pairs(ph) = PingPairs
    BY ConfigFacts DEF PlanInv, Pairs
  <1>2. PICK x, y : x \in Agents /\ y \in Agents /\ x < y /\ {x, y} = {a, b} /\ x \in Int /\ y \in Int
    <2>1. CASE a < b
      BY <1>1, <2>1
    <2>2. CASE b < a
      BY <1>1, <2>2
    <2> QED
      BY <1>1, <2>1, <2>2
  <1>3. \A k \in DOMAIN commands : commands[k].kind = Kind(ph) =>
          commands[k].from < commands[k].to /\ commands[k].from \in Int /\ commands[k].to \in Int
    <2> TAKE k \in DOMAIN commands
    <2>1. PICK qh \in Loops : OfLoop(commands[k], qh)
      BY DEF CountInv
    <2>2. PICK c : c = commands[k]
      OBVIOUS
    <2>3. c.kind = Kind(qh) /\ <<c.from, c.to>> \in Pairs(qh)
      BY <2>1, <2>2 DEF OfLoop
    <2>4. c.kind = Kind(ph) => <<c.from, c.to>> \in PingPairs
      BY <1>1, <2>3, KindsDiffer DEF Loops
    <2>5. config \in Configs
      BY DEF PlanInv
    <2> QED
      BY <2>2, <2>4, <2>5, ConfigFacts DEF PingPairs
  <1>4. \A k \in DOMAIN commands :
          commands[k].kind = Kind(ph) =>
            ({commands[k].from, commands[k].to} = {a, b} <=> commands[k].from = x /\ commands[k].to = y)
    <2> TAKE k \in DOMAIN commands
    <2>1. PICK f, t : f = commands[k].from /\ t = commands[k].to
      OBVIOUS
    <2>2. f \in Int /\ t \in Int /\ f < t => ({f, t} = {x, y} <=> f = x /\ t = y)
      BY <1>2
    <2> QED
      BY <1>2, <1>3, <2>1, <2>2
  <1>5. RoundTrips(Kind(ph), a, b, s) = AskedIn(commands, ph, x, y, s)
    <2>1. \A k : k \in RoundTrips(Kind(ph), a, b, s) <=> k \in AskedIn(commands, ph, x, y, s)
      BY <1>4 DEF RoundTrips, AskedIn, Matches
    <2> QED
      BY <2>1 DEF RoundTrips, AskedIn
  <1>6. <<x, y>> \in Pairs(ph)
    BY <1>1, <1>2 DEF PingPairs
  <1> QED
    BY <1>5, <1>6

LEMMA CountedIsPlanned ==
  ASSUME PlanInv, CountInv
  PROVE  PlanIsComplete
  <1>1. config \in Configs /\ commands \in Seq(Command)
    BY DEF PlanInv
  <1>2. ASSUME NEW ph \in Loops, NEW p \in Pairs(ph), NEW s \in Nat
        PROVE  Planned(AskedIn(commands, ph, p[1], p[2], s), Wanted(ph, s), Over(Later(ph)))
    BY DEF CountInv, Counted, Planned
  <1>3. ASSUME NEW a \in Agents, NEW b \in Agents, a # b
        PROVE  Planned(RoundTrips("ping", a, b, config.message_size),
                       IF config.message_size <= MailboxPayload THEN {1} ELSE {},
                       Over({"sweep", "bandwidth"}))
    <2>1. PICK s \in Nat : s = config.message_size
      BY <1>1, ConfigFacts
    <2>2. Kind("latency") = "ping" /\ Later("latency") = {"sweep", "bandwidth"}
      BY DEF Kind, Later
    <2>3. Wanted("latency", s) = IF s <= MailboxPayload THEN {1} ELSE {}
      BY <2>1 DEF Wanted, Sizes, Fit, Runs
    <2>4. PICK p \in Pairs("latency") :
            RoundTrips("ping", a, b, s) = AskedIn(commands, "latency", p[1], p[2], s)
      BY <1>3, <2>2, RoundTripsAsked
    <2> QED
      BY <1>2, <2>1, <2>2, <2>3, <2>4 DEF Loops
  <1>4. ASSUME NEW a \in Agents, NEW b \in Agents, a # b, NEW s \in ToSet(config.latency_message_sizes)
        PROVE  Planned(RoundTrips("sweep", a, b, s),
                       IF config.run["sweep"] /\ s <= MailboxPayload
                       THEN Named(config.latency_message_sizes, s) ELSE {},
                       Over({"bandwidth"}))
    <2>1. s \in Nat
      BY <1>1, ConfigFacts DEF ToSet
    <2>2. Kind("sweep") = "sweep" /\ Later("sweep") = {"bandwidth"}
      BY DEF Kind, Later
    <2>3. Wanted("sweep", s) = IF config.run["sweep"] /\ s <= MailboxPayload
                               THEN Named(config.latency_message_sizes, s) ELSE {}
      BY DEF Wanted, Sizes, Fit, Runs, Named
    <2>4. PICK p \in Pairs("sweep") :
            RoundTrips("sweep", a, b, s) = AskedIn(commands, "sweep", p[1], p[2], s)
      BY <1>4, <2>2, RoundTripsAsked
    <2> QED
      BY <1>2, <2>1, <2>2, <2>3, <2>4 DEF Loops
  <1>5. ASSUME NEW a \in Agents, NEW b \in Agents, a # b, NEW s \in ToSet(config.bw_message_sizes)
        PROVE  Planned(Transfers(a, b, s),
                       IF config.run["bandwidth"] /\ (config.bw_window_size = 0 \/ s <= InboxOffset)
                       THEN Named(config.bw_message_sizes, s) ELSE {},
                       Over({}))
    <2>1. s \in Nat
      BY <1>1, ConfigFacts DEF ToSet
    <2>2. Kind("bandwidth") = "bandwidth" /\ Later("bandwidth") = {}
      BY DEF Kind, Later
    <2>3. Fit("bandwidth", s) <=> config.bw_window_size = 0 \/ s <= InboxOffset
      BY <1>1, <2>1, RoomFacts DEF Fit
    <2>4. Wanted("bandwidth", s)
            = IF config.run["bandwidth"] /\ (config.bw_window_size = 0 \/ s <= InboxOffset)
              THEN Named(config.bw_message_sizes, s) ELSE {}
      BY <2>3 DEF Wanted, Sizes, Runs, Named
    <2>5. PICK p : p = <<a, b>> /\ p \in Pairs("bandwidth") /\ p[1] = a /\ p[2] = b
      <3>1. PICK p : p = <<a, b>>
        OBVIOUS
      <3>2. p \in Agents \X Agents /\ p[1] = a /\ p[2] = b
        BY <3>1
      <3>3. p \in Pairs("bandwidth")
        BY <1>5, <3>2 DEF Pairs, BandwidthPairs
      <3> QED
        BY <3>1, <3>2, <3>3
    <2>6. Transfers(a, b, s) = AskedIn(commands, "bandwidth", a, b, s)
      BY <2>2 DEF Transfers, AskedIn, Matches
    <2>7. Planned(AskedIn(commands, "bandwidth", p[1], p[2], s), Wanted("bandwidth", s),
                  Over(Later("bandwidth")))
      BY <1>2, <2>1, <2>5 DEF Loops
    <2> QED
      BY <2>2, <2>4, <2>5, <2>6, <2>7
  <1>6. ASSUME NEW k \in DOMAIN commands
        PROVE  /\ commands[k].from # commands[k].to
               /\ {commands[k].from, commands[k].to} \subseteq Agents
               /\ commands[k].size \in
                    CASE commands[k].kind = "ping"      -> {config.message_size}
                      [] commands[k].kind = "sweep"     -> ToSet(config.latency_message_sizes)
                      [] commands[k].kind = "bandwidth" -> ToSet(config.bw_message_sizes)
    <2>1. PICK qh \in Loops : OfLoop(commands[k], qh)
      BY DEF CountInv
    <2>2. PICK c : c = commands[k]
      OBVIOUS
    <2>3. c.kind = Kind(qh) /\ <<c.from, c.to>> \in Pairs(qh) /\ c.size \in ToSet(Sizes(qh))
      BY <2>1, <2>2 DEF OfLoop
    <2>4. PICK p : p = <<c.from, c.to>> /\ p \in Agents \X Agents /\ p[1] # p[2]
      BY <1>1, <2>3, LoopFacts
    <2>5. c.from # c.to /\ {c.from, c.to} \subseteq Agents
      BY <2>4
    <2>6. CASE qh = "latency"
      <3>1. ToSet(Sizes(qh)) = {config.message_size}
        BY <2>6 DEF Sizes, ToSet
      <3> QED
        BY <2>2, <2>3, <2>5, <2>6, <3>1 DEF Kind
    <2>7. CASE qh = "sweep"
      BY <2>2, <2>3, <2>5, <2>7 DEF Kind, Sizes
    <2>8. CASE qh = "bandwidth"
      BY <2>2, <2>3, <2>5, <2>8 DEF Kind, Sizes
    <2> QED
      BY <2>6, <2>7, <2>8 DEF Loops
  <1> QED
    BY <1>3, <1>4, <1>5, <1>6 DEF PlanIsComplete

\* Never more tests than planned, and all of them when a loop is over: for any
\* number of agents, any lists of sizes (a size may be in a list twice) and
\* whichever of the loops are wanted.
THEOREM AllIsAsked == Spec => []PlanIsComplete
  <1> QED
    BY CountedIsPlanned, CountInductive, PTL

----------------------------------------------------------------------------
(***************************************************************************)
(* The results and the files.                                              *)
(***************************************************************************)
\* What the loops store.
Result == [from : Int, to : Int, size : Nat, success : BOOLEAN, value : Nat]
ResultsInv ==
  /\ latency_results \in Seq(Result) /\ bandwidth_results \in Seq(Result)
  /\ phase = "begin" => latency_results = <<>>
  /\ \A k \in DOMAIN latency_results :
       LET r == latency_results[k]
       IN  /\ r.from < r.to /\ (phase = "latency" => <<r.from, r.to, 1>> \notin left)
           /\ \A l \in DOMAIN latency_results :
                r.from = latency_results[l].from /\ r.to = latency_results[l].to => k = l
  /\ \A k \in DOMAIN bandwidth_results : bandwidth_results[k].from # bandwidth_results[k].to
  /\ matrix # <<>> => matrix = LatencyMatrix /\ phase \notin {"begin", "latency"}
  /\ bandwidth_matrix # <<>> => bandwidth_matrix = BandwidthMatrix /\ phase = "done"

LEMMA StoredFacts ==
  ASSUME NEW c, c.from \in Int, c.to \in Int, c.size \in Nat, NEW r \in Stored(c)
  PROVE  r = <<>> \/ \E x \in Result : r = <<x>> /\ x.from = c.from /\ x.to = c.to
  <1>1. CASE r = <<>>
    BY <1>1
  <1>2. CASE r = <<[from |-> c.from, to |-> c.to, size |-> c.size, success |-> FALSE, value |-> 0]>>
    <2>1. PICK x : x = [from |-> c.from, to |-> c.to, size |-> c.size, success |-> FALSE, value |-> 0]
      OBVIOUS
    <2>2. x \in Result /\ x.from = c.from /\ x.to = c.to
      BY <2>1 DEF Result
    <2> QED
      BY <1>2, <2>1, <2>2
  <1>3. ASSUME NEW v \in Values,
               r = <<[from |-> c.from, to |-> c.to, size |-> c.size, success |-> TRUE, value |-> v]>>
        PROVE  \E x \in Result : r = <<x>> /\ x.from = c.from /\ x.to = c.to
    <2>1. PICK x : x = [from |-> c.from, to |-> c.to, size |-> c.size, success |-> TRUE, value |-> v]
      OBVIOUS
    <2>2. x \in Result /\ x.from = c.from /\ x.to = c.to
      BY <2>1, LimitsAssumption DEF Result
    <2> QED
      BY <1>3, <2>1, <2>2
  <1> QED
    BY <1>1, <1>2, <1>3 DEF Stored

LEMMA OneResultMore ==
  ASSUME NEW rs \in Seq(Result), NEW x \in Result
  PROVE  /\ rs \o <<x>> \in Seq(Result) /\ DOMAIN (rs \o <<x>>) = 1 .. Len(rs) + 1
         /\ \A k \in DOMAIN rs : (rs \o <<x>>)[k] = rs[k]
         /\ (rs \o <<x>>)[Len(rs) + 1] = x
         /\ DOMAIN rs = 1 .. Len(rs) /\ Len(rs) \in Nat
  OBVIOUS

LEMMA NoResultMore ==
  ASSUME NEW rs \in Seq(Result)
  PROVE  rs \o <<>> = rs
  OBVIOUS

LEMMA SameMatrix ==
  /\ UNCHANGED <<config, latency_results>> => LatencyMatrix' = LatencyMatrix
  /\ UNCHANGED <<config, bandwidth_results>> => BandwidthMatrix' = BandwidthMatrix
  <1>1. ASSUME UNCHANGED <<config, latency_results>>
        PROVE  LatencyMatrix' = LatencyMatrix
    BY <1>1 DEF LatencyMatrix, Agents
  <1>2. ASSUME UNCHANGED <<config, bandwidth_results>>
        PROVE  BandwidthMatrix' = BandwidthMatrix
    BY <1>2 DEF BandwidthMatrix, Agents
  <1> QED
    BY <1>1, <1>2

\* ResultsInv speaks of each result apart from the files.
LatencyInv(rs) ==
  /\ rs \in Seq(Result)
  /\ phase = "begin" => rs = <<>>
  /\ \A k \in DOMAIN rs :
       /\ rs[k].from < rs[k].to /\ (phase = "latency" => <<rs[k].from, rs[k].to, 1>> \notin left)
       /\ \A l \in DOMAIN rs : rs[k].from = rs[l].from /\ rs[k].to = rs[l].to => k = l
BandwidthInv(rs) ==
  rs \in Seq(Result) /\ \A k \in DOMAIN rs : rs[k].from # rs[k].to
FilesInv ==
  /\ matrix # <<>> => matrix = LatencyMatrix /\ phase \notin {"begin", "latency"}
  /\ bandwidth_matrix # <<>> => bandwidth_matrix = BandwidthMatrix /\ phase = "done"

LEMMA ResultsParts ==
  ResultsInv <=> LatencyInv(latency_results) /\ BandwidthInv(bandwidth_results) /\ FilesInv
  BY DEF ResultsInv, LatencyInv, BandwidthInv, FilesInv

LEMMA LatencyTestKeeps ==
  ASSUME PlanInv, ResultsInv, LatencyTest
  PROVE  ResultsInv'
  <1>1. PICK t \in left : LatencyTest!(t)
    BY DEF LatencyTest
  <1> DEFINE c == [kind |-> "ping", from |-> t[1], to |-> t[2],
                   size |-> config.message_size, window |-> 0]
  <1>2. /\ phase = "latency" /\ phase' = phase /\ left' = left \ {t} /\ config' = config
        /\ matrix' = matrix /\ bandwidth_matrix' = bandwidth_matrix
        /\ bandwidth_results' = bandwidth_results
    BY <1>1 DEF InLoop, files, results
  <1>3. config \in Configs /\ left \subseteq Turns(phase) /\ config.message_size \in Nat
    BY ConfigFacts DEF PlanInv
  <1>4. PICK i, j : t = <<i, j, 1>> /\ i \in Int /\ j \in Int /\ i < j
    BY <1>2, <1>3, ConfigFacts DEF Turns, PingPairs
  <1>5. PICK rs : rs = latency_results /\ LatencyInv(rs)
    BY ResultsParts
  <1>6. latency_results' = rs \/ \E x \in Result : /\ latency_results' = rs \o <<x>>
                                                   /\ x.from = i /\ x.to = j
    <2>1. CASE c.size > MailboxPayload
      BY <1>1, <1>5, <2>1 DEF results
    <2>2. CASE ~(c.size > MailboxPayload)
      <3>1. PICK r \in Stored(c) : latency_results' = rs \o r
        BY <1>1, <1>5, <2>2
      <3>2. c.from = i /\ c.to = j /\ c.size \in Nat
        BY <1>3, <1>4
      <3> HIDE DEF c
      <3>3. r = <<>> \/ \E x \in Result : r = <<x>> /\ x.from = i /\ x.to = j
        BY <1>4, <3>2, StoredFacts
      <3>4. rs \in Seq(Result)
        BY <1>5 DEF LatencyInv
      <3> QED
        BY <3>1, <3>3, <3>4, NoResultMore
    <2> QED
      BY <2>1, <2>2
  <1>7. ASSUME NEW x \in Result, latency_results' = rs \o <<x>>, x.from = i, x.to = j
        PROVE  LatencyInv(latency_results)'
    <2>1. PICK ns : ns = rs \o <<x>>
      OBVIOUS
    <2>2. rs \in Seq(Result) /\ \A k \in DOMAIN rs : rs[k].from < rs[k].to /\ <<rs[k].from, rs[k].to, 1>> \notin left
      BY <1>2, <1>5 DEF LatencyInv
    <2>3. /\ ns \in Seq(Result) /\ DOMAIN ns = 1 .. Len(rs) + 1 /\ DOMAIN rs = 1 .. Len(rs) /\ Len(rs) \in Nat
          /\ \A k \in DOMAIN rs : ns[k] = rs[k]
          /\ ns[Len(rs) + 1] = x
      BY <2>1, <2>2, OneResultMore
    <2>4. \A k \in DOMAIN rs : ~(rs[k].from = i /\ rs[k].to = j)
      BY <1>4, <2>2
    <2>5. \A k \in DOMAIN rs : \A l \in DOMAIN rs : rs[k].from = rs[l].from /\ rs[k].to = rs[l].to => k = l
      BY <1>5 DEF LatencyInv
    <2>6. \A k \in DOMAIN ns : k = Len(rs) + 1 \/ k \in DOMAIN rs
      BY <2>3
    <2>7. \A k \in DOMAIN ns : \A l \in DOMAIN ns : ns[k].from = ns[l].from /\ ns[k].to = ns[l].to => k = l
      BY <1>7, <2>3, <2>4, <2>5, <2>6
    <2>8. \A k \in DOMAIN ns : ns[k].from < ns[k].to /\ <<ns[k].from, ns[k].to, 1>> \notin left \ {t}
      BY <1>4, <1>7, <2>2, <2>3, <2>6
    <2>9. phase' # "begin" /\ latency_results' = ns
      BY <1>2, <1>7, <2>1
    <2> QED
      BY <1>2, <2>3, <2>7, <2>8, <2>9 DEF LatencyInv
  <1>8. LatencyInv(latency_results)'
    <2>1. CASE latency_results' = rs
      BY <1>2, <1>5, <2>1 DEF LatencyInv
    <2> QED
      BY <1>6, <1>7, <2>1
  <1>9. BandwidthInv(bandwidth_results)'
    BY <1>2, ResultsParts DEF BandwidthInv
  <1>10. FilesInv'
    BY <1>2, ResultsParts DEF FilesInv
  <1>11. ResultsInv'
    BY <1>8, <1>9, <1>10 DEF ResultsInv, LatencyInv, BandwidthInv, FilesInv
  <1> QED
    BY <1>11

LEMMA BandwidthTestKeeps ==
  ASSUME PlanInv, ResultsInv, BandwidthTest
  PROVE  ResultsInv'
  <1>1. PICK t \in left : BandwidthTest!(t)
    BY DEF BandwidthTest
  <1>2. /\ phase = "bandwidth" /\ phase' = phase /\ config' = config
        /\ matrix' = matrix /\ bandwidth_matrix' = bandwidth_matrix
        /\ latency_results' = latency_results
    BY <1>1 DEF InLoop, files, results
  <1>3. config \in Configs /\ left \subseteq Turns(phase)
    BY DEF PlanInv
  <1>4. t[1] \in Int /\ t[2] \in Int /\ t[1] # t[2] /\ config.bw_message_sizes[t[3]] \in Nat
    <2>1. t[1] # t[2]
      BY <1>2, <1>3 DEF Turns, BandwidthPairs
    <2> QED
      BY <1>2, <1>3, <2>1, TurnFacts, ConfigFacts
  <1>5. PICK size : size = config.bw_message_sizes[t[3]]
    OBVIOUS
  <1> DEFINE c == [kind |-> "bandwidth", from |-> t[1], to |-> t[2],
                   size |-> size, window |-> EffectiveWindow(size)]
  <1>6. PICK rs : rs = bandwidth_results /\ BandwidthInv(rs)
    BY ResultsParts
  <1>7. rs \in Seq(Result)
    BY <1>6 DEF BandwidthInv
  <1>8. bandwidth_results' = rs \/ \E x \in Result : /\ bandwidth_results' = rs \o <<x>>
                                                     /\ x.from = t[1] /\ x.to = t[2]
    <2>1. CASE TooLarge(size)
      BY <1>1, <1>5, <1>6, <2>1 DEF results
    <2>2. CASE ~TooLarge(size)
      <3>1. PICK r \in Stored(c) : bandwidth_results' = rs \o r
        BY <1>1, <1>5, <1>6, <2>2
      <3>2. c.from = t[1] /\ c.to = t[2] /\ c.size \in Nat
        BY <1>4, <1>5
      <3> HIDE DEF c
      <3>3. r = <<>> \/ \E x \in Result : r = <<x>> /\ x.from = t[1] /\ x.to = t[2]
        BY <1>4, <3>2, StoredFacts
      <3> QED
        BY <1>7, <3>1, <3>3, NoResultMore
    <2> QED
      BY <2>1, <2>2
  <1>9. BandwidthInv(bandwidth_results)'
    <2>1. CASE bandwidth_results' = rs
      BY <1>6, <2>1 DEF BandwidthInv
    <2>2. ASSUME NEW x \in Result, bandwidth_results' = rs \o <<x>>, x.from = t[1], x.to = t[2]
          PROVE  BandwidthInv(bandwidth_results)'
      <3>1. PICK ns : ns = rs \o <<x>>
        OBVIOUS
      <3>2. /\ ns \in Seq(Result) /\ DOMAIN ns = 1 .. Len(rs) + 1 /\ DOMAIN rs = 1 .. Len(rs) /\ Len(rs) \in Nat
            /\ \A k \in DOMAIN rs : ns[k] = rs[k]
            /\ ns[Len(rs) + 1] = x
        BY <1>7, <3>1, OneResultMore
      <3>3. \A k \in DOMAIN rs : rs[k].from # rs[k].to
        BY <1>6 DEF BandwidthInv
      <3>4. \A k \in DOMAIN ns : ns[k].from # ns[k].to
        BY <1>4, <2>2, <3>2, <3>3
      <3>5. bandwidth_results' = ns
        BY <2>2, <3>1
      <3> QED
        BY <3>2, <3>4, <3>5 DEF BandwidthInv
    <2> QED
      BY <1>8, <2>1, <2>2
  <1>10. LatencyInv(latency_results)'
    <2>1. PICK ls : ls = latency_results /\ LatencyInv(ls)
      BY ResultsParts
    <2> QED
      BY <1>2, <2>1 DEF LatencyInv
  <1>11. FilesInv'
    <2>1. bandwidth_matrix = <<>> /\ (matrix # <<>> => matrix = LatencyMatrix)
      BY <1>2, ResultsParts DEF FilesInv
    <2>2. LatencyMatrix' = LatencyMatrix
      BY <1>2, SameMatrix
    <2> QED
      BY <1>2, <2>1, <2>2 DEF FilesInv
  <1> QED
    BY <1>9, <1>10, <1>11 DEF ResultsInv, LatencyInv, BandwidthInv, FilesInv

\* Every other step leaves the results, and latency turns behind it.
LEMMA OtherStepsKeepResults ==
  ASSUME PlanInv, ResultsInv, UNCHANGED <<config, latency_results, bandwidth_results>>,
         phase' = "begin" => phase = "begin",
         phase' = "latency" => phase = "begin" \/ (phase = "latency" /\ left' = left),
         phase = "done" => phase' = "done",
         phase \notin {"begin", "latency"} => phase' \notin {"begin", "latency"},
         \/ matrix' = matrix
         \/ matrix' = LatencyMatrix /\ phase' \notin {"begin", "latency"},
         \/ bandwidth_matrix' = bandwidth_matrix
         \/ bandwidth_matrix' = BandwidthMatrix /\ phase' = "done"
  PROVE  ResultsInv'
  <1>1. PICK ls, bs : ls = latency_results /\ LatencyInv(ls) /\ bs = bandwidth_results /\ BandwidthInv(bs)
    BY ResultsParts
  <1>2. FilesInv'
    BY ResultsParts, SameMatrix DEF FilesInv
  <1>3. LatencyInv(latency_results)'
    <2>1. latency_results' = ls
      BY <1>1
    <2>2. phase = "begin" => DOMAIN ls = {}
      BY <1>1 DEF LatencyInv
    <2> QED
      BY <1>1, <2>1, <2>2 DEF LatencyInv
  <1>4. BandwidthInv(bandwidth_results)'
    BY <1>1 DEF BandwidthInv
  <1> QED
    BY <1>2, <1>3, <1>4 DEF ResultsInv, LatencyInv, BandwidthInv, FilesInv

THEOREM ResultsInductive == Spec => [](PlanInv /\ ResultsInv)
  <1>1. Init => ResultsInv
    BY DEF Init, ResultsInv
  <1>2. PlanInv /\ ResultsInv /\ [Next]_vars => ResultsInv'
    <2> SUFFICES ASSUME PlanInv, ResultsInv, [Next]_vars PROVE ResultsInv'
      OBVIOUS
    <2>1. CASE LatencyTest
      BY <2>1, LatencyTestKeeps
    <2>2. CASE BandwidthTest
      BY <2>2, BandwidthTestKeeps
    <2>3. CASE SweepTest
      <3>1. /\ phase = "sweep" /\ phase' = phase /\ UNCHANGED <<config, matrix, bandwidth_matrix>>
            /\ UNCHANGED <<latency_results, bandwidth_results>>
        BY <2>3 DEF SweepTest, InLoop, files, results
      <3> QED
        BY <3>1, OtherStepsKeepResults
    <2>4. CASE Begin
      BY <2>4, OtherStepsKeepResults DEF Begin, files, results
    <2>5. CASE WriteLatencyMatrix
      <3>1. /\ UNCHANGED <<config, latency_results, bandwidth_results, bandwidth_matrix>>
            /\ matrix' = LatencyMatrix /\ phase = "latency"
        BY <2>5 DEF WriteLatencyMatrix, LoopEnds, results
      <3>2. phase' \in {"sweep", "bandwidth", "done"}
        BY <2>5, LoopsEnd DEF Leaves, Later
      <3> QED
        BY <3>1, <3>2, OtherStepsKeepResults
    <2>6. CASE EndSweep
      <3>1. /\ UNCHANGED <<config, latency_results, bandwidth_results, matrix, bandwidth_matrix>>
            /\ phase = "sweep"
        BY <2>6 DEF EndSweep, LoopEnds, results, files
      <3>2. phase' \in {"bandwidth", "done"}
        BY <2>6, LoopsEnd DEF Leaves, Later
      <3> QED
        BY <3>1, <3>2, OtherStepsKeepResults
    <2>7. CASE WriteBandwidthMatrix
      <3>1. /\ UNCHANGED <<config, latency_results, bandwidth_results, matrix>>
            /\ bandwidth_matrix' = BandwidthMatrix /\ phase = "bandwidth"
        BY <2>7 DEF WriteBandwidthMatrix, LoopEnds, results
      <3>2. phase' = "done"
        BY <2>7, LoopsEnd DEF Leaves, Later
      <3> QED
        BY <3>1, <3>2, OtherStepsKeepResults
    <2>8. CASE Interrupt \/ Finished \/ UNCHANGED vars
      <3>1. UNCHANGED <<config, phase, left, latency_results, bandwidth_results, matrix, bandwidth_matrix>>
        BY <2>8 DEF Interrupt, Finished, vars, results, files
      <3> QED
        BY <3>1, OtherStepsKeepResults
    <2> QED
      BY <2>1, <2>2, <2>3, <2>4, <2>5, <2>6, <2>7, <2>8 DEF Next
  <1>3. Spec => []ResultsInv
    BY <1>1, <1>2, PlanInductive, PTL DEF Spec
  <1> QED
    BY <1>3, PlanInductive, PTL

LEMMA LatencyShown ==
  ASSUME PlanInv, ResultsInv
  PROVE  MatrixShowsResults
  <1> SUFFICES ASSUME matrix # <<>>, NEW a \in Agents, NEW b \in Agents
               PROVE  /\ matrix[a][b] = matrix[b][a]
                      /\ \A r \in ToSet(latency_results) :
                           r.success /\ {r.from, r.to} = {a, b} => matrix[a][b] = r.value
                      /\ matrix[a][b] > 0 =>
                           \E r \in ToSet(latency_results) :
                             r.success /\ {r.from, r.to} = {a, b}
    BY DEF MatrixShowsResults
  <1> DEFINE Of(x, y) == {k \in DOMAIN latency_results :
                            /\ latency_results[k].success
                            /\ {latency_results[k].from, latency_results[k].to} = {x, y}}
             Shown(x, y) == IF Of(x, y) = {} THEN 0 ELSE latency_results[Max(Of(x, y))].value
  <1>1. matrix = LatencyMatrix
    BY DEF ResultsInv
  <1>2. matrix[a][b] = Shown(a, b) /\ matrix[b][a] = Shown(b, a)
    BY <1>1 DEF LatencyMatrix
  <1>3. Of(a, b) = Of(b, a)
    OBVIOUS
  <1>4. latency_results \in Seq(Result) /\ DOMAIN latency_results = 1 .. Len(latency_results)
        /\ Len(latency_results) \in Nat
    BY DEF ResultsInv
  <1>5. \A k \in DOMAIN latency_results : \A l \in DOMAIN latency_results :
          {latency_results[k].from, latency_results[k].to}
            = {latency_results[l].from, latency_results[l].to} => k = l
    <2> TAKE k \in DOMAIN latency_results
    <2> TAKE l \in DOMAIN latency_results
    <2>1. PICK i, j, x, y : /\ i = latency_results[k].from /\ j = latency_results[k].to
                            /\ x = latency_results[l].from /\ y = latency_results[l].to
      OBVIOUS
    <2>2. i \in Int /\ j \in Int /\ x \in Int /\ y \in Int
      <3>1. latency_results[k] \in Result /\ latency_results[l] \in Result
        BY <1>4
      <3> QED
        BY <2>1, <3>1 DEF Result
    <2>3. i < j /\ x < y /\ (i = x /\ j = y => k = l)
      BY <2>1 DEF ResultsInv
    <2>4. ASSUME {i, j} = {x, y}
          PROVE  i = x /\ j = y
      <3>1. (i = x \/ i = y) /\ (j = x \/ j = y)
        BY <2>4, Zenon
      <3> QED
        BY <2>2, <2>3, <3>1
    <2> QED
      BY <2>1, <2>3, <2>4
  <1>6. \A k \in Of(a, b) : Shown(a, b) = latency_results[k].value
    <2> TAKE k \in Of(a, b)
    <2>1. IsFiniteSet(Of(a, b)) /\ Of(a, b) \subseteq Int /\ Of(a, b) # {}
      <3>1. Of(a, b) \subseteq 1 .. Len(latency_results) /\ Of(a, b) # {}
        BY <1>4
      <3>2. IsFiniteSet(1 .. Len(latency_results)) /\ 1 .. Len(latency_results) \subseteq Int
        BY <1>4, FS_Interval
      <3> HIDE DEF Of
      <3> QED
        BY <3>1, <3>2, FS_Subset
    <2>2. Max(Of(a, b)) \in Of(a, b)
      <3> HIDE DEF Of
      <3> QED
        BY <2>1, MaxFacts
    <2>3. PICK m : m = Max(Of(a, b)) /\ m \in Of(a, b)
      BY <2>2
    <2>4. m = k
      BY <1>5, <2>3
    <2> HIDE DEF Of
    <2> QED
      BY <2>1, <2>3, <2>4
  <1>7. \A r \in ToSet(latency_results) :
          r.success /\ {r.from, r.to} = {a, b} => \E k \in Of(a, b) : latency_results[k] = r
    BY DEF ToSet
  <1>8. Of(a, b) # {} =>
          \E r \in ToSet(latency_results) : r.success /\ {r.from, r.to} = {a, b}
    BY DEF ToSet
  <1>9. Shown(a, b) = Shown(b, a)
    BY <1>3
  <1>10. Of(a, b) = {} => Shown(a, b) = 0
    OBVIOUS
  <1> HIDE DEF Of, Shown
  <1>11. \A r \in ToSet(latency_results) :
           r.success /\ {r.from, r.to} = {a, b} => matrix[a][b] = r.value
    BY <1>2, <1>6, <1>7
  <1>12. matrix[a][b] > 0 => Of(a, b) # {}
    BY <1>2, <1>10
  <1> QED
    BY <1>2, <1>8, <1>9, <1>11, <1>12

\* The latency file shows every successful round trip, in both halves and once:
\* no pair is measured twice, so that no result overwrites another.
THEOREM LatencyFileIsRight == Spec => []MatrixShowsResults
  <1> QED
    BY LatencyShown, ResultsInductive, PTL

LEMMA PeaksShown ==
  ASSUME PlanInv, ResultsInv
  PROVE  PeaksShowResults
  <1> SUFFICES ASSUME bandwidth_matrix # <<>>, NEW a \in Agents, NEW b \in Agents
               PROVE  LET measured == {r \in ToSet(bandwidth_results) :
                                         r.success /\ r.from = a /\ r.to = b}
                      IN  /\ \A r \in measured : r.value <= bandwidth_matrix[a][b]
                          /\ bandwidth_matrix[a][b] = -1 <=> a # b /\ measured = {}
                          /\ bandwidth_matrix[a][b] > 0 =>
                               \E r \in measured : r.value = bandwidth_matrix[a][b]
    BY DEF PeaksShowResults
  <1> DEFINE rs == bandwidth_results
             measured == {r \in ToSet(rs) : r.success /\ r.from = a /\ r.to = b}
             T == {-1} \cup {r.value : r \in measured}
             shown == bandwidth_matrix[a][b]
  <1>1. shown = IF a = b THEN 0 ELSE Max(T)
    <2>1. bandwidth_matrix = BandwidthMatrix
      BY DEF ResultsInv
    <2>2. T = {-1} \cup {r.value : r \in {q \in ToSet(bandwidth_results) :
                           q.success /\ q.from = a /\ q.to = b}}
      OBVIOUS
    <2> HIDE DEF T
    <2> QED
      BY <2>1, <2>2, Zenon DEF BandwidthMatrix
  <1>2. rs \in Seq(Result) /\ DOMAIN rs = 1 .. Len(rs) /\ Len(rs) \in Nat
    BY DEF ResultsInv
  <1>3. \A r \in measured : r \in Result /\ r.value \in Nat /\ r.from # r.to
    <2> TAKE r \in measured
    <2>1. PICK k \in DOMAIN rs : r = rs[k]
      BY DEF ToSet
    <2>2. rs[k] \in Result /\ rs[k].from # rs[k].to
      BY <1>2, <2>1 DEF ResultsInv
    <2> QED
      BY <2>1, <2>2 DEF Result
  <1>4. IsFiniteSet(T) /\ T \subseteq Int /\ T # {}
    <2> DEFINE f == [k \in 0 .. Len(rs) |-> IF k = 0 THEN -1 ELSE rs[k].value]
               R == {f[k] : k \in 0 .. Len(rs)}
    <2>1. IsFiniteSet(0 .. Len(rs))
      BY <1>2, FS_Interval
    <2>2. f \in Surjection(0 .. Len(rs), R)
      BY DEF Surjection
    <2>3. IsFiniteSet(R)
      <3> HIDE DEF f, R
      <3> QED
        BY <2>1, <2>2, FS_Surjection
    <2>4. \A k \in 1 .. Len(rs) : k \in 0 .. Len(rs) /\ f[k] = rs[k].value
      BY <1>2
    <2>5. -1 \in R
      BY <1>2
    <2>6. \A r \in measured : r.value \in R
      BY <1>2, <2>4 DEF ToSet
    <2>7. T \subseteq R
      <3> HIDE DEF R
      <3> QED
        BY <2>5, <2>6
    <2>8. IsFiniteSet(T)
      <3> HIDE DEF R, T
      <3> QED
        BY <2>3, <2>7, FS_Subset
    <2>9. T \subseteq Int /\ T # {}
      BY <1>3
    <2> QED
      BY <2>8, <2>9
  <1>5. Max(T) \in T /\ \A y \in T : y <= Max(T)
    <2> HIDE DEF T
    <2> QED
      BY <1>4, MaxFacts
  <1>6. PICK m : m = Max(T)
    OBVIOUS
  <1>7. /\ m = -1 \/ \E r \in measured : m = r.value
        /\ \A r \in measured : r.value <= m
    <2>1. m \in T /\ \A y \in T : y <= m
      BY <1>5, <1>6
    <2> HIDE DEF measured
    <2> QED
      BY <2>1
  <1>8. shown = IF a = b THEN 0 ELSE m
    BY <1>1, <1>6
  <1>9. a = b => measured = {}
    BY <1>3
  <1> HIDE DEF T, shown, measured
  <1>10. CASE a = b
    BY <1>8, <1>9, <1>10 DEF shown, measured
  <1>11. CASE a # b
    <2>1. shown = m
      BY <1>8, <1>11
    <2>2. shown = -1 <=> measured = {}
      BY <1>3, <1>7, <2>1
    <2>3. \A r \in measured : r.value <= shown
      BY <1>7, <2>1
    <2>4. shown > 0 => \E r \in measured : r.value = shown
      BY <1>7, <2>1
    <2> QED
      BY <1>11, <2>2, <2>3, <2>4 DEF shown, measured
  <1> QED
    BY <1>10, <1>11

\* The bandwidth file tells directions that were measured from those that were
\* not, and shows each one's peak.
THEOREM BandwidthFileIsRight == Spec => []PeaksShowResults
  <1> QED
    BY PeaksShown, ResultsInductive, PTL
=============================================================================
