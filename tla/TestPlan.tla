------------------------------ MODULE TestPlan ------------------------------
(***************************************************************************)
(* What the controller's main program makes of its configuration: which    *)
(* tests it asks for, in which order and with which window, what it keeps  *)
(* of their results and what it writes into the two matrix files.          *)
(*                                                                         *)
(* A test is one step here: its outcome is a stored result or nothing; how *)
(* it comes about is the subject of TestSession, whose Tests are the       *)
(* commands of this module.  All agents are registered and loaded, as      *)
(* Rendezvous shows.  Products of window and size stay below 2^64.  Left   *)
(* out: the detailed CSV files, which list the stored results, and files   *)
(* that cannot be opened.                                                  *)
(***************************************************************************)
EXTENDS Integers, Sequences, FiniteSets, FiniteSetsExt, SequencesExt

CONSTANTS
  Configs,         \* the configurations looked at (TestConfig and the number of agents)
  Values,          \* the values a test may measure
  MailboxPayload,  \* MAILBOX_SIZE - sizeof(MailboxHeader)
  InboxOffset,     \* AGENT_COMMAND_INBOX_OFFSET: the room for windows
  DefaultWindow,   \* what an agent takes for a window of 0 ...
  DefaultSize      \* ... and for a size of 0

ASSUME LimitsAssumption ==
  /\ {MailboxPayload, InboxOffset, DefaultWindow, DefaultSize} \subseteq Nat \ {0}
  /\ Values \subseteq Nat
ASSUME ConfigsAssumption ==
  \A c \in Configs :
    /\ {c.num_agents, c.message_size, c.bw_window_size} \subseteq Nat
    /\ {c.latency_message_sizes, c.bw_message_sizes} \subseteq Seq(Nat)

VARIABLES
  config,
  interrupted,   \* g_shutdown_requested
  phase,         \* begin, latency, sweep, bandwidth, done
  left,          \* the turns its loops have left
  commands,      \* the tests asked for; command_seq_ is their number
  latency_results, latency_detailed_results, bandwidth_results,
  matrix,            \* the latency matrix file (<<>> before it is written)
  bandwidth_matrix   \* the bandwidth matrix file

results == <<latency_results, latency_detailed_results, bandwidth_results>>
files   == <<matrix, bandwidth_matrix>>
vars    == <<config, interrupted, phase, left, commands, results, files>>

Agents == 0 .. config.num_agents - 1

Init ==
  /\ config \in Configs
  /\ interrupted = FALSE /\ phase = "begin" /\ left = {} /\ commands = <<>>
  /\ latency_results = <<>> /\ latency_detailed_results = <<>> /\ bandwidth_results = <<>>
  /\ matrix = <<>> /\ bandwidth_matrix = <<>>

----------------------------------------------------------------------------
(***************************************************************************)
(* The loops.                                                              *)
(***************************************************************************)

\* Faulty variant: a round trip is measured from both ends.
PingPairsBothWays == {p \in Agents \X Agents : p[1] # p[2]}

\* Ping-pong measures round trips: each pair once, the lower number initiates.
PingPairs == {p \in Agents \X Agents : p[1] < p[2]}

BandwidthPairs == {p \in Agents \X Agents : p[1] # p[2]}

\* The turns of the nested loops: two agents, and the place of a size in its list.
Turns(ph) ==
  CASE ph = "latency"   -> {<<p[1], p[2], 1>> : p \in PingPairs}
    [] ph = "sweep"     -> {<<p[1], p[2], k>> : p \in PingPairs,
                                                k \in DOMAIN config.latency_message_sizes}
    [] ph = "bandwidth" -> {<<p[1], p[2], k>> : p \in BandwidthPairs,
                                                k \in DOMAIN config.bw_message_sizes}
    [] OTHER            -> {}

\* The loops go through their turns in order.
NextTurn(s) ==
  \A t \in left :
    s[1] < t[1] \/ (s[1] = t[1] /\ (s[2] < t[2] \/ (s[2] = t[2] /\ s[3] <= t[3])))

\* On to the first of these phases that is wanted; an interrupt skips them all.
GoOn(phases) ==
  LET wanted == {k \in DOMAIN phases : config.run[phases[k]] /\ ~interrupted}
  IN  /\ phase' = IF wanted = {} THEN "done" ELSE phases[Min(wanted)]
      /\ left' = Turns(phase')

Stored(r) == {<<>>, <<[from |-> r.from, to |-> r.to, size |-> r.size,
                       success |-> FALSE, value |-> 0]>>}
               \cup {<<[from |-> r.from, to |-> r.to, size |-> r.size,
                        success |-> TRUE, value |-> v]>> : v \in Values}

----------------------------------------------------------------------------
(***************************************************************************)
(* The tests.                                                              *)
(***************************************************************************)
Begin ==
  /\ phase = "begin"
  /\ phase' = IF interrupted \/ config.num_agents < 2 THEN "done" ELSE "latency"
  /\ left' = Turns(phase')
  /\ UNCHANGED <<config, interrupted, commands, results, files>>

InLoop(ph, t) ==
  /\ phase = ph /\ ~interrupted /\ NextTurn(t)
  /\ left' = left \ {t}
  /\ UNCHANGED <<config, interrupted, phase, files>>

LatencyTest == \E t \in left :
  /\ InLoop("latency", t)
  /\ LET cmd == [kind |-> "ping", from |-> t[1], to |-> t[2],
                 size |-> config.message_size, window |-> 0]
     IN  IF cmd.size > MailboxPayload
         THEN UNCHANGED <<commands, results>>
         ELSE /\ commands' = Append(commands, cmd)
              /\ \E r \in Stored(cmd) : latency_results' = latency_results \o r
              /\ UNCHANGED <<latency_detailed_results, bandwidth_results>>

SweepTest == \E t \in left :
  /\ InLoop("sweep", t)
  /\ LET cmd == [kind |-> "sweep", from |-> t[1], to |-> t[2],
                 size |-> config.latency_message_sizes[t[3]], window |-> 0]
     IN  IF cmd.size > MailboxPayload
         THEN UNCHANGED <<commands, results>>
         ELSE /\ commands' = Append(commands, cmd)
              /\ \E r \in Stored(cmd) :
                   latency_detailed_results' = latency_detailed_results \o r
              /\ UNCHANGED <<latency_results, bandwidth_results>>

\* Faulty variant: the window is rounded up.
EffectiveWindowUp(size) ==
  IF config.bw_window_size * size > InboxOffset
  THEN (InboxOffset + size - 1) \div size
  ELSE config.bw_window_size

\* The window of a size, cut down if the windows would not fit the buffer.
EffectiveWindow(size) ==
  IF config.bw_window_size * size > InboxOffset
  THEN InboxOffset \div size
  ELSE config.bw_window_size

\* execute_bandwidth refuses windows that do not fit (code 10).
AgentTakes(cmd) ==
  LET window == IF cmd.window > 0 THEN cmd.window ELSE DefaultWindow
      size   == IF cmd.size > 0 THEN cmd.size ELSE DefaultSize
  IN  window * size <= InboxOffset

TooLarge(size) ==
  config.bw_window_size * size > InboxOffset /\ EffectiveWindow(size) < 1

BandwidthTest == \E t \in left :
  /\ InLoop("bandwidth", t)
  /\ LET size == config.bw_message_sizes[t[3]]
         cmd  == [kind |-> "bandwidth", from |-> t[1], to |-> t[2],
                  size |-> size, window |-> EffectiveWindow(size)]
     IN  IF TooLarge(size)
         THEN UNCHANGED <<commands, results>>
         ELSE /\ commands' = Append(commands, cmd)
              /\ \E r \in {q \in Stored(cmd) : AgentTakes(cmd) \/ q = <<>> \/ ~q[1].success} :
                   bandwidth_results' = bandwidth_results \o r
              /\ UNCHANGED <<latency_results, latency_detailed_results>>

----------------------------------------------------------------------------
(***************************************************************************)
(* The matrix files.                                                       *)
(***************************************************************************)

\* Faulty variant: a result is entered for its initiator only.
LatencyMatrixUpper ==
  [a \in Agents |-> [b \in Agents |->
     LET ks == {k \in DOMAIN latency_results :
                  /\ latency_results[k].success
                  /\ latency_results[k].from = a /\ latency_results[k].to = b}
     IN  IF ks = {} THEN 0 ELSE latency_results[Max(ks)].value]]

\* Entries start at 0; every successful result is entered in both halves.
LatencyMatrix ==
  [a \in Agents |-> [b \in Agents |->
     LET ks == {k \in DOMAIN latency_results :
                  /\ latency_results[k].success
                  /\ {latency_results[k].from, latency_results[k].to} = {a, b}}
     IN  IF ks = {} THEN 0 ELSE latency_results[Max(ks)].value]]

\* Faulty variant: the latest value instead of the largest.
BandwidthMatrixLatest ==
  [a \in Agents |-> [b \in Agents |->
     LET ks == {k \in DOMAIN bandwidth_results :
                  /\ bandwidth_results[k].success
                  /\ bandwidth_results[k].from = a /\ bandwidth_results[k].to = b}
     IN  IF a = b THEN 0 ELSE IF ks = {} THEN -1 ELSE bandwidth_results[Max(ks)].value]]

\* Entries start at -1 and grow to the peak over all sizes; the diagonal is 0.
BandwidthMatrix ==
  [a \in Agents |-> [b \in Agents |->
     IF a = b THEN 0
     ELSE Max({-1} \cup {r.value : r \in {q \in ToSet(bandwidth_results) :
                           q.success /\ q.from = a /\ q.to = b}})]]

LoopEnds(ph) ==
  /\ phase = ph /\ (interrupted \/ left = {})
  /\ UNCHANGED <<config, interrupted, commands, results>>

WriteLatencyMatrix ==
  /\ LoopEnds("latency")
  /\ matrix' = LatencyMatrix
  /\ GoOn(<<"sweep", "bandwidth">>)
  /\ UNCHANGED bandwidth_matrix

EndSweep ==
  /\ LoopEnds("sweep")
  /\ GoOn(<<"bandwidth">>)
  /\ UNCHANGED files

WriteBandwidthMatrix ==
  /\ LoopEnds("bandwidth")
  /\ bandwidth_matrix' = BandwidthMatrix
  /\ GoOn(<<>>)
  /\ UNCHANGED matrix

Interrupt ==
  /\ ~interrupted /\ phase # "done"
  /\ interrupted' = TRUE
  /\ UNCHANGED <<config, phase, left, commands, results, files>>

Finished == phase = "done" /\ UNCHANGED vars

Next ==
  \/ Begin
  \/ LatencyTest \/ WriteLatencyMatrix
  \/ SweepTest \/ EndSweep
  \/ BandwidthTest \/ WriteBandwidthMatrix
  \/ Interrupt
  \/ Finished

Spec == Init /\ [][Next]_vars

----------------------------------------------------------------------------
(***************************************************************************)
(* Properties.                                                             *)
(***************************************************************************)
\* The commands for a round trip, whoever initiates it, and for a direction.
RoundTrips(kind, a, b, size) ==
  {k \in DOMAIN commands : /\ commands[k].kind = kind /\ commands[k].size = size
                           /\ {commands[k].from, commands[k].to} = {a, b}}
Transfers(a, b, size) ==
  {k \in DOMAIN commands : /\ commands[k].kind = "bandwidth" /\ commands[k].size = size
                           /\ commands[k].from = a /\ commands[k].to = b}

\* The places at which a list names a size.
Named(sizes, size) == {k \in DOMAIN sizes : sizes[k] = size}

\* A loop that has been gone through to its end: the phase is a later one, and
\* not reached by an interrupt.
Over(later) == phase \in later \/ (phase = "done" /\ ~interrupted)

\* Never more tests than planned, and all of them when the loop is over.
Planned(asked, places, over) ==
  /\ Cardinality(asked) <= Cardinality(places)
  /\ over => Cardinality(asked) = Cardinality(places)

\* Each round trip is asked for once per pair, each size of the sweep once per
\* pair and mention in its list, and each bandwidth once per direction and
\* mention, if the buffers have room for it (or the window is left to the agent);
\* a later phase begins only when every pair has had its tests of the earlier.
PlanIsComplete ==
  /\ \A a, b \in Agents : a # b =>
       /\ Planned(RoundTrips("ping", a, b, config.message_size),
                  IF config.message_size <= MailboxPayload THEN {1} ELSE {},
                  Over({"sweep", "bandwidth"}))
       /\ \A size \in ToSet(config.latency_message_sizes) :
            Planned(RoundTrips("sweep", a, b, size),
                    IF config.run["sweep"] /\ size <= MailboxPayload
                    THEN Named(config.latency_message_sizes, size) ELSE {},
                    Over({"bandwidth"}))
       /\ \A size \in ToSet(config.bw_message_sizes) :
            Planned(Transfers(a, b, size),
                    IF config.run["bandwidth"] /\ (config.bw_window_size = 0 \/ size <= InboxOffset)
                    THEN Named(config.bw_message_sizes, size) ELSE {},
                    Over({}))
  /\ \A k \in DOMAIN commands :
       /\ commands[k].from # commands[k].to /\ {commands[k].from, commands[k].to} \subseteq Agents
       /\ commands[k].size \in CASE commands[k].kind = "ping"      -> {config.message_size}
                                 [] commands[k].kind = "sweep"     -> ToSet(config.latency_message_sizes)
                                 [] commands[k].kind = "bandwidth" -> ToSet(config.bw_message_sizes)

\* No agent refuses a bandwidth test for its size, unless the configuration
\* leaves the window or the size to the agent, and no larger window would do.
Fitting(c) ==
  c.kind = "bandwidth" /\ c.window > 0 /\ c.size > 0 =>
    /\ AgentTakes(c)
    /\ \A w \in c.window + 1 .. config.bw_window_size : w * c.size > InboxOffset

WindowsFit == \A k \in DOMAIN commands : Fitting(commands[k])

\* The latency file shows every successful round trip, in both halves, and no
\* latency that is not one's; how it marks the pairs without any is the question
\* of UnmeasuredMarked.
MatrixShowsResults ==
  matrix # <<>> =>
    \A a, b \in Agents :
      /\ matrix[a][b] = matrix[b][a]
      /\ \A r \in ToSet(latency_results) :
           r.success /\ {r.from, r.to} = {a, b} => matrix[a][b] = r.value
      /\ matrix[a][b] > 0 =>
           \E r \in ToSet(latency_results) : r.success /\ {r.from, r.to} = {a, b}

\* The bandwidth file tells pairs that were measured from those that were not,
\* and shows the peak of each direction.
PeaksShowResults ==
  bandwidth_matrix # <<>> =>
    \A a, b \in Agents :
      LET measured == {r \in ToSet(bandwidth_results) : r.success /\ r.from = a /\ r.to = b}
      IN  /\ \A r \in measured : r.value <= bandwidth_matrix[a][b]
          /\ bandwidth_matrix[a][b] = -1 <=> a # b /\ measured = {}
          /\ bandwidth_matrix[a][b] > 0 => \E r \in measured : r.value = bandwidth_matrix[a][b]

\* controller.hpp:203 says of the latency file: "Diagonal is 0, unmeasured pairs
\* are -1".  A run finds a pair that is not.
UnmeasuredMarked ==
  matrix # <<>> =>
    \A a, b \in Agents :
      (\A r \in ToSet(latency_results) : r.success => {r.from, r.to} # {a, b}) =>
        matrix[a][b] = IF a = b THEN 0 ELSE -1
=============================================================================
