# Models of the topology discovery program

TLA+ models of `nixl-topo-disc`, a program that measures latency and bandwidth
between the nodes of a cluster by one-sided RDMA transfers and infers the
network's topology from the measurements.  Paths are relative to the root of the
repository; `PROJECT.json` maps every definition to the lines it stands for.

Contents: [the system](#the-system), [the modules](#the-modules),
[the runs](#the-runs), [the proofs](#the-proofs),
[what the models leave out](#what-the-models-leave-out),
[disagreements between code and comments](#disagreements), [the plan](#the-plan).

## The system

A **controller** and N **agents**, one process each.  Locally the controller
forks the agents; in the simulation harness controller and agents run in
containers.  A session has four parts:

1. *Rendezvous.*  Every agent writes its slot (address and NIXL metadata) into
   the controller's buffer; the controller waits until all slots are populated and
   calls the agents; every agent reads all slots, connects to its peers and
   reports back.
2. *Tests.*  Three nested loops (latency, optional latency sweep, optional
   bandwidth) issue one test after the other to two agents at a time and store
   the results.
3. *Files.*  A latency matrix, a bandwidth matrix, and the detailed lists.
4. *Topology.*  Offline: hierarchical clustering of the latency matrix, tiers,
   hidden nodes (switches) and edges.

| Component | Sources | State | Operations | What is hard about it |
|---|---|---|---|---|
| Rendezvous | `controller_main.cpp`, `controller.cpp`, `agent_main.cpp`, `agent.cpp` | populated flags, loaded metadata, notification queues, `peer_discovery_done`, each agent's `peers_` | spawn, register, wait for all, call, discover peers, report, wait for shaping | independent timeouts on both sides, a fork in which signals get lost, `get_notifications` that keeps one message per sender, flags that outlive the agent that set them |
| Test session (controller) | `controller.cpp`, `controller_main.cpp`, `controller_buffer.cpp` | `command_seq_`, result slots, result vectors, `g_shutdown_requested` | issue to responder and initiator, wait, fetch and store, give up, shut down | nobody acknowledges a command; a slot is never cleared; a wait that runs out leaves both agents where they are |
| Agent | `agent.cpp`, `agent_main.cpp` | command inbox, mailbox, `last_command_seq_`, test buffer | take a command, ping-pong, bandwidth, report, obey SHUTDOWN or a signal | message numbers restart at 1 in every test and are compared by "greater than" only; staging area and window area overlap |
| NIXL wrapper | `nixl_wrapper.cpp` | transfers, notifications, remote metadata | write, read, notify, load metadata | a transfer that fails may have reached its target |
| Shared memory layout | `types.hpp`, `memory.hpp`, `controller_buffer.hpp` | the fields the two protocols poll | | a sequence number and what it announces are one transfer |
| Test plan | `controller_main.cpp`, `controller.cpp` | configuration, loops, result vectors, matrices | each loop's turn, window limit, the two matrix files | limits in three places that must agree; one interrupt flag for three nests of loops |
| Topology | `src/src/topology` | distance matrix in use, dendrogram, tiers, hidden nodes, edges | build, cut, assign tiers, infer hidden nodes, construct edges | one matrix rewritten in place; clusters recomputed and matched by counting; latencies of edges derived from those of lower edges |
| Graph and visualisation | `topology_graph.cpp`, `topology_viz.cpp` | none of its own | adjacency list, DOT, JSON, GraphViz | nothing |
| Harness | `src/src/harness` | network and containers, `tc` rules in the agents' containers, `.tc_ready`, the matrix file | `up`, `down`, `collect`, each a sequence of docker commands that may fail | containers, signal files and matrices that outlive a session; a controller that goes on spawning while it is removed; rules that fail in the middle; time estimates in 32 bits; a threshold that must find the tiers again |

How they interact.  Controller and agents share memory only: the controller
writes an agent's inbox, agents write each other's mailboxes and their own slot
of the controller's buffer.  Nothing interrupts the owner of the memory, who
finds out by polling.  The call and the two reports of the rendezvous are
notifications, which wait in the receiver's process.  The harness talks to the
controller by files; the topology builder reads what the controller wrote.

Each component is correct if:

- *Rendezvous*: no test begins before everybody is connected to everybody; an
  agent that is called finds what it was called for; an agent that gave up keeps
  the session from starting; the controller comes to a decision; nobody is left
  behind when it leaves.
- *Session*: a stored result is the outcome of that test, once executed, and never
  of another; without timeouts no command is lost and no message of another test
  is taken; the session ends.
- *Plan*: every pair, direction and size as often as the configuration names it, no window that an agent must
  refuse, files that show what was measured.
- *Topology*: merges are those of the linkage's definition; cuts separate what
  they should; tiers, hidden nodes and edges agree with the cuts and, in a regular
  network, with the measurements.
- *Harness*: what is left of one session never enters the next; the signal is a
  promise (all rules in place, or a warning given) that stays true as long as the
  tests run; `down` leaves nothing but what docker refused to remove; what
  `collect` copies is a finished matrix of this session, or something went wrong;
  a test that was found to fit does fit, and the generated threshold separates
  what the rules separate.  Where the code keeps this only in part the properties
  say in which, and [disagreements](#disagreements) has the rest.

`PROJECT.json` lists the hazards behind these properties, each at its line.

## The modules

    Barrier  <--implements--  Rendezvous --- RendezvousInv --- MCRendezvous
                                                 \--- RendezvousProofs
    Campaign <--implements--  TestSession -- TestSessionInv
                                                 |\-- TestSessionProofs
                                                 \--- TestSessionTimely --- TimelyProofs
                                                                    \------ MCTestSession
                              TestPlan ----- TestPlanProofs (Induction), MCTestPlan
    Agglomeration <--impl.--  Dendrogram --- Topology -------- MCTopology
                                                 \--- TopologyProofs (Induction)
    Shaping ---- Harness ---- HarnessInv -- MCHarness
        \                         \--- HarnessProofs
         \--- ShapedRun ---- ShapingProofs,  MCShapedRun

The three parts of a session meet at their ends, by properties and not by
composition (their product would be far too large): `Rendezvous` shows in
`SessionConnected` what `TestSession` starts from, and the `commands` of
`TestPlan` are the `Plan` of `TestSession`, which takes any plan at all; the
matrix that `TestPlan` writes is what `Topology` reads, with the threshold of
`Shaping`.  `Harness` is a composition: the commands of the harness and the
controllers they start, whose sessions are cut down to their stages (`Rendezvous`
stands behind the stage `"rendezvous"`, `TestSession` and `TestPlan` behind
`"tests"`).

### TestSession, Campaign

| Model | Code |
|---|---|
| `pc`, `next` | where `main` is (controller_main.cpp from line 464), in `issue_ping_pong_test`, `issue_bandwidth_test`, `wait_for_results`, `shutdown_agents` |
| `seq`, `slot`, `stored`, `stop` | `command_seq_`, the result slots, the result vectors, `g_shutdown_requested` |
| `inbox`, `mailbox` | `AgentCommandInbox` and the sequence of `MailboxHeader` in an agent's memory |
| `mode`, `cmd`, `last`, `iter`, `seen`, `status` | where `run_command_loop` is, the command being executed, `last_command_seq_`, the loop counter and `my_last_seen_seq` of the exchange, the status to report |
| `RefuseTest`, `IssueToResponder`, `IssueToInitiator` | the issue functions: size check, `++command_seq_`, the responder's write, the 100 us sleep, the initiator's write |
| `ResultArrives`, `StoreResult`, `GiveUp` | `wait_for_results`, then `get_result` and the push to the vectors; the deadline |
| `BeginShutdown`, `SendShutdown`, `Exit` | `shutdown_agents`, `terminate_agents` |
| `TakeCommand`, `ObeySignal` | `poll_and_execute_command`, `run_command_loop` |
| `ResetMailbox` ... `SendPong` | `execute_ping_pong` and `execute_bandwidth`, both sides |
| `ReportResult` | `report_result` |

`seqOf`, `exec`, `mixed` and the field `from` of a mailbox are history: the
behaviour does not depend on them.  Besides the order of steps the faults are:
any wait may end by its timeout, any write may fail with or without having taken
effect, the user may interrupt at any time, and the windows of a bandwidth sender
that everybody else gave up still land on what the receiver is about to transfer
(`Overrun`, `Staged`).

`Campaign` is what the readers of the result files rely on: tests are gone
through once and in order, the agents may be late, and an entry of the log is the
outcome of one execution of that very test.

### Rendezvous, Barrier

`pc` is where `main` of the controller is, `registered` and `loaded` the
populated flags and `agent_metadata_loaded_`, `reported` what the next
`get_notifications` would return for an agent, `done` `peer_discovery_done`;
`mode` is where `main` of an agent is, `called` the unread call, `peers` the
connected entries of `peers_`.  A pass of `wait_for_all_agents` is one step that
loads any of the agents registered so far: an agent may register behind the
pass's back, and a load may fail without consequences.  Between `fork` and `exec`
a signal is handled by the controller's handler and forgotten (`ExecAgent`);
before the agent installs a handler it kills (`KilledBySignal`).  `Barrier` is a
barrier of two doors: the first opens when all have arrived, the second when all
have met all the others; either may be given up.

### TestPlan

One step per turn of the loops of `main` (controller_main.cpp from line 464), a test being one step whose
outcome is a stored success with any value, a stored failure, or nothing.
`EffectiveWindow` is the controller's limit, `AgentTakes` the agent's check.  The
two matrices are computed from the result vectors as the code computes them.

### Dendrogram, Topology, Agglomeration

`Merge` is a turn of the loop of `Dendrogram::build`: the first of the closest
pairs, the new node, row and column `i` rewritten, `j` retired.  `Cut` is
`cut_at_threshold`.  `AssignTiers`, `InferHiddenNodes`, `ConstructEdges` are the
functions of `TopologyBuilder`.  `Agglomeration` is the textbook's clustering: a
partition of the leaves, of which two closest parts, by the linkage's definition
on the original distances, are joined.

### Harness, Shaping, ShapedRun

| Model | Code |
|---|---|
| `step`, `at` | where `Harness::up`, `down`, `collect` and `apply_network_shaping` are, and which agent their loop has come to |
| `network`, `box`, `shaped` | what docker knows: the network, each agent's container, the containers in which all `tc` commands have been executed |
| `ctl`, `next`, `stopping`, `took` | the controller's container and `main` in it, the loop over `spawn_agent_container`, `g_shutdown_requested`, the signal that was found |
| `inOutput` | whether `output_csv_path` is `/output/latency_matrix.csv`, which a test file may say and the default does not |
| `signal`, `matrix` | `.tc_ready` and `latency_matrix.csv` in the output directory |
| `BeginUp` ... `StartControllerFails` | `up`: signal files, estimate, network, controller |
| `ClearSignal` | `clear_signal_files`, which may fail without anybody noticing; also at the end of `down` |
| `FindAgent` ... `WriteSignal` | `apply_network_shaping` |
| `BeginDown` ... `EndDown` | `down` with the commands of `network_manager.cpp`; `docker stop` sends SIGTERM, waits, and kills |
| `BeginCollect` ... `CopyResults` | `collect` |
| `SpawnContainer` ... `EndTests` | `main` of the controller as far as containers, signal and matrix file go; `OpenMatrix`, `OpenMatrixFails` and `WriteElsewhere` are the three things that become of the matrix |
| `TierIndex`, `LeastDelay`, `MostDelay`, `WithinThreshold` | `tc_manager.cpp`, `generate_tier_config` |
| `Accepts` | `validate_timeout_config`, modulo `W` |
| `config`, `test`, `found`, `rtt` of `ShapedRun` | `cluster.json`, the test parameters, whether the estimate has read them, the latency matrix |
| `Validate`, `Measure`, `Generate` | the validation in `up`, the latency tests as far as shaping decides what they measure, `generate_tier_config` in `collect` |

`session`, `owner`, `took`, the session in `signal` and `matrix`, `warned`,
`stuck`, `kept` and `troubled` are history: the program knows a name and whether a
file exists, and nothing of whose they are.  `kept` has the sessions whose signal a
command failed to remove.  `troubled` is set by whatever a user could see go wrong,
and by a start on what is left over; only a `down` that leaves nothing behind, no
signal either, resets it.  Commands are given one after the other from one shell;
`Kill` is a Ctrl-C between any two steps of one.

## The runs

| Run | Question | Instance |
|---|---|---|
| `session_timely` | Nothing fails and no wait runs out: is every test measured by its own messages, does no command get lost in the inbox, is everybody idle at SHUTDOWN, does the session end without signals? Is the invariant of the proofs about timely sessions one? | 3 agents in containers; `PlanAllPairs`: all pairs, both kinds, two tests that are refused (by the controller and by the agent), one with no iterations; interrupt |
| `session_faults` | Whatever times out, fails, overruns or is interrupted: is a stored result the test's own, and do controller and agents end? Is the invariant of the proofs one, and `Campaign` implemented? | 2 local agents, fairness; `PlanSamePair`: three tests of one pair, both directions, so late senders, responders and results all meet a later test of their pair |
| `rendezvous_timely` | Nothing fails: does the session begin with everybody in the command loop? | 4 agents in containers |
| `rendezvous_faults` | Every timeout, failure, crash, interrupt: no session without all connections, no session if an agent gave up, a decision in the end, nobody left behind? Is the invariant of the proofs one, and `Barrier` implemented? | 3 local agents |
| `harness` | Whatever docker refuses, crashes or is killed, over the life of a cluster: are sessions kept apart, is the signal true, is `down` thorough, is a matrix that was to be collected collected as measured, does everything end? Is the invariant of the proofs one? | 2 agents, at most 2 controllers, all faults, fairness |
| `shaped_run` | Does the generated threshold find the tiers in what is measured, and does a test fit that was found to? | 3 agents; 6,916 configurations of the shaping and 6 of the tests, every way the jitter may fall |
| `plan` | Is the plan complete, does every window fit, do the files show the results? | 8 configurations at the limits, one of which names sizes twice, any outcome of every test, interrupt |
| `topology` | Clustering, cuts, tiers, hidden nodes, edges | all matrices of 4 distances (0, one at each of two thresholds, one above both) over 4 leaves, all 3 linkages |
| `responder_ready`, `stale_message`, `unmeasured_pairs`, `tier_bounds` | does the code do what a comment or document says? See [disagreements](#disagreements) | those of the passing runs, or smaller ones |

**Bounds.**  They are the constants of the configurations; no action carries a
bound of its own, all loops of the code being finite.

- *Sessions.*  A test involves two agents, and what one test can do to another
  goes through an inbox, a mailbox or a slot of an agent they share.  Two agents
  and three tests in both directions already let each of these be left over from a
  test and a test before it; the third agent of `session_timely` brings in chains
  (responder, then initiator elsewhere).  Rounds: two tell "next round" from "last
  round"; one is enough in `session_faults`, whose safety properties are also proved
  for every plan, and none in its last test, which then reports at once.
- *Rendezvous.*  Three agents allow one that is late, one that is gone and one
  that is where it should be; the proofs are for every number.
- *Harness.*  Two agents are the first and the last of every loop.  Two sessions are one that leaves something behind and
  one that finds it; each session's matrix goes to the output directory or not; `down`, `collect` and attempts that start no controller are
  not bounded.
- *ShapedRun.*  Latencies on both sides of the millisecond at
  which `format_latency` begins to round and on both sides of `Separable`;
  numbers of rounds on both sides of the limits; racks that overlap or lack agents;
  a word of 2^26 values instead of 2^32, so that wrapped products occur with such
  numbers.  Three agents are a tier of two and one outside it.
- *Plan.*  Buffers in units: 20 for the 256 MiB less 128 KiB that windows may
  fill, 6 for a size of 4 MiB, 4 for a window of 64, so that windows that just fit
  and just do not, a size beyond the buffer, and a window or size of 0 all occur.
- *Topology.*  Four leaves are the least for two clusters that merge at a second
  tier and for a chain of three merges.  Distances are multiples of 12 units, so
  all averages are whole, and `Scale` is 12, so edges are rounded as in the code.

**Switches.**  `DelaySuffices` lets the 100 us sleep do what its comment says and
is on only where a property needs it (see [disagreements](#disagreements));
`CtrlMayTimeOut`, `PeerMayTimeOut`, `WritesMayFail`, `MayTimeOut`, `MayFail`,
`MayCrash`, `MayInterrupt` allow faults; `LocalMode` tells child processes from
containers; `Shaped` makes the controller wait for the shaping; `MayKill` lets the
user kill a command of the harness, `Enabled` is its `network_shaping.enabled`.

**Fairness.**  Weak fairness of the controller's step as a whole and of each
agent's step as a whole: every process keeps running, and every loop of the code
polls without blocking on anybody (a short sleep or none, and a look at
memory).  No fairness is assumed of single alternatives, of the interrupt or of
crashes; in particular a timeout is never forced while a message can be taken
instead, only when there is nothing else to do.  With timeouts allowed this
is what the code's deadlines guarantee; without them (`session_timely`,
`rendezvous_timely`) liveness comes from the protocol alone.  In `harness` a
command that was given and a controller that was started keep running; none is
assumed of the user's commands, the exits of agents or the SIGKILL of `docker stop`
(`KillController` is outside the fair actions).

**Deadlock** is looked for in all runs.  `Quiet`, `Over` and `Finished` are the
states in which a system may rest, and nothing else counts as one: the controller
has left, or the work is done.

**What they show.**  All properties of the passing runs hold.  The notable ones:

- `StoredIsExecuted`, `SlotNeverRegresses`, `KeepsCampaign`: of the three
  sequence numbers in play the command's own is enough to keep results apart.
  Late reports never reach another test's row, whatever else goes wrong.
- `CleanMeasurement`, `NoCommandOverwritten`, `ShutdownFindsAgentsIdle`: hold only
  as long as no wait runs out.  After a timeout the verdict is still the right
  test's, but what was measured may contain messages of the test before.
- `SessionPopulated`: an agent that ran out of its own 60 s leaves its flag set,
  the controller is deceived for the registration only, and the second wait (for
  the reports) catches it.
- `SessionEnds` in `session_faults` needs `terminate_agents`: with containers and a
  lost SHUTDOWN an agent polls for ever, until the harness removes its container.
- `SessionIsOwn`: two things keep a left-over signal from the next session: `up`
  removes it before anything else, and docker refuses a second controller while
  the first has its name.  The removal may fail, and nobody is told: a signal that
  a command failed to remove is the one exception (`kept`).  Two keep left-over agents out: the same refusal of
  names, and that the controller looks at its result.
- `ShapedOrWarned`, `RulesStable`: the signal is written also when rules failed,
  and the tests begin also without a signal; so the file alone says nothing.  The
  properties say what output of the harness has to be watched for it to mean
  something, and speak of tests that found the signal of their own `up`.
- `CollectedIsMeasured`: `collect` copies whatever matrix is there.  It is this
  session's if nothing went wrong since a clean start, there are two agents or more,
  and the test file names the matrix in the output directory; otherwise it may be
  an earlier session's without anything having gone wrong.
- `DownCleans`: as long as the controller was not removed it may make containers
  behind the back of the loop that removes them; hence the order of `down`.
- `TiersSeparated`: the matrix holds round trips, the threshold is made of one-way
  latencies, and from a millisecond on netem gets whole milliseconds.  A factor
  of four between the tiers (and jitter of at most a quarter) makes up for both;
  below that the tiers may be merged or torn.
- `AcceptedFits` needs that nothing wraps, that no tier is slower than what lies
  between tiers, and that the file in `./output` is the one the controller reads;
  without any of the three an accepted test may be far too long.
- `MatrixShowsResults` leaves open what stands for a pair without a result, and
  `TiersAreTightest` is about the comparison of `dendrogram.hpp`; what other
  places say of both is refuted by `unmeasured_pairs` and `tier_bounds`.
- `PlanIsComplete` counts: a size that a list names twice is tested twice, no test
  is asked for beyond the plan in any state, and what is missing is what the
  buffers cannot hold.
- `EdgesAreForest`: connected are exactly the members of the clusters of the lowest
  tier that has any; a node that joins a cluster later has no edge, although it is
  a member of a hidden node.
- `EdgesExplainLatencies`: in a regular network whose nodes are all connected,
  the latencies along the edges add up to the measured ones, as long as no
  cluster lasts over a tier (`NoTierSkipped`).  Where one does, its hidden node gets no
  parent, since `construct_edges` looks for parents exactly one tier up; the
  climb from its first member then ends there, and the edge above the cluster that
  contains it comes out too long, for members from whom there is a way as well.
  It takes four thresholds and twelve nodes for that to happen (pairs, some of which
  join at the second threshold and some only at the third, joined at the
  fourth), far from what all matrices over four leaves can show.  The other
  conditions: latencies are whole and even, which keeps `construct_edges` from
  rounding.

## The proofs

Checked by TLAPS, for every value of the constants that satisfies the named
assumptions (`NAssumption`: at least one agent or leaf; `PlanAssumption`: tests
have two different agents; the switches are Booleans; limits and distances are
natural numbers; thresholds ascend; `ClusterAssumption`, `NumbersAssumption`,
`ConfigsAssumption`, `TestsAssumption`: at least one agent, numbers are natural
numbers).

| Theorem | Says |
|---|---|
| `TestSessionProofs!TypeCorrect`, `Inductive` | types and the invariant `IInv` |
| `StoredResultsAreOwn`, `SlotsNeverRegress` | the two properties above, under every fault, for every plan and number of agents |
| `SessionIsCampaign` | `TestSession` implements `Campaign` |
| `TimelyProofs!TimelyInvariant` | the invariant `TInv` of timely sessions |
| `MeasurementsAreClean`, `TimelySessionsMeasureAll`, `ShutdownIsQuiet`, `InboxesAreFree` | `CleanMeasurement`, `AllMeasured`, `ShutdownFindsAgentsIdle`, `NoCommandOverwritten` of timely sessions, for every plan and number of agents |
| `RendezvousProofs!RendezvousInductive` | the invariant `RInv` |
| `SessionsAreConnected`, `SessionsArePopulated`, `CalledAgentsFindAll` | the three properties, under every fault and for every number of agents |
| `RendezvousIsBarrier` | `Rendezvous` implements `Barrier` |
| `TestPlanProofs!AllWindowsFit` | the controller's limit and the agent's check agree, for every configuration and size of the buffer |
| `CountInductive`, `AllIsAsked` | the invariant `CountInv`; `PlanIsComplete`, for every configuration, number of agents and size of the buffer |
| `ResultsInductive`, `LatencyFileIsRight`, `BandwidthFileIsRight` | the invariant `ResultsInv`; `MatrixShowsResults` and `PeaksShowResults`, whatever the tests give |
| `TopologyProofs!ClusteringInductive` | the invariant `DInv` |
| `MergesGetHigher` | merges never get lower, for all three linkages |
| `MatrixIsLinkage`, `BuildIsAgglomeration` | single and complete linkage: the updated matrix is the linkage's, and `build` implements `Agglomeration` |
| `TreeInductive`, `CutsAreRight` | the invariant `Tree` of the nodes; `CutsAreSound` for single and complete linkage |
| `PhasesInductive` | the invariant `PInv` of the steps of `build` |
| `TiersAreRight`, `HiddenNodesAreRight`, `EdgesAreRight` | `TiersAreTightest`, `HiddenAreClusters`, `EdgesAreForest`, for all three linkages, any thresholds, any matrix |
| `SpreadInductive` | the invariant `SInv`: what every linkage, average linkage included, says of some two leaves |
| `EdgesAddUp` | `EdgesExplainLatencies`, for all three linkages, any thresholds, any number of nodes |
| `HarnessProofs!HarnessInvariant` | the invariant `HInv` |
| `SessionsAreOwn`, `SignalsKeepTheirPromise`, `RulesAreStable`, `DownLeavesOnlyTheStuck`, `ResultsAreTheSessions` | the five safety properties of the harness with the exceptions they state (a signal that could not be removed, a matrix that goes elsewhere), for every number of agents and sessions, under every fault |
| `ShapingProofs!TiersAreSeparated` | the generated threshold finds the tiers of every separable configuration |
| `AcceptedTestsFit` | what is accepted without a wrap fits, for every configuration and word |
| `Induction!FlattenFacts` | what `FlattenSeq` returns, for any sequence of sequences |
| `SumOfSame` | what `SumFunctionOnSet` returns for equal numbers, over any finite set |

*Why the invariants are what they are.*  `StoredIsExecuted` relates the
controller's record to what an initiator did; in between lie a command in an
inbox, an execution and a slot, none of which the controller looks at as a whole.
`IInv` therefore says that a command number belongs to one test (`Numbering`),
that a command for an agent, lying or taken, is the one made for it
(`Commands`), that an agent in the middle of a test has that test's command and
has not yet reported (`Places`), that only a commanded test was begun (`Begun`),
and that a slot is empty or has the verdict on the test whose number it bears
(`Slots`).  `Fetched` bridges the two reads of a slot by `wait_for_results` and
`get_result`: in between, the slot's agent can only write a result of a later
command, and there is none; or zeros, which `Staged` allows only for its own
report, and that has been made.

The theorems of `TimelyProofs` have one hypothesis more, `Timely`: agents in
containers, no wait runs out, no transfer fails, and the 100 us are enough; the user
may interrupt.  All four properties fail without it (see above), and all four
follow from `TInv`, which says where a timely session is.  Between tests every
agent rests: it is in its command loop, with nothing new in its inbox.  During a
test all but its two agents do, and the two are in one of few places together
(`Stages`): the responder gets its command and ready (`Starts`, `Ready`), the
initiator begins (`Opening`), a round goes from `Sending` over `PingSent`,
`PingHeard` and `PongSent` to the next, and the initiator reports (`Closing`,
`Reported`).  Whoever rests or polls an old message stays where it is
(`RestersRest`), which leaves few steps in each place, and the proof has one lemma
per place.  `Results` carries the outcome of each test on to the end of the plan.
`TInv` is inductive together with `IInv`, which supplies that a command belongs
to its test.

`RInv` rests on nobody revising what he knows: flags are only set (`FirstDoor`),
and an agent's peers are complete before it says so (`SecondDoor`: a report,
unread or counted, is true).  `Progress` and `Spawning` place a flag or a
connection after the step that made it.

`SessionsArePopulated` needs one thing more of it: an agent whose report has been
counted is in its command loop unless its wait for the first command ran out or
it was signalled, which `lapsed` and `signalled` remember (`Present`).

`HInv` has three parts.  *Types.*  *The promise*: there is no signal as long as an
`up` has not written it, but for one that could not be removed, and until then
nobody can have taken any but such a one (`SignalOwn`);
the three loops of `apply_network_shaping` have done their work up to `at`
(`ShapingLoops`), which makes the signal of the session true when it is written
(`SignalTrue`).
It stays true since only `down` removes containers and a container comes only from
a controller.  That is why all this holds only while the controller's container is
not one docker failed to remove: such a controller outlives the `down` after
which nobody looks after its agents.  `DownLoops` is the same for the loop of
`down`.  *Trouble*: a session without it has come to its stage by the way that was
meant (`SmoothStages`), and there is no leaving that way without notice
(`TroubleNoticed`).  Arithmetic of the threshold is nonlinear (`d * d <= l * i`);
the proof of `TiersAreSeparated` gives the prover the products one by one.

`DInv` says that clusters partition the leaves, both halves of the matrix in use
agree, its entries are attained by and bound the original distances (least or
largest, by linkage), and no two clusters are closer than the latest merge
(`Beyond`).  The last one is what makes merges grow; for average linkage it needs
that an average of two numbers is not below the smaller one (`WeighedAverage`).
The proof that `build` implements `Agglomeration` reads the least and largest
entries as the `Min` and `Max` of the textbook's definition.

`Tree` says what `Dendrogram::build` leaves in `nodes_`: first the leaves, then
the merges, each of two nodes that had no parent yet, disjoint and with the union
of their members; heights grow along the sequence; the nodes without a parent are
those of the active clusters.  The members of a node are within its height in the
sense of the linkage (`Within`), and any two nodes without a parent are at least
the next merge apart (`Apart`).  From it follows by induction over the tree what
the recursive `Cut` collects: a sequence of nodes, each leaf in one of them, each
within the threshold and its parent beyond (`CutFacts`); that cuts at growing
thresholds nest (`CutsNest`), and hence that a cluster of a tier is a cluster of
all tiers between two at which it occurs (`ClusterBetween`).  `PInv` carries on
what each step of `build` has found; it has no more to say, since a step never
touches what an earlier one has written.

`SInv` is what is left of the linkage's definition when the linkage is any of the
three: some leaf of one cluster and some leaf of the other are no further apart
than the clusters, some are no closer (an average lies between the least and the
largest), so that every merge brings together two leaves within its height
(`Near`) and those without a parent have leaves at least the next merge apart
(`Far`).  `EdgesAddUp` rests on it as follows.  Where latencies depend only on
where two nodes join, each hidden node has one latency, and half of it is its
height above the nodes (`Halves`).  A cluster joins two nodes within its
threshold, its parent two beyond it (`NearPair`, `FarPair`), so heights grow from
child to parent (`HalvesGrow`), and what `construct_edges` subtracts is positive:
the case in which it gives up and writes zero does not occur.  An edge from a node
has the height of the hidden node above it (`AttachedHalf`); by induction over tiers
the way from the first member up to a hidden node is as long as that one is high
(`HeightsAddUp`), and the edge above it as long as the difference to its parent
(`Rises`).  This is where `NoTierSkipped` is needed.  The two ways from two nodes up
to where they join are equal, and twice that height is what was measured.

`CountInv` has, for every kind of test, the number of commands for a pair,
direction and size equal to the number of mentions among the turns the loop has
done with; the order of the loops (`NextTurn`) is what makes "done with" a
prefix.  `ResultsInv` says that only tests of the right kind are stored, between two
different agents, and that a file, once written, agrees with the results stored
when its loop ended.

*Induction.*  The prover does not know induction, and the library's theorems about
it take an operator as a parameter, which cannot be instantiated.  Well-founded
induction is also there as a statement about sets (`WFMin`): a non-empty set of
numbers has a least member (`Induction!LeastNumber`).  So a statement about all
numbers, all prefixes or all nodes of a tree is proved by looking at the least
one that fails.  That a recursive function (`collect` of `Cut`, the two of `UpNs`, the
ones in the library's `FlattenSeq` and `SumFunctionOnSet`) exists at all is proved
in the same way, from functions that are right on growing domains
(`RecursionByRank` where the values are known to lie in a set).

*Only model-checked*: everything about liveness (`SessionEnds`, `SessionBegins`,
`ControllerDecides`, `NoAgentLeftBehind`, `HarnessSettles`), since fairness and
ENABLED are beyond the prover; and what average linkage says of the
original distances (`LinkageDistances`, `CutsAreSound`, `KeepsAgglomeration` with
`"AVERAGE"`): the model divides whole numbers, and the quotients of the rewritten
matrix are those of the definition only where all of them are whole, as on the
instance.

## What the models leave out

*TestSession.*  Clocks: where timeouts are allowed they may strike whenever the
loop would go on.  A transfer is one step, landing and returning, visible as a
whole; `write_to_remote` has no timeout of its own and a transfer that never
returns is not modelled.  A write to a process that has deregistered its memory
fails.  All metadata is loaded (`SessionConnected`).  Bandwidth sizes are at
least 128 bytes, so an overrun wipes out the whole of what is staged.  Windows end
before the 64 bytes below the command inbox, in which the receiver puts together
its acknowledgement (`ack_buf`, agent.cpp:685); a window that fills the buffer to
the last byte, which the size check allows, would reach them.  Sending SIGTERM and freeing
the buffer at the end are one step.  Measured times and `verify_peer_transfer` (a
compile-time option) are not modelled.  The polling loops name the mailbox's
sequence twice, in the condition and when they remember what they have seen
(agent.cpp:586 and 595, 628 and 637); `TakeMessage` reads once.  The field is an
ordinary `uint64_t` and nothing is called between the two, so the optimised build,
which is the default (CMakeLists.txt:18, 69), keeps the value of the first read; a
debug build may see a later message at the second.

*Rendezvous.*  A pass over the flags is one step; loading may succeed for any
subset of the registered agents.  `ready_flag` is left out: nobody reads it.
Containers get no signals, and after an error exit of the controller such an
agent may poll for ever; `NoAgentLeftBehind` is about local agents.
`wait_for_all_agents` succeeds although an agent's metadata could not be loaded;
that agent is not called, and the wait for the reports runs out.

*TestPlan.*  A test is one step.  Products of window and size stay below 2^64.
Detailed CSV files and files that cannot be opened are left out.  A window or
size of 0 is replaced by the agent's default (64, 4 MiB), which the controller's
limit does not know of, so the agent may then refuse the test (with both
defaults it always does): `WindowsFit` excludes these.

*Topology.*  Distances are whole numbers, rounding of doubles is left out.
Thresholds ascend, which `tier_config.cpp` does not check.  Hidden nodes keep
their members, which the code recomputes by repeating the same cuts.  Labels,
node types and confidences are left out, and so are CSV and JSON.  A latency of 0 is a distance like any other, also when it
stands for a failed test.

*Harness.*  One command at a time: two shells that use one cluster are not
modelled.  `status`, command lines, file formats and the optional run of
`topology_viz` by `collect` are left out.  The rules of a container are all there
or they are not; which of them a failure has left behind makes no difference to
the properties.  The matrix is complete when it is closed; gaps in it are
`TestPlan`'s, and the optional tests after it are the stage `"more"`.  An exception
(from looking at or creating the output directory, from copying a file) ends the
command as `Kill` does.  A default test file that could not be written makes the
controller leave before it spawns anybody, as `SpawnContainerFails` does.  An agent's container dies with its agent and takes its rules with
it.  Built with the JSON library; without it the estimate uses its defaults, like
for a file that cannot be read.

*Shaping.*  A round trip is what the rules add to it; what the network between
containers takes by itself (tens of microseconds) comes on top.  Times are whole microseconds and the threshold is compared by its
square.  Packets of a pair without a filter do not occur: an agent's rules name
all the others.

*Not modelled at all*: `topology_graph.cpp` and `topology_viz.cpp`, which format the
graph that `Topology` builds and keep no state, `verify_peer_transfer`, and a
transfer that is visible in part.  On the last one docs/assumptions.md:18 says that
completion "guarantees data is visible to remote reader"; the models assume that,
and that the first word is not visible before the rest, about which the source
says nothing that could be translated.

## Disagreements

Four runs end in a counterexample to what a comment or a document says.

- `responder_ready`: controller.cpp:274, "Small delay to ensure responder is ready
  before initiator starts".  The delay is 100 us and ensures nothing; the
  responder's own polling interval is 100 us.  A ping that arrives before the
  responder resets its mailbox is erased, and the test times out.
  `session_timely` assumes `DelaySuffices` for this reason.
- `stale_message`: agent.cpp:543, "so we don't see stale sequences from previous
  tests".  The reset erases what has arrived; an answer that arrives after it is
  taken for the new test's, since numbers restart at 1.
- `tier_bounds`: tier_config.hpp:50, "Nodes clustering below threshold[i] are assigned
  tier i" ("< 5us: Tier 0"), and docs/topology_module.md:44, "3+ | >= 50 us".  A
  cut splits what merged *above* the threshold, as dendrogram.hpp:56 says, so nodes
  exactly at a threshold are in the tier below it.
- `unmeasured_pairs`: controller.hpp:203, "unmeasured pairs are -1".  The latency
  matrix starts from zeros (the bandwidth matrix does start from -1), and the topology
  builder reads a 0 as a distance.

The models show these as well, without a run of their own; in brackets the
invariant that fails when it is put into the configuration of a passing run.

- docs/topology.md:284, "Connect each physical node to its cluster's hidden node".
  Only members of clusters of the lowest tier get an edge; `EdgesAreForest` says so.
- harness.cpp:103, "Clear any stale signal files from previous runs".  If the file
  cannot be removed nothing is said (harness.cpp:74), `up` goes on, and the tests
  begin upon the earlier session's signal
  (`harness`: `Testing => took \in {0, session}`).
- docs/simulation_harness.md:113, "the `collect` command copies results from the
  container".  It copies what the host's directory holds; a controller whose matrix
  goes to its default path, inside the container (controller.hpp:68), or that has a
  single agent (controller_main.cpp:465), leaves an earlier session's there
  (`harness`: `step = "copy" /\ ctl # "none" /\ ~troubled => matrix.of \in {0, session}`).
- harness.cpp:327, "Wait for controller to finish".  A `docker inspect` that fails ends
  the wait as well (`harness`: `step = "copy" => ~Live`).
- harness.hpp:113, "true if config is valid (no timeout issues)".  The estimate is a
  product in 32 bits; a test long enough wraps and is accepted (`shaped_run`:
  `AcceptedFits` without `Unwrapped`, with 6,900 iterations: 6,910 rounds of 10 ms
  take 69 s, and 2 s modulo `W`).
- harness.hpp:110, "Validate test config".  The file is looked for below `./output`,
  whatever `--output` is, and the defaults are validated if nothing is there; the
  default test file itself is written to `--output` (`AcceptedFits` without `found`).
- docs/simulation_harness.md:137, "This ensures proper separation between tiers
  without manual configuration".  It holds for configurations that satisfy
  `Separable` and fails, for instance, for 2.5 ms within and 5 ms between racks: the
  matrix has 4 ms and 10 ms and the threshold is at 3.5 ms (`TiersSeparated` without
  `Separable`).

Noticed on the way:

- harness.cpp:626, "Ping-pong tests WILL timeout!": the estimate is that of a whole
  test, the agent's limit of 5 s (agent.cpp:555) is for a single message.
- harness.cpp:138, "use --force to override": there is no such option.
- An agent without a tier gets the latency between tiers to everybody;
  `default_latency_us` is what its class would have for its own tier, in which
  there is nobody.

## The plan

Done, in this order: `TestSession` with `Campaign`, `Rendezvous` with `Barrier`,
`TestPlan`, `Dendrogram` and `Topology` with `Agglomeration`, `Shaping` and
`Harness`, each with its proofs.  Left, the most important first:

1. *Proofs*: average linkage as a sum instead of a quotient, which would give
   `LinkageDistances` for all three linkages.
2. *Tier configuration*: thresholds that do not ascend, which `tier_config.cpp`
   accepts.
3. *Layout*: the offsets of staging areas, `ack_buf`, mailbox and inbox, to replace
   the assumption on windows above by a theorem about what may overlap.
4. *Abstract harness*: a cluster that is down, starting, running or finished, which
   `Harness` implements as long as nothing is stuck.

To run: `tlc -workers 2 -config MCTestSession_timely.cfg MCTestSession` and so on;
`tlapm TestSessionProofs.tla` and so on.
