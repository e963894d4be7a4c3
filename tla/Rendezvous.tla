----------------------------- MODULE Rendezvous -----------------------------
(***************************************************************************)
(* From the start of the controller to its first test: the controller      *)
(* starts the agents, every agent writes its slot (address and metadata)   *)
(* into the controller's buffer, the controller waits until it finds all   *)
(* slots populated and calls the agents, every agent reads all slots and   *)
(* connects to its peers, and reports back.                                *)
(*                                                                         *)
(* Slots are written and read by RDMA; the call and the report are NIXL    *)
(* notifications, which wait in the receiver's process until it asks for   *)
(* them.  Every wait has its own timeout (60 s in the agents, -t seconds   *)
(* in the controller, twice); clocks are left out, a timeout may strike    *)
(* whenever MayTimeOut allows it.                                          *)
(*                                                                         *)
(* A local agent is forked and gets signals from terminate_agents or from  *)
(* a Ctrl-C at the terminal; an agent in a container gets none.            *)
(***************************************************************************)
EXTENDS Integers

CONSTANTS
  N,            \* num_agents
  LocalMode,    \* agents are child processes
  Shaped,       \* a tc_ready file is waited for
  MayTimeOut,   \* waits may reach their deadlines
  MayFail,      \* spawning, transfers, notifications, loading may fail
  MayCrash,     \* an agent's process may die
  MayInterrupt  \* the user may interrupt the controller

ASSUME NAssumption == N \in Nat \ {0}
ASSUME SwitchAssumption ==
  /\ LocalMode \in BOOLEAN /\ Shaped \in BOOLEAN   /\ MayTimeOut \in BOOLEAN
  /\ MayFail \in BOOLEAN   /\ MayCrash \in BOOLEAN /\ MayInterrupt \in BOOLEAN

Agents == 0 .. N - 1

VARIABLES
  \* the controller
  pc,          \* where main is
  at,          \* loop index of the agent being spawned or called
  registered,  \* agents whose populated_flag is set in its buffer
  loaded,      \* agent_metadata_loaded_
  reported,    \* what get_notifications would return for an agent
  done,        \* peer_discovery_done
  stop,        \* g_shutdown_requested
  \* the agents
  mode,        \* where main is
  called,      \* agents for which a RENDEZVOUS_COMPLETE waits
  peers,       \* the connected entries of peers_
  signalled,   \* agents with a signal pending or noted
  \* history
  lapsed       \* agents that crashed, or whose report arrived and yet failed

ctlVars == <<pc, at, loaded, done, stop>>
vars == <<ctlVars, registered, reported, mode, called, peers, signalled, lapsed>>

Init ==
  /\ pc = "spawn" /\ at = 0 /\ stop = FALSE
  /\ registered = {} /\ loaded = {} /\ done = {}
  /\ reported = [a \in Agents |-> "NOTHING"]
  /\ mode  = [a \in Agents |-> "absent"]
  /\ called = {} /\ signalled = {} /\ lapsed = {}
  /\ peers = [a \in Agents |-> {}]

----------------------------------------------------------------------------
\* A transfer or notification to a process that has gone fails; one that
\* fails may nevertheless have arrived.
Outcomes(alive) ==
  IF ~alive THEN {"lost"}
  ELSE IF MayFail THEN {"ok", "lost", "unconfirmed"} ELSE {"ok"}

Running(a) == mode[a] \notin {"absent", "gone"}
Spawned == {a \in Agents : mode[a] # "absent"}

\* Faulty variant: the first message of a sender hides the later ones.
FirstNotice(unread, msg) == IF unread = "NOTHING" THEN msg ELSE unread

\* get_notifications keeps the last of the messages that a sender's queue
\* holds: a message that arrives takes the place of those still unread.
Notice(unread, msg) == msg

Report(a, msg, o) ==
  reported' = IF o = "lost" THEN reported
              ELSE [reported EXCEPT ![a] = Notice(reported[a], msg)]

----------------------------------------------------------------------------
(***************************************************************************)
(* The controller.                                                         *)
(***************************************************************************)

\* Faulty variant: the agents are left to themselves.
LeaveUnsignalled ==
  /\ pc' = "gone"
  /\ UNCHANGED <<at, loaded, done, stop, registered, reported, mode, called,
                 peers, signalled, lapsed>>

\* An error path, or the exit after an interrupt: local agents get SIGTERM,
\* the buffer is deregistered, main returns.
Leave ==
  /\ pc' = "gone"
  /\ signalled' = IF LocalMode THEN Spawned ELSE signalled
  /\ UNCHANGED <<at, loaded, done, stop, registered, reported, mode, called,
                 peers, lapsed>>

SpawnAgent ==
  /\ pc = "spawn"
  /\ mode' = [mode EXCEPT ![at] = IF LocalMode THEN "forked" ELSE "start"]
  /\ IF at + 1 < N THEN at' = at + 1 /\ pc' = pc
                   ELSE at' = 0 /\ pc' = "register"
  /\ UNCHANGED <<loaded, done, stop, registered, reported, called, peers,
                 signalled, lapsed>>

SpawnFails == pc = "spawn" /\ MayFail /\ Leave

\* Faulty variant: one registered agent is taken for all.
SomeRegistered == registered # {}

AllRegistered == registered = Agents

\* A pass of wait_for_all_agents loads the metadata of agents it finds
\* registered (not of one whose flag is set when the pass is beyond it) and
\* does not care whether that fails; the pass that finds all of them ends it.
RegistrationPass ==
  /\ pc = "register"
  /\ \E S \in SUBSET (registered \ loaded) :
       /\ registered = Agents /\ ~MayFail => S = registered \ loaded
       /\ loaded' = loaded \cup S
  /\ ~(AllRegistered /\ stop)
  /\ pc' = IF AllRegistered THEN "call" ELSE pc
  /\ UNCHANGED <<at, done, stop, registered, reported, mode, called, peers,
                 signalled, lapsed>>

\* The registration takes too long; or the interrupt is noticed, between
\* two calls of wait_for_all_agents or after the last.
GiveUpRegistration == pc = "register" /\ (MayTimeOut \/ stop) /\ Leave

\* signal_rendezvous_complete: an agent whose metadata is not loaded is left
\* out, and a notification that cannot be sent is only noted.
CallAgent(o) ==
  /\ pc = "call"
  /\ IF at \in loaded THEN o \in Outcomes(Running(at)) ELSE o = "lost"
  /\ called' = IF o = "lost" THEN called ELSE called \cup {at}
  /\ IF at + 1 < N THEN at' = at + 1 /\ pc' = pc
                   ELSE at' = 0 /\ pc' = "discover"
  /\ UNCHANGED <<loaded, done, stop, registered, reported, mode, peers,
                 signalled, lapsed>>

\* Faulty variant: whatever an agent sends is a report.
AnyReport(a) == reported[a] # "NOTHING"

Discovered(a) == reported[a] = "PEER_DISCOVERY_COMPLETE"

\* wait_for_peer_discovery reads all notifications and counts the reports of
\* agents it knows by name.
CountReports ==
  /\ pc = "discover"
  /\ done' = done \cup {a \in loaded : Discovered(a)}
  /\ reported' = [a \in Agents |-> "NOTHING"]
  /\ pc' = IF done' = Agents THEN "shaping" ELSE pc
  /\ UNCHANGED <<at, loaded, stop, registered, mode, called, peers, signalled,
                 lapsed>>

\* Faulty variant: the deadline counts only after an interrupt.
GiveUpDiscoveryWhenStopped == pc = "discover" /\ stop /\ Leave

GiveUpDiscovery == pc = "discover" /\ MayTimeOut /\ Leave

\* wait_for_tc_ready: the file appears, or the wait runs out and the tests are
\* run without shaping; only an interrupt stops it.
StartSession ==
  /\ pc = "shaping" /\ ~(Shaped /\ stop)
  /\ pc' = "session"
  /\ UNCHANGED <<at, loaded, done, stop, registered, reported, mode, called,
                 peers, signalled, lapsed>>

GiveUpShaping == pc = "shaping" /\ Shaped /\ stop /\ Leave

\* SIGINT or SIGTERM to the controller, at the terminal also to local agents.
Interrupt ==
  /\ MayInterrupt /\ ~stop /\ pc \notin {"session", "gone"}
  /\ stop' = TRUE
  /\ signalled' \in {signalled, IF LocalMode THEN Spawned ELSE signalled}
  /\ UNCHANGED <<pc, at, loaded, done, registered, reported, mode, called,
                 peers, lapsed>>

----------------------------------------------------------------------------
(***************************************************************************)
(* The agents.                                                             *)
(***************************************************************************)
GoTo(a, m) == mode' = [mode EXCEPT ![a] = m]

\* Between fork and exec the child has the controller's signal handler: a
\* signal that it handles there is forgotten.  execl may fail.
ExecAgent(a) ==
  /\ mode[a] = "forked"
  /\ GoTo(a, "start") \/ (MayFail /\ GoTo(a, "gone"))
  /\ signalled' = signalled \ {a}
  /\ UNCHANGED <<ctlVars, registered, reported, called, peers, lapsed>>

\* A signal that finds no handler installed kills the process.
KilledBySignal(a) ==
  /\ mode[a] = "start" /\ a \in signalled
  /\ GoTo(a, "gone")
  /\ UNCHANGED <<ctlVars, registered, reported, called, peers, signalled,
                 lapsed>>

\* Agent::initialize ends with reading the header of the controller's buffer.
Initialize(a, o) ==
  /\ mode[a] = "start"
  /\ o \in Outcomes(pc # "gone")
  /\ GoTo(a, IF o = "ok" THEN "register" ELSE "gone")
  /\ UNCHANGED <<ctlVars, registered, reported, called, peers, signalled,
                 lapsed>>

\* The slot and with it AGENT_REGISTERED; after a failed write the agent
\* leaves, whether or not the slot has arrived.
Register(a, o) ==
  /\ mode[a] = "register"
  /\ o \in Outcomes(pc # "gone")
  /\ registered' = IF o = "lost" THEN registered ELSE registered \cup {a}
  /\ Report(a, "AGENT_REGISTERED", o)
  /\ GoTo(a, IF o = "ok" THEN "await" ELSE "gone")
  /\ UNCHANGED <<ctlVars, called, peers, signalled, lapsed>>

\* wait_for_rendezvous finds the controller's notification.
HearCall(a) ==
  /\ mode[a] = "await" /\ a \in called
  /\ called' = called \ {a}
  /\ GoTo(a, "discover")
  /\ UNCHANGED <<ctlVars, registered, reported, peers, signalled, lapsed>>

AwaitTimeout(a) ==
  /\ mode[a] = "await" /\ MayTimeOut
  /\ GoTo(a, "gone")
  /\ UNCHANGED <<ctlVars, registered, reported, called, peers, signalled,
                 lapsed>>

\* Faulty variant: one peer is enough.
AnyConnected(connected) == connected # {}

AllConnected(connected) == connected = Agents

\* discover_peers: one read of all slots, then the metadata of each populated
\* slot is loaded; anything missing is an error, and the agent leaves.
DiscoverPeers(a, o) ==
  /\ mode[a] = "discover"
  /\ o \in Outcomes(pc # "gone")
  /\ IF o = "ok"
       THEN \E S \in SUBSET (registered \ {a}) :
              /\ ~MayFail => S = registered \ {a}
              /\ peers' = [peers EXCEPT ![a] = S \cup {a}]
       ELSE UNCHANGED peers
  /\ GoTo(a, IF o = "ok" /\ AllConnected(peers'[a]) THEN "report" ELSE "gone")
  /\ UNCHANGED <<ctlVars, registered, reported, called, signalled, lapsed>>

\* notify_peer_discovery_complete; without success the agent leaves.
ReportDiscovery(a, o) ==
  /\ mode[a] = "report"
  /\ o \in Outcomes(pc # "gone")
  /\ Report(a, "PEER_DISCOVERY_COMPLETE", o)
  /\ GoTo(a, IF o = "ok" THEN "loop" ELSE "gone")
  /\ lapsed' = IF o = "unconfirmed" THEN lapsed \cup {a} ELSE lapsed
  /\ UNCHANGED <<ctlVars, registered, called, peers, signalled>>

\* The command loop is the first to look at the signal flag.
ObeySignal(a) ==
  /\ mode[a] = "loop" /\ a \in signalled
  /\ GoTo(a, "gone")
  /\ UNCHANGED <<ctlVars, registered, reported, called, peers, signalled,
                 lapsed>>

Crash(a) ==
  /\ MayCrash /\ Running(a)
  /\ GoTo(a, "gone")
  /\ lapsed' = lapsed \cup {a}
  /\ UNCHANGED <<ctlVars, registered, reported, called, peers, signalled>>

----------------------------------------------------------------------------
Outcome == {"ok", "lost", "unconfirmed"}

ControllerStep ==
  \/ SpawnAgent
  \/ SpawnFails
  \/ RegistrationPass
  \/ GiveUpRegistration
  \/ \E o \in Outcome : CallAgent(o)
  \/ CountReports
  \/ GiveUpDiscovery
  \/ StartSession
  \/ GiveUpShaping

AgentStep(a) ==
  \/ ExecAgent(a)
  \/ KilledBySignal(a)
  \/ \E o \in Outcome : Initialize(a, o)
  \/ \E o \in Outcome : Register(a, o)
  \/ HearCall(a)
  \/ AwaitTimeout(a)
  \/ \E o \in Outcome : DiscoverPeers(a, o)
  \/ \E o \in Outcome : ReportDiscovery(a, o)
  \/ ObeySignal(a)

\* The controller has gone or is about to run tests; what the agents do then
\* is TestSession's, and an agent that nobody calls any more may be polling.
Over == pc \in {"session", "gone"} /\ UNCHANGED vars

Next ==
  \/ ControllerStep
  \/ Interrupt
  \/ \E a \in Agents : AgentStep(a) \/ Crash(a)
  \/ Over

\* Controller and agents are processes that keep running.
Fairness == /\ WF_vars(ControllerStep)
            /\ \A a \in Agents : WF_vars(AgentStep(a))

Spec == Init /\ [][Next]_vars
FairSpec == Spec /\ Fairness

----------------------------------------------------------------------------
(***************************************************************************)
(* Properties.                                                             *)
(***************************************************************************)

\* TypeOK: every variable keeps the type its declaration gives it.
TypeController ==
  /\ pc \in {"spawn", "register", "call", "discover", "shaping", "session", "gone"}
  /\ at \in Agents
  /\ registered \subseteq Agents
  /\ loaded \subseteq Agents
  /\ done \subseteq Agents
  /\ reported \in [Agents -> {"NOTHING", "AGENT_REGISTERED", "PEER_DISCOVERY_COMPLETE"}]
  /\ stop \in BOOLEAN

TypeAgents ==
  /\ mode \in [Agents -> {"absent", "forked", "start", "register", "await", "discover",
                          "report", "loop", "gone"}]
  /\ called \subseteq Agents
  /\ peers \in [Agents -> SUBSET Agents]
  /\ signalled \subseteq Agents
  /\ lapsed \subseteq Agents

TypeOK == TypeController /\ TypeAgents

\* The tests begin only when the controller has loaded the metadata of every
\* agent and every agent is connected to all its peers (TestSession takes this
\* for granted), whoever was late, crashed or lost messages on the way.
SessionConnected ==
  pc \in {"shaping", "session"} =>
    loaded = Agents /\ \A a \in Agents : peers[a] = Agents

\* An agent that was called finds all slots populated when it reads them
\* ("slot not populated" in discover_peers is never reached).
CalledFindAll == \A a \in Agents : mode[a] = "discover" => registered = Agents

\* The agents of a session are in their command loops, or know that they are to
\* leave; only a crash, or a report that arrived though its sender was told it
\* had failed, leaves one out.  Whoever gave up waiting keeps the session from
\* starting, though its slot stays populated in the controller's buffer.
SessionPopulated ==
  pc \in {"shaping", "session"} =>
    \A a \in Agents : mode[a] = "loop" \/ a \in signalled \cup lapsed

\* The rendezvous is a barrier of two doors.
Doors == INSTANCE Barrier WITH
  P       <- Agents,
  arrived <- registered,
  met     <- {a \in Agents : peers[a] = Agents},
  gate    <- IF pc \in {"spawn", "register"} THEN "closed"
             ELSE IF pc \in {"call", "discover"} THEN "first"
             ELSE IF pc = "gone" THEN "given up" ELSE "second"
KeepsBarrier == Doors!BSpec

\* If nothing fails and no wait runs out the tests begin with everybody there.
SessionBegins == <>(pc = "session" /\ \A a \in Agents : mode[a] = "loop")

\* Whatever fails, the controller comes to the tests or leaves.
ControllerDecides == <>(pc \in {"session", "gone"})

\* When the controller has left, all its local agents come to an end, even one
\* that lost its signal before its program was loaded.
NoAgentLeftBehind ==
  pc = "gone" ~> \A a \in Agents : ~Running(a)
=============================================================================
