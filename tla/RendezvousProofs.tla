-------------------------- MODULE RendezvousProofs --------------------------
(***************************************************************************)
(* Proofs about Rendezvous for every number of agents and every            *)
(* combination of faults: the invariant RInv is inductive, and with it     *)
(* every step is a step of Barrier.                                        *)
(***************************************************************************)
EXTENDS RendezvousInv, TLAPS

\* There is an agent, so having met nobody is not having met all.
LEMMA AgentsExist == 0 \in Agents /\ Agents # {}
  BY NAssumption DEF Agents

LEMMA OutcomeType ==
  ASSUME NEW alive, NEW o \in Outcomes(alive)
  PROVE  o \in Outcome /\ (~alive => o = "lost")
  BY DEF Outcomes, Outcome

\* The index of a loop over the agents stays an agent's.
LEMMA NextAgent ==
  ASSUME TypeOK, at + 1 < N
  PROVE  at + 1 \in Agents
  BY NAssumption DEF TypeOK, TypeController, Agents

LEMMA InitRInv == Init => RInv
  BY AgentsExist DEF Init, RInv, TypeOK, TypeController, TypeAgents, Progress, Spawning,
                     FirstDoor, SecondDoor, Present, Discovered

\* Leaving changes nothing anybody else relies on.
LEMMA LeaveKeeps ==
  ASSUME RInv, Leave
  PROVE  RInv'
  <1>1. TypeOK'
    BY DEF RInv, TypeOK, TypeController, TypeAgents, Leave, Spawned
  <1> QED
    BY <1>1 DEF RInv, TypeOK, TypeAgents, Leave, Spawned, Progress, Spawning, FirstDoor,
                SecondDoor, Present, Discovered

\* An agent takes a step that touches neither slots, reports nor peers, and
\* which is not into a mode that says something about them.
LEMMA AgentMoves ==
  ASSUME RInv, NEW a \in Agents, NEW m \in {"start", "register", "gone"},
         mode[a] # "absent", GoTo(a, m),
         m # "gone" => mode[a] \in {"forked", "start"},
         UNCHANGED <<ctlVars, registered, reported, called, peers>>,
         signalled' \subseteq signalled, lapsed \subseteq lapsed', lapsed' \subseteq Agents,
         \A b \in Agents : mode[b] \in {"loop", "gone"} /\ b \in signalled => b \in signalled',
         mode[a] = "loop" => a \in signalled' \cup lapsed'
  PROVE  RInv'
  <1>1. TypeOK'
    BY DEF RInv, TypeOK, TypeController, TypeAgents, GoTo, ctlVars
  <1>2. ASSUME NEW b \in Agents PROVE Progress(b)'
    <2>1. CASE b = a
      BY <2>1 DEF RInv, TypeOK, TypeAgents, Progress, GoTo
    <2>2. CASE b # a
      BY <2>2 DEF RInv, TypeOK, TypeAgents, Progress, GoTo
    <2> QED
      BY <2>1, <2>2
  <1>3. FirstDoor'
    BY DEF RInv, TypeOK, TypeAgents, FirstDoor, GoTo, ctlVars
  <1>4. SecondDoor'
    BY DEF RInv, SecondDoor, Discovered, ctlVars
  <1>5. Spawning'
    BY DEF RInv, TypeOK, TypeAgents, Spawning, GoTo, ctlVars
  <1>6. ASSUME NEW b \in Agents PROVE Present(b)'
    <2>1. UNCHANGED <<done, reported>>
      BY DEF ctlVars
    <2>2. CASE b = a
      BY <2>1, <2>2 DEF RInv, TypeOK, TypeAgents, Present, Discovered, GoTo
    <2>3. CASE b # a
      BY <2>1, <2>3 DEF RInv, TypeOK, TypeAgents, Present, Discovered, GoTo
    <2> QED
      BY <2>2, <2>3
  <1> QED
    BY <1>1, <1>2, <1>3, <1>4, <1>5, <1>6 DEF RInv

LEMMA ControllerKeeps ==
  ASSUME RInv, ControllerStep
  PROVE  RInv'
  <1>1. CASE SpawnAgent
    <2>1. TypeOK'
      BY <1>1, NextAgent, AgentsExist
         DEF RInv, TypeOK, TypeController, TypeAgents, SpawnAgent
    <2>2. mode[at] = "absent" /\ at \in Agents /\ at \in Int
      BY <1>1 DEF RInv, TypeOK, TypeController, Spawning, SpawnAgent, Agents
    <2>3. \A b \in Agents : b # at => mode'[b] = mode[b]
      BY <1>1 DEF RInv, TypeOK, TypeAgents, SpawnAgent
    <2>4. mode'[at] \in {"forked", "start"}
      BY <1>1, <2>2 DEF RInv, TypeOK, TypeAgents, SpawnAgent
    <2>5. pc \in {"spawn"} /\ pc' \in {"spawn", "register"}
          /\ UNCHANGED <<loaded, done, registered, reported, called, peers>>
      BY <1>1 DEF SpawnAgent
    <2>6. \A b \in Agents : Progress(b)'
      BY <2>2, <2>3, <2>4, <2>5 DEF RInv, Progress
    <2>7. Spawning'
      <3>1. pc' = "spawn" => at' = at + 1
        BY <1>1 DEF SpawnAgent
      <3>2. ASSUME NEW b \in Agents, pc' = "spawn", b >= at'
            PROVE  mode'[b] = "absent"
        <4>1. b \in Int /\ b >= at /\ b # at
          BY <2>2, <3>1, <3>2 DEF Agents
        <4> QED
          BY <2>3, <2>5, <4>1 DEF RInv, Spawning
      <3> QED
        BY <3>2 DEF Spawning
    <2>8. FirstDoor'
      BY <2>2, <2>3, <2>4, <2>5 DEF RInv, FirstDoor
    <2>9. SecondDoor'
      BY <2>5 DEF RInv, SecondDoor, Discovered
    <2>10. \A b \in Agents : Present(b)'
      <3>1. UNCHANGED <<done, reported, signalled, lapsed>>
        BY <1>1 DEF SpawnAgent
      <3> QED
        BY <2>2, <2>3, <3>1 DEF RInv, Present, Discovered
    <2> QED
      BY <2>1, <2>6, <2>7, <2>8, <2>9, <2>10 DEF RInv
  <1>2. CASE SpawnFails
    BY <1>2, LeaveKeeps DEF SpawnFails
  <1>3. CASE RegistrationPass
    BY <1>3 DEF RInv, TypeOK, TypeController, TypeAgents, RegistrationPass, AllRegistered,
                Progress, Spawning, FirstDoor, SecondDoor, Present, Discovered
  <1>4. CASE GiveUpRegistration
    BY <1>4, LeaveKeeps DEF GiveUpRegistration
  <1>5. ASSUME NEW o \in Outcome, CallAgent(o) PROVE RInv'
    <2>1. TypeOK'
      BY <1>5, NextAgent, AgentsExist
         DEF RInv, TypeOK, TypeController, TypeAgents, CallAgent
    <2> QED
      BY <1>5, <2>1 DEF RInv, CallAgent, Progress, Spawning, FirstDoor, SecondDoor, Present,
                          Discovered
  <1>6. CASE CountReports
    <2>1. TypeOK'
      BY <1>6 DEF RInv, TypeOK, TypeController, TypeAgents, CountReports
    <2>2. /\ pc = "discover" /\ pc' \in {"discover", "shaping"}
          /\ UNCHANGED <<loaded, registered, mode, called, peers>>
      BY <1>6 DEF CountReports
    <2>3. (\A b \in Agents : Progress(b)') /\ Spawning' /\ FirstDoor'
      BY <2>2 DEF RInv, Progress, Spawning, FirstDoor
    <2>4. done' = done \cup {b \in loaded : Discovered(b)} /\ loaded \subseteq Agents
      BY <1>6 DEF RInv, TypeOK, TypeController, CountReports
    <2>5. \A b \in Agents : ~Discovered(b)'
      BY <1>6 DEF CountReports, Discovered
    <2>6. pc' = "shaping" => done' = Agents
      BY <1>6 DEF CountReports
    <2>7. SecondDoor'
      BY <2>2, <2>4, <2>5, <2>6 DEF RInv, SecondDoor
    <2>8. \A b \in Agents : Present(b)'
      <3>1. UNCHANGED <<signalled, lapsed>>
        BY <1>6 DEF CountReports
      <3> QED
        BY <2>2, <2>4, <2>5, <3>1 DEF RInv, Present
    <2> QED
      BY <2>1, <2>3, <2>7, <2>8 DEF RInv
  <1>7. CASE GiveUpDiscovery
    BY <1>7, LeaveKeeps DEF GiveUpDiscovery
  <1>8. CASE StartSession
    BY <1>8 DEF RInv, TypeOK, TypeController, TypeAgents, StartSession, Progress, Spawning,
                FirstDoor, SecondDoor, Present, Discovered
  <1>9. CASE GiveUpShaping
    BY <1>9, LeaveKeeps DEF GiveUpShaping
  <1> QED
    BY <1>1, <1>2, <1>3, <1>4, <1>5, <1>6, <1>7, <1>8, <1>9 DEF ControllerStep

LEMMA RegisterKeeps ==
  ASSUME RInv, NEW a \in Agents, NEW o \in Outcome, Register(a, o)
  PROVE  RInv'
  <1>1. /\ mode[a] = "register" /\ mode' = [mode EXCEPT ![a] = mode'[a]]
        /\ mode'[a] \in {"await", "gone"}
        /\ UNCHANGED <<pc, at, loaded, done, stop, called, peers, signalled, lapsed>>
    BY DEF RInv, TypeOK, TypeAgents, Register, GoTo, ctlVars
  <1>2. registered \subseteq registered' /\ registered' \subseteq registered \cup {a}
    BY DEF Register
  <1>3. \/ reported' = reported
        \/ reported' = [reported EXCEPT ![a] = "AGENT_REGISTERED"]
    BY DEF Register, Report, Notice
  <1>4. TypeOK'
    BY <1>1, <1>2, <1>3 DEF RInv, TypeOK, TypeController, TypeAgents
  <1>5. ASSUME NEW b \in Agents PROVE Progress(b)'
    <2>1. CASE b = a
      BY <1>1, <2>1 DEF RInv, Progress
    <2>2. CASE b # a
      BY <1>1, <1>2, <2>2 DEF RInv, TypeOK, TypeAgents, Progress
    <2> QED
      BY <2>1, <2>2
  <1>6. Spawning'
    BY <1>1 DEF RInv, TypeOK, TypeAgents, Spawning
  <1>7. FirstDoor'
    <2>1. registered' \subseteq Agents
      BY <1>4 DEF TypeOK, TypeController
    <2> QED
      BY <1>1, <1>2, <2>1 DEF RInv, TypeOK, TypeAgents, FirstDoor
  <1>8. SecondDoor'
    <2>1. \A b \in Agents : Discovered(b)' => Discovered(b)
      BY <1>3 DEF RInv, TypeOK, TypeController, Discovered
    <2> QED
      BY <1>1, <2>1 DEF RInv, SecondDoor
  <1>9. ASSUME NEW b \in Agents PROVE Present(b)'
    <2>1. Discovered(b)' => Discovered(b)
      BY <1>3 DEF RInv, TypeOK, TypeController, Discovered
    <2>2. b = a => ~(b \in done \/ Discovered(b))
      BY <1>1 DEF RInv, Present
    <2>3. b # a => mode'[b] = mode[b]
      BY <1>1 DEF RInv, TypeOK, TypeAgents
    <2> QED
      BY <1>1, <2>1, <2>2, <2>3 DEF RInv, Present
  <1> QED
    BY <1>4, <1>5, <1>6, <1>7, <1>8, <1>9 DEF RInv

LEMMA HearCallKeeps ==
  ASSUME RInv, NEW a \in Agents, HearCall(a)
  PROVE  RInv'
  <1>1. /\ mode[a] = "await" /\ a \in called /\ mode' = [mode EXCEPT ![a] = "discover"]
        /\ called' \subseteq called
        /\ UNCHANGED <<pc, at, loaded, done, stop, registered, reported, peers>>
        /\ UNCHANGED <<signalled, lapsed>>
    BY DEF HearCall, GoTo, ctlVars
  <1>2. TypeOK'
    BY <1>1 DEF RInv, TypeOK, TypeController, TypeAgents
  <1>3. ASSUME NEW b \in Agents PROVE Progress(b)'
    BY <1>1 DEF RInv, TypeOK, TypeAgents, Progress
  <1>4. Spawning' /\ FirstDoor'
    BY <1>1 DEF RInv, TypeOK, TypeAgents, Spawning, FirstDoor
  <1>5. SecondDoor'
    BY <1>1 DEF RInv, SecondDoor, Discovered
  <1>6. \A b \in Agents : Present(b)'
    BY <1>1 DEF RInv, TypeOK, TypeAgents, Present, Discovered
  <1> QED
    BY <1>2, <1>3, <1>4, <1>5, <1>6 DEF RInv

\* What discover_peers leaves behind: an agent goes on only with all peers.
LEMMA DiscoverPeersLeaves ==
  ASSUME RInv, NEW a \in Agents, NEW o \in Outcome, DiscoverPeers(a, o)
  PROVE  /\ mode[a] = "discover" /\ mode' = [mode EXCEPT ![a] = mode'[a]]
         /\ mode'[a] \in {"report", "gone"}
         /\ mode'[a] = "report" => peers'[a] = Agents
         /\ peers' \in [Agents -> SUBSET Agents]
         /\ \A b \in Agents : b # a => peers'[b] = peers[b]
         /\ UNCHANGED <<pc, at, loaded, done, stop, registered, reported, called, signalled>>
         /\ lapsed' = lapsed
         /\ o # "ok" => peers' = peers
         /\ pc = "gone" => o # "ok"
  <1>1. /\ mode[a] = "discover"
        /\ mode' = [mode EXCEPT ![a] = IF o = "ok" /\ peers'[a] = Agents THEN "report" ELSE "gone"]
        /\ UNCHANGED <<pc, at, loaded, done, stop, registered, reported, called, signalled>>
        /\ lapsed' = lapsed
        /\ o # "ok" => peers' = peers
        /\ o \in Outcomes(pc # "gone")
    BY DEF DiscoverPeers, AllConnected, GoTo, ctlVars
  <1>2. mode' = [mode EXCEPT ![a] = mode'[a]] /\ mode'[a] \in {"report", "gone"}
        /\ (mode'[a] = "report" => peers'[a] = Agents)
    BY <1>1 DEF RInv, TypeOK, TypeAgents
  <1>3. pc = "gone" => o # "ok"
    BY <1>1, OutcomeType
  <1>4. CASE o = "ok"
    <2>1. PICK S \in SUBSET (registered \ {a}) : peers' = [peers EXCEPT ![a] = S \cup {a}]
      BY <1>4 DEF DiscoverPeers
    <2>2. S \cup {a} \in SUBSET Agents
      BY DEF RInv, TypeOK, TypeController
    <2> QED
      BY <1>1, <1>2, <1>3, <2>1, <2>2 DEF RInv, TypeOK, TypeAgents
  <1>5. CASE o # "ok"
    BY <1>1, <1>2, <1>3, <1>5 DEF RInv, TypeOK, TypeAgents
  <1> QED
    BY <1>4, <1>5

\* Nobody counted is still to discover his peers.
LEMMA DiscoveringIsUncounted ==
  ASSUME RInv, NEW a \in Agents, mode[a] \notin {"report", "loop", "gone"}
  PROVE  a \notin done /\ ~Discovered(a) /\ peers[a] = {} /\ peers[a] # Agents
  BY AgentsExist DEF RInv, Progress, SecondDoor

LEMMA DiscoverPeersKeeps ==
  ASSUME RInv, NEW a \in Agents, NEW o \in Outcome, DiscoverPeers(a, o)
  PROVE  RInv'
  <1>1. TypeOK'
    BY DiscoverPeersLeaves DEF RInv, TypeOK, TypeController, TypeAgents
  <1>2. ASSUME NEW b \in Agents PROVE Progress(b)'
    BY DiscoverPeersLeaves DEF RInv, TypeOK, TypeAgents, Progress
  <1>3. Spawning' /\ FirstDoor'
    BY DiscoverPeersLeaves DEF RInv, TypeOK, TypeAgents, Spawning, FirstDoor
  <1>4. a \notin done /\ ~Discovered(a)
    BY DiscoverPeersLeaves, DiscoveringIsUncounted
  <1>5. SecondDoor'
    BY <1>4, DiscoverPeersLeaves DEF RInv, TypeOK, TypeController, SecondDoor, Discovered
  <1>6. \A b \in Agents : Present(b)'
    BY <1>4, DiscoverPeersLeaves DEF RInv, TypeOK, TypeAgents, Present, Discovered
  <1> QED
    BY <1>1, <1>2, <1>3, <1>5, <1>6 DEF RInv

LEMMA ReportDiscoveryKeeps ==
  ASSUME RInv, NEW a \in Agents, NEW o \in Outcome, ReportDiscovery(a, o)
  PROVE  RInv'
  <1>1. /\ mode[a] = "report" /\ mode' = [mode EXCEPT ![a] = mode'[a]]
        /\ mode'[a] \in {"loop", "gone"}
        /\ UNCHANGED <<pc, at, loaded, done, stop, registered, called, peers, signalled>>
        /\ lapsed' \in {lapsed, lapsed \cup {a}}
    BY DEF RInv, TypeOK, TypeAgents, ReportDiscovery, GoTo, ctlVars
  <1>2. \/ reported' = reported
        \/ reported' = [reported EXCEPT ![a] = "PEER_DISCOVERY_COMPLETE"]
    BY DEF ReportDiscovery, Report, Notice
  <1>3. TypeOK'
    BY <1>1, <1>2 DEF RInv, TypeOK, TypeController, TypeAgents
  <1>4. ASSUME NEW b \in Agents PROVE Progress(b)'
    BY <1>1 DEF RInv, TypeOK, TypeAgents, Progress
  <1>5. Spawning' /\ FirstDoor'
    BY <1>1 DEF RInv, TypeOK, TypeAgents, Spawning, FirstDoor
  <1>6. peers[a] = Agents
    BY <1>1 DEF RInv, Progress
  <1>7. \A b \in Agents : Discovered(b)' => Discovered(b) \/ b = a
    BY <1>2 DEF RInv, TypeOK, TypeController, Discovered
  <1>8. SecondDoor'
    BY <1>1, <1>6, <1>7 DEF RInv, SecondDoor
  <1>9. ASSUME NEW b \in Agents PROVE Present(b)'
    <2>1. CASE b # a
      BY <1>1, <1>7, <2>1 DEF RInv, TypeOK, TypeAgents, Present
    <2>2. CASE b = a
      <3>1. ~(a \in done \/ Discovered(a))
        BY <1>1 DEF RInv, Present
      <3>2. o = "lost" => ~Discovered(a)'
        BY <3>1 DEF ReportDiscovery, Report, Discovered
      <3>3. o = "unconfirmed" => a \in lapsed' /\ mode'[a] = "gone"
        BY <1>1 DEF RInv, TypeOK, TypeAgents, ReportDiscovery, GoTo
      <3>4. o = "ok" => mode'[a] = "loop"
        BY <1>1 DEF RInv, TypeOK, TypeAgents, ReportDiscovery, GoTo
      <3> QED
        BY <1>1, <2>2, <3>1, <3>2, <3>3, <3>4 DEF Present, Outcome
    <2> QED
      BY <2>1, <2>2
  <1> QED
    BY <1>3, <1>4, <1>5, <1>8, <1>9 DEF RInv

LEMMA NextKeeps == RInv /\ [Next]_vars => RInv'
  <1> SUFFICES ASSUME RInv, [Next]_vars PROVE RInv'
    OBVIOUS
  <1>1. CASE ControllerStep
    BY <1>1, ControllerKeeps
  <1>2. CASE Interrupt
    <2>1. TypeOK'
      BY <1>2 DEF RInv, TypeOK, TypeController, TypeAgents, Interrupt, Spawned
    <2> QED
      BY <1>2, <2>1 DEF RInv, TypeOK, TypeAgents, Interrupt, Spawned, Progress, Spawning,
                        FirstDoor, SecondDoor, Present, Discovered
  <1>3. ASSUME NEW a \in Agents, AgentStep(a) PROVE RInv'
    <2>1. CASE ExecAgent(a)
      <3>1. \A b \in Agents : mode[b] \in {"loop", "gone"} => b # a
        BY <2>1 DEF ExecAgent
      <3> QED
        BY <2>1, <3>1, AgentMoves DEF ExecAgent, RInv, TypeOK, TypeAgents
    <2>2. CASE KilledBySignal(a)
      BY <2>2, AgentMoves DEF KilledBySignal, RInv, TypeOK, TypeAgents
    <2>3. ASSUME NEW o \in Outcome, Initialize(a, o) PROVE RInv'
      BY <2>3, AgentMoves DEF Initialize, RInv, TypeOK, TypeAgents
    <2>4. ASSUME NEW o \in Outcome, Register(a, o) PROVE RInv'
      BY <2>4, RegisterKeeps
    <2>5. CASE HearCall(a)
      BY <2>5, HearCallKeeps
    <2>6. CASE AwaitTimeout(a)
      BY <2>6, AgentMoves DEF AwaitTimeout, RInv, TypeOK, TypeAgents
    <2>7. ASSUME NEW o \in Outcome, DiscoverPeers(a, o) PROVE RInv'
      BY <2>7, DiscoverPeersKeeps
    <2>8. ASSUME NEW o \in Outcome, ReportDiscovery(a, o) PROVE RInv'
      BY <2>8, ReportDiscoveryKeeps
    <2>9. CASE ObeySignal(a)
      BY <2>9, AgentMoves DEF ObeySignal, RInv, TypeOK, TypeAgents
    <2> QED
      BY <1>3, <2>1, <2>2, <2>3, <2>4, <2>5, <2>6, <2>7, <2>8, <2>9 DEF AgentStep
  <1>4. ASSUME NEW a \in Agents, Crash(a) PROVE RInv'
    BY <1>4, AgentMoves DEF Crash, Running, RInv, TypeOK, TypeAgents
  <1>5. CASE Over \/ UNCHANGED vars
    BY <1>5 DEF Over, vars, ctlVars, RInv, TypeOK, TypeController, TypeAgents, Progress,
                Spawning, FirstDoor, SecondDoor, Present, Discovered
  <1> QED
    BY <1>1, <1>2, <1>3, <1>4, <1>5 DEF Next

\* The invariant of the rendezvous (wait_for_all_agents to
\* wait_for_peer_discovery) holds in every reachable state.
THEOREM RendezvousInductive == Spec => []RInv
  BY InitRInv, NextKeeps, PTL DEF Spec

\* When the controller goes on to the tests it has every agent's metadata and
\* every agent is connected to all its peers.
THEOREM SessionsAreConnected == Spec => []SessionConnected
  <1>1. RInv => SessionConnected
    BY DEF RInv, TypeOK, TypeController, SecondDoor, SessionConnected
  <1> QED
    BY <1>1, RendezvousInductive, PTL

\* When the tests begin every agent is in its command loop, unless it has been
\* told to leave, has crashed, or could not know that its report had arrived.
THEOREM SessionsArePopulated == Spec => []SessionPopulated
  <1>1. RInv => SessionPopulated
    BY DEF RInv, SecondDoor, Present, SessionPopulated
  <1> QED
    BY <1>1, RendezvousInductive, PTL

\* discover_peers never finds a slot that is not populated.
THEOREM CalledAgentsFindAll == Spec => []CalledFindAll
  <1>1. RInv => CalledFindAll
    BY DEF RInv, FirstDoor, CalledFindAll
  <1> QED
    BY <1>1, RendezvousInductive, PTL

----------------------------------------------------------------------------
(***************************************************************************)
(* The refinement: doors and those who have met, as functions of the state.*)
(***************************************************************************)
Met  == {a \in Agents : peers[a] = Agents}
Gate == IF pc \in {"spawn", "register"} THEN "closed"
        ELSE IF pc \in {"call", "discover"} THEN "first"
        ELSE IF pc = "gone" THEN "given up" ELSE "second"

Unseen == UNCHANGED <<registered, Met, Gate>>

\* The step of the barrier that a step of the rendezvous is.
LEMMA LeaveGivesUp ==
  ASSUME Leave, pc \in {"spawn", "register", "discover", "shaping"}
  PROVE  Doors!GiveUpDoors
  BY DEF Leave, Doors!GiveUpDoors

LEMMA ControllerKeepsDoors ==
  ASSUME RInv, ControllerStep
  PROVE  Doors!BNext \/ Unseen
  <1>1. CASE SpawnAgent
    BY <1>1 DEF SpawnAgent, Unseen, Met, Gate
  <1>2. CASE SpawnFails
    BY <1>2, LeaveGivesUp DEF SpawnFails, Doors!BNext
  <1>3. CASE RegistrationPass
    <2>1. CASE AllRegistered
      <3>1. Doors!OpenFirst
        BY <1>3, <2>1 DEF RegistrationPass, AllRegistered, Doors!OpenFirst
      <3> QED
        BY <3>1 DEF Doors!BNext
    <2>2. CASE ~AllRegistered
      BY <1>3, <2>2 DEF RegistrationPass, Unseen, Met, Gate
    <2> QED
      BY <2>1, <2>2
  <1>4. CASE GiveUpRegistration
    BY <1>4, LeaveGivesUp DEF GiveUpRegistration, Doors!BNext
  <1>5. ASSUME NEW o \in Outcome, CallAgent(o) PROVE Unseen
    BY <1>5 DEF CallAgent, Unseen, Met, Gate
  <1>6. CASE CountReports
    <2>1. CASE done' = Agents
      <3>1. RInv'
        BY <1>6, ControllerKeeps DEF ControllerStep
      <3>2. \A a \in Agents : peers[a] = Agents
        BY <1>6, <2>1, <3>1 DEF RInv, SecondDoor, CountReports
      <3>3. pc = "discover" /\ pc' = "shaping" /\ UNCHANGED <<registered, peers>>
        BY <1>6, <2>1 DEF CountReports
      <3>4. Doors!OpenSecond
        BY <3>2, <3>3 DEF Doors!OpenSecond
      <3> QED
        BY <3>4 DEF Doors!BNext
    <2>2. CASE done' # Agents
      BY <1>6, <2>2 DEF CountReports, Unseen, Met, Gate
    <2> QED
      BY <2>1, <2>2
  <1>7. CASE GiveUpDiscovery
    BY <1>7, LeaveGivesUp DEF GiveUpDiscovery, Doors!BNext
  <1>8. CASE StartSession
    BY <1>8 DEF StartSession, Unseen, Met, Gate
  <1>9. CASE GiveUpShaping
    BY <1>9, LeaveGivesUp DEF GiveUpShaping, Doors!BNext
  <1> QED
    BY <1>1, <1>2, <1>3, <1>4, <1>5, <1>6, <1>7, <1>8, <1>9 DEF ControllerStep

\* A slot that is written now was not written before, so the first door is shut.
LEMMA RegisterArrives ==
  ASSUME RInv, NEW a \in Agents, NEW o \in Outcome, Register(a, o)
  PROVE  Doors!BNext \/ Unseen
  <1>1. mode[a] = "register" /\ UNCHANGED <<pc, peers>> /\ o \in Outcomes(pc # "gone")
    BY DEF Register, ctlVars
  <1>2. CASE o = "lost"
    BY <1>1, <1>2 DEF Register, Unseen, Met, Gate
  <1>3. CASE o # "lost"
    <2>1. pc # "gone"
      BY <1>1, <1>3, OutcomeType
    <2>2. a \notin registered
      BY <1>1 DEF RInv, Progress
    <2>3. pc \in {"spawn", "register"}
      BY <2>1, <2>2 DEF RInv, TypeOK, TypeController, FirstDoor
    <2>4. registered' = registered \cup {a}
      BY <1>3 DEF Register
    <2>5. Doors!Arrive(a)
      BY <1>1, <2>2, <2>3, <2>4 DEF Doors!Arrive
    <2> QED
      BY <2>5 DEF Doors!BNext
  <1> QED
    BY <1>2, <1>3

\* Peers are met between the two doors.
LEMMA DiscoverPeersMeets ==
  ASSUME RInv, NEW a \in Agents, NEW o \in Outcome, DiscoverPeers(a, o)
  PROVE  Doors!BNext \/ Unseen
  <1>1. /\ mode[a] = "discover"
        /\ UNCHANGED <<pc, registered>>
        /\ \A b \in Agents : b # a => peers'[b] = peers[b]
    BY DiscoverPeersLeaves
  <1>2. a \notin done /\ peers[a] # Agents
    BY <1>1, DiscoveringIsUncounted
  <1>3. CASE peers'[a] # Agents
    BY <1>1, <1>2, <1>3 DEF Unseen, Met, Gate
  <1>4. CASE peers'[a] = Agents
    <2>1. pc # "gone"
      BY <1>2, <1>4, DiscoverPeersLeaves
    <2>2. pc \notin {"spawn", "register", "shaping", "session"}
      BY <1>1, <1>2 DEF RInv, FirstDoor, SecondDoor
    <2>3. pc \in {"call", "discover"}
      BY <2>1, <2>2 DEF RInv, TypeOK, TypeController
    <2>4. Met' = Met \cup {a}
      BY <1>1, <1>4 DEF Met
    <2>5. Doors!Meet(a)
      BY <1>1, <2>3, <2>4 DEF Doors!Meet, Met
    <2> QED
      BY <2>5 DEF Doors!BNext
  <1> QED
    BY <1>3, <1>4

LEMMA NextIsBarrier ==
  ASSUME RInv, [Next]_vars
  PROVE  Doors!BNext \/ Unseen
  <1>1. CASE ControllerStep
    BY <1>1, ControllerKeepsDoors
  <1>2. CASE Interrupt
    BY <1>2 DEF Interrupt, Unseen, Met, Gate
  <1>3. ASSUME NEW a \in Agents, AgentStep(a) PROVE Doors!BNext \/ Unseen
    <2>1. ASSUME NEW o \in Outcome, Register(a, o) PROVE Doors!BNext \/ Unseen
      BY <2>1, RegisterArrives
    <2>2. ASSUME NEW o \in Outcome, DiscoverPeers(a, o) PROVE Doors!BNext \/ Unseen
      BY <2>2, DiscoverPeersMeets
    <2>3. CASE \/ ExecAgent(a) \/ KilledBySignal(a) \/ HearCall(a) \/ AwaitTimeout(a)
               \/ ObeySignal(a) \/ \E o \in Outcome : Initialize(a, o) \/ ReportDiscovery(a, o)
      <3>1. UNCHANGED <<pc, registered, peers>>
        BY <2>3 DEF ExecAgent, KilledBySignal, HearCall, AwaitTimeout, ObeySignal, Initialize,
                    ReportDiscovery, ctlVars
      <3> QED
        BY <3>1 DEF Unseen, Met, Gate
    <2> QED
      BY <1>3, <2>1, <2>2, <2>3 DEF AgentStep
  <1>4. ASSUME NEW a \in Agents, Crash(a) PROVE Unseen
    BY <1>4 DEF Crash, ctlVars, Unseen, Met, Gate
  <1>5. CASE Over \/ UNCHANGED vars
    BY <1>5 DEF Over, vars, ctlVars, Unseen, Met, Gate
  <1> QED
    BY <1>1, <1>2, <1>3, <1>4, <1>5 DEF Next

\* The rendezvous implements Barrier: nobody is released before all slots are
\* populated, and no test begins before all have reported their peers.
THEOREM RendezvousIsBarrier == Spec => KeepsBarrier
  <1>1. Init => Doors!BInit
    BY AgentsExist DEF Init, Doors!BInit
  <1>2. RInv /\ [Next]_vars => [Doors!BNext]_(Doors!bvars)
    <2> SUFFICES ASSUME RInv, [Next]_vars PROVE Doors!BNext \/ UNCHANGED Doors!bvars
      OBVIOUS
    <2>1. Unseen => UNCHANGED Doors!bvars
      BY DEF Unseen, Met, Gate, Doors!bvars
    <2> QED
      BY <2>1, NextIsBarrier
  <1> QED
    BY <1>1, <1>2, RendezvousInductive, PTL DEF Spec, KeepsBarrier, Doors!BSpec
=============================================================================
