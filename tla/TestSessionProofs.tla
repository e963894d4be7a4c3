------------------------- MODULE TestSessionProofs -------------------------
EXTENDS TestSessionInv, TLAPS

\* What the assumptions say of an index of the plan.
LEMMA PlanFacts ==
  /\ Len(Plan) \in Nat
  /\ Tests = 1 .. Len(Plan)
  /\ \A n \in Tests : /\ Plan[n] \in Test
                      /\ Plan[n].init \in Agents /\ Plan[n].resp \in Agents
                      /\ Plan[n].kind \in TestKind /\ Plan[n].iters \in Nat
                      /\ Plan[n].init # Plan[n].resp
  <1>1. /\ Len(Plan) \in Nat
        /\ Tests = 1 .. Len(Plan)
        /\ \A n \in Tests : Plan[n] \in Test
    BY PlanAssumption DEF Tests
  <1>2. \A t \in Test : /\ t.init \in Agents /\ t.resp \in Agents
                        /\ t.kind \in TestKind /\ t.iters \in Nat
    BY DEF Test, TestKind
  <1> QED
    BY <1>1, <1>2, PlanAssumption

\* However a write ends, the memory keeps its type.
LEMMA PutType ==
  ASSUME NEW S, NEW D, NEW f \in [D -> S], NEW a, NEW v \in S, NEW o
  PROVE  Put(f, a, v, o) \in [D -> S]
  BY DEF Put

LEMMA InitType == Init => TypeOK
  <1> SUFFICES ASSUME Init PROVE TypeOK
    OBVIOUS
  <1>1. /\ NoResult \in Result /\ NoCommand \in Command
        /\ NoMessage \in [seq : Nat, from : Nat]
    BY DEF NoResult, NoCommand, NoMessage, Result, Command
  <1>2. TypeController
    <2>1. next \in 1 .. Len(Plan) + 1 /\ seq \in Nat /\ told \in 0 .. N
      BY PlanFacts, NAssumption DEF Init
    <2> QED
      BY <2>1 DEF Init, TypeController
  <1>3. TypeMemory
    BY <1>1 DEF Init, TypeMemory
  <1>4. TypeAgents
    BY <1>1 DEF Init, TypeAgents
  <1>5. TypeHistory
    BY DEF Init, TypeHistory
  <1> QED
    BY <1>2, <1>3, <1>4, <1>5 DEF TypeOK

\* The controller's own variables keep their types, and so does what it
\* writes: the inboxes and the numbers of the tests.
LEMMA ControllerType == TypeOK /\ (ControllerStep \/ Interrupt) => TypeOK'
  <1> SUFFICES ASSUME TypeOK, ControllerStep \/ Interrupt PROVE TypeOK'
    OBVIOUS
  <1> USE PlanFacts, NAssumption, SwitchAssumption
  <1>a. TypeController /\ TypeMemory /\ TypeAgents /\ TypeHistory
    BY DEF TypeOK
  <1>b. seq \in Nat /\ seq + 1 \in Nat
    BY <1>a DEF TypeController
  <1>c. UNCHANGED <<slot, mailbox, inbox>> => TypeMemory'
    BY <1>a DEF TypeMemory
  <1>d. UNCHANGED agentVars => TypeAgents'
    BY <1>a DEF TypeAgents, agentVars
  <1>e. UNCHANGED <<seqOf, exec, mixed>> => TypeHistory'
    BY <1>a DEF TypeHistory
  <1>1. CASE RefuseTest
    <2>1. TypeController'
      BY <1>1, <1>a DEF RefuseTest, TestsOver, TypeController
    <2> QED
      BY <1>1, <1>c, <1>d, <1>e, <2>1 DEF RefuseTest, TypeOK
  <1>2. ASSUME NEW o \in Outcome, IssueToResponder(o) PROVE TypeOK'
    <2>1. next \in Tests /\ next \in Nat /\ next + 1 \in 1 .. Len(Plan) + 1
      BY <1>2, <1>a DEF IssueToResponder, TestsOver, TypeController
    <2>2. TestCommand(seq + 1, next, "RESPONDER") \in Command
      BY <1>b, <2>1 DEF TestCommand, Command, TestKind
    <2>3. TypeMemory'
      BY <1>2, <1>a, <2>2, PutType DEF IssueToResponder, TypeMemory
    <2>4. TypeHistory'
      BY <1>b, <1>2, <1>a, <2>1 DEF IssueToResponder, TypeHistory
    <2>5. TypeController'
      BY <1>2, <1>a, <1>b, <2>1 DEF IssueToResponder, TypeController
    <2> QED
      BY <1>2, <1>d, <2>3, <2>4, <2>5 DEF IssueToResponder, TypeOK
  <1>3. ASSUME NEW o \in Outcome, IssueToInitiator(o) PROVE TypeOK'
    <2>1. next \in Tests /\ next \in Nat /\ next + 1 \in 1 .. Len(Plan) + 1
      BY <1>3, <1>a DEF IssueToInitiator, TypeController
    <2>2. TestCommand(seq, next, "INITIATOR") \in Command
      BY <1>b, <2>1 DEF TestCommand, Command, TestKind
    <2>3. TypeMemory'
      BY <1>3, <1>a, <2>2, PutType DEF IssueToInitiator, TypeMemory
    <2>4. TypeController'
      BY <1>3, <1>a, <2>1 DEF IssueToInitiator, TypeController
    <2> QED
      BY <1>3, <1>d, <1>e, <2>3, <2>4 DEF IssueToInitiator, TypeOK
  <1>4. CASE ResultArrives
    <2>1. TypeController'
      BY <1>4, <1>a DEF ResultArrives, TypeController
    <2> QED
      BY <1>4, <1>c, <1>d, <1>e, <2>1 DEF ResultArrives, TypeOK
  <1>5. CASE StoreResult
    <2>1. next \in Tests /\ next \in Nat /\ next + 1 \in 1 .. Len(Plan) + 1
      BY <1>5, <1>a DEF StoreResult, TypeController
    <2>2. slot[Plan[next].init].status \in {"PENDING"} \cup Final
      BY <1>a, <2>1 DEF TypeMemory, Result
    <2>3. TypeController'
      BY <1>5, <1>a, <2>1, <2>2 DEF StoreResult, TypeController
    <2> QED
      BY <1>5, <1>c, <1>d, <1>e, <2>3 DEF StoreResult, TypeOK
  <1>6. CASE GiveUp
    <2>1. TypeController'
      BY <1>6, <1>a DEF GiveUp, TypeController
    <2> QED
      BY <1>6, <1>c, <1>d, <1>e, <2>1 DEF GiveUp, TypeOK
  <1>7. CASE BeginShutdown
    <2>1. TypeController'
      BY <1>7, <1>a DEF BeginShutdown, TypeController
    <2> QED
      BY <1>7, <1>c, <1>d, <1>e, <2>1 DEF BeginShutdown, TypeOK
  <1>8. ASSUME NEW o \in Outcome, SendShutdown(o) PROVE TypeOK'
    <2>1. ShutdownCommand(seq) \in Command
      BY <1>b DEF ShutdownCommand, Command
    <2>2. TypeMemory'
      BY <1>8, <1>a, <2>1, PutType DEF SendShutdown, TypeMemory
    <2>3. TypeController'
      BY <1>8, <1>a DEF SendShutdown, TypeController
    <2> QED
      BY <1>8, <1>d, <1>e, <2>2, <2>3 DEF SendShutdown, TypeOK
  <1>9. CASE Exit
    <2>1. TypeController'
      BY <1>9, <1>a DEF Exit, TypeController
    <2> QED
      BY <1>9, <1>c, <1>d, <1>e, <2>1 DEF Exit, TypeOK
  <1>10. CASE Interrupt
    <2>1. TypeController'
      BY <1>10, <1>a DEF Interrupt, TypeController
    <2> QED
      BY <1>10, <1>c, <1>d, <1>e, <2>1 DEF Interrupt, TypeOK
  <1> QED
    BY <1>1, <1>2, <1>3, <1>4, <1>5, <1>6, <1>7, <1>8, <1>9, <1>10 DEF ControllerStep

\* Ending a test touches the agent's place, its verdict and the test's outcome.
LEMMA EndTestType ==
  ASSUME TypeOK, NEW a \in Agents, NEW c, NEW v \in Final, EndTest(a, c, v)
  PROVE  /\ mode' \in [Agents -> {"idle", "reset", "send", "poll", "pong", "report",
                                  "stopped"}]
         /\ status' \in [Agents -> {"PENDING"} \cup Final]
         /\ exec' \in [Tests -> {"none", "running"} \cup Final]
  BY DEF EndTest, TypeOK, TypeAgents, TypeHistory

LEMMA AgentType ==
  ASSUME TypeOK, NEW a \in Agents, AgentStep(a)
  PROVE  TypeOK'
  <1>a. TypeController /\ TypeMemory /\ TypeAgents /\ TypeHistory
    BY DEF TypeOK
  <1>b. UNCHANGED <<ctlVars, signalled>> => TypeController'
    BY <1>a DEF TypeController, ctlVars
  <1>c. UNCHANGED <<slot, mailbox, inbox>> => TypeMemory'
    BY <1>a DEF TypeMemory
  <1>d. UNCHANGED <<seqOf, exec, mixed>> => TypeHistory'
    BY <1>a DEF TypeHistory
  <1>e. /\ cmd[a] \in Command /\ cmd[a].seq \in Nat /\ iter[a] + 1 \in Nat
        /\ inbox[a] \in Command /\ inbox[a].seq \in Nat
        /\ mailbox[a].seq \in Nat /\ status[a] \in {"PENDING"} \cup Final
        /\ cmd[a].test \in Nat
    BY <1>a DEF TypeAgents, TypeMemory, Command
  <1>f. "ERROR" \in Final /\ "COMPLETE" \in Final
    BY DEF Final
  <1>g. /\ NoMessage \in [seq : Nat, from : Nat]
        /\ \A m \in StagedMessage(a) \cup {Message(a)} : m \in [seq : Nat, from : Nat]
    BY <1>e DEF StagedMessage, Staged, Message, NoMessage
  <1>1. CASE TakeCommand(a)
    <2> DEFINE c == inbox[a]
    <2>1. last' \in [Agents -> Nat] /\ cmd' \in [Agents -> Command]
      BY <1>1, <1>a, <1>e DEF TakeCommand, TypeAgents
    <2>2. /\ mode' \in [Agents -> {"idle", "reset", "send", "poll", "pong", "report",
                                   "stopped"}]
          /\ status' \in [Agents -> {"PENDING"} \cup Final]
          /\ exec' \in [Tests -> {"none", "running"} \cup Final]
      <3>1. CASE EndTest(a, c, "ERROR")
        BY <3>1, <1>f, EndTestType
      <3>2. CASE mode' = [mode EXCEPT ![a] = "stopped"] /\ UNCHANGED <<status, exec>>
        BY <3>2, <1>a DEF TypeAgents, TypeHistory
      <3>3. CASE /\ mode' = [mode EXCEPT ![a] = "reset"]
                 /\ exec' = IF c.role = "INITIATOR"
                              THEN [exec EXCEPT ![c.test] = "running"] ELSE exec
                 /\ UNCHANGED status
        BY <3>3, <1>a DEF TypeAgents, TypeHistory
      <3> QED
        BY <1>1, <3>1, <3>2, <3>3 DEF TakeCommand
    <2>3. TypeAgents'
      BY <1>1, <1>a, <2>1, <2>2 DEF TakeCommand, TypeAgents
    <2>4. TypeHistory'
      BY <1>1, <1>a, <2>2 DEF TakeCommand, TypeHistory
    <2> QED
      BY <1>1, <1>b, <1>c, <2>3, <2>4 DEF TakeCommand, TypeOK
  <1>2. CASE ResetMailbox(a)
    <2>1. /\ mode' \in [Agents -> {"idle", "reset", "send", "poll", "pong", "report",
                                   "stopped"}]
          /\ status' \in [Agents -> {"PENDING"} \cup Final]
          /\ exec' \in [Tests -> {"none", "running"} \cup Final]
      <3>1. CASE EndTest(a, cmd[a], "COMPLETE")
        BY <3>1, <1>f, EndTestType
      <3>2. CASE /\ mode' = [mode EXCEPT ![a] =
                               IF cmd[a].role = "INITIATOR" THEN "send" ELSE "poll"]
                 /\ UNCHANGED <<status, exec>>
        BY <3>2, <1>a DEF TypeAgents, TypeHistory
      <3> QED
        BY <1>2, <3>1, <3>2 DEF ResetMailbox
    <2>2. TypeMemory'
      BY <1>2, <1>a, <1>g DEF ResetMailbox, TypeMemory
    <2>3. TypeAgents'
      BY <1>2, <1>a, <2>1 DEF ResetMailbox, TypeAgents
    <2>4. TypeHistory'
      BY <1>2, <1>a, <2>1 DEF ResetMailbox, TypeHistory
    <2> QED
      BY <1>2, <1>b, <2>2, <2>3, <2>4 DEF ResetMailbox, TypeOK
  <1>3. ASSUME NEW o \in Outcome, SendPing(a, o) \/ SendWindow(a, o)
        PROVE  TypeOK'
    <2>1. /\ mode' \in [Agents -> {"idle", "reset", "send", "poll", "pong", "report",
                                   "stopped"}]
          /\ status' \in [Agents -> {"PENDING"} \cup Final]
          /\ exec' \in [Tests -> {"none", "running"} \cup Final]
      <3>1. CASE EndTest(a, cmd[a], "ERROR")
        BY <3>1, <1>f, EndTestType
      <3>2. CASE mode' = [mode EXCEPT ![a] = "poll"] /\ UNCHANGED <<status, exec>>
        BY <3>2, <1>a DEF TypeAgents, TypeHistory
      <3> QED
        BY <1>3, <3>1, <3>2 DEF SendPing, SendWindow
    <2>0. PICK m \in StagedMessage(a) \cup {Message(a)} :
            mailbox' = Put(mailbox, Peer(a), m, o) /\ UNCHANGED <<slot, inbox>>
      BY <1>3 DEF SendPing, SendWindow
    <2>2. TypeMemory'
      BY <2>0, <1>a, <1>g, PutType DEF TypeMemory
    <2>3. TypeAgents'
      BY <1>3, <1>a, <2>1 DEF SendPing, SendWindow, TypeAgents
    <2>4. TypeHistory'
      BY <1>3, <1>a, <2>1 DEF SendPing, SendWindow, TypeHistory
    <2> QED
      BY <1>3, <1>b, <2>2, <2>3, <2>4 DEF SendPing, SendWindow, TypeOK
  <1>h. TakeMessage(a) => seen' \in [Agents -> Nat] /\ mixed' \subseteq Nat
    BY <1>a, <1>e DEF TakeMessage, TypeAgents, TypeHistory
  <1>4. CASE HearPong(a)
    <2>1. /\ mode' \in [Agents -> {"idle", "reset", "send", "poll", "pong", "report",
                                   "stopped"}]
          /\ status' \in [Agents -> {"PENDING"} \cup Final]
          /\ exec' \in [Tests -> {"none", "running"} \cup Final]
      <3>1. CASE EndTest(a, cmd[a], "COMPLETE")
        BY <3>1, <1>f, EndTestType
      <3>2. CASE mode' = [mode EXCEPT ![a] = "send"] /\ UNCHANGED <<status, exec>>
        BY <3>2, <1>a DEF TypeAgents, TypeHistory
      <3> QED
        BY <1>4, <3>1, <3>2 DEF HearPong
    <2>2. TypeAgents'
      BY <1>4, <1>a, <1>e, <1>h, <2>1 DEF HearPong, TypeAgents
    <2>3. TypeHistory'
      BY <1>4, <1>a, <1>h, <2>1 DEF HearPong, TypeHistory
    <2> QED
      BY <1>4, <1>b, <1>c, <2>2, <2>3 DEF HearPong, TypeOK
  <1>5. CASE HearPing(a)
    <2>1. TypeAgents'
      BY <1>5, <1>a, <1>h DEF HearPing, TypeAgents
    <2>2. TypeHistory'
      BY <1>5, <1>a, <1>h DEF HearPing, TypeHistory
    <2> QED
      BY <1>5, <1>b, <1>c, <2>1, <2>2 DEF HearPing, TypeOK
  <1>6. CASE PollTimeout(a)
    <2>1. /\ mode' \in [Agents -> {"idle", "reset", "send", "poll", "pong", "report",
                                   "stopped"}]
          /\ status' \in [Agents -> {"PENDING"} \cup Final]
          /\ exec' \in [Tests -> {"none", "running"} \cup Final]
      BY <1>6, <1>f, EndTestType DEF PollTimeout
    <2>2. TypeAgents'
      BY <1>6, <1>a, <2>1 DEF PollTimeout, TypeAgents
    <2>3. TypeHistory'
      BY <1>6, <1>a, <2>1 DEF PollTimeout, TypeHistory
    <2> QED
      BY <1>6, <1>b, <1>c, <2>2, <2>3 DEF PollTimeout, TypeOK
  <1>7. ASSUME NEW o \in Outcome, SendPong(a, o) PROVE TypeOK'
    <2>0. PICK m \in StagedMessage(a) :
            mailbox' = Put(mailbox, Peer(a), m, o) /\ UNCHANGED <<slot, inbox>>
      BY <1>7 DEF SendPong
    <2>1. TypeMemory'
      BY <2>0, <1>a, <1>g, PutType DEF TypeMemory
    <2>2. TypeAgents'
      BY <1>7, <1>a, <1>e DEF SendPong, TypeAgents
    <2> QED
      BY <1>7, <1>b, <1>d, <2>1, <2>2 DEF SendPong, TypeOK
  <1>8. ASSUME NEW o \in Outcome, ReportResult(a, o) PROVE TypeOK'
    <2>0. PICK r \in Staged(a, ResultOf(a), NoResult) :
            slot' = Put(slot, a, r, o) /\ UNCHANGED <<inbox, mailbox>>
      BY <1>8 DEF ReportResult
    <2>1. r \in Result
      BY <2>0, <1>e DEF Staged, ResultOf, NoResult, Result
    <2>2. TypeMemory'
      BY <2>0, <1>a, <2>1, PutType DEF TypeMemory
    <2>3. TypeAgents'
      BY <1>8, <1>a DEF ReportResult, TypeAgents
    <2> QED
      BY <1>8, <1>b, <1>d, <2>2, <2>3 DEF ReportResult, TypeOK
  <1>9. CASE ObeySignal(a)
    <2>1. TypeAgents'
      BY <1>9, <1>a DEF ObeySignal, TypeAgents
    <2> QED
      BY <1>9, <1>b, <1>c, <1>d, <2>1 DEF ObeySignal, TypeOK
  <1> QED
    BY <1>1, <1>2, <1>3, <1>4, <1>5, <1>6, <1>7, <1>8, <1>9 DEF AgentStep

\* One step keeps the type invariant (from the lemmas above).
LEMMA TypeStep == TypeOK /\ [Next]_vars => TypeOK'
  <1> SUFFICES ASSUME TypeOK, [Next]_vars PROVE TypeOK'
    OBVIOUS
  <1>1. CASE UNCHANGED vars
    BY <1>1 DEF vars, ctlVars, agentVars, TypeOK, TypeController, TypeMemory,
                TypeAgents, TypeHistory
  <1>2. CASE Quiet
    BY <1>2, <1>1 DEF Quiet
  <1>3. CASE ControllerStep \/ Interrupt
    BY <1>3, ControllerType
  <1>4. ASSUME NEW a \in Agents, AgentStep(a) PROVE TypeOK'
    BY <1>4, AgentType
  <1> QED
    BY <1>1, <1>2, <1>3, <1>4 DEF Next

\* Type correctness, for every plan, number of agents and kind of fault.
THEOREM TypeCorrect == Spec => []TypeOK
  BY InitType, TypeStep, PTL DEF Spec

----------------------------------------------------------------------------
(***************************************************************************)
(* The inductive invariant.                                                *)
(***************************************************************************)

LEMMA InitInv == Init => IInv
  <1> SUFFICES ASSUME Init PROVE IInv
    OBVIOUS
  <1>1. TypeOK
    BY InitType
  <1>2. Numbering
    BY PlanFacts DEF Init, Numbering
  <1>3. Commands
    BY DEF Init, Commands, CommandOK, NoCommand, TestKind
  <1>4. Places /\ Begun
    BY PlanFacts DEF Init, Places, PlaceOf, Begun, Busy
  <1>5. Slots
    BY DEF Init, Slots, NoResult, Final
  <1>6. Fetched /\ Recorded
    BY DEF Init, Fetched, Recorded
  <1> QED
    BY <1>1, <1>2, <1>3, <1>4, <1>5, <1>6 DEF IInv

\* A command stays what it is when a test without a number gets one.
LEMMA CommandKept ==
  ASSUME NEW c, NEW a, NEW f, NEW g, CommandOK(c, a, f),
         \A n \in Tests : f[n] # 0 => g[n] = f[n]
  PROVE  CommandOK(c, a, g)
  BY DEF CommandOK

\* The commands the controller makes.
LEMMA CommandMade ==
  ASSUME NEW n \in Tests, NEW s, NEW f, f[n] = s, s # 0
  PROVE  /\ CommandOK(TestCommand(s, n, "RESPONDER"), Plan[n].resp, f)
         /\ CommandOK(TestCommand(s, n, "INITIATOR"), Plan[n].init, f)
  <1>1. \A role : LET c == TestCommand(s, n, role)
                 IN  /\ c.seq = s /\ c.kind = Plan[n].kind
                     /\ c.role = role /\ c.test = n
    BY DEF TestCommand
  <1>2. Plan[n].kind \in TestKind
    BY PlanFacts
  <1> QED
    BY <1>1, <1>2 DEF CommandOK

LEMMA ShutdownMade ==
  ASSUME NEW s, NEW a, NEW f
  PROVE  CommandOK(ShutdownCommand(s), a, f)
  BY DEF CommandOK, ShutdownCommand, TestKind

\* An inbox is left alone or gets the command that is written.
LEMMA PutCase ==
  ASSUME NEW f, NEW a, NEW v, NEW o, NEW b \in DOMAIN f
  PROVE  \/ Put(f, a, v, o)[b] = f[b]
         \/ b = a /\ Put(f, a, v, o)[b] = v
  BY DEF Put

\* Parts of the invariant a step leaves alone when it leaves what they speak
\* of alone.
LEMMA Frames ==
  ASSUME IInv, TypeOK'
  PROVE  /\ UNCHANGED <<inbox, cmd, seqOf>> => Commands'
         /\ UNCHANGED <<mode, cmd, last, exec, status, slot>> => Places'
         /\ UNCHANGED <<exec, last, seqOf>> => Begun'
         /\ UNCHANGED <<slot, last, seqOf, exec>> => Slots'
         /\ UNCHANGED <<stored, exec>> /\ next' >= next => Recorded'
         /\ UNCHANGED <<pc, next, seq, seqOf>> => Numbering'
         /\ UNCHANGED <<pc, next, seq, slot>> => Fetched'
  <1>1. UNCHANGED <<inbox, cmd, seqOf>> => Commands'
    BY DEF IInv, Commands, CommandOK
  <1>2. UNCHANGED <<mode, cmd, last, exec, status, slot>> => Places'
    BY DEF IInv, Places, PlaceOf
  <1>3. UNCHANGED <<exec, last, seqOf>> => Begun'
    BY DEF IInv, Begun
  <1>4. UNCHANGED <<slot, last, seqOf, exec>> => Slots'
    BY DEF IInv, Slots
  <1>5. UNCHANGED <<stored, exec>> /\ next' >= next => Recorded'
    <2> SUFFICES ASSUME UNCHANGED <<stored, exec>>, next' >= next,
                        NEW r \in stored
                 PROVE  r.test < next' /\ exec[r.test] = r.status
      BY DEF Recorded
    <2>1. r.test < next /\ exec[r.test] = r.status /\ r.test \in Tests
      BY DEF IInv, Recorded, TypeOK, TypeController
    <2> QED
      BY <2>1, PlanFacts DEF IInv, TypeOK, TypeController
  <1>6. UNCHANGED <<pc, next, seq, seqOf>> => Numbering'
    BY DEF IInv, Numbering
  <1>7. UNCHANGED <<pc, next, seq, slot>> => Fetched'
    BY DEF IInv, Fetched
  <1> QED
    BY <1>1, <1>2, <1>3, <1>4, <1>5, <1>6, <1>7

\* Going on to the next test.
LEMMA Advance ==
  ASSUME IInv, next \in Tests, next' = next + 1, pc' = "issue", UNCHANGED <<seq, seqOf>>
  PROVE  Numbering' /\ Fetched' /\ next' >= next
  <1>1. next \in Nat /\ seq \in Nat /\ seqOf \in [Tests -> Nat]
    BY DEF IInv, TypeOK, TypeController, TypeHistory
  <1>2. Numbering'
    BY <1>1, PlanFacts DEF IInv, Numbering
  <1>3. Fetched' /\ next' >= next
    BY <1>1 DEF Fetched
  <1> QED
    BY <1>2, <1>3

LEMMA ControllerInv ==
  ASSUME IInv, TypeOK', ControllerStep \/ Interrupt
  PROVE  IInv'
  <1> USE PlanFacts
  <1>a. /\ TypeOK /\ Numbering /\ Commands /\ Places
        /\ Begun /\ Slots /\ Fetched /\ Recorded
    BY DEF IInv
  <1>b. next \in Nat /\ seq \in Nat /\ seqOf \in [Tests -> Nat]
    BY <1>a DEF TypeOK, TypeController, TypeHistory
  <1>c. inbox \in [Agents -> Command]
    BY <1>a DEF TypeOK, TypeMemory
  <1>1. CASE RefuseTest
    <2>1. next \in Tests
      BY <1>1, <1>b, <1>a DEF RefuseTest, TestsOver, TypeOK, TypeController
    <2> QED
      BY <1>1, <2>1, Frames, Advance DEF RefuseTest, IInv, agentVars
  <1>2. ASSUME NEW o \in Outcome, IssueToResponder(o) PROVE IInv'
    <2>1. next \in Tests /\ seqOf[next] = 0 /\ pc = "issue"
      BY <1>2, <1>a, <1>b DEF IssueToResponder, TestsOver, TypeOK, TypeController, Numbering
    <2>2. /\ seqOf'[next] = seq + 1
          /\ \A n \in Tests : n # next => seqOf'[n] = seqOf[n]
          /\ \A n \in Tests : seqOf[n] # 0 => seqOf'[n] = seqOf[n]
      BY <1>2, <1>b, <2>1 DEF IssueToResponder
    <2>3. Numbering'
      <3>1. seqOf' \in [Tests -> Nat] /\ seq' = seq + 1 /\ seq + 1 # 0
        <4>1. seqOf' = [seqOf EXCEPT ![next] = seq + 1] /\ seq' = seq + 1
          BY <1>2 DEF IssueToResponder
        <4>2. seq + 1 \in Nat /\ seq + 1 # 0
          BY <1>b
        <4> QED
          BY <4>1, <4>2, <1>b
      <3>2. \A n \in Tests : seqOf'[n] <= seq'
        BY <2>2, <3>1, <1>a, <1>b DEF Numbering
      <3>3. next' >= next /\ next' \in Nat
        BY <1>2, <1>b DEF IssueToResponder
      <3>4. \A n \in Tests : n > next' => seqOf'[n] = 0
        BY <2>2, <3>3, <1>a, <1>b DEF Numbering
      <3>5. pc' = "issue" /\ next' \in Tests => seqOf'[next'] = 0
        BY <1>2, <2>2, <1>a, <1>b DEF IssueToResponder, Numbering
      <3>6. pc' \in {"delay", "wait", "fetch"} =>
              next' \in Tests /\ seqOf'[next'] = seq' /\ seq' # 0
        BY <1>2, <2>1, <2>2, <3>1 DEF IssueToResponder
      <3>7. \A m, n \in Tests : m # n /\ seqOf'[m] # 0 => seqOf'[m] # seqOf'[n]
        <4> SUFFICES ASSUME NEW m \in Tests, NEW n \in Tests, m # n, seqOf'[m] # 0
                     PROVE  seqOf'[m] # seqOf'[n]
          OBVIOUS
        <4>1. seqOf[m] <= seq /\ seqOf[n] <= seq
          BY <1>a DEF Numbering
        <4>2. CASE m = next
          BY <4>1, <4>2, <2>2, <1>b
        <4>3. CASE n = next
          BY <4>1, <4>3, <2>2, <1>b
        <4>4. CASE m # next /\ n # next
          BY <4>4, <2>2, <1>a DEF Numbering
        <4> QED
          BY <4>2, <4>3, <4>4
      <3> QED
        BY <3>2, <3>4, <3>5, <3>6, <3>7 DEF Numbering
    <2>4. Commands'
      <3> SUFFICES ASSUME NEW a \in Agents
                   PROVE  CommandOK(inbox'[a], a, seqOf') /\ CommandOK(cmd'[a], a, seqOf')
        BY DEF Commands
      <3>1. CommandOK(inbox[a], a, seqOf) /\ CommandOK(cmd[a], a, seqOf)
        BY <1>a DEF Commands
      <3>2. CommandOK(inbox[a], a, seqOf') /\ CommandOK(cmd[a], a, seqOf')
        BY <3>1, <2>2, CommandKept
      <3>3. CommandOK(TestCommand(seq + 1, next, "RESPONDER"), Plan[next].resp, seqOf')
        BY <1>b, <2>1, <2>2, CommandMade
      <3>4. \/ inbox'[a] = inbox[a]
            \/ a = Plan[next].resp /\ inbox'[a] = TestCommand(seq + 1, next, "RESPONDER")
        <4>1. inbox' = Put(inbox, Plan[next].resp, TestCommand(seq + 1, next, "RESPONDER"), o)
          BY <1>2 DEF IssueToResponder
        <4>2. a \in DOMAIN inbox
          BY <1>c
        <4> QED
          BY <4>1, <4>2, PutCase
      <3> QED
        BY <1>2, <3>2, <3>3, <3>4 DEF IssueToResponder, agentVars
    <2>5. Places'
      BY <1>2, Frames DEF IssueToResponder, agentVars
    <2>6. Begun'
      BY <1>2, <1>a, <2>2 DEF IssueToResponder, Begun, agentVars
    <2>7. Slots'
      BY <1>2, <1>a, <2>2 DEF IssueToResponder, Slots, agentVars
    <2>8. Fetched' /\ Recorded'
      <3>1. next' >= next /\ pc' # "fetch"
        BY <1>2, <1>b DEF IssueToResponder
      <3> QED
        BY <1>2, <3>1, Frames DEF IssueToResponder, Fetched
    <2> QED
      BY <2>3, <2>4, <2>5, <2>6, <2>7, <2>8 DEF IInv
  <1>3. ASSUME NEW o \in Outcome, IssueToInitiator(o) PROVE IInv'
    <2>1. next \in Tests /\ seqOf[next] = seq /\ seq # 0
      BY <1>3, <1>a DEF IssueToInitiator, Numbering
    <2>2. Numbering' /\ Fetched' /\ next' >= next
      <3>1. CASE o = "ok"
        BY <1>3, <3>1, <1>a, <1>b DEF IssueToInitiator, Numbering, Fetched
      <3>2. CASE o # "ok"
        BY <1>3, <3>2, <2>1, Advance DEF IssueToInitiator
      <3> QED
        BY <3>1, <3>2
    <2>3. Commands'
      <3> SUFFICES ASSUME NEW a \in Agents
                   PROVE  CommandOK(inbox'[a], a, seqOf') /\ CommandOK(cmd'[a], a, seqOf')
        BY DEF Commands
      <3>1. CommandOK(inbox[a], a, seqOf) /\ CommandOK(cmd[a], a, seqOf)
        BY <1>a DEF Commands
      <3>2. CommandOK(TestCommand(seq, next, "INITIATOR"), Plan[next].init, seqOf)
        BY <2>1, CommandMade
      <3>3. \/ inbox'[a] = inbox[a]
            \/ a = Plan[next].init /\ inbox'[a] = TestCommand(seq, next, "INITIATOR")
        <4>1. inbox' = Put(inbox, Plan[next].init, TestCommand(seq, next, "INITIATOR"), o)
          BY <1>3 DEF IssueToInitiator
        <4>2. a \in DOMAIN inbox
          BY <1>c
        <4> QED
          BY <4>1, <4>2, PutCase
      <3> QED
        BY <1>3, <3>1, <3>2, <3>3 DEF IssueToInitiator, agentVars
    <2> QED
      BY <1>3, <2>2, <2>3, Frames DEF IssueToInitiator, IInv, agentVars
  <1>4. CASE ResultArrives
    <2>1. Numbering' /\ Fetched' /\ next' >= next
      BY <1>4, <1>a, <1>b DEF ResultArrives, Numbering, Fetched
    <2> QED
      BY <1>4, <2>1, Frames DEF ResultArrives, IInv, agentVars
  <1>5. CASE StoreResult
    <2>1. next \in Tests /\ seqOf[next] = seq /\ seq # 0
      BY <1>5, <1>a DEF StoreResult, Numbering
    <2>2. Plan[next].init \in Agents /\ slot[Plan[next].init].seq = seq
      BY <1>5, <1>a, <2>1 DEF StoreResult, Fetched
    <2>3. slot[Plan[next].init].status \in {"PENDING"} \cup Final
      BY <2>2, <1>a DEF TypeOK, TypeMemory, Result
    <2>4. slot[Plan[next].init].status \in Final
      BY <2>1, <2>2, <2>3, <1>a DEF Slots
    <2>5. slot[Plan[next].init].test = next
      BY <2>1, <2>2, <2>4, <1>a DEF Slots, Numbering
    <2>6. exec[next] = slot[Plan[next].init].status
      BY <2>2, <2>4, <2>5, <1>a DEF Slots
    <2>7. Recorded'
      <3> SUFFICES ASSUME NEW r \in stored'
                   PROVE  r.test < next' /\ exec'[r.test] = r.status
        BY DEF Recorded
      <3>1. CASE r \in stored
        <4>1. r.test < next /\ exec[r.test] = r.status /\ r.test \in Nat
          BY <3>1, <1>a DEF Recorded, TypeOK, TypeController
        <4> QED
          BY <4>1, <1>5, <1>b DEF StoreResult
      <3>2. CASE r = [test |-> next, status |-> slot[Plan[next].init].status]
        BY <3>2, <1>5, <2>6, <1>b DEF StoreResult
      <3> QED
        BY <1>5, <3>1, <3>2 DEF StoreResult
    <2>8. Numbering' /\ Fetched'
      BY <1>5, <2>1, Advance DEF StoreResult
    <2> QED
      BY <1>5, <2>7, <2>8, Frames DEF StoreResult, IInv, agentVars
  <1>6. CASE GiveUp
    <2>1. next \in Tests
      BY <1>6, <1>a DEF GiveUp, Numbering
    <2> QED
      BY <1>6, <2>1, Frames, Advance DEF GiveUp, IInv, agentVars
  <1>7. CASE BeginShutdown
    <2>1. Numbering' /\ Fetched' /\ next' >= next
      BY <1>7, <1>a, <1>b DEF BeginShutdown, Numbering, Fetched
    <2> QED
      BY <1>7, <2>1, Frames DEF BeginShutdown, IInv, agentVars
  <1>8. ASSUME NEW o \in Outcome, SendShutdown(o) PROVE IInv'
    <2>1. Commands'
      <3> SUFFICES ASSUME NEW a \in Agents
                   PROVE  CommandOK(inbox'[a], a, seqOf') /\ CommandOK(cmd'[a], a, seqOf')
        BY DEF Commands
      <3>1. CommandOK(inbox[a], a, seqOf) /\ CommandOK(cmd[a], a, seqOf)
        BY <1>a DEF Commands
      <3>2. \/ inbox'[a] = inbox[a]
            \/ a = told /\ inbox'[a] = ShutdownCommand(seq)
        <4>1. inbox' = Put(inbox, told, ShutdownCommand(seq), o)
          BY <1>8 DEF SendShutdown
        <4>2. a \in DOMAIN inbox
          BY <1>c
        <4> QED
          BY <4>1, <4>2, PutCase
      <3> QED
        BY <1>8, <3>1, <3>2, ShutdownMade DEF SendShutdown, agentVars
    <2>2. next' >= next
      BY <1>8, <1>b DEF SendShutdown
    <2> QED
      BY <1>8, <2>1, <2>2, Frames DEF SendShutdown, IInv, agentVars
  <1>9. CASE Exit
    <2>1. Numbering' /\ Fetched' /\ next' >= next
      BY <1>9, <1>a, <1>b DEF Exit, Numbering, Fetched
    <2> QED
      BY <1>9, <2>1, Frames DEF Exit, IInv, agentVars
  <1>10. CASE Interrupt
    <2>1. next' >= next
      BY <1>10, <1>b DEF Interrupt
    <2> QED
      BY <1>10, <2>1, Frames DEF Interrupt, IInv, agentVars
  <1> QED
    BY <1>1, <1>2, <1>3, <1>4, <1>5, <1>6, <1>7, <1>8, <1>9, <1>10 DEF ControllerStep

----------------------------------------------------------------------------
(***************************************************************************)
(* The agents' steps.                                                      *)
(***************************************************************************)

\* What the invariant says of the command an agent executes.
LEMMA BusyFacts ==
  ASSUME IInv, NEW a \in Agents, mode[a] \in Busy
  PROVE  LET c == cmd[a]
         IN  /\ c.kind \in TestKind /\ c.test \in Tests
             /\ c.seq = last[a] /\ c.seq = seqOf[c.test] /\ c.seq # 0
             /\ \/ c.role = "INITIATOR" /\ Plan[c.test].init = a
                \/ c.role = "RESPONDER" /\ Plan[c.test].resp = a
  <1>1. CommandOK(cmd[a], a, seqOf) /\ PlaceOf(a)
    BY DEF IInv, Commands, Places
  <1> QED
    BY <1>1 DEF CommandOK, PlaceOf

\* A step of agent a that gives test n of its own, so far without a verdict,
\* a new outcome disturbs neither slots, nor the record, nor other agents.
LEMMA OutcomeInv ==
  ASSUME IInv, NEW a \in Agents, NEW n \in Tests, NEW w \in {"running"} \cup Final,
         Plan[n].init = a, exec[n] \in {"none", "running"},
         exec' = [exec EXCEPT ![n] = w],
         \A b \in Agents : last'[b] >= last[b],
         last' \in [Agents -> Nat],
         seqOf[n] # 0, seqOf[n] <= last'[a],
         UNCHANGED <<slot, stored, next, seqOf>>,
         \A b \in Agents \ {a} : /\ mode'[b] = mode[b] /\ cmd'[b] = cmd[b]
                                 /\ last'[b] = last[b] /\ status'[b] = status[b]
  PROVE  Begun' /\ Slots' /\ Recorded' /\ \A b \in Agents \ {a} : PlaceOf(b)'
  <1>a. /\ TypeMemory /\ TypeAgents /\ TypeHistory /\ TypeController
        /\ Begun /\ Slots /\ Recorded
    BY DEF IInv, TypeOK
  <1>b. \A m \in Tests : m # n => exec'[m] = exec[m]
    BY <1>a DEF TypeHistory
  <1>c. exec'[n] = w
    BY <1>a DEF TypeHistory
  <1>d. \A v \in {"PENDING"} \cup Final : exec[n] # v
    BY DEF Final
  <1>1. Begun'
    <2> SUFFICES ASSUME NEW m \in Tests, exec'[m] # "none"
                 PROVE  seqOf[m] # 0 /\ seqOf[m] <= last'[Plan[m].init]
      BY DEF Begun
    <2>1. CASE m = n
      BY <2>1
    <2>2. CASE m # n
      <3>1. seqOf[m] # 0 /\ seqOf[m] <= last[Plan[m].init]
        BY <2>2, <1>a, <1>b DEF Begun
      <3>2. Plan[m].init \in Agents
        BY PlanFacts
      <3>3. /\ last[Plan[m].init] \in Nat /\ last'[Plan[m].init] \in Nat
            /\ last'[Plan[m].init] >= last[Plan[m].init] /\ seqOf[m] \in Nat
        BY <3>2, <1>a DEF TypeAgents, TypeHistory
      <3> QED
        BY <3>1, <3>3
    <2> QED
      BY <2>1, <2>2
  <1>2. Slots'
    <2> SUFFICES ASSUME NEW b \in Agents
                 PROVE  /\ slot[b].seq <= last'[b]
                        /\ slot[b].status \in Final =>
                             /\ slot[b].test \in Tests
                             /\ slot[b].seq = seqOf[slot[b].test]
                             /\ slot[b].seq # 0
                             /\ Plan[slot[b].test].init = b
                             /\ exec'[slot[b].test] = slot[b].status
                        /\ slot[b].status = "PENDING" => slot[b].seq = 0
      BY DEF Slots
    <2>1. slot[b].seq <= last'[b]
      <3>1. slot[b].seq <= last[b] /\ slot[b].seq \in Nat /\ last[b] \in Nat
        BY <1>a DEF Slots, TypeMemory, TypeAgents, Result
      <3> QED
        BY <3>1
    <2> QED
      BY <2>1, <1>a, <1>b, <1>d DEF Slots
  <1>3. Recorded'
    <2> SUFFICES ASSUME NEW r \in stored
                 PROVE  r.test < next /\ exec'[r.test] = r.status
      BY DEF Recorded
    <2>1. /\ r.test < next /\ exec[r.test] = r.status
          /\ r.test \in Tests /\ r.status \in {"PENDING"} \cup Final
      BY <1>a DEF Recorded, TypeController
    <2> QED
      BY <2>1, <1>b, <1>d
  <1>4. ASSUME NEW b \in Agents \ {a} PROVE PlaceOf(b)'
    <2>1. PlaceOf(b)
      BY DEF IInv, Places
    <2>2. mode[b] \in Busy /\ cmd[b].role = "INITIATOR" =>
            cmd[b].test \in Tests /\ cmd[b].test # n
      BY BusyFacts
    <2>3. mode[b] \in {"reset", "send", "poll", "report"} => mode[b] \in Busy
      BY DEF Busy
    <2> QED
      BY <2>1, <2>2, <2>3, <1>b DEF PlaceOf
  <1> QED
    BY <1>1, <1>2, <1>3, <1>4

\* The same for a step that leaves all outcomes alone.
LEMMA NoOutcomeInv ==
  ASSUME IInv, NEW a \in Agents,
         \A b \in Agents : last'[b] >= last[b],
         last' \in [Agents -> Nat],
         UNCHANGED <<slot, stored, next, seqOf, exec>>,
         \A b \in Agents \ {a} : /\ mode'[b] = mode[b] /\ cmd'[b] = cmd[b]
                                 /\ last'[b] = last[b] /\ status'[b] = status[b]
  PROVE  Begun' /\ Slots' /\ Recorded' /\ \A b \in Agents \ {a} : PlaceOf(b)'
  <1>a. /\ TypeMemory /\ TypeAgents /\ TypeHistory
        /\ Begun /\ Slots /\ Recorded /\ Places
    BY DEF IInv, TypeOK
  <1>1. Begun'
    <2> SUFFICES ASSUME NEW m \in Tests, exec[m] # "none"
                 PROVE  seqOf[m] # 0 /\ seqOf[m] <= last'[Plan[m].init]
      BY DEF Begun
    <2>1. seqOf[m] # 0 /\ seqOf[m] <= last[Plan[m].init] /\ Plan[m].init \in Agents
      BY PlanFacts, <1>a DEF Begun
    <2>2. /\ last[Plan[m].init] \in Nat /\ last'[Plan[m].init] \in Nat
          /\ last'[Plan[m].init] >= last[Plan[m].init] /\ seqOf[m] \in Nat
      BY <2>1, <1>a DEF TypeAgents, TypeHistory
    <2> QED
      BY <2>1, <2>2
  <1>2. Slots'
    <2>1. ASSUME NEW b \in Agents PROVE slot[b].seq <= last'[b]
      <3>1. slot[b].seq <= last[b] /\ slot[b].seq \in Nat /\ last[b] \in Nat
        BY <1>a DEF Slots, TypeMemory, TypeAgents, Result
      <3> QED
        BY <3>1
    <2> QED
      BY <2>1, <1>a DEF Slots
  <1>3. Recorded'
    BY <1>a DEF Recorded
  <1>4. ASSUME NEW b \in Agents \ {a} PROVE PlaceOf(b)'
    BY <1>a DEF Places, PlaceOf
  <1> QED
    BY <1>1, <1>2, <1>3, <1>4

\* Ending a test keeps the invariant.
LEMMA EndTestInv ==
  ASSUME IInv, TypeOK', NEW a \in Agents, NEW v \in Final,
         mode[a] \in {"reset", "send", "poll"}, EndTest(a, cmd[a], v),
         UNCHANGED <<ctlVars, slot, inbox, cmd, last, seqOf>>
  PROVE  IInv'
  <1>a. TypeAgents /\ TypeHistory /\ PlaceOf(a)
    BY DEF IInv, TypeOK, Places
  <1>b. /\ cmd[a].kind \in TestKind /\ cmd[a].test \in Tests
        /\ cmd[a].seq = last[a] /\ cmd[a].seq = seqOf[cmd[a].test] /\ cmd[a].seq # 0
        /\ \/ cmd[a].role = "INITIATOR" /\ Plan[cmd[a].test].init = a
           \/ cmd[a].role = "RESPONDER" /\ Plan[cmd[a].test].resp = a
    BY BusyFacts DEF Busy
  <1>c. Commands' /\ Numbering' /\ Fetched'
    BY Frames DEF ctlVars
  <1>d. /\ \A b \in Agents : last'[b] >= last[b] /\ last[b] \in Nat
        /\ last' \in [Agents -> Nat]
    BY <1>a DEF TypeAgents
  <1>1. CASE cmd[a].role = "INITIATOR"
    <2>1. /\ mode' = [mode EXCEPT ![a] = "report"]
          /\ status' = [status EXCEPT ![a] = v]
          /\ exec' = [exec EXCEPT ![cmd[a].test] = v]
      BY <1>1 DEF EndTest
    <2>2. exec[cmd[a].test] = "running"
      BY <1>1, <1>a DEF PlaceOf
    <2>3. \A b \in Agents \ {a} : /\ mode'[b] = mode[b] /\ cmd'[b] = cmd[b]
                                   /\ last'[b] = last[b] /\ status'[b] = status[b]
      BY <2>1, <1>a DEF TypeAgents
    <2>4. seqOf[cmd[a].test] <= last'[a]
      BY <1>b, <1>d
    <2>5. Begun' /\ Slots' /\ Recorded' /\ \A b \in Agents \ {a} : PlaceOf(b)'
      BY <1>1, <1>b, <1>d, <2>1, <2>2, <2>3, <2>4, OutcomeInv, PlanFacts, ZenonT(40) DEF ctlVars
    <2>6. mode'[a] = "report" /\ status'[a] = v /\ exec'[cmd[a].test] = v
      BY <2>1, <1>a, <1>b DEF TypeAgents, TypeHistory
    <2>7. PlaceOf(a)'
      BY <2>6, <1>1, <1>a, <1>b DEF PlaceOf, Busy
    <2> QED
      BY <1>c, <2>5, <2>7 DEF IInv, Places
  <1>2. CASE cmd[a].role # "INITIATOR"
    <2>1. mode' = [mode EXCEPT ![a] = "idle"] /\ UNCHANGED <<status, exec>>
      BY <1>2 DEF EndTest
    <2>2. mode'[a] = "idle" /\ \A b \in Agents \ {a} : mode'[b] = mode[b]
      BY <2>1, <1>a DEF TypeAgents
    <2>3. Begun' /\ Slots' /\ Recorded' /\ \A b \in Agents \ {a} : PlaceOf(b)'
      BY <1>d, <2>1, <2>2, NoOutcomeInv DEF ctlVars
    <2>4. PlaceOf(a)'
      BY <2>2 DEF PlaceOf, Busy
    <2> QED
      BY <1>c, <2>3, <2>4 DEF IInv, Places
  <1> QED
    BY <1>1, <1>2
\* Moving on inside a test, or out of it without a verdict.
LEMMA MoveInv ==
  ASSUME IInv, TypeOK', NEW a \in Agents, NEW m,
         mode' = [mode EXCEPT ![a] = m],
         UNCHANGED <<ctlVars, slot, inbox, cmd, last, status, seqOf, exec>>,
         \/ m \in {"idle", "stopped"}
         \/ m \in {"send", "poll"} /\ mode[a] \in {"reset", "send", "poll"}
              /\ (m = "send" => cmd[a].role = "INITIATOR")
         \/ m \in {"poll", "pong"} /\ mode[a] \in Busy /\ cmd[a].role = "RESPONDER"
  PROVE  IInv'
  <1>a. TypeAgents /\ PlaceOf(a)
    BY DEF IInv, TypeOK, Places
  <1>1. Commands' /\ Numbering' /\ Fetched'
    BY Frames DEF ctlVars
  <1>2. mode'[a] = m /\ \A b \in Agents \ {a} : mode'[b] = mode[b]
    BY <1>a DEF TypeAgents
  <1>3. /\ \A b \in Agents : last'[b] >= last[b] /\ last[b] \in Nat
        /\ last' \in [Agents -> Nat]
    BY <1>a DEF TypeAgents
  <1>4. Begun' /\ Slots' /\ Recorded' /\ \A b \in Agents \ {a} : PlaceOf(b)'
    BY <1>2, <1>3, NoOutcomeInv DEF ctlVars
  <1>5. PlaceOf(a)'
    BY <1>2, <1>a DEF PlaceOf, Busy
  <1> QED
    BY <1>1, <1>4, <1>5 DEF IInv, Places

\* An initiator that takes a new command has never begun its test before.
LEMMA FreshTest ==
  ASSUME IInv, NEW a \in Agents, inbox[a].seq # 0, inbox[a].seq > last[a],
         inbox[a].role = "INITIATOR"
  PROVE  LET c == inbox[a]
         IN  /\ c.kind \in TestKind /\ c.test \in Tests /\ Plan[c.test].init = a
             /\ c.seq = seqOf[c.test] /\ exec[c.test] = "none"
  <1> DEFINE c == inbox[a]
  <1>1. CommandOK(c, a, seqOf) /\ Begun
    BY DEF IInv, Commands
  <1>2. /\ c.kind \in TestKind /\ c.test \in Tests /\ Plan[c.test].init = a
        /\ c.seq = seqOf[c.test]
    BY <1>1 DEF CommandOK
  <1>3. last[a] \in Nat /\ c.seq \in Nat
    BY DEF IInv, TypeOK, TypeAgents, TypeMemory, Command
  <1> QED
    BY <1>1, <1>2, <1>3 DEF Begun

LEMMA TakeCommandInv ==
  ASSUME IInv, TypeOK', NEW a \in Agents, TakeCommand(a)
  PROVE  IInv'
  <1> DEFINE c == inbox[a]
  <1>a. TypeAgents /\ TypeMemory /\ TypeHistory /\ TypeController
    BY DEF IInv, TypeOK
  <1>b. /\ c.seq \in Nat /\ c.seq # 0 /\ c.seq > last[a]
        /\ last' = [last EXCEPT ![a] = c.seq]
        /\ cmd' = [cmd EXCEPT ![a] = c]
        /\ UNCHANGED <<ctlVars, slot, inbox, mailbox, iter, seen, signalled, seqOf, mixed>>
    BY <1>a DEF TakeCommand, NewCommand, TypeMemory, Command
  <1>c. CommandOK(c, a, seqOf)
    BY DEF IInv, Commands
  <1>d. /\ last'[a] = c.seq /\ cmd'[a] = c
        /\ \A b \in Agents \ {a} : last'[b] = last[b] /\ cmd'[b] = cmd[b]
        /\ \A b \in Agents : last'[b] >= last[b]
        /\ last' \in [Agents -> Nat]
    BY <1>a, <1>b DEF TypeAgents
  <1>e. slot'[a].seq < last'[a]
    <2>1. slot[a].seq <= last[a] /\ slot[a].seq \in Nat /\ last[a] \in Nat
      BY <1>a DEF IInv, Slots, TypeMemory, TypeAgents, Result
    <2> QED
      BY <2>1, <1>b, <1>d
  <1>1. Commands'
    BY <1>b, <1>c, <1>d DEF IInv, Commands
  <1>2. Numbering' /\ Fetched'
    BY <1>b, Frames DEF ctlVars
  <1>3. ASSUME NEW m \in {"reset", "report", "idle", "stopped"},
               mode' = [mode EXCEPT ![a] = m]
        PROVE  mode'[a] = m /\ \A b \in Agents \ {a} : mode'[b] = mode[b]
    BY <1>3, <1>a DEF TypeAgents
  <1>4. ASSUME c.role = "INITIATOR"
        PROVE  /\ c.kind \in TestKind /\ c.test \in Tests /\ Plan[c.test].init = a
               /\ c.seq = seqOf[c.test] /\ exec[c.test] = "none"
    BY <1>4, <1>b, FreshTest
  <1>5. ASSUME NEW w \in {"running"} \cup Final, NEW m \in {"reset", "report"},
               c.role = "INITIATOR",
               exec' = [exec EXCEPT ![c.test] = w],
               mode' = [mode EXCEPT ![a] = m],
               IF m = "reset" THEN w = "running" /\ UNCHANGED status
                              ELSE w = "ERROR" /\ status' = [status EXCEPT ![a] = w]
        PROVE  IInv'
    <2>1. /\ c.kind \in TestKind /\ c.test \in Tests /\ Plan[c.test].init = a
          /\ c.seq = seqOf[c.test] /\ exec[c.test] = "none"
      BY <1>4, <1>5
    <2>2. \A b \in Agents \ {a} : /\ mode'[b] = mode[b] /\ cmd'[b] = cmd[b]
                                  /\ last'[b] = last[b] /\ status'[b] = status[b]
      BY <1>3, <1>5, <1>d, <1>a DEF TypeAgents
    <2>3. seqOf[c.test] # 0 /\ seqOf[c.test] <= last'[a]
      BY <2>1, <1>b, <1>d
    <2>4. UNCHANGED <<slot, stored, next, seqOf>>
      BY <1>b DEF ctlVars
    <2>5. Begun' /\ Slots' /\ Recorded' /\ \A b \in Agents \ {a} : PlaceOf(b)'
      BY <1>5, <1>d, <2>1, <2>2, <2>3, <2>4, OutcomeInv
    <2>6. mode'[a] = m /\ exec'[c.test] = w /\ (m = "report" => status'[a] = w)
      BY <1>3, <1>5, <1>a, <2>1 DEF TypeAgents, TypeHistory
    <2>7. PlaceOf(a)'
      BY <1>5, <1>d, <1>e, <2>1, <2>6 DEF PlaceOf, Final
    <2> QED
      BY <1>1, <1>2, <2>5, <2>7 DEF IInv, Places
  <1>6. ASSUME NEW m \in {"reset", "idle", "stopped"},
               m = "reset" => c.kind \in TestKind /\ c.role # "INITIATOR",
               mode' = [mode EXCEPT ![a] = m],
               UNCHANGED <<status, exec>>
        PROVE  IInv'
    <2>1. mode'[a] = m /\ \A b \in Agents \ {a} : mode'[b] = mode[b]
      BY <1>3, <1>6
    <2>2. Begun' /\ Slots' /\ Recorded' /\ \A b \in Agents \ {a} : PlaceOf(b)'
      BY <1>6, <1>b, <1>d, <2>1, NoOutcomeInv DEF ctlVars
    <2>3. PlaceOf(a)'
      BY <1>6, <1>d, <1>e, <2>1 DEF PlaceOf, Busy
    <2> QED
      BY <1>1, <1>2, <2>2, <2>3 DEF IInv, Places
  <1>7. CASE c.kind = "SHUTDOWN"
    BY <1>6, <1>7 DEF TakeCommand
  <1>8. CASE c.kind = "BANDWIDTH" /\ ~Plan[c.test].fits
    <2>1. EndTest(a, c, "ERROR")
      BY <1>8 DEF TakeCommand
    <2>2. CASE c.role = "INITIATOR"
      BY <2>1, <2>2, <1>5 DEF EndTest, Final
    <2>3. CASE c.role # "INITIATOR"
      BY <2>1, <2>3, <1>6 DEF EndTest
    <2> QED
      BY <2>2, <2>3
  <1>9. CASE c.kind # "SHUTDOWN" /\ ~(c.kind = "BANDWIDTH" /\ ~Plan[c.test].fits)
    <2>1. c.kind \in TestKind
      BY <1>9, <1>a, <1>b, <1>c DEF CommandOK, TypeMemory, Command, TestKind
    <2>2. /\ mode' = [mode EXCEPT ![a] = "reset"]
          /\ exec' = IF c.role = "INITIATOR"
                       THEN [exec EXCEPT ![c.test] = "running"] ELSE exec
          /\ UNCHANGED status
      BY <1>9 DEF TakeCommand
    <2>3. CASE c.role = "INITIATOR"
      BY <2>2, <2>3, <1>5
    <2>4. CASE c.role # "INITIATOR"
      BY <2>1, <2>2, <2>4, <1>6
    <2> QED
      BY <2>3, <2>4
  <1> QED
    BY <1>7, <1>8, <1>9

\* Reporting: the slot gets the verdict on the last command, or is wiped out,
\* or stays.
LEMMA ReportCases ==
  ASSUME IInv, NEW a \in Agents, NEW o, ReportResult(a, o), NEW b \in Agents
  PROVE  \/ slot'[b] = slot[b]
         \/ b = a /\ slot'[b] \in {ResultOf(a), NoResult}
  <1>1. PICK r \in Staged(a, ResultOf(a), NoResult) : slot' = Put(slot, a, r, o)
    BY DEF ReportResult
  <1>2. b \in DOMAIN slot
    BY DEF IInv, TypeOK, TypeMemory
  <1>3. slot'[b] = slot[b] \/ (b = a /\ slot'[b] = r)
    BY <1>1, <1>2, PutCase
  <1> QED
    BY <1>1, <1>3 DEF Staged

LEMMA ReportInv ==
  ASSUME IInv, TypeOK', NEW a \in Agents, NEW o, ReportResult(a, o)
  PROVE  IInv'
  <1>a. TypeAgents /\ TypeMemory /\ PlaceOf(a) /\ Slots /\ mode[a] = "report"
    BY DEF IInv, TypeOK, Places, ReportResult
  <1>b. /\ mode' = [mode EXCEPT ![a] = "idle"]
        /\ UNCHANGED <<ctlVars, inbox, mailbox, cmd, last, iter, seen, status,
                       signalled, seqOf, exec, mixed>>
    BY DEF ReportResult
  <1>c. /\ cmd[a].kind \in TestKind /\ cmd[a].test \in Tests
        /\ cmd[a].seq = last[a] /\ cmd[a].seq = seqOf[cmd[a].test] /\ cmd[a].seq # 0
        /\ cmd[a].role = "INITIATOR" /\ Plan[cmd[a].test].init = a
        /\ exec[cmd[a].test] = status[a] /\ status[a] \in Final
        /\ last[a] \in Nat /\ slot[a].seq < last[a]
    BY <1>a, BusyFacts DEF Busy, PlaceOf, TypeAgents
  <1>1. Commands' /\ Numbering' /\ Begun'
    BY <1>b, Frames DEF ctlVars
  <1>2. Recorded'
    BY <1>b DEF IInv, Recorded, ctlVars
  <1>4. ASSUME NEW b \in Agents
        PROVE  \/ slot'[b] = slot[b]
               \/ b = a /\ slot'[b] \in {ResultOf(a), NoResult}
    BY ReportCases
  <1>3. Places'
    <2>1. mode'[a] = "idle" /\ \A b \in Agents \ {a} : mode'[b] = mode[b]
      BY <1>a, <1>b DEF TypeAgents
    <2>2. ASSUME NEW b \in Agents PROVE PlaceOf(b)'
      BY <1>b, <1>4, <2>1 DEF IInv, Places, PlaceOf, Busy
    <2> QED
      BY <2>2 DEF Places
  <1>5. Slots'
    <2>1. "PENDING" \notin Final
      BY DEF Final
    <2> SUFFICES ASSUME NEW b \in Agents
                 PROVE  /\ slot'[b].seq <= last[b]
                        /\ slot'[b].status \in Final =>
                             /\ slot'[b].test \in Tests
                             /\ slot'[b].seq = seqOf[slot'[b].test]
                             /\ slot'[b].seq # 0
                             /\ Plan[slot'[b].test].init = b
                             /\ exec[slot'[b].test] = slot'[b].status
                        /\ slot'[b].status = "PENDING" => slot'[b].seq = 0
      BY <1>b DEF Slots
    <2>2. CASE slot'[b] = slot[b]
      BY <2>2, <1>a DEF Slots
    <2>3. CASE b = a /\ slot'[b] = ResultOf(a)
      BY <2>1, <2>3, <1>c DEF ResultOf
    <2>4. CASE b = a /\ slot'[b] = NoResult
      BY <2>1, <2>4, <1>c DEF NoResult
    <2> QED
      BY <2>2, <2>3, <2>4, <1>4
  <1>6. Fetched'
    <2> SUFFICES ASSUME pc = "fetch"
                 PROVE  slot'[Plan[next].init].seq = seq
      BY <1>b DEF Fetched, ctlVars
    <2>1. next \in Tests /\ seqOf[next] = seq /\ Plan[next].init \in Agents
      BY PlanFacts DEF IInv, Numbering
    <2>2. slot[Plan[next].init].seq = seq /\ seq \in Nat
      BY DEF IInv, Fetched, TypeOK, TypeController
    <2>3. last[a] <= seq
      BY <1>c DEF IInv, Numbering
    <2>4. Plan[next].init # a
      BY <2>2, <2>3, <1>c
    <2> QED
      BY <2>1, <2>2, <2>4, <1>4
  <1> QED
    BY <1>1, <1>2, <1>3, <1>5, <1>6 DEF IInv

LEMMA AgentInv ==
  ASSUME IInv, TypeOK', NEW a \in Agents, AgentStep(a)
  PROVE  IInv'
  <1>a. PlaceOf(a) /\ "ERROR" \in Final /\ "COMPLETE" \in Final
    BY DEF IInv, Places, Final
  <1>b. mode[a] \in Busy => cmd[a].role \in {"INITIATOR", "RESPONDER"}
    BY BusyFacts
  <1>1. CASE TakeCommand(a)
    BY <1>1, TakeCommandInv
  <1>2. CASE ResetMailbox(a)
    <2>1. CASE EndTest(a, cmd[a], "COMPLETE")
      BY <1>2, <2>1, <1>a, EndTestInv DEF ResetMailbox
    <2>2. CASE /\ mode' = [mode EXCEPT ![a] =
                             IF cmd[a].role = "INITIATOR" THEN "send" ELSE "poll"]
               /\ UNCHANGED <<status, exec>>
      BY <1>2, <2>2, MoveInv DEF ResetMailbox
    <2> QED
      BY <1>2, <2>1, <2>2 DEF ResetMailbox
  <1>3. ASSUME NEW o \in Outcome, SendPing(a, o) \/ SendWindow(a, o)
        PROVE  IInv'
    <2>1. /\ mode[a] = "send"
          /\ UNCHANGED <<ctlVars, slot, inbox, cmd, last, iter, seen, signalled, seqOf, mixed>>
          /\ \/ mode' = [mode EXCEPT ![a] = "poll"] /\ UNCHANGED <<status, exec>>
             \/ EndTest(a, cmd[a], "ERROR")
      BY <1>3 DEF SendPing, SendWindow
    <2> QED
      BY <2>1, <1>a, EndTestInv, MoveInv
  <1>4. CASE HearPong(a)
    <2>1. CASE EndTest(a, cmd[a], "COMPLETE")
      BY <1>4, <2>1, <1>a, EndTestInv DEF HearPong, NewMessage
    <2>2. CASE mode' = [mode EXCEPT ![a] = "send"] /\ UNCHANGED <<status, exec>>
      BY <1>4, <2>2, MoveInv DEF HearPong, NewMessage
    <2> QED
      BY <1>4, <2>1, <2>2 DEF HearPong
  <1>5. CASE HearPing(a)
    BY <1>5, MoveInv DEF HearPing, NewMessage, Busy
  <1>6. CASE PollTimeout(a)
    BY <1>6, <1>a, EndTestInv DEF PollTimeout
  <1>7. ASSUME NEW o \in Outcome, SendPong(a, o) PROVE IInv'
    <2>1. mode[a] = "pong" /\ mode[a] \in Busy /\ cmd[a].role = "RESPONDER"
      BY <1>7, <1>a DEF SendPong, PlaceOf, Busy
    <2>2. PICK m \in {"idle", "poll"} : mode' = [mode EXCEPT ![a] = m]
      BY <1>7 DEF SendPong
    <2> QED
      BY <1>7, <2>1, <2>2, MoveInv DEF SendPong
  <1>8. ASSUME NEW o \in Outcome, ReportResult(a, o) PROVE IInv'
    BY <1>8, ReportInv
  <1>9. CASE ObeySignal(a)
    BY <1>9, MoveInv DEF ObeySignal
  <1> QED
    BY <1>1, <1>2, <1>3, <1>4, <1>5, <1>6, <1>7, <1>8, <1>9 DEF AgentStep

LEMMA StepInv == IInv /\ [Next]_vars => IInv'
  <1> SUFFICES ASSUME IInv, [Next]_vars PROVE IInv'
    OBVIOUS
  <1>1. TypeOK'
    BY TypeStep DEF IInv
  <1>2. ASSUME UNCHANGED vars PROVE IInv'
    <2>1. next' >= next
      BY <1>2 DEF IInv, TypeOK, TypeController, vars, ctlVars
    <2> QED
      BY <1>1, <1>2, <2>1, Frames DEF vars, ctlVars, agentVars, IInv
  <1>3. CASE Quiet
    BY <1>3, <1>2 DEF Quiet
  <1>4. CASE ControllerStep \/ Interrupt
    BY <1>1, <1>4, ControllerInv
  <1>5. ASSUME NEW a \in Agents, AgentStep(a) PROVE IInv'
    BY <1>1, <1>5, AgentInv
  <1> QED
    BY <1>2, <1>3, <1>4, <1>5 DEF Next

\* The inductive invariant holds under every combination of faults.
THEOREM Inductive == Spec => []IInv
  BY InitInv, StepInv, PTL DEF Spec

\* A stored result is the verdict of its own test's one execution, whatever
\* times out or fails: wait_for_results compares command numbers, and no two
\* tests share one.
THEOREM StoredResultsAreOwn == Spec => []StoredIsExecuted
  <1>1. IInv => StoredIsExecuted
    BY DEF IInv, Recorded, StoredIsExecuted
  <1> QED
    BY <1>1, Inductive, PTL

\* Whatever is reported late or overwritten on its way, no older result comes
\* back into a slot of the controller's buffer.
THEOREM SlotsNeverRegress == Spec => SlotNeverRegresses
  <1>1. ASSUME IInv, [Next]_vars, slot' # slot, NEW b \in Agents, slot'[b] # slot[b]
        PROVE  slot'[b] = NoResult \/ slot[b].seq < slot'[b].seq
    <2>1. PICK a \in Agents, o \in Outcome : ReportResult(a, o)
      <3>1. ~UNCHANGED vars /\ ~Quiet
        BY <1>1 DEF vars, Quiet
      <3>2. ~(ControllerStep \/ Interrupt)
        BY <1>1
        DEF ControllerStep, Interrupt, RefuseTest, IssueToResponder, IssueToInitiator,
            ResultArrives, StoreResult, GiveUp, BeginShutdown, SendShutdown, Exit
      <3>3. PICK a \in Agents : AgentStep(a)
        BY <1>1, <3>1, <3>2 DEF Next
      <3> QED
        BY <1>1, <3>3
        DEF AgentStep, TakeCommand, ResetMailbox, SendPing, SendWindow, HearPong,
            HearPing, PollTimeout, SendPong, ObeySignal
    <2>2. b = a /\ slot'[b] \in {ResultOf(a), NoResult}
      BY <1>1, <2>1, ReportCases
    <2>3. mode[a] = "report" /\ PlaceOf(a)
      BY <1>1, <2>1 DEF IInv, Places, ReportResult
    <2>4. slot[a].seq < cmd[a].seq
      BY <2>3 DEF PlaceOf, Busy
    <2> QED
      BY <2>2, <2>4 DEF ResultOf
  <1>2. IInv /\ [Next]_vars =>
          [\A a \in Agents : slot'[a] # slot[a] =>
             slot'[a] = NoResult \/ slot[a].seq < slot'[a].seq]_slot
    BY <1>1
  <1> QED
    BY <1>2, Inductive, PTL DEF Spec, SlotNeverRegresses

----------------------------------------------------------------------------
(***************************************************************************)
(* The session implements Campaign: every step of controller or agent is a *)
(* step of TheCampaign or leaves its three variables alone.                *)
(***************************************************************************)
\* Nothing of what Campaign speaks of changes.
Unseen == UNCHANGED <<next, exec, stored>>

\* The loop goes on without an outcome.
LEMMA PassesOver ==
  ASSUME IInv, next \in Tests, next' = next + 1, UNCHANGED <<exec, stored>>
  PROVE  TheCampaign!PassOver
  <1>1. next <= Len(Plan)
    BY PlanFacts
  <1> QED
    BY <1>1 DEF TheCampaign!PassOver

\* A test that was issued is one whose turn has come.
LEMMA IssuedByTurn ==
  ASSUME IInv, NEW n \in Tests, seqOf[n] # 0
  PROVE  n \in 1 .. Len(Plan) /\ n <= next
  <1>1. n \in 1 .. Len(Plan) /\ n \in Nat /\ next \in Nat
    BY PlanFacts DEF IInv, TypeOK, TypeController
  <1> QED
    BY <1>1 DEF IInv, Numbering

LEMMA EndTestEnds ==
  ASSUME IInv, NEW a \in Agents, NEW v \in Final, mode[a] \in {"reset", "send", "poll"},
         EndTest(a, cmd[a], v), UNCHANGED <<next, stored>>
  PROVE  TheCampaign!CNext \/ Unseen
  <1>1. CASE cmd[a].role # "INITIATOR"
    BY <1>1 DEF EndTest, Unseen
  <1>2. CASE cmd[a].role = "INITIATOR"
    <2>1. exec[cmd[a].test] = "running"
      BY <1>2 DEF IInv, Places, PlaceOf
    <2>2. cmd[a].test \in 1 .. Len(Plan)
      BY BusyFacts, PlanFacts DEF Busy
    <2>3. TheCampaign!End(cmd[a].test, v)
      BY <1>2, <2>1 DEF EndTest, TheCampaign!End
    <2>4. v \in TheCampaign!Verdict
      BY DEF TheCampaign!Verdict, Final
    <2> QED
      BY <2>2, <2>3, <2>4 DEF TheCampaign!CNext
  <1> QED
    BY <1>1, <1>2

LEMMA TakeCommandBegins ==
  ASSUME IInv, NEW a \in Agents, TakeCommand(a)
  PROVE  TheCampaign!CNext \/ Unseen
  <1> DEFINE c == inbox[a]
  <1>1. c.seq # 0 /\ c.seq > last[a] /\ UNCHANGED <<next, stored>>
    BY DEF TakeCommand, NewCommand, ctlVars
  <1>2. CASE UNCHANGED exec
    BY <1>1, <1>2 DEF Unseen
  <1>3. ASSUME NEW w \in {"running", "ERROR"}, c.role = "INITIATOR",
               exec' = [exec EXCEPT ![c.test] = w]
        PROVE  TheCampaign!CNext
    <2>1. c.test \in Tests /\ seqOf[c.test] # 0 /\ exec[c.test] = "none"
      BY <1>1, <1>3, FreshTest
    <2>2. c.test \in 1 .. Len(Plan) /\ c.test <= next
      BY <2>1, IssuedByTurn
    <2>3. TheCampaign!Begin(c.test) \/ TheCampaign!Reject(c.test)
      BY <1>1, <1>3, <2>1, <2>2 DEF TheCampaign!Begin, TheCampaign!Reject
    <2> QED
      BY <2>2, <2>3 DEF TheCampaign!CNext
  <1>4. CASE c.kind = "SHUTDOWN"
    BY <1>2, <1>4 DEF TakeCommand
  <1>5. CASE c.kind = "BANDWIDTH" /\ ~Plan[c.test].fits
    <2>1. EndTest(a, c, "ERROR")
      BY <1>5 DEF TakeCommand
    <2> QED
      BY <2>1, <1>2, <1>3 DEF EndTest
  <1>6. CASE c.kind # "SHUTDOWN" /\ ~(c.kind = "BANDWIDTH" /\ ~Plan[c.test].fits)
    <2>1. exec' = IF c.role = "INITIATOR"
                    THEN [exec EXCEPT ![c.test] = "running"] ELSE exec
      BY <1>6 DEF TakeCommand
    <2> QED
      BY <2>1, <1>2, <1>3
  <1> QED
    BY <1>4, <1>5, <1>6

LEMMA AgentCampaign ==
  ASSUME IInv, NEW a \in Agents, AgentStep(a)
  PROVE  TheCampaign!CNext \/ Unseen
  <1>a. "ERROR" \in Final /\ "COMPLETE" \in Final
    BY DEF Final
  <1>1. CASE TakeCommand(a)
    BY <1>1, TakeCommandBegins
  <1>2. ASSUME NEW v \in Final, EndTest(a, cmd[a], v), UNCHANGED <<next, stored>>,
               mode[a] \in {"reset", "send", "poll"}
        PROVE  TheCampaign!CNext \/ Unseen
    BY <1>2, EndTestEnds
  <1>3. CASE ResetMailbox(a)
    BY <1>2, <1>3, <1>a DEF ResetMailbox, Unseen, ctlVars
  <1>4. ASSUME NEW o \in Outcome, SendPing(a, o) \/ SendWindow(a, o)
        PROVE  TheCampaign!CNext \/ Unseen
    BY <1>2, <1>4, <1>a DEF SendPing, SendWindow, Unseen, ctlVars
  <1>5. CASE HearPong(a)
    BY <1>2, <1>5, <1>a DEF HearPong, NewMessage, Unseen, ctlVars
  <1>6. CASE PollTimeout(a)
    BY <1>2, <1>6, <1>a DEF PollTimeout, Unseen, ctlVars
  <1>7. CASE \/ HearPing(a) \/ ObeySignal(a)
             \/ \E o \in Outcome : SendPong(a, o) \/ ReportResult(a, o)
    BY <1>7 DEF HearPing, ObeySignal, SendPong, ReportResult, Unseen, ctlVars
  <1> QED
    BY <1>1, <1>3, <1>4, <1>5, <1>6, <1>7 DEF AgentStep

LEMMA ControllerCampaign ==
  ASSUME IInv, ControllerStep \/ Interrupt
  PROVE  TheCampaign!CNext \/ Unseen
  <1>a. next \in Nat /\ next \in 1 .. Len(Plan) + 1 /\ Len(Plan) \in Nat
    BY PlanFacts DEF IInv, TypeOK, TypeController
  <1>b. ~TestsOver => next \in Tests
    BY <1>a, PlanFacts DEF TestsOver
  <1>c. pc \in {"delay", "wait", "fetch"} => next \in Tests
    BY DEF IInv, Numbering
  <1>1. CASE RefuseTest
    BY <1>1, <1>b, PassesOver DEF RefuseTest, TheCampaign!CNext
  <1>2. ASSUME NEW o \in Outcome, IssueToResponder(o) PROVE TheCampaign!CNext \/ Unseen
    BY <1>2, <1>b, PassesOver DEF IssueToResponder, TheCampaign!CNext, Unseen
  <1>3. ASSUME NEW o \in Outcome, IssueToInitiator(o) PROVE TheCampaign!CNext \/ Unseen
    BY <1>3, <1>c, PassesOver DEF IssueToInitiator, TheCampaign!CNext, Unseen
  <1>4. CASE StoreResult
    <2>1. next \in Tests /\ seqOf[next] = seq /\ seq # 0 /\ Plan[next].init \in Agents
      BY <1>4, <1>c, PlanFacts DEF StoreResult, IInv, Numbering
    <2>2. slot[Plan[next].init].seq = seq
      BY <1>4 DEF StoreResult, IInv, Fetched
    <2>3. slot[Plan[next].init].status \in Final
      BY <2>1, <2>2 DEF IInv, Slots, TypeOK, TypeMemory, Result
    <2>4. exec[next] = slot[Plan[next].init].status
      BY <2>1, <2>2, <2>3 DEF IInv, Slots, Numbering
    <2>5. next <= Len(Plan) /\ exec[next] \in TheCampaign!Verdict
      BY <2>1, <2>3, <2>4, PlanFacts DEF TheCampaign!Verdict, Final
    <2>6. TheCampaign!Record
      BY <1>4, <2>4, <2>5 DEF StoreResult, TheCampaign!Record
    <2> QED
      BY <2>6 DEF TheCampaign!CNext
  <1>5. CASE GiveUp
    BY <1>5, <1>c, PassesOver DEF GiveUp, TheCampaign!CNext
  <1>6. CASE \/ ResultArrives \/ BeginShutdown \/ Exit \/ Interrupt
             \/ \E o \in Outcome : SendShutdown(o)
    BY <1>6 DEF ResultArrives, BeginShutdown, Exit, Interrupt, SendShutdown, Unseen
  <1> QED
    BY <1>1, <1>2, <1>3, <1>4, <1>5, <1>6 DEF ControllerStep

\* Refinement: what the controller and the agents do, under every fault the
\* constants allow, is what Campaign promises.
THEOREM SessionIsCampaign == Spec => KeepsCampaign
  <1>1. Init => TheCampaign!CInit
    BY PlanFacts DEF Init, TheCampaign!CInit
  <1>2. IInv /\ [Next]_vars => [TheCampaign!CNext]_(TheCampaign!cvars)
    <2> SUFFICES ASSUME IInv, [Next]_vars
                 PROVE  TheCampaign!CNext \/ UNCHANGED TheCampaign!cvars
      OBVIOUS
    <2>1. CASE ControllerStep \/ Interrupt
      BY <2>1, ControllerCampaign DEF Unseen, TheCampaign!cvars
    <2>2. CASE \E a \in Agents : AgentStep(a)
      BY <2>2, AgentCampaign DEF Unseen, TheCampaign!cvars
    <2>3. CASE Quiet \/ UNCHANGED vars
      BY <2>3 DEF Quiet, vars, ctlVars, TheCampaign!cvars
    <2> QED
      BY <2>1, <2>2, <2>3 DEF Next
  <1> QED
    BY <1>1, <1>2, Inductive, PTL DEF Spec, KeepsCampaign, TheCampaign!CSpec
=============================================================================
