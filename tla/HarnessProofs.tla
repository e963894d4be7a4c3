--------------------------- MODULE HarnessProofs ---------------------------
(***************************************************************************)
(* Proofs about Harness for every number of agents, every configuration    *)
(* and every combination of faults: HInv is inductive, and with it a       *)
(* session is its own, a signal keeps its promise, down leaves nothing it  *)
(* has not failed to remove, and a session without trouble is collected as *)
(* it was measured.                                                        *)
(***************************************************************************)
EXTENDS HarnessInv, TLAPS

\* The state, and how steps move through it, are open to all proofs below.
USE NumbersAssumption, ClusterAssumption, HarnessSwitchAssumption
    DEF Agents, ControllerBox, Live, Testing, GoTo, Trouble, Smooth,
        harnessVars, ctlVars, dockerVars, fileVars, noteVars,
        ShapingSteps, UpSteps, DownSteps, LoopSteps, Made, Promised

\* A loop that ends has come past all agents.
LEMMA LastOfAll ==
  ASSUME at \in Agents, shaped \subseteq Agents, ~(at + 1 < N),
         \A a \in Agents : a < at => a \in shaped
  PROVE  shaped \cup {at} = Agents
  <1>1. \A a \in Agents : a < at \/ a = at
    OBVIOUS
  <1>2. Agents \subseteq shaped \cup {at}
    BY <1>1
  <1>3. shaped \cup {at} \subseteq Agents
    OBVIOUS
  <1> QED
    BY <1>2, <1>3

LEMMA Closing ==
  ASSUME NEW m, NEW s, NEW c, NEW e, NEW d, m = [of |-> s, state |-> c, shaped |-> e]
  PROVE  [m EXCEPT !.state = d] = [of |-> s, state |-> d, shaped |-> e]
  OBVIOUS

\* Only a signal of a session that has been can be kept.
LEMMA CleanTypes ==
  ASSUME HInv, ClearSignal, session' = session
  PROVE  (signal \in Nat /\ kept \subseteq 1 .. session)'
  <1>1. session \in Nat /\ signal \in {0, session} \cup kept /\ kept \subseteq 1 .. session
    BY DEF HInv, TypeHarness, TypeControl, TypeCluster, PromiseInv, SignalOwn
  <1>2. signal # 0 => signal \in 1 .. session
    BY <1>1
  <1>3. signal \in Nat /\ Cleared \in Nat
    BY <1>1 DEF Cleared
  <1> QED
    BY <1>1, <1>2, <1>3 DEF ClearSignal

LEMMA InitHInv == Init => HInv
  <1> SUFFICES ASSUME Init
               PROVE  HInv
    OBVIOUS
  <1>1. TypeControl
    <2>1. at \in Agents /\ next \in Agents
      BY DEF Init
    <2>2. stopping \in BOOLEAN /\ troubled \in BOOLEAN
      BY DEF Init
    <2> QED
      BY <2>1, <2>2 DEF Init, TypeControl
  <1>2. TypeCluster
    BY DEF Init, NoMatrix, TypeCluster
  <1>3. PromiseInv
    BY DEF Init, PromiseInv, SignalOwn, BoxesOwn, ShapingLoops, SignalTrue, DownLoops
  <1>4. TroubleInv
    BY DEF Init, TroubleInv, OnlyIfEnabled, TroubleNoticed, SmoothStages, Result
  <1> QED
    BY <1>1, <1>2, <1>3, <1>4 DEF HInv, TypeHarness

----------------------------------------------------------------------------
\* The steps of up.  A new controller finds no signal, or one that was kept, and
\* has seen none; its own is written after the loop over the rules has come past every agent.
LEMMA UpTypes ==
  ASSUME HInv, Up
  PROVE  TypeHarness'
  <1> USE DEF HInv, TypeHarness, TypeControl, TypeCluster
  <1>1. CASE CreateNetwork
    BY <1>1 DEF CreateNetwork
  <1>2. CASE CreateNetworkFails
    BY <1>2 DEF CreateNetworkFails
  <1>3. CASE StartController
    <2>1. (stopping \in BOOLEAN /\ troubled \in BOOLEAN)'
      BY <1>3 DEF StartController
    <2>2. TypeControl'
      BY <1>3, <2>1 DEF StartController
    <2>3. TypeCluster'
      BY <1>3 DEF StartController
    <2> QED
      BY <2>2, <2>3
  <1>4. CASE StartControllerFails
    BY <1>4 DEF StartControllerFails
  <1>5. CASE FindAgent
    BY <1>5 DEF FindAgent, LoopTo
  <1>6. CASE MissAgent
    BY <1>6 DEF MissAgent
  <1>7. CASE CheckTc
    BY <1>7 DEF CheckTc, ShapeOrder
  <1>8. CASE ApplyRules
    BY <1>8 DEF ApplyRules, LoopTo, ShapeOrder
  <1>9. CASE ApplyRulesFails
    BY <1>9 DEF ApplyRulesFails, LoopTo, ShapeOrder
  <1>10. CASE WriteSignal
    BY <1>10, ZenonT(40) DEF WriteSignal, ShapeOrder
  <1> QED
    BY <1>1, <1>2, <1>3, <1>4, <1>5, <1>6, <1>7, <1>8, <1>9, <1>10 DEF Up

LEMMA UpPromises ==
  ASSUME HInv, Up
  PROVE  PromiseInv'
  <1> USE DEF HInv, TypeHarness, TypeControl, TypeCluster, PromiseInv, SignalOwn,
              BoxesOwn, ShapingLoops, SignalTrue, DownLoops
  <1>1. CASE CreateNetwork
    BY <1>1 DEF CreateNetwork
  <1>2. CASE CreateNetworkFails
    BY <1>2 DEF CreateNetworkFails
  <1>3. CASE StartController
    BY <1>3 DEF StartController
  <1>4. CASE StartControllerFails
    BY <1>4 DEF StartControllerFails
  <1>5. CASE FindAgent
    BY <1>5 DEF FindAgent, LoopTo
  <1>6. CASE MissAgent
    BY <1>6 DEF MissAgent
  <1>7. CASE CheckTc
    BY <1>7 DEF CheckTc, ShapeOrder
  <1>8. CASE ApplyRules
    BY <1>8 DEF ApplyRules, LoopTo, ShapeOrder
  <1>9. CASE ApplyRulesFails
    BY <1>9 DEF ApplyRulesFails, LoopTo, ShapeOrder
  <1>10. CASE WriteSignal
    BY <1>10 DEF WriteSignal, ShapeOrder
  <1> QED
    BY <1>1, <1>2, <1>3, <1>4, <1>5, <1>6, <1>7, <1>8, <1>9, <1>10 DEF Up

LEMMA UpTroubles ==
  ASSUME HInv, Up
  PROVE  TroubleInv'
  <1> USE DEF HInv, TypeHarness, TypeControl, TypeCluster, PromiseInv, SignalOwn,
              TroubleInv, OnlyIfEnabled, TroubleNoticed, SmoothStages, Result
  <1>1. CASE CreateNetwork
    BY <1>1 DEF CreateNetwork
  <1>2. CASE CreateNetworkFails
    BY <1>2 DEF CreateNetworkFails
  <1>3. CASE StartController
    BY <1>3 DEF StartController
  <1>4. CASE StartControllerFails
    BY <1>4 DEF StartControllerFails
  <1>5. CASE FindAgent
    BY <1>5 DEF FindAgent, LoopTo
  <1>6. CASE MissAgent
    BY <1>6 DEF MissAgent
  <1>7. CASE CheckTc
    <2>1. OnlyIfEnabled' /\ TroubleNoticed'
      BY <1>7 DEF CheckTc, ShapeOrder
    <2>2. \A a \in Agents : ~(a < at')
      BY <1>7 DEF CheckTc
    <2>3. SmoothStages'
      BY <1>7, <2>2 DEF CheckTc, ShapeOrder
    <2> QED
      BY <2>1, <2>3
  <1>8. CASE ApplyRules
    <2>1. OnlyIfEnabled' /\ TroubleNoticed'
      BY <1>8 DEF ApplyRules, LoopTo, ShapeOrder
    <2>2. CASE at + 1 < N
      <3>1. step' = "rules" /\ \A a \in Agents : a < at' => a < at \/ a = at
        BY <1>8, <2>2 DEF ApplyRules, LoopTo, ShapeOrder
      <3>2. shaped' = shaped \cup {at} /\ (shaped = Agents => shaped' = Agents)
        BY <1>8 DEF ApplyRules
      <3>3. SmoothStages'
        BY <1>8, <3>1, <3>2 DEF ApplyRules
      <3> QED
        BY <2>1, <3>3
    <2>3. CASE ~(at + 1 < N)
      <3>1. step' = "signal" /\ \A a \in Agents : a < at \/ a = at
        BY <1>8, <2>3 DEF ApplyRules, LoopTo, ShapeOrder
      <3>2. ~troubled => shaped' = Agents
        <4>1. ~troubled => \A a \in Agents : a < at => a \in shaped
          BY <1>8 DEF ApplyRules
        <4>2. shaped' = shaped \cup {at}
          BY <1>8 DEF ApplyRules
        <4> QED
          BY <2>3, <4>1, <4>2, LastOfAll
      <3> QED
        BY <1>8, <2>1, <3>1, <3>2 DEF ApplyRules
    <2> QED
      BY <2>2, <2>3
  <1>9. CASE ApplyRulesFails
    BY <1>9 DEF ApplyRulesFails, LoopTo, ShapeOrder
  <1>10. CASE WriteSignal
    BY <1>10 DEF WriteSignal, ShapeOrder
  <1> QED
    BY <1>1, <1>2, <1>3, <1>4, <1>5, <1>6, <1>7, <1>8, <1>9, <1>10 DEF Up

----------------------------------------------------------------------------
\* The steps of down.  Unless its container is stuck the controller is gone
\* before the first agent's container is removed.
LEMMA DownTypes ==
  ASSUME HInv, Down
  PROVE  TypeHarness'
  <1> USE DEF HInv, TypeHarness, TypeControl, TypeCluster
  <1>1. CASE StopController
    <2>1. (stopping \in BOOLEAN)'
      <3>1. CASE stopping' = Live
        BY <3>1
      <3>2. CASE UNCHANGED stopping
        BY <3>2
      <3> QED
        BY <1>1, <3>1, <3>2 DEF StopController
    <2> QED
      BY <1>1, <2>1 DEF StopController
  <1>2. CASE StopReturns
    BY <1>2 DEF StopReturns, Order
  <1>3. CASE RemoveController
    <2>1. (stopping \in BOOLEAN /\ inOutput \in BOOLEAN /\ troubled \in BOOLEAN)'
      BY <1>3 DEF RemoveController
    <2>2. TypeControl'
      BY <1>3, <2>1 DEF RemoveController, Order
    <2>3. TypeCluster'
      BY <1>3 DEF RemoveController
    <2> QED
      BY <2>2, <2>3
  <1>4. CASE RemoveAgent
    <2>1. troubled' \in BOOLEAN
      BY <1>4 DEF RemoveAgent
    <2>2. TypeControl'
      BY <1>4, <2>1 DEF RemoveAgent, LoopTo, Order
    <2>3. (box \in [Agents -> {"none", "running", "exited"}] /\ owner \in [Agents -> Nat])'
      BY <1>4 DEF RemoveAgent
    <2>4. TypeCluster'
      BY <1>4, <2>3 DEF RemoveAgent
    <2> QED
      BY <2>2, <2>4
  <1>5. CASE RemoveNetwork
    BY <1>5 DEF RemoveNetwork, Order
  <1>6. CASE EndDown
    <2>1. (signal \in Nat /\ kept \subseteq 1 .. session)'
      BY <1>6, CleanTypes DEF EndDown
    <2>2. (troubled \in BOOLEAN)'
      BY <1>6 DEF EndDown
    <2> QED
      BY <1>6, <2>1, <2>2 DEF EndDown
  <1> QED
    BY <1>1, <1>2, <1>3, <1>4, <1>5, <1>6 DEF Down

LEMMA DownPromises ==
  ASSUME HInv, Down
  PROVE  PromiseInv'
  <1> USE DEF HInv, TypeHarness, TypeControl, TypeCluster, PromiseInv, SignalOwn,
              BoxesOwn, ShapingLoops, SignalTrue, DownLoops
  <1>1. CASE StopController
    BY <1>1 DEF StopController
  <1>2. CASE StopReturns
    BY <1>2 DEF StopReturns, Order
  <1>3. CASE RemoveController
    BY <1>3 DEF RemoveController, Order
  <1>4. CASE RemoveAgent
    <2>1. SignalOwn' /\ BoxesOwn' /\ ShapingLoops'
      BY <1>4 DEF RemoveAgent, LoopTo, Order
    <2>2. SignalTrue'
      BY <1>4 DEF RemoveAgent, LoopTo, Order
    <2>3. ASSUME NEW a \in Agents, ControllerBox \notin stuck', Made(a)',
                 a < at \/ a = at
          PROVE  a \in stuck'
      BY <1>4, <2>3 DEF RemoveAgent
    <2>4. DownLoops'
      BY <1>4, <2>3 DEF RemoveAgent, LoopTo, Order
    <2> QED
      BY <2>1, <2>2, <2>4
  <1>5. CASE RemoveNetwork
    BY <1>5 DEF RemoveNetwork, Order
  <1>6. CASE EndDown
    BY <1>6 DEF EndDown, ClearSignal, Cleared, Swept
  <1> QED
    BY <1>1, <1>2, <1>3, <1>4, <1>5, <1>6 DEF Down

LEMMA DownTroubles ==
  ASSUME HInv, Down
  PROVE  TroubleInv'
  <1> USE DEF HInv, TypeHarness, TypeControl, TypeCluster, PromiseInv, SignalOwn,
              TroubleInv, OnlyIfEnabled, TroubleNoticed, SmoothStages, Result
  <1>1. CASE StopController
    BY <1>1 DEF StopController
  <1>2. CASE StopReturns
    BY <1>2 DEF StopReturns, Order
  <1>3. CASE RemoveController
    BY <1>3 DEF RemoveController, Order
  <1>4. CASE RemoveAgent
    BY <1>4 DEF RemoveAgent, LoopTo, Order
  <1>5. CASE RemoveNetwork
    BY <1>5 DEF RemoveNetwork, Order
  <1>6. CASE EndDown
    BY <1>6 DEF EndDown, ClearSignal, Cleared, Swept
  <1> QED
    BY <1>1, <1>2, <1>3, <1>4, <1>5, <1>6 DEF Down

----------------------------------------------------------------------------
\* The steps of collect, which change nothing but the place it has come to.
LEMMA CollectTypes ==
  ASSUME HInv, Collect
  PROVE  TypeHarness'
  <1> USE DEF HInv, TypeHarness, TypeControl, TypeCluster
  <1>1. CASE FindFinished
    BY <1>1 DEF FindFinished
  <1>2. CASE CollectTooLate
    BY <1>2 DEF CollectTooLate
  <1>3. CASE CopyResults
    BY <1>3 DEF CopyResults
  <1> QED
    BY <1>1, <1>2, <1>3 DEF Collect

LEMMA CollectPromises ==
  ASSUME HInv, Collect
  PROVE  PromiseInv'
  <1> USE DEF HInv, TypeHarness, TypeControl, TypeCluster, PromiseInv, SignalOwn,
              BoxesOwn, ShapingLoops, SignalTrue, DownLoops
  <1>1. CASE FindFinished
    BY <1>1 DEF FindFinished
  <1>2. CASE CollectTooLate
    BY <1>2 DEF CollectTooLate
  <1>3. CASE CopyResults
    BY <1>3 DEF CopyResults
  <1> QED
    BY <1>1, <1>2, <1>3 DEF Collect

LEMMA CollectTroubles ==
  ASSUME HInv, Collect
  PROVE  TroubleInv'
  <1> USE DEF HInv, TypeHarness, TypeControl, TypeCluster, PromiseInv, SignalOwn,
              TroubleInv, OnlyIfEnabled, TroubleNoticed, SmoothStages, Result
  <1>1. CASE FindFinished
    BY <1>1 DEF FindFinished
  <1>2. CASE CollectTooLate
    BY <1>2 DEF CollectTooLate
  <1>3. CASE CopyResults
    BY <1>3 DEF CopyResults
  <1> QED
    BY <1>1, <1>2, <1>3 DEF Collect

----------------------------------------------------------------------------
\* The controller.  It spawns into names that are free, and starts its tests
\* upon a signal or in trouble.
LEMMA ControllerTypes ==
  ASSUME HInv, ControllerStep
  PROVE  TypeHarness'
  <1> USE DEF HInv, TypeHarness, TypeControl, TypeCluster
  <1>1. CASE SpawnContainer
    <2>1. TypeControl'
      BY <1>1 DEF SpawnContainer
    <2>2. TypeCluster'
      BY <1>1 DEF SpawnContainer
    <2> QED
      BY <2>1, <2>2
  <1>2. CASE SpawnContainerFails
    <2>1. TypeControl'
      BY <1>2 DEF SpawnContainerFails
    <2>2. TypeCluster'
      BY <1>2, ZenonT(40) DEF SpawnContainerFails
    <2> QED
      BY <2>1, <2>2
  <1>3. CASE AllDiscovered
    BY <1>3 DEF AllDiscovered
  <1>4. CASE LeaveRendezvous
    BY <1>4 DEF LeaveRendezvous
  <1>5. CASE FindSignal
    BY <1>5 DEF FindSignal
  <1>6. CASE ProceedUnshaped
    BY <1>6 DEF ProceedUnshaped
  <1>7. CASE LeaveShaping
    BY <1>7 DEF LeaveShaping
  <1>8. CASE SkipTests
    BY <1>8 DEF SkipTests
  <1>9. CASE OpenMatrix
    BY <1>9 DEF OpenMatrix
  <1>10. CASE OpenMatrixFails
    BY <1>10 DEF OpenMatrixFails
  <1>11. CASE WriteElsewhere
    BY <1>11 DEF WriteElsewhere
  <1>12. CASE CloseMatrix
    BY <1>12 DEF CloseMatrix
  <1>13. CASE EndTests
    BY <1>13 DEF EndTests
  <1> QED
    BY <1>1, <1>2, <1>3, <1>4, <1>5, <1>6, <1>7, <1>8, <1>9, <1>10, <1>11,
       <1>12, <1>13 DEF ControllerStep

LEMMA ControllerPromises ==
  ASSUME HInv, ControllerStep
  PROVE  PromiseInv'
  <1> USE DEF HInv, TypeHarness, TypeControl, TypeCluster, PromiseInv, SignalOwn,
              BoxesOwn, ShapingLoops, SignalTrue, DownLoops
  <1>1. CASE SpawnContainer
    BY <1>1 DEF SpawnContainer
  <1>2. CASE SpawnContainerFails
    BY <1>2 DEF SpawnContainerFails
  <1>3. CASE AllDiscovered
    BY <1>3 DEF AllDiscovered
  <1>4. CASE LeaveRendezvous
    BY <1>4 DEF LeaveRendezvous
  <1>5. CASE FindSignal
    BY <1>5 DEF FindSignal
  <1>6. CASE ProceedUnshaped
    BY <1>6 DEF ProceedUnshaped
  <1>7. CASE LeaveShaping
    BY <1>7 DEF LeaveShaping
  <1>8. CASE SkipTests
    BY <1>8 DEF SkipTests
  <1>9. CASE OpenMatrix
    BY <1>9 DEF OpenMatrix
  <1>10. CASE OpenMatrixFails
    BY <1>10 DEF OpenMatrixFails
  <1>11. CASE WriteElsewhere
    BY <1>11 DEF WriteElsewhere
  <1>12. CASE CloseMatrix
    BY <1>12 DEF CloseMatrix
  <1>13. CASE EndTests
    BY <1>13 DEF EndTests
  <1> QED
    BY <1>1, <1>2, <1>3, <1>4, <1>5, <1>6, <1>7, <1>8, <1>9, <1>10, <1>11,
       <1>12, <1>13 DEF ControllerStep

LEMMA ControllerTroubles ==
  ASSUME HInv, ControllerStep
  PROVE  TroubleInv'
  <1> USE DEF HInv, TypeHarness, TypeControl, TypeCluster, PromiseInv, SignalOwn,
              TroubleInv, OnlyIfEnabled, TroubleNoticed, SmoothStages, Result
  <1>1. CASE SpawnContainer
    BY <1>1 DEF SpawnContainer
  <1>2. CASE SpawnContainerFails
    BY <1>2 DEF SpawnContainerFails
  <1>3. CASE AllDiscovered
    BY <1>3 DEF AllDiscovered
  <1>4. CASE LeaveRendezvous
    BY <1>4 DEF LeaveRendezvous
  <1>5. CASE FindSignal
    BY <1>5 DEF FindSignal
  <1>6. CASE ProceedUnshaped
    BY <1>6 DEF ProceedUnshaped
  <1>7. CASE LeaveShaping
    BY <1>7 DEF LeaveShaping
  <1>8. CASE SkipTests
    BY <1>8 DEF SkipTests
  <1>9. CASE OpenMatrix
    BY <1>9 DEF OpenMatrix
  <1>10. CASE OpenMatrixFails
    BY <1>10 DEF OpenMatrixFails
  <1>11. CASE WriteElsewhere
    BY <1>11 DEF WriteElsewhere
  <1>12. CASE CloseMatrix
    <2>1. OnlyIfEnabled' /\ TroubleNoticed'
      BY <1>12 DEF CloseMatrix
    <2>2. ~troubled' /\ inOutput /\ N >= 2 => matrix' = Result("closed")
      <3>1. ~troubled' /\ inOutput /\ N >= 2 => matrix = Result("open")
        BY <1>12 DEF CloseMatrix
      <3>2. ~troubled' => matrix' = [matrix EXCEPT !.state = "closed"]
        BY <1>12 DEF CloseMatrix
      <3> QED
        BY <3>1, <3>2, Closing DEF Result
    <2>3. SmoothStages'
      BY <1>12, <2>2 DEF CloseMatrix, Result
    <2> QED
      BY <2>1, <2>3
  <1>13. CASE EndTests
    BY <1>13 DEF EndTests, Result
  <1> QED
    BY <1>1, <1>2, <1>3, <1>4, <1>5, <1>6, <1>7, <1>8, <1>9, <1>10, <1>11,
       <1>12, <1>13 DEF ControllerStep

----------------------------------------------------------------------------
\* The user, agents that exit, and docker that kills.
LEMMA UserTypes ==
  ASSUME HInv, UserStep
  PROVE  TypeHarness'
  <1> USE DEF HInv, TypeHarness, TypeControl, TypeCluster
  <1>1. ASSUME NEW t \in TestConfigs, NEW found \in BOOLEAN, BeginUp(t, found)
        PROVE  TypeHarness'
    <2>1. (signal \in Nat /\ kept \subseteq 1 .. session)'
      BY <1>1, CleanTypes DEF BeginUp
    <2>2. (troubled \in BOOLEAN)'
      BY <1>1 DEF BeginUp
    <2> QED
      BY <1>1, <2>1, <2>2 DEF BeginUp
  <1>2. CASE BeginDown
    BY <1>2 DEF BeginDown, Order
  <1>3. CASE BeginCollect
    BY <1>3 DEF BeginCollect
  <1>4. CASE Kill
    BY <1>4 DEF Kill
  <1> HIDE DEF TypeHarness, TypeControl, TypeCluster
  <1> QED
    BY <1>1, <1>2, <1>3, <1>4 DEF UserStep

LEMMA UserPromises ==
  ASSUME HInv, UserStep
  PROVE  PromiseInv'
  <1> USE DEF HInv, TypeHarness, TypeControl, TypeCluster, PromiseInv, SignalOwn,
              BoxesOwn, ShapingLoops, SignalTrue, DownLoops
  <1>1. ASSUME NEW t \in TestConfigs, NEW found \in BOOLEAN, BeginUp(t, found)
        PROVE  PromiseInv'
    BY <1>1 DEF BeginUp, ClearSignal, Cleared, Swept
  <1>2. CASE BeginDown
    BY <1>2 DEF BeginDown, Order
  <1>3. CASE BeginCollect
    BY <1>3 DEF BeginCollect
  <1>4. CASE Kill
    BY <1>4 DEF Kill
  <1> HIDE DEF TypeHarness, TypeControl, TypeCluster, PromiseInv, SignalOwn,
           BoxesOwn, ShapingLoops, SignalTrue, DownLoops
  <1> QED
    BY <1>1, <1>2, <1>3, <1>4 DEF UserStep

LEMMA UserTroubles ==
  ASSUME HInv, UserStep
  PROVE  TroubleInv'
  <1> USE DEF HInv, TypeHarness, TypeControl, TypeCluster, PromiseInv, SignalOwn,
              TroubleInv, OnlyIfEnabled, TroubleNoticed, SmoothStages, Result
  <1>1. ASSUME NEW t \in TestConfigs, NEW found \in BOOLEAN, BeginUp(t, found)
        PROVE  TroubleInv'
    BY <1>1 DEF BeginUp, ClearSignal, Cleared, Swept
  <1>2. CASE BeginDown
    BY <1>2 DEF BeginDown, Order
  <1>3. CASE BeginCollect
    BY <1>3 DEF BeginCollect
  <1>4. CASE Kill
    BY <1>4 DEF Kill
  <1> HIDE DEF TypeHarness, TypeControl, TypeCluster, PromiseInv, SignalOwn,
           TroubleInv, OnlyIfEnabled, TroubleNoticed, SmoothStages, Result
  <1> QED
    BY <1>1, <1>2, <1>3, <1>4 DEF UserStep

LEMMA AgentExitsTypes ==
  ASSUME HInv, NEW a \in Agents, AgentExits(a)
  PROVE  TypeHarness'
  BY DEF AgentExits, HInv, TypeHarness, TypeControl, TypeCluster

LEMMA AgentExitsPromises ==
  ASSUME HInv, NEW a \in Agents, AgentExits(a)
  PROVE  PromiseInv'
  BY DEF AgentExits, HInv, TypeHarness, TypeControl, TypeCluster, PromiseInv,
         SignalOwn, BoxesOwn, ShapingLoops, SignalTrue, DownLoops

LEMMA AgentExitsTroubles ==
  ASSUME HInv, NEW a \in Agents, AgentExits(a)
  PROVE  TroubleInv'
  BY DEF AgentExits, HInv, TypeHarness, TypeControl, TypeCluster, PromiseInv,
         SignalOwn, TroubleInv, OnlyIfEnabled, TroubleNoticed, SmoothStages, Result

LEMMA KillControllerTypes ==
  ASSUME HInv, KillController
  PROVE  TypeHarness'
  BY DEF KillController, HInv, TypeHarness, TypeControl, TypeCluster

LEMMA KillControllerPromises ==
  ASSUME HInv, KillController
  PROVE  PromiseInv'
  BY DEF KillController, HInv, TypeHarness, TypeControl, TypeCluster, PromiseInv,
         SignalOwn, BoxesOwn, ShapingLoops, SignalTrue, DownLoops

LEMMA KillControllerTroubles ==
  ASSUME HInv, KillController
  PROVE  TroubleInv'
  BY DEF KillController, HInv, TypeHarness, TypeControl, TypeCluster, PromiseInv,
         SignalOwn, TroubleInv, OnlyIfEnabled, TroubleNoticed, SmoothStages, Result

LEMMA StutterTypes ==
  ASSUME HInv, UNCHANGED vars
  PROVE  TypeHarness'
  BY DEF vars, HInv, TypeHarness, TypeControl, TypeCluster

LEMMA StutterPromises ==
  ASSUME HInv, UNCHANGED vars
  PROVE  PromiseInv'
  BY DEF vars, HInv, TypeHarness, TypeControl, TypeCluster, PromiseInv, SignalOwn,
         BoxesOwn, ShapingLoops, SignalTrue, DownLoops

LEMMA StutterTroubles ==
  ASSUME HInv, UNCHANGED vars
  PROVE  TroubleInv'
  BY DEF vars, HInv, TypeHarness, TypeControl, TypeCluster, PromiseInv, SignalOwn,
         TroubleInv, OnlyIfEnabled, TroubleNoticed, SmoothStages, Result

----------------------------------------------------------------------------
LEMMA StepHInv == HInv /\ [Next]_vars => HInv'
  <1> SUFFICES ASSUME HInv, [Next]_vars
               PROVE  HInv'
    OBVIOUS
  <1>1. TypeHarness'
    BY UpTypes, DownTypes, CollectTypes, UserTypes, ControllerTypes, AgentExitsTypes,
       KillControllerTypes, StutterTypes DEF Next, HarnessStep
  <1>2. PromiseInv'
    BY UpPromises, DownPromises, CollectPromises, UserPromises, ControllerPromises,
       AgentExitsPromises,
       KillControllerPromises, StutterPromises DEF Next, HarnessStep
  <1>3. TroubleInv'
    BY UpTroubles, DownTroubles, CollectTroubles, UserTroubles, ControllerTroubles,
       AgentExitsTroubles,
       KillControllerTroubles, StutterTroubles DEF Next, HarnessStep
  <1> QED
    BY <1>1, <1>2, <1>3 DEF HInv

\* The life of a cluster keeps HInv, whatever fails and whatever is killed.
THEOREM HarnessInvariant == Spec => []HInv
  BY InitHInv, StepHInv, PTL DEF Spec

\* No session mistakes another session's containers for its own, nor its signal
\* unless a command has failed to remove it.
THEOREM SessionsAreOwn == Spec => []SessionIsOwn
  <1>1. HInv => SessionIsOwn
    BY DEF HInv, TypeHarness, TypeControl, PromiseInv, SignalOwn, BoxesOwn, SessionIsOwn
  <1> QED
    BY <1>1, HarnessInvariant, PTL

\* Tests that have waited for the signal of their own up find the rules complete or
\* reported.
THEOREM SignalsKeepTheirPromise == Spec => []ShapedOrWarned
  <1>1. HInv => ShapedOrWarned
    BY DEF HInv, PromiseInv, SignalTrue, ShapedOrWarned
  <1> QED
    BY <1>1, HarnessInvariant, PTL

\* down leaves only containers that docker has failed to remove.
THEOREM DownLeavesOnlyTheStuck == Spec => []DownCleans
  <1>1. HInv => DownCleans
    BY DEF HInv, PromiseInv, DownLoops, DownCleans
  <1> QED
    BY <1>1, HarnessInvariant, PTL

\* A session without trouble is collected as it was measured, if its matrix goes
\* to the output directory at all.
THEOREM ResultsAreTheSessions == Spec => []CollectedIsMeasured
  <1>1. HInv => CollectedIsMeasured
    BY DEF HInv, TypeHarness, TypeControl, TroubleInv, TroubleNoticed, SmoothStages,
           Result, CollectedIsMeasured
  <1> QED
    BY <1>1, HarnessInvariant, PTL

----------------------------------------------------------------------------
\* Rules change in the loop of up, when nobody has seen a signal yet, and when
\* their container goes.
LEMMA RulesStayInTests ==
  ASSUME HInv, [Next]_vars, Testing, Testing', took = session,
         NEW a \in Agents, box'[a] = "running"
  PROVE  a \in shaped' <=> a \in shaped
  <1> USE DEF HInv, TypeHarness, TypeControl, TypeCluster, PromiseInv, SignalOwn
  <1>1. CASE ApplyRules \/ ApplyRulesFails
    BY <1>1 DEF ApplyRules, ApplyRulesFails
  <1>2. CASE RemoveAgent
    BY <1>2 DEF RemoveAgent
  <1>3. ASSUME NEW b \in Agents, AgentExits(b)
        PROVE  a \in shaped' <=> a \in shaped
    BY <1>3 DEF AgentExits
  <1>4. CASE UNCHANGED shaped
    BY <1>4
  <1>5. CASE Up
    BY <1>1, <1>4, <1>5 DEF Up, CreateNetwork, CreateNetworkFails, StartController,
       StartControllerFails, FindAgent, MissAgent, CheckTc, WriteSignal
  <1>6. CASE Down
    BY <1>2, <1>4, <1>6 DEF Down, StopController, StopReturns,
       RemoveController, RemoveNetwork, EndDown
  <1>7. CASE Collect
    BY <1>4, <1>7 DEF Collect, FindFinished, CollectTooLate, CopyResults
  <1>8. CASE UserStep
    BY <1>4, <1>8 DEF UserStep, BeginUp, BeginDown, BeginCollect, Kill
  <1>9. CASE ControllerStep
    BY <1>4, <1>9 DEF ControllerStep, SpawnContainer, SpawnContainerFails, AllDiscovered,
       LeaveRendezvous, FindSignal, ProceedUnshaped, LeaveShaping, SkipTests, OpenMatrix,
       OpenMatrixFails, WriteElsewhere, CloseMatrix, EndTests
  <1>10. CASE KillController \/ UNCHANGED vars
    BY <1>4, <1>10 DEF KillController, vars
  <1> QED
    BY <1>3, <1>5, <1>6, <1>7, <1>8, <1>9, <1>10 DEF Next, HarnessStep

\* No rule changes under tests that have waited for the signal of their own up.
THEOREM RulesAreStable == Spec => RulesStable
  <1>1. HInv /\ [Next]_vars =>
          [Testing /\ Testing' /\ took = session =>
             \A a \in Agents : box'[a] = "running" => (a \in shaped' <=> a \in shaped)]_vars
    BY RulesStayInTests
  <1> QED
    BY <1>1, HarnessInvariant, PTL DEF Spec, RulesStable
=============================================================================
