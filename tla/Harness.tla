------------------------------ MODULE Harness ------------------------------
(***************************************************************************)
(* The life of a cluster in the simulation harness: the commands up, down  *)
(* and collect of the harness, one after the other from one shell, the     *)
(* containers of controller and agents, the shaping rules in the agents'   *)
(* containers, and the files .tc_ready and latency_matrix.csv in the       *)
(* output directory.                                                       *)
(*                                                                         *)
(* Docker commands are single steps that may fail.  A container keeps its  *)
(* name until it is removed, also when it has exited, and docker run with  *)
(* a name that is taken fails.  The user may kill a command of the harness *)
(* between two of its steps.                                               *)
(*                                                                         *)
(* Sessions, one for each controller that was started, are numbered; the   *)
(* program does not know the numbers.                                      *)
(***************************************************************************)
EXTENDS Shaping

CONSTANTS
  Cluster,      \* the shaping in cluster.json
  Enabled,      \* whether network_shaping is enabled there
  MaxSessions,  \* bound: how many controllers are ever started
  MayFail,      \* docker, tc and file operations may fail
  MayCrash,     \* agents may die
  MayKill,      \* the user may kill a command of the harness
  MayTimeOut    \* waits of the controller may reach their deadlines

ASSUME ClusterAssumption == Cluster \in Configs /\ N \in Nat \ {0} /\ MaxSessions \in Nat
ASSUME HarnessSwitchAssumption ==
  /\ Enabled \in BOOLEAN  /\ MayFail \in BOOLEAN /\ MayCrash \in BOOLEAN
  /\ MayKill \in BOOLEAN  /\ MayTimeOut \in BOOLEAN

\* Besides the agents' containers the removal may get stuck on this one.
ControllerBox == N

VARIABLES
  \* the harness
  step,     \* where the command of the user is, "shell" if there is none
  at,       \* the agent its loop has come to
  \* the controller and its container
  ctl,      \* where main is; "none" if there is no container
  next,     \* the agent to be spawned
  stopping, \* g_shutdown_requested, by docker stop
  took,     \* session whose signal ended the wait for the shaping, 0 for none
  inOutput, \* csv_path of its test file is latency_matrix.csv in the output directory
  \* docker
  network,  \* the network exists
  box,      \* state of each agent's container
  shaped,   \* agents whose containers have all their tc rules
  \* the output directory
  signal,   \* session in which .tc_ready was written, 0 if there is no file
  matrix,   \* latency_matrix.csv: session, state of the file, all shaped
  \* history
  session,  \* sessions so far
  owner,    \* session in which an agent's container was made
  warned,   \* agents about whose rules up has warned in this session
  stuck,    \* what the latest attempt to remove has not removed
  kept,     \* sessions whose .tc_ready a command has failed to remove
  troubled  \* since the last clean start something failed or was disturbed

harnessVars == <<step, at>>
ctlVars     == <<ctl, next, stopping, took, inOutput>>
dockerVars  == <<network, box, shaped, owner>>
fileVars    == <<signal, matrix>>
noteVars    == <<session, warned, stuck, kept>>
vars == <<harnessVars, ctlVars, dockerVars, fileVars, noteVars, troubled>>

NoMatrix == [of |-> 0, state |-> "none", shaped |-> FALSE]

Init ==
  /\ step = "shell" /\ at = 0
  /\ ctl = "none" /\ next = 0 /\ stopping = FALSE /\ took = 0 /\ inOutput = FALSE
  /\ network = FALSE
  /\ box = [a \in Agents |-> "none"]
  /\ shaped = {}
  /\ owner = [a \in Agents |-> 0]
  /\ signal = 0 /\ matrix = NoMatrix
  /\ session = 0 /\ warned = {} /\ stuck = {} /\ kept = {}
  /\ troubled = FALSE

----------------------------------------------------------------------------
Live == ctl \in {"spawn", "rendezvous", "shaping", "tests", "writing", "more"}
Swept == ctl = "none" /\ \A a \in Agents : box[a] = "none"

GoTo(s) == step' = s /\ at' = 0

\* Faulty variant: the loop ends before the last agent.
LoopShort(s) == IF at + 2 < N THEN step' = step /\ at' = at + 1 ELSE GoTo(s)

\* A loop over all agents that goes on to s.
LoopTo(s) == IF at + 1 < N THEN step' = step /\ at' = at + 1 ELSE GoTo(s)

Trouble == troubled' = TRUE
Smooth  == UNCHANGED troubled

----------------------------------------------------------------------------
(***************************************************************************)
(* harness up.                                                             *)
(***************************************************************************)

\* Faulty variant: signal files of earlier sessions are left alone.
SignalKept == signal

\* There is no .tc_ready.
Cleared == 0

\* clear_signal_files; a file that cannot be removed stays and nobody is told.
ClearSignal ==
  \/ signal' = Cleared /\ UNCHANGED kept
  \/ MayFail /\ signal # 0 /\ UNCHANGED signal /\ kept' = kept \cup {signal}

\* An estimate that does not fit ends the command after the clearing.
BeginUp(t, found) ==
  /\ step = "shell" /\ session < MaxSessions
  /\ ClearSignal
  /\ GoTo(IF Enabled => Accepts(Cluster, t, found) THEN "network" ELSE "shell")
  /\ troubled' = (troubled \/ ~Swept \/ signal' # 0)
  /\ UNCHANGED <<ctlVars, dockerVars, matrix, session, warned, stuck>>

\* A network that exists is used.
CreateNetwork ==
  /\ step = "network"
  /\ network' = TRUE
  /\ GoTo("start")
  /\ Smooth
  /\ UNCHANGED <<ctlVars, box, shaped, owner, fileVars, noteVars>>

CreateNetworkFails ==
  /\ step = "network" /\ ~network /\ MayFail
  /\ GoTo("shell")
  /\ Trouble
  /\ UNCHANGED <<ctlVars, dockerVars, fileVars, noteVars>>

\* The test file that is passed on names the matrix file; unless it does so the
\* file is one of the container's own.
StartController ==
  /\ step = "start" /\ ctl = "none"
  /\ ctl' = "spawn" /\ next' = 0 /\ stopping' = FALSE /\ took' = 0
  /\ inOutput' \in BOOLEAN
  /\ session' = session + 1 /\ warned' = {} /\ stuck' = stuck \ {ControllerBox}
  /\ GoTo(IF Enabled THEN "wait" ELSE "shell")
  /\ Smooth
  /\ UNCHANGED <<dockerVars, fileVars, kept>>

\* The name is taken; or docker fails, perhaps leaving a container behind.
StartControllerFails ==
  /\ step = "start" /\ (ctl # "none" \/ MayFail)
  /\ IF ctl = "none" THEN ctl' \in {"none", "exited"} ELSE ctl' = ctl
  /\ GoTo("shell")
  /\ Trouble
  /\ UNCHANGED <<next, stopping, took, inOutput, dockerVars, fileVars, noteVars>>

\* apply_network_shaping waits up to 60 s for each agent's container.
FindAgent ==
  /\ step = "wait" /\ box[at] = "running"
  /\ LoopTo("tc")
  /\ Smooth
  /\ UNCHANGED <<ctlVars, dockerVars, fileVars, noteVars>>

\* Faulty variant: the wait ends early only if the controller has gone.
MissAgentOfGone ==
  /\ step = "wait" /\ (box[at] # "running" \/ MayFail) /\ ctl = "none"
  /\ GoTo("shell")
  /\ Trouble
  /\ UNCHANGED <<ctlVars, dockerVars, fileVars, noteVars>>

\* A docker inspect that fails does not find a container either.
MissAgent ==
  /\ step = "wait" /\ (box[at] # "running" \/ MayFail)
  /\ GoTo("shell")
  /\ Trouble
  /\ UNCHANGED <<ctlVars, dockerVars, fileVars, noteVars>>

\* Faulty variant: the signal is written before the rules are applied.
SignalFirst == [tc |-> "signal", signal |-> "rules", rules |-> "shell"]

\* The order of apply_network_shaping.
ShapeOrder == [tc |-> "rules", rules |-> "signal", signal |-> "shell"]

\* tc_available in the first container
CheckTc ==
  /\ step = "tc"
  /\ \/ box[0] = "running" /\ GoTo(ShapeOrder.tc) /\ Smooth
     \/ (box[0] # "running" \/ MayFail) /\ GoTo("shell") /\ Trouble
  /\ UNCHANGED <<ctlVars, dockerVars, fileVars, noteVars>>

ApplyRules ==
  /\ step = "rules" /\ box[at] = "running"
  /\ shaped' = shaped \cup {at}
  /\ LoopTo(ShapeOrder.rules)
  /\ Smooth
  /\ UNCHANGED <<ctlVars, network, box, owner, fileVars, noteVars>>

\* The commands are executed until one fails, perhaps when the rules that were
\* there have been deleted; up warns and goes on.
ApplyRulesFails ==
  /\ step = "rules" /\ (box[at] # "running" \/ MayFail)
  /\ shaped' \in {shaped, shaped \ {at}}
  /\ warned' = warned \cup {at}
  /\ LoopTo(ShapeOrder.rules)
  /\ Trouble
  /\ UNCHANGED <<ctlVars, network, box, owner, fileVars, session, stuck, kept>>

\* .tc_ready is written whatever has become of the rules; an earlier one that was
\* kept may stay in its place.
WriteSignal ==
  /\ step = "signal"
  /\ \/ signal' = session /\ Smooth
     \/ MayFail /\ signal' = signal /\ Trouble
  /\ GoTo(ShapeOrder.signal)
  /\ UNCHANGED <<ctlVars, dockerVars, matrix, noteVars>>

----------------------------------------------------------------------------
(***************************************************************************)
(* harness down.                                                           *)
(***************************************************************************)

\* Faulty variant: the agents' containers are removed first.
AgentsFirst ==
  [down |-> "agents", stop |-> "remove", remove |-> "disconnect", agents |-> "stop"]

\* The order of removal: the controller, then the agents it spawns.
Order ==
  [down |-> "stop", stop |-> "remove", remove |-> "agents", agents |-> "disconnect"]

BeginDown ==
  /\ step = "shell"
  /\ GoTo(Order.down)
  /\ troubled' = (troubled \/ Live)
  /\ UNCHANGED <<ctlVars, dockerVars, fileVars, noteVars>>

\* docker stop sends SIGTERM,
StopController ==
  /\ step = "stop"
  /\ step' = "grace" /\ at' = 0
  /\ \/ stopping' = Live
     \/ MayFail /\ UNCHANGED stopping
  /\ Smooth
  /\ UNCHANGED <<ctl, next, took, inOutput, dockerVars, fileVars, noteVars>>

\* returns when the controller has ended, or has failed,
StopReturns ==
  /\ step = "grace" /\ (~Live \/ ~stopping)
  /\ GoTo(Order.stop)
  /\ Smooth
  /\ UNCHANGED <<ctlVars, dockerVars, fileVars, noteVars>>

\* and after ten seconds sends SIGKILL.
KillController ==
  /\ Live /\ stopping
  /\ ctl' = "exited" /\ next' = 0
  /\ Smooth
  /\ UNCHANGED <<harnessVars, stopping, took, inOutput, dockerVars, fileVars, noteVars>>

\* docker rm -f; nobody looks at the result.
RemoveController ==
  /\ step = "remove"
  /\ \/ /\ ctl' = "none" /\ next' = 0 /\ stopping' = FALSE /\ took' = 0
        /\ inOutput' = FALSE
        /\ stuck' = stuck \ {ControllerBox} /\ Smooth
     \/ /\ MayFail /\ ctl # "none" /\ UNCHANGED ctlVars
        /\ stuck' = stuck \cup {ControllerBox} /\ Trouble
  /\ GoTo(Order.remove)
  /\ UNCHANGED <<dockerVars, fileVars, session, warned, kept>>

\* docker stop and docker rm -f of a container
RemoveAgent ==
  /\ step = "agents"
  /\ \/ /\ box' = [box EXCEPT ![at] = "none"] /\ owner' = [owner EXCEPT ![at] = 0]
        /\ shaped' = shaped \ {at} /\ warned' = warned \ {at}
        /\ stuck' = stuck \ {at} /\ Smooth
     \/ /\ MayFail /\ box[at] # "none" /\ UNCHANGED <<box, shaped, owner, warned>>
        /\ stuck' = stuck \cup {at} /\ Trouble
  /\ LoopTo(Order.agents)
  /\ UNCHANGED <<ctlVars, network, fileVars, session, kept>>

Attached == Live \/ \E a \in Agents : box[a] = "running"

\* A network with running containers cannot be removed; down goes on.
RemoveNetwork ==
  /\ step = "disconnect"
  /\ \/ ~Attached /\ network' = FALSE
     \/ (Attached \/ MayFail) /\ UNCHANGED network
  /\ GoTo("clear")
  /\ Smooth
  /\ UNCHANGED <<ctlVars, box, shaped, owner, fileVars, noteVars>>

\* The cluster is stopped; if nothing is left of it the next start is clean.
EndDown ==
  /\ step = "clear"
  /\ ClearSignal
  /\ GoTo("shell")
  /\ stuck' = stuck \cap {ControllerBox}
  /\ troubled' = (signal' # 0 \/ (troubled /\ ~Swept))
  /\ UNCHANGED <<ctlVars, dockerVars, matrix, session, warned>>

----------------------------------------------------------------------------
(***************************************************************************)
(* harness collect.                                                        *)
(***************************************************************************)
BeginCollect ==
  /\ step = "shell"
  /\ GoTo("collect")
  /\ Smooth
  /\ UNCHANGED <<ctlVars, dockerVars, fileVars, noteVars>>

\* Faulty variant: the wait that has run out is not told from the end.
FinishedOrLate ==
  /\ step = "collect"
  /\ GoTo("copy")
  /\ Smooth
  /\ UNCHANGED <<ctlVars, dockerVars, fileVars, noteVars>>

\* A docker inspect that fails counts as the end of the controller.
FindFinished ==
  /\ step = "collect"
  /\ \/ ~Live /\ Smooth
     \/ Live /\ MayFail /\ Trouble
  /\ GoTo("copy")
  /\ UNCHANGED <<ctlVars, dockerVars, fileVars, noteVars>>

\* After 600 s nothing is collected.
CollectTooLate ==
  /\ step = "collect" /\ Live
  /\ GoTo("shell")
  /\ Trouble
  /\ UNCHANGED <<ctlVars, dockerVars, fileVars, noteVars>>

\* What the output directory holds is copied, whatever session it is from.
CopyResults ==
  /\ step = "copy"
  /\ GoTo("shell")
  /\ Smooth
  /\ UNCHANGED <<ctlVars, dockerVars, fileVars, noteVars>>

\* Ctrl-C at the harness; what docker has been told to do is done.
Kill ==
  /\ step # "shell" /\ MayKill
  /\ GoTo("shell")
  /\ stuck' = stuck \cap {ControllerBox}
  /\ Trouble
  /\ UNCHANGED <<ctlVars, dockerVars, fileVars, session, warned, kept>>

----------------------------------------------------------------------------
(***************************************************************************)
(* The controller, as far as the harness has to do with it.                *)
(***************************************************************************)

\* Faulty variant: what docker says is not looked at.
SpawnUnchecked ==
  /\ ctl = "spawn"
  /\ box' = [box EXCEPT ![next] = "running"]
  /\ owner' = IF box[next] = "none" THEN [owner EXCEPT ![next] = session] ELSE owner
  /\ IF next + 1 < N THEN ctl' = ctl /\ next' = next + 1 ELSE ctl' = "rendezvous" /\ next' = 0
  /\ Smooth
  /\ UNCHANGED <<harnessVars, stopping, took, inOutput, network, shaped, fileVars, noteVars>>

\* spawn_agent_container; the loop does not look at g_shutdown_requested.
SpawnContainer ==
  /\ ctl = "spawn" /\ box[next] = "none"
  /\ box' = [box EXCEPT ![next] = "running"]
  /\ owner' = [owner EXCEPT ![next] = session]
  /\ IF next + 1 < N THEN ctl' = ctl /\ next' = next + 1 ELSE ctl' = "rendezvous" /\ next' = 0
  /\ Smooth
  /\ UNCHANGED <<harnessVars, stopping, took, inOutput, network, shaped, fileVars, noteVars>>

\* The controller leaves; the agents it has started stay.
SpawnContainerFails ==
  /\ ctl = "spawn" /\ (box[next] # "none" \/ MayFail)
  /\ \/ UNCHANGED <<box, owner>>
     \/ /\ box[next] = "none"
        /\ box' = [box EXCEPT ![next] = "exited"]
        /\ owner' = [owner EXCEPT ![next] = session]
  /\ ctl' = "exited" /\ next' = 0
  /\ Trouble
  /\ UNCHANGED <<harnessVars, stopping, took, inOutput, network, shaped, fileVars, noteVars>>

\* From the first registration to the last report: Rendezvous.  Agents that
\* have reported may be gone by now.
AllDiscovered ==
  /\ ctl = "rendezvous"
  /\ ctl' = IF Enabled THEN "shaping" ELSE "tests"
  /\ Smooth
  /\ UNCHANGED <<harnessVars, next, stopping, took, inOutput, dockerVars, fileVars, noteVars>>

LeaveRendezvous ==
  /\ ctl = "rendezvous"
  /\ stopping \/ MayTimeOut \/ \E a \in Agents : box[a] # "running"
  /\ ctl' = "exited"
  /\ Trouble
  /\ UNCHANGED <<harnessVars, next, stopping, took, inOutput, dockerVars, fileVars, noteVars>>

\* wait_for_tc_ready finds the file
FindSignal ==
  /\ ctl = "shaping" /\ ~stopping /\ signal # 0
  /\ ctl' = "tests" /\ took' = signal
  /\ Smooth
  /\ UNCHANGED <<harnessVars, next, stopping, inOutput, dockerVars, fileVars, noteVars>>

\* Faulty variant: the wait goes on until the user ends it.
ProceedAtEnd ==
  /\ ctl = "shaping" /\ stopping /\ signal = 0
  /\ ctl' = "tests"
  /\ Trouble
  /\ UNCHANGED <<harnessVars, next, stopping, took, inOutput, dockerVars, fileVars, noteVars>>

\* or runs out and the tests are run all the same.
ProceedUnshaped ==
  /\ ctl = "shaping" /\ ~stopping /\ signal = 0 /\ MayTimeOut
  /\ ctl' = "tests"
  /\ Trouble
  /\ UNCHANGED <<harnessVars, next, stopping, took, inOutput, dockerVars, fileVars, noteVars>>

LeaveShaping ==
  /\ ctl = "shaping" /\ stopping
  /\ ctl' = "exited"
  /\ Smooth
  /\ UNCHANGED <<harnessVars, next, stopping, took, inOutput, dockerVars, fileVars, noteVars>>

\* After a SIGTERM, and with a single agent, there are no tests at all.
SkipTests ==
  /\ ctl = "tests" /\ (stopping \/ N < 2)
  /\ ctl' = "exited"
  /\ Smooth
  /\ UNCHANGED <<harnessVars, next, stopping, took, inOutput, dockerVars, fileVars, noteVars>>

\* The latency tests are over and the matrix file is opened; an earlier
\* session's is overwritten.
OpenMatrix ==
  /\ ctl = "tests" /\ N >= 2 /\ inOutput
  /\ matrix' = [of |-> session, state |-> "open", shaped |-> took = session /\ shaped = Agents]
  /\ ctl' = "writing"
  /\ Smooth
  /\ UNCHANGED <<harnessVars, next, stopping, took, inOutput, dockerVars, signal, noteVars>>

\* Or cannot be opened; the matrix goes to the log and the tests go on.
OpenMatrixFails ==
  /\ ctl = "tests" /\ N >= 2 /\ inOutput /\ MayFail
  /\ ctl' = "more"
  /\ Trouble
  /\ UNCHANGED <<harnessVars, next, stopping, took, inOutput, dockerVars, fileVars, noteVars>>

\* A matrix file elsewhere is gone with the container.
WriteElsewhere ==
  /\ ctl = "tests" /\ N >= 2 /\ ~inOutput
  /\ ctl' = "more"
  /\ Smooth
  /\ UNCHANGED <<harnessVars, next, stopping, took, inOutput, dockerVars, fileVars, noteVars>>

\* The file is closed; nobody looks whether all of it was written.
CloseMatrix ==
  /\ ctl = "writing"
  /\ \/ matrix' = [matrix EXCEPT !.state = "closed"] /\ Smooth
     \/ MayFail /\ UNCHANGED matrix /\ Trouble
  /\ ctl' = "more"
  /\ UNCHANGED <<harnessVars, next, stopping, took, inOutput, dockerVars, signal, noteVars>>

\* The optional tests are over, SHUTDOWN is sent to the agents, and main ends.
EndTests ==
  /\ ctl = "more"
  /\ ctl' = "exited"
  /\ Smooth
  /\ UNCHANGED <<harnessVars, next, stopping, took, inOutput, dockerVars, fileVars, noteVars>>

\* An agent ends by SHUTDOWN, by its own timeouts when its controller has left,
\* or by a crash, and with it the shaping of its container.
AgentExits(a) ==
  /\ box[a] = "running" /\ (MayCrash \/ ~Live \/ ctl = "more")
  /\ box' = [box EXCEPT ![a] = "exited"]
  /\ shaped' = shaped \ {a}
  /\ troubled' = (troubled \/ (Live /\ ctl # "more"))
  /\ UNCHANGED <<harnessVars, ctlVars, network, owner, fileVars, noteVars>>

----------------------------------------------------------------------------
Up ==
  \/ CreateNetwork
  \/ CreateNetworkFails
  \/ StartController
  \/ StartControllerFails
  \/ FindAgent
  \/ MissAgent
  \/ CheckTc
  \/ ApplyRules
  \/ ApplyRulesFails
  \/ WriteSignal

Down ==
  \/ StopController
  \/ StopReturns
  \/ RemoveController
  \/ RemoveAgent
  \/ RemoveNetwork
  \/ EndDown

Collect ==
  \/ FindFinished
  \/ CollectTooLate
  \/ CopyResults

HarnessStep == Up \/ Down \/ Collect

UserStep ==
  \/ \E t \in TestConfigs, found \in BOOLEAN : BeginUp(t, found)
  \/ BeginDown
  \/ BeginCollect
  \/ Kill

ControllerStep ==
  \/ SpawnContainer
  \/ SpawnContainerFails
  \/ AllDiscovered
  \/ LeaveRendezvous
  \/ FindSignal
  \/ ProceedUnshaped
  \/ LeaveShaping
  \/ SkipTests
  \/ OpenMatrix
  \/ OpenMatrixFails
  \/ WriteElsewhere
  \/ CloseMatrix
  \/ EndTests

Next ==
  \/ HarnessStep
  \/ UserStep
  \/ ControllerStep
  \/ KillController
  \/ \E a \in Agents : AgentExits(a)

\* A command of the harness and a controller are processes that keep running;
\* nobody makes the user give commands, docker kill or the agents leave.
Fairness == WF_vars(HarnessStep) /\ WF_vars(ControllerStep)

Spec == Init /\ [][Next]_vars
FairSpec == Spec /\ Fairness

----------------------------------------------------------------------------
(***************************************************************************)
(* Properties.                                                             *)
(***************************************************************************)

Testing == ctl \in {"tests", "writing", "more"}

\* A session is its own: once its controller has spawned its agents no agent's
\* container is an earlier session's, and if the tests began upon a signal
\* it was the one of this session's up, or one that a command has failed to
\* remove, whatever was killed or left behind.
SessionIsOwn ==
  /\ Testing => took \in {0, session} \cup kept
  /\ Live /\ ctl # "spawn" =>
       \A a \in Agents : box[a] # "none" => owner[a] = session

\* Tests that began upon the signal of their own up run with the complete rules in
\* every agent's container, except where up has warned; a controller that docker
\* failed to remove is no longer looked after.
ShapedOrWarned ==
  Testing /\ took = session /\ ControllerBox \notin stuck =>
    \A a \in Agents : box[a] = "running" => a \in shaped \cup warned

\* The rules do not change under tests that have waited for their own up.
RulesStable ==
  [][Testing /\ Testing' /\ took = session =>
       \A a \in Agents : box'[a] = "running" => (a \in shaped' <=> a \in shaped)]_vars

\* down leaves only what docker has failed to remove, although the controller
\* goes on spawning while it is told to stop.
DownCleans ==
  step = "clear" /\ ControllerBox \notin stuck =>
    ctl = "none" /\ \A a \in Agents : box[a] # "none" => a \in stuck

\* When nothing unusual has happened since a clean start, and the tests of two
\* agents or more write their matrix to the output directory, what collect copies
\* is this session's matrix, closed, and measured under complete shaping.
CollectedIsMeasured ==
  step = "copy" /\ ctl # "none" /\ ~troubled /\ inOutput /\ N >= 2 =>
    matrix = [of |-> session, state |-> "closed", shaped |-> Enabled]

\* Every command of the harness returns, and every controller ends, whatever
\* has failed and whether or not a signal is ever written.
HarnessSettles ==
  /\ step # "shell" ~> step = "shell"
  /\ Live ~> ~Live
=============================================================================
