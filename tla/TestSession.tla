---------------------------- MODULE TestSession ----------------------------
(***************************************************************************)
(* The measurement session: the controller's main loop runs the tests of   *)
(* Plan one after the other, each between two agents.                      *)
(*                                                                         *)
(* Everything the processes share is memory written by one-sided RDMA:     *)
(*   - the controller writes a command into the single command inbox of an *)
(*     agent (first the responder's, then the initiator's);                *)
(*   - the two agents of a test write each other's mailbox (a ping and a   *)
(*     pong, or the signal of a full window and its ACK);                  *)
(*   - the initiator writes its result into its slot of the controller.    *)
(* Nobody is interrupted by a write; every process finds it by polling,    *)
(* and every wait ends by a timeout of its own (5 s or 30 s in an agent,   *)
(* 30 s or 60 s in the controller).                                        *)
(*                                                                         *)
(* write_to_remote returns when the transfer has completed, and the writer *)
(* touches nothing shared before it returns: landing and returning are one *)
(* step here.  Clocks are left out: where the constants allow a timeout it *)
(* may strike in any state in which the code's loop would go on waiting.   *)
(***************************************************************************)
EXTENDS Integers, Sequences

CONSTANTS
  N,              \* num_agents
  Plan,           \* the tests in the order of the main loop's loops
  LocalMode,      \* agents are child processes (not containers of the harness)
  CtrlMayTimeOut, \* wait_for_results may reach its deadline
  PeerMayTimeOut, \* an agent polling its mailbox may reach POLL_TIMEOUT
  WritesMayFail,  \* a transfer to a live process may end with an error
  DelaySuffices,  \* 100 us are enough for an idle responder to get ready
  MayInterrupt    \* the user may interrupt the controller

Agents == 0 .. N - 1
Tests  == DOMAIN Plan

(***************************************************************************)
(* A test of the plan: `fits' says whether the size check of the code that *)
(* would run it passes (the controller's for PING_PONG, the agent's for    *)
(* BANDWIDTH), `iters' is warmup_iterations + iterations.                  *)
(***************************************************************************)
Test == [kind : {"PING_PONG", "BANDWIDTH"}, init : Agents, resp : Agents,
         iters : Nat, fits : BOOLEAN]

ASSUME NAssumption == N \in Nat \ {0}
ASSUME PlanAssumption ==
  /\ Plan \in Seq(Test)
  /\ \A n \in Tests : Plan[n].init # Plan[n].resp
ASSUME SwitchAssumption ==
  /\ LocalMode \in BOOLEAN      /\ CtrlMayTimeOut \in BOOLEAN
  /\ PeerMayTimeOut \in BOOLEAN /\ WritesMayFail \in BOOLEAN
  /\ DelaySuffices \in BOOLEAN  /\ MayInterrupt \in BOOLEAN

VARIABLES
  \* the controller
  pc,       \* where the main loop is
  next,     \* the test of the plan it is at
  seq,      \* command_seq_
  told,     \* agents shutdown_agents has gone through
  stored,   \* the results pushed to the result vectors
  stop,     \* g_shutdown_requested
  slot,     \* result slots in the controller's buffer
  \* memory of the agents that others write
  inbox,    \* the command inbox
  mailbox,  \* sequence of the mailbox header; `from' is history: the command
            \* whose execution wrote it
  \* the agents' own state
  mode,     \* where the command loop is
  cmd,      \* the command being executed
  last,     \* last_command_seq_
  iter,     \* the loop counter of the exchange
  seen,     \* my_last_seen_seq
  status,   \* status of the TestResult to be reported
  signalled,\* the local agents have been sent SIGINT or SIGTERM
  \* history variables, read by properties only
  seqOf,    \* the command_seq a test was issued with (0: it was not)
  exec,     \* what became of a test at its initiator
  mixed     \* commands during which a message of another exchange was taken

ctlVars   == <<pc, next, seq, told, stored, stop>>
agentVars == <<mode, cmd, last, iter, seen, status>>
vars == <<ctlVars, slot, inbox, mailbox, agentVars, signalled, seqOf, exec, mixed>>

NoCommand == [seq |-> 0, kind |-> "NONE", role |-> "NONE", test |-> 0]
NoMessage == [seq |-> 0, from |-> 0]
NoResult  == [seq |-> 0, status |-> "PENDING", test |-> 0]
Final     == {"COMPLETE", "ERROR"}

----------------------------------------------------------------------------
(***************************************************************************)
(* Transfers.  A write to a process that has deregistered its buffer fails *)
(* without effect.  A write that fails may have reached the memory or not. *)
(***************************************************************************)
Outcomes(alive) ==
  IF ~alive THEN {"lost"}
  ELSE IF WritesMayFail THEN {"ok", "lost", "unconfirmed"} ELSE {"ok"}

Put(f, a, v, o) == IF o = "lost" THEN f ELSE [f EXCEPT ![a] = v]

Alive(a) == mode[a] # "stopped"

\* The command of test n for one of its agents; peer, sizes and iterations
\* are those of the test.
TestCommand(s, n, role) ==
  [seq |-> s, kind |-> Plan[n].kind, role |-> role, test |-> n]

ShutdownCommand(s) == [seq |-> s, kind |-> "SHUTDOWN", role |-> "NONE", test |-> 0]

Peer(a) == IF cmd[a].role = "INITIATOR" THEN Plan[cmd[a].test].resp
                                        ELSE Plan[cmd[a].test].init
Iters(a) == Plan[cmd[a].test].iters

Init ==
  /\ pc = "issue" /\ next = 1 /\ seq = 0 /\ told = 0
  /\ stored = {} /\ stop = FALSE /\ signalled = FALSE
  /\ slot    = [a \in Agents |-> NoResult]
  /\ inbox   = [a \in Agents |-> NoCommand]
  /\ mailbox = [a \in Agents |-> NoMessage]
  /\ mode    = [a \in Agents |-> "idle"]
  /\ cmd     = [a \in Agents |-> NoCommand]
  /\ last    = [a \in Agents |-> 0]
  /\ iter    = [a \in Agents |-> 0]
  /\ seen    = [a \in Agents |-> 0]
  /\ status  = [a \in Agents |-> "PENDING"]
  /\ seqOf   = [n \in Tests |-> 0]
  /\ exec    = [n \in Tests |-> "none"]
  /\ mixed   = {}

----------------------------------------------------------------------------
(***************************************************************************)
(* The controller.                                                         *)
(***************************************************************************)

\* Faulty variant: the last test is forgotten.
TestsOverEarly == next >= Len(Plan) \/ stop

\* The loops are over: every test is behind, or the user interrupted.
TestsOver == next > Len(Plan) \/ stop

\* issue_ping_pong_test refuses a message that exceeds the mailbox before it
\* takes a command number; the loop goes on with the next test.
RefuseTest ==
  /\ pc = "issue" /\ ~TestsOver
  /\ Plan[next].kind = "PING_PONG" /\ ~Plan[next].fits
  /\ next' = next + 1
  /\ UNCHANGED <<pc, seq, told, stored, stop, slot, inbox, mailbox, agentVars,
                 signalled, seqOf, exec, mixed>>

\* ++command_seq_, and the responder's command goes out first.
IssueToResponder(o) ==
  /\ pc = "issue" /\ ~TestsOver
  /\ Plan[next].kind = "PING_PONG" => Plan[next].fits
  /\ o \in Outcomes(Alive(Plan[next].resp))
  /\ seq' = seq + 1
  /\ seqOf' = [seqOf EXCEPT ![next] = seq + 1]
  /\ inbox' = Put(inbox, Plan[next].resp, TestCommand(seq + 1, next, "RESPONDER"), o)
  /\ IF o = "ok" THEN pc' = "delay" /\ next' = next
                 ELSE pc' = "issue" /\ next' = next + 1
  /\ UNCHANGED <<told, stored, stop, slot, mailbox, agentVars, signalled, exec, mixed>>

\* An idle agent has taken the command in its inbox and reset its mailbox.
Settled(a) ==
  /\ mode[a] # "reset"
  /\ mode[a] = "idle" => inbox[a].seq <= last[a]

\* After the 100 us sleep the initiator gets its command.  If this write
\* fails the test is given up, although the responder has its command.
IssueToInitiator(o) ==
  /\ pc = "delay"
  /\ DelaySuffices => Settled(Plan[next].resp)
  /\ o \in Outcomes(Alive(Plan[next].init))
  /\ inbox' = Put(inbox, Plan[next].init, TestCommand(seq, next, "INITIATOR"), o)
  /\ IF o = "ok" THEN pc' = "wait" /\ next' = next
                 ELSE pc' = "issue" /\ next' = next + 1
  /\ UNCHANGED <<seq, told, stored, stop, slot, mailbox, agentVars, signalled,
                 seqOf, exec, mixed>>

\* Faulty variant: any final result in the slot will do.
AnyResultArrives ==
  /\ pc = "wait"
  /\ slot[Plan[next].init].status \in Final
  /\ pc' = "fetch"
  /\ UNCHANGED <<next, seq, told, stored, stop, slot, inbox, mailbox, agentVars,
                 signalled, seqOf, exec, mixed>>

\* wait_for_results sees the final result of the command in the slot.
ResultArrives ==
  /\ pc = "wait"
  /\ slot[Plan[next].init].seq = seq
  /\ slot[Plan[next].init].status \in Final
  /\ pc' = "fetch"
  /\ UNCHANGED <<next, seq, told, stored, stop, slot, inbox, mailbox, agentVars,
                 signalled, seqOf, exec, mixed>>

\* get_result reads the slot a second time and the result is stored under
\* the pair of the loop.
StoreResult ==
  /\ pc = "fetch"
  /\ stored' = stored \cup {[test |-> next, status |-> slot[Plan[next].init].status]}
  /\ pc' = "issue" /\ next' = next + 1
  /\ UNCHANGED <<seq, told, stop, slot, inbox, mailbox, agentVars, signalled,
                 seqOf, exec, mixed>>

\* Faulty variants: the test that timed out is issued again; the user's
\* interrupt also ends the wait.
GiveUpAndRetry ==
  /\ pc = "wait" /\ CtrlMayTimeOut
  /\ pc' = "issue"
  /\ UNCHANGED <<next, seq, told, stored, stop, slot, inbox, mailbox, agentVars,
                 signalled, seqOf, exec, mixed>>

GiveUpWhenStopped ==
  /\ pc = "wait" /\ (CtrlMayTimeOut \/ stop)
  /\ pc' = "issue" /\ next' = next + 1
  /\ UNCHANGED <<seq, told, stored, stop, slot, inbox, mailbox, agentVars, signalled,
                 seqOf, exec, mixed>>

\* wait_for_results reaches its deadline; the loop goes on with the next
\* test, whatever the two agents are doing.
GiveUp ==
  /\ pc = "wait" /\ CtrlMayTimeOut
  /\ pc' = "issue" /\ next' = next + 1
  /\ UNCHANGED <<seq, told, stored, stop, slot, inbox, mailbox, agentVars, signalled,
                 seqOf, exec, mixed>>

\* SIGINT or SIGTERM to the controller: the loops end at their next test of
\* the flag.  A Ctrl-C at the terminal reaches the local agents as well.
Interrupt ==
  /\ MayInterrupt /\ ~stop /\ pc # "done"
  /\ stop' = TRUE
  /\ signalled' \in {signalled, LocalMode}
  /\ UNCHANGED <<pc, next, seq, told, stored, slot, inbox, mailbox, agentVars, seqOf,
                 exec, mixed>>

\* Faulty variant: SHUTDOWN reuses the number of the last command.
BeginShutdownUnnumbered ==
  /\ pc = "issue" /\ TestsOver
  /\ pc' = "shutdown"
  /\ UNCHANGED <<next, seq, told, stored, stop, slot, inbox, mailbox, agentVars,
                 signalled, seqOf, exec, mixed>>

\* shutdown_agents takes a command number of its own ...
BeginShutdown ==
  /\ pc = "issue" /\ TestsOver
  /\ pc' = "shutdown" /\ seq' = seq + 1
  /\ UNCHANGED <<next, told, stored, stop, slot, inbox, mailbox, agentVars, signalled,
                 seqOf, exec, mixed>>

\* ... and writes SHUTDOWN to one agent after the other; a failed write is
\* only noted.
SendShutdown(o) ==
  /\ pc = "shutdown" /\ told < N
  /\ o \in Outcomes(Alive(told))
  /\ inbox' = Put(inbox, told, ShutdownCommand(seq), o)
  /\ told' = told + 1
  /\ UNCHANGED <<pc, next, seq, stored, stop, slot, mailbox, agentVars, signalled,
                 seqOf, exec, mixed>>

\* Faulty variant: the agents are trusted to have got their SHUTDOWN.
ExitWithoutSignal ==
  /\ pc = "shutdown" /\ told = N
  /\ pc' = "done"
  /\ UNCHANGED <<next, seq, told, stored, stop, slot, inbox, mailbox, agentVars,
                 signalled, seqOf, exec, mixed>>

\* After two seconds the local agents get SIGTERM, and the controller frees
\* its buffer and exits.
Exit ==
  /\ pc = "shutdown" /\ told = N
  /\ pc' = "done" /\ signalled' = LocalMode
  /\ UNCHANGED <<next, seq, told, stored, stop, slot, inbox, mailbox, agentVars,
                 seqOf, exec, mixed>>

----------------------------------------------------------------------------
(***************************************************************************)
(* The agents.                                                             *)
(***************************************************************************)

\* Where an agent goes when a test has ended: only the initiator reports.
\* The initiator's verdict becomes the outcome of the test.
EndTest(a, c, verdict) ==
  IF c.role = "INITIATOR"
    THEN /\ mode' = [mode EXCEPT ![a] = "report"]
         /\ status' = [status EXCEPT ![a] = verdict]
         /\ exec' = [exec EXCEPT ![c.test] = verdict]
    ELSE /\ mode' = [mode EXCEPT ![a] = "idle"]
         /\ UNCHANGED <<status, exec>>

\* Faulty variant: whatever is in the inbox is taken for new.
NonEmptyInbox(a) == inbox[a].seq # 0

\* A command newer than the last one.
NewCommand(a) == inbox[a].seq # 0 /\ inbox[a].seq > last[a]

\* poll_and_execute_command: a new command is taken; a BANDWIDTH whose sizes
\* exceed the test buffer ends at once with an ERROR (code 10).
TakeCommand(a) ==
  LET c == inbox[a]
  IN  /\ mode[a] = "idle" /\ NewCommand(a)
      /\ last' = [last EXCEPT ![a] = c.seq]
      /\ cmd'  = [cmd EXCEPT ![a] = c]
      /\ CASE c.kind = "SHUTDOWN" ->
                /\ mode' = [mode EXCEPT ![a] = "stopped"]
                /\ UNCHANGED <<status, exec>>
           [] c.kind = "BANDWIDTH" /\ ~Plan[c.test].fits ->
                EndTest(a, c, "ERROR")
           [] OTHER ->
                /\ mode' = [mode EXCEPT ![a] = "reset"]
                /\ exec' = IF c.role = "INITIATOR"
                             THEN [exec EXCEPT ![c.test] = "running"] ELSE exec
                /\ UNCHANGED status
      /\ UNCHANGED <<ctlVars, slot, inbox, mailbox, iter, seen, signalled, seqOf, mixed>>

\* my_header->sequence = 0; my_last_seen_seq = 0, and into the loop, which
\* does nothing at all for zero iterations.
ResetMailbox(a) ==
  /\ mode[a] = "reset"
  /\ mailbox' = [mailbox EXCEPT ![a] = NoMessage]
  /\ seen' = [seen EXCEPT ![a] = 0]
  /\ iter' = [iter EXCEPT ![a] = 0]
  /\ IF Iters(a) = 0
       THEN EndTest(a, cmd[a], "COMPLETE")
       ELSE /\ mode' = [mode EXCEPT ![a] =
                          IF cmd[a].role = "INITIATOR" THEN "send" ELSE "poll"]
            /\ UNCHANGED <<status, exec>>
  /\ UNCHANGED <<ctlVars, slot, inbox, cmd, last, signalled, seqOf, mixed>>

\* The header an agent writes into its peer's mailbox in this iteration.
Message(a) == [seq |-> iter[a] + 1, from |-> cmd[a].seq]

\* A sender that everybody else has given up may still be writing its windows
\* to the start of a's test buffer.  Pings, pongs and results are staged there
\* before they are transferred, and the first slot of a window is all zeros.
Overrun(a) ==
  \E b \in Agents : mode[b] = "send" /\ cmd[b].kind = "BANDWIDTH" /\ Peer(b) = a

Staged(a, v, zero) == IF Overrun(a) THEN {v, zero} ELSE {v}

\* The signals and ACKs of BANDWIDTH are staged elsewhere.
StagedMessage(a) ==
  IF cmd[a].kind = "PING_PONG" THEN Staged(a, Message(a), NoMessage) ELSE {Message(a)}

\* The initiator writes a ping; a failed write ends the test (code 1).
SendPing(a, o) ==
  /\ mode[a] = "send" /\ cmd[a].kind = "PING_PONG"
  /\ o \in Outcomes(Alive(Peer(a)))
  /\ \E m \in StagedMessage(a) : mailbox' = Put(mailbox, Peer(a), m, o)
  /\ IF o = "ok" THEN mode' = [mode EXCEPT ![a] = "poll"] /\ UNCHANGED <<status, exec>>
                 ELSE EndTest(a, cmd[a], "ERROR")
  /\ UNCHANGED <<ctlVars, slot, inbox, cmd, last, iter, seen, signalled, seqOf, mixed>>

\* The sender writes its window, which takes its time (see Overrun), and then
\* the signal; whichever write fails ends the test (codes 11 and 12).
SendWindow(a, o) ==
  /\ mode[a] = "send" /\ cmd[a].kind = "BANDWIDTH"
  /\ o \in Outcomes(Alive(Peer(a)))
  /\ mailbox' = Put(mailbox, Peer(a), Message(a), o)
  /\ IF o = "ok" THEN mode' = [mode EXCEPT ![a] = "poll"] /\ UNCHANGED <<status, exec>>
                 ELSE EndTest(a, cmd[a], "ERROR")
  /\ UNCHANGED <<ctlVars, slot, inbox, cmd, last, iter, seen, signalled, seqOf, mixed>>

\* Faulty variant: any message is new.
AnyMessage(a) == mode[a] = "poll" /\ mailbox[a].seq # 0

\* The poll loops compare the mailbox with the last number seen.
NewMessage(a) == mode[a] = "poll" /\ mailbox[a].seq > seen[a]

\* History: a message that is not this iteration's of this very test.
Foreign(a) == mailbox[a].from # cmd[a].seq \/ mailbox[a].seq # iter[a] + 1

\* The last comparison of the loop and the assignment after it are one read: the
\* field is a plain one and no call lies between them, so that the optimised
\* build keeps what it has compared.
TakeMessage(a) ==
  /\ seen' = [seen EXCEPT ![a] = mailbox[a].seq]
  /\ mixed' = IF Foreign(a) THEN mixed \cup {cmd[a].seq} ELSE mixed

\* The initiator sees a pong (or an ACK) and starts its next round, or has
\* completed the test.
HearPong(a) ==
  /\ NewMessage(a) /\ cmd[a].role = "INITIATOR"
  /\ TakeMessage(a)
  /\ iter' = [iter EXCEPT ![a] = iter[a] + 1]
  /\ IF iter[a] + 1 = Iters(a)
       THEN EndTest(a, cmd[a], "COMPLETE")
       ELSE mode' = [mode EXCEPT ![a] = "send"] /\ UNCHANGED <<status, exec>>
  /\ UNCHANGED <<ctlVars, slot, inbox, mailbox, cmd, last, signalled, seqOf>>

\* The responder sees a ping (or the signal) and will answer.
HearPing(a) ==
  /\ NewMessage(a) /\ cmd[a].role = "RESPONDER"
  /\ TakeMessage(a)
  /\ mode' = [mode EXCEPT ![a] = "pong"]
  /\ UNCHANGED <<ctlVars, slot, inbox, mailbox, cmd, last, iter, status, signalled,
                 seqOf, exec>>

\* POLL_TIMEOUT: codes 2 and 13 for the initiator; the responder (3 and 14)
\* goes back to its command loop without telling anybody.
PollTimeout(a) ==
  /\ PeerMayTimeOut
  /\ mode[a] = "poll" /\ ~NewMessage(a)
  /\ EndTest(a, cmd[a], "ERROR")
  /\ UNCHANGED <<ctlVars, slot, inbox, mailbox, cmd, last, iter, seen, signalled, seqOf, mixed>>

\* The responder answers; a failed write is only noted.
SendPong(a, o) ==
  /\ mode[a] = "pong"
  /\ o \in Outcomes(Alive(Peer(a)))
  /\ \E m \in StagedMessage(a) : mailbox' = Put(mailbox, Peer(a), m, o)
  /\ iter' = [iter EXCEPT ![a] = iter[a] + 1]
  /\ mode' = [mode EXCEPT ![a] = IF iter[a] + 1 = Iters(a) THEN "idle" ELSE "poll"]
  /\ UNCHANGED <<ctlVars, slot, inbox, cmd, last, seen, status, signalled,
                 seqOf, exec, mixed>>

\* Faulty variant: the round counter is reported for the command's number.
ResultOfRound(a) == [seq |-> iter[a], status |-> status[a], test |-> cmd[a].test]

\* The result of the command an agent has executed.
ResultOf(a) == [seq |-> cmd[a].seq, status |-> status[a], test |-> cmd[a].test]

\* report_result writes the agent's slot in the controller's buffer; its
\* return value is not looked at.
ReportResult(a, o) ==
  /\ mode[a] = "report"
  /\ o \in Outcomes(pc # "done")
  /\ \E r \in Staged(a, ResultOf(a), NoResult) : slot' = Put(slot, a, r, o)
  /\ mode' = [mode EXCEPT ![a] = "idle"]
  /\ UNCHANGED <<ctlVars, inbox, mailbox, cmd, last, iter, seen, status, signalled,
                 seqOf, exec, mixed>>

\* The command loop looks at the signal flag between two commands only.
ObeySignal(a) ==
  /\ mode[a] = "idle" /\ signalled
  /\ mode' = [mode EXCEPT ![a] = "stopped"]
  /\ UNCHANGED <<ctlVars, slot, inbox, mailbox, cmd, last, iter, seen, status, signalled,
                 seqOf, exec, mixed>>

----------------------------------------------------------------------------
Outcome == {"ok", "lost", "unconfirmed"}

ControllerStep ==
  \/ RefuseTest
  \/ \E o \in Outcome : IssueToResponder(o)
  \/ \E o \in Outcome : IssueToInitiator(o)
  \/ ResultArrives
  \/ StoreResult
  \/ GiveUp
  \/ BeginShutdown
  \/ \E o \in Outcome : SendShutdown(o)
  \/ Exit

AgentStep(a) ==
  \/ TakeCommand(a)
  \/ ResetMailbox(a)
  \/ \E o \in Outcome : SendPing(a, o)
  \/ \E o \in Outcome : SendWindow(a, o)
  \/ HearPong(a)
  \/ HearPing(a)
  \/ PollTimeout(a)
  \/ \E o \in Outcome : SendPong(a, o)
  \/ \E o \in Outcome : ReportResult(a, o)
  \/ ObeySignal(a)

\* The controller has gone and no agent is inside a test; an agent whose
\* command loop finds nothing to do goes on polling.
Quiet ==
  /\ pc = "done"
  /\ \A a \in Agents : mode[a] \in {"idle", "stopped"}
  /\ UNCHANGED vars

Next ==
  \/ ControllerStep
  \/ Interrupt
  \/ \E a \in Agents : AgentStep(a)
  \/ Quiet

\* The controller and every agent is a process that keeps running.
Fairness == /\ WF_vars(ControllerStep)
            /\ \A a \in Agents : WF_vars(AgentStep(a))

Spec == Init /\ [][Next]_vars
FairSpec == Spec /\ Fairness

----------------------------------------------------------------------------
(***************************************************************************)
(* Properties.                                                             *)
(***************************************************************************)
Command == [seq : Nat, kind : {"NONE", "PING_PONG", "BANDWIDTH", "SHUTDOWN"},
            role : {"NONE", "INITIATOR", "RESPONDER"}, test : Nat]
Result  == [seq : Nat, status : {"PENDING"} \cup Final, test : Nat]

\* TypeOK: every variable keeps the type its declaration gives it, and while a test
\* is under way the loop is at a test of the plan.
TypeController ==
  /\ pc \in {"issue", "delay", "wait", "fetch", "shutdown", "done"}
  /\ next \in 1 .. Len(Plan) + 1
  /\ pc \in {"delay", "wait", "fetch"} => next \in Tests
  /\ seq \in Nat
  /\ told \in 0 .. N
  /\ stored \subseteq [test : Tests, status : {"PENDING"} \cup Final]
  /\ stop \in BOOLEAN
  /\ signalled \in BOOLEAN

TypeMemory ==
  /\ slot    \in [Agents -> Result]
  /\ inbox   \in [Agents -> Command]
  /\ mailbox \in [Agents -> [seq : Nat, from : Nat]]

TypeAgents ==
  /\ mode   \in [Agents -> {"idle", "reset", "send", "poll", "pong", "report",
                            "stopped"}]
  /\ cmd    \in [Agents -> Command]
  /\ last   \in [Agents -> Nat]
  /\ iter   \in [Agents -> Nat]
  /\ seen   \in [Agents -> Nat]
  /\ status \in [Agents -> {"PENDING"} \cup Final]

TypeHistory ==
  /\ seqOf \in [Tests -> Nat]
  /\ exec  \in [Tests -> {"none", "running"} \cup Final]
  /\ mixed \subseteq Nat

TypeOK == TypeController /\ TypeMemory /\ TypeAgents /\ TypeHistory

\* Whatever times out or fails, a result the controller has stored for a test
\* (store_test_result and its like, called with the pair of the loop) is the
\* verdict of that test's own initiator on its one execution of it: a late
\* result of an earlier test is never taken for it.
StoredIsExecuted == \A r \in stored : exec[r.test] = r.status

\* Neither a late report nor a stray window ever brings an older result back
\* into a slot, although the controller does not clear the slots between tests:
\* a slot that changes is wiped out or gets a newer command's result.
SlotNeverRegresses ==
  [][\A a \in Agents : slot'[a] # slot[a] =>
       slot'[a] = NoResult \/ slot[a].seq < slot'[a].seq]_slot

\* The session keeps the promise of Campaign under every fault.
TheCampaign == INSTANCE Campaign WITH T <- Len(Plan), turn <- next, log <- stored
KeepsCampaign == TheCampaign!CSpec

\* A stored measurement was made with this test's messages only, each answered
\* in its own round: nobody took a late or foreign message for a ping or a
\* pong (execute_ping_pong and execute_bandwidth compare only `greater than').
CleanMeasurement ==
  \A r \in stored : r.status = "COMPLETE" => seqOf[r.test] \notin mixed

\* When an uninterrupted session is over, every test that fits the buffers has
\* a measurement, one that does not fit an agent's buffer has an ERROR, and
\* one that does not fit the mailbox has nothing.
AllMeasured ==
  pc \in {"shutdown", "done"} /\ ~stop =>
    \A n \in Tests :
      IF Plan[n].fits THEN [test |-> n, status |-> "COMPLETE"] \in stored
      ELSE IF Plan[n].kind = "BANDWIDTH" THEN [test |-> n, status |-> "ERROR"] \in stored
      ELSE \A r \in stored : r.test # n

\* The command inbox has room for one command, and the controller overwrites
\* it without looking: a command is overwritten only after it was taken.
NoCommandOverwritten ==
  [][\A a \in Agents : inbox'[a] # inbox[a] => inbox[a].seq <= last[a]]_inbox

\* When SHUTDOWN goes out no agent is inside a test, even if the user
\* interrupted the loops.
ShutdownFindsAgentsIdle ==
  pc = "shutdown" => \A a \in Agents : mode[a] \in {"idle", "stopped"}

\* The session comes to its end: the controller exits and every agent leaves
\* its command loop.
SessionEnds == <>(pc = "done" /\ \A a \in Agents : mode[a] = "stopped")

\* controller.cpp promises a "small delay to ensure responder is ready before
\* initiator starts": while an initiator exchanges messages, its responder has
\* at least reset its mailbox for the same command.
ResponderReadyFirst ==
  \A a \in Agents :
    mode[a] \in {"send", "poll"} /\ cmd[a].role = "INITIATOR" =>
      /\ last[Peer(a)] >= cmd[a].seq
      /\ mode[Peer(a)] = "reset" => cmd[Peer(a)].seq # cmd[a].seq

\* agent.cpp resets the mailbox at the start of a test "so we don't see stale
\* sequences from previous tests": a message that is about to be taken was not
\* written by an execution of an earlier command.
NoStaleMessage == \A a \in Agents : NewMessage(a) => mailbox[a].from >= cmd[a].seq
=============================================================================
