----------------------------- MODULE TimelyProofs -----------------------------
(***************************************************************************)
(* Proofs about sessions in which nothing fails and no wait runs out, for  *)
(* every plan and every number of agents.                                  *)
(***************************************************************************)
EXTENDS TestSessionTimely, TestSessionProofs

\* The two agents of the current test.
LEMMA Pair ==
  ASSUME next \in Tests
  PROVE  /\ I \in Agents /\ R \in Agents /\ I # R
         /\ Plan[next].kind \in TestKind /\ Plan[next].iters \in Nat
         /\ Plan[next].fits \in BOOLEAN
  BY PlanFacts DEF I, R, Test

LEMMA CommandFields ==
  ASSUME NEW s, NEW n, NEW role
  PROVE  LET c == TestCommand(s, n, role)
         IN  c.seq = s /\ c.kind = Plan[n].kind /\ c.role = role /\ c.test = n
  BY DEF TestCommand

\* A write that reaches its target is just that.
LEMMA Delivered ==
  ASSUME NEW o, o = "ok"
  PROVE  \A f, a, v : Put(f, a, v, o) = [f EXCEPT ![a] = v]
  BY DEF Put

\* What depends on the controller only stays while the controller does.
LEMMA SameTest ==
  ASSUME UNCHANGED ctlVars
  PROVE  /\ I' = I /\ R' = R /\ Exchanges' = Exchanges /\ Verdict' = Verdict
         /\ pc' = pc /\ next' = next /\ seq' = seq /\ told' = told
         /\ stored' = stored /\ stop' = stop
  BY DEF ctlVars, I, R, Exchanges, Verdict

\* An agent's step touches only its own state, and mailboxes.
LEMMA OthersKept ==
  ASSUME TypeOK, NEW a \in Agents, AgentStep(a)
  PROVE  /\ UNCHANGED <<ctlVars, inbox, signalled>>
         /\ \A b \in Agents \ {a} :
              /\ mode'[b] = mode[b] /\ cmd'[b] = cmd[b] /\ last'[b] = last[b]
              /\ iter'[b] = iter[b] /\ seen'[b] = seen[b] /\ slot'[b] = slot[b]
              /\ status'[b] = status[b]
  <1> USE DEF TypeOK, TypeAgents, TypeMemory
  <1>1. CASE TakeCommand(a)
    BY <1>1 DEF TakeCommand, EndTest
  <1>2. CASE ResetMailbox(a)
    BY <1>2 DEF ResetMailbox, EndTest
  <1>3. ASSUME NEW o, SendPing(a, o) \/ SendWindow(a, o)
        PROVE  /\ UNCHANGED <<ctlVars, inbox, signalled>>
               /\ \A b \in Agents \ {a} :
                    /\ mode'[b] = mode[b] /\ cmd'[b] = cmd[b] /\ last'[b] = last[b]
                    /\ iter'[b] = iter[b] /\ seen'[b] = seen[b] /\ slot'[b] = slot[b]
                    /\ status'[b] = status[b]
    BY <1>3 DEF SendPing, SendWindow, EndTest
  <1>4. CASE HearPong(a) \/ HearPing(a)
    BY <1>4 DEF HearPong, HearPing, TakeMessage, EndTest
  <1>5. CASE PollTimeout(a) \/ ObeySignal(a)
    BY <1>5 DEF PollTimeout, ObeySignal, EndTest
  <1>6. ASSUME NEW o, SendPong(a, o) \/ ReportResult(a, o)
        PROVE  /\ UNCHANGED <<ctlVars, inbox, signalled>>
               /\ \A b \in Agents \ {a} :
                    /\ mode'[b] = mode[b] /\ cmd'[b] = cmd[b] /\ last'[b] = last[b]
                    /\ iter'[b] = iter[b] /\ seen'[b] = seen[b] /\ slot'[b] = slot[b]
                    /\ status'[b] = status[b]
    BY <1>6 DEF SendPong, ReportResult, Put
  <1> QED
    BY <1>1, <1>2, <1>3, <1>4, <1>5, <1>6 DEF AgentStep

\* Where an agent is decides what it can do.
LEMMA StepByMode ==
  ASSUME Timely, ~signalled, NEW a \in Agents, AgentStep(a)
  PROVE  \/ mode[a] = "idle" /\ TakeCommand(a)
         \/ mode[a] = "reset" /\ ResetMailbox(a)
         \/ mode[a] = "send" /\ \E o \in Outcome : SendPing(a, o) \/ SendWindow(a, o)
         \/ mode[a] = "poll" /\ NewMessage(a) /\ (HearPong(a) \/ HearPing(a))
         \/ mode[a] = "pong" /\ \E o \in Outcome : SendPong(a, o)
         \/ mode[a] = "report" /\ \E o \in Outcome : ReportResult(a, o)
  BY DEF Timely, AgentStep, TakeCommand, ResetMailbox, SendPing, SendWindow, HearPong, HearPing,
         NewMessage, PollTimeout, SendPong, ReportResult, ObeySignal

\* Whoever is at rest, or polls without a new message, does nothing.
LEMMA RestersRest ==
  ASSUME Timely, IInv, ~signalled, NEW a \in Agents, AgentStep(a)
  PROVE  /\ ~AtRest(a)
         /\ ~(mode[a] = "poll" /\ mailbox[a].seq <= seen[a])
  <1>1. inbox[a].seq \in Nat /\ last[a] \in Nat /\ mailbox[a].seq \in Nat /\ seen[a] \in Nat
    BY DEF IInv, TypeOK, TypeMemory, TypeAgents, Command
  <1> QED
    BY <1>1, StepByMode DEF AtRest, TakeCommand, NewCommand, NewMessage

----------------------------------------------------------------------------
(***************************************************************************)
(* The agents.                                                             *)
(***************************************************************************)

\* Types of what the agents' steps compare.
LEMMA AgentTypes ==
  ASSUME TypeOK, NEW a \in Agents
  PROVE  /\ inbox[a].seq \in Nat /\ last[a] \in Nat /\ seq \in Nat
         /\ mailbox[a].seq \in Nat /\ seen[a] \in Nat /\ iter[a] \in Nat
  BY DEF TypeOK, TypeController, TypeMemory, TypeAgents, Command

\* The responder takes its command and gets ready.
LEMMA DelayStep ==
  ASSUME Timely, IInv, TInv, pc = "delay", NEW a \in Agents, AgentStep(a)
  PROVE  /\ OthersRest' /\ AtRest(I)' /\ last'[I] < seq /\ (Starts' \/ Ready')
         /\ mixed' = mixed /\ last'[a] <= seq
  <1>a. /\ TypeOK /\ ~signalled /\ OthersRest /\ AtRest(I) /\ last[I] < seq /\ (Starts \/ Ready)
        /\ next \in Tests
    BY DEF IInv, TypeOK, TypeController, TInv, Stages
  <1>b. I \in Agents /\ R \in Agents /\ I # R
    BY <1>a, Pair
  <1>c. a = R
    BY <1>a, <1>b, RestersRest DEF OthersRest
  <1>d. UNCHANGED <<ctlVars, inbox>> /\ I' = I /\ R' = R /\ Exchanges' = Exchanges
          /\ seq' = seq /\ next' = next
    BY <1>a, OthersKept, SameTest
  <1>1. OthersRest' /\ AtRest(I)' /\ last'[I] < seq
    BY <1>a, <1>b, <1>c, <1>d, OthersKept DEF OthersRest, AtRest
  <1>2. CASE Awaits(R, "RESPONDER")
    <2>1. TakeCommand(a) /\ inbox[a] = TestCommand(seq, next, "RESPONDER")
      BY <1>a, <1>c, <1>2, StepByMode DEF Awaits
    <2>2. /\ inbox[a].seq = seq /\ inbox[a].kind = Plan[next].kind
          /\ inbox[a].role = "RESPONDER" /\ inbox[a].test = next
      BY <2>1, CommandFields
    <2>3. /\ last' = [last EXCEPT ![a] = seq] /\ cmd' = [cmd EXCEPT ![a] = inbox[a]]
          /\ mixed' = mixed
      BY <2>1, <2>2 DEF TakeCommand
    <2>4. /\ last'[a] = seq /\ cmd'[a] = TestCommand(seq, next, "RESPONDER")
          /\ inbox'[a].seq <= last'[a]
      BY <1>a, <1>d, <2>1, <2>2, <2>3 DEF TypeOK, TypeAgents, TypeController
    <2>5. CASE Plan[next].fits
      <3>1. mode' = [mode EXCEPT ![a] = "reset"]
        BY <1>a, <2>1, <2>2, <2>5, Pair DEF TakeCommand, TestKind
      <3>2. Executes(a, "RESPONDER", "reset")'
        BY <1>a, <1>d, <2>4, <3>1 DEF Executes, TypeOK, TypeAgents
      <3> QED
        BY <1>1, <1>a, <1>c, <1>d, <2>3, <2>4, <2>5, <3>2 DEF Starts, Executes, TypeOK, TypeController
    <2>6. CASE ~Plan[next].fits
      <3>1. Plan[next].kind = "BANDWIDTH"
        BY <1>a, <2>6, Pair DEF TInv, Results, TestKind
      <3>2. mode' = [mode EXCEPT ![a] = "idle"]
        BY <2>1, <2>2, <2>6, <3>1 DEF TakeCommand, EndTest
      <3>3. AtRest(R)'
        BY <1>a, <1>c, <1>d, <2>4, <3>2 DEF AtRest, TypeOK, TypeAgents
      <3>4. ~Exchanges'
        BY <1>d, <2>6 DEF Exchanges
      <3> QED
        BY <1>1, <1>a, <2>3, <2>4, <3>3, <3>4 DEF Ready, TypeOK, TypeController
    <2> QED
      BY <2>5, <2>6
  <1>3. CASE Executes(R, "RESPONDER", "reset") /\ Plan[next].fits
    <2>1. ResetMailbox(a)
      BY <1>a, <1>c, <1>3, StepByMode DEF Executes
    <2>2. /\ cmd[a] = TestCommand(seq, next, "RESPONDER") /\ cmd[a].role = "RESPONDER"
          /\ cmd[a].test = next /\ Iters(a) = Plan[next].iters /\ inbox[a].seq <= last[a]
      BY <1>c, <1>3, CommandFields DEF Executes, Iters
    <2>3. /\ last' = last /\ cmd' = cmd /\ mixed' = mixed
          /\ iter'[a] = 0 /\ seen'[a] = 0 /\ mailbox'[a].seq = 0
      BY <1>a, <2>1 DEF ResetMailbox, NoMessage, TypeOK, TypeAgents, TypeMemory
    <2>4. Ready'
      <3>1. CASE Iters(a) = 0
        <4>1. mode'[a] = "idle" /\ ~Exchanges
          BY <1>a, <2>1, <2>2, <3>1 DEF ResetMailbox, EndTest, Exchanges, TypeOK, TypeAgents
        <4> QED
          BY <1>c, <1>d, <2>2, <2>3, <4>1 DEF Ready, AtRest
      <3>2. CASE Iters(a) # 0
        <4>1. mode'[a] = "poll" /\ Exchanges
          BY <1>a, <1>3, <2>1, <2>2, <3>2, Pair DEF ResetMailbox, Exchanges, TypeOK, TypeAgents
        <4> QED
          BY <1>c, <1>d, <2>2, <2>3, <4>1 DEF Ready, Executes
      <3> QED
        BY <3>1, <3>2
    <2> QED
      BY <1>1, <2>3, <2>4 DEF TInv, Bounds
  <1>4. CASE Ready
    BY <1>a, <1>c, <1>4, RestersRest, AgentTypes DEF Ready, Executes
  <1> QED
    BY <1>a, <1>2, <1>3, <1>4 DEF Starts

\* While the controller waits, only the two agents of the test act.
LEMMA WaitFacts ==
  ASSUME Timely, IInv, TInv, pc = "wait", NEW a \in Agents, AgentStep(a)
  PROVE  /\ TypeOK /\ ~signalled /\ next \in Tests
         /\ I \in Agents /\ R \in Agents /\ I # R /\ a \in {I, R}
         /\ UNCHANGED <<ctlVars, inbox>>
         /\ I' = I /\ R' = R /\ Exchanges' = Exchanges /\ Verdict' = Verdict
         /\ seq' = seq /\ next' = next
         /\ OthersRest'
         /\ \A b \in {I, R} \ {a} :
              /\ mode'[b] = mode[b] /\ cmd'[b] = cmd[b] /\ last'[b] = last[b]
              /\ iter'[b] = iter[b] /\ seen'[b] = seen[b]
  <1>1. TypeOK /\ ~signalled /\ OthersRest /\ next \in Tests
    BY DEF IInv, TypeOK, TypeController, TInv, Stages
  <1>2. I \in Agents /\ R \in Agents /\ I # R
    BY <1>1, Pair
  <1>3. a \in {I, R}
    BY <1>1, <1>2, RestersRest DEF OthersRest
  <1>4. /\ UNCHANGED <<ctlVars, inbox>>
        /\ I' = I /\ R' = R /\ Exchanges' = Exchanges /\ Verdict' = Verdict
        /\ seq' = seq /\ next' = next
    BY <1>1, OthersKept, SameTest
  <1>5. OthersRest'
    BY <1>1, <1>2, <1>3, <1>4, OthersKept DEF OthersRest, AtRest
  <1>6. \A b \in {I, R} \ {a} :
          /\ mode'[b] = mode[b] /\ cmd'[b] = cmd[b] /\ last'[b] = last[b]
          /\ iter'[b] = iter[b] /\ seen'[b] = seen[b]
    BY <1>1, <1>2, OthersKept
  <1> QED
    BY <1>1, <1>2, <1>3, <1>4, <1>5, <1>6

\* A busy agent's peer is the other one.
LEMMA PeerOf ==
  ASSUME NEW a, NEW m, NEW role \in {"INITIATOR", "RESPONDER"}, Executes(a, role, m)
  PROVE  /\ Peer(a) = IF role = "INITIATOR" THEN R ELSE I
         /\ cmd[a].seq = seq /\ cmd[a].kind = Plan[next].kind
         /\ cmd[a].role = role /\ cmd[a].test = next
         /\ Iters(a) = Plan[next].iters /\ mode[a] = m
         /\ Message(a) = [seq |-> iter[a] + 1, from |-> seq]
  BY CommandFields DEF Executes, Peer, Iters, Message, I, R

\* The initiator takes its command, resets its mailbox and begins.
LEMMA OpeningStep ==
  ASSUME Timely, IInv, TInv, pc = "wait", Opening, NEW a \in Agents, AgentStep(a)
  PROVE  (Opening' \/ Exchange' \/ Closing') /\ mixed' = mixed /\ last'[a] <= seq
  <1>a. /\ TypeOK /\ ~signalled /\ next \in Tests
        /\ I \in Agents /\ R \in Agents /\ I # R /\ a \in {I, R}
        /\ UNCHANGED <<ctlVars, inbox>>
        /\ I' = I /\ R' = R /\ Exchanges' = Exchanges /\ Verdict' = Verdict
        /\ seq' = seq /\ next' = next
        /\ \A b \in {I, R} \ {a} :
             /\ mode'[b] = mode[b] /\ cmd'[b] = cmd[b] /\ last'[b] = last[b]
             /\ iter'[b] = iter[b] /\ seen'[b] = seen[b]
    BY WaitFacts
  <1>b. a = I
    BY <1>a, RestersRest, AgentTypes DEF Opening, Ready, Executes
  <1>c. ASSUME mailbox'[R].seq = mailbox[R].seq
        PROVE  Ready' /\ (~Exchanges => AtRest(R)')
    BY <1>a, <1>b, <1>c DEF Opening, Ready, Executes, AtRest
  <1>1. CASE Awaits(I, "INITIATOR")
    <2>1. TakeCommand(a) /\ inbox[a] = TestCommand(seq, next, "INITIATOR")
      BY <1>a, <1>b, <1>1, StepByMode DEF Awaits
    <2>2. /\ inbox[a].seq = seq /\ inbox[a].kind = Plan[next].kind
          /\ inbox[a].role = "INITIATOR" /\ inbox[a].test = next
      BY <2>1, CommandFields
    <2>3. /\ last' = [last EXCEPT ![a] = seq] /\ cmd' = [cmd EXCEPT ![a] = inbox[a]]
          /\ mixed' = mixed /\ mailbox' = mailbox
      BY <2>1, <2>2 DEF TakeCommand
    <2>4. /\ last'[a] = seq /\ cmd'[a] = TestCommand(seq, next, "INITIATOR")
          /\ inbox'[a].seq <= last'[a] /\ last'[a] <= seq
      BY <1>a, <2>1, <2>2, <2>3 DEF TypeOK, TypeAgents, TypeController
    <2>5. CASE Plan[next].fits
      <3>1. mode' = [mode EXCEPT ![a] = "reset"]
        BY <1>a, <2>1, <2>2, <2>5, Pair DEF TakeCommand, TestKind
      <3>2. Executes(I, "INITIATOR", "reset")' /\ Plan[next'].fits
        BY <1>a, <1>b, <2>4, <2>5, <3>1 DEF Executes, TypeOK, TypeAgents
      <3> QED
        BY <1>c, <2>3, <2>4, <3>2 DEF Opening
    <2>6. CASE ~Plan[next].fits
      <3>1. Plan[next].kind = "BANDWIDTH"
        BY <1>a, <2>6, Pair DEF TInv, Results, TestKind
      <3>2. mode' = [mode EXCEPT ![a] = "report"] /\ status' = [status EXCEPT ![a] = "ERROR"]
        BY <2>1, <2>2, <2>6, <3>1 DEF TakeCommand, EndTest
      <3>3. Executes(I, "INITIATOR", "report")' /\ status'[I] = Verdict
        BY <1>a, <1>b, <2>4, <2>6, <3>2 DEF Executes, Verdict, TypeOK, TypeAgents
      <3>4. ~Exchanges
        BY <2>6 DEF Exchanges
      <3> QED
        BY <1>a, <1>c, <2>3, <2>4, <3>3, <3>4 DEF Closing
    <2> QED
      BY <2>5, <2>6
  <1>2. CASE Executes(I, "INITIATOR", "reset") /\ Plan[next].fits
    <2>1. ResetMailbox(a)
      BY <1>a, <1>b, <1>2, StepByMode DEF Executes
    <2>2. /\ cmd[a] = TestCommand(seq, next, "INITIATOR") /\ cmd[a].role = "INITIATOR"
          /\ cmd[a].test = next /\ Iters(a) = Plan[next].iters /\ inbox[a].seq <= last[a]
      BY <1>b, <1>2, CommandFields DEF Executes, Iters
    <2>3. /\ last' = last /\ cmd' = cmd /\ mixed' = mixed
          /\ iter'[a] = 0 /\ seen'[a] = 0 /\ mailbox'[a].seq = 0
          /\ mailbox'[R].seq = mailbox[R].seq
      BY <1>a, <1>b, <2>1 DEF ResetMailbox, NoMessage, TypeOK, TypeAgents, TypeMemory
    <2>4. last'[a] <= seq
      BY <1>a, <2>3 DEF TInv, Bounds
    <2>5. CASE Iters(a) = 0
      <3>1. mode'[a] = "report" /\ status'[a] = "COMPLETE" /\ ~Exchanges
        BY <1>a, <2>1, <2>2, <2>5 DEF ResetMailbox, EndTest, Exchanges, TypeOK, TypeAgents
      <3>2. Executes(I, "INITIATOR", "report")' /\ status'[I] = Verdict
        BY <1>a, <1>b, <1>2, <2>2, <2>3, <3>1 DEF Executes, Verdict
      <3> QED
        BY <1>a, <1>c, <2>3, <2>4, <3>1, <3>2 DEF Closing
    <2>6. CASE Iters(a) # 0
      <3>1. mode'[a] = "send" /\ Exchanges
        BY <1>a, <1>2, <2>1, <2>2, <2>6, Pair DEF ResetMailbox, Exchanges, TypeOK, TypeAgents
      <3>2. Executes(I, "INITIATOR", "send")' /\ mailbox'[I].seq <= seen'[I]
        BY <1>a, <1>b, <2>2, <2>3, <3>1 DEF Executes
      <3>3. /\ Executes(R, "RESPONDER", "poll")' /\ mailbox'[R].seq <= seen'[R]
            /\ iter'[R] = 0 /\ seen'[R] = 0
        BY <1>a, <1>c, <2>3, <3>1 DEF Ready
      <3>4. Sending'
        BY <1>a, <1>b, <2>3, <3>2, <3>3 DEF Sending
      <3>5. iter'[I] < Plan[next].iters /\ seen'[I] = iter'[I]
        BY <1>a, <1>b, <2>3, <3>1 DEF Exchanges
      <3> QED
        BY <1>a, <2>3, <2>4, <3>1, <3>4, <3>5 DEF Exchange
    <2> QED
      BY <2>5, <2>6
  <1> QED
    BY <1>1, <1>2 DEF Opening

\* While the controller waits nobody but a sender of the current test writes
\* windows, and nothing else is staged meanwhile.
LEMMA NoOverrun ==
  ASSUME Timely, IInv, TInv, pc = "wait", NEW a \in Agents,
         mode[I] = "send" => Executes(I, "INITIATOR", "send") /\ Plan[next].kind = "PING_PONG",
         mode[R] # "send"
  PROVE  ~Overrun(a)
  <1> SUFFICES ASSUME NEW b \in Agents, mode[b] = "send", cmd[b].kind = "BANDWIDTH"
               PROVE  FALSE
    BY DEF Overrun
  <1>1. b = I
    BY DEF TInv, Stages, OthersRest, AtRest
  <1> QED
    BY <1>1, PeerOf

LEMMA SendingStep ==
  ASSUME Timely, IInv, TInv, pc = "wait", Exchange, Sending, NEW a \in Agents, AgentStep(a)
  PROVE  Exchange' /\ mixed' = mixed /\ last' = last
  <1>a. /\ TypeOK /\ ~signalled /\ next \in Tests
        /\ I \in Agents /\ R \in Agents /\ I # R /\ a \in {I, R}
        /\ UNCHANGED <<ctlVars, inbox>>
        /\ I' = I /\ R' = R /\ Exchanges' = Exchanges /\ seq' = seq /\ next' = next
        /\ \A b \in {I, R} \ {a} :
             /\ mode'[b] = mode[b] /\ cmd'[b] = cmd[b] /\ last'[b] = last[b]
             /\ iter'[b] = iter[b] /\ seen'[b] = seen[b]
    BY WaitFacts
  <1>b. a = I
    BY <1>a, RestersRest DEF Sending, Executes
  <1>c. /\ Peer(a) = R /\ cmd[a].kind = Plan[next].kind /\ cmd[a].seq = seq
        /\ mode[a] = "send" /\ mode[R] = "poll" /\ Alive(R)
    BY <1>b, PeerOf DEF Sending, Executes, Alive
  <1>1. PICK o \in Outcome : SendPing(a, o) \/ SendWindow(a, o)
    BY <1>a, <1>c, StepByMode
  <1>2. o = "ok" /\ \A m : Put(mailbox, R, m, o) = [mailbox EXCEPT ![R] = m]
    <2>1. o \in Outcomes(Alive(R))
      BY <1>1, <1>c DEF SendPing, SendWindow
    <2>2. o = "ok"
      BY <1>c, <2>1 DEF Outcomes, Timely
    <2> QED
      BY <2>2, Delivered
  <1>3. /\ mode' = [mode EXCEPT ![a] = "poll"]
        /\ UNCHANGED <<cmd, last, iter, seen, mixed>>
    BY <1>1, <1>2 DEF SendPing, SendWindow
  <1>4. mailbox' = [mailbox EXCEPT ![R] = Message(a)]
    <2>1. CASE SendWindow(a, o)
      BY <1>2, <1>c, <2>1 DEF SendWindow
    <2>2. CASE SendPing(a, o)
      <3>1. Plan[next].kind = "PING_PONG"
        BY <1>c, <2>2 DEF SendPing
      <3>2. ~Overrun(a)
        BY <1>c, <3>1, NoOverrun DEF Sending
      <3>3. StagedMessage(a) = {Message(a)}
        BY <3>2 DEF StagedMessage, Staged
      <3> QED
        BY <1>2, <1>c, <2>2, <3>3 DEF SendPing
    <2> QED
      BY <1>1, <2>1, <2>2
  <1>5. /\ mailbox'[R] = Message(a) /\ mailbox'[I] = mailbox[I] /\ mode'[I] = "poll"
        /\ Message(a)' = Message(a)
    BY <1>a, <1>b, <1>3, <1>4 DEF TypeOK, TypeMemory, TypeAgents, Message
  <1>6. PingSent'
    BY <1>a, <1>b, <1>3, <1>5 DEF Sending, PingSent, Executes
  <1> QED
    BY <1>a, <1>3, <1>6 DEF Exchange

LEMMA PingSentStep ==
  ASSUME Timely, IInv, TInv, pc = "wait", Exchange, PingSent, NEW a \in Agents, AgentStep(a)
  PROVE  Exchange' /\ mixed' = mixed /\ last' = last
  <1>a. /\ TypeOK /\ ~signalled /\ next \in Tests
        /\ I \in Agents /\ R \in Agents /\ I # R /\ a \in {I, R}
        /\ UNCHANGED <<ctlVars, inbox>>
        /\ I' = I /\ R' = R /\ Exchanges' = Exchanges /\ seq' = seq /\ next' = next
        /\ \A b \in {I, R} \ {a} :
             /\ mode'[b] = mode[b] /\ cmd'[b] = cmd[b] /\ last'[b] = last[b]
             /\ iter'[b] = iter[b] /\ seen'[b] = seen[b]
    BY WaitFacts
  <1>b. a = R
    BY <1>a, RestersRest DEF PingSent, Executes
  <1>c. /\ cmd[a].role = "RESPONDER" /\ cmd[a].seq = seq /\ mode[a] = "poll"
        /\ mailbox[a].seq = iter[a] + 1 /\ mailbox[a].from = seq
    BY <1>b, PeerOf DEF PingSent
  <1>1. HearPing(a)
    BY <1>a, <1>c, StepByMode DEF HearPong
  <1>2. /\ mode' = [mode EXCEPT ![a] = "pong"] /\ seen' = [seen EXCEPT ![a] = mailbox[a].seq]
        /\ UNCHANGED <<mailbox, cmd, last, iter, mixed>>
    BY <1>1, <1>c DEF HearPing, TakeMessage, Foreign
  <1>3. mode'[a] = "pong" /\ seen'[a] = iter[a] + 1
    BY <1>a, <1>2, <1>c DEF TypeOK, TypeAgents
  <1>4. PingHeard'
    BY <1>a, <1>b, <1>c, <1>2, <1>3, AgentTypes DEF PingSent, PingHeard, Executes
  <1> QED
    BY <1>a, <1>b, <1>2, <1>4 DEF Exchange

LEMMA PingHeardStep ==
  ASSUME Timely, IInv, TInv, pc = "wait", Exchange, PingHeard, NEW a \in Agents, AgentStep(a)
  PROVE  Exchange' /\ mixed' = mixed /\ last' = last
  <1>a. /\ TypeOK /\ ~signalled /\ next \in Tests
        /\ I \in Agents /\ R \in Agents /\ I # R /\ a \in {I, R}
        /\ UNCHANGED <<ctlVars, inbox>>
        /\ I' = I /\ R' = R /\ Exchanges' = Exchanges /\ seq' = seq /\ next' = next
        /\ \A b \in {I, R} \ {a} :
             /\ mode'[b] = mode[b] /\ cmd'[b] = cmd[b] /\ last'[b] = last[b]
             /\ iter'[b] = iter[b] /\ seen'[b] = seen[b]
    BY WaitFacts
  <1>b. a = R
    BY <1>a, RestersRest DEF PingHeard, Executes
  <1>c. /\ Peer(a) = I /\ cmd[a].kind = Plan[next].kind /\ cmd[a].seq = seq
        /\ Iters(a) = Plan[next].iters /\ mode[a] = "pong" /\ mode[I] = "poll" /\ Alive(I)
        /\ Message(a) = [seq |-> iter[I] + 1, from |-> seq]
    BY <1>b, PeerOf DEF PingHeard, Executes, Alive
  <1>1. PICK o \in Outcome : SendPong(a, o)
    BY <1>a, <1>c, StepByMode
  <1>2. \A m : Put(mailbox, I, m, o) = [mailbox EXCEPT ![I] = m]
    <2>1. o \in Outcomes(Alive(I))
      BY <1>1, <1>c DEF SendPong
    <2>2. o = "ok"
      BY <1>c, <2>1 DEF Outcomes, Timely
    <2> QED
      BY <2>2, Delivered
  <1>3. ~Overrun(a)
    BY <1>b, <1>c, NoOverrun
  <1>4. /\ mailbox' = [mailbox EXCEPT ![I] = Message(a)]
        /\ iter' = [iter EXCEPT ![a] = iter[a] + 1]
        /\ mode' = [mode EXCEPT ![a] = IF iter[a] + 1 = Iters(a) THEN "idle" ELSE "poll"]
        /\ UNCHANGED <<cmd, last, seen, mixed>>
    BY <1>1, <1>2, <1>3, <1>c DEF SendPong, StagedMessage, Staged
  <1>5. /\ mailbox'[I] = Message(a) /\ mailbox'[R] = mailbox[R]
        /\ iter'[a] = iter[I] + 1
        /\ mode'[a] = IF iter[I] + 1 = Plan[next].iters THEN "idle" ELSE "poll"
    BY <1>a, <1>b, <1>c, <1>4 DEF PingHeard, TypeOK, TypeMemory, TypeAgents
  <1>6. Message(I)' = [seq |-> iter[I] + 1, from |-> seq]
    BY <1>a, <1>b, PeerOf DEF PingHeard, Message
  <1>7. PongSent'
    BY <1>a, <1>b, <1>c, <1>4, <1>5, <1>6 DEF PingHeard, PongSent, Executes, AtRest
  <1> QED
    BY <1>a, <1>b, <1>4, <1>7 DEF Exchange

LEMMA PongSentStep ==
  ASSUME Timely, IInv, TInv, pc = "wait", Exchange, PongSent, NEW a \in Agents, AgentStep(a)
  PROVE  (Exchange' \/ Closing') /\ mixed' = mixed /\ last' = last
  <1>a. /\ TypeOK /\ ~signalled /\ next \in Tests
        /\ I \in Agents /\ R \in Agents /\ I # R /\ a \in {I, R}
        /\ UNCHANGED <<ctlVars, inbox>>
        /\ I' = I /\ R' = R /\ Exchanges' = Exchanges /\ Verdict' = Verdict
        /\ seq' = seq /\ next' = next
        /\ \A b \in {I, R} \ {a} :
             /\ mode'[b] = mode[b] /\ cmd'[b] = cmd[b] /\ last'[b] = last[b]
             /\ iter'[b] = iter[b] /\ seen'[b] = seen[b]
    BY WaitFacts
  <1>b. a = I
    BY <1>a, RestersRest DEF PongSent, Executes
  <1>c. /\ cmd[a].role = "INITIATOR" /\ cmd[a].seq = seq /\ mode[a] = "poll"
        /\ mailbox[a].seq = iter[a] + 1 /\ mailbox[a].from = seq
        /\ Iters(a) = Plan[next].iters
    BY <1>b, PeerOf DEF PongSent
  <1>1. HearPong(a)
    BY <1>a, <1>c, StepByMode DEF HearPing
  <1>2. /\ seen' = [seen EXCEPT ![a] = mailbox[a].seq]
        /\ iter' = [iter EXCEPT ![a] = iter[a] + 1]
        /\ UNCHANGED <<mailbox, cmd, last, mixed>>
    BY <1>1, <1>c DEF HearPong, TakeMessage, Foreign
  <1>3. seen'[a] = iter[a] + 1 /\ iter'[a] = iter[a] + 1
    BY <1>a, <1>2, <1>c DEF TypeOK, TypeAgents
  <1>4. CASE iter[a] + 1 = Plan[next].iters
    <2>1. mode'[a] = "report" /\ status'[a] = "COMPLETE"
      BY <1>a, <1>1, <1>c, <1>4 DEF HearPong, EndTest, TypeOK, TypeAgents
    <2>2. Executes(I, "INITIATOR", "report")' /\ status'[I] = Verdict /\ AtRest(R)'
      BY <1>a, <1>b, <1>2, <1>4, <2>1 DEF PongSent, Exchange, Exchanges, Executes, AtRest, Verdict
    <2> QED
      BY <1>a, <1>2, <2>2 DEF Closing
  <1>5. CASE iter[a] + 1 # Plan[next].iters
    <2>1. mode'[a] = "send"
      BY <1>a, <1>1, <1>c, <1>5 DEF HearPong, TypeOK, TypeAgents
    <2>2. Sending'
      BY <1>a, <1>b, <1>c, <1>2, <1>3, <1>5, <2>1, AgentTypes DEF PongSent, Sending, Executes
    <2>3. iter'[I] < Plan[next].iters
      BY <1>a, <1>b, <1>3, <1>5, Pair, AgentTypes DEF Exchange
    <2> QED
      BY <1>a, <1>b, <1>2, <1>3, <2>2, <2>3 DEF Exchange
  <1> QED
    BY <1>4, <1>5

\* The initiator reports.
LEMMA ClosingStep ==
  ASSUME Timely, IInv, TInv, pc = "wait", Closing, NEW a \in Agents, AgentStep(a)
  PROVE  Reported' /\ mixed' = mixed /\ last' = last
  <1>a. /\ TypeOK /\ ~signalled /\ next \in Tests
        /\ I \in Agents /\ R \in Agents /\ I # R /\ a \in {I, R}
        /\ UNCHANGED <<ctlVars, inbox>>
        /\ I' = I /\ R' = R /\ Verdict' = Verdict /\ seq' = seq /\ next' = next
        /\ \A b \in {I, R} \ {a} : mode'[b] = mode[b] /\ last'[b] = last[b]
    BY WaitFacts
  <1>b. a = I
    BY <1>a, RestersRest DEF Closing
  <1>c. mode[a] = "report" /\ mode[R] = "idle" /\ cmd[a].seq = seq /\ cmd[a].test = next
    BY <1>b, PeerOf DEF Closing, AtRest
  <1>1. PICK o \in Outcome : ReportResult(a, o)
    BY <1>a, <1>c, StepByMode
  <1>2. \A r : Put(slot, a, r, o) = [slot EXCEPT ![a] = r]
    <2>1. o \in Outcomes(pc # "done")
      BY <1>1 DEF ReportResult
    <2>2. o = "ok"
      BY <2>1 DEF Outcomes, Timely
    <2> QED
      BY <2>2, Delivered
  <1>3. ~Overrun(a)
    BY <1>b, <1>c, NoOverrun
  <1>4. /\ slot' = [slot EXCEPT ![a] = ResultOf(a)] /\ mode' = [mode EXCEPT ![a] = "idle"]
        /\ UNCHANGED <<last, mixed>>
    BY <1>1, <1>2, <1>3 DEF ReportResult, Staged
  <1>5. slot'[I] = [seq |-> seq, status |-> Verdict, test |-> next]
    BY <1>a, <1>b, <1>c, <1>4 DEF Closing, ResultOf, TypeOK, TypeMemory
  <1>6. AtRest(I)' /\ AtRest(R)'
    BY <1>a, <1>b, <1>4 DEF Closing, AtRest, Executes, TypeOK, TypeAgents
  <1> QED
    BY <1>a, <1>4, <1>5, <1>6 DEF Reported

\* SHUTDOWN is obeyed.
LEMMA EndingStep ==
  ASSUME Timely, IInv, TInv, pc \in {"shutdown", "done"}, NEW a \in Agents, AgentStep(a)
  PROVE  Ending' /\ mixed' = mixed /\ last'[a] <= seq
  <1>a. TypeOK /\ ~signalled /\ Ending /\ pc' = pc /\ told' = told /\ inbox' = inbox
    BY OthersKept, SameTest DEF IInv, TInv
  <1>1. mode[a] = "idle" /\ inbox[a].kind = "SHUTDOWN" /\ TakeCommand(a)
    BY <1>a, RestersRest, StepByMode DEF Ending
  <1>2. /\ mode' = [mode EXCEPT ![a] = "stopped"]
        /\ last' = [last EXCEPT ![a] = inbox[a].seq] /\ mixed' = mixed
    BY <1>1 DEF TakeCommand
  <1>3. mode'[a] = "stopped" /\ last'[a] <= seq
    BY <1>a, <1>2 DEF TInv, Bounds, TypeOK, TypeAgents
  <1>4. \A b \in Agents : b # a => mode'[b] = mode[b] /\ last'[b] = last[b]
    BY <1>a, OthersKept
  <1>5. a < told
    BY <1>a, RestersRest DEF Ending
  <1>6. Ending'
    BY <1>a, <1>3, <1>4, <1>5 DEF Ending, AtRest
  <1> QED
    BY <1>2, <1>3, <1>6

\* Every step of an agent keeps the invariant.
LEMMA AgentTimely ==
  ASSUME Timely, IInv, TInv, NEW a \in Agents, AgentStep(a)
  PROVE  TInv'
  <1>a. /\ TypeOK /\ ~signalled /\ mixed = {}
        /\ UNCHANGED <<ctlVars, inbox, signalled>>
        /\ pc' = pc /\ next' = next /\ seq' = seq /\ told' = told /\ stored' = stored
        /\ stop' = stop /\ I' = I
    BY OthersKept, SameTest DEF IInv, TInv
  <1>b. Results'
    BY <1>a DEF TInv, Results, OutcomeOf
  <1>c. ASSUME last'[a] <= seq
        PROVE  Bounds'
    BY <1>a, <1>c, OthersKept DEF TInv, Bounds
  <1>d. last' = last => last'[a] <= seq
    BY DEF TInv, Bounds
  <1>1. CASE pc = "issue"
    BY <1>1, <1>a, RestersRest DEF TInv, Stages, AllRest
  <1>2. CASE pc = "delay"
    <2>1. Stages'
      BY <1>a, <1>2, DelayStep DEF Stages
    <2>2. Ending'
      BY <1>a, <1>2 DEF Ending
    <2> QED
      BY <1>a, <1>b, <1>c, <1>2, <2>1, <2>2, DelayStep DEF TInv
  <1>3. CASE pc = "wait"
    <2>1. OthersRest'
      BY <1>3, WaitFacts
    <2>2. Opening \/ Exchange \/ Closing \/ Reported
      BY <1>3 DEF TInv, Stages
    <2>3. ~Reported
      BY <1>3, <1>a, WaitFacts, RestersRest DEF Reported
    <2>4. /\ Opening' \/ Exchange' \/ Closing' \/ Reported'
          /\ mixed' = mixed /\ last'[a] <= seq
      BY <1>3, <1>d, <2>2, <2>3, OpeningStep, SendingStep, PingSentStep, PingHeardStep,
         PongSentStep, ClosingStep DEF Exchange
    <2>5. Stages' /\ Ending'
      BY <1>a, <1>3, <2>1, <2>4 DEF Stages, Ending
    <2> QED
      BY <1>a, <1>b, <1>c, <2>4, <2>5 DEF TInv
  <1>4. CASE pc = "fetch"
    <2>1. next \in Tests /\ OthersRest /\ AtRest(I) /\ AtRest(R)
      BY <1>a, <1>4 DEF TInv, Stages, Reported, TypeOK, TypeController
    <2> QED
      BY <1>a, <2>1, RestersRest DEF OthersRest
  <1>5. CASE pc \in {"shutdown", "done"}
    <2>1. Stages'
      BY <1>a, <1>5 DEF Stages
    <2> QED
      BY <1>a, <1>b, <1>c, <1>5, <2>1, EndingStep DEF TInv
  <1> QED
    BY <1>a, <1>1, <1>2, <1>3, <1>4, <1>5 DEF TypeOK, TypeController

----------------------------------------------------------------------------
(***************************************************************************)
(* The controller.                                                         *)
(***************************************************************************)

\* The controller's steps touch of the agents only the inboxes.
LEMMA AgentsKept ==
  ASSUME Timely, ControllerStep \/ Interrupt
  PROVE  /\ UNCHANGED <<mode, cmd, last, iter, seen, status, mailbox, slot, mixed>>
         /\ ~signalled => ~signalled'
  BY DEF ControllerStep, Interrupt, RefuseTest, IssueToResponder, IssueToInitiator, ResultArrives,
         StoreResult, GiveUp, BeginShutdown, SendShutdown, Exit, agentVars, Timely

\* The loop goes on with the next test, the one behind having its outcome.
LEMMA GoesOn ==
  ASSUME IInv, TInv, next' = next + 1, pc' = "issue",
         \A n \in Tests : n <= next => OutcomeOf(n)'
  PROVE  Results'
  <1>1. next \in Nat /\ \A n \in Tests : n \in Nat
    BY PlanFacts DEF IInv, TypeOK, TypeController
  <1>2. \A n \in Tests : n < next' => n <= next
    BY <1>1
  <1> QED
    BY <1>2 DEF Results

LEMMA RefuseTimely ==
  ASSUME Timely, IInv, TInv, RefuseTest
  PROVE  TInv'
  <1>a. /\ pc = "issue" /\ pc' = "issue" /\ next \in Tests /\ next' = next + 1
        /\ Plan[next].kind = "PING_PONG" /\ ~Plan[next].fits
        /\ UNCHANGED <<seq, told, stored, inbox, mode, last, mixed, signalled>>
    BY PlanFacts DEF RefuseTest, TestsOver, agentVars, IInv, TypeOK, TypeController
  <1>1. \A r \in stored : r.test < next /\ r.test \in Nat /\ next \in Nat
    BY PlanFacts DEF IInv, Recorded, TypeOK, TypeController
  <1>2. \A n \in Tests : n <= next => n < next \/ n = next
    BY PlanFacts DEF IInv, TypeOK, TypeController
  <1>3. OutcomeOf(next)
    BY <1>a, <1>1 DEF OutcomeOf
  <1>4. \A n \in Tests : n <= next => OutcomeOf(n)
    BY <1>2, <1>3 DEF TInv, Results
  <1>5. \A n \in Tests : n <= next => OutcomeOf(n)'
    BY <1>a, <1>4 DEF OutcomeOf
  <1>6. Results'
    BY <1>a, <1>5, GoesOn
  <1>7. Bounds' /\ Stages' /\ Ending'
    BY <1>a DEF TInv, Bounds, Stages, Ending, AllRest, AtRest
  <1> QED
    BY <1>a, <1>6, <1>7 DEF TInv

LEMMA IssueToResponderTimely ==
  ASSUME Timely, IInv, TInv, NEW o, IssueToResponder(o)
  PROVE  TInv'
  <1>a. /\ pc = "issue" /\ next \in Tests /\ TypeOK /\ seq \in Nat /\ AllRest
        /\ Plan[next].kind = "PING_PONG" => Plan[next].fits
        /\ seq' = seq + 1 /\ inbox' = Put(inbox, R, TestCommand(seq + 1, next, "RESPONDER"), o)
        /\ UNCHANGED <<told, stored, stop, mode, cmd, last, mixed, signalled>>
    BY PlanFacts DEF IssueToResponder, TestsOver, agentVars, IInv, TypeOK, TypeController, TInv,
       Stages, R
  <1>b. I \in Agents /\ R \in Agents /\ I # R
    BY <1>a, Pair
  <1>1. o = "ok"
    <2>1. o \in Outcomes(Alive(R))
      BY DEF IssueToResponder, R
    <2> QED
      BY <1>a, <1>b, <2>1 DEF Outcomes, Timely, Alive, AllRest, AtRest
  <1>2. /\ pc' = "delay" /\ next' = next /\ I' = I /\ R' = R
        /\ inbox' = [inbox EXCEPT ![R] = TestCommand(seq + 1, next, "RESPONDER")]
    BY <1>1, <1>a, Delivered DEF IssueToResponder, I, R
  <1>3. /\ inbox'[R] = TestCommand(seq + 1, next, "RESPONDER")
        /\ inbox'[R].seq = seq + 1
        /\ \A a \in Agents : a # R => inbox'[a] = inbox[a]
    BY <1>a, <1>b, <1>2, CommandFields DEF TypeOK, TypeMemory
  <1>4. \A a \in Agents : inbox[a].seq \in Nat /\ inbox[a].seq <= seq
                            /\ last[a] \in Nat /\ last[a] <= seq
    BY <1>a, AgentTypes DEF TInv, Bounds
  <1>5. Bounds'
    BY <1>a, <1>2, <1>3, <1>4 DEF TInv, Bounds
  <1>6. OthersRest' /\ AtRest(I)' /\ last'[I] < seq'
    BY <1>a, <1>b, <1>2, <1>3, <1>4 DEF OthersRest, AllRest, AtRest
  <1>7. Awaits(R, "RESPONDER")'
    BY <1>a, <1>b, <1>2, <1>3, <1>4 DEF Awaits, AllRest, AtRest
  <1>8. Stages' /\ Ending'
    BY <1>2, <1>6, <1>7 DEF Stages, Starts, Ending
  <1>9. Results'
    BY <1>a, <1>2 DEF TInv, Results, OutcomeOf
  <1> QED
    BY <1>a, <1>5, <1>8, <1>9 DEF TInv

LEMMA IssueToInitiatorTimely ==
  ASSUME Timely, IInv, TInv, NEW o, IssueToInitiator(o)
  PROVE  TInv'
  <1>a. /\ pc = "delay" /\ next \in Tests /\ TypeOK /\ Settled(R)
        /\ OthersRest /\ AtRest(I) /\ last[I] < seq /\ (Starts \/ Ready)
        /\ inbox' = Put(inbox, I, TestCommand(seq, next, "INITIATOR"), o)
        /\ UNCHANGED <<seq, told, stored, stop, mode, cmd, last, iter, seen, mailbox, mixed,
                       signalled>>
    BY DEF IssueToInitiator, agentVars, IInv, TypeOK, TypeController, TInv, Stages, I, R, Timely
  <1>b. I \in Agents /\ R \in Agents /\ I # R
    BY <1>a, Pair
  <1>1. o = "ok"
    <2>1. o \in Outcomes(Alive(I))
      BY DEF IssueToInitiator, I
    <2> QED
      BY <1>a, <2>1 DEF Outcomes, Timely, Alive, AtRest
  <1>2. /\ pc' = "wait" /\ next' = next /\ I' = I /\ R' = R /\ Exchanges' = Exchanges
        /\ inbox' = [inbox EXCEPT ![I] = TestCommand(seq, next, "INITIATOR")]
    BY <1>1, <1>a, Delivered DEF IssueToInitiator, I, R, Exchanges
  <1>3. /\ inbox'[I] = TestCommand(seq, next, "INITIATOR") /\ inbox'[I].seq = seq
        /\ \A a \in Agents : a # I => inbox'[a] = inbox[a]
    BY <1>a, <1>b, <1>2, CommandFields DEF TypeOK, TypeMemory
  <1>4. Ready
    <2>1. ~Awaits(R, "RESPONDER")
      <3>1. seq \in Nat /\ last[R] \in Nat
        BY <1>a, <1>b, AgentTypes
      <3> QED
        BY <1>a, <3>1, CommandFields DEF Awaits, Settled
    <2>2. ~Executes(R, "RESPONDER", "reset")
      BY <1>a DEF Executes, Settled
    <2> QED
      BY <1>a, <2>1, <2>2 DEF Starts
  <1>5. Ready'
    BY <1>a, <1>b, <1>2, <1>3, <1>4 DEF Ready, Executes, AtRest
  <1>6. Awaits(I, "INITIATOR")' /\ OthersRest'
    BY <1>a, <1>b, <1>2, <1>3 DEF Awaits, AtRest, OthersRest
  <1>7. Stages' /\ Ending'
    BY <1>2, <1>5, <1>6 DEF Stages, Opening, Ending
  <1>8. seq <= seq
    BY <1>a DEF TypeOK, TypeController
  <1>9. Bounds'
    BY <1>a, <1>2, <1>3, <1>8 DEF TInv, Bounds
  <1>10. Results'
    BY <1>a, <1>2 DEF TInv, Results, OutcomeOf
  <1> QED
    BY <1>a, <1>7, <1>9, <1>10 DEF TInv

\* What wait_for_results finds is the report of this test.
LEMMA ArrivedIsReported ==
  ASSUME Timely, IInv, TInv, ResultArrives
  PROVE  OthersRest /\ Reported
  <1>a. /\ pc = "wait" /\ next \in Tests /\ slot[I].seq = seq
        /\ TypeOK /\ Places /\ Slots
        /\ OthersRest /\ (Opening \/ Exchange \/ Closing \/ Reported)
    BY DEF ResultArrives, IInv, TypeOK, TypeController, TInv, Stages, I
  <1>b. I \in Agents /\ seq \in Nat /\ last[I] \in Nat /\ slot[I].seq \in Nat
    BY <1>a, Pair DEF TypeOK, TypeController, TypeMemory, TypeAgents, Result
  <1>1. ~Awaits(I, "INITIATOR")
    BY <1>a, <1>b DEF Awaits, Slots
  <1>2. ASSUME NEW m \in Busy, Executes(I, "INITIATOR", m)
        PROVE  FALSE
    <2>1. cmd[I].seq = last[I] /\ slot[I].seq < last[I]
      BY <1>a, <1>b, <1>2 DEF Executes, Places, PlaceOf
    <2>2. cmd[I].seq = seq
      BY <1>2, PeerOf
    <2> QED
      BY <1>a, <1>b, <2>1, <2>2
  <1> QED
    BY <1>a, <1>1, <1>2 DEF Opening, Exchange, Sending, PingSent, PingHeard, PongSent, Closing, Busy

LEMMA ResultArrivesTimely ==
  ASSUME Timely, IInv, TInv, ResultArrives
  PROVE  TInv'
  <1>a. /\ pc = "wait" /\ pc' = "fetch"
        /\ UNCHANGED <<next, seq, told, stored, stop, slot, inbox, mode, last, mixed, signalled>>
    BY DEF ResultArrives, agentVars
  <1>1. I' = I /\ R' = R /\ Verdict' = Verdict
    BY <1>a DEF I, R, Verdict
  <1>2. OthersRest' /\ Reported'
    BY <1>a, <1>1, ArrivedIsReported DEF OthersRest, Reported, AtRest
  <1>3. Stages' /\ Ending' /\ Bounds'
    BY <1>a, <1>2 DEF Stages, Ending, TInv, Bounds
  <1>4. Results'
    BY <1>a DEF TInv, Results, OutcomeOf
  <1> QED
    BY <1>a, <1>3, <1>4 DEF TInv

LEMMA StoreResultTimely ==
  ASSUME Timely, IInv, TInv, StoreResult
  PROVE  TInv'
  <1>a. /\ pc = "fetch" /\ pc' = "issue" /\ next \in Tests /\ next' = next + 1
        /\ stored' = stored \cup {[test |-> next, status |-> slot[I].status]}
        /\ UNCHANGED <<seq, told, inbox, mode, last, mixed, signalled>>
        /\ OthersRest /\ Reported
    BY DEF StoreResult, agentVars, IInv, TypeOK, TypeController, TInv, Stages, I
  <1>1. [test |-> next, status |-> Verdict] \in stored'
    BY <1>a DEF Reported
  <1>3. ASSUME NEW n \in Tests, n < next
        PROVE  OutcomeOf(n)'
    <2>1. OutcomeOf(n) /\ n # next
      BY <1>3, PlanFacts DEF TInv, Results
    <2>2. \A r \in stored' : r \in stored \/ r.test = next
      BY <1>a
    <2>3. stored \subseteq stored'
      BY <1>a
    <2> QED
      BY <2>1, <2>2, <2>3 DEF OutcomeOf
  <1>4. ASSUME NEW n \in Tests, n = next
        PROVE  OutcomeOf(n)'
    BY <1>a, <1>1, <1>4, Pair DEF OutcomeOf, Verdict, TInv, Results, TestKind
  <1>5. \A n \in Tests : n <= next => n < next \/ n = next
    BY PlanFacts DEF IInv, TypeOK, TypeController
  <1>6. Results'
    BY <1>a, <1>3, <1>4, <1>5, GoesOn
  <1>7. AllRest'
    BY <1>a DEF AllRest, OthersRest, Reported, AtRest
  <1>8. Bounds' /\ Stages' /\ Ending'
    BY <1>a, <1>7 DEF TInv, Bounds, Stages, Ending
  <1> QED
    BY <1>a, <1>6, <1>8 DEF TInv

LEMMA BeginShutdownTimely ==
  ASSUME Timely, IInv, TInv, BeginShutdown
  PROVE  TInv'
  <1>a. /\ pc = "issue" /\ pc' = "shutdown" /\ (next > Len(Plan) \/ stop) /\ seq' = seq + 1
        /\ UNCHANGED <<next, told, stored, stop, inbox, mode, last, mixed, signalled>>
    BY DEF BeginShutdown, TestsOver, agentVars
  <1>1. told = 0 /\ AllRest /\ \A a \in Agents : ~(a < 0)
    BY <1>a DEF TInv, Bounds, Stages, Agents
  <1>2. Ending' /\ Stages'
    BY <1>a, <1>1 DEF Ending, Stages, AllRest, AtRest
  <1>3. \A a \in Agents : inbox[a].seq \in Nat /\ last[a] \in Nat /\ seq \in Nat
    BY AgentTypes DEF IInv
  <1>4. Bounds'
    BY <1>a, <1>1, <1>3 DEF TInv, Bounds
  <1>5. Results'
    BY <1>a DEF TInv, Results, OutcomeOf
  <1> QED
    BY <1>a, <1>2, <1>4, <1>5 DEF TInv

LEMMA SendShutdownTimely ==
  ASSUME Timely, IInv, TInv, NEW o, SendShutdown(o)
  PROVE  TInv'
  <1>a. /\ pc = "shutdown" /\ told \in Agents /\ told' = told + 1 /\ TypeOK /\ Ending
        /\ inbox' = Put(inbox, told, ShutdownCommand(seq), o)
        /\ UNCHANGED <<pc, next, seq, stored, stop, mode, last, mixed, signalled>>
    BY NAssumption DEF SendShutdown, agentVars, IInv, TypeOK, TypeController, TInv, Agents
  <1>1. AtRest(told)
    BY <1>a DEF Ending, Agents
  <1>2. o = "ok"
    <2>1. o \in Outcomes(Alive(told))
      BY DEF SendShutdown
    <2> QED
      BY <1>1, <2>1 DEF Outcomes, Timely, Alive, AtRest
  <1>3. inbox' = [inbox EXCEPT ![told] = ShutdownCommand(seq)]
    BY <1>a, <1>2, Delivered
  <1>4. /\ inbox'[told].kind = "SHUTDOWN" /\ inbox'[told].seq = seq
        /\ \A a \in Agents : a # told => inbox'[a] = inbox[a]
    BY <1>a, <1>3 DEF TypeOK, TypeMemory, ShutdownCommand
  <1>5. \A a \in Agents : a < told' <=> a < told \/ a = told
    BY <1>a DEF Agents
  <1>6. Ending' /\ Stages'
    BY <1>a, <1>1, <1>4, <1>5 DEF Ending, Stages, AtRest
  <1>7. seq <= seq
    BY <1>a DEF TypeOK, TypeController
  <1>8. Bounds'
    BY <1>a, <1>4, <1>7 DEF TInv, Bounds
  <1>9. Results'
    BY <1>a DEF TInv, Results, OutcomeOf
  <1> QED
    BY <1>a, <1>6, <1>8, <1>9 DEF TInv

\* Steps that change nothing but the controller's own pc or stop.
LEMMA ExitTimely ==
  ASSUME Timely, IInv, TInv, Exit
  PROVE  TInv'
  <1>a. /\ pc = "shutdown" /\ pc' = "done" /\ told = N /\ ~signalled'
        /\ UNCHANGED <<next, seq, told, stored, stop, inbox, mode, last, mixed>>
    BY DEF Exit, agentVars, Timely
  <1> QED
    BY <1>a DEF TInv, Bounds, Stages, Ending, Results, OutcomeOf, AtRest

LEMMA InterruptTimely ==
  ASSUME Timely, IInv, TInv, Interrupt
  PROVE  TInv'
  <1>a. /\ stop' = TRUE /\ ~signalled'
        /\ UNCHANGED <<pc, next, seq, told, stored, slot, inbox, mailbox, agentVars, mixed>>
    BY DEF Interrupt, Timely, TInv
  <1>1. Bounds' /\ Ending' /\ Results'
    BY <1>a DEF TInv, Bounds, Ending, Results, OutcomeOf, AtRest, agentVars
  <1>2. Stages'
    BY <1>a DEF TInv, Stages, AllRest, OthersRest, AtRest, Starts, Ready, Awaits, Executes,
       Exchanges, Verdict, I, R, Opening, Exchange, Sending, PingSent, PingHeard, PongSent,
       Closing, Reported, Message, agentVars
  <1> QED
    BY <1>a, <1>1, <1>2 DEF TInv

----------------------------------------------------------------------------
LEMMA InitTimely == Init => TInv
  <1> SUFFICES ASSUME Init PROVE TInv
    OBVIOUS
  <1>1. AllRest /\ Bounds
    BY DEF Init, AllRest, AtRest, Bounds, NoCommand
  <1>2. Stages /\ Ending
    BY <1>1 DEF Init, Stages, Ending
  <1>3. Results
    BY PlanFacts DEF Init, Results
  <1> QED
    BY <1>1, <1>2, <1>3 DEF Init, TInv

LEMMA TimelyStep ==
  ASSUME Timely, IInv, TInv, [Next]_vars
  PROVE  TInv'
  <1>1. CASE UNCHANGED vars
    <2>1. /\ UNCHANGED <<pc, next, seq, told, stored, stop, slot, inbox, mailbox, agentVars,
                         mixed, signalled>>
      BY <1>1 DEF vars, ctlVars
    <2>2. Bounds' /\ Ending' /\ Results'
      BY <2>1 DEF TInv, Bounds, Ending, Results, OutcomeOf, AtRest, agentVars
    <2>3. Stages'
      BY <2>1 DEF TInv, Stages, AllRest, OthersRest, AtRest, Starts, Ready, Awaits, Executes,
         Exchanges, Verdict, I, R, Opening, Exchange, Sending, PingSent, PingHeard, PongSent,
         Closing, Reported, Message, agentVars
    <2> QED
      BY <2>1, <2>2, <2>3 DEF TInv
  <1>2. CASE ControllerStep
    BY <1>2, RefuseTimely, IssueToResponderTimely, IssueToInitiatorTimely, ResultArrivesTimely,
       StoreResultTimely, BeginShutdownTimely, SendShutdownTimely, ExitTimely
       DEF ControllerStep, GiveUp, Timely
  <1>3. CASE Interrupt
    BY <1>3, InterruptTimely
  <1>4. ASSUME NEW a \in Agents, AgentStep(a)
        PROVE  TInv'
    BY <1>4, AgentTimely
  <1> QED
    BY <1>1, <1>2, <1>3, <1>4 DEF Next, Quiet

----------------------------------------------------------------------------
\* A timely session goes through its tests one at a time: between tests every
\* agent rests, during a test all but its two agents do, and these two are
\* never more than one message apart.
THEOREM TimelyInvariant ==
  ASSUME Timely
  PROVE  Spec => []TInv
  <1>1. Init => TInv
    BY InitTimely
  <1>2. IInv /\ TInv /\ [Next]_vars => TInv'
    BY TimelyStep
  <1> QED
    BY <1>1, <1>2, Inductive, PTL DEF Spec

\* Although execute_ping_pong and execute_bandwidth compare message numbers by
\* `greater than' only, in a timely session every stored measurement was made
\* with messages of its own test, each answered in its own round.
THEOREM MeasurementsAreClean ==
  ASSUME Timely
  PROVE  Spec => []CleanMeasurement
  <1>1. TInv => CleanMeasurement
    BY DEF TInv, CleanMeasurement
  <1> QED
    BY <1>1, TimelyInvariant, PTL

\* The main loop of a timely session leaves no test of the plan unmeasured,
\* unless one of the two size checks refuses it or the user interrupts.
THEOREM TimelySessionsMeasureAll ==
  ASSUME Timely
  PROVE  Spec => []AllMeasured
  <1>1. IInv /\ TInv => AllMeasured
    <2> SUFFICES ASSUME IInv, TInv, pc \in {"shutdown", "done"}, ~stop, NEW n \in Tests
                 PROVE  OutcomeOf(n)
      BY DEF AllMeasured, OutcomeOf
    <2>1. next > Len(Plan) /\ next \in Nat
      BY PlanFacts DEF TInv, Results, IInv, TypeOK, TypeController
    <2>2. n < next
      BY <2>1, PlanFacts
    <2> QED
      BY <2>2 DEF TInv, Results
  <1> QED
    BY <1>1, TimelyInvariant, Inductive, PTL

\* shutdown_agents of a timely session finds every agent in its command loop,
\* so that no test is under way when the buffers are freed.
THEOREM ShutdownIsQuiet ==
  ASSUME Timely
  PROVE  Spec => []ShutdownFindsAgentsIdle
  <1>1. TInv => ShutdownFindsAgentsIdle
    BY DEF TInv, Ending, AtRest, ShutdownFindsAgentsIdle
  <1> QED
    BY <1>1, TimelyInvariant, PTL

\* Only the controller writes an inbox, and it does so while its owner rests.
LEMMA InboxWritten ==
  ASSUME Timely, IInv, TInv, [Next]_vars, NEW a \in Agents, inbox'[a] # inbox[a]
  PROVE  AtRest(a)
  <1>a. TypeOK /\ Stages /\ Ending
    BY DEF IInv, TInv
  <1>1. CASE \E o \in Outcome : IssueToResponder(o)
    <2>1. a \in Agents /\ pc = "issue"
      BY <1>1 DEF IssueToResponder
    <2> QED
      BY <2>1, <1>a DEF Stages, AllRest
  <1>2. CASE \E o \in Outcome : IssueToInitiator(o)
    <2>1. pc = "delay" /\ a = I
      BY <1>2, <1>a DEF IssueToInitiator, Put, I, TypeOK, TypeMemory
    <2> QED
      BY <2>1, <1>a DEF Stages
  <1>3. CASE \E o \in Outcome : SendShutdown(o)
    <2>1. pc = "shutdown" /\ a = told
      BY <1>3, <1>a DEF SendShutdown, Put, TypeOK, TypeMemory
    <2>2. ~(a < told)
      BY <2>1, <1>a DEF TypeOK, TypeController, Agents
    <2> QED
      BY <2>1, <2>2, <1>a DEF Ending
  <1>4. ASSUME NEW b \in Agents, AgentStep(b)
        PROVE  FALSE
    BY <1>4, <1>a, OthersKept
  <1>5. CASE RefuseTest \/ ResultArrives \/ StoreResult \/ GiveUp \/ BeginShutdown \/ Exit
                \/ Interrupt \/ UNCHANGED vars
    BY <1>5 DEF RefuseTest, ResultArrives, StoreResult, GiveUp, BeginShutdown, Exit, Interrupt,
                vars
  <1> QED
    BY <1>1, <1>2, <1>3, <1>4, <1>5 DEF Next, ControllerStep, Quiet

\* The inbox holds one command and is written without a look: in a timely
\* session the one that is overwritten has been taken.
THEOREM InboxesAreFree ==
  ASSUME Timely
  PROVE  Spec => NoCommandOverwritten
  <1>1. IInv /\ TInv /\ [Next]_vars =>
          [\A a \in Agents : inbox'[a] # inbox[a] => inbox[a].seq <= last[a]]_inbox
    BY InboxWritten DEF AtRest
  <1> QED
    BY <1>1, TimelyInvariant, Inductive, PTL DEF Spec, NoCommandOverwritten
=============================================================================
