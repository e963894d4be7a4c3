-------------------------- MODULE TestSessionTimely --------------------------
(***************************************************************************)
(* What more can be said of a session in which nothing fails and no wait   *)
(* runs out: there is never more than one test under way, and its two      *)
(* agents go through it hand in hand.                                      *)
(***************************************************************************)
EXTENDS TestSessionInv

\* The conditions of session_timely.  Local agents would also be interrupted.
Timely ==
  /\ ~LocalMode      /\ ~CtrlMayTimeOut /\ ~PeerMayTimeOut
  /\ ~WritesMayFail  /\ DelaySuffices

I == Plan[next].init
R == Plan[next].resp

\* Agent a has nothing to do, ...
AtRest(a) == mode[a] = "idle" /\ inbox[a].seq <= last[a]

\* has the command of the current test in its inbox, ...
Awaits(a, role) ==
  mode[a] = "idle" /\ inbox[a] = TestCommand(seq, next, role) /\ last[a] < seq

\* or executes it.
Executes(a, role, m) ==
  mode[a] = m /\ cmd[a] = TestCommand(seq, next, role) /\ inbox[a].seq <= last[a]

Exchanges == Plan[next].fits /\ Plan[next].iters > 0
Verdict   == IF Plan[next].fits THEN "COMPLETE" ELSE "ERROR"

\* The responder is on its way into the test.
Starts == Awaits(R, "RESPONDER") \/ (Executes(R, "RESPONDER", "reset") /\ Plan[next].fits)

\* It waits for the first message, unless there is none to come.
Ready ==
  IF Exchanges
    THEN Executes(R, "RESPONDER", "poll") /\ iter[R] = 0 /\ seen[R] = 0 /\ mailbox[R].seq = 0
    ELSE AtRest(R)

----------------------------------------------------------------------------
\* A round of the exchange: both agents are in it, nothing has been sent, ...
Sending ==
  /\ Executes(I, "INITIATOR", "send") /\ mailbox[I].seq <= seen[I]
  /\ Executes(R, "RESPONDER", "poll") /\ mailbox[R].seq <= seen[R]
  /\ iter[R] = iter[I] /\ seen[R] = iter[I]

\* the ping is there, ...
PingSent ==
  /\ Executes(I, "INITIATOR", "poll") /\ mailbox[I].seq <= seen[I]
  /\ Executes(R, "RESPONDER", "poll") /\ mailbox[R] = Message(I)
  /\ iter[R] = iter[I] /\ seen[R] = iter[I]

\* it has been heard, ...
PingHeard ==
  /\ Executes(I, "INITIATOR", "poll") /\ mailbox[I].seq <= seen[I]
  /\ Executes(R, "RESPONDER", "pong") /\ mailbox[R].seq <= seen[R]
  /\ iter[R] = iter[I] /\ seen[R] = iter[I] + 1

\* and the pong is there; after the last one the responder has gone.
PongSent ==
  /\ Executes(I, "INITIATOR", "poll") /\ mailbox[I] = Message(I)
  /\ IF iter[I] + 1 = Plan[next].iters THEN AtRest(R)
       ELSE /\ Executes(R, "RESPONDER", "poll") /\ mailbox[R].seq <= seen[R]
            /\ iter[R] = iter[I] + 1 /\ seen[R] = iter[I] + 1

Exchange ==
  /\ Exchanges
  /\ iter[I] < Plan[next].iters /\ seen[I] = iter[I]
  /\ Sending \/ PingSent \/ PingHeard \/ PongSent

\* The initiator has its command, and the responder is ready for it; ...
Opening ==
  /\ Awaits(I, "INITIATOR") \/ (Executes(I, "INITIATOR", "reset") /\ Plan[next].fits)
  /\ Ready

\* or the exchange is over.
Closing ==
  /\ Executes(I, "INITIATOR", "report") /\ status[I] = Verdict
  /\ AtRest(R)

Reported ==
  /\ AtRest(I) /\ AtRest(R)
  /\ slot[I] = [seq |-> seq, status |-> Verdict, test |-> next]

----------------------------------------------------------------------------
OthersRest == \A a \in Agents : a # I /\ a # R => AtRest(a)
AllRest    == \A a \in Agents : AtRest(a)

\* Between tests everybody rests, and during a test all but its agents do.
Stages ==
  /\ pc = "issue" => AllRest
  /\ pc = "delay" => OthersRest /\ AtRest(I) /\ last[I] < seq /\ (Starts \/ Ready)
  /\ pc = "wait"  => OthersRest /\ (Opening \/ Exchange \/ Closing \/ Reported)
  /\ pc = "fetch" => OthersRest /\ Reported

\* SHUTDOWN goes out to agents at rest.
Ending ==
  pc \in {"shutdown", "done"} =>
    \A a \in Agents :
      IF a < told THEN mode[a] = "stopped" \/ (mode[a] = "idle" /\ inbox[a].kind = "SHUTDOWN")
                  ELSE AtRest(a)

Bounds ==
  /\ \A a \in Agents : inbox[a].seq <= seq /\ last[a] <= seq
  /\ pc \notin {"shutdown", "done"} => told = 0
  /\ pc = "done" => told = N

\* What the tests behind have left in the result vectors
OutcomeOf(n) ==
  IF Plan[n].fits THEN [test |-> n, status |-> "COMPLETE"] \in stored
  ELSE IF Plan[n].kind = "BANDWIDTH" THEN [test |-> n, status |-> "ERROR"] \in stored
  ELSE \A r \in stored : r.test # n

Results ==
  /\ \A n \in Tests : n < next => OutcomeOf(n)
  /\ pc \in {"delay", "wait", "fetch"} /\ Plan[next].kind = "PING_PONG" => Plan[next].fits
  /\ pc \in {"shutdown", "done"} /\ ~stop => next > Len(Plan)

\* TInv holds in every state of a timely session, whatever the user does.
TInv == ~signalled /\ mixed = {} /\ Bounds /\ Stages /\ Ending /\ Results
=============================================================================
