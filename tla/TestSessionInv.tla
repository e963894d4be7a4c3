--------------------------- MODULE TestSessionInv ---------------------------
(***************************************************************************)
(* The inductive invariant behind StoredIsExecuted and KeepsCampaign.      *)
(* It ties together four places that never synchronise: the controller's   *)
(* counter, the commands lying in inboxes, the agents' progress and the    *)
(* result slots.                                                           *)
(***************************************************************************)
EXTENDS TestSession

TestKind == {"PING_PONG", "BANDWIDTH"}
Busy     == {"reset", "send", "poll", "pong", "report"}

\* A command number belongs to one test, and tests still to come have none.
Numbering ==
  /\ \A n \in Tests : seqOf[n] <= seq
  /\ \A n \in Tests : n > next => seqOf[n] = 0
  /\ pc = "issue" /\ next \in Tests => seqOf[next] = 0
  /\ pc \in {"delay", "wait", "fetch"} =>
       next \in Tests /\ seqOf[next] = seq /\ seq # 0
  /\ \A m, n \in Tests : m # n /\ seqOf[m] # 0 => seqOf[m] # seqOf[n]

\* A test command that lies or lay in agent a's inbox is the one the
\* controller made for a; `number' says which number each test got.
CommandOK(c, a, number) ==
  IF c.kind \in TestKind
    THEN /\ c.test \in Tests
         /\ c.kind = Plan[c.test].kind
         /\ c.seq = number[c.test] /\ c.seq # 0
         /\ \/ c.role = "INITIATOR" /\ Plan[c.test].init = a
            \/ c.role = "RESPONDER" /\ Plan[c.test].resp = a
    ELSE c.role = "NONE" /\ (c.kind = "NONE" => c.seq = 0)

Commands ==
  \A a \in Agents : CommandOK(inbox[a], a, seqOf) /\ CommandOK(cmd[a], a, seqOf)

\* Where an agent is fits the command it executes.
PlaceOf(a) ==
  /\ mode[a] \in Busy =>
       cmd[a].kind \in TestKind /\ cmd[a].seq = last[a] /\ slot[a].seq < last[a]
  /\ mode[a] \in {"send", "report"} => cmd[a].role = "INITIATOR"
  /\ mode[a] = "pong" => cmd[a].role = "RESPONDER"
  /\ mode[a] \in {"reset", "send", "poll"} /\ cmd[a].role = "INITIATOR" =>
       exec[cmd[a].test] = "running"
  /\ mode[a] = "report" =>
       exec[cmd[a].test] = status[a] /\ status[a] \in Final

Places == \A a \in Agents : PlaceOf(a)

\* A test that was begun was begun from its command.
Begun ==
  \A n \in Tests :
    exec[n] # "none" => seqOf[n] # 0 /\ seqOf[n] <= last[Plan[n].init]

\* A slot is empty or holds the verdict on a test of the agent it belongs to.
Slots ==
  \A a \in Agents :
    /\ slot[a].seq <= last[a]
    /\ slot[a].status \in Final =>
         /\ slot[a].test \in Tests
         /\ slot[a].seq = seqOf[slot[a].test]
         /\ slot[a].seq # 0
         /\ Plan[slot[a].test].init = a
         /\ exec[slot[a].test] = slot[a].status
    /\ slot[a].status = "PENDING" => slot[a].seq = 0

\* Between wait_for_results and get_result the slot stays what it was.
Fetched ==
  pc = "fetch" => slot[Plan[next].init].seq = seq

Recorded == \A r \in stored : r.test < next /\ exec[r.test] = r.status

IInv == /\ TypeOK   /\ Numbering /\ Commands /\ Places
        /\ Begun    /\ Slots     /\ Fetched  /\ Recorded
=============================================================================
