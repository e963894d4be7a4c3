---------------------------- MODULE RendezvousInv ----------------------------
(***************************************************************************)
(* The inductive invariant of the rendezvous: who knows what, and since    *)
(* when.  Nobody has cause to revise what he knows: flags are only set,    *)
(* and an agent's peers are complete before it says so.                    *)
(***************************************************************************)
EXTENDS Rendezvous

\* A slot is written when the agent has passed its start-up; its peers are
\* unknown until it has asked for them.
Progress(a) ==
  /\ mode[a] \in {"absent", "forked", "start", "register"} => a \notin registered
  /\ mode[a] \notin {"report", "loop", "gone"} => peers[a] = {}
  /\ mode[a] \in {"report", "loop"} => peers[a] = Agents

\* The agents are spawned in order.
Spawning == pc = "spawn" => \A a \in Agents : a >= at => mode[a] = "absent"

\* The first door: beyond registration, and for whoever was called, all slots
\* are populated; nobody is called before.
FirstDoor ==
  /\ pc \in {"call", "discover", "shaping", "session"} => registered = Agents
  /\ \A a \in Agents :
       a \in called \/ mode[a] \in {"discover", "report", "loop"} =>
         registered = Agents /\ pc \notin {"spawn", "register"}

\* The second door: a report, unread or counted, is true.
SecondDoor ==
  /\ \A a \in Agents : Discovered(a) => peers[a] = Agents
  /\ \A a \in done : peers[a] = Agents /\ a \in loaded
  /\ pc \in {"shaping", "session"} => done = Agents

\* Whoever has reported is in the command loop, or has left it for a reason.
Present(a) ==
  a \in done \/ Discovered(a) =>
    mode[a] = "loop" \/ (mode[a] = "gone" /\ a \in signalled \cup lapsed)

\* RInv is inductive: the rendezvous keeps it by every step, so that
\* SessionConnected, SessionPopulated, CalledFindAll and the refinement of
\* Barrier follow.
RInv ==
  /\ TypeOK
  /\ \A a \in Agents : Progress(a)
  /\ Spawning
  /\ FirstDoor
  /\ SecondDoor
  /\ \A a \in Agents : Present(a)
=============================================================================
