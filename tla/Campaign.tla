------------------------------ MODULE Campaign ------------------------------
(***************************************************************************)
(* What the controller promises to whoever reads its result files: the     *)
(* tests are gone through once, in order; the agents may be late; and an   *)
(* entry of the log is the outcome of one single execution of that very    *)
(* test, begun after the test's turn had come and never begun again.       *)
(***************************************************************************)
EXTENDS Integers

CONSTANT T        \* number of tests, a natural number

VARIABLES
  turn,  \* the test whose turn it is
  exec,  \* what became of each test at the agent that measures
  log    \* the recorded outcomes

cvars == <<turn, exec, log>>

Verdict == {"COMPLETE", "ERROR"}

CInit == turn = 1 /\ exec = [n \in 1 .. T |-> "none"] /\ log = {}

\* The measuring agent begins a test whose turn has come, however late.
Begin(n) ==
  /\ n <= turn /\ exec[n] = "none"
  /\ exec' = [exec EXCEPT ![n] = "running"]
  /\ UNCHANGED <<turn, log>>

\* It finds that it cannot run the test at all.
Reject(n) ==
  /\ n <= turn /\ exec[n] = "none"
  /\ exec' = [exec EXCEPT ![n] = "ERROR"]
  /\ UNCHANGED <<turn, log>>

End(n, v) ==
  /\ exec[n] = "running"
  /\ exec' = [exec EXCEPT ![n] = v]
  /\ UNCHANGED <<turn, log>>

\* The outcome of the test whose turn it is goes on record.
Record ==
  /\ turn <= T /\ exec[turn] \in Verdict
  /\ log' = log \cup {[test |-> turn, status |-> exec[turn]]}
  /\ turn' = turn + 1
  /\ UNCHANGED exec

\* The test is passed over: not issued, or waited for in vain.
PassOver ==
  /\ turn <= T
  /\ turn' = turn + 1
  /\ UNCHANGED <<exec, log>>

CNext ==
  \/ \E n \in 1 .. T : Begin(n) \/ Reject(n) \/ \E v \in Verdict : End(n, v)
  \/ Record
  \/ PassOver

CSpec == CInit /\ [][CNext]_cvars
=============================================================================
