----------------------------- MODULE HarnessInv -----------------------------
(***************************************************************************)
(* An inductive invariant of Harness.                                      *)
(***************************************************************************)
EXTENDS Harness

ShapingSteps == {"wait", "tc", "rules", "signal"}
UpSteps      == {"network", "start"} \cup ShapingSteps
DownSteps    == {"stop", "grace", "remove", "agents", "disconnect", "clear"}
LoopSteps    == {"wait", "rules", "agents"}

TypeControl ==
  /\ step \in UpSteps \cup DownSteps \cup {"shell", "collect", "copy"}
  /\ at \in Agents /\ (step \notin LoopSteps => at = 0)
  /\ ctl \in {"none", "spawn", "rendezvous", "shaping", "tests", "writing", "more", "exited"}
  /\ next \in Agents /\ stopping \in BOOLEAN /\ took \in Nat
  /\ inOutput \in BOOLEAN /\ session \in Nat /\ troubled \in BOOLEAN

TypeCluster ==
  /\ network \in BOOLEAN
  /\ box \in [Agents -> {"none", "running", "exited"}]
  /\ owner \in [Agents -> Nat]
  /\ shaped \subseteq Agents /\ warned \subseteq Agents
  /\ stuck \subseteq Agents \cup {ControllerBox}
  /\ signal \in Nat /\ kept \subseteq 1 .. session
  /\ matrix \in [of : Nat, state : {"none", "open", "closed"}, shaped : BOOLEAN]

----------------------------------------------------------------------------
\* A signal is of this session or one that was kept; as long as an up has not
\* written its own there is no other, and nobody has seen it.
SignalOwn ==
  /\ signal \in {0, session} \cup kept
  /\ step \in UpSteps => signal \in {0} \cup kept
  /\ took \in {0, session} \cup kept
  /\ step \in ShapingSteps => took # session /\ session \notin kept
  /\ Live \/ step \in ShapingSteps => session # 0

\* The containers the controller has come past are its own.
BoxesOwn ==
  Live => \A a \in Agents :
    box[a] # "none" /\ (ctl = "spawn" => a < next) => owner[a] = session

----------------------------------------------------------------------------
Made(a)     == box[a] # "none"
Promised(a) == box[a] = "running" => a \in shaped \cup warned

\* How far apply_network_shaping has come
ShapingLoops ==
  /\ step = "wait" => \A a \in Agents : a < at => Made(a)
  /\ step \in {"tc", "rules", "signal"} => \A a \in Agents : Made(a)
  /\ step = "rules" => \A a \in Agents : a < at => Promised(a)
  /\ step = "signal" => \A a \in Agents : Promised(a)

\* What a signal stands for, as long as its controller is looked after
SignalTrue ==
  Live /\ (signal = session \/ took = session) /\ ControllerBox \notin stuck =>
    \A a \in Agents : Made(a) /\ Promised(a)

----------------------------------------------------------------------------
\* How far down has come; without a controller nothing comes back.
DownLoops ==
  ControllerBox \notin stuck =>
    /\ step \in {"agents", "disconnect", "clear"} => ctl = "none"
    /\ step = "agents" => \A a \in Agents : a < at /\ Made(a) => a \in stuck
    /\ step \in {"disconnect", "clear"} => \A a \in Agents : Made(a) => a \in stuck

----------------------------------------------------------------------------
\* Only a configuration with shaping has to do with signals.
OnlyIfEnabled ==
  step \in ShapingSteps \/ ctl = "shaping" \/ took # 0 => Enabled

\* Trouble is noticed: nobody stops a controller, and no controller leaves its
\* up or its collect, without it.
TroubleNoticed ==
  /\ ctl = "none" => ~stopping
  /\ step \in DownSteps /\ Live => troubled
  /\ stopping => troubled
  /\ step \in ShapingSteps /\ ~Live => troubled
  /\ step = "copy" /\ Live => troubled

Result(s) == [of |-> session, state |-> s, shaped |-> Enabled]

\* What holds at the stages of a session without trouble
SmoothStages ==
  ~troubled =>
    /\ signal \in {0, session} /\ (step \in UpSteps => signal = 0)
    /\ step = "rules" => \A a \in Agents : a < at => a \in shaped
    /\ step = "signal" \/ (Live /\ ctl # "more" /\ (signal # 0 \/ took # 0)) =>
         shaped = Agents
    /\ Testing /\ Enabled => took = session
    /\ inOutput /\ N >= 2 =>
         /\ ctl = "writing" => matrix = Result("open")
         /\ ctl \in {"more", "exited"} => matrix = Result("closed")

----------------------------------------------------------------------------
TypeHarness == TypeControl /\ TypeCluster

\* Signals stand for complete or reported rules.
PromiseInv == SignalOwn /\ BoxesOwn /\ ShapingLoops /\ SignalTrue /\ DownLoops

\* What goes wrong is noticed.
TroubleInv == OnlyIfEnabled /\ TroubleNoticed /\ SmoothStages

\* What holds in every state of a cluster's life: HInv is inductive.
HInv == TypeHarness /\ PromiseInv /\ TroubleInv
=============================================================================
