------------------------------- MODULE Barrier -------------------------------
(***************************************************************************)
(* What the rendezvous is for: a barrier of two doors.  The first opens    *)
(* when all have arrived and lets each of them go and meet the others; the *)
(* second opens when all have reported back.  Either may fail to open.     *)
(***************************************************************************)
CONSTANT P      \* the participants

VARIABLES
  arrived,      \* those who have come
  met,          \* those who have met all the others
  gate          \* the state of the doors

bvars == <<arrived, met, gate>>

BInit == arrived = {} /\ met = {} /\ gate = "closed"

Arrive(a) ==
  /\ gate = "closed" /\ a \notin arrived
  /\ arrived' = arrived \cup {a}
  /\ UNCHANGED <<met, gate>>

OpenFirst ==
  /\ gate = "closed" /\ arrived = P
  /\ gate' = "first"
  /\ UNCHANGED <<arrived, met>>

Meet(a) ==
  /\ gate = "first"
  /\ met' = met \cup {a}
  /\ UNCHANGED <<arrived, gate>>

OpenSecond ==
  /\ gate = "first" /\ met = P
  /\ gate' = "second"
  /\ UNCHANGED <<arrived, met>>

GiveUpDoors ==
  /\ gate # "given up" /\ gate' = "given up"
  /\ UNCHANGED <<arrived, met>>

BNext ==
  \/ \E a \in P : Arrive(a) \/ Meet(a)
  \/ OpenFirst
  \/ OpenSecond
  \/ GiveUpDoors

BSpec == BInit /\ [][BNext]_bvars
=============================================================================
