--------------------------- MODULE MCTestSession ---------------------------
(***************************************************************************)
(* Instances of TestSession for TLC: the plans its runs go through.        *)
(***************************************************************************)
EXTENDS TestSessionTimely

PingPong(i, r, n)  == [kind |-> "PING_PONG", init |-> i, resp |-> r, iters |-> n,
                       fits |-> TRUE]
Bandwidth(i, r, n) == [kind |-> "BANDWIDTH", init |-> i, resp |-> r, iters |-> n,
                       fits |-> TRUE]
TooBig(t) == [t EXCEPT !.fits = FALSE]

\* Every pair of three agents, both kinds of test, tests refused by either
\* side's size check, and a test of zero iterations.
PlanAllPairs ==
  <<PingPong(0, 1, 2), PingPong(0, 2, 2), PingPong(1, 2, 2), Bandwidth(1, 0, 1),
    TooBig(PingPong(0, 1, 1)), TooBig(Bandwidth(0, 1, 1)), PingPong(0, 1, 0)>>

\* The same pair in both directions and twice in one, so that late senders,
\* late responders and late results all meet a later test of their own pair; the
\* last one without a round, so that its result comes at once.
PlanSamePair == <<Bandwidth(1, 0, 1), PingPong(0, 1, 1), PingPong(0, 1, 0)>>

\* The same pair twice and an initiator that was a responder before.
PlanChain == <<PingPong(0, 1, 1), PingPong(0, 1, 1), PingPong(1, 2, 1)>>
=============================================================================
