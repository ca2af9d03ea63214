-------------------------- MODULE MCPaymentFunding --------------------------
(* Two requests under one key, of which the second user pays a wrong amount, *)
(* two webhook handlers and a reaper job.                                   *)
EXTENDS PaymentFunding

CONSTANTS p1, p2, k1, w, h1, h2, r1

MCKey == [p \in Payments |-> k1]
MCTarget == [p \in Payments |-> w]
MCAsked == [p \in Payments |-> 2]
MCPaid == [p \in Payments |-> IF p = p2 THEN 1 ELSE 2]
=============================================================================
