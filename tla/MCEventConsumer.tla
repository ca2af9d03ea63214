--------------------------- MODULE MCEventConsumer ---------------------------
(* Instances of EventConsumer.  Fewer retry topics than five: with three,    *)
(* two process and the last one never does.                                 *)
EXTENDS EventConsumerInvariant, TLC

CONSTANTS e1, e2, w1, w2

Symmetry == Permutations(Workers)
Anything ==
    {{"crash", "rebalance", "commit", "database", "broker", "slow"},
     {"rebalance", "commit", "slow"}}
NobodyFenced == {{"broker", "slow"}, {"crash", "database", "slow"}}
=============================================================================
