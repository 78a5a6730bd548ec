------------------------ MODULE MCBillingProbeCache ------------------------
(***************************************************************************)
(* Instances of BillingProbeCache for TLC.                                 *)
(***************************************************************************)
EXTENDS BillingProbeCache, TLC

CONSTANTS w1, w2, w3, p1, p2

\* Two workers of one process and one of another.
TwoProcesses == [w \in {w1, w2, w3} |-> IF w = w3 THEN p2 ELSE p1]

\* Subscriptions, milliseconds and the workers of one process are interchangeable.
Symmetry ==
  Permutations(Sub) \union Permutations(Millisecond) \union Permutations({w1, w2})
=============================================================================
