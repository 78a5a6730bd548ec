------------------------ MODULE MCBillingCacheStore ------------------------
(***************************************************************************)
(* Instances of BillingCacheStore for TLC.                                 *)
(***************************************************************************)
EXTENDS BillingCacheStore, TLC

\* The processes are interchangeable.
ProcSymmetry == Permutations(Proc)
=============================================================================
