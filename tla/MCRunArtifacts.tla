--------------------------- MODULE MCRunArtifacts ---------------------------
(***************************************************************************)
(* An instance of RunArtifacts for TLC.                                    *)
(***************************************************************************)
EXTENDS RunArtifacts

CONSTANTS r1, r2, r3, k1, k2, f1, f2, hollow

Runs == {r1, r2, r3}

Scope(k, f) == [target |-> k, filter |-> f]

\* The runs of analyze are narrowed differently. If they have one target, the run of the
\* evaluation has the other; if they have two, it is asked what one of them is.
SomeScopes ==
  {s \in [Runs -> {Scope(k, f) : k \in {k1, k2}, f \in {f1, f2}}] :
     /\ s[r1].filter /= s[r2].filter
     /\ IF s[r1].target = s[r2].target THEN s[r3].target /= s[r1].target
        ELSE s[r3] \in {s[r1], s[r2]}}

Symmetry == Permutations({r1, r2}) \union Permutations({k1, k2}) \union Permutations({f1, f2})
=============================================================================
