------------------------- MODULE MCEvidenceExecutor -------------------------
(***************************************************************************)
(* Finite instances of EvidenceExecutor.                                   *)
(***************************************************************************)
EXTENDS EvidenceExecutor

CONSTANTS MaxRequests, CostCap, GraphCap

MCCapability == {CostCap, GraphCap}

\* Every plan of up to MaxRequests requests over two capabilities.
MCPlans == UNION {[1..n -> MCCapability] : n \in 0..MaxRequests}
=============================================================================
