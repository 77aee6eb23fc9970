----------------------------- MODULE MCPipeline -----------------------------
(***************************************************************************)
(* The pipeline on small instances.  Ids of messages, replies and jobs are *)
(* model values; the confidences straddle the threshold of the policy.     *)
(***************************************************************************)
EXTENDS SendPipeline, TLC

MCTenths == {6, 7}

Symmetry == Permutations(Approvals) \cup Permutations(Receipts) \cup Permutations(Clicks)
=============================================================================
