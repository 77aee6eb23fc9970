------------------------------ MODULE MCLedger ------------------------------
(***************************************************************************)
(* The ledger on its own: one chat with two messages and two proposals.    *)
(***************************************************************************)
EXTENDS ApprovalLedger, TLC

Symmetry == Permutations(MessageIds) \cup Permutations(Approvals)
=============================================================================
