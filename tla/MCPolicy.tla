------------------------------ MODULE MCPolicy ------------------------------
(***************************************************************************)
(* The decisions with two confidences, one on each side of the threshold.  *)
(***************************************************************************)
EXTENDS Decisions

MCTenths == {6, 7}
=============================================================================
