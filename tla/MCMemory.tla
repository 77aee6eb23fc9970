------------------------------ MODULE MCMemory ------------------------------
(***************************************************************************)
(* One person; a summary and one fact, so that a section is replaced as a  *)
(* whole while another one is not; two extractions and two suggestions.    *)
(***************************************************************************)
EXTENDS ContactMemory, TLC

CONSTANTS summary, city

MCKeys == {summary, city}
MCSection == [k \in MCKeys |-> IF k = summary THEN "summary" ELSE "facts"]

Symmetry == Permutations(Contacts) \cup Permutations(Extractions)
=============================================================================
