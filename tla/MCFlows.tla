------------------------------ MODULE MCFlows ------------------------------
(***************************************************************************)
(* Two flows of which the second is an edition of the first: one asks an   *)
(* option and a text, the other hands the chat over at once.               *)
(***************************************************************************)
EXTENDS FlowSessions

CONSTANTS f1, f2

MCFlowIds == {f1, f2}
MCSteps == [f \in MCFlowIds |-> IF f = f1 THEN <<"CHOICE", "TEXT">> ELSE <<"HANDOFF">>]
MCSupersedes == {<<f2, f1>>}
=============================================================================
