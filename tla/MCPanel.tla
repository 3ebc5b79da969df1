------------------------------ MODULE MCPanel ------------------------------
(***************************************************************************)
(* Constant values for the run of Panel.                                   *)
(***************************************************************************)
EXTENDS Panel

CONSTANTS g1, g2

Fact(chat, priority, conf) ==
  [chat |-> chat, priority |-> priority, conf |-> conf]

MCFacts == {Fact(g1, "high", 10), Fact(g2, NoPriority, 7)}
=============================================================================
