---------------------------- MODULE MCToolBudget ----------------------------
(* Instances of ToolBudget for TLC. *)
EXTENDS ToolBudget

CONSTANTS c1, c2, c3

ThreeCalls == {c1, c2, c3}
OneCall    == {c1}
Both == BOOLEAN
No   == {FALSE}
=============================================================================
