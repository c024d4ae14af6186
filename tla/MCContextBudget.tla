-------------------------- MODULE MCContextBudget --------------------------
(* A small instance of ContextBudget: one file per tier, a second path with  *)
(* the anchor's name, two declaration files, and sizes in the proportions of *)
(* the code's (excerpts shrink below the line that announces them).          *)
EXTENDS ContextBudget

CONSTANTS anchor, copy, plan, near, manifest

MCBase == [f \in Files |-> IF f = copy THEN anchor ELSE f]
MCPreference == [f \in Files |-> IF f = plan THEN 1 ELSE 2]
MCCuts == <<60, 20, 8, 3, 1>>
=============================================================================
