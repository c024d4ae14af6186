---------------------------- MODULE MCAutoIndex ----------------------------
(* AutoIndex on small instances. *)
EXTENDS AutoIndex

CONSTANTS A, B, f, g

=============================================================================
