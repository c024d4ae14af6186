--------------------------- MODULE MCCacheLayers ---------------------------
(* Small instances of CacheLayers: two projects with two contents.  *)
EXTENDS CacheLayers, TLC

CONSTANTS A, B, p, q

Symmetry == Permutations(Questions) \cup Permutations(Roots)
=============================================================================
