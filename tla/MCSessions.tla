----------------------------- MODULE MCSessions -----------------------------
(* Small instances of Sessions; tabs are interchangeable.                  *)
EXTENDS Sessions, TLC

Symmetry == Permutations(Tab)
=============================================================================
