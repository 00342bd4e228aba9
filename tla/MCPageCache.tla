---------------------------- MODULE MCPageCache ----------------------------
(* Small instances of PageCache; requests are interchangeable.             *)
EXTENDS PageCache, TLC

Symmetry == Permutations(Reader) \cup Permutations(Writer)
=============================================================================
