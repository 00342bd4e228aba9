--------------------------- MODULE MCLoginLimiter ---------------------------
(* Small instances of LoginLimiter. *)
EXTENDS LoginLimiter, TLC

Symmetry == Permutations(Account) \cup Permutations(Ip) \cup Permutations(Attempt)
=============================================================================
