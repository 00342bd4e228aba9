----------------------------- MODULE MCArticles -----------------------------
(* Small instances of Articles.                                            *)
EXTENDS Articles, TLC

Symmetry == Permutations(Article) \cup Permutations(Handler) \cup Permutations(Address)
=============================================================================
