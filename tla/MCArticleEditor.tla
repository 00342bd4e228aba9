--------------------------- MODULE MCArticleEditor ---------------------------
(* Small instances of ArticleEditor.                                       *)
EXTENDS ArticleEditor, TLC

Symmetry == Permutations(Article) \cup Permutations(Handler) \cup Permutations(Address)
=============================================================================
