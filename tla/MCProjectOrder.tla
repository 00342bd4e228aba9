--------------------------- MODULE MCProjectOrder ---------------------------
(* Small instances of ProjectOrder.  Tabs and projects are interchangeable. *)
EXTENDS ProjectOrder, TLC

Symmetry == Permutations(Project) \cup Permutations(Client)
=============================================================================
