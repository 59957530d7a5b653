-------------------------------- MODULE MCLists -------------------------------
(* Lists on small instances. *)
EXTENDS Lists

\* Containers, nodes and values are interchangeable.
ListSymmetry == Permutations(ListIds) \cup Permutations(Nodes) \cup Permutations(Values)
===============================================================================
