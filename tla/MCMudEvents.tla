------------------------------ MODULE MCMudEvents -----------------------------
(* MudEvents on small instances. *)
EXTENDS MudEvents

EventSymmetry == Permutations(Events) \cup Permutations(Ids) \cup Permutations(Chars)
===============================================================================
