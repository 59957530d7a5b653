---------------------------- MODULE MCWilderness ----------------------------
(* An instance of Wilderness for TLC: a pool of rooms numbered from one, one *)
(* room at a place of its own that a builder made, two characters and two    *)
(* more places, which are interchangeable.                                   *)
EXTENDS Wilderness, TLC

CONSTANTS c1, c2, x, y, inn, harbour

MCPlaceOf == inn :> harbour

Alike == Permutations({c1, c2}) \cup Permutations({x, y})

=============================================================================
