------------------------------ MODULE MCFights ------------------------------
(* Instances of Fights for TLC: two mobiles, who roll the same initiative    *)
(* and of whom spells make one or the other the quicker, and a player with   *)
(* a higher one.                                                             *)
EXTENDS Fights

CONSTANTS m1, m2, p

MCDexterities == {[c \in Chars |-> IF c = q THEN 1 ELSE 0] : q \in Mobs}

MCInitiatives == [c \in Chars |-> IF c = p THEN {2} ELSE {1}]

Fighting(kinds) == [fighters |-> Chars, kinds |-> kinds]

OnlyFights == {Fighting({})}

\* Together they would be too many states.
FightsAndReferences ==
  OnlyFights \cup {[fighters |-> {}, kinds |-> {"guarding", "hunting"}]}

Blows == {Fighting({"last_attacker"})}
=============================================================================
