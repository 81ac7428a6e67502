--------------------------- MODULE MCProfileLimits ---------------------------
(* Instances of ProfileLimits for TLC: one user, since users share nothing *)
(* but workers, who lets the address be changed twice and the rest once.   *)
EXTENDS ProfileLimits, TLC

CONSTANT u

MCUsers == {u}
MCLimit == [k \in Kinds |-> IF k = "address" THEN 2 ELSE 1]
Symmetry == Permutations(Workers)
=============================================================================
