--------------------------- MODULE MCVerification ---------------------------
(***************************************************************************)
(* Instances of Verification for TLC.                                      *)
(***************************************************************************)
EXTENDS Verification, TLC

CONSTANTS f, a, b, c

MCUsers == {f, a, b}
MCWiderUsers == {f, a, b, c}
MCRegistrants == {f}
MCTwoRegistrants == {f, a}
MCIncomplete == {b}
MCLooseMinDiff == -2

Plain == Users \ (Registrants \cup Incomplete \cup Edited)
Symmetry == Permutations(Plain) \cup Permutations(Workers)
=============================================================================
