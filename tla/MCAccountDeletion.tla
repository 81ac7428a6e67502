------------------------- MODULE MCAccountDeletion -------------------------
(***************************************************************************)
(* An instance of AccountDeletion for TLC: three accounts, the first       *)
(* malformed.                                                              *)
(***************************************************************************)
EXTENDS AccountDeletion

MCUsers == 1..3
MCMalformed == {1}

\* Verifications between the other two, in both directions.
MCWrites == {<<2, 3>>, <<3, 2>>}
=============================================================================
