----------------------------- MODULE MCFanOut -----------------------------
(***************************************************************************)
(* An instance of FanOut for TLC: three users in batches of two, of whom   *)
(* one changes.                                                            *)
(***************************************************************************)
EXTENDS FanOut

MCUsers == 1..3
=============================================================================
