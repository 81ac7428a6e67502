--------------------------- MODULE MCFeatureVotes ---------------------------
(***************************************************************************)
(* Instances of FeatureVotes for TLC.                                      *)
(***************************************************************************)
EXTENDS FeatureVotes, TLC
=============================================================================
