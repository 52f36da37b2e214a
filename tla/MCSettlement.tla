---------------------------- MODULE MCSettlement ----------------------------
(* Instances of MatchSettlement for TLC. *)
EXTENDS MatchSettlement
=============================================================================
