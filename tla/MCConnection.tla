---------------------------- MODULE MCConnection ----------------------------
(* The instance of Connection for TLC; the constants are in the cfg files. *)
EXTENDS Connection
=============================================================================
