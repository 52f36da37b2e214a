------------------------------ MODULE MCEngine ------------------------------
(***************************************************************************)
(* Instances of MatchEngine for TLC.                                       *)
(***************************************************************************)
EXTENDS MatchEngine, TLC

\* Ratings on both sides of a bucket boundary, out of each other's reach until
\* one waits; the widest search around the lower one begins below 0.
Ratings == {290, 581}

\* No action tells players apart.
Players == Permutations(Ids)
=============================================================================
