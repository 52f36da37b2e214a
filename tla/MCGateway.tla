----------------------------- MODULE MCGateway -----------------------------
(* Instances of Gateway for TLC. *)
EXTENDS Gateway

CONSTANTS c1, c2, p1, p2

Ask(c, n, seqs, players) == [conn : {c}, nth : {n}, seq : seqs, player : players]

\* c1 asks for p2 and then, under the same number or another, for p1; c2 asks
\* for p1.
TwoAndOne == Ask(c1, 1, {1}, {p2}) \cup Ask(c1, 2, {1, 2}, {p1}) \cup Ask(c2, 1, {1}, {p1})
=============================================================================
