----------------------------- MODULE MCRealtime -----------------------------
(* Two gateways; a player may come in through either. The client of the     *)
(* first has the id of one of the two clients of the second.               *)
(* Two compute threads: rooms 0 (never created) and 2 on one, 1 on the     *)
(* other.                                                                  *)
EXTENDS Realtime
CONSTANTS g1, g2, A, B, x1, x2, x3, c1, c2
HomeOf  == [g \in Conns |-> IF g = g1 THEN A ELSE B]
Homes   == [x \in Clients |-> IF x = x1 THEN A ELSE B]
Numbers == [x \in Clients |-> IF x = x3 THEN c2 ELSE c1]
Packets == [g \in Conns |-> IF g = g1 THEN 2 ELSE 1]
Shapes  == [g \in Conns |->
              {<<"enter", 2>>, <<"reconnect", 1>>} \cup
              IF g = g1 THEN {<<"enter", 0>>, <<"leave", 1>>, <<"input", 2>>}
                        ELSE {<<"play", 0>>, <<"bare", 1>>}]
=============================================================================
