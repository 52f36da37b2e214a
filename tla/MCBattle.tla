------------------------------ MODULE MCBattle ------------------------------
EXTENDS BattleRoom, TLC

CONSTANTS p1, p2, p3

Symmetry == Permutations(Players)
=============================================================================
