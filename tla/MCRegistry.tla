----------------------------- MODULE MCRegistry -----------------------------
EXTENDS Registry

CONSTANTS c1, biz, n1

\* Every node is a biz node.
MCTypeOf == [n \in Nodes |-> biz]
=============================================================================
