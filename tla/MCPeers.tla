------------------------------ MODULE MCPeers ------------------------------
EXTENDS Peers

CONSTANTS a1, a2, a3, a4, k1, k2

\* One node is reached at three addresses, another at one.
MCKeyAt == [a \in Addr |-> IF a = a4 THEN k2 ELSE k1]

=============================================================================
