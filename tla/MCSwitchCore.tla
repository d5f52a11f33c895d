---------------------------- MODULE MCSwitchCore ----------------------------
EXTENDS SwitchCore, TLC

CONSTANTS a, b, c, d, e

\* Peers are interchangeable.
Symmetry == Permutations(Iface)

=============================================================================
