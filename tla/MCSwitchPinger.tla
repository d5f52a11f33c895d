--------------------------- MODULE MCSwitchPinger ---------------------------
EXTENDS SwitchPinger

CONSTANTS d, e

\* Two pings that differ in nothing, one to another label, one with other data.
MCPing == [label : {1}, data : {d}, nr : {1, 2}]
    \union {[label |-> 2, data |-> d, nr |-> 1], [label |-> 1, data |-> e, nr |-> 1]}

=============================================================================
