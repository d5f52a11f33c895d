CONSTANTS
    Label = {1, 2}
    d = d
    e = e
    Data = {d, e}
    Ping <- MCPing
    None = None
    MaxConcurrentPings = 2
SPECIFICATION Spec
INVARIANTS TypeOK WaitsOnce
PROPERTIES ImplementsContract EveryPingCompletes
\* Once every ping was made and has completed, and no packet is under way, nothing is left.
CHECK_DEADLOCK FALSE
