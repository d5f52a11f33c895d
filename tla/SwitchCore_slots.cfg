CONSTANTS
    a = a
    b = b
    c = c
    d = d
    e = e
    Router = Router
    None = None
    Foreign = Foreign
    Iface = {a, b, c, d, e}
    Interfaces = 5
    MaxCount = 4
SPECIFICATION Spec
INVARIANTS TypeOK SlotsAgree RouterIsAtOne
PROPERTY ImplementsSwitchSlots
SYMMETRY Symmetry
\* Once MaxCount interfaces were added and all of them freed nothing is left to do.
CHECK_DEADLOCK FALSE
