CONSTANTS
    a = a
    b = b
    c = c
    d = d
    e = e
    Router = Router
    None = None
    Foreign = Foreign
    Iface = {a, b, c, d}
    Interfaces = 4
    MaxCount = 6
SPECIFICATION Spec
INVARIANT AddStaysInArray
SYMMETRY Symmetry
