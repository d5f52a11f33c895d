CONSTANTS
    a1 = a1
    a2 = a2
    a3 = a3
    a4 = a4
    k1 = k1
    k2 = k2
    Addr = {a1, a2, a3, a4}
    KeyAt <- MCKeyAt
    Configured = {a2}
    Beaconing = {a2, a4}
    Slot = {2, 3}
    None = None
    PingAfter = 0
    UnresponsiveAfter = 1
    ForgetAfter = 2
    PingSkip = 2
    MaxHandle = 4
SPECIFICATION Spec
INVARIANTS TypeOK LabelIsSlot MapFindsPeer StrangersLeaveNothing
PROPERTIES SilentTransientGoes SilentIsUnresponsive
