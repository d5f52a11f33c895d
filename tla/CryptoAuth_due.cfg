CONSTANTS
    alice = alice
    bob = bob
    pass = pass
    hi = hi
    NoPassword = NoPassword
    NoNode = NoNode
    Empty = Empty
    Node = {alice, bob}
    Passwords = {pass}
    Payload = {hi}
    GivenKey = {alice}
    RequireAuth = {}
    SetAuth <- OpenSetAuth
    Users <- OpenUsers
    NonceMod = 9
    MaxTemp = 2
    MaxNet = 7
    MaxFaults = 1
    Window = 1
    Width = 4
SPECIFICATION Spec
INVARIANT DueDataAccepted
