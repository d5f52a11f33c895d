CONSTANTS
    alice = alice
    bob = bob
    pass = pass
    hi = hi
    NoPassword = NoPassword
    NoNode = NoNode
    Empty = Empty
    Node = {alice, bob}
    Passwords = {pass}
    Payload = {hi}
    GivenKey = {alice}
    RequireAuth = {bob}
    SetAuth <- PeeringSetAuth
    Users <- PeeringUsers
    NonceMod = 9
    MaxTemp = 2
    MaxNet = 7
    MaxFaults = 2
    Window = 1
    Width = 4
SPECIFICATION Spec
INVARIANTS HerTempKeyIsTemporary TypeOK DataOnce NonceOnce RolesOpposed SessionKeyIsFinal SessionHasUser DueDataAccepted
