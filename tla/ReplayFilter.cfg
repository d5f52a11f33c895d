CONSTANTS
    Window = 20
    Width = 32
    Nonces <- EdgeNonces
SPECIFICATION Spec
INVARIANTS TypeOK WindowEndsAtHighest BitfieldIsExact
PROPERTIES NoNonceTwice ImplementsWindow
