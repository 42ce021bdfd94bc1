SPECIFICATION Spec
CONSTANTS
    Cmds = {c1, c2}
    Sources = {s1}
    None = None
    MaxStarts = 3
    MaxFaults = 1
SYMMETRY MCSymmetry
CHECK_DEADLOCK FALSE
INVARIANTS
    TypeOK
PROPERTIES
    OwnSecretsKept
    BuiltFromItsCheckout
    EnterIsFresh
    ValidatedIsWhole
