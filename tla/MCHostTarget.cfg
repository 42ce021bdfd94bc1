SPECIFICATION Spec
CONSTANTS
    Cmds = {c1, c2}
    Kinds = {"docker"}
    Profiles = {"full", "minimal"}
    Plugged = {"full"}
    None = None
    MaxStarts = 2
    MaxFaults = 1
    MaxEvents = 1
SYMMETRY MCSymmetry
CHECK_DEADLOCK FALSE
INVARIANTS
    TypeOK
PROPERTIES
    ReachableIsProved
    ConvergedIsProved
    OwnTmuxKept
    ChoiceKept
    OwnConfigKept
