SPECIFICATION Spec
CONSTANTS
    Cmds = {c1, c2}
    None = None
    MaxBuilds = 2
    MaxRuns = 3
    MaxFaults = 1
SYMMETRY MCSymmetry
INVARIANTS
    TypeOK
PROPERTIES
    EnsureKeepsContainer
    RefreshRunsItsBuild
    ReplacedByAnother
    DownLeavesNothing
