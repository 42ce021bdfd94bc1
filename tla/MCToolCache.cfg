SPECIFICATION Spec
CONSTANTS
    Procs = {p1, p2}
    Tools <- MCTools
    Checked <- MCChecked
    Raw <- MCRaw
    MaxRelease = 2
    MaxFaults = 1
SYMMETRY MCSymmetry
INVARIANTS
    TypeOK
    InstalledIsWhole
    AloneIsVerified
    UndisturbedSucceeds
PROPERTIES
    VerifiedIsKept
