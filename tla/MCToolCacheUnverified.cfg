SPECIFICATION Spec
CONSTANTS
    Procs = {p1, p2}
    Tools <- MCTools
    Checked <- MCChecked
    Raw <- MCRaw
    MaxRelease = 1
    MaxFaults = 0
SYMMETRY MCSymmetry
INVARIANTS
    RecordedIsPublished
