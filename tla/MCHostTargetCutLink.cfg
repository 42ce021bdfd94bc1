SPECIFICATION Spec
CONSTANTS
    Cmds = {c1}
    Kinds = {"docker"}
    Profiles = {"full", "minimal"}
    Plugged = {"full"}
    None = None
    MaxStarts = 2
    MaxFaults = 1
    MaxEvents = 1
CHECK_DEADLOCK FALSE
PROPERTIES
    RerunKeepsChoice
