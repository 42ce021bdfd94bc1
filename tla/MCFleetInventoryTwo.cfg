SPECIFICATION Spec
CONSTANTS
    Cmds = {c1, c2}
    DevHosts <- MCDevHosts
    FleetHosts <- MCLtsHosts
    LtsHosts <- MCLtsHosts
    UserHosts <- MCUserHosts
    FleetNamed <- MCUserHosts
    None = None
    Moving = {}
SYMMETRY MCSymmetry
PROPERTIES
    PruneTouchesFleetOnly
