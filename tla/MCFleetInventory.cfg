SPECIFICATION Spec
CONSTANTS
    Cmds = {c1}
    DevHosts <- MCDevHosts
    FleetHosts <- MCFleetHosts
    LtsHosts <- MCLtsHosts
    UserHosts <- MCUserHosts
    FleetNamed <- MCUserHosts
    None = None
    Moving <- MCLtsHosts
INVARIANTS
    TypeOK
    UserTargetsKept
    FleetInSync
PROPERTIES
    PruneTouchesFleetOnly
    NoSilentDrop
    ImplementsInventory
