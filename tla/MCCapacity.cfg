SPECIFICATION Spec
CONSTANTS
    Runs = {r1, r2}
    Types <- MCTypes
    Zones <- MCZones
    Changes <- MCChanges
    OnDemand <- MCOnDemand
    Vcpu <- MCVcpu
    Offered <- MCOffered
    Order <- MCOrder
    Spread <- MCSpread
    Flags <- MCFlags
    Default <- MCDefault
    MinSamples = 1
    Buffer = 1
    FreshTtl = 0
    CatalogTtl = 1
    MaxDelay = 1
    MaxTime = 2
    None = None
SYMMETRY MCSymmetry
CHECK_DEADLOCK FALSE
INVARIANTS
    TypeOK
    HistoryComplete
    SelectionMeetsRequest
PROPERTIES
    LastIsASuccess
