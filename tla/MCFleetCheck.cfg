SPECIFICATION Spec
CONSTANTS
    Hosts <- MCHosts
    Os <- MCOs
    Logs <- MCLogs
INVARIANTS
    TypeOK
    ExitZeroIsProved
    NoOverlappingInstalls
PROPERTIES
    CommandEnds
    ImplementsVerdict
