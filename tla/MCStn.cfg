SPECIFICATION Spec
CONSTANTS
    Routes <- MCRoutes
    Timeouts <- MCTimeouts
    FilterMemory = 2
    MaxUnread = 2
INVARIANTS
    RouteAsReported
    OpenIsWhole
