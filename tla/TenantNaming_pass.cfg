CONSTANTS
    MaxNameLen = 3
SPECIFICATION Spec
INVARIANTS TypeOK RoutingComplete
