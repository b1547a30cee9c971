CONSTANTS
    TraceSize = 3
    RtiCycles = 2
    MaxCycles = 10
SPECIFICATION Spec
INVARIANTS TypeOK OneShot TraceIsContiguous FullIsComplete
CHECK_DEADLOCK FALSE
