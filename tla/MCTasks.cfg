CONSTANTS
    Task = {0, 1}
    Frames = {"full", "short"}
    MaxIntNestDepth = 3
    MaxNesting = 4
SPECIFICATION Spec
INVARIANTS TypeOK TaskIsRestored StackIsGuests HandlerIsInIrq NestingUnwinds
