CONSTANTS
    Block = {1, 2}
    Image = {"boot", "chunk"}
    MaxRing = 1
    Waits = TRUE
    Commands = {"SNIPPET", "RESET", "GO_ADDR", "STOP", "IRQ_STROBE", "IRQ_SWI", "IRQ_RTI", "IRQ_NMI", "BREAK", "BREAK_RETURN", "ARM"}
SPECIFICATION Spec
INVARIANTS RunTypeOK ArmBelongsToRun TrapIsSafe
PROPERTIES TrapIsReported
