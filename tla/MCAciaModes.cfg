CONSTANTS
    QueueMax = 1
    CtsThreshold = 0
    UseHostCts = FALSE
    MaxWrites = 1
    MaxSends = 1
    MaxControls = 2
    MaxReads = 1
    Controls <- Modes
    Quiet <- Anywhere
SPECIFICATION Spec
INVARIANTS NoLostWakeup RtsIsNotStale
