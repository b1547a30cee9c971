CONSTANTS
    QueueMax = 2
    CtsThreshold = 0
    UseHostCts = TRUE
    MaxWrites = 4
    MaxSends = 3
    MaxControls = 0
    MaxReads = 2
    Controls <- NoControls
    Quiet <- NotInUpdate
SPECIFICATION Spec
INVARIANTS TypeOK
PROPERTIES TxIsFifo RxIsFifo
