CONSTANTS
    QueueMax = 2
    CtsThreshold = 0
    UseHostCts = FALSE
    MaxWrites = 2
    MaxSends = 1
    MaxControls = 1
    MaxReads = 1
    Controls <- Loopbacks
    Quiet <- NotInUpdate
SPECIFICATION FairSpec
PROPERTIES RxReachesGuest TdreOrCts ReceiveInterrupts
