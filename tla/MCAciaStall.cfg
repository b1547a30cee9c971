CONSTANTS
    QueueMax = 3
    CtsThreshold = 1
    UseHostCts = FALSE
    MaxWrites = 2
    MaxSends = 0
    MaxControls = 0
    MaxReads = 0
    Controls <- NoControls
    Quiet <- Anywhere
SPECIFICATION FairSpec
PROPERTIES TdreRecovers
