CONSTANTS
    Settled = 2
    Threshold = 3
    Patient = TRUE
SPECIFICATION Spec
INVARIANTS PowerTypeOK OffIsOff GuestIsServed
PROPERTIES StallIsReported
