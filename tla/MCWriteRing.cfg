CONSTANTS
    RingSize = 4
    MaxWrites = 5
SPECIFICATION Spec
INVARIANTS TypeOK ExactlyOnce NewestKeptAtPace
CHECK_DEADLOCK FALSE
