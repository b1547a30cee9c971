CONSTANTS
    Block = {1, 2}
    Image = {"boot", "chunk"}
    MaxRing = 0
    Waits = TRUE
    Commands = {"EXAMINE", "MODIFY", "FILL", "SNIPPET", "VECTOR", "GO", "GO_ADDR", "STOP", "HALT", "RESTART", "RUN", "IRQ_CHUNK", "RUN_CHUNK", "RUN_NOWAIT", "NITROS9", "S0", "S1_low", "S1_high", "S1_vectors", "S9"}
SPECIFICATION Spec
INVARIANTS NeverRefused RunIsHonest BootsWhatItLoaded
