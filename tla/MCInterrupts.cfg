CONSTANTS
    Countdowns = {0}
    ConsoleLines = {"IRQ"}
    BusyPorts = {"aux"}
SPECIFICATION FairSpec
INVARIANTS TypeOK IrqHeld
PROPERTIES TickIsShown TickReaches IrqReleased
