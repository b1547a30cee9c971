CONSTANTS
    Byte = {a, b}
    NoByte = NoByte
    Capacity = 4
SPECIFICATION Spec
INVARIANTS TypeOK CreditIsSound NoSlotRace
PROPERTIES IsFifo
