SPECIFICATION BusFairSpec
CONSTANTS
    a = a
    b = b
    r = r
    Publishers = {a, b}
    Readers = {b, r}
    Nobody = Nobody
    Capacity = 8
    Entries = 1
    MaxBody = 0
    Bodies = {0}
    Buffers = {0}
    First = 1
    MaxSequence = 2
    MaxDeaths = 1
    SlotCount = 2
    SlotOf <- SecondSlot
INVARIANT NotSleptThrough
PROPERTIES
    RingSpec
    CursorSkipsOnlyGone
    KeepsUp
