SPECIFICATION Spec
CONSTANTS
    Publishers = {w1, w2}
    Readers = {r1}
    Nobody = Nobody
    Capacity = 16
    Entries = 8
    MaxBody = 2
    Bodies = {2, 3}
    Buffers = {2}
    First = 3
    MaxSequence = 7
    MaxDeaths = 1
SYMMETRY Symmetry
INVARIANTS
    ClaimExclusive
    IntactRead
    HeldReadable
PROPERTIES
    NumbersStand
    DropsOnlyDisplaced
