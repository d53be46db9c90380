SPECIFICATION Spec
CONSTANTS
    BufferSizes = {0, 20, 34, 44, 48, 56, 64, 72, 90}
    MessageLengths = {0, 44, 50, 56, 64, 76, 65535}
    LengthFields = {0, 2, 6, 8, 20, 65535}
    TextLengths = {0, 3, 255}
    NameLengths = {3, 4, 16}
    ExtraBytes = {0, 1, 2, 8, 9}
    MaxPackets = 2
INVARIANTS
    TypeOK
    InBounds
    LoopBounded
    RoundTrip
CHECK_DEADLOCK FALSE
