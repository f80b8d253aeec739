SPECIFICATION FairSpec
CONSTANTS
    FifoSize = 2
    SemMax = 2
    TickMod = 13
    Lag = 1
    MaxBytes = 3
    Lens <- MCLens
    Timeouts <- MCTimeouts
INVARIANTS TypeOK SemaphoreLive NoLostWakeup ReadBounded ByteConservation ByteOrder
PROPERTIES ImplementsByteStream ReadReturns UntimedReadServed
