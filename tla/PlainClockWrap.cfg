SPECIFICATION BuiltSpec
CONSTANTS
    Word = 26
    Kilo = 4
    TicksPerSecond = 2
    t1 = t1
    t2 = t2
    Threads <- OneThread
    MaxGap = 2
    MaxTicks = 60
INVARIANT PlainMonotone
