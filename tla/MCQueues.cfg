\* MaxMessages and MaxArrivals bound the behaviours, which end there.  Pool is the
\* smallest the assumption allows for a ring of three seconds.
CONSTANTS
    SP_MAX_SENDQUEUE = 3
    MaxMessages = 4
    SP_QUEUE_LNG = 3
    MaxArrivals = 7
    Pool = 6
    ErrSlots = 3
    AlarmTicks = 1
    Interval = 2
    Word = 65536
    BufferNeed = 2304
    GbCtrl = 3
    GbHead = 4
    PrivHead = 4
    SOCK_PROXY_RCVLEN = 8
    MaxBytes = 14
    Sendable <- MCSendable
    MaxSent = 3
SPECIFICATION MCSpec
INVARIANT DoneInOrder
INVARIANT ToldItsOwn
INVARIANT ReadsInOrder
INVARIANT PacksConserved
INVARIANT BufferFound
INVARIANT CutsAsSent
PROPERTY WritersLearn
PROPERTY ArrivalsAreRead
CHECK_DEADLOCK FALSE
