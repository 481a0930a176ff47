SPECIFICATION FairSpec
CONSTANTS
    a1 = a1
    Coro = {a1}
    Grain = 3
    MaxTimeout = 2
    MaxPending = 1
PROPERTIES
    ReceiveTimesOut
