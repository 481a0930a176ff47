SPECIFICATION Spec
CONSTANTS
    c1 = c1
    c2 = c2
    Nil = Nil
    Coro = {c1, c2}
    noninteractive = FALSE
    NestedEvents = TRUE
    Primitives = {"send", "receive", "timed_receive", "monitor"}
    MaxWakeups = 1
    MaxSent = 2
    MaxMonitors = 1
SYMMETRY Symmetry
INVARIANTS
    TypeOK
    NoMessageLost
PROPERTIES
    InOrderDelivery
    NoClobber
