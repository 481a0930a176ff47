SPECIFICATION FairSpec
CONSTANTS
    c1 = c1
    c2 = c2
    Nil = Nil
    Coro = {c1, c2}
    noninteractive = FALSE
    NestedEvents = FALSE
    Primitives = {"join", "yield", "http"}
    MaxWakeups = 3
    MaxSent = 0
    MaxMonitors = 0
PROPERTIES
    EventuallyRuns
    TransfersPolled
