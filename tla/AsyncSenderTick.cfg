SPECIFICATION Spec
CONSTANTS
    c1 = c1
    c2 = c2
    Nil = Nil
    Coro = {c1, c2}
    noninteractive = FALSE
    NestedEvents = FALSE
    Primitives = {"send", "receive"}
    MaxWakeups = 2
    MaxSent = 1
    MaxMonitors = 0
SYMMETRY Symmetry
INVARIANTS
    RunnableHasTick
