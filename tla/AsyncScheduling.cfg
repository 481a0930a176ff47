SPECIFICATION Spec
CONSTANTS
    c1 = c1
    c2 = c2
    c3 = c3
    Nil = Nil
    Coro = {c1, c2, c3}
    noninteractive = FALSE
    NestedEvents = FALSE
    Primitives = {"join", "yield", "http"}
    MaxWakeups = 2
    MaxSent = 0
    MaxMonitors = 0
SYMMETRY Symmetry
INVARIANTS
    ListsMatchStates
    WaitersSuspended
    CursorLive
    JoinerGetsVerdict
    NoLostWakeup
PROPERTIES
    ImplementsLifecycle
