CONSTANTS
    w1 = w1
    w2 = w2
    c1 = c1
    c2 = c2
    c3 = c3
    None = None
    Workers = {w1, w2}
    Calls = {c1, c2}
    MaxUnsent = 2
    MaxUp = 2
SPECIFICATION SteadySpec
INVARIANTS OneAtATime MarkCoversSession
PROPERTY SlotFreed
