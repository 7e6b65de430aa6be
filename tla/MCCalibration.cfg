CONSTANTS
    w1 = w1
    w2 = w2
    c1 = c1
    c2 = c2
    c3 = c3
    None = None
    Workers = {w1}
    Calls = {c1, c2}
    MaxUnsent = 2
    MaxUp = 3
SPECIFICATION Spec
INVARIANTS TypeOK NoGrowthWhileCalibrating MarkAgrees SlotHasReason
PROPERTY HelloSettles
