CONSTANTS
    r1 = r1
    r2 = r2
    r3 = r3
    m1 = m1
    w1 = w1
    w2 = w2
    c1 = c1
    None = None
    Requests = {r1, r2, r3}
    Models = {m1}
    Local = {w1}
    Cloud = {}
    Capacity = 1
    Wants <- WantsM1
    Prio <- SamePrio
    Rank <- W1First
    Registered <- AllLocal
SPECIFICATION Spec
INVARIANT GoneIsNotBooked
