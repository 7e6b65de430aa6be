SPECIFICATION Spec
CONSTANT a = a
CONSTANT b = b
CONSTANT c = c
CONSTANT big = big
CONSTANT small = small
CONSTANT r1 = r1
CONSTANT r2 = r2
CONSTANT None = none
CONSTANT Lanes = {a, b, c}
CONSTANT Static = {a}
CONSTANT Configs = {big, small}
CONSTANT Ports = {1, 2, 3}
CONSTANT Requests = {r1, r2}
CONSTANT Desired <- SomeDesired
CONSTANT MaxRestarts = 1
CONSTANT MaxCommands = 2
CONSTANT MaxFaults = 1
INVARIANT FailedRestartEndsLane
