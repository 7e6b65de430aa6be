SPECIFICATION Spec
CONSTANT e1 = e1
CONSTANT e2 = e2
CONSTANT Emits = {e1, e2}
CONSTANT Attempts = 2
CONSTANT DraftFailures = 2
CONSTANT SlowDrafts = FALSE
CONSTANT MaxDeltas = 2
CONSTANT MaxIntermediate = 1
CONSTANT MaxFaults = 3
INVARIANT TypeOK
INVARIANT QueuedFirst
INVARIANT TerminalHasAnswer
INVARIANT DraftsStopFirst
PROPERTY NothingAfterTerminal
PROPERTY DraftFollows
PROPERTY CallsEnd
