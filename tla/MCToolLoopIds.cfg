\* One call at a time, whose results are never empty.
CONSTANTS
    Calls <- MCCalls
    Canonical <- MCCanonical
    ReadOnly = {"read"}
    Results = {"done"}
    Empty = ""
    Plans = {"router", "native"}
    MaxRounds = 2
    MaxCalls = 1
    MaxProposed = 1
    MaxMessages = 5
    MaxTrims = 1
SPECIFICATION Spec
INVARIANT
    OwnCallsAccepted
CHECK_DEADLOCK FALSE
