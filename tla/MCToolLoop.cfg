\* Lists of up to five messages; two calls in parallel, if they read.
CONSTANTS
    Calls <- MCCalls
    Canonical <- MCCanonical
    ReadOnly = {"read"}
    Results = {"", "done"}
    Empty = ""
    Plans = {"router", "native"}
    MaxRounds = 2
    MaxCalls = 2
    MaxProposed = 2
    MaxMessages = 5
    MaxTrims = 1
SPECIFICATION Spec
INVARIANTS
    TypeOK
    ValidatesExactly
    AnsweredBeforeNextTurn
    ScopedIdsDistinct
    RoundBound
    NotAskedAgain
    ClaimBehindResults
CHECK_DEADLOCK FALSE
