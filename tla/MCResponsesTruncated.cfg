\* ChatHub may fail in the middle of an answer.
CONSTANTS
    Blank = Blank
    a = a
    f = f
    s = s
    q = q
    Rune <- MCRune
    Deltas <- MCDeltas
    Summary <- MCSummary
    Fence <- MCFence
    ShellMark <- MCShellMark
    CommandMark <- MCCommandMark
    HoldBack = 2
    Names = {"read", "write"}
    ReadOnly = {"read"}
    Custom = {"write"}
    MaxCalls = 2
    MaxProposed = 2
    MaxEvents = 3
    MaxLine = 9
SPECIFICATION AdapterSpec
INVARIANT CompletedMeansWhole
