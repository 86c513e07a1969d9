\* Answers of up to four events; a line of three runes is longer than the buffer. The
\* adapter and its handler then wait for each other for ever, so deadlock is not checked.
CONSTANTS
    Blank = Blank
    a = a
    f = f
    s = s
    q = q
    Rune <- MCRune
    Deltas <- MCDeltas
    Summary <- MCSummary
    Fence <- MCFence
    ShellMark <- MCShellMark
    CommandMark <- MCCommandMark
    HoldBack = 2
    Names = {"read", "write"}
    ReadOnly = {"read"}
    Custom = {"write"}
    MaxCalls = 2
    MaxProposed = 2
    MaxEvents = 4
    MaxLine = 2
SPECIFICATION AdapterSpec
INVARIANTS
    AdapterTypeOK
    ItemsWellFormed
    CompletedAgrees
    RefusedOrBlankFails
    ClientSeesAnswer
PROPERTIES
    ResponseEnds
CHECK_DEADLOCK FALSE
