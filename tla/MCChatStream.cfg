\* Answers of up to five events, two read-only tools and one that writes.
CONSTANTS
    Blank = Blank
    a = a
    f = f
    s = s
    q = q
    c = c
    Rune <- MCRune
    Deltas <- MCDeltas
    Summary <- MCSummary
    Fence <- MCFence
    ShellMark <- MCShellMark
    CommandMark <- MCCommandMark
    HoldBack = 2
    Names = {"read", "list", "write"}
    ReadOnly = {"read", "list"}
    Custom = {"write"}
    MaxCalls = 2
    MaxProposed = 2
    MaxEvents = 4
SPECIFICATION Spec
INVARIANTS
    TypeOK
    NothingLost
    MarkerWithheld
    DoneMeansWhole
PROPERTIES
    Delivers
    Terminates
