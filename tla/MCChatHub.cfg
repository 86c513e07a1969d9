\* Overlapping frames, markers after a and b, two native tools, four frames.
CONSTANTS
    Blank = Blank
    Marker = Marker
    Mention = Mention
    a = a
    b = b
    c = c
    d = d
    n = n
    SmallFrame = 2
    Answers <- MCAnswers
    CiteSpots = {a, b}
    Narration <- MCNarration
    Tools = {"search", "read"}
    MaxFrames = 4
SPECIFICATION Spec
INVARIANTS
    TypeOK
    StreamKeepsUp
    ResultIsWhole
    NoPartialSuccess
    ToolCallsReported
PROPERTIES
    Returns
