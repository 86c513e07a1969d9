\* An answer that holds a word with the letters "cite".
CONSTANTS
    Blank = Blank
    Marker = Marker
    Mention = Mention
    a = a
    b = b
    c = c
    d = d
    n = n
    SmallFrame = 2
    Answers <- MCMentionAnswers
    CiteSpots = {a, b}
    Narration <- MCNarration
    Tools = {"search", "read"}
    MaxFrames = 3
SPECIFICATION Spec
INVARIANT StreamKeepsUp
