\* An empty pool that has been replaced has nothing left to do: deadlock is not checked.
CONSTANTS
    a = a
    b = b
    c = c
    d1 = d1
    d2 = d2
    d3 = d3
    Proxies = {a, b, c}
    Dials = {d1, d2, d3}
    Blank = Blank
    None = None
    Lists <- MCLists
SYMMETRY Symmetry
SPECIFICATION Spec
INVARIANTS
    TypeOK
    NoStarvation
PROPERTIES
    StickyKept
CHECK_DEADLOCK FALSE
