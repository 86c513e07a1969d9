\* Requests, ids and edits are bounded, and a login that is answered is final: a part may come
\* to its end, so that deadlock is not checked.
CONSTANTS
    a = a
    as = as
    b = b
    x = x
    r1 = r1
    r2 = r2
    r3 = r3
    k1 = k1
    k2 = k2
    k3 = k3
    l1 = l1
    l2 = l2
    n1 = n1
    n2 = n2
    Torn = Torn
    Blank = Blank
    NoPool = NoPool
    Proxies = {a, as, b, x}
    Usable = {a, as, b}
    Plain <- MCPlain
    Puts <- MCPuts
    Posts <- MCPosts
    Admins = {r1, r2}
    MaxRequests = 3
    MaxRestarts = 1
    Keys = {k1, k2, k3}
    States = {l1, l2}
    Callbacks = {r1, r2, r3}
    Addresses = {Custom}
    DefaultAddress = Default
    Operators = {r1, r2}
    MaxItems = 3
    MaxEdits = 3
    SessionKeys = {n1, n2}
    Chats = {r1, r2}
    MaxIds = 2
SYMMETRY Symmetry
SPECIFICATION Spec
INVARIANTS
    AdminTypeOK
    KeysAsTold
    StatusIsTrue
    FileFollows
    SessionsApart
    DeletedStaysDeleted
PROPERTIES
    LoneRequestWorks
CHECK_DEADLOCK FALSE
