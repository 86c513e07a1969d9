\* Three grants. A server whose file is torn cannot start again, and then only time
\* passes, so deadlock is not checked.
CONSTANTS
    u1 = u1
    u2 = u2
    p1 = p1
    p2 = p2
    Users = {u1, u2}
    Offline = {u1}
    Procs = {p1, p2}
    EmailOf <- MCEmailOf
    NoEmail = NoEmail
    NoAccount = NoAccount
    Torn = Torn
    MaxGrants = 3
SYMMETRY Symmetry
SPECIFICATION Spec
INVARIANTS
    TypeOK
    AccountsApart
    Refreshable
PROPERTIES
    SurvivesRestart
    Served
CHECK_DEADLOCK FALSE
