SPECIFICATION Spec
CONSTANTS
    p1 = p1
    Recharges = {r1}
    Redeems = {}
    Players = {p1}
    Requests = {r1}
    Carers = {c1, c2}
    Admin = Admin
    Jobs = {j1, j2, j3}
    Keys = {k1}
    None = None
    KindOf <- MCKindOf
    PlayerOf <- MCPlayerOf
    Amount <- MCAmount
    InitialCoin <- MCInitialCoin
    Bases = {}
    MaxOverwrites = 0
    BoxHolders = {c1, c2}
    SingleSession = {}
INVARIANTS
    OneCarerPerTask
SYMMETRY Symmetry
CHECK_DEADLOCK FALSE
\* The system rests once the requests are settled and the jobs are used up.
