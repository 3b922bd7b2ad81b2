SPECIFICATION Spec
CONSTANTS
    p1 = p1
    Recharges = {}
    Redeems = {r1}
    Players = {p1}
    Requests = {r1}
    Carers = {c1, c2}
    Admin = Admin
    Jobs = {j1, j2}
    Keys = {k1}
    None = None
    KindOf <- MCKindOf
    PlayerOf <- MCPlayerOf
    Amount <- MCAmount
    InitialCoin <- MCInitialCoin
    Bases = {}
    MaxOverwrites = 0
    BoxHolders = {c1, c2}
    SingleSession = {}
PROPERTIES
    SettledForGood
CHECK_DEADLOCK FALSE
\* The system rests once the requests are settled and the jobs are used up.
