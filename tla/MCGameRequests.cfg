\* A recharge or a redeem, two carers with two jobs, and an admin.
SPECIFICATION Spec
CONSTANTS
    p1 = p1
    Recharges = {r1, r2}
    Redeems = {d1}
    Players = {p1}
    Requests = {r1, r2, d1}
    Carers = {c1, c2}
    Admin = Admin
    Jobs = {j1, j2}
    Keys = {k1}
    None = None
    KindOf <- MCKindOf
    PlayerOf <- MCPlayerOf
    Amount <- MCAmount
    InitialCoin <- MCInitialCoin
    Bases = {3}
    MaxOverwrites = 1
    BoxHolders = {c1, c2}
    SingleSession = {r1, r2}
INVARIANTS
    TypeOK
    RechargeSettledOnce
    RedeemPaidOnce
    BalancesTold
    RewardedOnce
    CompletedTaskSettled
    OneJobWhileOpen
PROPERTIES
    RechargesSettledForGood
    NotStolen
CONSTRAINT Explored
SYMMETRY Symmetry
CHECK_DEADLOCK FALSE
\* The system rests once the requests are settled and the jobs are used up.
