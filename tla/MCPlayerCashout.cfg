\* One player with cash of a day's limit and a redeem of half a coin to come, two
\* requests, one of which may have been imported, the owning co-admin (with a Telegram operator), one staff
\* member, and the co-admin of another tenant. Staff pages keep polling.
SPECIFICATION PollingSpec
CONSTANTS
    p1 = p1
    c1 = c1
    c2 = c2
    s1 = s1
    t1 = t1
    t2 = t2
    u1 = u1
    k1 = k1
    k2 = k2
    Players = {p1}
    Actors = {c1, c2, s1}
    TelegramUsers = {u1}
    Tasks = {t1, t2}
    Keys = {k1, k2}
    Nobody = Nobody
    NoUser = NoUser
    System = System
    RoleOf <- MCRoleOf
    ScopeOf <- MCScopeOf
    CoadminOf <- MCCoadminOf
    BoxHolders = {c1}
    RewardBlocked = {c1}
    InitialCash <- MCInitialCash
    Redeems = {50}
    MaxRedeemed = 50
    LegacyTasks = {t2}
    LegacyPlayer <- MCLegacyPlayer
    LegacyAmount <- MCLegacyAmount
    DailyLimit = 2
CONSTRAINT OneReleased
INVARIANTS
    TypeOK
    SettledOnce
    LedgerTellsRow
    OneRequestPerKey
    ClaimConsistent
PROPERTIES
    OnlyFractionsLost
    LedgerFollows
    ClaimNotStolen
    SettledForGood
    ImplementsSettlement
    FirstTimeoutReleases
CHECK_DEADLOCK FALSE
\* The system rests once every request is settled.
