\* One request, two claimants, staff pages that keep polling.
SPECIFICATION PollingSpec
CONSTANTS
    p1 = p1
    c1 = c1
    c2 = c2
    s1 = s1
    t1 = t1
    t2 = t2
    u1 = u1
    k1 = k1
    k2 = k2
    Players = {p1}
    Actors = {c1, s1}
    TelegramUsers = {u1}
    Tasks = {t1}
    Keys = {k1}
    Nobody = Nobody
    NoUser = NoUser
    System = System
    RoleOf <- MCRoleOf
    ScopeOf <- MCScopeOf
    CoadminOf <- MCCoadminOf
    BoxHolders = {s1}
    RewardBlocked = {c1}
    InitialCash <- MCCashOver
    Redeems = {}
    MaxRedeemed = 0
    LegacyTasks = {}
    LegacyPlayer <- MCLegacyPlayer
    LegacyAmount <- MCLegacyAmount
    DailyLimit = 2
PROPERTIES
    ExpiredClaimReleased
CHECK_DEADLOCK FALSE
