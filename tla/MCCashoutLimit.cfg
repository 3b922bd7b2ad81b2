\* Two creations of one player with different keys.
SPECIFICATION Spec
CONSTANTS
    p1 = p1
    c1 = c1
    c2 = c2
    s1 = s1
    t1 = t1
    t2 = t2
    u1 = u1
    k1 = k1
    k2 = k2
    Players = {p1}
    Actors = {c1, c2, s1}
    TelegramUsers = {u1}
    Tasks = {t1, t2}
    Keys = {k1, k2}
    Nobody = Nobody
    NoUser = NoUser
    System = System
    RoleOf <- MCRoleOf
    ScopeOf <- MCScopeOf
    CoadminOf <- MCCoadminOf
    BoxHolders = {c1, c2}
    RewardBlocked = {c1}
    InitialCash <- MCCashOver
    Redeems = {}
    MaxRedeemed = 0
    LegacyTasks = {t2}
    LegacyPlayer <- MCLegacyPlayer
    LegacyAmount <- MCLegacyAmount
    DailyLimit = 2
INVARIANTS
    RollingLimitKept
CHECK_DEADLOCK FALSE
