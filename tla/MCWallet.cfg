\* Two players of one co-admin who refer to each other (one referral was rewarded in
\* the Firestore time), a gift, a transfer request, and limits scaled to the clock.
SPECIFICATION Spec
CONSTANTS
    p1 = p1
    p2 = p2
    c1 = c1
    Players = {p1, p2}
    ScopeOf <- MCScopeOf
    InitialBalance <- MCInitialBalance
    Ids = {i1, i2}
    Gifts = {g1}
    GiftTo <- MCGiftTo
    Requests = {r1}
    PlayerOf <- MCPlayerOf
    AmountOf <- MCAmountOf
    ReferrerOf <- MCReferrerOf
    ClaimedBefore = {p1}
    Nobody = Nobody
    Amounts = {5, 10, 25}
    Adjustments <- MCAdjustments
    MaxCashToCoin = 25
    MinCoinToCash = 10
    DailyLimit = 30
    MaxReward = 20
    CashToCoinCooldown = 1
    CoinToCashCooldown = 2
    Day = 3
    MaxTime = 3
INVARIANTS
    TypeOK
    MovedOnce
    NoMoneyMinted
    CooldownsKept
    DailyLimitKept
PROPERTIES
    LosesOnlyFractions
SYMMETRY IdSymmetry
CHECK_DEADLOCK FALSE
\* The system rests once ids, gifts and time are used up.
