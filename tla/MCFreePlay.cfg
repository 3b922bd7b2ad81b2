\* Two requests of one staff member give gifts to two players, while one of the
\* players opens gifts on a page. Their coins have a fraction, before and after
\* another operation.
SPECIFICATION FairSpec
CONSTANTS
    s1 = s1
    w1 = w1
    t1 = t1
    p1 = p1
    p2 = p2
    Players = {p1, p2}
    Givers = {s1, s2}
    Staff = {s1, s2}
    WalletOf <- MCWalletOf
    Wallets = {w1}
    InitialWallet <- MCInitialWallet
    Tabs = {t1}
    PlayerOf <- MCPlayerOf
    MaxGifts = 3
    Keys = {k1}
    NoKey = NoKey
    Nobody = Nobody
    InitialCoin <- MCInitialCoin
    OtherAmounts = {75}
    MaxOther = 1
INVARIANTS
    TypeOK
    GiftsMatchMarkers
    GiftsPaidFor
PROPERTIES
    ImplementsExchange
    EveryRequestEnds
    OnlyFractionsLost
CHECK_DEADLOCK FALSE
\* Nothing happens once the gifts are used up.
