CONSTANTS
    unix = unix
    wdoge = wdoge
    lp = lp
    a = a
    b = b
    pool = pool
    r1 = r1
    r2 = r2
    Ticks = {unix, wdoge, lp}
    UNIX = unix
    WDOGE = wdoge
    LpWdoge = lp
    StakeTicks = {unix, lp}
    Users = {a, b}
    Pool = pool
    Reserve <- MCReserve
    Funds <- MCFunds
    Amounts = {1}
    Accruals = {1}
    WritesBack = TRUE
    None = None
    MaxHeight = 2
    MaxOps = 3
    MaxReward = 2
    MaxGifts = 1
SPECIFICATION Spec
INVARIANTS
    Backed
    NeverPaidTwice
PROPERTY
    ForkRestoresStakes
