CONSTANTS
    B = B
    W = W
    P = P
    m = m
    n = n
    p = p
    Tick0 = B
    Tick1 = W
    WDOGE = W
    LP = P
    Users = {m, n}
    Pool = p
    Txs <- MCTxs
    Gifts = {1}
    Funds <- MCFunds
    MINI_LIQUIDITY = 1
    FeeUnit = 3
    FeeParts = 1
    MinWithdraw = 1
    NoPool = NoPool
    MaxHeight = 2
    MaxTxs = 3
SPECIFICATION Spec
INVARIANTS
    NeverEmpty
    LedgerCovers
PROPERTIES
    ShareValueNeverFalls
    RouterKeepsWdoge
    ForkRestoresRow
