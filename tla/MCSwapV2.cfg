CONSTANTS
    B = B
    W = W
    P = P
    D = D
    m = m
    n = n
    q = q
    MEME = B
    WDOGE = W
    LP = P
    DEPLOYED = D
    Deployer = m
    NewMax = 2
    Tick0 = B
    Tick1 = W
    Traders = {m, n}
    Pool = q
    Txs <- MCTxs
    Gifts = {1}
    Opening <- MCFunds
    MINI_LIQUIDITY = 1
    FeeUnit = 3
    FeeParts = 1
    NoPool = NoPool
    NoRow = NoRow
    Nobody = Nobody
    Stuck = Stuck
    MaxBlocks = 2
    MaxTxs = 4
SPECIFICATION SwapV2Spec
INVARIANTS
    TokensAgree
    MemeForkNeverRefused
PROPERTIES
    ShareValueNeverFalls
    ForkRestores
