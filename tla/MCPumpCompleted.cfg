CONSTANTS
    MEME = MEME
    WDOGE = WDOGE
    u = u
    v = v
    r = r
    f = f
    p = p
    Users = {u, v}
    Reserves = r
    TxFee = f
    Pool = p
    Deploys <- MCDeploys
    Trades <- MCTrades
    Gifts = {1}
    Wealth <- MCWealth
    MemeMax = 12
    DogeInit = 2
    TradeMax = 7
    FinishAt = 7
    MaxFirst = 3
    PumpFinishFee = 2
    PumpCreateHolderFee = 1
    FeeUnit = 3
    ReserveUnit = 4
    MINI_LIQUIDITY = 1
    NoPump = NoPump
    NoOp = NoOp
    MaxBlocks = 2
    MaxTxs = 3
SPECIFICATION PumpSpec
INVARIANT CompletedIsFinished
