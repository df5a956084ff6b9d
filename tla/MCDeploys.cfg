CONSTANTS
    cardi = cardi
    meow = meow
    meowLP = meowLP
    wbtc = wbtc
    a = a
    b = b
    reserve = reserve
    pool = pool
    Ticks = {cardi, meow, meowLP, wbtc}
    Accounts = {a, b, reserve, pool}
    Users = {a, b}
    Minted <- MCMinted
    Nobody = Nobody
    Stuck = Stuck
    BoxTicks = {meow}
    BoxReserve <- MCReserve
    PoolReserve <- MCPool
    LP <- MCLP
    MINI_LIQUIDITY = 1
    Wrapped = {wbtc}
    BoxDeploys <- MCDeploy
    Amounts = {1, 2}
    MaxHeight = 2
    MaxOps = 4
SPECIFICATION DeploysSpec
INVARIANTS
    BoxesCovered
    SupplyIsHeld
    ForkNeverRefused
PROPERTY
    ForkRestores
CHECK_DEADLOCK FALSE
