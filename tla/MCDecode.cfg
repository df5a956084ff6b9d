CONSTANTS
    a = a
    b = b
    token = token
    pair = pair
    Transactions <- MCTransactions
    WDOGE = wdoge
    TickNames = {token, wdoge}
    Ids = {pair}
    Addresses = {a, b, Cool, FeeAddress, TipAddress, CreateFeeAddress}
    PoolTicks <- MCPools
    Orders = {pair}
    None = None
    Cool = Cool
    FeeAddress = FeeAddress
    TipAddress = TipAddress
    CreateFeeAddress = CreateFeeAddress
    Unit = 5
    Exact = {1, 2}
    RoundedUp = {7}
    FeeParts = 1
    FeeWhole = 4
    MinFee = 2
    CreateFee = 4
    TipFee = 1
SPECIFICATION DecodeSpec
INVARIANTS
    MintedIsPaid
    ActsForFunder
CHECK_DEADLOCK FALSE
