CONSTANTS
    A = A
    m = m
    n = n
    f1 = f1
    e1 = e1
    e2 = e2
    r1 = r1
    r2 = r2
    Ticks = {A}
    Users = {m, n}
    NoAddr = NoAddr
    Files = {f1}
    Deployer <- MCDeployer
    ExIds = {e1, e2}
    Offer <- MCOffer
    Reserve <- MCReserve
    Funds <- MCFunds
    MaxHeight = 3
    MaxRows = 4
    MaxFiles = 2
\* Forks above which an order was traded or cancelled are refused: at the last
\* block and the last row nothing can be done any more.
CHECK_DEADLOCK FALSE
SPECIFICATION Spec
INVARIANTS
    OneOwner
    OpenOrderHoldsFile
PROPERTIES
    ForkRestores
