CONSTANTS
    A = A
    B = B
    m = m
    n = n
    e1 = e1
    e2 = e2
    r1 = r1
    r2 = r2
    Ticks = {A, B}
    Users = {m, n}
    ExIds = {e1, e2}
    Offer <- MCOffer
    Reserve <- MCReserve
    Funds <- MCFunds
    Amounts = {1, 2}
    MaxHeight = 2
    MaxOps = 4
    MaxGifts = 1
SPECIFICATION Spec
INVARIANTS
    Backed
PROPERTY
    FillsAtPrice
