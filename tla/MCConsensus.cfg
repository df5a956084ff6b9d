CONSTANTS
    C = C
    m = m
    n = n
    s1 = s1
    s2 = s2
    r1 = r1
    r2 = r2
    x1 = x1
    x2 = x2
    y1 = y1
    CARDI = C
    Users = {m, n}
    Stakes = {s1, s2}
    Holder <- MCHolder
    Amt <- MCAmt
    Reserve <- MCReserve
    Unstakes = {x1, x2, y1}
    Sender <- MCSender
    Names <- MCNames
    Funds <- MCFunds
    Amounts = {1}
    Q = 8
    SCALE = 1000
    LN2_SCALED = 693
    None = None
    MaxHeight = 4
    MaxGifts = 1
SPECIFICATION Spec
INVARIANTS
    Backed
    ScoresGrow
PROPERTY
    ForkRestoresRecords
