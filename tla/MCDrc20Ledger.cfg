CONSTANTS
    a = a
    b = b
    ab = ab
    UNI = UNI
    WDOGE = WDOGE
    NoAddr = NoAddr
    Ticks = {UNI, WDOGE}
    ProtocolTicks = {WDOGE}
    Holders = {a, b, ab}
    Recipients <- MCRecipients
    Amounts = {1, 2}
    MaxRepeat = 2
    Counter = 8
    MaxHeight = 2
    MaxOps = 3
SPECIFICATION HistSpec
INVARIANTS
    Conservation
    SupplyCap
    UndoNeverFails
    TransactionsCounted
PROPERTY
    ImplementsCheckpoints
