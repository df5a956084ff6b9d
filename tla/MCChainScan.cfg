CONSTANTS
    g = g
    a1 = a1
    a2 = a2
    a3 = a3
    a4 = a4
    a5 = a5
    b2 = b2
    b3 = b3
    b4 = b4
    c3 = c3
    c4 = c4
    c5 = c5
    c6 = c6
    f3 = f3
    f4 = f4
    h3 = h3
    h4 = h4
    d2 = d2
    d3 = d3
    d4 = d4
    d5 = d5
    e3 = e3
    e4 = e4
    e5 = e5
    e6 = e6
    w = w
    x = x
    y = y
    z = z
    box = box
    stake = stake
    deploy = deploy
    mint = mint
    trade = trade
    NoBlock = NoBlock
    Blocks = {g, a1, a2, a3, a4, a5, b2, b3, b4, c3, c4, c5, c6,
              f3, f4, h3, h4, d2, d3, d4, d5, e3, e4, e5, e6}
    Parent <- MCParent
    BestChains <- MCChains
    FirstChain <- ShortA
    Txs = {w, x, y, z, box, stake, deploy, mint, trade}
    TxsOf <- MCTxsOf
    Needs <- MCNeeds
    Kind <- MCKind
    Starts <- MCStarts
    Batch = 3
    MaxFaults = 2
SPECIFICATION FairSpec
INVARIANTS
    AtMostOnce
    
    Faithful
PROPERTIES
    FollowsChain
    
    Converges
