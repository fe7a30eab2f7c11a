CONSTANTS
    MaxMoney = 100
    Subsidy = 1
    Maturity = 1
    Block <- IntraTree
    NoBlock = "none"
    HeightOf <- MCHeightOf
    Chain <- MCChain
    Genesis = "g"
    Txs <- MCTxs
    NullifiersOf <- NoNullifiers
    Direct <- MCDirect
    Bodiless = {}
    Snapshots = {}
    FinalityDepth = 2
    WindowRaces = FALSE
    Poison = FALSE
    MaxFailures = 0
SPECIFICATION Spec
INVARIANT CoinsMatchBranch
