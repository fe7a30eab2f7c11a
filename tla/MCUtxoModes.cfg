CONSTANTS
    MaxMoney = 100
    Subsidy = 1
    Maturity = 1
    Block <- MCBlock
    NoBlock = "none"
    HeightOf <- MCHeightOf
    Chain <- MCChain
    Genesis = "g"
    Txs <- MCTxs
    NullifiersOf <- MCNullifiersOf
    Direct <- MCDirect
    Bodiless = {"c3"}
    Snapshots = {"a2", "a3"}
    FinalityDepth = 2
    WindowRaces = TRUE
    Poison = TRUE
    MaxFailures = 2
SPECIFICATION MCSpec
INVARIANTS TypeOK FrontierIsCursor AppliedIsChain CoinsMatchBranch 
PROPERTIES FinalityRespected Converges
