CONSTANTS
    Block <- MCBlock
    NoBlock = "none"
    Genesis = "g"
    HeightOf <- MCHeightOf
    Chain <- MCChain
    Trees <- LinearAndFork
    Bad <- BadProofs
    Unsolved = {}
    FinalityDepth = 2
    RewindMax = 2
    Batch = 2
    MaxFaults = 1
    TrustedHeight = 0
SPECIFICATION MCSpec
INVARIANTS FinalizedScriptChecked 
PROPERTIES RepairKeepsHStar HealConverges
