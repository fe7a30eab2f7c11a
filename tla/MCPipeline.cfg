CONSTANTS
    Block <- MCBlock
    NoBlock = "none"
    Genesis = "g"
    HeightOf <- MCHeightOf
    Chain <- MCChain
    Trees <- LinearAndFork
    Bad <- BadScripts
    Unsolved = {"a1"}
    FinalityDepth = 2
    RewindMax = 2
    Batch = 2
    MaxFaults = 1
SPECIFICATION FairSpec
INVARIANTS FinalizedScriptChecked AppliedWasValidatedOnOneChain
PROPERTIES HeaderLogFollows 
