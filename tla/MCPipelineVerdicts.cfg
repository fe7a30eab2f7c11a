CONSTANTS
    Block <- MCBlock
    NoBlock = "none"
    Genesis = "g"
    HeightOf <- MCHeightOf
    Chain <- MCChain
    Trees <- OnlyFork
    Bad <- BadScripts
    Unsolved = {"a1"}
    FinalityDepth = 2
    RewindMax = 2
    Batch = 2
    MaxFaults = 0
SPECIFICATION Spec
INVARIANT AppliedWasValidated
