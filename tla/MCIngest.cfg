CONSTANTS
    Block <- MCBlock
    NoBlock = "none"
    Genesis = "g"
    HeightOf <- MCHeightOf
    Chain <- MCChain
    Trees <- AllTrees
    Bad <- BadBlocks
    Unsolved = {}
    FinalityDepth = 2
    RewindMax = 2
    Batch = 2
    MaxFaults = 1
    Callers = {"t1", "t2"}
    Deployments <- MCDeployments
    Nobody = "nobody"
    PendingCap = 1
    InboxCap = 2
SPECIFICATION MCSpec
INVARIANTS AcceptedScriptChecked 
PROPERTIES  WedgePaged
