CONSTANTS
    Block <- MCBlock
    NoBlock = "none"
    HeightOf <- MCHeightOf
    Anc <- MCAnc
    Bodies = {}
    MaxHeight = 3
    MaxGap = 2
    Supervisors = {"s"}
    Sync = {"t1", "t2"}
    Deployments = {{"s"}, {"t1", "t2"}}
    NoThread = "nobody"
SPECIFICATION DriveSpec
 
PROPERTY ImplementsWindow
