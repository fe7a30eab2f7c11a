CONSTANTS
    Block <- MCBlock
    NoBlock = "none"
    HeightOf <- MCHeightOf
    Anc <- MCAnc
    Bodies = {"a2", "a3", "b2"}
    MaxHeight = 4
    MaxGap = 2
SPECIFICATION Spec
INVARIANTS TypeOK WindowIsAncestry
PROPERTY DescendantKeepsWindow
