CONSTANTS
    MaxMoney = 3
    Subsidy = 1
    Maturity = 2
    BlockHeight = 2
    Blocks <- MCBlocks
    CoinSets <- MCCoinSets
SPECIFICATION Spec
INVARIANTS   InverseRestores
CHECK_DEADLOCK FALSE
