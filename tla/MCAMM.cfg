CONSTANTS
    Pools <- MCPools
    Amounts <- MCAmounts
    FarPrices <- MCFarPrices
    Positions <- MCPositions
    Shares <- MCShares
    MaxTrades <- MCMaxTrades
SPECIFICATION Spec
INVARIANTS LimitKept OfferIsMost PoolMarginKept DividingGainsNothing
CHECK_DEADLOCK FALSE
