CONSTANTS
    MarkPrice = 7200
    UnitAccumulativeFunding = 720
    KeeperGasReward = 720
    InitialMarginRate = 5
    LpFeeRate = 1
    OtherFeeRate = 1
    RateBase = 40
    Accounts <- MCAccounts
    Menu <- MCMenu
    Prices <- MCPrices
    MaxOrders = 2
SPECIFICATION Spec
INVARIANTS MonitorKeepsOrders WalletSuffices
CHECK_DEADLOCK FALSE
