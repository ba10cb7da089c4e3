SPECIFICATION Spec
CONSTANTS
  Orders = {"buy", "sell"}
  MaxTxs = 1
  Size = 2
  MaxLot = 2
  MaxOrderNum = 2
  MaxMatchGroup = 2
  MaxFaults = 0
  Amount <- MCAmount
  MinTrade <- MCMinTrade
  Trader <- MCTrader
  CloseOnly <- MCCloseOnly
INVARIANTS
  StatusTellsAmounts
PROPERTIES
  RestartKeepsBook
  ExpiryClosesOrder
