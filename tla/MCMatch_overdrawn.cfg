SPECIFICATION Spec
CONSTANTS
  Orders = {"sell"}
  MaxTxs = 2
  Size = 2
  MaxLot = 2
  MaxOrderNum = 2
  MaxMatchGroup = 2
  MaxFaults = 1
  Amount <- MCAmount
  MinTrade <- MCMinTrade
  Trader <- MCTrader
  CloseOnly <- MCCloseOnly
INVARIANTS
  NeverOverdrawn
