SPECIFICATION Spec
CONSTANTS
  Orders = {"buy"}
  MaxTxs = 2
  Size = 3
  MaxLot = 3
  MaxOrderNum = 2
  MaxMatchGroup = 2
  MaxFaults = 1
  Amount <- MCAmount
  MinTrade <- MCMinTrade
  Trader <- MCTrader
  CloseOnly <- MCCloseOnly
INVARIANTS
  TypeOK
  BookMatchesDB
  PartsWithinOrder
  PendingIsInFlight
  SettlementApplies
  Conservation
PROPERTIES
  ClosedStaysClosed
