CONSTANTS
  Orders = {"o1", "o2", "o3"}
  Price <- TwoPrices
  MaxLot = 2
SPECIFICATION Spec
INVARIANT PricesAgree
PROPERTY AbstractSpec
