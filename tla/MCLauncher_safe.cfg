CONSTANTS
  NumMatches = 2
  a1 = a1
  a2 = a2
  Accounts = {a1, a2}
  Prices = {1, 2}
  MaxRows = 3
  MaxNonce = 3
  Budgets <- Troubles
SPECIFICATION Spec
INVARIANT ExecutedAtMostOnce
INVARIANT AbortedIsNotExecuted
INVARIANT SettledAtMostOnce
INVARIANT PendingIsOnItsWay
INVARIANT OneNonceOneMatch
PROPERTY CanceledIsFinal
CHECK_DEADLOCK FALSE
