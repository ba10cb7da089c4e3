CONSTANTS
  NumMatches = 2
  a1 = a1
  Accounts = {a1}
  Prices = {1}
  MaxRows = 2
  MaxNonce = 2
  Budgets <- LostOnly
SPECIFICATION Spec
INVARIANT AbortedByExternal
