CONSTANTS
  NumMatches = 2
  a1 = a1
  a2 = a2
  Accounts = {a1, a2}
  Prices = {1}
  MaxRows = 2
  MaxNonce = 2
  Budgets <- Reorganized
SPECIFICATION FairSpec
PROPERTY EventuallySettled
PROPERTY EventuallyTracksChain
CHECK_DEADLOCK FALSE
