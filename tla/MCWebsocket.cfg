CONSTANTS
    c1 = c1
    c2 = c2
    a1 = a1
    Clients = {c1, c2}
    Accounts = {a1}
    Consumer = Consumer
    None = None
    WsCap = 1
    MsgCap = 1
    MaxChanges = 4
    MaxRequests <- MCRequests
SPECIFICATION Spec
CHECK_DEADLOCK FALSE
INVARIANTS OnlyOwnAccounts ChangesInOrder GoneIsForgotten
PROPERTIES StaysSubscribed MatcherGoesOn
