CONSTANTS
    p1 = p1
    Perpetuals = {p1}
    Orders = {o1, o2}
    PerpetualOf <- MCPerpetualOf
    Requests = {r1, r2}
    Starter = start
    None = None
    MaxRestarts = 1
    MaxFaults = 1
SYMMETRY MCSymmetry
CONSTRAINT MCOneStray
SPECIFICATION Spec
INVARIANTS NoOrderForgotten GhostsHaveACause OneLoop AcceptedOnce OpenIsTimed

\* With every order of the instance in the table and no matcher started (the
\* orders could not be read), the service waits for the next order.
CHECK_DEADLOCK FALSE
