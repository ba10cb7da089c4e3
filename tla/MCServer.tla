------------------------------ MODULE MCServer ------------------------------
(* Two orders of one perpetual and two requests at a time.                 *)
EXTENDS Server, FiniteSets, TLC

CONSTANTS p1   \* a model value

MCPerpetualOf == [o \in Orders |-> p1]

\* Bound: the registered matcher and one that lost the race to serve p1.
MCOneStray == Cardinality(made) <= 2

\* Neither orders of a perpetual nor requests are told apart.
MCSymmetry == Permutations(Orders) \cup Permutations(Requests)
=============================================================================
