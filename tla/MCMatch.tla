------------------------------ MODULE MCMatch ------------------------------
(***************************************************************************)
(* Instances of Match. The orders are "buy" and "sell"; a run takes one or *)
(* both of them. The sell order is close-only, and small remainders of it  *)
(* are canceled with a match.                                              *)
(***************************************************************************)
EXTENDS Match

CONSTANTS Size  \* the absolute amount of each order

MCAmount == [o \in Orders |-> IF o = "buy" THEN Size ELSE -Size]

MCMinTrade == [o \in Orders |-> IF o = "buy" THEN 1 ELSE -2]

MCTrader == [o \in Orders |-> "trader"]

MCCloseOnly == Orders \cap {"sell"}

=============================================================================
