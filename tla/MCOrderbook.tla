---------------------------- MODULE MCOrderbook ----------------------------
(***************************************************************************)
(* Instances of Orderbook for TLC                                          *)
(***************************************************************************)
EXTENDS Orderbook

\* Two prices, two orders at the first one
TwoPrices == ("o1" :> 1) @@ ("o2" :> 1) @@ ("o3" :> 2)
============================================================================
