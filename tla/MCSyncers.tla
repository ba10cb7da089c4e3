----------------------------- MODULE MCSyncers -----------------------------
(***************************************************************************)
(* An instance of Syncers for TLC: a perpetual that may not parse, two of  *)
(* the next block, one of a later block, all of the same pool.             *)
(***************************************************************************)
EXTENDS Syncers

MCBlockOf ==
  [p \in Perpetuals |-> CASE p = "first" -> 1 [] p \in {"second", "third"} -> 2 [] p = "fourth" -> 3]
MCPoolOf == [p \in Perpetuals |-> CHOOSE q \in Pools : TRUE]
============================================================================
