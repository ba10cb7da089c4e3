------------------------------ MODULE Syncers ------------------------------
(***************************************************************************)
(* The two syncers in one process: the perpetual syncer fills the table of *)
(* perpetuals, and the match server adds to the pool syncer the pools of   *)
(* the perpetuals it finds there.                                          *)
(***************************************************************************)
EXTENDS PerpetualSyncer, PoolSyncer

CONSTANTS
  PoolOf,       \* the liquidity pool of each perpetual
  MaxRestarts   \* bound on restarts of the process

ASSUME PoolOfAssumption == PoolOf \in [Perpetuals -> Pools] /\ MaxRestarts \in Nat

VARIABLE restarts
vars == <<perpetualVars, poolVars, restarts>>

\* The types; the rows of the table are perpetuals of the subgraph and not newer
\* than the synced block; the lock of the pool syncer keeps readers and writers
\* apart.
TypeOK == PerpetualTypeOK /\ PoolTypeOK /\ restarts \in Nat

Init == PerpetualInit /\ PoolInit /\ restarts = 0

\* newMatch, for a perpetual of the table: on start and on its first order
newMatch ==
  /\ \E p \in perpetuals : AddPool(PoolOf[p])
  /\ UNCHANGED <<perpetualVars, restarts>>

\* The process stops at any moment and starts again.
Restart ==
  /\ restarts < MaxRestarts
  /\ restarts' = restarts + 1
  /\ NewPerpetualSyncer
  /\ newPoolSyncer

Next ==
  \/ PerpetualNext /\ UNCHANGED <<poolVars, restarts>>
  \/ PoolNext /\ UNCHANGED <<perpetualVars, restarts>>
  \/ newMatch
  \/ Restart

Spec == Init /\ [][Next]_vars /\ PerpetualFairness /\ PoolFairness
============================================================================
