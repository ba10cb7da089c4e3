----------------------------- MODULE PoolSyncer -----------------------------
(***************************************************************************)
(* The pool syncer (match/pool_syncer.go): a cache of the liquidity pools' *)
(* storages, shared by the matchers of all perpetuals. A loop refreshes    *)
(* the pools that are in use; the launcher marks a pool dirty when a trade *)
(* with it was mined, and whoever finds a pool dirty asks the chain. One   *)
(* lock guards the cache and is held during the calls to the node.         *)
(***************************************************************************)
EXTENDS Integers

CONSTANTS
  Pools,      \* liquidity pools
  Callers,    \* goroutines that call GetPoolStorage: matchers, monitors
  MaxState    \* bound on how often a pool changes on the chain

ASSUME PoolsAssumption == MaxState \in Nat

\* A storage is told by the state of the pool it was read in.
States == 0..MaxState
Nil == -1
NoPool == "none"

VARIABLES
  state,      \* the state of each pool on the chain
  poolStorage,\* the cache
  lock,       \* the write lock: who holds it, for which pool, and what the
              \* node answered so far
  round,      \* the pools runSyncer has still to visit in this round
  get,        \* the last or running GetPoolStorage of each caller
  minedAt     \* the state of each pool when it was last marked dirty
poolVars == <<state, poolStorage, lock, round, get, minedAt>>

\* model.poolInfo; recent: latestGet is less than POOL_STORAGE_USE_DURATION
\* ago
PoolInfo == [storage : States \cup {Nil}, recent : BOOLEAN, isDirty : BOOLEAN]
Absent == [storage |-> Nil, recent |-> FALSE, isDirty |-> FALSE]

Unlocked == [holder |-> "nobody", pool |-> NoPool]
Added == DOMAIN poolStorage
Reading(c) == get[c].pc = "fetch"

\* The types, and the lock is held by one writer or by readers.
PoolTypeOK ==
  /\ state \in [Pools -> States]
  /\ Added \subseteq Pools
  /\ \A p \in Added : poolStorage[p] \in PoolInfo
  /\ \/ lock = Unlocked
     \/ lock \in [holder : {"syncPool", "AddPool"}, pool : Pools]
     \/ lock \in [holder : {"syncPool", "AddPool"}, pool : Pools,
                  got : States \cup {Nil}]
  /\ round \subseteq Added
  /\ get \in [Callers -> [pc : {"fetch", "done"}, pool : Pools \cup {NoPool},
                          since : States \cup {Nil}, storage : States \cup {Nil}]]
  /\ \A c \in Callers : Reading(c) => lock = Unlocked
  /\ minedAt \in [Pools -> States \cup {Nil}]

PoolInit ==
  /\ state = [p \in Pools |-> 0]
  /\ poolStorage = [p \in {} |-> Absent]
  /\ lock = Unlocked
  /\ round = {}
  /\ get = [c \in Callers |-> [pc |-> "done", pool |-> NoPool, since |-> Nil, storage |-> Nil]]
  /\ minedAt = [p \in Pools |-> Nil]

-----------------------------------------------------------------------------
\* The lock (sync.RWMutex)
CanLock == lock = Unlocked /\ \A c \in Callers : ~Reading(c)

CanRLock == lock = Unlocked

\* A trade changes a pool on the chain.
PoolChanges(p) ==
  /\ state[p] < MaxState
  /\ state' = [state EXCEPT ![p] = @ + 1]
  /\ UNCHANGED <<poolStorage, lock, round, get, minedAt>>

\* POOL_STORAGE_USE_DURATION has passed since latestGet.
Unused(p) ==
  /\ p \in Added
  /\ poolStorage' = [poolStorage EXCEPT ![p] = [@ EXCEPT !.recent = FALSE]]
  /\ UNCHANGED <<state, lock, round, get, minedAt>>

\* GetLiquidityPoolStorage answers with the state of the moment, or fails.
GetLiquidityPoolStorage(p) == {state[p], Nil}

-----------------------------------------------------------------------------
\* The loop: a round visits the pools in the order of a Go map. A pool that
\* is added meanwhile waits for the next round at most.
runSyncer ==
  /\ round = {}
  /\ Added # {}
  /\ round' = Added
  /\ UNCHANGED <<state, poolStorage, lock, get, minedAt>>

\* Bug: a pool that is not in use is just left alone.
LeaveUnused(info) == info

MarkUnused(info) == [info EXCEPT !.isDirty = TRUE]

\* syncPool takes the lock: a pool nobody used is marked, others are read.
syncPool(p) ==
  /\ p \in round
  /\ CanLock
  /\ round' = round \ {p}
  /\ IF poolStorage[p].recent
     THEN lock' = [holder |-> "syncPool", pool |-> p] /\ UNCHANGED poolStorage
     ELSE /\ poolStorage' = [poolStorage EXCEPT ![p] = MarkUnused(@)]
          /\ UNCHANGED lock
  /\ UNCHANGED <<state, get, minedAt>>

\* AddPool, from newMatch. A pool that is there already is left as it is.
AddPool(p) ==
  /\ p \notin Added
  /\ CanLock
  /\ lock' = [holder |-> "AddPool", pool |-> p]
  /\ UNCHANGED <<state, poolStorage, round, get, minedAt>>

\* The node answers whoever holds the lock.
Answer ==
  /\ lock # Unlocked
  /\ "got" \notin DOMAIN lock
  /\ \E s \in GetLiquidityPoolStorage(lock.pool) :
       lock' = [holder |-> lock.holder, pool |-> lock.pool, got |-> s]
  /\ UNCHANGED <<state, poolStorage, round, get, minedAt>>

\* A refresh: a storage that cannot be read is dirty.
Refreshed(info, s) == [info EXCEPT !.storage = s, !.isDirty = (s = Nil)]

\* The answer is stored and the lock released. A new pool is stored as
\* clean even if its storage could not be read.
Store ==
  /\ "got" \in DOMAIN lock
  /\ poolStorage' =
       IF lock.holder = "AddPool"
       THEN [p \in Added \cup {lock.pool} |->
               IF p \in Added THEN poolStorage[p]
               ELSE [storage |-> lock.got, recent |-> TRUE, isDirty |-> FALSE]]
       ELSE [poolStorage EXCEPT ![lock.pool] = Refreshed(@, lock.got)]
  /\ lock' = Unlocked
  /\ UNCHANGED <<state, round, get, minedAt>>

-----------------------------------------------------------------------------
\* GetPoolStorage with an unknown or a clean pool: what is stored
GetCached(c, p) ==
  /\ ~Reading(c)
  /\ CanRLock
  /\ p \in Added => ~poolStorage[p].isDirty
  /\ get' = [get EXCEPT ![c] =
       [pc |-> "done", pool |-> p, since |-> minedAt[p],
        storage |-> IF p \in Added THEN poolStorage[p].storage ELSE Nil]]
  /\ UNCHANGED <<state, poolStorage, lock, round, minedAt>>

\* With a dirty pool: the caller asks the chain itself, under the read lock;
\* the cache stays dirty.
GetDirty(c, p) ==
  /\ ~Reading(c)
  /\ CanRLock
  /\ p \in Added
  /\ poolStorage[p].isDirty
  /\ poolStorage' = [poolStorage EXCEPT ![p] = [@ EXCEPT !.recent = TRUE]]
  /\ get' = [get EXCEPT ![c] = [pc |-> "fetch", pool |-> p, since |-> minedAt[p], storage |-> Nil]]
  /\ UNCHANGED <<state, lock, round, minedAt>>

GetReturns(c) ==
  /\ Reading(c)
  /\ \E s \in GetLiquidityPoolStorage(get[c].pool) :
       get' = [get EXCEPT ![c] = [@ EXCEPT !.pc = "done", !.storage = s]]
  /\ UNCHANGED <<state, poolStorage, lock, round, minedAt>>

\* Bug: the mark is set without the lock.
MarkedUnlocked == TRUE

CanMark == CanLock

\* SetPoolStorageDirty, from the launcher's syncer: a trade was mined.
SetPoolStorageDirty(p) ==
  /\ CanMark
  /\ p \in Added
  /\ poolStorage' = [poolStorage EXCEPT ![p] = [@ EXCEPT !.isDirty = TRUE]]
  /\ minedAt' = [minedAt EXCEPT ![p] = state[p]]
  /\ UNCHANGED <<state, lock, round, get>>

\* After a restart of the process the cache is empty.
newPoolSyncer ==
  /\ poolStorage' = [p \in {} |-> Absent]
  /\ lock' = Unlocked
  /\ round' = {}
  /\ get' = [c \in Callers |-> [pc |-> "done", pool |-> NoPool, since |-> Nil, storage |-> Nil]]
  /\ minedAt' = [p \in Pools |-> Nil]
  /\ UNCHANGED state

PoolNext ==
  \/ runSyncer \/ Answer \/ Store
  \/ \E p \in Pools :
       \/ PoolChanges(p) \/ Unused(p)
       \/ syncPool(p)
       \/ SetPoolStorageDirty(p)
       \/ \E c \in Callers : GetCached(c, p) \/ GetDirty(c, p)
  \/ \E c \in Callers : GetReturns(c)

-----------------------------------------------------------------------------
\* A matcher never computes with a pool from before a settlement it could
\* know of: once SetPoolStorageDirty has returned, no later GetPoolStorage
\* returns a storage older than the settled trade, whatever refresh was
\* running.
SeesSettlement ==
  \A c \in Callers : get[c].pc = "done" =>
    get[c].storage = Nil \/ get[c].storage >= get[c].since

\* The cache does not stay behind the chain: a pool that no longer changes
\* is eventually cached in its last state, or dirty, so that callers ask the
\* chain. In particular a pool whose first read failed, cached as clean
\* without a storage, comes to life.
CatchesUp ==
  \A p \in Pools :
    (p \in Added /\ state[p] = MaxState) ~>
      (p \notin Added \/ poolStorage[p].isDirty \/ poolStorage[p].storage = MaxState)

\* The loop runs forever and the node answers every call, if with an error.
\* A waiting Lock keeps new readers out, so the loop gets the lock.
PoolFairness ==
  /\ WF_poolVars(runSyncer)
  /\ SF_poolVars(\E p \in round : syncPool(p))
  /\ WF_poolVars(Answer)
  /\ WF_poolVars(Store)
  /\ WF_poolVars(\E c \in Callers : GetReturns(c))
=============================================================================
