--------------------------- MODULE Syncers_proofs ---------------------------
(***************************************************************************)
(* Safety of the two syncers, for all perpetuals, blocks, pools and        *)
(* callers and any number of restarts.                                     *)
(***************************************************************************)
EXTENDS Syncers, FiniteSetTheorems, WellFoundedInduction, NaturalsInduction, TLAPS

-----------------------------------------------------------------------------
(***************************************************************************)
(* The pool syncer                                                         *)
(***************************************************************************)

\* A trade is mined before its pool is marked.
MinedBefore == \A p \in Pools : minedAt[p] <= state[p]

\* A clean storage is not older than the last trade the pool was marked for.
CleanIsFresh ==
  \A p \in Added : ~poolStorage[p].isDirty =>
    poolStorage[p].storage = Nil \/ poolStorage[p].storage >= minedAt[p]

\* Neither is what the node answered the holder of the lock: no pool is
\* marked as long as the lock is held.
AnswerIsFresh ==
  "got" \in DOMAIN lock => lock.got = Nil \/ lock.got >= minedAt[lock.pool]

\* A caller that asks the chain has called after the trade it must see.
CallerMayAsk ==
  \A c \in Callers : Reading(c) =>
    get[c].pool \in Pools /\ get[c].since <= state[get[c].pool]

PoolInv ==
  /\ PoolTypeOK /\ MinedBefore /\ CleanIsFresh /\ AnswerIsFresh
  /\ CallerMayAsk /\ SeesSettlement

LEMMA StatesAreNumbers == States \subseteq Nat /\ Nil \notin States /\ Nil \in Int /\ \A s \in States : Nil < s
BY DEF States, Nil

\* What the record operators do to a cached pool.
LEMMA PoolInfoOperators ==
  ASSUME NEW info \in PoolInfo
  PROVE  /\ \A b \in BOOLEAN :
              /\ [info EXCEPT !.recent = b] \in PoolInfo
              /\ [info EXCEPT !.recent = b].storage = info.storage
              /\ [info EXCEPT !.recent = b].isDirty = info.isDirty
         /\ [info EXCEPT !.isDirty = TRUE] \in PoolInfo
         /\ [info EXCEPT !.isDirty = TRUE].isDirty
         /\ MarkUnused(info) \in PoolInfo
         /\ MarkUnused(info).isDirty
         /\ \A s \in States \cup {Nil} :
              /\ Refreshed(info, s) \in PoolInfo
              /\ Refreshed(info, s).storage = s
BY DEF PoolInfo, MarkUnused, Refreshed

LEMMA Locks ==
  ASSUME PoolTypeOK, "got" \in DOMAIN lock
  PROVE  lock \in [holder : {"syncPool", "AddPool"}, pool : Pools, got : States \cup {Nil}]
BY DEF PoolTypeOK, Unlocked

\* A changed pool stays in the cache, and the others are left alone.
LEMMA ChangePool ==
  ASSUME PoolTypeOK, NEW p \in Added, NEW info \in PoolInfo,
         poolStorage' = [poolStorage EXCEPT ![p] = info]
  PROVE  /\ Added' = Added /\ poolStorage'[p] = info
         /\ \A q \in Added : poolStorage'[q] \in PoolInfo
         /\ \A q \in Added \ {p} : poolStorage'[q] = poolStorage[q]
<1>1. \A q \in Added : poolStorage[q] \in PoolInfo
  BY DEF PoolTypeOK
<1>2. Added' = Added
  BY DEF Added
<1>3. /\ poolStorage'[p] = info
      /\ \A q \in Added \ {p} : poolStorage'[q] = poolStorage[q]
  BY DEF Added
<1>4. QED
  BY <1>1, <1>2, <1>3

LEMMA PoolChangesKeeps ==
  ASSUME PoolInv, NEW p \in Pools, PoolChanges(p)
  PROVE  PoolInv'
<1>1. CleanIsFresh' /\ AnswerIsFresh' /\ SeesSettlement'
  BY DEF PoolInv, PoolChanges, CleanIsFresh, AnswerIsFresh, SeesSettlement,
     Added
<1>2. PoolTypeOK'
  <2>1. state' \in [Pools -> States]
    BY PoolsAssumption DEF PoolInv, PoolTypeOK, PoolChanges, States
  <2>2. QED
    BY <2>1 DEF PoolInv, PoolTypeOK, PoolChanges, Added, Reading
<1>3. MinedBefore'
  BY StatesAreNumbers
     DEF PoolInv, MinedBefore, PoolChanges, States, PoolTypeOK
<1>4. CallerMayAsk'
  BY StatesAreNumbers
     DEF PoolInv, CallerMayAsk, PoolChanges, States, Reading, PoolTypeOK
<1>5. QED
  BY <1>1, <1>2, <1>3, <1>4 DEF PoolInv

LEMMA UnusedKeeps ==
  ASSUME PoolInv, NEW p \in Pools, Unused(p)
  PROVE  PoolInv'
<1>1. MinedBefore' /\ AnswerIsFresh' /\ CallerMayAsk' /\ SeesSettlement'
  BY DEF PoolInv, Unused, MinedBefore, AnswerIsFresh, CallerMayAsk,
     SeesSettlement, Reading
<1>2. PoolTypeOK'
  <2>1. [poolStorage[p] EXCEPT !.recent = FALSE] \in PoolInfo /\ p \in Added
    BY PoolInfoOperators DEF PoolInv, PoolTypeOK, Unused
  <2>2. Added' = Added /\ \A q \in Added : poolStorage'[q] \in PoolInfo
    BY <2>1, ChangePool DEF PoolInv, Unused
  <2>3. QED
    BY <2>2 DEF PoolInv, PoolTypeOK, Unused, Reading
<1>3. CleanIsFresh'
  BY DEF PoolInv, CleanIsFresh, Unused, Added
<1>4. QED
  BY <1>1, <1>2, <1>3 DEF PoolInv

LEMMA RunSyncerKeeps ==
  ASSUME PoolInv, runSyncer
  PROVE  PoolInv'
<1>1. /\ MinedBefore' /\ CleanIsFresh' /\ AnswerIsFresh' /\ CallerMayAsk'
      /\ SeesSettlement'
  BY DEF PoolInv, runSyncer, MinedBefore, CleanIsFresh, AnswerIsFresh,
     CallerMayAsk, SeesSettlement, Reading, Added
<1>2. PoolTypeOK'
  BY DEF PoolInv, PoolTypeOK, runSyncer, Added, Reading
<1>3. QED
  BY <1>1, <1>2 DEF PoolInv

LEMMA SyncPoolKeeps ==
  ASSUME PoolInv, NEW p \in Pools, syncPool(p)
  PROVE  PoolInv'
<1>1. MinedBefore' /\ CallerMayAsk' /\ SeesSettlement'
  BY DEF PoolInv, syncPool, MinedBefore, CallerMayAsk, SeesSettlement, Reading
<1>2. CASE poolStorage[p].recent
  <2>1. AnswerIsFresh' /\ CleanIsFresh'
    BY <1>2 DEF PoolInv, syncPool, AnswerIsFresh, CleanIsFresh, Added
  <2>2. PoolTypeOK'
    BY <1>2 DEF PoolInv, PoolTypeOK, syncPool, CanLock, Added, Reading
  <2>3. QED
    BY <1>1, <2>1, <2>2 DEF PoolInv
<1>3. CASE ~poolStorage[p].recent
  <2>1. p \in Added /\ MarkUnused(poolStorage[p]) \in PoolInfo /\ MarkUnused(poolStorage[p]).isDirty
    BY PoolInfoOperators DEF PoolInv, PoolTypeOK, syncPool
  <2>2. poolStorage' = [poolStorage EXCEPT ![p] = MarkUnused(poolStorage[p])]
    BY <1>3 DEF syncPool
  <2>3. /\ Added' = Added /\ poolStorage'[p] = MarkUnused(poolStorage[p])
        /\ \A q \in Added : poolStorage'[q] \in PoolInfo
        /\ \A q \in Added \ {p} : poolStorage'[q] = poolStorage[q]
    BY <2>1, <2>2, ChangePool DEF PoolInv
  <2>4. CleanIsFresh'
    BY <2>1, <2>3 DEF PoolInv, CleanIsFresh, syncPool
  <2>5. PoolTypeOK' /\ AnswerIsFresh'
    BY <1>3, <2>3 DEF PoolInv, PoolTypeOK, syncPool, Reading, AnswerIsFresh
  <2>6. QED
    BY <1>1, <2>4, <2>5 DEF PoolInv
<1>4. QED
  BY <1>2, <1>3

LEMMA AddPoolKeeps ==
  ASSUME PoolInv, NEW p \in Pools, AddPool(p)
  PROVE  PoolInv'
<1>1. MinedBefore' /\ CleanIsFresh' /\ CallerMayAsk' /\ SeesSettlement'
  BY DEF PoolInv, AddPool, MinedBefore, CleanIsFresh, CallerMayAsk,
     SeesSettlement, Reading, Added
<1>2. PoolTypeOK'
  BY DEF PoolInv, PoolTypeOK, AddPool, CanLock, Added, Reading
<1>3. AnswerIsFresh'
  BY DEF AnswerIsFresh, AddPool
<1>4. QED
  BY <1>1, <1>2, <1>3 DEF PoolInv

LEMMA AnswerKeeps ==
  ASSUME PoolInv, Answer
  PROVE  PoolInv'
<1>1. MinedBefore' /\ CleanIsFresh' /\ CallerMayAsk' /\ SeesSettlement'
  BY DEF PoolInv, Answer, MinedBefore, CleanIsFresh, CallerMayAsk,
     SeesSettlement, Reading, Added
<1>2. PoolTypeOK'
  BY DEF PoolInv, PoolTypeOK, Answer, GetLiquidityPoolStorage, Added, Reading
<1>3. AnswerIsFresh'
  BY DEF PoolInv, AnswerIsFresh, Answer, GetLiquidityPoolStorage,
     MinedBefore, PoolTypeOK
<1>4. QED
  BY <1>1, <1>2, <1>3 DEF PoolInv

LEMMA StoreKeeps ==
  ASSUME PoolInv, Store
  PROVE  PoolInv'
<1>1. MinedBefore' /\ CallerMayAsk' /\ SeesSettlement'
  BY DEF PoolInv, Store, MinedBefore, CallerMayAsk, SeesSettlement, Reading
<1>2. /\ lock.pool \in Pools /\ lock.got \in States \cup {Nil}
      /\ lock.got = Nil \/ lock.got >= minedAt[lock.pool]
  BY Locks DEF PoolInv, Store, AnswerIsFresh
<1>3. AnswerIsFresh'
  BY DEF Store, Unlocked, AnswerIsFresh
<1>4. CASE lock.holder = "AddPool"
  <2>1. /\ Added' = Added \cup {lock.pool}
        /\ \A p \in Added : poolStorage'[p] = poolStorage[p]
        /\ lock.pool \notin Added =>
             poolStorage'[lock.pool] = [storage |-> lock.got, recent |-> TRUE, isDirty |-> FALSE]
    BY <1>4 DEF Store, Added
  <2>2. PoolTypeOK'
    <3>1. [storage |-> lock.got, recent |-> TRUE, isDirty |-> FALSE] \in PoolInfo
      BY <1>2 DEF PoolInfo
    <3>2. \A p \in Added' : poolStorage'[p] \in PoolInfo
      BY <2>1, <3>1 DEF PoolInv, PoolTypeOK
    <3>3. QED
      BY <1>2, <2>1, <3>2 DEF PoolInv, PoolTypeOK, Store
  <2>3. CleanIsFresh'
    BY <1>2, <2>1 DEF PoolInv, CleanIsFresh, Store
  <2>4. QED
    BY <1>1, <1>3, <2>2, <2>3 DEF PoolInv
<1>5. CASE lock.holder # "AddPool" /\ lock.pool \in Added
  <2>1. /\ Refreshed(poolStorage[lock.pool], lock.got) \in PoolInfo
        /\ Refreshed(poolStorage[lock.pool], lock.got).storage = lock.got
    <3>1. poolStorage[lock.pool] \in PoolInfo
      BY <1>5 DEF PoolInv, PoolTypeOK
    <3>2. QED
      BY <1>2, <3>1, PoolInfoOperators
  <2>2. poolStorage' = [poolStorage EXCEPT ![lock.pool] = Refreshed(poolStorage[lock.pool], lock.got)]
    BY <1>5 DEF Store
  <2>3. /\ Added' = Added /\ poolStorage'[lock.pool] = Refreshed(poolStorage[lock.pool], lock.got)
        /\ \A q \in Added : poolStorage'[q] \in PoolInfo
        /\ \A q \in Added \ {lock.pool} : poolStorage'[q] = poolStorage[q]
    BY <1>5, <2>1, <2>2, ChangePool DEF PoolInv
  <2>4. CleanIsFresh'
    BY <1>2, <2>1, <2>3 DEF PoolInv, CleanIsFresh, Store
  <2>5. PoolTypeOK'
    BY <2>3 DEF PoolInv, PoolTypeOK, Store
  <2>6. QED
    BY <1>1, <1>3, <2>4, <2>5 DEF PoolInv
<1>6. CASE lock.holder # "AddPool" /\ lock.pool \notin Added
  <2>1. Added' = Added /\ \A q \in Added : poolStorage'[q] = poolStorage[q]
    BY <1>6 DEF Store, Added
  <2>2. QED
    BY <1>1, <1>3, <2>1 DEF PoolInv, CleanIsFresh, PoolTypeOK, Store
<1>7. QED
  BY <1>4, <1>5, <1>6

LEMMA GetCachedKeeps ==
  ASSUME PoolInv, NEW c \in Callers, NEW p \in Pools, GetCached(c, p)
  PROVE  PoolInv'
<1>1. MinedBefore' /\ CleanIsFresh' /\ AnswerIsFresh'
  BY DEF PoolInv, GetCached, MinedBefore, CleanIsFresh, AnswerIsFresh, Added
<1>2. PoolTypeOK'
  BY DEF PoolInv, PoolTypeOK, GetCached, Added, Reading, PoolInfo
<1>3. CallerMayAsk'
  BY DEF PoolInv, CallerMayAsk, GetCached, Reading
<1>4. SeesSettlement'
  BY DEF PoolInv, SeesSettlement, GetCached, CleanIsFresh
<1>5. QED
  BY <1>1, <1>2, <1>3, <1>4 DEF PoolInv

LEMMA GetDirtyKeeps ==
  ASSUME PoolInv, NEW c \in Callers, NEW p \in Pools, GetDirty(c, p)
  PROVE  PoolInv'
<1>1. MinedBefore' /\ AnswerIsFresh'
  BY DEF PoolInv, GetDirty, MinedBefore, AnswerIsFresh
<1>2. PoolTypeOK'
  <2>1. [poolStorage[p] EXCEPT !.recent = TRUE] \in PoolInfo /\ p \in Added
    BY PoolInfoOperators DEF PoolInv, PoolTypeOK, GetDirty
  <2>2. Added' = Added /\ \A q \in Added : poolStorage'[q] \in PoolInfo
    BY <2>1, ChangePool DEF PoolInv, GetDirty
  <2>3. QED
    BY <2>2 DEF PoolInv, PoolTypeOK, GetDirty, CanRLock
<1>3. CleanIsFresh'
  BY DEF PoolInv, CleanIsFresh, GetDirty, Added
<1>4. CallerMayAsk'
  BY DEF PoolInv, CallerMayAsk, GetDirty, Reading, MinedBefore
<1>5. SeesSettlement'
  BY DEF PoolInv, SeesSettlement, GetDirty
<1>6. QED
  BY <1>1, <1>2, <1>3, <1>4, <1>5 DEF PoolInv

LEMMA GetReturnsKeeps ==
  ASSUME PoolInv, NEW c \in Callers, GetReturns(c)
  PROVE  PoolInv'
<1>1. MinedBefore' /\ CleanIsFresh' /\ AnswerIsFresh'
  BY DEF PoolInv, GetReturns, MinedBefore, CleanIsFresh, AnswerIsFresh, Added
<1>2. PoolTypeOK'
  <2>1. PICK s \in GetLiquidityPoolStorage(get[c].pool) :
          get' = [get EXCEPT ![c] = [@ EXCEPT !.pc = "done", !.storage = s]]
    BY DEF GetReturns
  <2>2. s \in States \cup {Nil}
    BY DEF PoolInv, PoolTypeOK, CallerMayAsk, GetReturns,
       GetLiquidityPoolStorage
  <2>3. /\ get' \in [Callers -> [pc : {"fetch", "done"}, pool : Pools \cup {NoPool},
                                since : States \cup {Nil}, storage : States \cup {Nil}]]
        /\ \A d \in Callers : Reading(d)' => Reading(d)
    BY <2>1, <2>2 DEF PoolInv, PoolTypeOK, Reading
  <2>4. QED
    BY <2>3 DEF PoolInv, PoolTypeOK, GetReturns, Added
<1>3. CallerMayAsk'
  BY DEF PoolInv, CallerMayAsk, GetReturns, Reading
<1>4. SeesSettlement'
  BY DEF PoolInv, SeesSettlement, GetReturns, GetLiquidityPoolStorage,
     CallerMayAsk
<1>5. QED
  BY <1>1, <1>2, <1>3, <1>4 DEF PoolInv

LEMMA SetPoolStorageDirtyKeeps ==
  ASSUME PoolInv, NEW p \in Pools, SetPoolStorageDirty(p)
  PROVE  PoolInv'
<1>1. CallerMayAsk' /\ SeesSettlement'
  BY DEF PoolInv, SetPoolStorageDirty, CallerMayAsk, SeesSettlement, Reading
<1>2. PoolTypeOK'
  <2>1. [poolStorage[p] EXCEPT !.isDirty = TRUE] \in PoolInfo /\ p \in Added
    BY PoolInfoOperators DEF PoolInv, PoolTypeOK, SetPoolStorageDirty
  <2>2. Added' = Added /\ \A q \in Added : poolStorage'[q] \in PoolInfo
    BY <2>1, ChangePool DEF PoolInv, SetPoolStorageDirty
  <2>3. QED
    BY <2>2 DEF PoolInv, PoolTypeOK, SetPoolStorageDirty, Reading
<1>3. MinedBefore'
  BY StatesAreNumbers
     DEF PoolInv, MinedBefore, SetPoolStorageDirty, PoolTypeOK
<1>4. CleanIsFresh'
  BY DEF PoolInv, CleanIsFresh, SetPoolStorageDirty, Added
<1>5. AnswerIsFresh'
  BY DEF AnswerIsFresh, SetPoolStorageDirty, CanMark, CanLock, Unlocked
<1>6. QED
  BY <1>1, <1>2, <1>3, <1>4, <1>5 DEF PoolInv

LEMMA NewPoolSyncerKeeps ==
  ASSUME PoolInv, newPoolSyncer
  PROVE  PoolInv'
<1>1. PoolTypeOK'
  BY DEF PoolInv, PoolTypeOK, newPoolSyncer, Added
<1>2. MinedBefore'
  BY StatesAreNumbers, PoolInfoOperators
     DEF PoolInv, MinedBefore, newPoolSyncer, PoolTypeOK
<1>3. CleanIsFresh'
  BY DEF CleanIsFresh, newPoolSyncer, Added
<1>4. AnswerIsFresh'
  BY DEF AnswerIsFresh, newPoolSyncer, Unlocked
<1>5. CallerMayAsk'
  BY DEF CallerMayAsk, newPoolSyncer, Reading
<1>6. SeesSettlement'
  BY DEF SeesSettlement, newPoolSyncer
<1>7. QED
  BY <1>1, <1>2, <1>3, <1>4, <1>5, <1>6 DEF PoolInv

LEMMA PoolInitInv == PoolInit => PoolInv
<1> SUFFICES ASSUME PoolInit PROVE PoolInv
  OBVIOUS
<1>1. PoolTypeOK
  <2>1. 0 \in States
    BY PoolsAssumption DEF States
  <2>2. QED
    BY <2>1 DEF PoolInit, PoolTypeOK, Added
<1>2. MinedBefore /\ CleanIsFresh /\ AnswerIsFresh /\ CallerMayAsk /\ SeesSettlement
  BY DEF PoolInit, MinedBefore, CleanIsFresh, AnswerIsFresh, CallerMayAsk,
     SeesSettlement, Added, Reading, Unlocked, Nil
<1>3. QED
  BY <1>1, <1>2 DEF PoolInv

LEMMA PoolUnchanged ==
  ASSUME PoolInv, UNCHANGED poolVars
  PROVE  PoolInv'
BY DEF poolVars, PoolInv, PoolTypeOK, MinedBefore, CleanIsFresh,
   AnswerIsFresh, CallerMayAsk, SeesSettlement, Added, Reading

LEMMA PoolNextKeeps ==
  ASSUME PoolInv, PoolNext
  PROVE  PoolInv'
BY RunSyncerKeeps, AnswerKeeps, StoreKeeps, PoolChangesKeeps, UnusedKeeps,
   SyncPoolKeeps, SetPoolStorageDirtyKeeps, GetCachedKeeps, GetDirtyKeeps,
   GetReturnsKeeps
   DEF PoolNext

-----------------------------------------------------------------------------
(***************************************************************************)
(* The perpetual syncer                                                    *)
(***************************************************************************)

\* The subgraph indexes block by block.
BlocksInOrder ==
  \A p \in listed, q \in Perpetuals \ listed : BlockOf[p] < BlockOf[q]

\* The syncer stands at a block it has seen.
SyncedIsSeen == syncedBlockNumber = 0 \/ \E p \in listed : BlockOf[p] = syncedBlockNumber

\* The answer is handled in the order of the blocks.
AnswerNotOlder == \A p \in answer : syncedBlockNumber <= BlockOf[p]

\* What is newer than the synced block and not handled yet is not older than
\* the answer, which holds the oldest.
AnswerIsOldest ==
  \A p \in answer, q \in listed \ (perpetuals \cup answer \cup failed) :
    syncedBlockNumber < BlockOf[q] => BlockOf[p] <= BlockOf[q]

PerpetualInv ==
  /\ PerpetualTypeOK /\ BlocksInOrder /\ SyncedIsSeen
  /\ AnswerNotOlder /\ AnswerIsOldest /\ NothingSkipped

\* A finite set of perpetuals has a newest: a smallest set without one would
\* still have none without one of its members.
LEMMA Newest ==
  ASSUME NEW S \in SUBSET Perpetuals, S # {}
  PROVE  \E p \in S : \A q \in S : BlockOf[q] <= BlockOf[p]
<1> DEFINE HasNewest(T) == \E p \in T : \A q \in T : BlockOf[q] <= BlockOf[p]
           Sizes == {n \in Nat : \E T \in SUBSET Perpetuals :
                       T # {} /\ ~HasNewest(T) /\ Cardinality(T) = n}
<1>1. \A T \in SUBSET Perpetuals : IsFiniteSet(T) /\ Cardinality(T) \in Nat
  BY PerpetualsAssumption, FS_Subset, FS_CardinalityType
<1>2. SUFFICES ASSUME ~HasNewest(S) PROVE FALSE
  OBVIOUS
<1>3. Sizes # {} /\ Sizes \subseteq Nat
  BY <1>1, <1>2
<1>4. PICK n \in Sizes : \A m \in Sizes : ~(<<m, n>> \in OpToRel(<, Nat))
  <2> HIDE DEF Sizes
  <2> QED
    BY <1>3, NatLessThanWellFounded, WFMin
<1>5. PICK T \in SUBSET Perpetuals : T # {} /\ ~HasNewest(T) /\ Cardinality(T) = n
  OBVIOUS
<1>6. PICK t \in T : TRUE
  BY <1>5
<1>7. Cardinality(T \ {t}) = n - 1 /\ n - 1 \in Nat
  <2> HIDE DEF HasNewest
  <2>1. Cardinality(T \ {t}) = Cardinality(T) - 1
    BY <1>1, FS_RemoveElement
  <2>2. T \ {t} \in SUBSET Perpetuals
    OBVIOUS
  <2>3. QED
    BY <1>1, <1>5, <2>1
<1>8. T \ {t} = {} \/ HasNewest(T \ {t})
  <2>1. n - 1 \notin Sizes
    <3>1. n \in Nat /\ n - 1 < n
      OBVIOUS
    <3>2. <<n - 1, n>> \in OpToRel(<, Nat)
      BY <1>7 DEF OpToRel
    <3>3. QED
      BY <1>4, <3>2
  <2>2. QED
    BY <1>7, <2>1
<1>9. HasNewest(T)
  <2>1. \A p \in T : BlockOf[p] \in Nat
    BY PerpetualsAssumption
  <2>2. QED
    BY <1>8, <2>1
<1>10. QED
  BY <1>5, <1>9

LEMMA BlocksArePositive == \A p \in Perpetuals : BlockOf[p] \in Nat /\ BlockOf[p] > 0
BY PerpetualsAssumption

LEMMA SyncedIsMax ==
  ASSUME syncedBlockNumber \in Nat, NEW p \in Perpetuals
  PROVE  Synced(p) = IF BlockOf[p] <= syncedBlockNumber THEN syncedBlockNumber ELSE BlockOf[p]
BY DEF Synced, Max

\* GetPerpetualSyncedBlockNumber finds the newest row of the table.
LEMMA NewestRow ==
  ASSUME PerpetualTypeOK, NewPerpetualSyncer
  PROVE  /\ syncedBlockNumber' \in Nat
         /\ syncedBlockNumber' = 0 \/ \E p \in perpetuals : BlockOf[p] = syncedBlockNumber'
         /\ \A p \in perpetuals : BlockOf[p] <= syncedBlockNumber'
<1> DEFINE Blocks == {0} \cup {BlockOf[p] : p \in perpetuals}
<1>1. perpetuals \subseteq Perpetuals
  BY DEF PerpetualTypeOK
<1>2. \E b \in Blocks : \A c \in Blocks : b >= c
  <2>1. CASE perpetuals = {}
    BY <2>1
  <2>2. CASE perpetuals # {}
    BY <1>1, Newest, BlocksArePositive
  <2>3. QED
    BY <2>2
<1>3. syncedBlockNumber' \in Blocks /\ \A c \in Blocks : syncedBlockNumber' >= c
  BY <1>2 DEF NewPerpetualSyncer, Max
<1>4. QED
  BY <1>1, <1>3, BlocksArePositive

LEMMA IndexBlockKeeps ==
  ASSUME PerpetualInv, IndexBlock
  PROVE  PerpetualInv'
<1>1. PICK p \in Perpetuals \ listed :
        /\ \A q \in Perpetuals \ listed : BlockOf[p] <= BlockOf[q]
        /\ listed' = listed \cup {q \in Perpetuals : BlockOf[q] = BlockOf[p]}
  BY DEF IndexBlock
<1>2. PerpetualTypeOK' /\ AnswerNotOlder' /\ SyncedIsSeen'
  BY DEF PerpetualInv, PerpetualTypeOK, AnswerNotOlder, SyncedIsSeen,
     IndexBlock
<1>3. BlocksInOrder'
  BY <1>1, BlocksArePositive DEF PerpetualInv, BlocksInOrder
<1>4. \A q \in listed' \ listed : syncedBlockNumber < BlockOf[q] /\ \A a \in answer : BlockOf[a] < BlockOf[q]
  BY <1>1, BlocksArePositive
     DEF PerpetualInv, PerpetualTypeOK, BlocksInOrder, SyncedIsSeen
<1>5. AnswerIsOldest'
  BY <1>4, BlocksArePositive
     DEF PerpetualInv, PerpetualTypeOK, AnswerIsOldest, IndexBlock
<1>6. NothingSkipped'
  BY <1>4, BlocksArePositive
     DEF PerpetualInv, PerpetualTypeOK, NothingSkipped, IndexBlock
<1>7. QED
  BY <1>2, <1>3, <1>5, <1>6 DEF PerpetualInv

LEMMA QueryKeeps ==
  ASSUME PerpetualInv, Query
  PROVE  PerpetualInv'
<1>1. /\ answer' \subseteq NewPerpetuals
      /\ \A p \in answer', q \in NewPerpetuals \ answer' : BlockOf[p] <= BlockOf[q]
  BY DEF Query
<1>2. PerpetualTypeOK' /\ BlocksInOrder' /\ SyncedIsSeen'
  BY DEF PerpetualInv, PerpetualTypeOK, BlocksInOrder, SyncedIsSeen, Query,
     NewPerpetuals
<1>3. AnswerNotOlder'
  BY BlocksArePositive
     DEF PerpetualInv, PerpetualTypeOK, AnswerNotOlder, Query, NewPerpetuals
<1>4. AnswerIsOldest'
  BY DEF AnswerIsOldest, Query, NewPerpetuals
<1>5. NothingSkipped'
  BY DEF PerpetualInv, NothingSkipped, Query
<1>6. QED
  BY <1>2, <1>3, <1>4, <1>5 DEF PerpetualInv

\* Whatever is passed by the synced block has the block of the perpetual that
\* was handled.
LEMMA SyncPerpetualKeeps ==
  ASSUME PerpetualInv, NEW p \in answer, syncPerpetual(p)
  PROVE  PerpetualInv'
<1>1. /\ p \in listed /\ p \in Perpetuals /\ answer \subseteq Perpetuals
      /\ syncedBlockNumber <= BlockOf[p]
  BY DEF PerpetualInv, PerpetualTypeOK, AnswerNotOlder
<1>2. syncedBlockNumber' = BlockOf[p]
  BY <1>1, SyncedIsMax, BlocksArePositive
     DEF PerpetualInv, PerpetualTypeOK, syncPerpetual
<1>3. PerpetualTypeOK'
  BY <1>1, <1>2, BlocksArePositive
     DEF PerpetualInv, PerpetualTypeOK, syncPerpetual
<1>4. BlocksInOrder' /\ SyncedIsSeen'
  BY <1>1, <1>2 DEF PerpetualInv, BlocksInOrder, SyncedIsSeen, syncPerpetual
<1>5. AnswerNotOlder'
  BY <1>2 DEF AnswerNotOlder, syncPerpetual, Oldest
<1>6. AnswerIsOldest'
  BY <1>1, <1>2, BlocksArePositive
     DEF PerpetualInv, PerpetualTypeOK, AnswerIsOldest, syncPerpetual
<1>7. NothingSkipped'
  <2> SUFFICES ASSUME NEW q \in listed \ (perpetuals' \cup answer' \cup failed'),
                      BlockOf[q] <= syncedBlockNumber'
               PROVE  \E r \in perpetuals' \cup failed' : r # q /\ BlockOf[r] = BlockOf[q]
    BY DEF NothingSkipped, syncPerpetual
  <2>1. q # p /\ q \in listed \ (perpetuals \cup answer \cup failed) /\ p \in perpetuals' \cup failed'
    BY DEF syncPerpetual
  <2>2. CASE BlockOf[q] <= syncedBlockNumber
    BY <2>2 DEF PerpetualInv, NothingSkipped, syncPerpetual
  <2>3. CASE syncedBlockNumber < BlockOf[q]
    <3>1. BlockOf[p] <= BlockOf[q]
      BY <2>1, <2>3 DEF PerpetualInv, AnswerIsOldest
    <3>2. BlockOf[q] = BlockOf[p]
      BY <1>2, <3>1, BlocksArePositive DEF PerpetualInv, PerpetualTypeOK
    <3>3. QED
      BY <2>1, <3>2
  <2>4. QED
    BY <2>2, <2>3, BlocksArePositive DEF PerpetualInv, PerpetualTypeOK
<1>8. QED
  BY <1>3, <1>4, <1>5, <1>6, <1>7 DEF PerpetualInv

LEMMA SkipUnparsedKeeps ==
  ASSUME PerpetualInv, NEW p \in answer, SkipUnparsed(p)
  PROVE  PerpetualInv'
<1>1. PerpetualTypeOK' /\ BlocksInOrder' /\ SyncedIsSeen' /\ AnswerNotOlder'
  BY DEF PerpetualInv, PerpetualTypeOK, BlocksInOrder, SyncedIsSeen,
     AnswerNotOlder, SkipUnparsed
<1>2. AnswerIsOldest' /\ NothingSkipped'
  BY DEF PerpetualInv, AnswerIsOldest, NothingSkipped, SkipUnparsed
<1>3. QED
  BY <1>1, <1>2 DEF PerpetualInv

\* After a restart the synced block may be lower, and what was left of the
\* answer is forgotten: it is not older than any row of the table.
LEMMA NewPerpetualSyncerKeeps ==
  ASSUME PerpetualInv, NewPerpetualSyncer
  PROVE  PerpetualInv'
<1>1. /\ syncedBlockNumber' \in Nat
      /\ syncedBlockNumber' = 0 \/ \E p \in perpetuals : BlockOf[p] = syncedBlockNumber'
      /\ \A p \in perpetuals : BlockOf[p] <= syncedBlockNumber'
  BY NewestRow DEF PerpetualInv
<1>2. syncedBlockNumber' <= syncedBlockNumber
  BY <1>1 DEF PerpetualInv, PerpetualTypeOK
<1>3. /\ PerpetualTypeOK' /\ BlocksInOrder' /\ SyncedIsSeen'
      /\ AnswerNotOlder' /\ AnswerIsOldest'
  BY <1>1
     DEF PerpetualInv, PerpetualTypeOK, BlocksInOrder, SyncedIsSeen,
     AnswerNotOlder, AnswerIsOldest, NewPerpetualSyncer
<1>4. NothingSkipped'
  <2> SUFFICES ASSUME NEW q \in listed \ (perpetuals \cup failed),
                      BlockOf[q] <= syncedBlockNumber'
               PROVE  \E r \in perpetuals \cup failed : r # q /\ BlockOf[r] = BlockOf[q]
    BY DEF NothingSkipped, NewPerpetualSyncer
  <2>1. q \in Perpetuals /\ BlockOf[q] <= syncedBlockNumber
    BY <1>1, BlocksArePositive DEF PerpetualInv, PerpetualTypeOK
  <2>2. CASE q \in answer
    <3>1. BlockOf[q] = syncedBlockNumber'
      BY <1>1, <2>2, BlocksArePositive
         DEF PerpetualInv, PerpetualTypeOK, AnswerNotOlder
    <3>2. QED
      BY <1>1, <2>1, <3>1, BlocksArePositive
  <2>3. CASE q \notin answer
    BY <2>1, <2>3 DEF PerpetualInv, NothingSkipped
  <2>4. QED
    BY <2>2, <2>3
<1>5. QED
  BY <1>3, <1>4 DEF PerpetualInv

LEMMA PerpetualInitInv == PerpetualInit => PerpetualInv
BY DEF PerpetualInit, PerpetualInv, PerpetualTypeOK, BlocksInOrder,
   SyncedIsSeen, AnswerNotOlder, AnswerIsOldest, NothingSkipped

LEMMA PerpetualUnchanged ==
  ASSUME PerpetualInv, UNCHANGED perpetualVars
  PROVE  PerpetualInv'
BY DEF perpetualVars, PerpetualInv, PerpetualTypeOK, BlocksInOrder,
   SyncedIsSeen, AnswerNotOlder, AnswerIsOldest, NothingSkipped

-----------------------------------------------------------------------------
(***************************************************************************)
(* Both in one process                                                     *)
(***************************************************************************)

IInv == PerpetualInv /\ PoolInv /\ restarts \in Nat

\* IInv is inductive.
THEOREM InductiveInvariant == Spec => []IInv
<1>1. Init => IInv
  BY PerpetualInitInv, PoolInitInv DEF Init, IInv
<1>2. IInv /\ [Next]_vars => IInv'
  <2> SUFFICES ASSUME IInv, [Next]_vars PROVE IInv'
    OBVIOUS
  <2>1. CASE PerpetualNext /\ UNCHANGED <<poolVars, restarts>>
    BY <2>1, PoolUnchanged, IndexBlockKeeps, QueryKeeps, SyncPerpetualKeeps,
       SkipUnparsedKeeps
       DEF IInv, PerpetualNext
  <2>2. CASE PoolNext /\ UNCHANGED <<perpetualVars, restarts>>
    BY <2>2, PoolNextKeeps, PerpetualUnchanged DEF IInv
  <2>3. CASE newMatch
    <3>1. \A p \in perpetuals : PoolOf[p] \in Pools
      BY PoolOfAssumption DEF IInv, PerpetualInv, PerpetualTypeOK
    <3>2. QED
      BY <2>3, <3>1, AddPoolKeeps, PerpetualUnchanged DEF IInv, newMatch
  <2>4. CASE Restart
    BY <2>4, NewPerpetualSyncerKeeps, NewPoolSyncerKeeps DEF IInv, Restart
  <2>5. CASE UNCHANGED vars
    BY <2>5, PerpetualUnchanged, PoolUnchanged DEF IInv, vars
  <2>6. QED
    BY <2>1, <2>2, <2>3, <2>4, <2>5 DEF Next
<1>3. QED
  BY <1>1, <1>2, PTL DEF Spec

\* The types; the rows of the table are perpetuals of the subgraph and not newer
\* than the synced block, and the lock of the pool syncer keeps readers and
\* writers apart.
THEOREM TypeCorrect == Spec => []TypeOK
<1>1. IInv => TypeOK
  BY DEF IInv, PerpetualInv, PoolInv, TypeOK
<1>2. QED
  BY InductiveInvariant, <1>1, PTL

\* The perpetual syncer passes over no perpetual, although the synced block is
\* all it remembers and a restart takes even that from the table: what
\* syncPerpetual leaves behind shares its block with one that was handled.
THEOREM NoPerpetualSkipped == Spec => []NothingSkipped
<1>1. IInv => NothingSkipped
  BY DEF IInv, PerpetualInv
<1>2. QED
  BY InductiveInvariant, <1>1, PTL

\* Once SetPoolStorageDirty has returned, GetPoolStorage returns no storage
\* from before the settlement, whatever refresh of the cache was running: the
\* lock is held from the call to the node to the store.
THEOREM SettlementSeen == Spec => []SeesSettlement
<1>1. IInv => SeesSettlement
  BY DEF IInv, PoolInv
<1>2. QED
  BY InductiveInvariant, <1>1, PTL
=============================================================================
