-------------------------- MODULE PerpetualSyncer --------------------------
(***************************************************************************)
(* The perpetual syncer (package perpetualsyncer): every ten seconds it    *)
(* asks the subgraph for the perpetuals created after the last block it    *)
(* has seen and inserts them into the table perpetuals. Where it stands is *)
(* not stored: after a restart it goes on from the newest perpetual of the *)
(* table.                                                                  *)
(***************************************************************************)
EXTENDS Integers, FiniteSets, FiniteSetsExt

CONSTANTS
  Perpetuals,   \* the perpetuals ever created
  BlockOf,      \* the block each of them is created in
  Unparseable,  \* those whose numbers do not parse
  PageSize      \* how many perpetuals one answer of the subgraph holds

ASSUME PerpetualsAssumption ==
  /\ IsFiniteSet(Perpetuals)
  /\ BlockOf \in [Perpetuals -> Nat \ {0}]
  /\ Unparseable \subseteq Perpetuals
  /\ PageSize \in Nat \ {0}

VARIABLES
  listed,       \* the perpetuals the subgraph has indexed
  answer,       \* of the answer of the subgraph, what is left to handle
  syncedBlockNumber,
  perpetuals,   \* table perpetuals
  failed        \* perpetuals that could not be read or inserted
perpetualVars == <<listed, answer, syncedBlockNumber, perpetuals, failed>>

\* The rows are perpetuals of the subgraph, and the syncer is never behind
\* the table.
PerpetualTypeOK ==
  /\ listed \subseteq Perpetuals
  /\ answer \subseteq listed
  /\ syncedBlockNumber \in Nat
  /\ perpetuals \subseteq listed
  /\ failed \subseteq listed
  /\ \A p \in perpetuals : BlockOf[p] <= syncedBlockNumber

PerpetualInit ==
  /\ listed = {}
  /\ answer = {}
  /\ syncedBlockNumber = 0
  /\ perpetuals = {}
  /\ failed = {}

\* The subgraph indexes the next block that creates perpetuals.
IndexBlock ==
  /\ \E p \in Perpetuals \ listed :
       /\ \A q \in Perpetuals \ listed : BlockOf[p] <= BlockOf[q]
       /\ listed' = listed \cup {q \in Perpetuals : BlockOf[q] = BlockOf[p]}
  /\ UNCHANGED <<answer, syncedBlockNumber, perpetuals, failed>>

\* Bug: createdAtBlockNumber_gte
NotOlder == {p \in listed : BlockOf[p] >= syncedBlockNumber}

\* createdAtBlockNumber_gt
NewPerpetuals == {p \in listed : BlockOf[p] > syncedBlockNumber}

\* The subgraph answers with the oldest of them. A query that fails changes
\* nothing.
Query ==
  /\ answer = {}
  /\ answer' \in {S \in SUBSET NewPerpetuals :
                    /\ S # {}
                    /\ Cardinality(S) <= PageSize
                    /\ Cardinality(S) < PageSize => S = NewPerpetuals
                    /\ \A p \in S, q \in NewPerpetuals \ S : BlockOf[p] <= BlockOf[q]}
  /\ UNCHANGED <<listed, syncedBlockNumber, perpetuals, failed>>

\* Bug: the answer is in no order.
Unordered(p) == p \in answer

\* orderBy: createdAtBlockNumber
Oldest(p) == p \in answer /\ \A q \in answer : BlockOf[p] <= BlockOf[q]

\* The synced block number after p
Synced(p) == Max({syncedBlockNumber, BlockOf[p]})

\* One perpetual of syncPerpetual. The block counts as synced even if the
\* perpetual cannot be inserted.
syncPerpetual(p) ==
  /\ Oldest(p)
  /\ p \notin Unparseable
  /\ answer' = answer \ {p}
  /\ syncedBlockNumber' = Synced(p)
  /\ \/ perpetuals' = perpetuals \cup {p} /\ UNCHANGED failed
     \/ failed' = failed \cup {p} /\ UNCHANGED perpetuals
  /\ UNCHANGED listed

\* A number that does not parse: the perpetual is skipped, its block does
\* not count.
SkipUnparsed(p) ==
  /\ Oldest(p)
  /\ p \in Unparseable
  /\ answer' = answer \ {p}
  /\ failed' = failed \cup {p}
  /\ UNCHANGED <<listed, syncedBlockNumber, perpetuals>>

\* GetPerpetualSyncedBlockNumber, after a restart
NewPerpetualSyncer ==
  /\ answer' = {}
  /\ syncedBlockNumber' = Max({0} \cup {BlockOf[p] : p \in perpetuals})
  /\ UNCHANGED <<listed, perpetuals, failed>>

PerpetualNext ==
  \/ IndexBlock
  \/ Query
  \/ \E p \in answer : syncPerpetual(p) \/ SkipUnparsed(p)

\* No perpetual is passed over: whatever is not newer than the synced block
\* is in the table, still in the answer being handled, or was read and
\* refused, except when another perpetual of its block made the block count
\* as synced (a restart between the two, or an answer that ends between
\* them). The synced block alone remembers the progress, across crashes,
\* partial answers and failed inserts.
NothingSkipped ==
  \A p \in listed \ (perpetuals \cup answer \cup failed) :
    BlockOf[p] <= syncedBlockNumber =>
      \E q \in perpetuals \cup failed : q # p /\ BlockOf[q] = BlockOf[p]

\* Every perpetual that is the only one of its block gets into the table,
\* unless it was read and refused: one that does not parse holds up nobody,
\* as long as such perpetuals do not fill an answer of the subgraph.
EventuallyListed ==
  Cardinality(Unparseable) < PageSize =>
  \A p \in Perpetuals :
    (p \in listed /\ \A q \in Perpetuals \ {p} : BlockOf[q] # BlockOf[p])
      ~> (p \in perpetuals \cup failed)

\* The loop runs forever, and the subgraph answers now and then.
PerpetualFairness ==
  /\ WF_perpetualVars(Query)
  /\ WF_perpetualVars(\E p \in answer : syncPerpetual(p) \/ SkipUnparsed(p))
============================================================================
