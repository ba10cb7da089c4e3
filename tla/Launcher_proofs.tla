--------------------------- MODULE Launcher_proofs ---------------------------
(***************************************************************************)
(* Safety of the launcher, for all matches, accounts, gas prices and       *)
(* bounds.  Types are well formed whatever happens; the rest holds while   *)
(* the node keeps what it was given and the chain does not reorganize,     *)
(* however many answers are lost, commits torn, receipts late, nonces used *)
(* by others and processes restarted.                                      *)
(***************************************************************************)
EXTENDS Launcher, FiniteSetTheorems, NaturalsInduction, WellFoundedInduction, TLAPS

-----------------------------------------------------------------------------
(***************************************************************************)
(* Well-formed rows and copies                                             *)
(***************************************************************************)

IdsOf(rows) == {r.id : r \in rows}

\* The primary keys count the rows.
Numbered(rows) ==
  /\ rows \subseteq Row
  /\ \A r, s \in rows : r.id = s.id => r = s
  /\ \E n \in Nat : IdsOf(rows) = 1..n

\* A copy of a row that a loop holds is of a row in the table, and what is
\* about to be sent has a nonce.
CopiesNumbered ==
  /\ exec.pc \in {"decide", "send"} => exec.tx.id \in IdsOf(launch)
  /\ exec.pc = "send" => exec.tx.nonce # NoNonce
  /\ \A tx \in exec.todo : tx.id \in IdsOf(launch) /\ tx.nonce # NoNonce
  /\ \A a \in Accounts : \A tx \in syncTodo[a] : tx.id \in IdsOf(launch)
  /\ \A tx \in monTodo : tx.id \in IdsOf(launch)

\* The chain holds what was sent, at the place its nonce says.
ChainSent ==
  \A a \in Accounts :
    /\ Len(chain[a]) <= MaxNonce + 1
    /\ \A i \in DOMAIN chain[a] :
         chain[a][i].hash # NoHash =>
           /\ chain[a][i].hash \in sent
           /\ chain[a][i].hash.from = a /\ chain[a][i].hash.nonce = i - 1

TInv == TypeOK /\ Numbered(launch) /\ CopiesNumbered /\ ChainSent

-----------------------------------------------------------------------------

\* Every non-empty set of numbers has a least one.
LEMMA LeastNumber ==
  ASSUME NEW S \in SUBSET Nat, S # {}
  PROVE  \E n \in S : \A m \in S : n <= m
<1>1. PICK n \in S : \A m \in SetLessThan(n, OpToRel(<, Nat), Nat) : m \notin S
  BY NatLessThanWellFounded, WFMin DEF SetLessThan
<1>2. \A m \in Nat : m < n => m \notin S
  BY <1>1 DEF SetLessThan, OpToRel
<1> QED
  BY <1>2

LEMMA NumberedCounts ==
  ASSUME NEW rows, Numbered(rows)
  PROVE  Cardinality(rows) \in Nat /\ IdsOf(rows) = 1..Cardinality(rows)
<1>1. PICK n \in Nat : IdsOf(rows) = 1..n
  BY DEF Numbered
<1> DEFINE f == [i \in 1..n |-> CHOOSE r \in rows : r.id = i]
<1>2. \A i \in 1..n : f[i] \in rows /\ f[i].id = i
  BY <1>1 DEF IdsOf
<1>3. \A r \in rows : r.id \in 1..n /\ f[r.id] = r
  BY <1>1, <1>2 DEF IdsOf, Numbered
<1>4. f \in Bijection(1..n, rows)
  <2>1. f \in [1..n -> rows]
    BY <1>2
  <2>2. \A i, j \in 1..n : f[i] = f[j] => i = j
    BY <1>2
  <2>3. \A r \in rows : \E i \in 1..n : f[i] = r
    BY <1>3
  <2> HIDE DEF f
  <2> QED
    BY <2>1, <2>2, <2>3 DEF Bijection, Injection, Surjection, IsInjective
<1>5. Cardinality(rows) = n
  BY <1>4, FS_CountingElements DEF ExistsBijection
<1> QED
  BY <1>1, <1>5

LEMMA UpdateNumbered ==
  ASSUME NEW rows, Numbered(rows), NEW tx \in Row, tx.id \in IdsOf(rows)
  PROVE  /\ Numbered(UpdateTx(rows, tx))
         /\ IdsOf(UpdateTx(rows, tx)) = IdsOf(rows)
<1>1. IdsOf(UpdateTx(rows, tx)) = IdsOf(rows)
  BY DEF IdsOf, UpdateTx
<1>2. QED
  BY <1>1 DEF Numbered, UpdateTx

LEMMA AddNumbered ==
  ASSUME NEW rows, Numbered(rows), NEW tx \in Row, tx.id = 1 + Cardinality(rows)
  PROVE  /\ Numbered(rows \cup {tx})
         /\ IdsOf(rows) \subseteq IdsOf(rows \cup {tx})
         /\ tx.id \notin IdsOf(rows)
<1>1. Cardinality(rows) \in Nat /\ IdsOf(rows) = 1..Cardinality(rows)
  BY NumberedCounts
<1>2. IdsOf(rows \cup {tx}) = 1..(1 + Cardinality(rows))
  BY <1>1 DEF IdsOf
<1>3. tx.id \notin IdsOf(rows)
  BY <1>1
<1>4. QED
  BY <1>1, <1>2, <1>3 DEF Numbered, IdsOf

LEMMA CancelNumbered ==
  ASSUME NEW rows, Numbered(rows), NEW others \in SUBSET rows
  PROVE  LET new == (rows \ others) \cup {[r EXCEPT !.status = "TxCanceled"] : r \in others}
         IN  Numbered(new) /\ IdsOf(new) = IdsOf(rows)
<1> DEFINE canceled == {[r EXCEPT !.status = "TxCanceled"] : r \in others}
           new == (rows \ others) \cup canceled
<1>1. \A r \in others : /\ [r EXCEPT !.status = "TxCanceled"] \in Row
                        /\ [r EXCEPT !.status = "TxCanceled"].id = r.id
  BY DEF Numbered, Row, TxStatus
<1>2. \A c \in canceled :
        c \in Row /\ \E r \in others : c.id = r.id /\ c = [r EXCEPT !.status = "TxCanceled"]
  BY <1>1
<1>3. IdsOf(new) = IdsOf(rows)
  <2>1. ASSUME NEW r \in rows PROVE r.id \in IdsOf(new)
    <3>1. CASE r \in others
      <4>1. [r EXCEPT !.status = "TxCanceled"] \in new
        BY <3>1
      <4> QED
        BY <1>1, <3>1, <4>1 DEF IdsOf
    <3>2. CASE r \notin others
      BY <3>2 DEF IdsOf
    <3> QED
      BY <3>1, <3>2
  <2>2. ASSUME NEW c \in new PROVE c.id \in IdsOf(rows)
    BY <1>2 DEF IdsOf
  <2> HIDE DEF new
  <2> QED
    BY <2>1, <2>2 DEF IdsOf
<1>4. new \subseteq Row
  BY <1>2 DEF Numbered
<1>5. \A r, s \in new : r.id = s.id => r = s
  BY <1>2 DEF Numbered
<1>6. QED
  BY <1>3, <1>4, <1>5 DEF Numbered

\* The first nonce that is neither mined nor in the pool
Taken(a, n) == n < Len(chain[a]) \/ \E h \in pool : h.from = a /\ h.nonce = n

LEMMA PendingNonce ==
  ASSUME TypeOK, ChainSent, NEW a \in Accounts
  PROVE  /\ PendingNonceAt(a) \in Nat
         /\ ~Taken(a, PendingNonceAt(a))
         /\ \A k \in 0..(PendingNonceAt(a) - 1) : Taken(a, k)
<1> DEFINE l == Len(chain[a])
           free == {n \in Nat : ~Taken(a, n)}
<1>1. l \in Nat /\ l <= MaxNonce + 1 /\ MaxNonce \in Nat
  BY ConstantsAssumption DEF TypeOK, ChainSent
<1>2. \A h \in pool : h.nonce \in 0..MaxNonce
  BY DEF TypeOK, Hash, Nonces
<1>3. MaxNonce + 1 \in free
  BY <1>1, <1>2 DEF Taken
<1>4. PICK n \in free : \A m \in free : n <= m
  <2>1. free \in SUBSET Nat
    OBVIOUS
  <2> HIDE DEF free
  <2> QED
    BY <1>3, <2>1, LeastNumber
<1>5. n \in Nat /\ l <= n /\ n <= MaxNonce + 1 /\ ~Taken(a, n)
  BY <1>1, <1>3, <1>4 DEF Taken
<1>6. \A k \in 0..(n - 1) : Taken(a, k)
  BY <1>4, <1>5
<1> DEFINE P(m) == /\ \A h \in pool : h.from = a => h.nonce # m
                   /\ \A k \in l..(m - 1) : \E h \in pool : h.from = a /\ h.nonce = k
<1>7. n \in l..(MaxNonce + 1) /\ P(n)
  BY <1>1, <1>5, <1>6 DEF Taken
<1>8. PendingNonceAt(a) \in l..(MaxNonce + 1) /\ P(PendingNonceAt(a))
  BY <1>7 DEF PendingNonceAt
<1> DEFINE q == PendingNonceAt(a)
<1>9. q \in Nat /\ l <= q
  BY <1>1, <1>8
<1>10. ~Taken(a, q)
  BY <1>1, <1>8, <1>9 DEF Taken
<1>11. \A k \in 0..(q - 1) : Taken(a, k)
  BY <1>1, <1>8, <1>9 DEF Taken
<1> QED
  BY <1>9, <1>10, <1>11

LEMMA FirstTx ==
  ASSUME TypeOK, NEW a, NEW status, TxsOf(a, status) # {}
  PROVE  FirstTxByUser(a, status) \in TxsOf(a, status)
<1> DEFINE S == IdsOf(TxsOf(a, status))
<1>1. S \in SUBSET Nat /\ S # {}
  BY DEF TypeOK, Row, Ids, TxsOf, IdsOf
<1>2. PICK n \in S : \A m \in S : n <= m
  <2> HIDE DEF S
  <2> QED
    BY <1>1, LeastNumber
<1>3. PICK r \in TxsOf(a, status) : \A s \in TxsOf(a, status) : r.id <= s.id
  BY <1>2 DEF IdsOf
<1> QED
  BY <1>3 DEF FirstTxByUser

\* The columns the loops change
LEMMA RowEdits ==
  ASSUME NEW r \in Row
  PROVE  /\ \A s \in TxStatus : [r EXCEPT !.status = s] \in Row
         /\ \A n \in Nonces : [r EXCEPT !.nonce = n] \in Row
         /\ \A h \in Hash : [r EXCEPT !.status = "TxPending", !.hash = h] \in Row
         /\ [r EXCEPT !.nonce = NoNonce, !.hash = NoHash, !.status = "TxInitial"] \in Row
BY DEF Row, TxStatus

LEMMA NoTxIsNoRow == NoTx \notin Row /\ NoHash \notin Hash /\ NoNonce \notin Nat
BY DEF NoTx, NoHash, Row, Hash, Nonces, NoNonce, TxStatus

LEMMA TransactionStatusType ==
  ASSUME NEW s \in TxStatus
  PROVE  TransactionStatus(s) \in MatchStatus
BY DEF TxStatus, TransactionStatus, MatchStatus

LEMMA TInitOK == Init => TInv
<1> SUFFICES ASSUME Init PROVE TInv
  OBVIOUS
<1>1. TypeOK
  BY NoTxIsNoRow DEF Init, TypeOK, MatchStatus, Executor, Idle
<1>2. Numbered(launch)
  <2>1. launch = {} /\ IdsOf(launch) = 1..0
    BY DEF Init, IdsOf
  <2> QED
    BY <2>1 DEF Numbered
<1>3. CopiesNumbered /\ ChainSent
  BY ConstantsAssumption DEF Init, CopiesNumbered, ChainSent, Idle
<1> QED
  BY <1>1, <1>2, <1>3 DEF TInv

\* A hash that is built from what the executor holds
LEMMA HashType ==
  ASSUME TInv, exec.pc = "send", NEW p \in Prices
  PROVE  /\ exec.tx \in Row /\ exec.tx.nonce \in Nonces
         /\ HashAt(p) \in Hash
         /\ HashAt(p).from = exec.tx.from /\ HashAt(p).nonce = exec.tx.nonce
         /\ HashAt(p).txID = exec.tx.txID /\ HashAt(p) # NoHash
<1>1. exec.tx \in Row /\ exec.tx.nonce \in Nonces
  BY DEF TInv, TypeOK, CopiesNumbered, Executor, Row
<1>2. HashAt(p) \in Hash
  BY <1>1 DEF HashAt, Hash, Row
<1> QED
  BY <1>1, <1>2, NoTxIsNoRow DEF HashAt

\* The parts of TInv that a step of the loops does not touch
LEMMA NodeUntouched ==
  ASSUME TInv, UNCHANGED nodeVars
  PROVE  /\ pool' \subseteq sent' /\ sent' \subseteq Hash
         /\ chain' \in [Accounts -> Seq(Entry)] /\ ChainSent'
         /\ mature' \subseteq Matches
BY DEF TInv, TypeOK, ChainSent, nodeVars

LEMMA TLauncher ==
  ASSUME TInv, NEW t \in Matches, NEW a \in Accounts, createLaunchTransaction(t, a)
  PROVE  TInv'
<1> DEFINE new == [id |-> NewId, txID |-> t, from |-> a, nonce |-> NoNonce,
                   hash |-> NoHash, status |-> "TxInitial"]
<1>1. new \in Row /\ new.id = 1 + Cardinality(launch)
  BY NumberedCounts DEF TInv, createLaunchTransaction, NewId, Row, Ids, TxStatus
<1>2. Numbered(launch') /\ IdsOf(launch) \subseteq IdsOf(launch')
  BY <1>1, AddNumbered DEF TInv, createLaunchTransaction
<1>3. TypeOK'
  BY <1>2, NodeUntouched DEF TInv, TypeOK, createLaunchTransaction, Numbered, MatchStatus
<1>4. CopiesNumbered'
  BY <1>2 DEF TInv, CopiesNumbered, createLaunchTransaction
<1> QED
  BY <1>2, <1>3, <1>4, NodeUntouched DEF TInv, createLaunchTransaction

LEMMA TExecuteTransaction ==
  ASSUME TInv, NEW a \in Accounts, executeTransaction(a)
  PROVE  TInv'
<1> DEFINE first == FirstTxByUser(a, "TxInitial")
<1>1. first \in launch /\ first \in Row
  BY FirstTx DEF TInv, TypeOK, executeTransaction, TxsOf
<1>2. PendingNonceAt(a) \in Nat
  BY PendingNonce DEF TInv
<1>3. exec' = [pc |-> "decide", tx |-> first, exp |-> PendingNonceAt(a),
               i |-> 0, end |-> 0, todo |-> {}]
  BY DEF executeTransaction, Idle
<1>4. TypeOK'
  BY <1>1, <1>2, <1>3, NodeUntouched, NoTxIsNoRow
     DEF TInv, TypeOK, executeTransaction, dbVars, Executor
<1>5. first.id \in IdsOf(launch) /\ launch' = launch
  BY <1>1 DEF executeTransaction, dbVars, IdsOf
<1>6. Numbered(launch)'
  BY <1>5 DEF TInv
<1>7. exec'.pc = "decide" /\ exec'.tx.id \in IdsOf(launch) /\ exec'.todo = {}
  BY <1>3, <1>5
<1>8. CopiesNumbered'
  BY <1>5, <1>7 DEF TInv, CopiesNumbered, executeTransaction
<1> QED
  BY <1>4, <1>6, <1>8, NodeUntouched DEF TInv, executeTransaction

LEMMA TReset ==
  ASSUME TInv, Reset
  PROVE  TInv'
<1>1. PICK status \in {"TxPending", "TxCanceled"} :
        /\ UpdateOrdersStatus(exec.tx.txID, TransactionStatus(status))
        /\ \/ launch' = UpdateTx(launch, [exec.tx EXCEPT !.status = status]) /\ used' = used
           \/ launch' = launch /\ Trouble("torn")
  BY DEF Reset
<1>2. exec.tx \in Row /\ exec.tx.id \in IdsOf(launch) /\ exec.tx.txID \in Matches
  BY DEF TInv, TypeOK, CopiesNumbered, Reset, Executor, Row
<1>3. /\ [exec.tx EXCEPT !.status = status] \in Row
      /\ [exec.tx EXCEPT !.status = status].id = exec.tx.id
  BY <1>2, RowEdits DEF TxStatus, Row
<1>4. Numbered(launch') /\ IdsOf(launch') = IdsOf(launch)
  BY <1>1, <1>2, <1>3, UpdateNumbered DEF TInv
<1>5. TransactionStatus(status) \in MatchStatus
  BY TransactionStatusType DEF TxStatus
<1>6. used' \in [Kinds -> Nat]
  BY <1>1 DEF TInv, TypeOK, Trouble, Kinds
<1>7. exec' = Idle
  BY DEF Reset
<1>8. TypeOK'
  <2>1. matchStatus' \in [Matches -> MatchStatus] /\ settled' \in [Matches -> Nat]
    BY <1>1, <1>2, <1>5 DEF TInv, TypeOK, UpdateOrdersStatus
  <2>2. exec' \in Executor /\ exec'.pc = "idle"
    BY <1>7 DEF Executor, Idle
  <2> QED
    BY <1>4, <1>6, <2>1, <2>2, NodeUntouched DEF TInv, TypeOK, Reset, Numbered
<1>9. CopiesNumbered'
  BY <1>4, <1>7 DEF TInv, CopiesNumbered, Reset, Idle
<1> QED
  BY <1>4, <1>8, <1>9, NodeUntouched DEF TInv, Reset

LEMMA TFastForward ==
  ASSUME TInv, fastForward \/ FastForwardRead \/ \E tx \in exec.todo : FastForwardNext(tx)
  PROVE  TInv'
<1>1. UNCHANGED <<dbVars, syncTodo, monTodo, nodeVars, used>>
  BY DEF fastForward, FastForwardRead, FastForwardNext
<1>2. /\ exec' \in Executor
      /\ exec'.pc \in {"decide", "send"} =>
           exec'.tx # NoTx /\ exec'.tx.id \in IdsOf(launch) /\ exec'.tx.nonce # NoNonce
      /\ \A tx \in exec'.todo : tx.id \in IdsOf(launch) /\ tx.nonce # NoNonce
  <2>1. CASE fastForward
    <3>1. TargetNonce \in Nat
      <4>1. exec.tx \in Row /\ exec.exp \in Nat
        BY <2>1 DEF TInv, TypeOK, fastForward, Executor
      <4>2. TargetNonce \in Int /\ exec.exp < TargetNonce
        BY <2>1, <4>1, ConstantsAssumption
           DEF TInv, TypeOK, fastForward, Behind, TargetNonce, Row, Nonces, NoNonce
      <4> QED
        BY <4>1, <4>2
    <3>2. QED
      BY <2>1, <3>1 DEF TInv, TypeOK, CopiesNumbered, fastForward, Executor
  <2>2. CASE FastForwardRead
    <3>1. exec.i \in Nat /\ GetTxsByNonce(launch, exec.tx.from, exec.i) \subseteq launch
      BY DEF TInv, TypeOK, Executor, GetTxsByNonce
    <3>2. \A tx \in GetTxsByNonce(launch, exec.tx.from, exec.i) :
             tx \in Row /\ tx.id \in IdsOf(launch) /\ tx.nonce # NoNonce
      BY <3>1, NoTxIsNoRow DEF TInv, TypeOK, GetTxsByNonce, IdsOf
    <3>3. CASE exec.i = exec.end
      BY <2>2, <3>3 DEF FastForwardRead, Idle, Executor
    <3>4. CASE exec.i # exec.end
      <4> DEFINE found == GetTxsByNonce(launch, exec.tx.from, exec.i)
      <4>1. exec' = [exec EXCEPT !.i = exec.i + 1, !.todo = found] /\ exec.pc = "ff"
        BY <2>2, <3>4 DEF FastForwardRead
      <4>2. found \in SUBSET Row
        BY <3>2
      <4> HIDE DEF found
      <4>3. exec' \in Executor /\ exec'.pc = "ff" /\ exec'.todo = found
        <5>1. exec \in Executor
          BY DEF TInv, TypeOK
        <5>2. exec.i + 1 \in Nat
          BY <3>1
        <5> DEFINE j == exec.i + 1
        <5>3. exec' = [exec EXCEPT !.i = j, !.todo = found] /\ j \in Nat
          BY <4>1, <5>2
        <5> HIDE DEF j
        <5> QED
          BY <4>1, <4>2, <5>1, <5>3 DEF Executor
      <4> QED
        BY <3>2, <4>3 DEF found
    <3> QED
      BY <3>3, <3>4
  <2>3. CASE \E tx \in exec.todo : FastForwardNext(tx)
    <3>1. PICK tx \in exec.todo :
             exec' = [exec EXCEPT !.pc = "send", !.tx = tx, !.todo = @ \ {tx}]
      BY <2>3 DEF FastForwardNext
    <3>2. tx \in Row /\ exec.todo \ {tx} \in SUBSET Row
      BY DEF TInv, TypeOK, Executor
    <3>3. /\ exec' \in Executor /\ exec'.tx = tx /\ exec'.todo = exec.todo \ {tx}
      BY <3>1, <3>2 DEF TInv, TypeOK, Executor
    <3> QED
      BY <3>2, <3>3, NoTxIsNoRow DEF TInv, CopiesNumbered
  <2> QED
    BY <2>1, <2>2, <2>3
<1>3. TypeOK'
  BY <1>1, <1>2, NodeUntouched DEF TInv, TypeOK, dbVars
<1>4. Numbered(launch)' /\ CopiesNumbered'
  BY <1>1, <1>2 DEF TInv, CopiesNumbered, dbVars
<1> QED
  BY <1>1, <1>3, <1>4, NodeUntouched DEF TInv

LEMMA TAllocate ==
  ASSUME TInv, Allocate
  PROVE  TInv'
<1> DEFINE tx == [exec.tx EXCEPT !.nonce = exec.exp]
<1>1. exec.tx \in Row /\ exec.tx.id \in IdsOf(launch) /\ exec.exp \in Nonces
  BY ConstantsAssumption DEF TInv, TypeOK, CopiesNumbered, Allocate, Executor, Nonces
<1>2. tx \in Row /\ tx.id = exec.tx.id /\ tx.nonce = exec.exp /\ tx.from = exec.tx.from
  BY <1>1, RowEdits DEF Row
<1>3. /\ launch' = UpdateTx(launch, tx) /\ exec' = [exec EXCEPT !.pc = "send", !.tx = tx]
      /\ nextNonce' = [nextNonce EXCEPT ![tx.from] = exec.exp + 1]
  BY DEF Allocate
<1> HIDE DEF tx
<1>4. Numbered(launch') /\ IdsOf(launch') = IdsOf(launch)
  BY <1>1, <1>2, <1>3, UpdateNumbered DEF TInv
<1>5. TypeOK'
  <2>1. exec' \in Executor /\ exec'.tx = tx
    BY <1>2, <1>3 DEF TInv, TypeOK, Executor
  <2>2. exec.exp + 1 \in Nat
    BY <1>1, ConstantsAssumption DEF Nonces
  <2>3. nextNonce' \in [Accounts -> Nat \cup {NoNonce}]
    BY <1>3, <2>2 DEF TInv, TypeOK
  <2> QED
    BY <1>2, <1>4, <2>1, <2>3, NodeUntouched, NoTxIsNoRow
       DEF TInv, TypeOK, Allocate, Numbered
<1>6. CopiesNumbered'
  BY <1>1, <1>2, <1>3, <1>4, NoTxIsNoRow
     DEF TInv, TypeOK, Executor, CopiesNumbered, Allocate, Nonces
<1> QED
  BY <1>4, <1>5, <1>6, NodeUntouched DEF TInv, Allocate

\* After a send the executor holds no transaction.
LEMMA TSent ==
  ASSUME TInv, exec.pc \in {"decide", "send"}
  PROVE  /\ Sent \in Executor /\ Sent.pc \in {"idle", "ff"}
         /\ Sent.todo \subseteq exec.todo
BY DEF TInv, TypeOK, Sent, Idle, Executor

LEMMA TSend ==
  ASSUME TInv, NEW p \in Prices, send(p)
  PROVE  TInv'
<1> DEFINE h == HashAt(p)
           tx == [exec.tx EXCEPT !.status = "TxPending", !.hash = h]
           new == [tx EXCEPT !.id = NewId]
<1>1. exec.tx \in Row /\ exec.tx.id \in IdsOf(launch) /\ h \in Hash
  BY HashType DEF TInv, CopiesNumbered, send
<1>2. tx \in Row /\ tx.id = exec.tx.id
  BY <1>1, RowEdits DEF Row
<1>3. \/ launch' = launch \cup {new} /\ NewId <= MaxRows
      \/ launch' = UpdateTx(launch, tx)
  BY DEF send
<1>4. ASSUME NewId <= MaxRows
      PROVE  new \in Row /\ new.id = 1 + Cardinality(launch)
  <2>1. NewId \in Ids
    BY <1>4, NumberedCounts, ConstantsAssumption DEF TInv, NewId, Ids
  <2> HIDE DEF tx
  <2> QED
    BY <1>2, <2>1 DEF NewId, Row
<1>5. exec' = Sent /\ pool' \subseteq sent' /\ sent' \subseteq Hash /\ chain' = chain
      /\ sent \subseteq sent' /\ mature' = mature
  BY <1>1 DEF TInv, TypeOK, send, Accept
<1> HIDE DEF tx, h, new
<1>6. Numbered(launch') /\ IdsOf(launch) \subseteq IdsOf(launch')
  <2>1. CASE launch' = launch \cup {new} /\ NewId <= MaxRows
    BY <1>4, <2>1, AddNumbered DEF TInv
  <2>2. CASE launch' = UpdateTx(launch, tx)
    BY <1>1, <1>2, <2>2, UpdateNumbered DEF TInv
  <2> QED
    BY <1>3, <2>1, <2>2
<1>7. exec.pc = "send"
  BY DEF send
<1>8. TypeOK'
  BY <1>5, <1>6, <1>7, TSent DEF TInv, TypeOK, send, Numbered
<1>9. CopiesNumbered'
  BY <1>5, <1>6, <1>7, TSent DEF TInv, CopiesNumbered, send
<1>10. ChainSent'
  BY <1>5 DEF TInv, ChainSent
<1> QED
  BY <1>6, <1>8, <1>9, <1>10 DEF TInv

LEMMA TSendFails ==
  ASSUME TInv, sendTransactionFails \/ \E p \in Prices : sendLost(p)
  PROVE  TInv'
<1>1. /\ exec.pc \in {"decide", "send"} /\ exec' = Sent
      /\ UNCHANGED <<dbVars, syncTodo, monTodo>>
  BY DEF sendTransactionFails, sendLost
<1>2. /\ pool' \subseteq sent' /\ sent' \subseteq Hash /\ chain' = chain
      /\ mature' = mature
      /\ sent \subseteq sent' /\ used' \in [Kinds -> Nat]
  <2>1. CASE sendTransactionFails
    BY <2>1 DEF TInv, TypeOK, sendTransactionFails, nodeVars
  <2>2. ASSUME NEW p \in Prices, sendLost(p)
        PROVE  /\ pool' \subseteq sent' /\ sent' \subseteq Hash /\ chain' = chain
               /\ mature' = mature
      /\ sent \subseteq sent' /\ used' \in [Kinds -> Nat]
    <3>1. HashAt(p) \in Hash
      BY <2>2, HashType DEF sendLost
    <3>2. used' \in [Kinds -> Nat]
      BY <2>2 DEF TInv, TypeOK, sendLost, Trouble, Kinds
    <3> QED
      BY <2>2, <3>1, <3>2 DEF TInv, TypeOK, sendLost, Accept
  <2> QED
    BY <2>1, <2>2
<1>3. TypeOK'
  BY <1>1, <1>2, TSent DEF TInv, TypeOK, dbVars
<1>4. Numbered(launch)' /\ CopiesNumbered'
  BY <1>1, TSent DEF TInv, CopiesNumbered, dbVars
<1>5. ChainSent'
  BY <1>2 DEF TInv, ChainSent
<1> QED
  BY <1>3, <1>4, <1>5 DEF TInv

LEMMA TroubleType ==
  ASSUME TInv, NEW k \in Kinds, Trouble(k)
  PROVE  used' \in [Kinds -> Nat]
BY DEF TInv, TypeOK, Trouble

LEMMA WaitedType ==
  ASSUME TInv, NEW h, Waited(h)
  PROVE  used' \in [Kinds -> Nat]
BY TroubleType DEF TInv, TypeOK, Waited, Kinds

\* Steps of the syncer and the monitor change rows and what they hold, and
\* leave node and executor alone.
LEMMA TLoops ==
  ASSUME TInv, UNCHANGED <<nextNonce, exec, nodeVars>>,
         matchStatus' \in [Matches -> MatchStatus], settled' \in [Matches -> Nat],
         Numbered(launch'), IdsOf(launch) \subseteq IdsOf(launch'),
         used' \in [Kinds -> Nat],
         syncTodo' \in [Accounts -> SUBSET Row], monTodo' \subseteq Row,
         \A a \in Accounts : \A tx \in syncTodo'[a] : tx.id \in IdsOf(launch'),
         \A tx \in monTodo' : tx.id \in IdsOf(launch')
  PROVE  TInv'
<1>1. TypeOK'
  BY NodeUntouched DEF TInv, TypeOK, Numbered
<1>2. CopiesNumbered'
  BY DEF TInv, CopiesNumbered
<1> QED
  BY <1>1, <1>2, NodeUntouched DEF TInv

\* The rows that are left after a turn are rows that were held.
LEMMA TTurn ==
  ASSUME TInv, NEW a \in Accounts, NEW tx \in syncTodo[a], Turn(a, tx)
  PROVE  /\ syncTodo' \in [Accounts -> SUBSET Row]
         /\ \A b \in Accounts : syncTodo'[b] \subseteq syncTodo[b]
         /\ \A b \in Accounts : \A r \in syncTodo'[b] : r.id \in IdsOf(launch)
         /\ tx \in Row /\ tx.id \in IdsOf(launch) /\ tx.txID \in Matches
<1>1. tx \in Row /\ tx.id \in IdsOf(launch)
  BY DEF TInv, TypeOK, CopiesNumbered
<1>2. /\ syncTodo' \in [Accounts -> SUBSET Row]
      /\ \A b \in Accounts : syncTodo'[b] \subseteq syncTodo[b]
  BY DEF TInv, TypeOK, Turn
<1> QED
  BY <1>1, <1>2 DEF TInv, CopiesNumbered, Row

LEMMA TSyncTransaction ==
  ASSUME TInv, NEW a \in Accounts, syncTransaction(a)
  PROVE  TInv'
<1>1. \A r \in TxsOf(a, "TxPending") : r \in Row /\ r.id \in IdsOf(launch)
  BY DEF TInv, TypeOK, TxsOf, IdsOf
<1>2. syncTodo' \in [Accounts -> SUBSET Row]
  BY <1>1 DEF TInv, TypeOK, syncTransaction
<1>3. \A b \in Accounts : \A tx \in syncTodo'[b] : tx.id \in IdsOf(launch)
  BY <1>1 DEF TInv, TypeOK, CopiesNumbered, syncTransaction
<1> QED
  BY <1>2, <1>3, TLoops DEF TInv, TypeOK, CopiesNumbered, syncTransaction, dbVars

LEMMA TUpdateStatus ==
  ASSUME TInv, NEW a \in Accounts, NEW tx \in syncTodo[a], updateStatusByUser(a, tx)
  PROVE  TInv'
<1>1. /\ syncTodo' \in [Accounts -> SUBSET Row]
      /\ \A b \in Accounts : \A r \in syncTodo'[b] : r.id \in IdsOf(launch)
      /\ tx \in Row /\ tx.id \in IdsOf(launch) /\ tx.txID \in Matches
  BY TTurn DEF updateStatusByUser
<1>2. CASE UNCHANGED <<dbVars, used>>
  BY <1>1, <1>2, TLoops DEF TInv, TypeOK, CopiesNumbered, updateStatusByUser, dbVars
<1>3. ASSUME NEW status \in {"TxSuccess", "TxFailed"}, NEW others,
             others \subseteq UpdateTx(launch, [tx EXCEPT !.status = status]),
             UpdateOrdersStatus(tx.txID, TransactionStatus(status)),
             \/ /\ launch' = (UpdateTx(launch, [tx EXCEPT !.status = status]) \ others)
                               \cup {[r EXCEPT !.status = "TxCanceled"] : r \in others}
                /\ used' = used
             \/ launch' = launch /\ Trouble("torn"),
             nextNonce' = nextNonce
      PROVE  TInv'
  <2> DEFINE rows == UpdateTx(launch, [tx EXCEPT !.status = status])
  <2>1. /\ [tx EXCEPT !.status = status] \in Row
        /\ [tx EXCEPT !.status = status].id = tx.id
    <3>1. status \in TxStatus
      BY <1>3 DEF TxStatus
    <3>2. [tx EXCEPT !.status = status] \in Row
      BY <1>1, <3>1, RowEdits
    <3> QED
      BY <1>1, <3>2 DEF Row
  <2>2. Numbered(rows) /\ IdsOf(rows) = IdsOf(launch)
    BY <1>1, <2>1, UpdateNumbered DEF TInv
  <2>3. Numbered(launch') /\ IdsOf(launch') = IdsOf(launch)
    <3> HIDE DEF rows
    <3>1. CASE launch' = launch
      BY <3>1 DEF TInv
    <3>2. CASE launch' = (rows \ others) \cup {[r EXCEPT !.status = "TxCanceled"] : r \in others}
      BY <1>3, <2>2, <3>2, CancelNumbered DEF rows
    <3> QED
      BY <1>3, <3>1, <3>2 DEF rows
  <2>4. TransactionStatus(status) \in MatchStatus
    BY TransactionStatusType DEF TxStatus
  <2>5. matchStatus' \in [Matches -> MatchStatus] /\ settled' \in [Matches -> Nat]
    BY <1>1, <1>3, <2>4 DEF TInv, TypeOK, UpdateOrdersStatus
  <2>6. used' \in [Kinds -> Nat]
    BY <1>3, TroubleType DEF TInv, TypeOK, Kinds
  <2> QED
    BY <1>1, <1>3, <2>3, <2>5, <2>6, TLoops
       DEF TInv, TypeOK, CopiesNumbered, updateStatusByUser
<1>4. PICK e \in Receipts(tx.hash) :
        LET status == IF e.ok THEN "TxSuccess" ELSE "TxFailed"
            rows == UpdateTx(launch, [tx EXCEPT !.status = status])
            others == {r \in GetTxsByNonce(rows, tx.from, tx.nonce) : r.hash # tx.hash}
        IN  \/ UNCHANGED <<dbVars, used>>
            \/ /\ UpdateOrdersStatus(tx.txID, TransactionStatus(status))
               /\ \/ /\ launch' = (rows \ others) \cup
                                     {[r EXCEPT !.status = "TxCanceled"] : r \in others}
                     /\ used' = used
                  \/ launch' = launch /\ Trouble("torn")
               /\ nextNonce' = nextNonce
  BY DEF updateStatusByUser
<1> DEFINE status == IF e.ok THEN "TxSuccess" ELSE "TxFailed"
           rows == UpdateTx(launch, [tx EXCEPT !.status = status])
           others == {r \in GetTxsByNonce(rows, tx.from, tx.nonce) : r.hash # tx.hash}
<1>5. status \in {"TxSuccess", "TxFailed"} /\ others \subseteq rows
  BY DEF GetTxsByNonce
<1> HIDE DEF status, others
<1>6. QED
  BY <1>2, <1>3, <1>4, <1>5 DEF status, others

LEMMA TNotFound ==
  ASSUME TInv, NEW a \in Accounts, NEW tx \in syncTodo[a],
         SyncAccelerated(a, tx) \/ SyncSkips(a, tx)
  PROVE  TInv'
<1>1. Turn(a, tx) /\ UNCHANGED <<dbVars, exec, monTodo, nodeVars>>
  BY DEF SyncAccelerated, SyncSkips
<1>2. used' \in [Kinds -> Nat]
  BY WaitedType DEF TInv, TypeOK, SyncAccelerated, SyncSkips, NotFound
<1> QED
  BY <1>1, <1>2, TTurn, TLoops DEF TInv, TypeOK, CopiesNumbered, dbVars

LEMMA TResetTransaction ==
  ASSUME TInv, NEW a \in Accounts, NEW tx \in syncTodo[a], resetTransaction(a, tx)
  PROVE  TInv'
<1> DEFINE new == [tx EXCEPT !.nonce = NoNonce, !.hash = NoHash, !.status = "TxInitial"]
<1>1. Turn(a, tx) /\ launch' = UpdateTx(launch, new)
  BY DEF resetTransaction
<1>2. tx \in Row /\ tx.id \in IdsOf(launch)
  BY <1>1, TTurn
<1>3. new \in Row /\ new.id = tx.id
  BY <1>2, RowEdits DEF Row
<1> HIDE DEF new
<1>4. Numbered(launch') /\ IdsOf(launch') = IdsOf(launch)
  BY <1>1, <1>2, <1>3, UpdateNumbered DEF TInv
<1>5. used' \in [Kinds -> Nat]
  BY WaitedType DEF resetTransaction, NotFound
<1> QED
  BY <1>1, <1>4, <1>5, TTurn, TLoops DEF TInv, TypeOK, CopiesNumbered, resetTransaction

LEMMA TSyncUnmature ==
  ASSUME TInv, syncUnmatureTransaction
  PROVE  TInv'
<1>1. \A r \in monTodo' : r \in Row /\ r.id \in IdsOf(launch)
  BY DEF TInv, TypeOK, syncUnmatureTransaction, GetTxsByTime, IdsOf
<1> QED
  BY <1>1, TLoops DEF TInv, TypeOK, CopiesNumbered, syncUnmatureTransaction, dbVars

LEMMA TMonitor ==
  ASSUME TInv, NEW tx \in monTodo,
         \/ checkUnmatureTransactionStatus(tx)
         \/ MonitorTorn(tx)
         \/ MonitorSkips(tx)
  PROVE  TInv'
<1>1. /\ tx \in Row /\ tx.id \in IdsOf(launch) /\ tx.txID \in Matches
      /\ monTodo' \subseteq Row /\ \A r \in monTodo' : r.id \in IdsOf(launch)
  BY DEF TInv, TypeOK, CopiesNumbered, checkUnmatureTransactionStatus, MonitorTorn,
         MonitorSkips, MonitorTurn, Row
<1>2. CASE MonitorSkips(tx)
  BY <1>1, <1>2, TLoops DEF TInv, TypeOK, CopiesNumbered, MonitorSkips, dbVars
<1>3. ASSUME NEW status \in {"TxSuccess", "TxFailed"},
             RollbackOrdersStatus(tx.txID, TransactionStatus(status)),
             \/ launch' = launch
             \/ launch' = UpdateTx(launch, [tx EXCEPT !.status = status]),
             used' \in [Kinds -> Nat],
             UNCHANGED <<nextNonce, exec, syncTodo, nodeVars>>
      PROVE  TInv'
  <2>1. /\ [tx EXCEPT !.status = status] \in Row
        /\ [tx EXCEPT !.status = status].id = tx.id
    <3>1. status \in TxStatus /\ tx \in Row
      BY <1>1 DEF TxStatus
    <3>2. [tx EXCEPT !.status = status] \in Row
      BY <3>1, RowEdits
    <3>3. [tx EXCEPT !.status = status].id = tx.id
      BY <3>1 DEF Row
    <3> QED
      BY <3>2, <3>3
  <2>2. Numbered(launch') /\ IdsOf(launch') = IdsOf(launch)
    BY <1>1, <1>3, <2>1, UpdateNumbered DEF TInv
  <2>3. TransactionStatus(status) \in MatchStatus
    BY TransactionStatusType DEF TxStatus
  <2>4. matchStatus' \in [Matches -> MatchStatus] /\ settled' = settled
    BY <1>1, <1>3, <2>3 DEF TInv, TypeOK, RollbackOrdersStatus
  <2> QED
    BY <1>1, <1>3, <2>2, <2>4, TLoops DEF TInv, TypeOK, CopiesNumbered
<1>4. CASE checkUnmatureTransactionStatus(tx)
  BY <1>3, <1>4, WaitedType DEF checkUnmatureTransactionStatus
<1>5. CASE MonitorTorn(tx)
  BY <1>3, <1>5, TroubleType DEF MonitorTorn, Kinds
<1> QED
  BY <1>2, <1>4, <1>5

\* What the environment does to the node and the chain
LEMMA TNode ==
  ASSUME TInv, UNCHANGED <<dbVars, exec, syncTodo, monTodo>>,
         pool' \subseteq sent, sent' = sent, chain' \in [Accounts -> Seq(Entry)],
         mature' \subseteq Matches, ChainSent', used' \in [Kinds -> Nat]
  PROVE  TInv'
<1>1. TypeOK'
  BY DEF TInv, TypeOK, dbVars
<1> QED
  BY <1>1 DEF TInv, CopiesNumbered, dbVars

\* One more entry on the chain of an account
LEMMA TAppend ==
  ASSUME TInv, NEW a \in Accounts, NEW e \in Entry, Len(chain[a]) <= MaxNonce,
         e.hash # NoHash =>
           e.hash \in sent /\ e.hash.from = a /\ e.hash.nonce = Len(chain[a]),
         chain' = [chain EXCEPT ![a] = Append(@, e)], sent' = sent
  PROVE  chain' \in [Accounts -> Seq(Entry)] /\ ChainSent'
<1>1. chain[a] \in Seq(Entry)
  BY DEF TInv, TypeOK
<1>2. /\ Append(chain[a], e) \in Seq(Entry)
      /\ Len(Append(chain[a], e)) = Len(chain[a]) + 1
      /\ \A i \in DOMAIN Append(chain[a], e) :
           \/ i \in DOMAIN chain[a] /\ Append(chain[a], e)[i] = chain[a][i]
           \/ i - 1 = Len(chain[a]) /\ Append(chain[a], e)[i] = e
  BY <1>1
<1>3. chain' \in [Accounts -> Seq(Entry)]
  BY <1>2 DEF TInv, TypeOK
<1>4. ASSUME NEW b \in Accounts PROVE ChainSent!(b)'
  <2>1. CASE b = a
    <3>1. chain'[b] = Append(chain[a], e)
      BY <2>1 DEF TInv, TypeOK
    <3> QED
      BY <1>1, <1>2, <2>1, <3>1, ConstantsAssumption DEF TInv, ChainSent
  <2>2. CASE b # a
    BY <2>2 DEF TInv, TypeOK, ChainSent
  <2> QED
    BY <2>1, <2>2
<1> QED
  BY <1>3, <1>4 DEF ChainSent

LEMMA TMine ==
  ASSUME TInv, NEW h \in sent, NEW ok \in BOOLEAN, Mine(h, ok)
  PROVE  TInv'
<1> DEFINE e == [hash |-> h, ok |-> ok]
<1>1. /\ h \in Hash /\ h.from \in Accounts /\ h.nonce \in 0..MaxNonce
      /\ e \in Entry /\ e.hash = h
  BY DEF TInv, TypeOK, Hash, Nonces, Entry
<1>2. h.nonce = Len(chain[h.from]) /\ chain' = [chain EXCEPT ![h.from] = Append(@, e)]
  BY DEF Mine
<1> HIDE DEF e
<1>3. Len(chain[h.from]) <= MaxNonce /\ sent' = sent
  BY <1>1, <1>2, ConstantsAssumption DEF Mine
<1>4. chain' \in [Accounts -> Seq(Entry)] /\ ChainSent'
  BY <1>1, <1>2, <1>3, TAppend
<1> QED
  BY <1>4, TNode DEF TInv, TypeOK, Mine

LEMMA TExternal ==
  ASSUME TInv, NEW a \in Accounts, External(a)
  PROVE  TInv'
<1> DEFINE e == [hash |-> NoHash, ok |-> TRUE]
<1>1. e \in Entry /\ e.hash = NoHash
  BY DEF Entry
<1>2. Len(chain[a]) <= MaxNonce /\ chain' = [chain EXCEPT ![a] = Append(@, e)]
  BY ConstantsAssumption DEF External, TInv, TypeOK
<1> HIDE DEF e
<1>3. chain' \in [Accounts -> Seq(Entry)] /\ ChainSent'
  BY <1>1, <1>2, TAppend DEF External
<1>4. used' \in [Kinds -> Nat]
  BY TroubleType DEF External, Kinds
<1> QED
  BY <1>3, <1>4, TNode DEF TInv, TypeOK, External

LEMMA TReorg ==
  ASSUME TInv, NEW a \in Accounts, Reorg(a)
  PROVE  TInv'
<1> DEFINE l == Len(chain[a])
           cut == SubSeq(chain[a], 1, l - 1)
<1>1. chain[a] \in Seq(Entry) /\ chain[a] # <<>> /\ l \in Nat /\ l > 0
  BY DEF TInv, TypeOK, Reorg
<1>2. /\ cut \in Seq(Entry) /\ Len(cut) = l - 1
      /\ \A i \in DOMAIN cut : i \in DOMAIN chain[a] /\ cut[i] = chain[a][i]
  BY <1>1
<1>3. chain' = [chain EXCEPT ![a] = cut] /\ sent' = sent
  BY DEF Reorg
<1>4. chain[a][l].hash = NoHash \/ chain[a][l].hash \in sent
  BY <1>1 DEF TInv, ChainSent
<1> HIDE DEF cut
<1>5. chain' \in [Accounts -> Seq(Entry)]
  BY <1>2, <1>3 DEF TInv, TypeOK
<1>6. ASSUME NEW b \in Accounts PROVE ChainSent!(b)'
  <2>1. CASE b = a
    <3>1. chain'[b] = cut
      BY <1>3, <2>1 DEF TInv, TypeOK
    <3> QED
      BY <1>1, <1>2, <1>3, <2>1, <3>1, ConstantsAssumption DEF TInv, ChainSent
  <2>2. CASE b # a
    BY <1>3, <2>2 DEF TInv, TypeOK, ChainSent
  <2> QED
    BY <2>1, <2>2
<1>7. ChainSent'
  BY <1>6 DEF ChainSent
<1>8. used' \in [Kinds -> Nat]
  BY TroubleType DEF Reorg, Kinds
<1>9. pool' \subseteq sent
  BY <1>4 DEF TInv, TypeOK, Reorg
<1> QED
  BY <1>3, <1>5, <1>7, <1>8, <1>9, TNode DEF Reorg, TInv, TypeOK

LEMMA TDrop ==
  ASSUME TInv, NEW h \in pool, Drop(h)
  PROVE  TInv'
<1>1. used' \in [Kinds -> Nat]
  BY TroubleType DEF Drop, Kinds
<1>2. ChainSent'
  BY DEF TInv, ChainSent, Drop
<1> QED
  BY <1>1, <1>2, TNode DEF TInv, TypeOK, Drop

LEMMA TMatures ==
  ASSUME TInv, NEW t \in Matches, Matures(t)
  PROVE  TInv'
<1>1. used' \in [Kinds -> Nat]
  BY TroubleType DEF Matures, Kinds
<1>2. ChainSent'
  BY DEF TInv, ChainSent, Matures
<1> QED
  BY <1>1, <1>2, TNode DEF TInv, TypeOK, Matures

LEMMA TRestart ==
  ASSUME TInv, Restart
  PROVE  TInv'
<1>1. used' \in [Kinds -> Nat]
  BY TroubleType DEF Restart, Kinds
<1>2. exec' \in Executor /\ exec'.pc = "idle" /\ exec'.todo = {}
  BY DEF Restart, Idle, Executor
<1>3. TypeOK'
  BY <1>1, <1>2, NodeUntouched DEF TInv, TypeOK, Restart, dbVars
<1>4. CopiesNumbered' /\ Numbered(launch)'
  BY <1>2 DEF TInv, CopiesNumbered, Restart, dbVars
<1> QED
  BY <1>3, <1>4, NodeUntouched DEF TInv, Restart

LEMMA TNextOK == TInv /\ [Next]_vars => TInv'
<1> SUFFICES ASSUME TInv, [Next]_vars PROVE TInv'
  OBVIOUS
<1>1. CASE LauncherStep
  BY <1>1, TLauncher DEF LauncherStep
<1>2. CASE ExecutorStep
  BY <1>2, TExecuteTransaction, TReset, TFastForward, TAllocate, TSend, TSendFails
     DEF ExecutorStep
<1>3. CASE SyncerStep
  BY <1>3, TSyncTransaction, TUpdateStatus, TNotFound, TResetTransaction DEF SyncerStep
<1>4. CASE MonitorStep
  BY <1>4, TSyncUnmature, TMonitor DEF MonitorStep
<1>5. CASE Environment
  BY <1>5, TMine, TExternal, TReorg, TDrop, TMatures, TRestart DEF Environment
<1>6. CASE UNCHANGED vars
  BY <1>6 DEF TInv, TypeOK, CopiesNumbered, ChainSent, vars, dbVars, nodeVars
<1> QED
  BY <1>1, <1>2, <1>3, <1>4, <1>5, <1>6 DEF Next

\* Rows have keys of their own, copies are of rows in the table, and the
\* chain holds what was sent.
THEOREM WellFormed == Spec => []TInv
BY TInitOK, TNextOK, PTL DEF Spec

\* The tables, the loops and the node are well formed, whatever goes wrong.
THEOREM TypeCorrect == Spec => []TypeOK
<1>1. TInv => TypeOK
  BY DEF TInv
<1> QED
  BY <1>1, WellFormed, PTL

-----------------------------------------------------------------------------
(***************************************************************************)
(* While the node keeps what it was given and the chain only grows, each   *)
(* loop owns the rows of its status: the executor the new ones, the syncer *)
(* the pending ones, the monitor the settled ones. No copy is stale, no    *)
(* nonce is given out or sent twice, and every match has one row.          *)
(***************************************************************************)

\* The node forgot nothing and the chain lost nothing.
Kept == used["drop"] + used["reorg"] = 0

OneRowEach == \A r, s \in launch : r.txID = s.txID => r = s

\* The executor gave the row up; if the commit was torn, only the matcher
\* knows.
Aborted(r) == r.status = "TxCanceled" \/ matchStatus[r.txID] = "ABORT"

\* A row has a hash exactly when it was sent, and the hash is its own; a row
\* is given up only when its nonce is taken.
RowsTruthful ==
  \A r \in launch :
    /\ r.status \in {"TxInitial", "TxCanceled"} <=> r.hash = NoHash
    /\ r.hash # NoHash => /\ r.hash \in sent /\ r.hash.from = r.from
                          /\ r.hash.nonce = r.nonce /\ r.hash.txID = r.txID
    /\ Aborted(r) => r.hash = NoHash /\ r.nonce # NoNonce /\ Taken(r.from, r.nonce)

\* The copies the loops hold are the rows of the table.
CopiesCurrent ==
  /\ exec.pc \in {"decide", "send"} => exec.tx \in TxsOf(exec.tx.from, "TxInitial")
  /\ \A tx \in exec.todo : tx \in TxsOf(exec.tx.from, "TxInitial")
  /\ \A a \in Accounts : \A tx \in syncTodo[a] : tx \in TxsOf(a, "TxPending")
  /\ \A tx \in monTodo : tx \in launch /\ Settled(tx)

\* broker_nonces is ahead of the rows, the rows do not share nonces, and only
\* the last nonce given out may still be free.
NoncesAllotted ==
  /\ \A r \in launch : r.nonce # NoNonce => r.nonce < nextNonce[r.from]
  /\ \A r, s \in launch :
       r.from = s.from /\ r.nonce = s.nonce /\ r.nonce # NoNonce => r = s
  /\ \A a \in Accounts : \A k \in 0..(nextNonce[a] - 2) : Taken(a, k)

\* What was sent is at the node or its nonce is mined, nothing is missing
\* below it, and no nonce was sent twice.
SentTaken ==
  /\ \A h \in sent : \A k \in 0..h.nonce : Taken(h.from, k)
  /\ \A g, h \in sent : g.from = h.from /\ g.nonce = h.nonce => g = h
  /\ \A h \in sent : \E r \in launch : r.txID = h.txID

\* Nonces below n are taken; n was neither sent nor given up.
Free(a, n) ==
  /\ \A k \in 0..(n - 1) : Taken(a, k)
  /\ \A h \in sent : h.from = a => h.nonce < n
  /\ \A r \in launch : r.from = a /\ Aborted(r) => r.nonce < n

\* What the executor read is still true of the nonce it works with, although
\* others may have taken it since. It fast-forwards over one nonce at most.
ExecInStep ==
  /\ exec.pc = "decide" => /\ Free(exec.tx.from, exec.exp)
                           /\ nextNonce[exec.tx.from] <= exec.exp + 1
                           /\ exec.todo = {} /\ exec.end = 0
  /\ exec.pc = "send" => /\ Free(exec.tx.from, exec.tx.nonce)
                         /\ exec.todo = {} /\ (exec.end = 0 \/ exec.i = exec.end)
  /\ exec.pc = "ff" =>
       \/ exec.todo = {} /\ exec.i = exec.end
       \/ /\ exec.tx.from \in Accounts
          /\ Free(exec.tx.from, exec.exp) /\ exec.end = exec.exp + 1
          /\ \/ exec.todo = {} /\ exec.i = exec.exp
             \/ exec.i = exec.end /\ \A tx \in exec.todo : tx.nonce = exec.exp

HaveRows ==
  \A t \in Matches : matchStatus[t] # "INIT" => \E r \in launch : r.txID = t

\* Another transaction is mined with the nonce of h.
Dead(h) == h.nonce < Len(chain[h.from]) /\ chain[h.from][h.nonce + 1].hash # h

\* Of what was sent for a match only the last can still be executed.
AliveIsRow ==
  \A h \in sent : Dead(h) \/
    \A r \in launch : r.txID = h.txID => r.from = h.from /\ r.nonce = h.nonce

AliveRecorded ==
  \A h \in sent : Dead(h) \/ \E r \in launch : r.hash = h

SettledRows ==
  \A t \in Matches :
    /\ settled[t] <= 1
    /\ settled[t] # 0 =>
         \E r \in launch : r.txID = t /\ r.status \in {"TxSuccess", "TxFailed", "TxCanceled"}

KInv ==
  /\ OneRowEach /\ RowsTruthful /\ CopiesCurrent /\ NoncesAllotted /\ SentTaken
  /\ ExecInStep /\ HaveRows /\ PendingIsOnItsWay
  /\ used["slow"] = 0 => AliveIsRow
  /\ used["slow"] = 0 /\ used["lost"] = 0 => AliveRecorded
  /\ used["torn"] = 0 => SettledRows

Grows == \A k \in Kinds : used[k] \in Nat /\ used'[k] \in Nat /\ used[k] <= used'[k]

-----------------------------------------------------------------------------

LEMMA KInitOK == Init => KInv
<1> SUFFICES ASSUME Init PROVE KInv
  OBVIOUS
<1>1. OneRowEach /\ RowsTruthful /\ NoncesAllotted /\ SentTaken
  BY DEF Init, OneRowEach, RowsTruthful, NoncesAllotted, SentTaken, NoNonce
<1>2. CopiesCurrent /\ ExecInStep
  BY DEF Init, CopiesCurrent, ExecInStep, Idle
<1>3. HaveRows /\ PendingIsOnItsWay
  BY DEF Init, HaveRows, PendingIsOnItsWay
<1>4. AliveIsRow /\ AliveRecorded /\ SettledRows
  BY DEF Init, AliveIsRow, AliveRecorded, SettledRows
<1> QED
  BY <1>1, <1>2, <1>3, <1>4 DEF KInv

LEMMA KindsNamed ==
  /\ "slow" \in Kinds /\ "lost" \in Kinds /\ "torn" \in Kinds
  /\ "drop" \in Kinds /\ "reorg" \in Kinds
BY DEF Kinds

LEMMA UsedGrows ==
  ASSUME TypeOK, used' = used \/ \E k \in Kinds : Trouble(k)
  PROVE  Grows
BY DEF TypeOK, Trouble, Grows

\* Types of what a row and a hash hold
LEMMA RowFields ==
  ASSUME TInv
  PROVE  /\ launch \subseteq Row
         /\ \A r \in launch : /\ r.txID \in Matches /\ r.from \in Accounts
                              /\ r.nonce = NoNonce \/ r.nonce \in Nat
                              /\ r.status \in TxStatus /\ r.hash \in Hash \cup {NoHash}
         /\ \A h \in sent : h.from \in Accounts /\ h.nonce \in Nat /\ h.txID \in Matches
         /\ NoNonce \notin Nat /\ NoHash \notin sent
<1>1. launch \subseteq Row /\ sent \subseteq Hash
  BY DEF TInv, TypeOK
<1>2. Nonces \subseteq Nat
  BY ConstantsAssumption DEF Nonces
<1> QED
  BY <1>1, <1>2, NoTxIsNoRow DEF Row, Hash

\* Saving a row replaces it.
LEMMA Replaced ==
  ASSUME TInv, NEW old \in launch, NEW new, new.id = old.id
  PROVE  UpdateTx(launch, new) = (launch \ {old}) \cup {new}
BY DEF TInv, Numbered, UpdateTx

\* The node takes a transaction, or one is mined: what is taken stays taken,
\* and what is dead stays dead.
LEMMA AcceptTakes ==
  ASSUME TInv, NEW h, Accept(h)
  PROVE  /\ \A a, k : Taken(a, k) => Taken(a, k)'
         /\ Taken(h.from, h.nonce)'
         /\ \A g : Dead(g)' <=> Dead(g)
BY DEF Accept, Taken, SameNonce, Dead

LEMMA AppendTakes ==
  ASSUME TInv, NEW a \in Accounts, NEW e,
         chain' = [chain EXCEPT ![a] = Append(@, e)],
         \A h \in pool \ pool' : h.from = a /\ h.nonce = Len(chain[a])
  PROVE  /\ \A b \in Accounts, k \in Nat : Taken(b, k) => Taken(b, k)'
         /\ \A h \in sent : Dead(h) => Dead(h)'
<1>1. chain[a] \in Seq(Entry) /\ Len(chain[a]) \in Nat /\ chain \in [Accounts -> Seq(Entry)]
  BY DEF TInv, TypeOK
<1>2. /\ \A b \in Accounts : chain'[b] = IF b = a THEN Append(chain[a], e) ELSE chain[b]
      /\ Len(Append(chain[a], e)) = Len(chain[a]) + 1
      /\ \A i \in 1..Len(chain[a]) : Append(chain[a], e)[i] = chain[a][i]
  <2>1. Len(Append(chain[a], e)) = Len(chain[a]) + 1
    BY <1>1
  <2>2. \A i \in 1..Len(chain[a]) : Append(chain[a], e)[i] = chain[a][i]
    BY <1>1
  <2> QED
    BY <1>1, <2>1, <2>2
<1>3. ASSUME NEW b \in Accounts, NEW k \in Nat, Taken(b, k)
      PROVE  Taken(b, k)'
  BY <1>1, <1>2, <1>3 DEF Taken
<1>4. ASSUME NEW h \in sent, Dead(h)
      PROVE  Dead(h)'
  BY <1>1, <1>2, <1>4, RowFields DEF Dead
<1> QED
  BY <1>3, <1>4

\* Steps that leave the tables alone and send nothing
LEMMA KTablesStay ==
  ASSUME TInv, KInv, Grows, UNCHANGED <<dbVars, sent>>,
         \A a \in Accounts, k \in Nat : Taken(a, k) => Taken(a, k)',
         \A h \in sent : Dead(h) => Dead(h)',
         CopiesCurrent', ExecInStep'
  PROVE  KInv'
<1>1. OneRowEach' /\ HaveRows' /\ PendingIsOnItsWay'
  BY DEF KInv, OneRowEach, HaveRows, PendingIsOnItsWay, dbVars
<1>2. RowsTruthful'
  BY RowFields DEF KInv, RowsTruthful, Aborted, dbVars
<1>3. NoncesAllotted'
  <2>1. \A a \in Accounts : \A k \in 0..(nextNonce[a] - 2) : Taken(a, k)'
    BY DEF KInv, NoncesAllotted, TInv, TypeOK
  <2> QED
    BY <2>1 DEF KInv, NoncesAllotted, dbVars
<1>4. SentTaken'
  <2>1. \A h \in sent : \A k \in 0..h.nonce : Taken(h.from, k)'
    BY RowFields DEF KInv, SentTaken
  <2> QED
    BY <2>1 DEF KInv, SentTaken, dbVars
<1>5. used'["slow"] = 0 => AliveIsRow'
  BY KindsNamed DEF KInv, AliveIsRow, Grows, dbVars
<1>6. used'["slow"] = 0 /\ used'["lost"] = 0 => AliveRecorded'
  BY KindsNamed DEF KInv, AliveRecorded, Grows, dbVars
<1>7. used'["torn"] = 0 => SettledRows'
  BY KindsNamed DEF KInv, SettledRows, Grows, dbVars
<1> QED
  BY <1>1, <1>2, <1>3, <1>4, <1>5, <1>6, <1>7 DEF KInv

\* A free nonce stays free while nothing is sent and no row is given up.
LEMMA FreeStays ==
  ASSUME TInv, sent' = sent,
         \A b \in Accounts, k \in Nat : Taken(b, k) => Taken(b, k)',
         \A r \in launch' : Aborted(r)' =>
           \E s \in launch : Aborted(s) /\ s.from = r.from /\ s.nonce = r.nonce
  PROVE  \A a \in Accounts, n \in Int : Free(a, n) => Free(a, n)'
BY DEF Free

\* The executor keeps what it holds.
LEMMA ExecutorStays ==
  ASSUME TInv, KInv, UNCHANGED <<exec, nextNonce, sent>>,
         \A b \in Accounts, k \in Nat : Taken(b, k) => Taken(b, k)',
         \A r \in launch' : Aborted(r)' =>
           \E s \in launch : Aborted(s) /\ s.from = r.from /\ s.nonce = r.nonce
  PROVE  ExecInStep'
<1>1. \A a \in Accounts, n \in Int : Free(a, n) => Free(a, n)'
  BY FreeStays
<1>2. /\ exec.exp \in Int
      /\ exec.pc \in {"decide", "send"} => exec.tx.from \in Accounts /\ exec.tx.nonce \in Int
  BY ConstantsAssumption DEF TInv, TypeOK, Executor, Row, Nonces, NoNonce
<1>3. ASSUME exec.tx.from \in Accounts, Free(exec.tx.from, exec.exp)
      PROVE  Free(exec.tx.from, exec.exp)'
  BY <1>1, <1>2, <1>3
<1>4. ASSUME exec.pc = "send", Free(exec.tx.from, exec.tx.nonce)
      PROVE  Free(exec.tx.from, exec.tx.nonce)'
  BY <1>1, <1>2, <1>4
<1> QED
  BY <1>2, <1>3, <1>4 DEF KInv, ExecInStep

LEMMA KNode ==
  ASSUME TInv, KInv, Grows, UNCHANGED <<dbVars, exec, syncTodo, monTodo, sent>>,
         \A a \in Accounts, k \in Nat : Taken(a, k) => Taken(a, k)',
         \A h \in sent : Dead(h) => Dead(h)'
  PROVE  KInv'
<1>1. CopiesCurrent'
  BY DEF KInv, CopiesCurrent, TxsOf, dbVars
<1>2. ExecInStep'
  BY ExecutorStays DEF Aborted, dbVars
<1> QED
  BY <1>1, <1>2, KTablesStay

LEMMA KMine ==
  ASSUME TInv, KInv, Grows, NEW h \in sent, NEW ok \in BOOLEAN, Mine(h, ok)
  PROVE  KInv'
<1>1. h.from \in Accounts /\ \A g \in pool \ pool' : g.from = h.from /\ g.nonce = Len(chain[h.from])
  BY RowFields DEF Mine, SameNonce
<1> QED
  BY <1>1, AppendTakes, KNode DEF Mine

LEMMA KExternal ==
  ASSUME TInv, KInv, Grows, NEW a \in Accounts, External(a)
  PROVE  KInv'
<1>1. \A g \in pool \ pool' : g.from = a /\ g.nonce = Len(chain[a])
  BY DEF External
<1> QED
  BY <1>1, AppendTakes, KNode DEF External

\* Steps of a loop that only change what it holds
LEMMA KCopies ==
  ASSUME TInv, KInv, Grows, UNCHANGED <<dbVars, nodeVars>>, CopiesCurrent', ExecInStep'
  PROVE  KInv'
<1>1. \A a \in Accounts, k \in Nat : Taken(a, k) => Taken(a, k)'
  BY DEF Taken, nodeVars
<1>2. \A h \in sent : Dead(h) => Dead(h)'
  BY DEF Dead, nodeVars
<1> QED
  BY <1>1, <1>2, KTablesStay DEF nodeVars

\* The clock touches neither tables nor node.
LEMMA KMatures ==
  ASSUME TInv, KInv, Grows, NEW t \in Matches, Matures(t)
  PROVE  KInv'
<1>1. UNCHANGED <<dbVars, exec, syncTodo, monTodo, pool, sent, chain>>
  BY DEF Matures
<1>2. \A a \in Accounts, k \in Nat : Taken(a, k) => Taken(a, k)'
  BY <1>1 DEF Taken
<1>3. \A h \in sent : Dead(h) => Dead(h)'
  BY <1>1 DEF Dead
<1> QED
  BY <1>1, <1>2, <1>3, KNode

LEMMA KRestart ==
  ASSUME TInv, KInv, Grows, Restart
  PROVE  KInv'
<1>1. CopiesCurrent' /\ ExecInStep'
  BY DEF Restart, CopiesCurrent, ExecInStep, Idle
<1> QED
  BY <1>1, KCopies DEF Restart

LEMMA KExecuteTransaction ==
  ASSUME TInv, KInv, Grows, NEW a \in Accounts, executeTransaction(a)
  PROVE  KInv'
<1>1. PICK first \in launch :
        /\ first = FirstTxByUser(a, "TxInitial")
        /\ first \in TxsOf(a, "TxInitial") /\ first.from = a
  BY FirstTx DEF TInv, executeTransaction, TxsOf
<1>2. PICK n \in Nat :
        n = PendingNonceAt(a) /\ ~Taken(a, n) /\ \A k \in 0..(n - 1) : Taken(a, k)
  BY PendingNonce DEF TInv
<1>3. exec' = [pc |-> "decide", tx |-> first, exp |-> n, i |-> 0, end |-> 0, todo |-> {}]
  BY <1>1, <1>2 DEF executeTransaction, Idle
<1>4. nextNonce[a] \in Int /\ nextNonce[a] <= n + 1
  <2>1. nextNonce[a] \in Int
    BY DEF TInv, TypeOK, NoNonce
  <2>2. n \notin 0..(nextNonce[a] - 2)
    BY <1>2 DEF KInv, NoncesAllotted
  <2> QED
    BY <1>2, <2>1, <2>2
<1>5. Free(a, n)
  <2>1. \A h \in sent : h.from = a => h.nonce < n
    BY <1>2, RowFields DEF KInv, SentTaken
  <2>2. \A r \in launch : r.from = a /\ Aborted(r) => r.nonce < n
    <3> SUFFICES ASSUME NEW r \in launch, r.from = a, Aborted(r) PROVE r.nonce < n
      OBVIOUS
    <3>1. r.nonce \in Nat /\ Taken(a, r.nonce) /\ r.nonce < nextNonce[a]
      BY RowFields DEF KInv, RowsTruthful, NoncesAllotted
    <3> QED
      BY <1>2, <1>4, <3>1
  <2> QED
    BY <1>2, <2>1, <2>2 DEF Free
<1>6. exec'.pc = "decide" /\ exec'.tx = first /\ exec'.exp = n /\ exec'.todo = {} /\ exec'.end = 0
  BY <1>3
<1>7. Free(a, n)'
  BY <1>5 DEF Free, Aborted, Taken, executeTransaction, dbVars, nodeVars
<1>8. CopiesCurrent'
  BY <1>1, <1>6 DEF KInv, CopiesCurrent, executeTransaction, dbVars, TxsOf
<1>9. ExecInStep'
  BY <1>1, <1>4, <1>6, <1>7 DEF ExecInStep, executeTransaction, dbVars
<1> QED
  BY <1>8, <1>9, KCopies DEF executeTransaction

\* The executor alone moves.
LEMMA KFastForward ==
  ASSUME TInv, KInv, Grows, fastForward
  PROVE  KInv'
<1> DEFINE a == exec.tx.from
<1>1. /\ exec.tx \in launch /\ a \in Accounts /\ exec.exp \in Nat
      /\ exec.tx.nonce = NoNonce \/ exec.tx.nonce \in Nat
      /\ nextNonce[a] \in Int /\ nextNonce[a] <= exec.exp + 1
      /\ exec.tx.nonce # NoNonce => exec.tx.nonce < nextNonce[a]
      /\ Free(a, exec.exp) /\ exec.todo = {}
  <2>1. exec.pc = "decide"
    BY DEF fastForward
  <2>2. exec.tx \in launch
    BY <2>1 DEF KInv, CopiesCurrent, TxsOf
  <2>3. exec.exp \in Nat /\ a \in Accounts /\ nextNonce[a] \in Int
    BY <2>2, RowFields DEF TInv, TypeOK, Executor, NoNonce
  <2> QED
    BY <2>1, <2>2, <2>3, RowFields DEF KInv, ExecInStep, NoncesAllotted
<1>2. TargetNonce = exec.exp + 1
  BY <1>1 DEF fastForward, Behind, TargetNonce
<1>3. exec' = [exec EXCEPT !.pc = "ff", !.i = exec.exp, !.end = exec.exp + 1]
  BY <1>2 DEF fastForward
<1>4. /\ exec'.pc = "ff" /\ exec'.i = exec.exp /\ exec'.end = exec.exp + 1
      /\ exec'.exp = exec.exp /\ exec'.tx = exec.tx /\ exec'.todo = {}
  BY <1>1, <1>3 DEF TInv, TypeOK, Executor
<1>5. Free(a, exec.exp)'
  BY <1>1 DEF Free, Aborted, Taken, fastForward, dbVars, nodeVars
<1>6. CopiesCurrent'
  BY <1>4 DEF KInv, CopiesCurrent, fastForward, dbVars, TxsOf
<1>7. ExecInStep'
  BY <1>1, <1>4, <1>5 DEF ExecInStep
<1> QED
  BY <1>6, <1>7, KCopies DEF fastForward

LEMMA KFastForwardRead ==
  ASSUME TInv, KInv, Grows, FastForwardRead
  PROVE  KInv'
<1>1. CASE exec.i = exec.end
  <2>1. exec' = Idle
    BY <1>1 DEF FastForwardRead
  <2>2. exec'.pc = "idle" /\ exec'.todo = {}
    BY <2>1 DEF Idle
  <2>3. CopiesCurrent' /\ ExecInStep'
    BY <2>2 DEF KInv, CopiesCurrent, ExecInStep, FastForwardRead, dbVars, TxsOf
  <2> QED
    BY <2>3, KCopies DEF FastForwardRead
<1>2. CASE exec.i # exec.end
  <2> DEFINE a == exec.tx.from
             found == GetTxsByNonce(launch, a, exec.i)
  <2>1. /\ exec.pc = "ff" /\ exec.i = exec.exp /\ exec.end = exec.exp + 1
        /\ Free(a, exec.exp) /\ exec.exp \in Nat /\ a \in Accounts
    BY <1>2 DEF FastForwardRead, KInv, ExecInStep, TInv, TypeOK, Executor
  <2>2. exec' = [exec EXCEPT !.i = exec.exp + 1, !.todo = found]
    BY <1>2, <2>1 DEF FastForwardRead
  <2>3. \A r \in found : r \in TxsOf(a, "TxInitial") /\ r.nonce = exec.exp
    <3> SUFFICES ASSUME NEW r \in found
                 PROVE  r \in TxsOf(a, "TxInitial") /\ r.nonce = exec.exp
      OBVIOUS
    <3>1. r \in launch /\ r.from = a /\ r.nonce = exec.exp
      BY <2>1 DEF GetTxsByNonce
    <3>2. r.hash = NoHash
      BY <2>1, <3>1 DEF KInv, RowsTruthful, Free
    <3>3. r.status # "TxCanceled"
      BY <2>1, <3>1 DEF Free, Aborted
    <3> QED
      BY <3>1, <3>2, <3>3 DEF KInv, RowsTruthful, TxsOf
  <2> HIDE DEF found
  <2>4. /\ exec'.pc = "ff" /\ exec'.i = exec.exp + 1 /\ exec'.end = exec.exp + 1
        /\ exec'.exp = exec.exp /\ exec'.tx = exec.tx /\ exec'.todo = found
    BY <2>1, <2>2 DEF TInv, TypeOK, Executor
  <2>5. Free(a, exec.exp)'
    BY <2>1 DEF Free, Aborted, Taken, FastForwardRead, dbVars, nodeVars
  <2>6. CopiesCurrent'
    BY <2>3, <2>4 DEF KInv, CopiesCurrent, FastForwardRead, dbVars, TxsOf
  <2>7. ExecInStep'
    BY <2>1, <2>3, <2>4, <2>5 DEF ExecInStep
  <2> QED
    BY <2>6, <2>7, KCopies DEF FastForwardRead
<1> QED
  BY <1>1, <1>2

LEMMA KFastForwardNext ==
  ASSUME TInv, KInv, Grows, NEW tx \in exec.todo, FastForwardNext(tx)
  PROVE  KInv'
<1>1. /\ exec.pc = "ff" /\ exec.i = exec.end /\ Free(exec.tx.from, exec.exp)
      /\ tx.nonce = exec.exp /\ tx \in launch /\ tx \in TxsOf(exec.tx.from, "TxInitial")
      /\ tx.from = exec.tx.from /\ exec.exp \in Nat
  BY DEF FastForwardNext, KInv, ExecInStep, CopiesCurrent, TxsOf, TInv, TypeOK, Executor
<1>2. exec.todo = {tx}
  <2>1. \A r \in exec.todo : r \in launch /\ r.from = tx.from /\ r.nonce = tx.nonce
    BY <1>1 DEF KInv, ExecInStep, CopiesCurrent, TxsOf
  <2> QED
    BY <1>1, <2>1, NoTxIsNoRow DEF KInv, NoncesAllotted
<1>3. exec' = [exec EXCEPT !.pc = "send", !.tx = tx, !.todo = {}]
  BY <1>2 DEF FastForwardNext
<1>4. exec'.pc = "send" /\ exec'.tx = tx /\ exec'.todo = {} /\ exec'.i = exec'.end
  BY <1>1, <1>3 DEF TInv, TypeOK, Executor
<1>5. Free(tx.from, tx.nonce)'
  BY <1>1 DEF Free, Aborted, Taken, FastForwardNext, dbVars, nodeVars
<1>6. CopiesCurrent'
  BY <1>1, <1>4 DEF KInv, CopiesCurrent, FastForwardNext, dbVars, TxsOf
<1>7. ExecInStep'
  BY <1>4, <1>5 DEF ExecInStep
<1> QED
  BY <1>6, <1>7, KCopies DEF FastForwardNext

\* After a send the executor is done or back in the fast-forward.
LEMMA KSent ==
  ASSUME TInv, KInv, exec.pc \in {"decide", "send"}
  PROVE  \/ Sent = Idle
         \/ /\ Sent.pc = "ff" /\ Sent.todo = {} /\ Sent.i = Sent.end
BY DEF TInv, TypeOK, Executor, KInv, ExecInStep, Sent

LEMMA KSendFails ==
  ASSUME TInv, KInv, Grows, sendTransactionFails
  PROVE  KInv'
<1>1. exec' = Sent /\ exec.pc \in {"decide", "send"}
  BY DEF sendTransactionFails
<1>2. CopiesCurrent' /\ ExecInStep'
  BY <1>1, KSent DEF KInv, CopiesCurrent, ExecInStep, Idle, sendTransactionFails, dbVars, TxsOf
<1> QED
  BY <1>2, KCopies DEF sendTransactionFails

\* The syncer and the monitor put copies aside.
LEMMA KFewerCopies ==
  ASSUME TInv, KInv, Grows, UNCHANGED <<dbVars, exec, nodeVars>>,
         \A a \in Accounts : \A tx \in syncTodo'[a] : tx \in TxsOf(a, "TxPending"),
         \A tx \in monTodo' : tx \in launch /\ Settled(tx)
  PROVE  KInv'
<1>1. CopiesCurrent'
  BY DEF KInv, CopiesCurrent, TxsOf, dbVars
<1>2. ExecInStep'
  BY DEF KInv, ExecInStep, Free, Aborted, Taken, dbVars, nodeVars
<1> QED
  BY <1>1, <1>2, KCopies

LEMMA KSyncCopies ==
  ASSUME TInv, KInv, Grows, NEW a \in Accounts,
         \/ syncTransaction(a)
         \/ \E tx \in syncTodo[a] : SyncAccelerated(a, tx) \/ SyncSkips(a, tx)
  PROVE  KInv'
<1>1. UNCHANGED <<dbVars, exec, nodeVars, monTodo>>
  BY DEF syncTransaction, SyncAccelerated, SyncSkips
<1>2. \A b \in Accounts : \A tx \in syncTodo'[b] : tx \in TxsOf(b, "TxPending")
  BY DEF KInv, CopiesCurrent, TInv, TypeOK, syncTransaction, SyncAccelerated, SyncSkips, Turn
<1> QED
  BY <1>1, <1>2, KFewerCopies DEF KInv, CopiesCurrent

LEMMA KMonitorCopies ==
  ASSUME TInv, KInv, Grows,
         syncUnmatureTransaction \/ \E tx \in monTodo : MonitorSkips(tx)
  PROVE  KInv'
<1>1. UNCHANGED <<dbVars, exec, nodeVars, syncTodo>>
  BY DEF syncUnmatureTransaction, MonitorSkips
<1>2. \A tx \in monTodo' : tx \in launch /\ Settled(tx)
  BY DEF KInv, CopiesCurrent, syncUnmatureTransaction, GetTxsByTime, MonitorSkips, MonitorTurn
<1> QED
  BY <1>1, <1>2, KFewerCopies DEF KInv, CopiesCurrent

-----------------------------------------------------------------------------
(***************************************************************************)
(* Steps that save a row                                                   *)
(***************************************************************************)

\* What a match's row says does not concern another match.
LEMMA OtherRows ==
  ASSUME TInv, KInv, NEW old \in launch, NEW st,
         matchStatus' = [matchStatus EXCEPT ![old.txID] = st]
  PROVE  /\ matchStatus'[old.txID] = st
         /\ \A t \in Matches : t # old.txID => matchStatus'[t] = matchStatus[t]
         /\ \A r \in launch : r # old =>
              r.txID # old.txID /\ matchStatus'[r.txID] = matchStatus[r.txID]
<1>1. old.txID \in Matches /\ \A r \in launch : r.txID \in Matches
  BY RowFields
<1>2. \A r \in launch : r # old => r.txID # old.txID
  BY DEF KInv, OneRowEach
<1> QED
  BY <1>1, <1>2 DEF TInv, TypeOK

\* The status of a row changes, its nonce and its hash do not.
LEMMA KRowSaved ==
  ASSUME TInv, KInv, Grows, UNCHANGED <<nextNonce, nodeVars>>,
         NEW old \in launch, NEW new, NEW st,
         new.txID = old.txID, new.from = old.from, new.nonce = old.nonce, new.hash = old.hash,
         launch' = (launch \ {old}) \cup {new},
         matchStatus' = [matchStatus EXCEPT ![old.txID] = st],
         new.status \in {"TxInitial", "TxCanceled"} <=> old.hash = NoHash,
         new.status = "TxCanceled" \/ st = "ABORT" =>
           old.hash = NoHash /\ old.nonce # NoNonce /\ Taken(old.from, old.nonce),
         st = "PENDING" => new.status \in {"TxInitial", "TxPending"},
         CopiesCurrent', ExecInStep', used'["torn"] = 0 => SettledRows'
  PROVE  KInv'
<1>1. /\ matchStatus'[old.txID] = st
      /\ \A t \in Matches : t # old.txID => matchStatus'[t] = matchStatus[t]
      /\ \A r \in launch : r # old =>
           r.txID # old.txID /\ matchStatus'[r.txID] = matchStatus[r.txID]
  BY OtherRows
<1>2. /\ \A a, k : Taken(a, k)' <=> Taken(a, k)
      /\ \A h : Dead(h)' <=> Dead(h)
      /\ sent' = sent
  BY DEF nodeVars, Taken, Dead
<1>3. OneRowEach'
  BY <1>1 DEF KInv, OneRowEach
<1>4. RowsTruthful'
  <2> SUFFICES ASSUME NEW r \in launch' PROVE RowsTruthful!(r)'
    BY DEF RowsTruthful
  <2>1. CASE r = new
    BY <1>1, <1>2, <2>1 DEF KInv, RowsTruthful, Aborted
  <2>2. CASE r \in launch /\ r # old
    BY <1>1, <1>2, <2>2 DEF KInv, RowsTruthful, Aborted
  <2> QED
    BY <2>1, <2>2
<1>5. NoncesAllotted'
  BY <1>2 DEF KInv, NoncesAllotted
<1>6. SentTaken'
  BY <1>2 DEF KInv, SentTaken
<1>7. HaveRows'
  BY <1>1 DEF KInv, HaveRows
<1>8. PendingIsOnItsWay'
  <2> SUFFICES ASSUME NEW t \in Matches, matchStatus'[t] = "PENDING"
               PROVE  \E r \in launch' : r.txID = t /\ r.status \in {"TxInitial", "TxPending"}
    BY DEF PendingIsOnItsWay
  <2>1. CASE t = old.txID
    BY <1>1, <2>1
  <2>2. CASE t # old.txID
    BY <1>1, <2>2 DEF KInv, PendingIsOnItsWay
  <2> QED
    BY <2>1, <2>2
<1>9. used'["slow"] = 0 => AliveIsRow'
  BY <1>2, KindsNamed DEF KInv, AliveIsRow, Grows
<1>10. used'["slow"] = 0 /\ used'["lost"] = 0 => AliveRecorded'
  BY <1>2, KindsNamed DEF KInv, AliveRecorded, Grows
<1> QED
  BY <1>3, <1>4, <1>5, <1>6, <1>7, <1>8, <1>9, <1>10 DEF KInv

\* The matcher is told of a match that is not settled yet.
LEMMA KSettles ==
  ASSUME TInv, KInv, Grows, NEW old \in launch, NEW new, new.txID = old.txID,
         launch' = (launch \ {old}) \cup {new},
         settled' = [settled EXCEPT ![old.txID] = @ + 1],
         old.status \in {"TxInitial", "TxPending"},
         new.status \in {"TxSuccess", "TxFailed", "TxCanceled"}
  PROVE  used'["torn"] = 0 => SettledRows'
<1> SUFFICES ASSUME used'["torn"] = 0, NEW t \in Matches PROVE SettledRows!(t)'
  BY DEF SettledRows
<1>1. SettledRows
  BY KindsNamed DEF KInv, Grows
<1>2. old.txID \in Matches /\ settled \in [Matches -> Nat]
  BY RowFields DEF TInv, TypeOK
<1>3. CASE t = old.txID
  <2>1. settled[t] = 0
    BY <1>1, <1>3 DEF SettledRows, KInv, OneRowEach
  <2> QED
    BY <1>2, <1>3, <2>1
<1>4. CASE t # old.txID
  BY <1>1, <1>2, <1>4 DEF SettledRows
<1> QED
  BY <1>3, <1>4

\* A torn commit is counted.
LEMMA TornCounts ==
  ASSUME TInv, Trouble("torn")
  PROVE  used'["torn"] # 0
BY KindsNamed DEF TInv, TypeOK, Trouble

LEMMA KReset ==
  ASSUME TInv, KInv, Grows, Reset
  PROVE  KInv'
<1>1. PICK old \in launch : /\ old = exec.tx /\ old.status = "TxInitial" /\ old.hash = NoHash
                            /\ exec.pc = "decide"
  BY DEF Reset, KInv, CopiesCurrent, TxsOf, RowsTruthful
<1>2. old.nonce \in Nat /\ old.nonce < exec.exp /\ exec.exp \in Nat /\ old.nonce # NoNonce
  BY <1>1, RowFields DEF Reset, UsedUp, TInv, TypeOK, Executor
<1>3. Taken(old.from, old.nonce)
  BY <1>1, <1>2 DEF KInv, ExecInStep, Free
<1>4. /\ matchStatus' = [matchStatus EXCEPT ![old.txID] = "ABORT"]
      /\ settled' = [settled EXCEPT ![old.txID] = @ + 1]
      /\ \/ launch' = UpdateTx(launch, [old EXCEPT !.status = "TxCanceled"])
         \/ launch' = launch /\ Trouble("torn")
      /\ exec' = Idle
  BY <1>1 DEF Reset, UpdateOrdersStatus, TransactionStatus
<1>5. exec'.pc = "idle" /\ exec'.todo = {}
  BY <1>4 DEF Idle
<1>6. ExecInStep'
  BY <1>5 DEF ExecInStep
<1>7. UNCHANGED <<nextNonce, nodeVars, syncTodo, monTodo>>
  BY DEF Reset
<1>8. ASSUME NEW new, new.status \in {"TxInitial", "TxCanceled"},
             launch' = (launch \ {old}) \cup {new}
      PROVE  CopiesCurrent'
  BY <1>1, <1>5, <1>7, <1>8 DEF KInv, CopiesCurrent, TxsOf, Settled
<1>9. CASE launch' = UpdateTx(launch, [old EXCEPT !.status = "TxCanceled"])
  <2>1. PICK new : new = [old EXCEPT !.status = "TxCanceled"]
    OBVIOUS
  <2>2. /\ new.id = old.id /\ new.txID = old.txID /\ new.from = old.from
        /\ new.nonce = old.nonce /\ new.hash = old.hash /\ new.status = "TxCanceled"
    BY <2>1, RowFields DEF Row
  <2>3. launch' = (launch \ {old}) \cup {new}
    BY <1>9, <2>1, <2>2, Replaced
  <2>4. used'["torn"] = 0 => SettledRows'
    BY <1>1, <1>4, <2>2, <2>3, KSettles
  <2>5. CopiesCurrent'
    BY <1>8, <2>2, <2>3
  <2>6. new.status \in {"TxInitial", "TxCanceled"} <=> old.hash = NoHash
    BY <1>1, <2>2
  <2> QED
    BY <1>2, <1>3, <1>4, <1>6, <1>7, <1>1, <2>2, <2>3, <2>4, <2>5, <2>6, KRowSaved
<1>10. CASE launch' = launch /\ Trouble("torn")
  <2>1. launch' = (launch \ {old}) \cup {old}
    BY <1>10
  <2>2. CopiesCurrent'
    BY <1>1, <1>8, <2>1
  <2>3. used'["torn"] # 0
    BY <1>10, TornCounts
  <2> QED
    BY <1>1, <1>2, <1>3, <1>4, <1>6, <1>7, <2>1, <2>2, <2>3, KRowSaved
<1> QED
  BY <1>4, <1>9, <1>10

LEMMA KUpdateStatus ==
  ASSUME TInv, KInv, Grows, NEW a \in Accounts, NEW tx \in syncTodo[a], updateStatusByUser(a, tx)
  PROVE  KInv'
<1>1. tx \in launch /\ tx.from = a /\ tx.status = "TxPending" /\ tx.hash # NoHash
  BY DEF KInv, CopiesCurrent, TxsOf, RowsTruthful
<1>2. tx.nonce \in Nat /\ tx.nonce # NoNonce /\ tx.hash.nonce = tx.nonce /\ tx.hash \in sent
  BY <1>1, RowFields DEF KInv, RowsTruthful
<1>3. UNCHANGED <<exec, monTodo, nodeVars>> /\ syncTodo' = [syncTodo EXCEPT ![a] = @ \ {tx}]
  BY DEF updateStatusByUser, Turn
<1>4. PICK e : LET status == IF e.ok THEN "TxSuccess" ELSE "TxFailed"
                   rows == UpdateTx(launch, [tx EXCEPT !.status = status])
                   others == {r \in GetTxsByNonce(rows, tx.from, tx.nonce) : r.hash # tx.hash}
               IN IF NoHash \in {r.hash : r \in others} THEN UNCHANGED <<dbVars, used>>
                  ELSE /\ UpdateOrdersStatus(tx.txID, TransactionStatus(status))
                       /\ \/ /\ launch' = (rows \ others) \cup
                                   {[r EXCEPT !.status = "TxCanceled"] : r \in others}
                             /\ UNCHANGED used
                          \/ Trouble("torn") /\ UNCHANGED launch
                       /\ UNCHANGED nextNonce
  BY DEF updateStatusByUser
<1>5. PICK status \in {"TxSuccess", "TxFailed"} : status = IF e.ok THEN "TxSuccess" ELSE "TxFailed"
  OBVIOUS
<1>6. PICK new : new = [tx EXCEPT !.status = status]
  OBVIOUS
<1>7. /\ new.id = tx.id /\ new.txID = tx.txID /\ new.from = tx.from
      /\ new.nonce = tx.nonce /\ new.hash = tx.hash /\ new.status = status
  BY <1>1, <1>6, RowFields DEF Row
<1>8. PICK rows : rows = (launch \ {tx}) \cup {new} /\ rows = UpdateTx(launch, new)
  BY <1>1, <1>7, Replaced
<1>9. {r \in GetTxsByNonce(rows, tx.from, tx.nonce) : r.hash # tx.hash} = {}
  BY <1>1, <1>2, <1>7, <1>8 DEF GetTxsByNonce, KInv, NoncesAllotted
<1>10. /\ UpdateOrdersStatus(tx.txID, TransactionStatus(status))
       /\ launch' = rows \/ (launch' = launch /\ Trouble("torn"))
       /\ nextNonce' = nextNonce
  <2> DEFINE others == {r \in GetTxsByNonce(rows, tx.from, tx.nonce) : r.hash # tx.hash}
             canceled == {[r EXCEPT !.status = "TxCanceled"] : r \in others}
  <2>1. others = {} /\ canceled = {} /\ {r.hash : r \in others} = {}
    BY <1>9
  <2>2. IF NoHash \in {r.hash : r \in others} THEN UNCHANGED <<dbVars, used>>
        ELSE /\ UpdateOrdersStatus(tx.txID, TransactionStatus(status))
             /\ \/ /\ launch' = (rows \ others) \cup canceled
                   /\ UNCHANGED used
                \/ Trouble("torn") /\ UNCHANGED launch
             /\ UNCHANGED nextNonce
    BY <1>4, <1>5, <1>6, <1>8
  <2> HIDE DEF others, canceled
  <2> QED
    BY <2>1, <2>2
<1>11. PICK st \in {"SUCCESS", "FAIL"} :
         /\ matchStatus' = [matchStatus EXCEPT ![tx.txID] = st]
         /\ settled' = [settled EXCEPT ![tx.txID] = @ + 1]
  BY <1>10 DEF UpdateOrdersStatus, TransactionStatus
<1>12. ASSUME NEW row, row.txID = tx.txID, row.from = tx.from, row.nonce = tx.nonce,
              row.status # "TxCanceled",
              launch' = (launch \ {tx}) \cup {row}
       PROVE  CopiesCurrent' /\ ExecInStep'
  <2>1. CopiesCurrent'
    BY <1>1, <1>3, <1>12 DEF KInv, CopiesCurrent, TxsOf, Settled, TInv, TypeOK
  <2>2. \A r \in launch' : Aborted(r)' => r \in launch /\ Aborted(r)
    <3>1. /\ matchStatus'[tx.txID] = st
          /\ \A r \in launch : r # tx => matchStatus'[r.txID] = matchStatus[r.txID]
      BY <1>1, <1>11, OtherRows
    <3>2. ~Aborted(row)'
      BY <1>12, <3>1 DEF Aborted
    <3> QED
      BY <1>12, <3>1, <3>2 DEF Aborted
  <2>3. \A b \in Accounts, k \in Nat : Taken(b, k) => Taken(b, k)'
    BY <1>3 DEF Taken, nodeVars
  <2>4. ExecInStep'
    BY <1>3, <1>10, <2>2, <2>3, ExecutorStays DEF nodeVars
  <2> QED
    BY <2>1, <2>4
<1>13. CASE launch' = rows
  <2>1. used'["torn"] = 0 => SettledRows'
    BY <1>1, <1>7, <1>8, <1>11, <1>13, KSettles
  <2>2. CopiesCurrent' /\ ExecInStep'
    BY <1>7, <1>8, <1>12, <1>13
  <2> QED
    BY <1>1, <1>2, <1>3, <1>7, <1>8, <1>10, <1>11, <1>13, <2>1, <2>2, KRowSaved
<1>14. CASE launch' = launch /\ Trouble("torn")
  <2>1. launch' = (launch \ {tx}) \cup {tx}
    BY <1>1, <1>14
  <2>2. CopiesCurrent' /\ ExecInStep'
    BY <1>1, <1>12, <2>1
  <2> QED
    BY <1>1, <1>2, <1>3, <1>10, <1>11, <1>14, <2>1, <2>2, TornCounts, KRowSaved
<1> QED
  BY <1>10, <1>13, <1>14

LEMMA KMonitorSaves ==
  ASSUME TInv, KInv, Grows, NEW tx \in monTodo,
         checkUnmatureTransactionStatus(tx) \/ MonitorTorn(tx)
  PROVE  KInv'
<1>1. tx \in launch /\ Settled(tx) /\ tx.hash # NoHash
  BY DEF KInv, CopiesCurrent, Settled, RowsTruthful
<1>2. /\ UNCHANGED <<nextNonce, exec, syncTodo, nodeVars>>
      /\ monTodo' = monTodo \ {tx} /\ settled' = settled
  BY DEF checkUnmatureTransactionStatus, MonitorTorn, MonitorTurn, RollbackOrdersStatus
<1>3. PICK st \in {"SUCCESS", "FAIL"} : matchStatus' = [matchStatus EXCEPT ![tx.txID] = st]
  BY DEF checkUnmatureTransactionStatus, MonitorTorn, RollbackOrdersStatus, TransactionStatus
<1>4. PICK status \in {"TxSuccess", "TxFailed"} :
        launch' = launch \/ launch' = UpdateTx(launch, [tx EXCEPT !.status = status])
  BY DEF checkUnmatureTransactionStatus, MonitorTorn
<1>5. PICK new : /\ new = tx \/ new = [tx EXCEPT !.status = status]
                 /\ launch' = (launch \ {tx}) \cup {new}
                 /\ new.txID = tx.txID /\ new.from = tx.from /\ new.nonce = tx.nonce
                 /\ new.hash = tx.hash /\ Settled(new)
  <2>1. CASE launch' = launch
    BY <1>1, <2>1
  <2>2. CASE launch' = UpdateTx(launch, [tx EXCEPT !.status = status])
    <3>1. PICK row : row = [tx EXCEPT !.status = status]
      OBVIOUS
    <3>2. /\ row.id = tx.id /\ row.txID = tx.txID /\ row.from = tx.from /\ row.nonce = tx.nonce
          /\ row.hash = tx.hash /\ row.status = status
      BY <1>1, <3>1, RowFields DEF Row
    <3>3. launch' = (launch \ {tx}) \cup {row}
      BY <1>1, <2>2, <3>1, <3>2, Replaced
    <3>4. Settled(row)
      BY <3>2 DEF Settled
    <3> QED
      BY <3>1, <3>2, <3>3, <3>4
  <2> QED
    BY <1>4, <2>1, <2>2
<1>6. CopiesCurrent'
  BY <1>1, <1>2, <1>5 DEF KInv, CopiesCurrent, TxsOf, Settled
<1>7. ExecInStep'
  <2>1. /\ matchStatus'[tx.txID] = st
        /\ \A r \in launch : r # tx => matchStatus'[r.txID] = matchStatus[r.txID]
    BY <1>1, <1>3, OtherRows
  <2>2. ~Aborted(new)'
    BY <1>5, <2>1 DEF Aborted, Settled
  <2>3. \A r \in launch' : Aborted(r)' => r \in launch /\ Aborted(r)
    BY <1>5, <2>1, <2>2 DEF Aborted
  <2>4. \A b \in Accounts, k \in Nat : Taken(b, k) => Taken(b, k)'
    BY <1>2 DEF Taken, nodeVars
  <2> QED
    BY <1>2, <2>3, <2>4, ExecutorStays DEF nodeVars
<1>8. used'["torn"] = 0 => SettledRows'
  <2>1. new.status \in {"TxSuccess", "TxFailed", "TxCanceled"}
    BY <1>5 DEF Settled
  <2> QED
    BY <1>2, <1>5, <2>1, KindsNamed DEF KInv, SettledRows, Grows
<1>9. new.status \in {"TxSuccess", "TxFailed"}
  BY <1>5 DEF Settled
<1> QED
  BY <1>1, <1>2, <1>3, <1>5, <1>6, <1>7, <1>8, <1>9, KRowSaved

\* A receipt the syncer has waited for long enough never comes: the nonce
\* is used by somebody else.
LEMMA NotFoundIsDead ==
  ASSUME TInv, KInv, Grows, NEW h \in sent, NotFound(h), used'["slow"] = 0
  PROVE  Dead(h)
<1>1. h # NoHash /\ h.from \in Accounts /\ h.nonce \in Nat /\ pool \subseteq sent
  BY RowFields DEF TInv, TypeOK
<1>2. h \notin pool
  <2>1. Trouble("slow") => used'["slow"] # 0
    BY KindsNamed DEF TInv, TypeOK, Trouble
  <2> QED
    BY <2>1 DEF NotFound, Waited, Slow
<1>3. Taken(h.from, h.nonce)
  BY <1>1 DEF KInv, SentTaken
<1>4. h.nonce < Len(chain[h.from])
  BY <1>1, <1>2, <1>3 DEF Taken, KInv, SentTaken
<1>5. \A i \in 1..Len(chain[h.from]) : chain[h.from][i].hash # h
  BY <1>1 DEF NotFound, Receipts
<1>6. h.nonce + 1 \in 1..Len(chain[h.from])
  <2>1. Len(chain[h.from]) \in Nat
    BY <1>1 DEF TInv, TypeOK
  <2> QED
    BY <1>1, <1>4, <2>1
<1> QED
  BY <1>4, <1>5, <1>6 DEF Dead

LEMMA KResetTransaction ==
  ASSUME TInv, KInv, Grows, NEW a \in Accounts, NEW tx \in syncTodo[a], resetTransaction(a, tx)
  PROVE  KInv'
<1>1. tx \in launch /\ tx.from = a /\ tx.status = "TxPending" /\ tx.hash # NoHash
  BY DEF KInv, CopiesCurrent, TxsOf, RowsTruthful
<1>2. tx.hash \in sent /\ tx.hash.from = a /\ tx.hash.nonce = tx.nonce /\ ~Aborted(tx)
  BY <1>1 DEF KInv, RowsTruthful
<1>3. /\ UNCHANGED <<matchStatus, settled, nextNonce, exec, monTodo, nodeVars>>
      /\ syncTodo' = [syncTodo EXCEPT ![a] = @ \ {tx}] /\ NotFound(tx.hash)
  BY DEF resetTransaction, Turn
<1>4. PICK new : new = [tx EXCEPT !.nonce = NoNonce, !.hash = NoHash, !.status = "TxInitial"]
  OBVIOUS
<1>5. /\ new.id = tx.id /\ new.txID = tx.txID /\ new.from = tx.from
      /\ new.nonce = NoNonce /\ new.hash = NoHash /\ new.status = "TxInitial"
  BY <1>1, <1>4, RowFields DEF Row
<1>6. launch' = (launch \ {tx}) \cup {new}
  BY <1>1, <1>4, <1>5, Replaced DEF resetTransaction
<1>7. /\ \A b, k : Taken(b, k)' <=> Taken(b, k)
      /\ \A h : Dead(h)' <=> Dead(h)
      /\ sent' = sent
  BY <1>3 DEF nodeVars, Taken, Dead
<1>8. OneRowEach'
  BY <1>1, <1>5, <1>6 DEF KInv, OneRowEach
<1>9. RowsTruthful'
  <2> SUFFICES ASSUME NEW r \in launch' PROVE RowsTruthful!(r)'
    BY DEF RowsTruthful
  <2>1. CASE r = new
    BY <1>2, <1>3, <1>5, <2>1 DEF Aborted
  <2>2. CASE r \in launch
    BY <1>3, <1>7, <2>2 DEF KInv, RowsTruthful, Aborted
  <2> QED
    BY <1>6, <2>1, <2>2
<1>10. CopiesCurrent'
  BY <1>1, <1>3, <1>6 DEF KInv, CopiesCurrent, TxsOf, Settled, TInv, TypeOK
<1>11. NoncesAllotted'
  BY <1>3, <1>5, <1>6, <1>7 DEF KInv, NoncesAllotted
<1>12. SentTaken'
  BY <1>1, <1>5, <1>6, <1>7 DEF KInv, SentTaken
<1>13. ExecInStep'
  <2>1. ~Aborted(new)'
    BY <1>2, <1>3, <1>5 DEF Aborted
  <2>2. \A r \in launch' : Aborted(r)' => r \in launch /\ Aborted(r)
    BY <1>3, <1>6, <2>1 DEF Aborted
  <2> QED
    BY <1>3, <1>7, <2>2, ExecutorStays
<1>14. HaveRows' /\ PendingIsOnItsWay'
  BY <1>1, <1>3, <1>5, <1>6 DEF KInv, HaveRows, PendingIsOnItsWay
<1>15. ASSUME used'["slow"] = 0
       PROVE  AliveIsRow' /\ (used'["lost"] = 0 => AliveRecorded')
  <2>1. AliveIsRow /\ (used'["lost"] = 0 => AliveRecorded)
    BY <1>15, KindsNamed DEF KInv, Grows
  <2>2. Dead(tx.hash)
    BY <1>2, <1>3, <1>15, NotFoundIsDead
  <2>3. \A h \in sent : h.txID = tx.txID => Dead(h)
    BY <1>1, <1>2, <2>1, <2>2 DEF AliveIsRow, KInv, SentTaken
  <2>4. AliveIsRow'
    BY <1>5, <1>6, <1>7, <2>1, <2>3 DEF AliveIsRow
  <2>5. used'["lost"] = 0 => AliveRecorded'
    BY <1>6, <1>7, <2>1, <2>2 DEF AliveRecorded
  <2> QED
    BY <2>4, <2>5
<1>16. used'["torn"] = 0 => SettledRows'
  BY <1>1, <1>3, <1>6, KindsNamed DEF KInv, SettledRows, Grows
<1> QED
  BY <1>8, <1>9, <1>10, <1>11, <1>12, <1>13, <1>14, <1>15, <1>16 DEF KInv

LEMMA KAllocate ==
  ASSUME TInv, KInv, Grows, Allocate
  PROVE  KInv'
<1>1. PICK old \in launch : /\ old = exec.tx /\ old.status = "TxInitial" /\ old.hash = NoHash
                            /\ exec.pc = "decide"
  BY DEF Allocate, KInv, CopiesCurrent, TxsOf, RowsTruthful
<1>2. PICK a \in Accounts : a = old.from
  BY RowFields
<1>3. PICK n \in Nat : n = exec.exp
  BY DEF TInv, TypeOK, Executor
<1>4. /\ Free(a, n) /\ nextNonce[a] <= n + 1 /\ nextNonce[a] \in Int
      /\ exec.todo = {} /\ exec.end = 0
  BY <1>1, <1>2, <1>3 DEF KInv, ExecInStep, TInv, TypeOK, NoNonce
<1>5. old.nonce = NoNonce \/ old.nonce = n
  BY <1>1, <1>3, RowFields DEF Allocate, UsedUp, Behind, TargetNonce
<1>6. nextNonce[a] <= n \/ (old.nonce = n /\ nextNonce[a] = n + 1)
  <2>1. CASE old.nonce = NoNonce
    BY <1>1, <1>2, <1>3, <1>4, <2>1 DEF Allocate, UsedUp, Behind, TargetNonce
  <2>2. CASE old.nonce = n
    BY <1>2, <1>4, <2>2, RowFields DEF KInv, NoncesAllotted
  <2> QED
    BY <1>5, <2>1, <2>2
<1>7. ~Aborted(old)
  BY <1>2, <1>4, <1>5 DEF Free, KInv, RowsTruthful
<1>8. PICK new : new = [old EXCEPT !.nonce = n]
  OBVIOUS
<1>9. /\ new.id = old.id /\ new.txID = old.txID /\ new.from = a
      /\ new.nonce = n /\ new.hash = NoHash /\ new.status = "TxInitial"
  BY <1>1, <1>2, <1>8, RowFields DEF Row
<1>10. /\ launch' = (launch \ {old}) \cup {new}
       /\ nextNonce' = [nextNonce EXCEPT ![a] = n + 1]
       /\ exec' = [exec EXCEPT !.pc = "send", !.tx = new]
       /\ UNCHANGED <<matchStatus, settled, syncTodo, monTodo, nodeVars, used>>
  <2>1. launch' = UpdateTx(launch, new)
    BY <1>1, <1>3, <1>8 DEF Allocate
  <2> QED
    BY <1>1, <1>3, <1>8, <1>9, <2>1, Replaced DEF Allocate
<1>11. /\ \A b, k : Taken(b, k)' <=> Taken(b, k)
       /\ \A h : Dead(h)' <=> Dead(h)
       /\ sent' = sent
  BY <1>10 DEF nodeVars, Taken, Dead
<1>12. \A b \in Accounts : nextNonce'[b] = IF b = a THEN n + 1 ELSE nextNonce[b]
  BY <1>10 DEF TInv, TypeOK
<1>13. OneRowEach'
  BY <1>9, <1>10 DEF KInv, OneRowEach
<1>14. ~Aborted(new)'
  BY <1>7, <1>9, <1>10 DEF Aborted
<1>15. RowsTruthful'
  <2> SUFFICES ASSUME NEW r \in launch' PROVE RowsTruthful!(r)'
    BY DEF RowsTruthful
  <2>1. CASE r = new
    BY <1>9, <1>14, <2>1
  <2>2. CASE r \in launch
    BY <1>10, <1>11, <2>2 DEF KInv, RowsTruthful, Aborted
  <2> QED
    BY <1>10, <2>1, <2>2
<1>16. exec'.pc = "send" /\ exec'.tx = new /\ exec'.todo = {} /\ exec'.end = 0
  BY <1>4, <1>10 DEF TInv, TypeOK, Executor
<1>17. CopiesCurrent'
  BY <1>1, <1>9, <1>10, <1>16 DEF KInv, CopiesCurrent, TxsOf, Settled
<1>18. ExecInStep'
  <2>1. Free(a, n)'
    BY <1>4, <1>10, <1>11, <1>14 DEF Free, Aborted
  <2> QED
    BY <1>9, <1>16, <2>1 DEF ExecInStep
<1>19. NoncesAllotted'
  <2>1. \A r \in launch : r # old /\ r.from = a /\ r.nonce # NoNonce => r.nonce < n
    <3> SUFFICES ASSUME NEW r \in launch, r # old, r.from = a, r.nonce # NoNonce PROVE r.nonce < n
      OBVIOUS
    <3>1. r.nonce \in Nat /\ r.nonce < nextNonce[a] /\ (old.nonce = n => r.nonce # n)
      BY <1>2, RowFields DEF KInv, NoncesAllotted
    <3> QED
      BY <1>4, <1>6, <3>1
  <2>2. \A r \in launch' : r.nonce # NoNonce => r.nonce < nextNonce'[r.from]
    BY <1>9, <1>10, <1>12, <2>1, RowFields DEF KInv, NoncesAllotted
  <2>3. \A r, s \in launch' : r.from = s.from /\ r.nonce = s.nonce /\ r.nonce # NoNonce => r = s
    BY <1>9, <1>10, <2>1 DEF KInv, NoncesAllotted
  <2>4. \A b \in Accounts : \A k \in 0..(nextNonce'[b] - 2) : Taken(b, k)'
    BY <1>4, <1>11, <1>12 DEF KInv, NoncesAllotted, Free
  <2> QED
    BY <2>2, <2>3, <2>4 DEF NoncesAllotted
<1>20. SentTaken'
  BY <1>9, <1>10, <1>11 DEF KInv, SentTaken
<1>21. HaveRows' /\ PendingIsOnItsWay'
  BY <1>9, <1>10 DEF KInv, HaveRows, PendingIsOnItsWay
<1>22. used'["slow"] = 0 => AliveIsRow'
  <2> SUFFICES ASSUME used'["slow"] = 0 PROVE AliveIsRow'
    OBVIOUS
  <2>1. AliveIsRow
    BY <1>10 DEF KInv
  <2>2. \A h \in sent : h.txID = old.txID => Dead(h) \/ (h.from = a /\ h.nonce = n)
    BY <1>2, <1>5, <2>1, RowFields DEF AliveIsRow
  <2> QED
    BY <1>9, <1>10, <1>11, <2>1, <2>2 DEF AliveIsRow
<1>23. used'["slow"] = 0 /\ used'["lost"] = 0 => AliveRecorded'
  BY <1>1, <1>10, <1>11, RowFields DEF KInv, AliveRecorded
<1>24. used'["torn"] = 0 => SettledRows'
  BY <1>1, <1>10 DEF KInv, SettledRows
<1> QED
  BY <1>13, <1>15, <1>17, <1>18, <1>19, <1>20, <1>21, <1>22, <1>23, <1>24 DEF KInv

\* The node takes what the executor sends; the executor saves it or not.
LEMMA KNodeTakes ==
  ASSUME TInv, KInv, Grows, exec.pc = "send", NEW p \in Prices, Accept(HashAt(p)), exec' = Sent,
         UNCHANGED <<matchStatus, settled, nextNonce, syncTodo, monTodo>>,
         NEW new, new.txID = exec.tx.txID, new.from = exec.tx.from, new.nonce = exec.tx.nonce,
         launch' = (launch \ {exec.tx}) \cup {new},
         \/ new.status = "TxPending" /\ new.hash = HashAt(p)
         \/ new = exec.tx /\ used'["lost"] # 0
  PROVE  KInv'
<1>1. PICK old \in launch : old = exec.tx /\ old.status = "TxInitial" /\ old.hash = NoHash
  BY DEF KInv, CopiesCurrent, TxsOf, RowsTruthful
<1>2. PICK a \in Accounts, n \in Nat : a = old.from /\ n = old.nonce /\ n # NoNonce
  BY <1>1, RowFields DEF TInv, CopiesNumbered
<1>3. Free(a, n)
  BY <1>1, <1>2 DEF KInv, ExecInStep
<1>4. PICK h \in Hash : /\ h = HashAt(p) /\ h.from = a /\ h.nonce = n
                        /\ h.txID = old.txID /\ h # NoHash
  BY <1>1, <1>2, HashType
<1>5. sent' = sent \cup {h} /\ h \notin sent
  BY <1>3, <1>4 DEF Accept, Free
<1>6. /\ \A b, k : Taken(b, k) => Taken(b, k)'
      /\ Taken(a, n)'
      /\ \A g : Dead(g)' <=> Dead(g)
  BY <1>4, AcceptTakes
<1>7. ~Aborted(old)
  BY <1>2, <1>3 DEF Free
<1>8. launch' = (launch \ {old}) \cup {new} /\ ~Aborted(new)'
  BY <1>1, <1>7 DEF Aborted
<1>9. OneRowEach'
  BY <1>1, <1>8 DEF KInv, OneRowEach
<1>10. RowsTruthful'
  <2> SUFFICES ASSUME NEW r \in launch' PROVE RowsTruthful!(r)'
    BY DEF RowsTruthful
  <2>1. CASE r = new
    BY <1>1, <1>2, <1>4, <1>5, <1>8, <2>1
  <2>2. CASE r \in launch
    BY <1>5, <1>6, <2>2 DEF KInv, RowsTruthful, Aborted
  <2> QED
    BY <1>8, <2>1, <2>2
<1>11. exec'.todo = {} /\ (exec'.pc = "idle" \/ (exec'.pc = "ff" /\ exec'.i = exec'.end))
  BY KSent DEF Idle
<1>12. CopiesCurrent'
  BY <1>1, <1>8, <1>11 DEF KInv, CopiesCurrent, TxsOf, Settled
<1>13. ExecInStep'
  BY <1>11 DEF ExecInStep
<1>14. NoncesAllotted'
  <2>1. \A b \in Accounts : \A k \in 0..(nextNonce[b] - 2) : Taken(b, k)'
    BY <1>6 DEF KInv, NoncesAllotted
  <2> QED
    BY <1>1, <1>8, <2>1 DEF KInv, NoncesAllotted
<1>15. SentTaken'
  <2>1. \A g \in sent' : \A k \in 0..g.nonce : Taken(g.from, k)'
    BY <1>3, <1>4, <1>5, <1>6 DEF KInv, SentTaken, Free
  <2>2. \A f, g \in sent' : f.from = g.from /\ f.nonce = g.nonce => f = g
    BY <1>3, <1>4, <1>5 DEF KInv, SentTaken, Free
  <2>3. \A g \in sent' : \E r \in launch' : r.txID = g.txID
    BY <1>1, <1>4, <1>5, <1>8 DEF KInv, SentTaken
  <2> QED
    BY <2>1, <2>2, <2>3 DEF SentTaken
<1>16. HaveRows' /\ PendingIsOnItsWay'
  BY <1>1, <1>8 DEF KInv, HaveRows, PendingIsOnItsWay
<1>17. used'["slow"] = 0 => AliveIsRow'
  <2> SUFFICES ASSUME used'["slow"] = 0 PROVE AliveIsRow'
    OBVIOUS
  <2>1. AliveIsRow
    BY KindsNamed DEF KInv, Grows
  <2>2. \A r \in launch' : r.txID = h.txID => r = new
    BY <1>1, <1>4, <1>8 DEF KInv, OneRowEach
  <2> QED
    BY <1>1, <1>2, <1>4, <1>5, <1>6, <1>8, <2>1, <2>2 DEF AliveIsRow
<1>18. used'["slow"] = 0 /\ used'["lost"] = 0 => AliveRecorded'
  <2> SUFFICES ASSUME used'["slow"] = 0, used'["lost"] = 0 PROVE AliveRecorded'
    OBVIOUS
  <2>1. AliveRecorded
    BY KindsNamed DEF KInv, Grows
  <2> QED
    BY <1>1, <1>4, <1>5, <1>6, <1>8, <2>1, RowFields DEF AliveRecorded
<1>19. used'["torn"] = 0 => SettledRows'
  BY <1>1, <1>8, KindsNamed DEF KInv, SettledRows, Grows
<1> QED
  BY <1>9, <1>10, <1>12, <1>13, <1>14, <1>15, <1>16, <1>17, <1>18, <1>19 DEF KInv

LEMMA KSend ==
  ASSUME TInv, KInv, Grows, NEW p \in Prices, send(p)
  PROVE  KInv'
<1>1. exec.pc = "send" /\ exec.tx \in launch /\ exec.tx.hash = NoHash
  BY DEF send, KInv, CopiesCurrent, TxsOf, RowsTruthful
<1>2. HashAt(p) \in Hash
  BY <1>1, HashType
<1>3. PICK new : new = [exec.tx EXCEPT !.status = "TxPending", !.hash = HashAt(p)]
  OBVIOUS
<1>4. /\ new.id = exec.tx.id /\ new.txID = exec.tx.txID /\ new.from = exec.tx.from
      /\ new.nonce = exec.tx.nonce /\ new.hash = HashAt(p) /\ new.status = "TxPending"
  BY <1>1, <1>2, <1>3, RowFields DEF Row
<1>5. launch' = UpdateTx(launch, new)
  BY <1>1, <1>3 DEF send
<1>6. launch' = (launch \ {exec.tx}) \cup {new}
  BY <1>1, <1>4, <1>5, Replaced
<1> QED
  BY <1>1, <1>4, <1>6, KNodeTakes DEF send

LEMMA KSendLost ==
  ASSUME TInv, KInv, Grows, NEW p \in Prices, sendLost(p)
  PROVE  KInv'
<1>1. exec.pc = "send" /\ exec.tx \in launch
  BY DEF sendLost, KInv, CopiesCurrent, TxsOf
<1>2. launch' = (launch \ {exec.tx}) \cup {exec.tx}
  BY <1>1 DEF sendLost, dbVars
<1>3. used'["lost"] # 0
  BY KindsNamed DEF TInv, TypeOK, sendLost, Trouble
<1> QED
  BY <1>1, <1>2, <1>3, KNodeTakes DEF sendLost, dbVars

LEMMA KLauncher ==
  ASSUME TInv, KInv, Grows, NEW t \in Matches, NEW a \in Accounts, createLaunchTransaction(t, a)
  PROVE  KInv'
<1>1. PICK new : new = [id |-> NewId, txID |-> t, from |-> a, nonce |-> NoNonce,
                        hash |-> NoHash, status |-> "TxInitial"]
  OBVIOUS
<1>2. /\ new.txID = t /\ new.from = a /\ new.nonce = NoNonce
      /\ new.hash = NoHash /\ new.status = "TxInitial"
  BY <1>1
<1>3. /\ launch' = launch \cup {new} /\ \A r \in launch : r.txID # t
      /\ UNCHANGED <<settled, nextNonce, exec, syncTodo, monTodo, nodeVars, used>>
  BY <1>1 DEF createLaunchTransaction
<1>4. \A s \in Matches : matchStatus'[s] = IF s = t THEN "PENDING" ELSE matchStatus[s]
  BY DEF createLaunchTransaction, TInv, TypeOK
<1>5. /\ \A b, k : Taken(b, k)' <=> Taken(b, k)
      /\ \A h : Dead(h)' <=> Dead(h)
      /\ sent' = sent
  BY <1>3 DEF nodeVars, Taken, Dead
<1>6. ~Aborted(new)' /\ \A r \in launch : Aborted(r)' <=> Aborted(r)
  BY <1>2, <1>3, <1>4, RowFields DEF Aborted
<1>7. OneRowEach'
  BY <1>2, <1>3 DEF KInv, OneRowEach
<1>8. RowsTruthful'
  <2> SUFFICES ASSUME NEW r \in launch' PROVE RowsTruthful!(r)'
    BY DEF RowsTruthful
  <2>1. CASE r = new
    BY <1>2, <1>6, <2>1
  <2>2. CASE r \in launch
    BY <1>5, <1>6, <2>2 DEF KInv, RowsTruthful
  <2> QED
    BY <1>3, <2>1, <2>2
<1>9. CopiesCurrent'
  BY <1>3 DEF KInv, CopiesCurrent, TxsOf
<1>10. ExecInStep'
  BY <1>3, <1>5, <1>6, ExecutorStays
<1>11. NoncesAllotted'
  BY <1>2, <1>3, <1>5 DEF KInv, NoncesAllotted
<1>12. SentTaken'
  BY <1>3, <1>5 DEF KInv, SentTaken
<1>13. HaveRows' /\ PendingIsOnItsWay'
  BY <1>2, <1>3, <1>4 DEF KInv, HaveRows, PendingIsOnItsWay
<1>14. used'["slow"] = 0 => AliveIsRow'
  <2>1. \A h \in sent : h.txID # t
    BY <1>3 DEF KInv, SentTaken
  <2> QED
    BY <1>2, <1>3, <1>5, <2>1 DEF KInv, AliveIsRow
<1>15. used'["slow"] = 0 /\ used'["lost"] = 0 => AliveRecorded'
  BY <1>3, <1>5 DEF KInv, AliveRecorded
<1>16. used'["torn"] = 0 => SettledRows'
  BY <1>3 DEF KInv, SettledRows
<1> QED
  BY <1>7, <1>8, <1>9, <1>10, <1>11, <1>12, <1>13, <1>14, <1>15, <1>16 DEF KInv

-----------------------------------------------------------------------------

\* The trouble of a step
LEMMA StepGrows ==
  ASSUME TInv, [Next]_vars
  PROVE  Grows
<1>1. used' = used \/ \E k \in Kinds : Trouble(k)
  <2>1. CASE LauncherStep
    BY <2>1 DEF LauncherStep, createLaunchTransaction
  <2>2. CASE ExecutorStep
    BY <2>2 DEF ExecutorStep, executeTransaction, Reset, fastForward, FastForwardRead,
       FastForwardNext, Allocate, send, sendTransactionFails, sendLost, Kinds
  <2>3. CASE SyncerStep
    <3>1. PICK a \in Accounts :
            syncTransaction(a) \/ \E tx \in syncTodo[a] :
              \/ updateStatusByUser(a, tx) \/ SyncAccelerated(a, tx)
              \/ resetTransaction(a, tx) \/ SyncSkips(a, tx)
      BY <2>3 DEF SyncerStep
    <3>2. CASE syncTransaction(a)
      BY <3>2 DEF syncTransaction
    <3>3. ASSUME NEW tx \in syncTodo[a], updateStatusByUser(a, tx)
          PROVE  used' = used \/ Trouble("torn")
      BY <3>3 DEF updateStatusByUser
    <3>4. ASSUME NEW tx \in syncTodo[a],
                 SyncAccelerated(a, tx) \/ resetTransaction(a, tx) \/ SyncSkips(a, tx)
          PROVE  used' = used \/ Trouble("slow")
      BY <3>4 DEF SyncAccelerated, resetTransaction, SyncSkips, NotFound, Waited
    <3> QED
      BY <3>1, <3>2, <3>3, <3>4, KindsNamed
  <2>4. CASE MonitorStep
    BY <2>4 DEF MonitorStep, syncUnmatureTransaction, checkUnmatureTransactionStatus,
       MonitorTorn, MonitorSkips, Waited, Kinds
  <2>5. CASE Environment
    BY <2>5 DEF Environment, Mine, External, Reorg, Drop, Matures, Restart, Kinds
  <2>6. CASE UNCHANGED vars
    BY <2>6 DEF vars
  <2> QED
    BY <2>1, <2>2, <2>3, <2>4, <2>5, <2>6 DEF Next
<1> QED
  BY <1>1, UsedGrows DEF TInv

LEMMA KeptBefore ==
  ASSUME Grows, Kept'
  PROVE  Kept /\ used'["drop"] = 0 /\ used'["reorg"] = 0
BY KindsNamed DEF Grows, Kept

LEMMA KNextOK == TInv /\ KInv /\ [Next]_vars /\ Kept' => KInv'
<1> SUFFICES ASSUME TInv, KInv, [Next]_vars, Kept' PROVE KInv'
  OBVIOUS
<1>1. Grows
  BY StepGrows
<1>2. used'["drop"] = 0 /\ used'["reorg"] = 0
  BY <1>1, KeptBefore
<1>3. CASE LauncherStep
  BY <1>1, <1>3, KLauncher DEF LauncherStep
<1>4. CASE ExecutorStep
  BY <1>1, <1>4, KExecuteTransaction, KReset, KFastForward, KFastForwardRead,
     KFastForwardNext, KAllocate, KSend, KSendFails, KSendLost DEF ExecutorStep
<1>5. CASE SyncerStep
  <2>1. PICK a \in Accounts :
          syncTransaction(a) \/ \E tx \in syncTodo[a] :
            \/ updateStatusByUser(a, tx) \/ SyncAccelerated(a, tx)
            \/ resetTransaction(a, tx) \/ SyncSkips(a, tx)
    BY <1>5 DEF SyncerStep
  <2> QED
    BY <1>1, <2>1, KSyncCopies, KUpdateStatus, KResetTransaction
<1>6. CASE MonitorStep
  BY <1>1, <1>6, KMonitorCopies, KMonitorSaves DEF MonitorStep
<1>7. CASE Environment
  <2>1. ASSUME NEW h \in pool, Drop(h) PROVE FALSE
    BY <1>1, <1>2, <2>1, KindsNamed DEF Drop, Trouble, TInv, TypeOK
  <2>2. ASSUME NEW a \in Accounts, Reorg(a) PROVE FALSE
    BY <1>1, <1>2, <2>2, KindsNamed DEF Reorg, Trouble, TInv, TypeOK
  <2> QED
    BY <1>1, <1>7, <2>1, <2>2, KMine, KExternal, KMatures, KRestart DEF Environment
<1>8. CASE UNCHANGED vars
  <2>1. UNCHANGED <<dbVars, exec, syncTodo, monTodo, sent>>
    BY <1>8 DEF vars, nodeVars
  <2>2. \A a \in Accounts, k \in Nat : Taken(a, k) => Taken(a, k)'
    BY <1>8 DEF vars, nodeVars, Taken
  <2>3. \A h \in sent : Dead(h) => Dead(h)'
    BY <1>8 DEF vars, nodeVars, Dead
  <2> QED
    BY <1>1, <2>1, <2>2, <2>3, KNode
<1> QED
  BY <1>3, <1>4, <1>5, <1>6, <1>7, <1>8 DEF Next

\* The inductive invariant of the launcher
IInv == TInv /\ (Kept => KInv)

LEMMA IInvOK == Spec => []IInv
<1>1. Init => IInv
  BY TInitOK, KInitOK DEF IInv
<1>2. IInv /\ [Next]_vars => IInv'
  <2> SUFFICES ASSUME IInv, [Next]_vars PROVE IInv'
    OBVIOUS
  <2>1. TInv /\ TInv' /\ Grows
    BY TNextOK, StepGrows DEF IInv
  <2>2. Kept' => KInv'
    BY <2>1, KeptBefore, KNextOK DEF IInv
  <2> QED
    BY <2>1, <2>2 DEF IInv
<1> QED
  BY <1>1, <1>2, PTL DEF Spec

-----------------------------------------------------------------------------
(***************************************************************************)
(* Theorems                                                                *)
(***************************************************************************)

\* No nonce is given to two matches, so the syncer, which cancels the other
\* rows with the nonce of a receipt, cancels no other match
\* (Executor.executeTransaction, Syncer.updateStatusByUser).
THEOREM NonceOfOneMatch == Spec => [](Kept => OneNonceOneMatch)
<1>1. IInv => (Kept => OneNonceOneMatch)
  BY DEF IInv, KInv, NoncesAllotted, OneNonceOneMatch
<1> QED
  BY <1>1, IInvOK, PTL

\* A match the tables call pending has a row the executor or the syncer will
\* turn to, whatever was lost, torn or given up on.
THEOREM PendingHasRow == Spec => [](Kept => PendingIsOnItsWay)
<1>1. IInv => (Kept => PendingIsOnItsWay)
  BY DEF IInv, KInv
<1> QED
  BY <1>1, IInvOK, PTL

\* Where a match is on the chain
LEMMA ExecutedHash ==
  ASSUME TInv, NEW t \in Matches, NEW x \in Executions(t)
  PROVE  \E a \in Accounts, i \in Nat :
           /\ x = <<a, i + 1>>
           /\ \E h \in sent : h.txID = t /\ h.from = a /\ h.nonce = i /\ ~Dead(h)
<1>1. PICK a \in Accounts : x \in {a} \X (1..Len(chain[a])) /\ chain[x[1]][x[2]].hash.txID = t
  BY DEF Executions
<1>2. Len(chain[a]) \in Nat /\ DOMAIN chain[a] = 1..Len(chain[a])
  BY DEF TInv, TypeOK
<1>3. PICK j \in 1..Len(chain[a]) : x = <<a, j>> /\ chain[a][j].hash.txID = t
  BY <1>1
<1>4. PICK i \in Nat : j = i + 1
  <2>1. j - 1 \in Nat /\ j = (j - 1) + 1
    BY <1>2
  <2> QED
    BY <2>1
<1>5. PICK h : h = chain[a][j].hash
  OBVIOUS
<1>6. t # 0
  BY ConstantsAssumption DEF Matches
<1>7. h # NoHash
  BY <1>3, <1>5, <1>6 DEF NoHash
<1>8. h \in sent /\ h.from = a /\ h.nonce = j - 1
  BY <1>2, <1>5, <1>7 DEF TInv, ChainSent
<1>9. h.nonce = i
  BY <1>4, <1>8
<1>10. ~Dead(h)
  BY <1>4, <1>5, <1>8, <1>9 DEF Dead
<1> QED
  BY <1>3, <1>4, <1>5, <1>8, <1>9, <1>10

\* A match is executed on the chain at most once, if no receipt is given up
\* on while the node still has the transaction: before the syncer sends a
\* match again with another nonce, the chain has ruled out the first one
\* (Syncer.resetTransaction).
THEOREM ExecutedOnce == Spec => [](Kept => ExecutedAtMostOnce)
<1>1. IInv => (Kept => ExecutedAtMostOnce)
  <2> SUFFICES ASSUME TInv, KInv, NodeKeeps, NEW t \in Matches
               PROVE  Cardinality(Executions(t)) <= 1
    BY DEF IInv, ExecutedAtMostOnce
  <2>1. AliveIsRow
    BY KindsNamed DEF KInv, NodeKeeps, TInv, TypeOK
  <2>2. ASSUME NEW x \in Executions(t), NEW y \in Executions(t) PROVE x = y
    <3>1. PICK a \in Accounts, i \in Nat :
            x = <<a, i + 1>> /\ \E h \in sent : h.txID = t /\ h.from = a /\ h.nonce = i /\ ~Dead(h)
      BY ExecutedHash
    <3>2. PICK b \in Accounts, j \in Nat :
            y = <<b, j + 1>> /\ \E h \in sent : h.txID = t /\ h.from = b /\ h.nonce = j /\ ~Dead(h)
      BY ExecutedHash
    <3>3. PICK r \in launch : r.txID = t
      BY <3>1 DEF KInv, SentTaken
    <3>4. r.from = a /\ r.nonce = i /\ r.from = b /\ r.nonce = j
      BY <2>1, <3>1, <3>2, <3>3 DEF AliveIsRow
    <3> QED
      BY <3>1, <3>2, <3>4
  <2>3. CASE Executions(t) = {}
    BY <2>3, FS_EmptySet
  <2>4. CASE Executions(t) # {}
    <3>1. PICK x \in Executions(t) : TRUE
      BY <2>4
    <3>2. Executions(t) = {x}
      BY <2>2, <3>1
    <3> QED
      <4>1. Cardinality(Executions(t)) = 1
        BY <3>2, FS_Singleton
      <4> QED
        BY <4>1
  <2> QED
    BY <2>3, <2>4
<1> QED
  BY <1>1, IInvOK, PTL

\* A match that Executor.reset aborts, so that its orders go back to the
\* book, is never executed, if no answer of the node is lost.
THEOREM AbortedNotExecuted == Spec => [](Kept => AbortedIsNotExecuted)
<1>1. IInv => (Kept => AbortedIsNotExecuted)
  <2> SUFFICES ASSUME TInv, KInv, NodeKeeps, used["lost"] = 0,
                      NEW t \in Matches, matchStatus[t] = "ABORT", NEW x \in Executions(t)
               PROVE  FALSE
    BY DEF IInv, AbortedIsNotExecuted
  <2>1. AliveRecorded
    BY KindsNamed DEF KInv, NodeKeeps, TInv, TypeOK
  <2>2. PICK r \in launch : r.txID = t /\ r.hash = NoHash
    BY DEF KInv, HaveRows, RowsTruthful, Aborted
  <2>3. PICK h \in sent : h.txID = t /\ ~Dead(h)
    BY ExecutedHash
  <2>4. PICK s \in launch : s.hash = h
    BY <2>1, <2>3 DEF AliveRecorded
  <2>5. h # NoHash /\ s.txID = t
    BY <2>3, <2>4, RowFields DEF KInv, RowsTruthful
  <2> QED
    BY <2>2, <2>4, <2>5 DEF KInv, OneRowEach
<1> QED
  BY <1>1, IInvOK, PTL

\* UpdateOrdersStatus, which takes the amounts of a match out of pending, is
\* applied to a match once, if no commit after it fails.
THEOREM SettledOnce == Spec => [](Kept => SettledAtMostOnce)
<1>1. IInv => (Kept => SettledAtMostOnce)
  <2> SUFFICES ASSUME TInv, KInv, used["lost"] + used["torn"] = 0
               PROVE  \A t \in Matches : settled[t] <= 1
    BY DEF IInv, SettledAtMostOnce
  <2>1. used["torn"] = 0
    BY KindsNamed DEF TInv, TypeOK
  <2> QED
    BY <2>1 DEF KInv, SettledRows
<1> QED
  BY <1>1, IInvOK, PTL

\* A step that saves one row, which was not canceled
LEMMA OneRowSaved ==
  ASSUME TInv, NEW old \in launch, old.status # "TxCanceled", NEW new, new.id = old.id,
         UpdateTx(launch, new) \subseteq launch'
  PROVE  CanceledStays
BY DEF CanceledStays, UpdateTx, TInv, Numbered

LEMMA TableStays ==
  ASSUME launch \subseteq launch'
  PROVE  CanceledStays
BY DEF CanceledStays

\* Edits of a row keep its key.
LEMMA KeysKept ==
  ASSUME NEW r \in Row
  PROVE  /\ \A s : [r EXCEPT !.status = s].id = r.id
         /\ \A n : [r EXCEPT !.nonce = n].id = r.id
         /\ \A h : [r EXCEPT !.status = "TxPending", !.hash = h].id = r.id
         /\ [r EXCEPT !.nonce = NoNonce, !.hash = NoHash, !.status = "TxInitial"].id = r.id
BY DEF Row

LEMMA KCanceledStays ==
  ASSUME TInv, KInv, [Next]_vars
  PROVE  CanceledStays
<1>1. /\ exec.pc \in {"decide", "send"} => /\ exec.tx \in launch /\ exec.tx \in Row
                                           /\ exec.tx.status = "TxInitial"
      /\ \A a \in Accounts : \A tx \in syncTodo[a] :
           tx \in launch /\ tx \in Row /\ tx.status = "TxPending"
      /\ \A tx \in monTodo : tx \in launch /\ tx \in Row /\ tx.status # "TxCanceled"
  BY RowFields DEF KInv, CopiesCurrent, TxsOf, Settled
<1>2. CASE LauncherStep
  <2>1. launch \subseteq launch'
    BY <1>2 DEF LauncherStep, createLaunchTransaction
  <2> QED
    BY <2>1, TableStays
<1>3. CASE ExecutorStep
  <2>1. CASE Reset
    <3>1. PICK status : \/ launch' = UpdateTx(launch, [exec.tx EXCEPT !.status = status])
                        \/ launch' = launch
      BY <2>1 DEF Reset
    <3>2. exec.pc = "decide"
      BY <2>1 DEF Reset
    <3> QED
      BY <1>1, <3>1, <3>2, KeysKept, OneRowSaved, TableStays
  <2>2. CASE Allocate
    <3>1. /\ launch' = UpdateTx(launch, [exec.tx EXCEPT !.nonce = exec.exp])
          /\ exec.pc = "decide"
      BY <2>2 DEF Allocate
    <3> QED
      BY <1>1, <3>1, KeysKept, OneRowSaved
  <2>3. ASSUME NEW p \in Prices, send(p) PROVE CanceledStays
    <3>1. /\ \/ launch' = UpdateTx(launch, [exec.tx EXCEPT !.status = "TxPending",
                                                         !.hash = HashAt(p)])
             \/ launch \subseteq launch'
          /\ exec.pc = "send"
      BY <2>3 DEF send
    <3> QED
      BY <1>1, <3>1, KeysKept, OneRowSaved, TableStays
  <2>4. CASE ~(Reset \/ Allocate \/ \E p \in Prices : send(p))
    <3>1. launch' = launch
      BY <1>3, <2>4 DEF ExecutorStep, executeTransaction, fastForward, FastForwardRead,
         FastForwardNext, sendTransactionFails, sendLost, dbVars
    <3> QED
      BY <3>1, TableStays
  <2> QED
    BY <2>1, <2>2, <2>3, <2>4
<1>4. CASE SyncerStep
  <2>1. PICK a \in Accounts :
          syncTransaction(a) \/ \E tx \in syncTodo[a] :
            \/ updateStatusByUser(a, tx) \/ SyncAccelerated(a, tx)
            \/ resetTransaction(a, tx) \/ SyncSkips(a, tx)
    BY <1>4 DEF SyncerStep
  <2>2. CASE launch' = launch
    BY <2>2, TableStays
  <2>3. ASSUME NEW tx \in syncTodo[a], resetTransaction(a, tx) PROVE CanceledStays
    BY <1>1, <2>3, KeysKept, OneRowSaved DEF resetTransaction
  <2>4. ASSUME NEW tx \in syncTodo[a], updateStatusByUser(a, tx), launch' # launch
        PROVE  CanceledStays
    <3>1. PICK status :
            LET rows == UpdateTx(launch, [tx EXCEPT !.status = status])
                others == {r \in GetTxsByNonce(rows, tx.from, tx.nonce) : r.hash # tx.hash}
            IN  launch' = (rows \ others) \cup {[r EXCEPT !.status = "TxCanceled"] : r \in others}
      BY <2>4 DEF updateStatusByUser, dbVars
    <3> DEFINE new == [tx EXCEPT !.status = status]
               rows == UpdateTx(launch, new)
               others == {r \in GetTxsByNonce(rows, tx.from, tx.nonce) : r.hash # tx.hash}
    <3>2. tx \in launch /\ tx \in Row /\ tx.status = "TxPending" /\ new.id = tx.id
      BY <1>1, KeysKept
    <3> SUFFICES ASSUME NEW r \in launch, r.status = "TxCanceled"
                 PROVE  \E s \in launch' : s.id = r.id /\ s.status = "TxCanceled"
      BY DEF CanceledStays
    <3>3. r \in rows /\ r \in Row
      BY <3>2, RowFields DEF UpdateTx, TInv, Numbered
    <3>4. CASE r \in others
      <4>1. [r EXCEPT !.status = "TxCanceled"] \in launch'
        BY <3>1, <3>4
      <4>2. [r EXCEPT !.status = "TxCanceled"] = r
        BY <3>3 DEF Row
      <4> QED
        BY <4>1, <4>2
    <3>5. CASE r \notin others
      BY <3>1, <3>3, <3>5
    <3> QED
      BY <3>4, <3>5
  <2>5. ASSUME \/ syncTransaction(a)
               \/ \E tx \in syncTodo[a] : SyncAccelerated(a, tx) \/ SyncSkips(a, tx)
        PROVE  launch' = launch
    BY <2>5 DEF syncTransaction, SyncAccelerated, SyncSkips, dbVars
  <2> QED
    BY <2>1, <2>2, <2>3, <2>4, <2>5
<1>5. CASE MonitorStep
  <2>1. ASSUME NEW tx \in monTodo, checkUnmatureTransactionStatus(tx) PROVE CanceledStays
    <3>1. PICK status : \/ launch' = launch
                        \/ launch' = UpdateTx(launch, [tx EXCEPT !.status = status])
      BY <2>1 DEF checkUnmatureTransactionStatus
    <3>2. tx \in launch /\ tx \in Row /\ tx.status # "TxCanceled"
      BY <1>1
    <3>3. CASE launch' = launch
      BY <3>3, TableStays
    <3>4. CASE launch' = UpdateTx(launch, [tx EXCEPT !.status = status])
      BY <3>2, <3>4, KeysKept, OneRowSaved
    <3> QED
      BY <3>1, <3>3, <3>4
  <2>2. CASE ~\E tx \in monTodo : checkUnmatureTransactionStatus(tx)
    <3>1. launch' = launch
      BY <1>5, <2>2 DEF MonitorStep, syncUnmatureTransaction, MonitorTorn, MonitorSkips, dbVars
    <3> QED
      BY <3>1, TableStays
  <2> QED
    BY <2>1, <2>2
<1>6. CASE Environment
  <2>1. launch' = launch
    BY <1>6 DEF Environment, Mine, External, Reorg, Drop, Matures, Restart, dbVars
  <2> QED
    BY <2>1, TableStays
<1>7. CASE UNCHANGED vars
  BY <1>7, TableStays DEF vars, dbVars
<1> QED
  BY <1>2, <1>3, <1>4, <1>5, <1>6, <1>7 DEF Next

\* A canceled row stays canceled: no loop holds a copy of one that it could
\* save over it.
THEOREM CanceledForGood == Spec /\ []Kept => CanceledIsFinal
<1>1. IInv /\ Kept /\ [Next]_vars => [(OnePrice /\ used["lost"] = 0)' => CanceledStays]_vars
  BY KCanceledStays DEF IInv
<1> QED
  BY <1>1, IInvOK, PTL DEF Spec, CanceledIsFinal

=============================================================================
