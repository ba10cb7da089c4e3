------------------------------ MODULE Launcher ------------------------------
(***************************************************************************)
(* The launcher (package launcher): how a match transaction becomes a      *)
(* transaction of the chain. Four loops share the tables match_transactions*)
(* launch_transactions and broker_nonces:                                  *)
(*                                                                         *)
(*   launcher  writes a launch transaction for each new match;             *)
(*   executor  gives it a nonce and sends it, or fast-forwards: sends      *)
(*             again what the node seems to have lost;                     *)
(*   syncer    asks for the receipts of what is pending and settles;       *)
(*   monitor   asks again for the receipts of what is settled.             *)
(*                                                                         *)
(* Each loop reads rows, waits for the node, and later saves the copies it *)
(* holds, all columns of them. A database transaction is one action, and   *)
(* so is the call to the node before it.                                   *)
(*                                                                         *)
(* The node and the chain are external. What can go wrong is bounded, per  *)
(* kind of trouble, by Budgets.                                            *)
(***************************************************************************)
EXTENDS Integers, Sequences, FiniteSets

CONSTANTS
  NumMatches,   \* number of match transactions
  Accounts,     \* the relayer accounts of the chain client
  Prices,       \* gas prices of the gas monitor
  MaxRows,      \* bound on the rows of launch_transactions
  MaxNonce,     \* bound on nonces
  Budgets       \* how often each kind of trouble may happen, the alternatives

\* Kinds of trouble:
\*   "drop"      the node forgets a transaction; other nodes may still have it
\*   "lost"      the node accepts a transaction, but the answer, the commit
\*               after it or the process is lost
\*   "reorg"     the last transaction of an account leaves the chain
\*   "external"  somebody else uses an account
\*   "torn"      the matcher's database transaction commits, the launcher's
\*               transaction around it does not
\*   "slow"      a receipt is given up on while the node still has the
\*               transaction
\*   "restart"   the process stops and starts again
\*   "age"       a match gets older than UnmatureDuration
Kinds == {"drop", "lost", "reorg", "external", "torn", "slow", "restart", "age"}

Matches == 1..NumMatches
Ids == 1..MaxRows
NoNonce == -1
Nonces == 0..MaxNonce

ASSUME ConstantsAssumption ==
  /\ NumMatches \in Nat
  /\ MaxRows \in Nat
  /\ MaxNonce \in Nat
  /\ Prices \subseteq Nat \ {0}
  /\ IsFiniteSet(Accounts)
  /\ Budgets \subseteq [Kinds -> Nat]

\* A transaction hash: it tells what was signed.
Hash == [from : Accounts, nonce : Nonces, txID : Matches, price : Prices]
NoHash == [from |-> "none", nonce |-> NoNonce, txID |-> 0, price |-> 0]

TxStatus == {"TxInitial", "TxPending", "TxSuccess", "TxFailed", "TxCanceled"}

\* model.LaunchTransaction, with its primary key. The block columns are left
\* out: they are written with the status and never read without it.
Row == [id : Ids, txID : Matches, from : Accounts, nonce : Nonces \cup {NoNonce},
        hash : Hash \cup {NoHash}, status : TxStatus]
NoTx == [id |-> 0, txID |-> 0, from |-> "none", nonce |-> NoNonce,
         hash |-> NoHash, status |-> "none"]

\* Bug: a transaction that failed on the chain counts as aborted.
FailedIsAborted(s) ==
  CASE s = "TxInitial"  -> "INIT"
    [] s = "TxPending"  -> "PENDING"
    [] s = "TxSuccess"  -> "SUCCESS"
    [] s \in {"TxFailed", "TxCanceled"} -> "ABORT"

\* LaunchTransactionStatus.TransactionStatus
TransactionStatus(s) ==
  CASE s = "TxInitial"  -> "INIT"
    [] s = "TxPending"  -> "PENDING"
    [] s = "TxSuccess"  -> "SUCCESS"
    [] s = "TxFailed"   -> "FAIL"
    [] s = "TxCanceled" -> "ABORT"

MatchStatus == {"INIT", "PENDING", "SUCCESS", "FAIL", "ABORT"}

VARIABLES
  matchStatus,  \* table match_transactions: the status of each match
  settled,      \* how often UpdateOrdersStatus was applied to each match
  launch,       \* table launch_transactions, a set of rows
  nextNonce,    \* table broker_nonces
  exec,         \* the executor: where it is and what it holds
  syncTodo,     \* the rows each goroutine of the syncer holds
  monTodo,      \* the rows the monitor holds
  pool,         \* the transactions the node holds
  sent,         \* the transactions that ever reached a node
  chain,        \* the transactions of each account, in order of nonce
  mature,       \* the matches whose rows were committed longer ago than
                \* UnmatureDuration
  used          \* the trouble so far

dbVars == <<matchStatus, settled, launch, nextNonce>>
nodeVars == <<pool, sent, chain, mature>>
vars == <<dbVars, exec, syncTodo, monTodo, nodeVars, used>>

\* What the executor does. "decide": it has read tx and the pending nonce
\* exp; "send": it is about to send tx; "ff": it fast-forwards, todo is left
\* of this nonce and i..end-1 are the nonces still to come.
Idle == [pc |-> "idle", tx |-> NoTx, exp |-> 0, i |-> 0, end |-> 0, todo |-> {}]

Executor == [pc : {"idle", "decide", "send", "ff"}, tx : Row \cup {NoTx},
             exp : Nat, i : Nat, end : Nat, todo : SUBSET Row]

\* An entry of the chain: a transaction of the launcher or of somebody else
Entry == [hash : Hash \cup {NoHash}, ok : BOOLEAN]

\* Rows, nonces, the node's pool and the chain are well formed, and so is every
\* copy of a row that the executor, the syncer and the monitor hold.
TypeOK ==
  /\ matchStatus \in [Matches -> MatchStatus]
  /\ settled \in [Matches -> Nat]
  /\ launch \subseteq Row
  /\ \A r, s \in launch : r.id = s.id => r = s
  /\ nextNonce \in [Accounts -> Nat \cup {NoNonce}]
  /\ exec \in Executor
  /\ exec.pc \in {"decide", "send"} => exec.tx # NoTx
  /\ syncTodo \in [Accounts -> SUBSET Row]
  /\ monTodo \subseteq Row
  /\ pool \subseteq sent
  /\ sent \subseteq Hash
  /\ chain \in [Accounts -> Seq(Entry)]
  /\ mature \subseteq Matches
  /\ used \in [Kinds -> Nat]

Init ==
  /\ matchStatus = [t \in Matches |-> "INIT"]
  /\ settled = [t \in Matches |-> 0]
  /\ launch = {}
  /\ nextNonce = [a \in Accounts |-> NoNonce]
  /\ exec = Idle
  /\ syncTodo = [a \in Accounts |-> {}]
  /\ monTodo = {}
  /\ pool = {}
  /\ sent = {}
  /\ chain = [a \in Accounts |-> <<>>]
  /\ mature = {}
  /\ used = [k \in Kinds |-> 0]

-----------------------------------------------------------------------------
(***************************************************************************)
(* The node, the chain and the clock, external                             *)
(***************************************************************************)

\* One more trouble of kind k
Trouble(k) ==
  /\ used' = [used EXCEPT ![k] = @ + 1]
  /\ \E b \in Budgets : \A j \in Kinds : used'[j] <= b[j]

\* PendingNonceAt: the first nonce neither mined nor in the pool
PendingNonceAt(a) ==
  CHOOSE n \in Len(chain[a])..(MaxNonce + 1) :
    /\ \A h \in pool : h.from = a => h.nonce # n
    /\ \A k \in Len(chain[a])..(n - 1) : \E h \in pool : h.from = a /\ h.nonce = k

SameNonce(h) == {g \in pool : g.from = h.from /\ g.nonce = h.nonce}

\* The node takes a transaction unless its nonce is used up, it has the
\* transaction already, or it has another one that pays as much.
Accepts(h) ==
  /\ h.nonce >= Len(chain[h.from])
  /\ \A g \in SameNonce(h) : g.price < h.price

Accept(h) ==
  /\ pool' = (pool \ SameNonce(h)) \cup {h}
  /\ sent' = sent \cup {h}
  /\ UNCHANGED <<chain, mature>>

\* The entries of the chain that hold h: none or one
Receipts(h) ==
  IF h = NoHash THEN {}
  ELSE {e \in {chain[h.from][i] : i \in 1..Len(chain[h.from])} : e.hash = h}

\* The wait for the receipt of h ends too early if the node still has h.
Slow(h) == Receipts(h) = {} /\ h \in pool

Waited(h) == IF Slow(h) THEN Trouble("slow") ELSE UNCHANGED used

\* WaitTransactionReceipt returns NotFound.
NotFound(h) == Receipts(h) = {} /\ Waited(h)

\* The next transaction of an account is mined, at any node.
Mine(h, ok) ==
  /\ h \in sent
  /\ h.nonce = Len(chain[h.from])
  /\ chain' = [chain EXCEPT ![h.from] = Append(@, [hash |-> h, ok |-> ok])]
  /\ pool' = pool \ SameNonce(h)
  /\ UNCHANGED <<dbVars, exec, syncTodo, monTodo, sent, mature, used>>

External(a) ==
  /\ Trouble("external")
  /\ Len(chain[a]) < MaxNonce
  /\ chain' = [chain EXCEPT ![a] = Append(@, [hash |-> NoHash, ok |-> TRUE])]
  /\ pool' = {h \in pool : ~(h.from = a /\ h.nonce = Len(chain[a]))}
  /\ UNCHANGED <<dbVars, exec, syncTodo, monTodo, sent, mature>>

Reorg(a) ==
  /\ Trouble("reorg")
  /\ chain[a] # <<>>
  /\ chain' = [chain EXCEPT ![a] = SubSeq(@, 1, Len(@) - 1)]
  /\ pool' = pool \cup ({chain[a][Len(chain[a])].hash} \ {NoHash})
  /\ UNCHANGED <<dbVars, exec, syncTodo, monTodo, sent, mature>>

Drop(h) ==
  /\ Trouble("drop")
  /\ h \in pool
  /\ pool' = pool \ {h}
  /\ UNCHANGED <<dbVars, exec, syncTodo, monTodo, sent, chain, mature>>

\* Time passes. Every row of a match has the commit_time of its first one,
\* and matches are committed in their order.
Matures(t) ==
  /\ Trouble("age")
  /\ t \notin mature
  /\ 1..(t - 1) \subseteq mature
  /\ \E r \in launch : r.txID = t
  /\ mature' = mature \cup {t}
  /\ UNCHANGED <<dbVars, exec, syncTodo, monTodo, pool, sent, chain>>

-----------------------------------------------------------------------------
(***************************************************************************)
(* Tables (dao/launch_transaction.go, dao/nonce.go)                        *)
(***************************************************************************)

NewId == 1 + Cardinality(launch)

\* UpdateTx saves all columns of tx.
UpdateTx(rows, tx) == {r \in rows : r.id # tx.id} \cup {tx}

TxsOf(a, status) == {r \in launch : r.from = a /\ r.status = status}

FirstTxByUser(a, status) ==
  CHOOSE r \in TxsOf(a, status) : \A s \in TxsOf(a, status) : r.id <= s.id

\* GetTxsByNonce, called without a status
GetTxsByNonce(rows, a, n) == {r \in rows : r.from = a /\ r.nonce = n}

\* match.Server.UpdateOrdersStatus, the matcher's own database transaction
UpdateOrdersStatus(t, status) ==
  /\ matchStatus' = [matchStatus EXCEPT ![t] = status]
  /\ settled' = [settled EXCEPT ![t] = @ + 1]

\* match.Server.RollbackOrdersStatus
RollbackOrdersStatus(t, status) ==
  /\ matchStatus' = [matchStatus EXCEPT ![t] = status]
  /\ UNCHANGED settled

-----------------------------------------------------------------------------
(***************************************************************************)
(* Launcher.checkMatchTransaction: the oldest match first, one database    *)
(* transaction for the launch transaction and the status of the match.     *)
(***************************************************************************)

createLaunchTransaction(t, a) ==
  /\ matchStatus[t] = "INIT"
  /\ \A s \in 1..(t - 1) : matchStatus[s] # "INIT"
  /\ \A r \in launch : r.txID # t
  /\ NewId <= MaxRows
  /\ launch' = launch \cup {[id |-> NewId, txID |-> t, from |-> a, nonce |-> NoNonce,
                             hash |-> NoHash, status |-> "TxInitial"]}
  /\ matchStatus' = [matchStatus EXCEPT ![t] = "PENDING"]
  /\ UNCHANGED <<settled, nextNonce, exec, syncTodo, monTodo, nodeVars, used>>

-----------------------------------------------------------------------------
(***************************************************************************)
(* Executor                                                                *)
(***************************************************************************)

\* executeTransaction: the first new transaction of an account, and the
\* nonce the node expects.
executeTransaction(a) ==
  /\ exec.pc = "idle"
  /\ TxsOf(a, "TxInitial") # {}
  /\ exec' = [Idle EXCEPT !.pc = "decide",
                          !.tx = FirstTxByUser(a, "TxInitial"),
                          !.exp = PendingNonceAt(a)]
  /\ UNCHANGED <<dbVars, syncTodo, monTodo, nodeVars, used>>

\* Bug: the nonce the node expects next counts as used.
UsedUpOrNext == exec.tx.nonce # NoNonce /\ exec.exp >= exec.tx.nonce

\* The transaction has a nonce that the node holds for used.
UsedUp == exec.tx.nonce # NoNonce /\ exec.exp > exec.tx.nonce

\* The nonce the node should expect by the tables, and does not.
TargetNonce ==
  IF exec.tx.nonce # NoNonce THEN exec.tx.nonce ELSE nextNonce[exec.tx.from]

\* Bug: broker_nonces is not consulted.
BehindOwnNonce ==
  ~UsedUp /\ exec.tx.nonce # NoNonce /\ exec.exp < exec.tx.nonce

\* Bug: a node that expects just the next nonce counts as behind.
BehindOrEqual == ~UsedUp /\ exec.exp <= TargetNonce

Behind == ~UsedUp /\ exec.exp < TargetNonce

\* Executor.reset: the transaction is given up. If it has a hash the node
\* knows, it is pending instead.
Reset ==
  LET known == exec.tx.hash # NoHash /\ (exec.tx.hash \in pool \/ Receipts(exec.tx.hash) # {})
      status == IF known THEN "TxPending" ELSE "TxCanceled"
  IN /\ exec.pc = "decide"
     /\ UsedUp
     /\ UpdateOrdersStatus(exec.tx.txID, TransactionStatus(status))
     /\ \/ /\ launch' = UpdateTx(launch, [exec.tx EXCEPT !.status = status])
           /\ UNCHANGED used
        \/ Trouble("torn") /\ UNCHANGED launch
     /\ exec' = Idle
     /\ UNCHANGED <<nextNonce, syncTodo, monTodo, nodeVars>>

\* fastForward(addr, expNonce, targetNonce) begins.
fastForward ==
  /\ exec.pc = "decide"
  /\ Behind
  /\ exec' = [exec EXCEPT !.pc = "ff", !.i = exec.exp, !.end = TargetNonce]
  /\ UNCHANGED <<dbVars, syncTodo, monTodo, nodeVars, used>>

\* The rows of the next nonce, whatever their status
FastForwardRead ==
  /\ exec.pc = "ff"
  /\ exec.todo = {}
  /\ exec' = IF exec.i = exec.end THEN Idle
             ELSE [exec EXCEPT !.i = @ + 1,
                               !.todo = GetTxsByNonce(launch, exec.tx.from, exec.i)]
  /\ UNCHANGED <<dbVars, syncTodo, monTodo, nodeVars, used>>

FastForwardNext(tx) ==
  /\ exec.pc = "ff"
  /\ tx \in exec.todo
  /\ exec' = [exec EXCEPT !.pc = "send", !.tx = tx, !.todo = @ \ {tx}]
  /\ UNCHANGED <<dbVars, syncTodo, monTodo, nodeVars, used>>

\* The nonce is allocated: row and broker_nonces in one database transaction.
Allocate ==
  LET tx == [exec.tx EXCEPT !.nonce = exec.exp]
  IN /\ exec.pc = "decide"
     /\ ~UsedUp
     /\ ~Behind
     /\ exec.exp <= MaxNonce
     /\ launch' = UpdateTx(launch, tx)
     /\ nextNonce' = [nextNonce EXCEPT ![tx.from] = exec.exp + 1]
     /\ exec' = [exec EXCEPT !.pc = "send", !.tx = tx]
     /\ UNCHANGED <<matchStatus, settled, syncTodo, monTodo, nodeVars, used>>

\* After a send: back to the fast-forward, or done
Sent == IF exec.end = 0 THEN Idle ELSE [exec EXCEPT !.pc = "ff"]

HashAt(p) == [from |-> exec.tx.from, nonce |-> exec.tx.nonce, txID |-> exec.tx.txID, price |-> p]

\* Executor.send: signed with the gas price of the moment. A transaction
\* that was sent with another hash before gets a new row.
send(p) ==
  LET h == HashAt(p)
      tx == [exec.tx EXCEPT !.status = "TxPending", !.hash = h]
      resent == exec.tx.hash # NoHash /\ exec.tx.hash # h
  IN /\ exec.pc = "send"
     /\ Accepts(h)
     /\ Accept(h)
     /\ resent => NewId <= MaxRows
     /\ launch' = IF resent THEN launch \cup {[tx EXCEPT !.id = NewId]}
                  ELSE UpdateTx(launch, tx)
     /\ exec' = Sent
     /\ UNCHANGED <<matchStatus, settled, nextNonce, syncTodo, monTodo, used>>

\* The node refuses or cannot be reached, or the database fails: nothing is
\* saved.
sendTransactionFails ==
  /\ exec.pc \in {"decide", "send"}
  /\ exec' = Sent
  /\ UNCHANGED <<dbVars, syncTodo, monTodo, nodeVars, used>>

\* The node accepts, but the executor does not get to save it.
sendLost(p) ==
  /\ exec.pc = "send"
  /\ Trouble("lost")
  /\ Accepts(HashAt(p))
  /\ Accept(HashAt(p))
  /\ exec' = Sent
  /\ UNCHANGED <<dbVars, syncTodo, monTodo>>

-----------------------------------------------------------------------------
(***************************************************************************)
(* Syncer: one goroutine per account with pending transactions. The rows   *)
(* are read once, in order of nonce, and handled one after the other.      *)
(***************************************************************************)

\* Bug: failed transactions are looked up again, too.
SyncsFailedToo(a) ==
  LET rows == TxsOf(a, "TxPending") \cup TxsOf(a, "TxFailed")
  IN /\ syncTodo[a] = {}
     /\ rows # {}
     /\ syncTodo' = [syncTodo EXCEPT ![a] = rows]
     /\ UNCHANGED <<dbVars, exec, monTodo, nodeVars, used>>

syncTransaction(a) ==
  /\ syncTodo[a] = {}
  /\ TxsOf(a, "TxPending") # {}
  /\ syncTodo' = [syncTodo EXCEPT ![a] = TxsOf(a, "TxPending")]
  /\ UNCHANGED <<dbVars, exec, monTodo, nodeVars, used>>

\* The row the goroutine of account a turns to. Rows with the same nonce
\* come in any order.
Turn(a, tx) ==
  /\ tx \in syncTodo[a]
  /\ \A s \in syncTodo[a] : tx.nonce <= s.nonce
  /\ syncTodo' = [syncTodo EXCEPT ![a] = @ \ {tx}]

\* A receipt: the row is saved with its status, the other rows with this
\* nonce are canceled, the orders updated. A row without a hash among them
\* makes the transaction panic; it is rolled back.
updateStatusByUser(a, tx) ==
  /\ Turn(a, tx)
  /\ \E e \in Receipts(tx.hash) :
       LET status == IF e.ok THEN "TxSuccess" ELSE "TxFailed"
           rows == UpdateTx(launch, [tx EXCEPT !.status = status])
           others == {r \in GetTxsByNonce(rows, tx.from, tx.nonce) : r.hash # tx.hash}
       IN IF NoHash \in {r.hash : r \in others} THEN UNCHANGED <<dbVars, used>>
          ELSE /\ UpdateOrdersStatus(tx.txID, TransactionStatus(status))
               /\ \/ /\ launch' = (rows \ others) \cup
                                   {[r EXCEPT !.status = "TxCanceled"] : r \in others}
                     /\ UNCHANGED used
                  \/ Trouble("torn") /\ UNCHANGED launch
               /\ UNCHANGED nextNonce
  /\ UNCHANGED <<exec, monTodo, nodeVars>>

\* "Not found", and another row with this nonce is next
SyncAccelerated(a, tx) ==
  /\ Turn(a, tx)
  /\ \E s \in syncTodo[a] \ {tx} : s.nonce = tx.nonce
  /\ NotFound(tx.hash)
  /\ UNCHANGED <<dbVars, exec, monTodo, nodeVars>>

\* Bug: every error counts as "not found".
ResetOnAnyError(a, tx) ==
  /\ Turn(a, tx)
  /\ launch' = UpdateTx(launch, [tx EXCEPT !.nonce = NoNonce, !.hash = NoHash,
                                           !.status = "TxInitial"])
  /\ UNCHANGED <<matchStatus, settled, nextNonce, exec, monTodo, nodeVars, used>>

\* Bug: the transaction is canceled, the matcher not told.
ResetCancels(a, tx) ==
  /\ Turn(a, tx)
  /\ NotFound(tx.hash)
  /\ launch' = UpdateTx(launch, [tx EXCEPT !.status = "TxCanceled"])
  /\ UNCHANGED <<matchStatus, settled, nextNonce, exec, monTodo, nodeVars>>

\* "Not found", Syncer.resetTransaction: the transaction starts anew.
resetTransaction(a, tx) ==
  /\ Turn(a, tx)
  /\ \A s \in syncTodo[a] \ {tx} : s.nonce # tx.nonce
  /\ NotFound(tx.hash)
  /\ launch' = UpdateTx(launch, [tx EXCEPT !.nonce = NoNonce, !.hash = NoHash,
                                           !.status = "TxInitial"])
  /\ UNCHANGED <<matchStatus, settled, nextNonce, exec, monTodo, nodeVars>>

\* Any other error of the node or of the database, a receipt without events,
\* or a matcher that refuses: the row is left for the next round.
SyncSkips(a, tx) ==
  /\ Turn(a, tx)
  /\ UNCHANGED <<dbVars, exec, monTodo, nodeVars, used>>

-----------------------------------------------------------------------------
(***************************************************************************)
(* Monitor: settled transactions, until they are older than                *)
(* UnmatureDuration                                                        *)
(***************************************************************************)

Settled(r) == r.status \in {"TxSuccess", "TxFailed"}

\* GetTxsByTime(now - UnmatureDuration, TxSuccess, TxFailed)
GetTxsByTime == {r \in launch : Settled(r) /\ r.txID \notin mature}

syncUnmatureTransaction ==
  /\ monTodo = {}
  /\ GetTxsByTime # {}
  /\ monTodo' = GetTxsByTime
  /\ UNCHANGED <<dbVars, exec, syncTodo, nodeVars, used>>

\* Rows in order of their id
MonitorTurn(tx) ==
  /\ tx \in monTodo
  /\ \A s \in monTodo : tx.id <= s.id
  /\ monTodo' = monTodo \ {tx}

\* Bug: only transactions that succeeded are checked again.
RecheckedSuccess(tx, status) ==
  /\ tx.status = "TxSuccess"
  /\ \/ [hash |-> tx.hash, ok |-> status = "TxSuccess"] \in Receipts(tx.hash)
     \/ Receipts(tx.hash) = {} /\ status = "TxFailed"

\* The outcome the monitor books: what the receipt says, or failed if a
\* transaction that succeeded is gone.
Rechecked(tx, status) ==
  \/ [hash |-> tx.hash, ok |-> status = "TxSuccess"] \in Receipts(tx.hash)
  \/ Receipts(tx.hash) = {} /\ tx.status = "TxSuccess" /\ status = "TxFailed"

\* The matcher is told in any case. The row is saved when its status or, after
\* a reorganization, its block changed.
checkUnmatureTransactionStatus(tx) ==
  /\ MonitorTurn(tx)
  /\ \E status \in {"TxSuccess", "TxFailed"} :
       /\ Rechecked(tx, status)
       /\ RollbackOrdersStatus(tx.txID, TransactionStatus(status))
       /\ \/ tx.status = status /\ UNCHANGED launch
          \/ /\ tx.status # status \/ used["reorg"] > 0
             /\ launch' = UpdateTx(launch, [tx EXCEPT !.status = status])
  /\ Waited(tx.hash)
  /\ UNCHANGED <<nextNonce, exec, syncTodo, nodeVars>>

\* The matcher's transaction commits, the monitor's one does not.
MonitorTorn(tx) ==
  /\ MonitorTurn(tx)
  /\ ~Slow(tx.hash)
  /\ Trouble("torn")
  /\ \E status \in {"TxSuccess", "TxFailed"} :
       /\ Rechecked(tx, status)
       /\ RollbackOrdersStatus(tx.txID, TransactionStatus(status))
  /\ UNCHANGED <<launch, nextNonce, exec, syncTodo, nodeVars>>

\* A failed transaction that is not found, or an error
MonitorSkips(tx) ==
  /\ MonitorTurn(tx)
  /\ UNCHANGED <<dbVars, exec, syncTodo, nodeVars, used>>

\* The process stops and starts again: what the loops held is gone.
Restart ==
  /\ Trouble("restart")
  /\ exec' = Idle
  /\ syncTodo' = [a \in Accounts |-> {}]
  /\ monTodo' = {}
  /\ UNCHANGED <<dbVars, nodeVars>>

-----------------------------------------------------------------------------
ExecutorStep ==
  \/ \E a \in Accounts : executeTransaction(a)
  \/ Reset
  \/ fastForward
  \/ FastForwardRead
  \/ \E tx \in exec.todo : FastForwardNext(tx)
  \/ Allocate
  \/ \E p \in Prices : send(p)
  \/ sendTransactionFails
  \/ \E p \in Prices : sendLost(p)

SyncerStep ==
  \E a \in Accounts :
    \/ syncTransaction(a)
    \/ \E tx \in syncTodo[a] :
         \/ updateStatusByUser(a, tx)
         \/ SyncAccelerated(a, tx)
         \/ resetTransaction(a, tx)
         \/ SyncSkips(a, tx)

MonitorStep ==
  \/ syncUnmatureTransaction
  \/ \E tx \in monTodo :
       \/ checkUnmatureTransactionStatus(tx)
       \/ MonitorTorn(tx)
       \/ MonitorSkips(tx)

LauncherStep == \E t \in Matches, a \in Accounts : createLaunchTransaction(t, a)

Environment ==
  \/ \E h \in sent, ok \in BOOLEAN : Mine(h, ok)
  \/ \E a \in Accounts : External(a) \/ Reorg(a)
  \/ \E h \in pool : Drop(h)
  \/ \E t \in Matches : Matures(t)
  \/ Restart

Next == LauncherStep \/ ExecutorStep \/ SyncerStep \/ MonitorStep \/ Environment

Spec == Init /\ [][Next]_vars

-----------------------------------------------------------------------------
(***************************************************************************)
(* Properties                                                              *)
(***************************************************************************)

\* The places on the chain that hold match t
Executions(t) ==
  {p \in UNION {{a} \X (1..Len(chain[a])) : a \in Accounts} :
     chain[p[1]][p[2]].hash.txID = t}

\* The node keeps what it accepts and mines it before the syncer gives up.
NodeKeeps == used["slow"] + used["drop"] = 0

\* A match is executed on the chain at most once, if the node keeps what it
\* accepts.
ExecutedAtMostOnce ==
  NodeKeeps => \A t \in Matches : Cardinality(Executions(t)) <= 1

\* The gas price did not change, so no nonce was sent at two prices.
OnePrice == \A g, h \in sent : g.price = h.price

\* The matcher is told the outcome of a match at most once by
\* UpdateOrdersStatus, which takes the amounts out of pending each time: if
\* no answer is lost, the gas price does not change, and the commit after
\* UpdateOrdersStatus does not fail.
SettledAtMostOnce ==
  OnePrice /\ used["lost"] + used["torn"] = 0 => \A t \in Matches : settled[t] <= 1

\* A nonce of an account belongs to one match: rows that share it carry the
\* same match, so canceling the others with it loses nothing. It takes a
\* reorganization that returns a foreign nonce and a node that forgets, both,
\* to break this: the executor then lowers broker_nonces.
OneNonceOneMatch ==
  \A r, s \in launch :
    r.from = s.from /\ r.nonce = s.nonce /\ r.nonce # NoNonce => r.txID = s.txID

\* A match the tables call pending is still on its way.
PendingIsOnItsWay ==
  \A t \in Matches : matchStatus[t] = "PENDING" =>
    \E r \in launch : r.txID = t /\ r.status \in {"TxInitial", "TxPending"}

\* An aborted match, whose orders are back in the book, is not executed,
\* if no answer of the node was lost: Executor.reset aborts a match because
\* a foreign transaction has its nonce. (With a lost answer it may be the
\* match's own transaction; see AbortedByExternal.)
AbortedIsNotExecuted ==
  NodeKeeps /\ used["lost"] = 0 =>
    \A t \in Matches : matchStatus[t] = "ABORT" => Executions(t) = {}

\* What Executor.reset takes for granted ("has nonce, but external
\* transaction"): the nonce of a match it aborts was used by somebody else.
AbortedByExternal ==
  \A t \in Matches : matchStatus[t] = "ABORT" =>
    \E a \in Accounts, i \in Nonces :
      i + 1 \in DOMAIN chain[a] /\ chain[a][i + 1].hash = NoHash

\* A row canceled because its nonce was used stays canceled: otherwise its
\* match is sent again.
CanceledStays ==
  \A r \in launch : r.status = "TxCanceled" =>
    \E s \in launch' : s.id = r.id /\ s.status = "TxCanceled"

\* Canceled rows stay canceled as long as no answer is lost and no nonce is
\* sent at two gas prices.
CanceledIsFinal ==
  [][(OnePrice /\ used["lost"] = 0)' => CanceledStays]_vars

(***************************************************************************)
(* Fairness: the loops are timers that run forever, the node mines what it *)
(* holds, and a call that is repeated forever gets an answer now and then. *)
(***************************************************************************)
Fairness ==
  /\ WF_vars(LauncherStep)
  /\ WF_vars(ExecutorStep)
  /\ WF_vars(SyncerStep)
  /\ WF_vars(MonitorStep)
  /\ SF_vars(Reset \/ fastForward \/ Allocate)
  /\ SF_vars(\E p \in Prices : send(p))
  /\ \A i \in Ids :
       /\ SF_vars(\E a \in Accounts : \E tx \in syncTodo[a] :
                    /\ tx.id = i
                    /\ updateStatusByUser(a, tx) \/ resetTransaction(a, tx))
       /\ SF_vars(\E tx \in monTodo :
                    tx.id = i /\ checkUnmatureTransactionStatus(tx))
  /\ WF_vars(\E h \in pool, ok \in BOOLEAN : Mine(h, ok))

FairSpec == Spec /\ Fairness

\* Every match comes to an end.
EventuallySettled ==
  \A t \in Matches :
    matchStatus[t] = "INIT" ~> matchStatus[t] \in {"SUCCESS", "FAIL", "ABORT"}

\* The tables say of match t what the chain says.
Tracks(t) ==
  matchStatus[t] = "SUCCESS" <=> \E p \in Executions(t) : chain[p[1]][p[2]].ok

\* Match t is settled and the monitor does not look at it any more: its rows
\* are older than UnmatureDuration.
OutOfWindow(t) == t \in mature /\ \E r \in launch : r.txID = t /\ Settled(r)

\* Once the chain is quiet the tables say of every match what the chain says,
\* except of a settled match that is out of the monitor's window: a
\* reorganization it did not look at in time is never noticed.
EventuallyTracksChain ==
  <>[](\A t \in Matches : Tracks(t) \/ OutOfWindow(t))

=============================================================================
