------------------------------- MODULE Server -------------------------------
(***************************************************************************)
(* The match server: the API handlers that place and cancel orders, and    *)
(* the map from perpetuals to matchers, which Server.Start and the first   *)
(* order of a perpetual fill concurrently.  A matcher is its book, its     *)
(* timers and its loop; amounts and the settlement arithmetic are in       *)
(* Match, the syncers in PerpetualSyncer and PoolSyncer.                   *)
(*                                                                         *)
(* newMatch reads the orders table before the matcher is registered, and   *)
(* setMatchHandler refuses a second one: the loser has a book and armed    *)
(* timers but no loop, and nobody stops it.                                *)
(*                                                                         *)
(* Operations of a matcher change its book and its timers inside the       *)
(* database transaction, and a transaction that fails takes neither back.  *)
(* An order is matched as a whole here; its parts are in Match.            *)
(***************************************************************************)
EXTENDS Naturals

CONSTANTS Perpetuals, Orders,
          PerpetualOf,   \* the perpetual of each order
          Requests,      \* POST /orders requests in progress at a time
          Starter,       \* the goroutine of Server.Start
          None,
          MaxRestarts,   \* bound: restarts of the service
          MaxFaults      \* bound: failing transactions and repeated results

ASSUME ServerAssumption ==
    /\ PerpetualOf \in [Orders -> Perpetuals]
    /\ Starter \notin Requests
    /\ None \notin Perpetuals \cup Orders
    /\ None \notin Perpetuals \X (Requests \cup {Starter})
    /\ MaxRestarts \in Nat /\ MaxFaults \in Nat

Makers == Requests \cup {Starter}

\* A matcher is known by its perpetual and the goroutine that made it: once a
\* goroutine has made one there is a handler, and it makes no other.
Matchers == Perpetuals \X Makers

\* "open": pending with something available; "matched": all of it on its way
\* to the chain; "settled": traded or failed there; "closed": canceled;
\* "garbled": its amounts no longer add up, or no longer agree with the book
\* (matched with nothing available, settled twice, a part canceled in the book
\* only).  What an operation does to the book entry of a garbled order depends
\* on those amounts: every outcome is allowed.
RowStatus == {"none", "open", "matched", "settled", "closed", "garbled"}

VARIABLES
    \* perpetuals table: the published ones
    table,
    \* orders table, answers
    row, accepted,
    \* Server: matchHandlerMap, whether Start has created poolSyncer
    handler, started,
    \* matchers: those in memory, those whose RunMatch runs
    made, book, timers, loop,
    \* goroutines that place an order or start a matcher
    at, wants, uses, toStart,
    \* history: orders put back by a settlement, and cut by the monitor; the
    \* orders of which a transaction of a matcher failed
    returned, cut, failed, restarts, faults

matcherVars == <<made, book, timers, loop>>
makerVars == <<at, wants, uses, toStart>>
history == <<returned, cut, failed, restarts, faults>>
vars == <<table, row, accepted, handler, started, matcherVars, makerVars, history>>

Init ==
    /\ table = {}
    /\ row = [o \in Orders |-> "none"]
    /\ accepted = [o \in Orders |-> 0]
    /\ handler = [p \in Perpetuals |-> None]
    /\ started = FALSE
    /\ made = {}
    /\ book = [m \in Matchers |-> {}]
    /\ timers = [m \in Matchers |-> {}]
    /\ loop = {}
    /\ at = [g \in Makers |-> "idle"]
    /\ wants = [g \in Makers |-> None]
    /\ uses = [g \in Makers |-> None]
    /\ toStart = {}
    /\ returned = {} /\ cut = {}
    /\ failed = [m \in Matchers |-> {}]
    /\ restarts = 0 /\ faults = 0

OrdersOf(p) == {o \in Orders : PerpetualOf[o] = p}

-----------------------------------------------------------------------------
\* The perpetual syncer has written a row.
CreatePerpetual(p) ==
    /\ p \notin table
    /\ table' = table \cup {p}
    /\ UNCHANGED <<row, accepted, handler, started, matcherVars, makerVars, history>>

-----------------------------------------------------------------------------
(* Making a matcher: Server.newMatch, by Start or by a first order. *)

Goto(g, pc) == at' = [at EXCEPT ![g] = pc]

\* Bug: orders of which all is on its way to the chain are reloaded as well.
ReloadMatched(p) == {{o \in OrdersOf(p) : row[o] \in {"open", "matched"}}}

\* The pending orders of which the available amount is not zero: what may be
\* read, some of the garbled ones included.
reloadActiveOrders(p) ==
    LET Rows(status) == {o \in OrdersOf(p) : row[o] = status} IN
    {Rows("open") \cup some : some \in SUBSET Rows("garbled")}

\* Bug: a reloaded order gets no timer.
NewMatchUntimed(g, p) ==
    /\ made' = made \cup {<<p, g>>}
    /\ \E found \in reloadActiveOrders(p) : book' = [book EXCEPT ![<<p, g>>] = found]
    /\ uses' = [uses EXCEPT ![g] = <<p, g>>]
    /\ Goto(g, "set")
    /\ UNCHANGED timers

\* AddPool and match.newMatch: the book and the timers are read from the
\* orders table; the matcher is not registered yet.
newMatch(g, p) ==
    /\ made' = made \cup {<<p, g>>}
    /\ \E found \in reloadActiveOrders(p) :
         /\ book' = [book EXCEPT ![<<p, g>>] = found]
         /\ timers' = [timers EXCEPT ![<<p, g>>] = found]
    /\ uses' = [uses EXCEPT ![g] = <<p, g>>]
    /\ Goto(g, "set")

\* setMatchHandler refuses when there is a handler.
CanSet(p) == handler[p] = None

\* Bug: the loop is started before the matcher is registered.
RunAlways(g) == loop' = loop \cup {uses[g]}

\* group.Go(RunMatch), when the matcher was registered.
RunMatch(g) == loop' = IF CanSet(uses[g][1]) THEN loop \cup {uses[g]} ELSE loop

setMatchHandler(g) ==
    LET p == uses[g][1] IN
    /\ RunMatch(g)
    /\ handler' = IF CanSet(p) THEN [handler EXCEPT ![p] = uses[g]] ELSE handler

-----------------------------------------------------------------------------
(* Server.Start. *)

QueryPerpetuals == table

\* The published perpetuals are read and poolSyncer is created.
Start ==
    /\ ~started
    /\ started' = TRUE
    /\ toStart' = QueryPerpetuals
    /\ UNCHANGED <<table, row, accepted, handler, matcherVars, at, wants, uses, history>>

\* A matcher whose orders cannot be read is skipped.
StartMatcher(p) ==
    /\ at[Starter] = "idle" /\ p \in toStart
    /\ \/ newMatch(Starter, p)
       \/ UNCHANGED <<made, book, timers, uses, at>>
    /\ toStart' = toStart \ {p}
    /\ UNCHANGED <<table, row, accepted, handler, started, loop, wants, history>>

StartRegister ==
    /\ at[Starter] = "set"
    /\ setMatchHandler(Starter)
    /\ Goto(Starter, "idle")
    /\ uses' = [uses EXCEPT ![Starter] = None]
    /\ UNCHANGED <<table, row, accepted, started, made, book, timers, wants, toStart, history>>

-----------------------------------------------------------------------------
(* POST /orders: api PlaceOrder and Server.NewOrder. *)

getMatchHandler(p) == handler[p]

\* GetPerpetualByPoolAddressAndIndex finds the perpetual, GetOrder no order;
\* then the handler is looked up.
PlaceOrder(g, o) ==
    LET h == getMatchHandler(PerpetualOf[o]) IN
    /\ at[g] = "idle"
    /\ PerpetualOf[o] \in table
    /\ row[o] = "none"
    /\ wants' = [wants EXCEPT ![g] = o]
    /\ uses' = [uses EXCEPT ![g] = h]
    /\ Goto(g, IF h = None THEN "make" ELSE "insert")
    /\ UNCHANGED <<table, row, accepted, handler, started, matcherVars, toStart, history>>

\* Without poolSyncer the call panics, and the request is answered by the
\* recover middleware; it is answered as well when the orders cannot be read.
MakeMatcher(g) ==
    /\ at[g] = "make"
    /\ \/ started /\ newMatch(g, PerpetualOf[wants[g]]) /\ UNCHANGED wants
       \/ Goto(g, "idle") /\ wants' = [wants EXCEPT ![g] = None]
          /\ UNCHANGED <<made, book, timers, uses>>
    /\ UNCHANGED <<table, row, accepted, handler, started, loop, toStart, history>>

\* The loser answers MatchInternalErrorID; its matcher stays in memory.
Register(g) ==
    /\ g \in Requests /\ at[g] = "set"
    /\ setMatchHandler(g)
    /\ \/ CanSet(uses[g][1]) /\ Goto(g, "insert") /\ UNCHANGED <<wants, uses>>
       \/ ~CanSet(uses[g][1]) /\ Goto(g, "idle")
          /\ wants' = [wants EXCEPT ![g] = None] /\ uses' = [uses EXCEPT ![g] = None]
    /\ UNCHANGED <<table, row, accepted, started, made, book, timers, toStart, history>>

\* Bug: the table takes a second row of an order.
CreateAlways(o) == TRUE

\* The index on order_hash is unique.
CanCreate(o) == row[o] = "none"

\* The transaction of matcher m fails after its function has changed the book,
\* or on the way.
Fails(m, o) ==
    /\ faults < MaxFaults
    /\ faults' = faults + 1
    /\ failed' = [failed EXCEPT ![m] = @ \cup {o}]

Commits == UNCHANGED <<failed, faults>>

\* match.NewOrder: the order is refused (balance, gas, limits, CreateOrder, and
\* InsertOrder when the book has it), or it is in the table, in the book and
\* timed.  When the commit fails the book and the timer stay.
NewOrder(g) ==
    LET o == wants[g]
        m == uses[g] IN
    /\ at[g] = "insert"
    /\ Goto(g, "idle")
    /\ wants' = [wants EXCEPT ![g] = None]
    /\ uses' = [uses EXCEPT ![g] = None]
    /\ \/ UNCHANGED <<row, accepted, book, timers, failed, faults>>
       \/ /\ CanCreate(o) /\ o \notin book[m]
          /\ book' = [book EXCEPT ![m] = @ \cup {o}]
          /\ timers' = [timers EXCEPT ![m] = @ \cup {o}]
          /\ \/ /\ Commits
                /\ row' = [row EXCEPT ![o] = "open"]
                /\ accepted' = [accepted EXCEPT ![o] = @ + 1]
             \/ Fails(m, o) /\ UNCHANGED <<row, accepted>>
    /\ UNCHANGED <<table, handler, started, made, loop, toStart, returned, cut, restarts>>

-----------------------------------------------------------------------------
(* Matchers at work. *)

SetRow(o, status) == row' = [row EXCEPT ![o] = status]
SetBook(m, orders) == book' = [book EXCEPT ![m] = orders]
SetTimers(m, orders) == timers' = [timers EXCEPT ![m] = orders]

ToCancel(m, o) == row[o] # "none" /\ (row[o] = "open" \/ o \in book[m])

\* match.CancelOrder with all of the order, armed being the timers it finds:
\* what is available in the table is canceled and what is in the book of m is
\* taken out.  Without a row, or with nothing to cancel, it returns.  When the
\* transaction fails the entry may be out of the book and the timer deleted.
Cancel(m, o, armed) ==
    \/ /\ ~ToCancel(m, o)
       /\ SetTimers(m, armed)
       /\ Commits /\ UNCHANGED <<row, book>>
    \/ /\ ToCancel(m, o) /\ row[o] # "garbled"
       /\ SetRow(o, IF row[o] = "open" THEN "closed" ELSE row[o])
       /\ SetBook(m, book[m] \ {o})
       /\ SetTimers(m, armed \ {o})
       /\ Commits
    \/ /\ \/ ToCancel(m, o) /\ Fails(m, o)
          \/ row[o] = "garbled" /\ Commits
       /\ \E orders \in {book[m], book[m] \ {o}} : SetBook(m, orders)
       /\ \E timed \in {armed, armed \ {o}} : SetTimers(m, timed)
       /\ UNCHANGED row

\* The timer of o in matcher m, registered or not: deleteOrderTimer, then
\* CancelOrder, of which an error is logged.
onOrderExpired(m, o) ==
    /\ o \in timers[m]
    /\ Cancel(m, o, timers[m] \ {o})
    /\ UNCHANGED <<table, accepted, handler, started, made, loop, makerVars, returned, cut, restarts>>

\* DELETE /orders: one order, or each order of a list read before; the monitor
\* as well, with an order it finds changed.  A perpetual without a matcher is
\* "not open".
CancelOrder(o) ==
    LET m == getMatchHandler(PerpetualOf[o]) IN
    /\ row[o] # "none"
    /\ m # None
    /\ Cancel(m, o, timers[m])
    /\ UNCHANGED <<table, accepted, handler, started, made, loop, makerVars, returned, cut, restarts>>

\* The order monitor cancels a part of an open order; the timer of the whole
\* order is deleted.  When the transaction fails the book has less than the
\* table.
CancelPart(o) ==
    LET m == getMatchHandler(PerpetualOf[o]) IN
    /\ row[o] = "open"
    /\ m # None
    /\ o \in book[m]
    /\ \/ /\ Commits
          /\ SetTimers(m, timers[m] \ {o})
          /\ cut' = cut \cup {o}
          /\ UNCHANGED row
       \/ /\ Fails(m, o)
          /\ \E timed \in {timers[m], timers[m] \ {o}} : SetTimers(m, timed)
          /\ SetRow(o, "garbled")
          /\ UNCHANGED cut
    /\ UNCHANGED <<table, accepted, handler, started, made, book, loop, makerVars, returned, restarts>>

\* matchOrders takes all of an order of the book that has a row.  The guard on
\* the sign of the rest lets an order pass of which nothing is available.
MatchOrder(m, o) ==
    /\ m \in loop /\ o \in book[m] /\ row[o] # "none"
    /\ \/ SetBook(m, book[m] \ {o})
       \/ row[o] = "garbled" /\ UNCHANGED book
    /\ \/ Commits /\ SetRow(o, IF row[o] = "open" THEN "matched" ELSE "garbled")
       \/ Fails(m, o) /\ UNCHANGED row
    /\ UNCHANGED <<table, accepted, handler, started, made, timers, loop, makerVars, returned, cut, restarts>>

\* Bug: an order is put back into the table and not into the book.
PutBackRowOnly(m, o) ==
    /\ o \notin book[m]
    /\ UNCHANGED book
    /\ \/ Commits /\ SetRow(o, "open") /\ returned' = returned \cup {o}
       \/ Fails(m, o) /\ UNCHANGED <<row, returned>>

\* An order of which nothing was available is open again; InsertOrder refuses
\* when the book has it, and the transaction is rolled back.
PutBack(m, o) ==
    /\ o \notin book[m]
    /\ SetBook(m, book[m] \cup {o})
    /\ \/ Commits /\ SetRow(o, "open") /\ returned' = returned \cup {o}
       \/ Fails(m, o) /\ UNCHANGED <<row, returned>>

\* A result applied to a garbled order: the entry is inserted, changed or gone.
AnyEntry(m, o) ==
    /\ row[o] = "garbled"
    /\ \E orders \in {book[m], book[m] \ {o}, book[m] \cup {o}} : SetBook(m, orders)
    /\ Commits /\ UNCHANGED <<row, returned>>

\* UpdateOrdersStatus through the handler of the perpetual: the order is
\* traded or failed, or goes back to the table and the book.
Settle(o) ==
    LET m == getMatchHandler(PerpetualOf[o]) IN
    /\ m # None
    /\ \/ /\ row[o] = "matched"
          /\ SetRow(o, "settled")
          /\ Commits /\ UNCHANGED <<book, returned>>
       \/ row[o] = "matched" /\ PutBack(m, o)
       \/ AnyEntry(m, o)
    /\ UNCHANGED <<table, accepted, handler, started, made, timers, loop, makerVars, cut, restarts>>

\* The launcher lost the answer and applies a result again: UpdateOrdersStatus
\* does not look at the status of the match.  The order may enter the book.
SettleAgain(o) ==
    LET m == getMatchHandler(PerpetualOf[o]) IN
    /\ m # None
    /\ row[o] = "settled" \/ (o \in returned /\ row[o] \notin {"none", "garbled"})
    /\ faults < MaxFaults /\ faults' = faults + 1
    /\ SetRow(o, "garbled")
    /\ \E orders \in {book[m], book[m] \cup {o}} : SetBook(m, orders)
    /\ UNCHANGED <<table, accepted, handler, started, made, timers, loop, makerVars, returned, cut, failed, restarts>>

\* RollbackOrdersStatus after a reorganization: a settled order goes back, one
\* that was put back is settled if all of it is still available and its entry
\* is in the book.
Recheck(o) ==
    LET m == getMatchHandler(PerpetualOf[o]) IN
    /\ m # None
    /\ \/ row[o] = "settled" /\ PutBack(m, o)
       \/ /\ row[o] = "open" /\ o \in returned /\ o \in book[m]
          /\ SetBook(m, book[m] \ {o})
          /\ \/ Commits /\ SetRow(o, "settled")
             \/ Fails(m, o) /\ UNCHANGED row
          /\ UNCHANGED returned
       \/ AnyEntry(m, o)
    /\ UNCHANGED <<table, accepted, handler, started, made, timers, loop, makerVars, cut, restarts>>

\* The process stops at any point and main creates the services anew.
Restart ==
    /\ restarts < MaxRestarts
    /\ restarts' = restarts + 1
    /\ handler' = [p \in Perpetuals |-> None]
    /\ started' = FALSE
    /\ made' = {}
    /\ book' = [m \in Matchers |-> {}]
    /\ timers' = [m \in Matchers |-> {}]
    /\ loop' = {}
    /\ at' = [g \in Makers |-> "idle"]
    /\ wants' = [g \in Makers |-> None]
    /\ uses' = [g \in Makers |-> None]
    /\ toStart' = {}
    /\ failed' = [m \in Matchers |-> {}]
    /\ cut' = {}
    /\ UNCHANGED <<table, row, accepted, returned, faults>>

-----------------------------------------------------------------------------

StartStep == Start \/ StartRegister \/ \E p \in Perpetuals : StartMatcher(p)

RequestStep(g) ==
    \/ MakeMatcher(g) \/ Register(g) \/ NewOrder(g)
    \/ \E o \in Orders : PlaceOrder(g, o)

MatcherStep(m) == \E o \in Orders : onOrderExpired(m, o) \/ MatchOrder(m, o)

OrderStep(o) ==
    CancelOrder(o) \/ CancelPart(o) \/ Settle(o) \/ SettleAgain(o) \/ Recheck(o)

Next ==
    \/ StartStep
    \/ \E g \in Requests : RequestStep(g)
    \/ \E m \in Matchers : MatcherStep(m)
    \/ \E o \in Orders : OrderStep(o)
    \/ \E p \in Perpetuals : CreatePerpetual(p)
    \/ Restart

Spec == Init /\ [][Next]_vars

-----------------------------------------------------------------------------

\* The types; Start serves perpetuals of the table only, and a loop runs for
\* a matcher in memory only.
TypeOK ==
    /\ table \subseteq Perpetuals
    /\ row \in [Orders -> RowStatus]
    /\ accepted \in [Orders -> Nat]
    /\ handler \in [Perpetuals -> Matchers \cup {None}]
    /\ started \in BOOLEAN
    /\ made \subseteq Matchers /\ loop \subseteq made
    /\ book \in [Matchers -> SUBSET Orders]
    /\ timers \in [Matchers -> SUBSET Orders]
    /\ at \in [Makers -> {"idle", "make", "set", "insert"}]
    /\ wants \in [Makers -> Orders \cup {None}]
    /\ uses \in [Makers -> Matchers \cup {None}]
    /\ toStart \subseteq table
    /\ returned \subseteq Orders /\ cut \subseteq Orders
    /\ failed \in [Matchers -> SUBSET Orders]
    /\ restarts \in 0..MaxRestarts /\ faults \in 0..MaxFaults

\* An open order is in the book of the matcher that serves its perpetual,
\* however Start, first orders, settlements and rechecks interleave: what
\* newMatch read before it registered the matcher is still complete.  The
\* exception: a transaction of this matcher failed for the order (a cancel
\* takes the entry out of the book before it commits).
NoOrderForgotten ==
    \A o \in Orders :
        LET m == handler[PerpetualOf[o]] IN
        row[o] = "open" /\ m # None => o \in book[m] \cup failed[m]

Stray(p) == \E m \in made : m[1] = p /\ m # handler[p] /\ handler[p] # None

\* The other direction: an order in the book that is not open has a cause.  A
\* matcher lost the race to serve the perpetual, and its timers cancel rows
\* under the book of the other; or a transaction of this matcher failed for the
\* order after it was inserted; or its amounts are garbled (a result applied
\* twice, a ghost that was matched).  Cancels, matches, settlements, rechecks
\* and reloads that commit leave none.
GhostsHaveACause ==
    \A p \in Perpetuals : handler[p] # None /\ ~Stray(p) =>
        \A o \in book[handler[p]] \ failed[handler[p]] : row[o] \in {"open", "garbled"}

\* Orders of a perpetual are matched by one loop only, the registered
\* matcher's: two loops would send one order twice.
OneLoop ==
    \A m \in loop : handler[m[1]] = m

\* An order hash is accepted once, although PlaceOrder checks it long before
\* the matcher creates the row, and across restarts.
AcceptedOnce == \A o \in Orders : accepted[o] <= 1

\* An open order of a served perpetual has a timer that ends it, unless a
\* settlement put it back, the monitor canceled a part of it, or a transaction
\* of the matcher failed for it: onOrderExpired and CancelOrder delete the timer
\* before they commit, and nobody sets it again.
OpenIsTimed ==
    \A o \in Orders :
        LET m == handler[PerpetualOf[o]] IN
        row[o] = "open" /\ m # None /\ o \notin returned \cup cut => o \in timers[m] \cup failed[m]

=============================================================================
