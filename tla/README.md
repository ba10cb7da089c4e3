# Formal verification of mai3-broker

mai3-broker takes signed limit orders for the perpetuals of MCDEX Mai3, keeps
them in an order book, matches them against the AMM of a liquidity pool, sends
the matches to the broker contract in batches and books what the chain reports
back. This directory holds TLA+ specifications of it, the TLC configurations
that check them on small instances, and TLAPS proofs of the properties that
hold for every instance.

## The system

| component | state | operations |
|---|---|---|
| matcher (`match/match.go`, `new_order.go`, `cancel_order.go`, `match_result.go`, `timer.go`), one per perpetual | order book, expiration timers, mutex `mu` | `NewOrder`, `CancelOrder`, `matchOrders`, `UpdateOrdersStatus`, `RollbackOrdersStatus`, `onOrderExpired`, `reloadActiveOrders`, `Close` |
| order book (`common/orderbook`) | two trees of price levels, two sets of price keys | insert, remove, change, look up, list prices and orders |
| match server (`match/server.go`) | map from perpetual to matcher | `NewOrder` (creates matchers), `CancelOrder`, `ClosePerpetual`, dispatch of results |
| order monitor (`match/monitor.go`) | none | every interval: compute what to cancel, then cancel it |
| match algorithm (`match/order.go`) | none | which orders are matched for how much; margin of open orders |
| pool syncer (`match/pool_syncer.go`) | cached pool storages, dirty marks | refresh, read, mark dirty |
| launcher (`launcher/`) | tables `launch_transactions`, `broker_nonces` | create (launcher), send and resend (executor), settle (syncer), recheck (monitor) |
| tables `orders`, `match_transactions` (`dao/`) | rows | transactions; the status of an order is recomputed on every save |
| websocket (`websocket/`) | channels with their subscribers, clients with their logins and message queues | log in, subscribe, unsubscribe, broadcast, disconnect |
| API (`api/`) | none | places, cancels and lists orders; validation of requests |
| perpetual syncer (`perpetualsyncer/`) | table `perpetuals`, the last synced block | mirrors the perpetuals of the subgraph |
| L2 relayer (`l2/`) | none | forwards signed calls for a fee |

The parts interact as follows. The API calls the match server, which calls the
matcher of the perpetual. A match is a row of `match_transactions` with status
`INIT`; the launcher polls for those, writes a launch transaction and sets the
match to `PENDING`; the executor gives it a nonce and sends it; the syncer waits
for the receipt and calls `UpdateOrdersStatus`; the launcher's monitor looks
settled transactions up again for a while and calls `RollbackOrdersStatus`,
because a reorganization of the chain may have changed the outcome. The three
launcher loops, the matchers, the monitor, the timers and the API handlers are
goroutines of one process; they share the database and the matchers.

Matchers are made by `Server.Start`, for the perpetuals of the table, and by the
first order of a perpetual; the perpetual syncer fills the table. All matchers
share the pool syncer's cache, which the launcher's syncer marks dirty when a
trade was mined. A matcher announces every change of an order on `wsChan`, with
its mutex held; the websocket server passes it on to the clients that subscribed
to the account.

What is hard:

* several transactions may carry parts of one order at the same time, and their
  results come back in any order, more than once (reorganizations), or never;
* the order book is memory, the orders table is a database: every operation
  changes both, and only one of them is rolled back when something fails;
* the monitor and the timers act on what they saw before they had the mutex;
* a restart rebuilds the book from the table alone;
* the launcher's transaction encloses the matcher's one, but they are two
  database transactions: the inner one commits first;
* nonces, resending and lost answers of the node decide whether a match is
  executed never, once or twice;
* a matcher reads the orders table before it is registered, and two goroutines
  may make the matcher of one perpetual;
* a slow or dead websocket client is four goroutines away from a matcher that
  waits with its mutex held;
* the margin check of a new order looks at limit prices and one sequence of
  executions, the chain at others;
* the amount the AMM trades at a price is found by inverting its price curve,
  through zero and under three limits, and is shared by the orders of the price.

`PROJECT.json` lists the hazards one by one with the properties that cover them.

## Modules

| module | models |
|---|---|
| `Amounts` | signed amounts: sign comparison, parts of an amount, totals |
| `Match` | the matcher of one perpetual with its tables, timers, the order monitor, and the chain and launcher as it sees them |
| `MCMatch` | instances of `Match` for TLC |
| `Match_proofs` | types and conservation of `Match`, agreement of book, table and transactions, proved |
| `Launcher` | launch transactions and nonces, the launcher, executor, syncer and monitor loops, and the node and chain they talk to |
| `MCLauncher` | instances of `Launcher` for TLC |
| `Launcher_proofs` | safety of `Launcher`, proved |
| `PriorityBook` | abstract: a queue of orders per side, by price and time |
| `Orderbook` | the price levels of the order book, which implement `PriorityBook` |
| `MCOrderbook` | instances of `Orderbook` for TLC |
| `Orderbook_proofs` | agreement of tree and prices in `Orderbook`, and its refinement of `PriorityBook`, proved |
| `Server` | the match server: handler map, `Start`, first orders, the API handlers that place and cancel orders |
| `MCServer` | instance of `Server` for TLC |
| `Server_proofs` | safety of `Server`, proved |
| `Websocket` | the goroutines, queues and locks between a matcher and a connection |
| `MCWebsocket` | instance of `Websocket` for TLC |
| `Websocket_proofs` | safety of `Websocket`, proved |
| `PerpetualSyncer` | mirrors the subgraph into the table of perpetuals |
| `PoolSyncer` | the cache of pool storages with its lock |
| `Syncers` | composes the two: the server adds the pools of the perpetuals it finds |
| `MCSyncers` | instance of `Syncers` for TLC |
| `Syncers_proofs` | safety of `Syncers`, proved |
| `Trade` | the margin arithmetic of one trade (`common/mai3/computation.go`) |
| `Margin` | the orders of one trader: admission, matching, execution and the monitor's check, on top of `Trade` |
| `MCMargin` | instance of `Margin` for TLC |
| `Margin_proofs` | what a trade leaves of an account, and the orders of a trader, proved |
| `Decimal` | decimals as exact fractions |
| `AMM` | the AMM's price curve, the amount it trades at a limit price, and the pool's side of a trade (`common/mai3/amm.go`) |
| `MCAMM` | instance of `AMM` for TLC |
| `AMM_proofs` | decimals as an ordered field; the pool margin of `AMM`, proved |

### Match

State: `order` (rows of `orders`: available, pending, confirmed, canceled,
status), `book` (amount of each order in memory, 0 when absent), `timer` (armed
timers), `expiring` (timer callbacks that wait for the mutex), `toCancel` (what
the order monitor has computed and not yet applied), `matchTx` (rows of
`match_transactions` with their three lists), `lost` (match transactions whose
result the launcher does not know of), and the counters `faults` and `repeats`.

Amounts are signed integers, as in the code: a sell order and all its parts are
negative. A lot is the smallest amount an instance tells apart.

Every operation of the matcher holds `match.mu` and runs in one database
transaction, hence one action. Actions, and what they stand for:

* `NewOrder`, `CancelOrder`, `matchOrders`: the operations. The margin, gas and
  price checks decide *whether* an order is accepted and *how much* of which
  orders is matched; here both are choices (any subset within the group limit,
  any amount up to what the book holds). What follows from the choice, remainder
  cancellation included, is modelled exactly.
* `TimerFires` and `onOrderExpired`: the two halves of the timer callback.
* `checkUserPendingOrders` and `checkPerpUserOrders`: the monitor before and
  after it has the mutex; between them anything may happen.
* `createLaunchTransaction`: the match leaves for the chain.
* `Settle`, `Abort`: `UpdateOrdersStatus`, called by the syncer and by
  `Executor.reset`. `UpdateOrdersStatus` does not look at the status of the match
  (`match/match_result.go:24`): what keeps it from applying a result twice is that
  the launcher hands one in for pending rows only (`HandsIn`).
* `ResultLost`: the matcher has committed a result and the launcher's transaction
  around it fails, or the match was sent once more: the launcher hands in a
  result of the match again, the same one or another.
* `Recheck`: `RollbackOrdersStatus`, called by the launcher's monitor. The events
  are those of the broker contract (external): a traded
  amount up to the matched one, or a failure for all of it, or neither.
* `reloadActiveOrders`: the process stops and starts again.
* `NewOrderFails`, `matchOrdersFails`, `CancelAborted`, `AbortRows`: a database
  transaction fails after its body has changed the book. With `ResultLost` at
  most `MaxFaults` times.

The book is one signed amount per order. An entry that an overdrawn order would
get on the other side of the book is the same entry here. An amount is matched up
to `MaxLot`, which is the size of the orders: an order that a repeated result has
made larger than itself is matched for no more than that at once.

### Runs of Match

| run | instance | shows |
|---|---|---|
| `match_inflight` | a buy order of 3 lots, 2 match transactions, 1 failing database transaction or lost result | until something fails: book and table agree (`BookMatchesDB`), no part of the order is booked twice or with the wrong sign (`PartsWithinOrder`), every result can be applied (`SettlementApplies`), closed orders are left alone (`ClosedStaysClosed`); until a result is handed in again, failed database transactions notwithstanding: pending and confirmed amounts are the sums over the transactions (`PendingIsInFlight`, whose last part, that what failed on the chain is part of what is canceled, is until anything fails); always: the parts add up to the order (`Conservation`) |
| `match_two` | a buy and a close-only sell order, 1 match transaction, remainders below the minimum trade | `StatusTellsAmounts`, `RestartKeepsBook`, `ExpiryClosesOrder` for groups of orders |
| `match_overdrawn` | a sell order, 2 match transactions, 1 failing database transaction | violation: see Findings |

Bounds. Two lots are the least that allow a partial match and a partial fill;
three allow a partial fill of a partial match. Two match transactions are the
least that can be in flight together, settle in either order, be rechecked after
the other one has used what came back, and be settled twice around the other. Everything else (number of
restarts, cancellations, monitor passes, reorganizations) is unbounded.

There is no fairness in these runs: all their properties are safety properties.

### Launcher

State: `matchStatus` (status column of `match_transactions`), `launch` (rows of
`launch_transactions`), `nextNonce` (`broker_nonces`); `exec`, `syncTodo`,
`monTodo` (what the three loops hold: copies of rows they read earlier); `pool`
(what the node holds), `sent` (what ever reached a node), `chain` (what is mined,
per account); `mature` (matches whose rows are older than `UnmatureDuration`);
`settled` (how often `UpdateOrdersStatus` was applied, a history
variable); `used` (how much trouble there was).

A hash is the record of what is signed: account, nonce, match and gas price. A
transaction sent again at the same price has the same hash, at another price a
new hash and, as in `Executor.send`, a new row.

The loops save whole rows (`db.Save`), so each action that saves writes the copy
the loop holds, which may be old. A database transaction is one action together
with the call to the node before it; the calls are not merged with the reads
that started the round. `UpdateOrdersStatus` commits its own database
transaction inside the launcher's one: the trouble "torn" is the inner commit
without the outer one. SQL without an order (`GetTxsByNonce`, rows of equal nonce
in `GetTxsByUser`) is any order. The monitor reads the settled rows that are not
mature (`GetTxsByTime`). Every row of a match carries the commit time of the
match, so a match matures with all its rows, and older matches first (`Matures`).
The monitor saves a row whose status changed, and one that is in another block
than before, which takes a reorganization.

The node (external) refuses used nonces, known transactions and replacements
that do not pay more. A transaction it forgets may still be mined elsewhere.
`Budgets` is a set of mixes of trouble, of which a behaviour has one:

| run | trouble, once each | shows |
|---|---|---|
| `launcher_safe` | lost answer, foreign transaction, torn commit; or slow receipt, foreign transaction, restart; or forgotten transaction, lost answer, restart; two accounts, two gas prices | no match is executed twice while the node keeps what it accepts (`ExecutedAtMostOnce`); unless an answer was lost, an aborted match is not executed (`AbortedIsNotExecuted`), a match is settled once (`SettledAtMostOnce`) and canceled rows stay canceled (`CanceledIsFinal`), the last two for one gas price; a pending match is on its way (`PendingIsOnItsWay`), and a nonce belongs to one match (`OneNonceOneMatch`) |
| `launcher_live` | reorganization, restart, a match that gets too old for the monitor; two accounts | every match ends (`EventuallySettled`), and the tables end up with what the chain says of every match, except of a settled one that the monitor no longer reads (`EventuallyTracksChain`) |
| `launcher_lost` | lost answer | violation: see Findings |

Outside these assumptions the properties fail, and that is what the code does: a
match is executed twice when the node forgets a transaction that is mined later
or when a receipt takes longer than the syncer waits (`resetTransaction` gives
the match a new nonce while the old transaction is alive), and it is settled
twice when a torn commit repeats the settlement or when `fastForward` sends a
transaction again that was already settled. A canceled row comes back when a
nonce was sent at two gas prices: after one of the two is mined the syncer
cancels the other and goes on with the copy it read before
(`launcher/syncer.go:86`). And when the node forgets a transaction that is then
reset, no row has the missing nonce: the executor fast-forwards over the gap for
ever and sends nothing more of that account (`launcher/executor.go:79`), which is
why `launcher_live` has a node that forgets nothing. A reorganization that the
monitor does not see before the match is older than `UnmatureDuration`
(`launcher/monitor.go:48`) is never booked: `OutOfWindow` is the exception in
`EventuallyTracksChain`.

Bounds. Two matches are the least that compete for nonces and let one match's
round fast-forward over the other's transaction. `MaxRows` leaves room for
resent transactions, `MaxNonce` for foreign ones. `launcher_safe` and
`launcher_live` do not check for deadlock: when both matches are aborted, or
settled and mature, nothing is left to do.

Fairness (`FairSpec`). The loops are timers that run forever: weak fairness of
each loop. The node mines what it holds: weak fairness of mining. Calls and
commits fail, but one that is repeated forever succeeds now and then: strong
fairness of the executor's decision and of a send, and, per row, of the syncer's
and the monitor's successful turn. Matches are given at the start; when the
launcher picks them up is open.

### Orderbook

State: per side the amount of each order (`amount`), the price levels with their
ids in order of insertion and their total (`level`), the prices that have a level
(`tree`) and the map of prices kept beside the tree (`prices`). Every call holds
`book.lock` from its first to its last line, so `InsertOrder`, `RemoveOrder` and
`ChangeOrder` are one action each. `ChangeOrder` removes an order that reaches
zero and refuses a change of sign. `InsertOrder` refuses an order that is there
already; a refused call changes nothing and is no step. What the matcher reads
(`GetPrices`, `GetOrdersByPrice`, `Best`) are operators on the state, and `Walk`
is the sequence of orders that `MatchOrderSideBySide` comes by on one side.

The run `orderbook` checks that the tree and the map of prices agree and hold no
empty level (`PricesAgree`), and that the walk of the matcher implements
`PriorityBook` (`AbstractSpec`, refinement mapping `queue <- Walk`): better prices first, then
the order that came first, and an order that changes keeps its place.

Bounds. Three orders, two of them at one price: the least with time priority
inside a level and price priority between levels. `MaxLot` is 2, so that an order
can change without leaving. The same id may be on both sides at once, which is
what the code allows and what an overdrawn order leads to. `Match` uses the
projection of this book to one amount per order.

### Server

State: `table` (published perpetuals), `row` (status of each order), `accepted`
(how often `PlaceOrder` answered success, history), `handler`
(`matchHandlerMap`), `started` (`poolSyncer` exists); per matcher `book`, `timers`
and whether its loop runs; `at`, `wants`, `uses` (where the goroutines of requests
and of `Start` are between reading the orders table, registering the matcher and
using it); the history `returned` (orders a settlement put back), `cut` (orders
the monitor canceled a part of), `failed` (per matcher, the orders for which a
transaction failed), and the counters `restarts` and `faults`.

Making a matcher is two steps, because `newMatch` reads the table before it takes
the lock of the map: `StartMatcher`/`MakeMatcher`, then `StartRegister`/`Register`.
The goroutine that comes second leaves a matcher without a loop whose timers are
armed; it stays in the model as in memory.

The operations are those of `Match`, with an order matched, canceled and settled
as a whole. Each of them changes the book, and some the timers, inside its
database transaction, and has an alternative in which the transaction fails
(`Fails`): the row stays, the book and the timers do not. So a failed `NewOrder`
leaves an entry without a row, a failed `Cancel` an open order without an entry or
without a timer, a failed expiry an open order whose timer is gone, a failed
`MatchOrder` an open order that is not in the book, a failed `PutBack` an entry of
a matched order. `UpdateOrdersStatus` may come twice (`SettleAgain`), and
`RollbackOrdersStatus` reopens a settled order or settles an open one (`Recheck`).

An order whose amounts no longer add up, or no longer agree with the book, is
"garbled": it was settled twice, or matched with nothing available, or a part of
it was canceled in the book only. What an operation then does to its entry depends
on amounts that are not here, so every outcome is allowed: entries appear, stay
and go, and `reloadActiveOrders` reads any of the garbled orders. (`Match` follows
the amounts.)

The run `server` (two orders of a perpetual, two concurrent requests, one restart,
one failure): the serving matcher has every open order for which none of its
transactions failed (`NoOrderForgotten`); an order in its book that is not open
has a cause, a matcher that lost the race, a failed transaction or garbled amounts
(`GhostsHaveACause`); it is the only one with a loop (`OneLoop`), and orders are
accepted once (`AcceptedOnce`) and have a timer unless one of three things took it
(`OpenIsTimed`). That a failure is an exception is what the code does: nothing
takes the book or a timer back.

Bounds. Two requests and `Start` are the least for every pair that can race to
make one matcher; `MCOneStray` leaves out the states in which two lost at once.
Perpetuals share nothing but the map, and the theorems hold for any number of
them, of strays and of failures. Orders, and requests, are symmetric. Deadlock is
not checked: with every order in the table and no matcher started, because the
orders could not be read, the service waits for the next order.
`Server.ClosePerpetual` is left out: nothing calls it.

### Websocket

State: `pending` (the change a matcher is sending, its mutex held), `wsChan`,
`held` (the consumer's message), `allChannels`, `members`, per channel goroutine
the message it is sending and to whom it has still to send it, per actor (consumer
or client reader) where it is and which channel it uses, and per client its
logins, `msgChan`, connection and writer goroutine.

A send on an unbuffered Go channel is one step of both sides and is enabled when
the other goroutine is in its `select` (`Ready`); on a buffered one it waits for
room; on a closed `msgChan` it panics, is recovered and drops the message.
`allChannelsMutex` is modelled with Go's rule that a waiting writer keeps new
readers out. Between `findChannel` and `saveChannel` anything may happen: two
goroutines may create the same channel, and one of them goes on with a channel
nobody will find.

The run `websocket` (one client that makes three requests and one that only
connects and leaves, one account, four changes, capacities of one):
`OnlyOwnAccounts`, `ChangesInOrder`, `GoneIsForgotten`, `StaysSubscribed`, and,
under fairness, `MatcherGoesOn`: a matcher that sends goes on, unless the service
is stopping or a client's writer goroutine has ended, its `msgChan` is full and
its reader has not noticed yet. Capacities of one are the least that fill; the
blocking needs the queue, the consumer, the channel and the client's queue to be
full at once, hence four changes. Fairness: Go's scheduler runs every goroutine
that can go on (weak fairness per goroutine); peers, timers and matchers owe
nothing. Deadlock is not checked: clients may leave and the traffic end.

### Syncers

`PerpetualSyncer`: `listed` (the subgraph), `answer` (what is left of the page
being handled), `syncedBlockNumber`, `perpetuals` (table), `failed`. One perpetual
of a page is one action, because the process may stop between two. `PoolSyncer`:
`state` (of each pool on the chain), `poolStorage` (the cache), `lock` (the write
lock with the call to the node in progress under it), `round` (what `runSyncer`
has still to visit), `get` (the last or running `GetPoolStorage` of each caller),
`minedAt` (history). A storage is known by the state it was read in. `Syncers`
composes them: `newMatch` adds the pool of a perpetual of the table, `Restart`
empties the cache and reads the synced block from the table.

The run `syncers` (four perpetuals in three blocks, one of which does not parse,
pages of two, one pool that changes twice, one caller, one restart):
`NothingSkipped`, `SeesSettlement`, and, under fairness, `EventuallyListed` and
`CatchesUp`. `NothingSkipped` states the exception the code has: the second
perpetual of a block is lost when the process stops, or the page ends, between the
two. `EventuallyListed` needs that unparseable perpetuals do not fill a page. The
pool is indifferent to others, so one pool is enough; pages of two are the least
that can end inside a block. Fairness: both loops are timers that run forever
(weak), the node and the subgraph answer, if with an error, and a waiting `Lock`
keeps new readers out, so the loop gets the lock (strong). Deadlock is not
checked: when the bounds are reached nothing is left to do.

### Trade and Margin

Decimals are integers in a unit (1/720) in which the divisions of the instance
are exact, so the rounding of the decimal library plays no part. `Trade` has
`ComputeAccount`, `ComputeTradeWithPrice` and `adjustMarginLeverage` line by line;
the price the AMM asks is a parameter.

`Margin`: `account` (the trader on the chain) and `orders` (price, amount, and
what is available, on its way, and executed but not yet settled). `NewOrder` has
the admission check of the code (`ComputeOrderAvailable` over all orders of the
trader), `Match` the safety check of `getMatchItem` with its second, smaller try,
which starts from the account the first try may have changed and at another price,
since the first try has changed the pool, `Execute` is the chain
(external: a trade that is not safe reverts). `MonitorCancels` is what the order
monitor would cancel in the state.

The run `margin` (accounts flat, long or short with wallets from empty to enough,
up to two orders at five prices around the mark price): what was admitted stays
covered (`MonitorKeepsOrders`), and an amount on its way never fails for want of
collateral (`WalletSuffices`). Both hold under `Calm`: no order's limit is worse
than the mark price, or the orders are of one side, are executed best price first
and the initial margin bears what they lose at the limit. Outside it they fail,
because `sideAvailable` spends the wallet in one order of executions only and its
bankrupt branch (`match/order.go:107`) drops the position it closes. The mark
price stands still: when it moves the monitor is meant to cancel. Two orders are
the least that share a wallet. Deadlock is not checked: a trader may be done.

### AMM

State: `pool` (the storage of a pool: cash, position and open interest of the
perpetual that is traded, the perpetuals beside it), `level` (the price level that
`matchOneSide` is at, with what is left of `maxTradeAmount`), `trades` (what was
computed at the level, with the pool before and whether it was refused). Two
actions: `matchOneSide` asks the AMM what it trades at the price of a level
(`ComputeAMMAmountWithPrice`), and `ComputeAMMTrade` computes the trade of one
order on the pool storage, which the next order then sees. Which part of the offer
an order takes is a choice, and so is the trader: the account is read from the
chain for each order (`match/order.go:337`), so his position is any of
`Positions`, whether he is safe afterwards is either, and of the fee of a trade
that only closes, which is cut to his margin, the pool gets any of `Shares`.
Everything below is the code's arithmetic, function by function: trading context,
pool margin, the three safe conditions, closing, opening, closing and opening
through zero, best price, spread and discount, and the quadratic that turns a
limit price into an amount. A function that returns an error or nil returns
`NoContext`; the calculations do not change the context they were given, as
`copyAMMTradingContext` makes sure. (It does not copy `MaxClosePriceDiscount`; no
caller closes with a copy.) A trade refused for its trader or at the limit on the
open interest has changed the pool by then, in the model as in the code; one on
which `ComputeTradeWithPrice` fails has not, and is no step.

Numbers are fractions (`Decimal`), so sums, products and quotients are exact. The
instance has pools whose square roots are rational: margin balances and position
values come from Pythagorean triples, and `Smooth`, without spread and fee, keeps
its pool margin along a sequence of trades. Comparisons with a root that need not
be rational are made on the squares (`PoolMarginBelow`). A root that is not
rational would end the run with an error, so none was passed over.

The run `amm`:

* `LimitKept`: what `ComputeAMMAmountWithPrice` offers, and every part of it, goes
  through at the limit price or better in one order. Divided among several orders
  it does so on average where the AMM asks the price of its curve
  (`Frictionless`). A single later order may then be asked a worse price than its
  limit (limit 2, second sell at 10/9). With a spread not even the average keeps
  the limit: the flat `Steep` pool of margin 5 offers 1/4 at the limit 2.2, and
  two buys of 1/8 are asked 2.1 and 2.31, on average 2.205, because the spread is
  added to a price that the first buy has moved. On the chain the order that is
  asked too much fails and its amount goes back to the book.
* `OfferIsMost`: a larger amount is refused or exceeds the limit price.
* `PoolMarginKept`: a trade with a safe pool never lowers the pool margin, also
  when it goes through zero with two slippage factors.
* `DividingGainsNothing`: orders that divide an amount leave the pool at least the
  cash that one order for all of it would, refused trades included.

`ComputeAMMTrade` hands `computeOpenInterest` the position after the trade as
`oldPosition` (`common/mai3/computation.go:86`), and the model does the same. The
result is not the sum of the long positions: a trader who goes from long 1 to
short 1 against an AMM that was short 1 leaves 2, although the only long position
left is the AMM's 1. The limit "openInterest <= poolMargin * maxOpenInterestRate /
indexPrice" (`common/model/mai3.go:32`) is then checked against that number. No
property is stated of it.

Bounds. `Pools` has one kind for each limit that can bind: `Levered` (leverage,
and pools that are unsafe or in emergency), `Steep` (price and margin, different
slippage for opening and closing, a spread), `Smooth` (neither spread nor fee),
`Limited` (open interest), `Beside` (a position in another perpetual); each with
the AMM flat, long or short. `MaxTrades` is the number of trades of a level:
two for `Smooth` and `Limited`, two for `Steep` where the first trade leaves
rational roots (which includes the example above), one otherwise: a trade at the
spread mostly leaves a pool margin that is no fraction. Two is the least that
divides an offer. Amounts are one eighth, quarters up to 3 and whole numbers up to
10, the positions are long and short 3. Limit prices are the
prices the AMM asks for the amounts of the instance, so that they fall on both
sides of every case, and two far ones. Deadlock is not checked: a level ends.

### Findings

`match_overdrawn`: `matchOrders` refuses a match that leaves less than nothing
available ("avaliable is negative after match", `match/match.go:128`). The check
is `HasTheSameSign(new, old)`, and zero has the sign of everything: with nothing
available in the table and an entry in the book the match goes through and the
available amount changes its sign. Book and table get into that state when the
commit of `UpdateOrdersStatus` fails after `rollbackOrderbook` has put the order
back into the book.

`launcher_lost`: a transaction whose send was not recorded is taken for a foreign
one and its match aborted, although it will be executed
(`launcher/executor.go:71`).

## Proofs

Eight modules end in `_proofs`; `tlapm` checks all of them. Every theorem is for
all values of the constants: any orders and amounts, any number of matches,
accounts, clients, perpetuals, callers and restarts, any capacity of a queue. The
runs above check the same properties, and checked the inductive invariants
before they were proved, on small instances. The assumptions are the named
`ASSUME`s of the modules (`ConstantsAssumption`, `ServerAssumption`,
`WebsocketAssumption`, `PerpetualsAssumption`, `PoolsAssumption`,
`PoolOfAssumption`): bounds are numbers, maps have their domains, and `None` is
none of the orders, matchers or channels. `TradeAssumption` and
`MarginAssumption` add that what the code divides by is not zero, that prices and
rates are not negative, and that a wallet starts with no negative balance;
`AMMAssumption` that the prices, factors and limits of a pool the code divides by
are positive, spread and fees are not negative and the spread is below one.

| module | theorems | properties |
|---|---|---|
| `Match_proofs` | `TypeCorrectness`, `AmountsConserved`, `AgreementInvariant`, `BookAgrees`, `PartsBounded`, `SumsAccounted`, `StatusTruthful`, `SettlementAccepted`, `ClosedOrdersStay`, `RestartInvisible`, `ExpiredOrdersClosed` | `TypeOK`, `Conservation`, `BookMatchesDB`, `PartsWithinOrder`, `PendingIsInFlight`, `StatusTellsAmounts`, `SettlementApplies`, `ClosedStaysClosed`, `RestartKeepsBook`, `ExpiryClosesOrder` |
| `Launcher_proofs` | `WellFormed`, `TypeCorrect`, `NonceOfOneMatch`, `PendingHasRow`, `ExecutedOnce`, `AbortedNotExecuted`, `SettledOnce`, `CanceledForGood` | `TypeOK`, `OneNonceOneMatch`, `PendingIsOnItsWay`, `ExecutedAtMostOnce`, `AbortedIsNotExecuted`, `SettledAtMostOnce`, `CanceledIsFinal` |
| `Server_proofs` | `TypeCorrect`, `OpenOrdersInBook`, `OpenOrdersTimed`, `GhostsCaused`, `OneLoopPerPerpetual`, `HashAcceptedOnce` | `TypeOK`, `NoOrderForgotten`, `OpenIsTimed`, `GhostsHaveACause`, `OneLoop`, `AcceptedOnce` |
| `Syncers_proofs` | `TypeCorrect`, `NoPerpetualSkipped`, `SettlementSeen` | `TypeOK`, `NothingSkipped`, `SeesSettlement` |
| `Websocket_proofs` | `TypeCorrect`, `OwnAccountsOnly`, `GoneClientsForgotten`, `InOrderOfPublication`, `SubscribersStay` | `TypeOK`, `OnlyOwnAccounts`, `GoneIsForgotten`, `ChangesInOrder`, `StaysSubscribed` |
| `Orderbook_proofs` | `TypeCorrect`, `PricesInStep`, `PriceTimePriority` | `TypeOK`, `PricesAgree`, `AbstractSpec` |
| `AMM_proofs` | `PoolMarginNeverFalls` | `PoolMarginKept` |
| `Margin_proofs` | `OpeningIsSafe`, `ClosingIsFree`, `OrdersAddUp`, `ClosingNeedsNoWallet` | `TypeOK`; the part of `WalletSuffices` about amounts that close |

### Match

Conservation. The invariant is `IInv`: `TypeOK`, `Conservation` and `ItemsExist`,
which says that every order in the lists of a match transaction has a row.
Without it a settlement could create a row out of nothing. Every operation saves
a row through `UpdateOrder` with differences that add up to zero
(`UpdateOrderRedistributes`, then one lemma per row operation), a table in which
only existing rows are redistributed conserves amounts (`ReworkedOK`), and each
action is such a step (`...OK`, one lemma per action).

Agreement. `BInv` adds: rows carry the status of their amounts (`RowsSaved`);
the records of a match transaction start empty, are about its items, and no item
both succeeded and failed (`RecordsKept`); until a result is handed in again,
pending and confirmed amounts are the sums over the transactions (`SumsAgree`);
and, until anything fails, every amount has the sign
of its order (`AmountsSigned`) and book and table are equal (`BookIsTable`). None
of the properties is inductive by itself: that a settlement can be applied needs
that the amount is within the sum, the sum needs that no other transaction in
flight has the other sign, and that a closed order stays closed needs both. Sums
over an unknown number of transactions are the recursive function `Total`;
the first part of `Match_proofs` proves what is needed of it (a changed summand
changes the total by the difference; parts of one sign are within the total) by
the least number for which it fails, since the numbers are well founded.

The conditions are in the properties, not added by the proofs: after a failed
commit the book keeps what the table has lost (see Findings), and a result that is
handed in again takes its amounts out of pending a second time. `PendingIsInFlight`
survives the first but not the second (`repeats = 0`): its sums hold because
`HandsIn` lets a result in once, and only as long as the launcher loses none.

### Launcher

`TInv` holds whatever goes wrong: the types; the primary keys count the rows
(`Numbered`, so that a new key is new); copies in the hands of a loop are of rows
in the table (`CopiesNumbered`); the chain holds only what was sent, at the place
of its nonce (`ChainSent`).

The other theorems hold as long as `Kept`: the node forgot nothing and the chain
took nothing back. Lost answers, torn commits, late receipts, foreign
transactions and restarts may happen any number of times, and any gas price may
be used. The invariant `KInv` says what then keeps four loops with copies of
each other's rows apart:

* every match has one row, no copy is stale, and each loop holds only rows of
  the status that is its own: new, pending, settled (`OneRowEach`,
  `CopiesCurrent`);
* `broker_nonces` is ahead of all rows, and of the nonces given out only the last
  can be free (`NoncesAllotted`); what was sent leaves no gap and no nonce was
  sent twice (`SentTaken`); the nonce the executor works with is the first that
  was neither sent nor given up, although others may have used it since
  (`ExecInStep`, `Free`);
* a row has a hash exactly when it was sent, and is given up only when its nonce
  is taken (`RowsTruthful`);
* of all that was sent for a match only what its row says can still be executed
  (`AliveIsRow`, if no receipt was given up on too early), and it is on record
  (`AliveRecorded`, if no answer was lost either);
* a match that was settled has a final row (`SettledRows`, if no commit is torn).

`Kept` is needed. With a reorganization that returns a foreign nonce the executor
sends an older row and lowers `broker_nonces`; if the node then forgets the
transaction above, two matches get the same nonce (two foreign transactions, one
reorganization, one forgotten transaction; TLC finds it with three matches). With
a node that forgets, `fastForward` sends again rows of any status from copies, and
`launcher_safe` shows that the properties survive one such event.

### Orderbook

`BookInv`: the map of prices is the set of keys of the tree, it is finite, and
every level of the tree has orders, each of them once and all of the price of the
level. `PricesAgree` is not inductive without the last part: when an order is
removed, the level is taken out exactly when no other order is left in it.

The refinement compares two sequences after each call: the walk over the new
levels (`FlattenSeq` of the levels, in the order of `GetPrices`), and the old walk
with one order inserted, changed or taken out. Both are sorted by the same order
(`Before`: the better price, and within a level the place) and have the same
elements (`Held`), and there is one way to sort a set by a strict order
(`SortedUnique`), so they are equal. What is left for each call is first-order:
which orders are held after it, and that it does not turn the order of two others
around (`InsertImplements`, `LeaveImplements`, `StayImplements`). That a walk is
sorted at all (`WalkSorted`) rests on lemmas about sequences: a finite set of
prices can be sorted, the concatenation of sorted blocks, each before the next, is
sorted, and a place to insert can always be found. Where a lemma needs induction
(`FlattenSorted`, `PricesSort`), the proof takes the least number for which it
fails.

### Server, Syncers, Websocket

`Server`: `newMatch` reads the orders table long before the matcher is
registered, so the invariant says of every matcher *in the making* that what it
has read is still complete as long as no other is registered (`ReadIsComplete`):
only a registered matcher opens an order. With it: orders of a matcher are of its
perpetual (`OwnOrders`), the goroutines hold matchers they made or found
(`GoroutinesHold`, `HandlersMade`), and a matcher without a rival has in its book
only orders that are open, garbled or `failed` (`AloneHasNoGhosts`). `failed` is
per matcher and per order, so that a failure excuses nothing else, and a restart
clears it: what the new matcher reads is complete again.

`Syncers`: a storage that is not marked dirty is not older than the last trade
it was marked for (`CleanIsFresh`), and neither is what the node has answered the
holder of the lock (`AnswerIsFresh`), because no pool is marked while the lock is
held. For the perpetuals: the page in hand is the oldest part of what is listed
after the synced block (`AnswerIsOldest`, `AnswerNotOlder`, `BlocksInOrder`).

`Websocket`: channels are registered under their own account (`ChannelsOwn`);
what actors, members and sending channels hold are channels they may use
(`ActorsHold`, `MembersHold`, `SendingHold`); a client on its way out still has
every channel to visit that knows it (`LeavesAll`). The order of changes needs
what is everywhere at once: what is coming (`wsChan`, consumer, matcher) is in
order and published, and what channels and clients have is before all of it
(`QueueInOrder`, `ComingPublished`, `ChannelsInOrder`, `ClientsInOrder`).

### AMM

The arithmetic comes first: a fraction in lowest terms is unique
(`Gcd` divides both numbers and is a combination of them), so `Decimal` is an
ordered field, and the rest is algebra with named laws.

`TradesInv`: the pool is what `ComputeAMMTrade` made of the pool recorded with the
last trade, for some trader and some share of the fee.

`PoolMarginNeverFalls` rests on one fact about the curve. The pool margin `M` is
the larger zero of `2M(M - m) + S`, where `m` is the margin balance and `S` the
sum of the squared position values, each times its slippage factor. A trade along
the curve pays the AMM just so much that the old `M` is a zero of the new curve
too, so it is on or below it (`OnOrBelow`), and the new `M` is not smaller. Everything else
the code does can only add to `m`: the best price with its spread is taken when
it is better for the AMM, the price limit of a close and the fee are not
negative. A trade through zero
changes the slippage factor between closing and opening, which is no matter
because the position is zero there (`AtZero`). `MarginInv` adds that
the pools stay well formed and that the roots which the last trade took were
exact.

The theorem has two hypotheses beyond the assumptions. `OfferIsDecimal`: the
amount offered at a level is a decimal. `RootsExact`: the pool margins that the
next trade computes have a rational root. In the code a root always exists, rounded to 18
digits; in the model it exists where it is rational, and `Root` chooses no number
otherwise. Both hold in every state of the run `amm` (TLC ends with an error at a
root it cannot find, and was also run with the two as invariants), so the
theorem speaks at least of all its pools.

### Margin

`OpeningIsSafe` and `ClosingIsFree` are about `ComputeTradeWithPrice` alone, for
every account. Both follow from what the call leaves (`TradeAnswers`): an opening
trade moves at least `-AvailableMargin` from the wallet, so the check of the
initial margin that follows cannot fail; a closing trade moves at most nothing,
and its fee is capped by what is above the initial margin. The invariant `Inv`
then says that every order's parts have its sign and add up to no more than it
(`PartsOK`: `Match` takes from what is available, `Execute` from what is on its
way), and that the wallet is not negative. `ClosingNeedsNoWallet` does not need
`Calm`: amounts that only close are safe at any price.

### Only model-checked

* Liveness: `EventuallySettled`, `EventuallyTracksChain`, `MatcherGoesOn`,
  `EventuallyListed`, `CatchesUp`. TLAPS does not prove liveness under fairness.
* `LimitKept`, `OfferIsMost`, `DividingGainsNothing` (`AMM`): the offer is the root of a quadratic, which
  is rational only for some limit prices, and a second trade at the level needs
  another root.
* `MonitorKeepsOrders` and the part of `WalletSuffices` about amounts that open
  (`Margin`): both compare a fold over the sorted orders with what remains of it
  after any execution, and divisions by position and leverage that are exact only
  in the unit of an instance. In a coarse unit (a mark price of 10) the rounding
  of the integer division refutes both, so they are no theorems of `Margin` for
  every unit.
* The properties of `Launcher` when the node forgets or the chain reorganizes.

## Plan

1. `Match`, its runs, type correctness and conservation (done).
2. `Launcher` and its runs (done).
3. `Orderbook`, shown to implement `PriorityBook` (done).
4. `Server`, `Websocket`, `PerpetualSyncer` with `PoolSyncer`, `Margin`,
   `AMM` (done).
5. Proofs of the safety properties of `Match`, `Launcher`, `Server`, `Syncers`
   and `Websocket` (done).
6. Proofs about `Orderbook`: `PricesAgree`, then the steps of the refinement
   (done).
7. Proofs about `AMM` and `Margin` (done, except for what is only
   model-checked).

## Not modelled

* The rounding of decimals to 18 digits. `Match` and `Margin` take prices and
  amounts of the AMM as choices instead of computing them with `AMM`.
* The golden-section search behind `ComputeAMMMaxTradeAmount` (floating point;
  its result is a choice), and `ComputeBestAskBidPrice`, which only tests call.
* `Server.ClosePerpetual`, `match.Close`, `deleteMatchHandler`, `UpdatePerpetual`:
  nothing calls them.
* `Match` and `Launcher` in one model. `Match` takes the results of the matches in
  any order, each once unless the launcher loses it (`ResultLost`), and rechecks
  any number of times; `Launcher` shows when a result can come twice. The product
  is too large for exhaustive checking with two matches.
* In `AMM`: perpetuals that are not in normal state and index prices that are not
  positive. `initAMMTradingContext` returns an error for them
  (`common/mai3/amm.go:686`) and no order is traded.
* The L2 relayer: one request, one transaction, no state. (Its fee check,
  `l2/relayer/relayer.go`, is a comparison.)
* Signatures, hashes and the packing of order data; generated contract bindings;
  the gas monitor (one number that is refreshed); the queries and the
  authentication of the API; configuration, logging, metrics, HTTP and JSON.
* Several perpetuals that share one wallet in the margin check. (There
  `splitActiveOrdersInEachPerpetual` treats the first order of each further
  perpetual differently: it keeps its pending amount, which is set to zero for
  the others, `match/monitor.go:152`.)
* Data races: the pool storage that `GetPoolStorage` returns is the cached object,
  which `ComputeAMMTrade` changes, and `runSyncer` ranges over the map without the
  lock. What they yield is within the choices of prices and amounts, or ends the
  process, which is a restart.
