---------------------------- MODULE Server_proofs ----------------------------
(***************************************************************************)
(* Safety of the match server, for all perpetuals, orders and requests in  *)
(* progress, restarts, failing transactions and results applied twice.     *)
(***************************************************************************)
EXTENDS Server, TLAPS

\* A hash is accepted with its row, and rows are not deleted.
RowsAccepted == \A o \in Orders : row[o] = "none" => accepted[o] = 0

\* Books and timers hold orders of the matcher's perpetual, and only those of
\* matchers in memory hold any.
OwnOrders ==
  \A m \in Matchers : \A o \in book[m] \cup timers[m] :
    PerpetualOf[o] = m[1] /\ m \in made

\* A registered matcher is in memory, under its own perpetual.
HandlersMade ==
  \A p \in Perpetuals : handler[p] # None => handler[p] \in made /\ handler[p][1] = p

\* What a goroutine holds between the steps of newMatch, setMatchHandler and
\* NewOrder.
GoroutinesHold ==
  /\ \A g \in Makers : at[g] = "set" => uses[g] \in made
  /\ \A g \in Requests :
       /\ at[g] # "idle" => wants[g] \in Orders
       /\ at[g] = "set" => uses[g][1] = PerpetualOf[wants[g]]
       /\ at[g] = "insert" => uses[g] # None /\ uses[g] = handler[PerpetualOf[wants[g]]]

\* What newMatch read before the matcher is registered is still complete as
\* long as no other matcher is registered: only a handler opens an order.  Its
\* timers run, and one whose transaction fails is the exception.
ReadIsComplete ==
  \A g \in Makers : at[g] = "set" /\ handler[uses[g][1]] = None =>
    \A o \in Orders : PerpetualOf[o] = uses[g][1] /\ row[o] = "open" =>
      \/ o \in book[uses[g]] /\ o \in timers[uses[g]]
      \/ o \in failed[uses[g]]

Alone(m) == m \in made /\ \A n \in made : n[1] = m[1] => n = m

\* The book of the only matcher of a perpetual, registered or not, holds open
\* orders, garbled ones and those of a failed transaction only.
AloneHasNoGhosts ==
  \A m \in Matchers : Alone(m) =>
    \A o \in book[m] \ failed[m] : row[o] \in {"open", "garbled"}

IInv ==
  /\ TypeOK /\ OneLoop /\ AcceptedOnce /\ NoOrderForgotten /\ OpenIsTimed
  /\ RowsAccepted /\ OwnOrders /\ HandlersMade /\ GoroutinesHold
  /\ ReadIsComplete /\ AloneHasNoGhosts

-----------------------------------------------------------------------------

LEMMA Pairs ==
  /\ \A m \in Matchers : m[1] \in Perpetuals
  /\ \A p \in Perpetuals, g \in Makers : <<p, g>> \in Matchers /\ <<p, g>>[1] = p
  /\ Starter \in Makers /\ Requests \subseteq Makers
  /\ \A g \in Requests : g # Starter
  /\ None \notin Matchers /\ None \notin Orders
  /\ \A o \in Orders : PerpetualOf[o] \in Perpetuals
BY ServerAssumption DEF Matchers, Makers

\* What reloadActiveOrders may find.
LEMMA ReloadFinds ==
  ASSUME NEW p \in Perpetuals, NEW found \in reloadActiveOrders(p)
  PROVE  /\ found \subseteq Orders
         /\ \A o \in found : PerpetualOf[o] = p /\ row[o] \in {"open", "garbled"}
         /\ \A o \in Orders : PerpetualOf[o] = p /\ row[o] = "open" => o \in found
BY DEF reloadActiveOrders, OrdersOf

\* The matcher that newMatch makes has read every open order of its
\* perpetual, whoever else serves it.
LEMMA NewMatchKeeps ==
  ASSUME IInv, NEW g \in Makers, NEW p \in Perpetuals, newMatch(g, p),
         g \in Requests => wants[g] \in Orders /\ PerpetualOf[wants[g]] = p,
         toStart' \subseteq toStart,
         UNCHANGED <<table, row, accepted, handler, started, loop, wants, history>>
  PROVE  IInv'
<1> PICK found \in reloadActiveOrders(p) :
         /\ book' = [book EXCEPT ![<<p, g>>] = found]
         /\ timers' = [timers EXCEPT ![<<p, g>>] = found]
  BY DEF newMatch
<1>f. /\ found \subseteq Orders
      /\ \A o \in found : PerpetualOf[o] = p /\ row[o] \in {"open", "garbled"}
      /\ \A o \in Orders : PerpetualOf[o] = p /\ row[o] = "open" => o \in found
  BY ReloadFinds
<1>1. OneLoop' /\ AcceptedOnce' /\ RowsAccepted'
  BY DEF IInv, OneLoop, AcceptedOnce, RowsAccepted
<1>2. TypeOK'
  BY <1>f, Pairs DEF IInv, TypeOK, newMatch, Goto, history
<1>3. NoOrderForgotten'
  BY <1>f, Pairs DEF IInv, TypeOK, NoOrderForgotten, HandlersMade, history
<1>4. OpenIsTimed'
  BY <1>f, Pairs DEF IInv, TypeOK, OpenIsTimed, HandlersMade, history
<1>5. OwnOrders'
  BY <1>f, Pairs DEF IInv, TypeOK, newMatch, OwnOrders
<1>6. HandlersMade'
  BY DEF IInv, newMatch, HandlersMade
<1>7. GoroutinesHold'
  BY DEF IInv, TypeOK, newMatch, Goto, GoroutinesHold
<1>8. ReadIsComplete'
  BY <1>f, Pairs DEF IInv, TypeOK, newMatch, Goto, ReadIsComplete, history
<1>9. AloneHasNoGhosts'
  BY <1>f, Pairs DEF IInv, TypeOK, newMatch, AloneHasNoGhosts, OwnOrders, Alone, history
<1>10. QED
  BY <1>1, <1>2, <1>3, <1>4, <1>5, <1>6, <1>7, <1>8, <1>9 DEF IInv

\* Registering changes who serves the perpetual only when nobody did.
LEMMA SetMatchHandlerKeeps ==
  ASSUME IInv, NEW g \in Makers, at[g] = "set", setMatchHandler(g),
         \/ at' = [at EXCEPT ![g] = "insert"] /\ CanSet(uses[g][1]) /\ UNCHANGED <<wants, uses>>
         \/ /\ at' = [at EXCEPT ![g] = "idle"]
            /\ wants' = wants \/ wants' = [wants EXCEPT ![g] = None]
            /\ uses' = [uses EXCEPT ![g] = None],
         UNCHANGED <<table, row, accepted, started, made, book, timers, toStart, history>>
  PROVE  IInv'
<1>1. AcceptedOnce' /\ RowsAccepted' /\ OwnOrders' /\ AloneHasNoGhosts'
  BY DEF IInv, AcceptedOnce, RowsAccepted, OwnOrders, AloneHasNoGhosts, Alone, history
<1>2. TypeOK'
  BY Pairs, ServerAssumption
     DEF IInv, TypeOK, setMatchHandler, RunMatch, GoroutinesHold, history
<1>3. OneLoop'
  BY Pairs DEF IInv, TypeOK, setMatchHandler, RunMatch, CanSet, OneLoop
<1>4. NoOrderForgotten'
  BY DEF IInv, setMatchHandler, CanSet, NoOrderForgotten, ReadIsComplete, history
<1>5. OpenIsTimed'
  BY DEF IInv, setMatchHandler, CanSet, OpenIsTimed, ReadIsComplete, history
<1>6. HandlersMade'
  BY DEF IInv, setMatchHandler, HandlersMade, GoroutinesHold
<1>7. GoroutinesHold'
  BY Pairs DEF IInv, TypeOK, setMatchHandler, CanSet, GoroutinesHold
<1>8. ReadIsComplete'
  BY DEF IInv, TypeOK, setMatchHandler, CanSet, ReadIsComplete, history
<1>9. QED
  BY <1>1, <1>2, <1>3, <1>4, <1>5, <1>6, <1>7, <1>8 DEF IInv

LEMMA PlaceOrderKeeps ==
  ASSUME IInv, NEW g \in Requests, NEW o \in Orders, PlaceOrder(g, o)
  PROVE  IInv'
<1>1. /\ OneLoop' /\ AcceptedOnce' /\ RowsAccepted' /\ NoOrderForgotten'
      /\ OpenIsTimed'
      /\ OwnOrders' /\ HandlersMade' /\ AloneHasNoGhosts'
  BY DEF IInv, PlaceOrder, matcherVars, history, OneLoop, AcceptedOnce, RowsAccepted,
     NoOrderForgotten, OpenIsTimed, OwnOrders, HandlersMade,
     AloneHasNoGhosts, Alone
<1>2. TypeOK'
  BY DEF IInv, TypeOK, PlaceOrder, getMatchHandler, Goto, matcherVars, history
<1>3. GoroutinesHold'
  BY DEF IInv, TypeOK, PlaceOrder, getMatchHandler, Goto, GoroutinesHold,
     matcherVars, history
<1>4. ReadIsComplete'
  BY DEF IInv, PlaceOrder, Goto, ReadIsComplete, matcherVars, history
<1>5. QED
  BY <1>1, <1>2, <1>3, <1>4 DEF IInv

LEMMA NewOrderKeeps ==
  ASSUME IInv, NEW g \in Requests, NewOrder(g)
  PROVE  IInv'
<1>1. OneLoop' /\ HandlersMade'
  BY DEF IInv, NewOrder, OneLoop, HandlersMade
<1>2. TypeOK'
  <2>1. wants[g] \in Orders /\ uses[g] \in Matchers /\ g \in Makers
    BY Pairs DEF IInv, TypeOK, NewOrder, GoroutinesHold
  <2>2. /\ row' \in [Orders -> RowStatus] /\ accepted' \in [Orders -> Nat]
        /\ book' \in [Matchers -> SUBSET Orders] /\ timers' \in [Matchers -> SUBSET Orders]
    BY <2>1 DEF IInv, TypeOK, NewOrder, RowStatus
  <2>3. /\ at' \in [Makers -> {"idle", "make", "set", "insert"}]
        /\ wants' \in [Makers -> Orders \cup {None}] /\ uses' \in [Makers -> Matchers \cup {None}]
    BY <2>1 DEF IInv, TypeOK, NewOrder, Goto
  <2>4. failed' \in [Matchers -> SUBSET Orders] /\ faults' \in 0..MaxFaults
    BY <2>1, ServerAssumption DEF IInv, TypeOK, NewOrder, Commits, Fails
  <2>5. QED
    BY <2>2, <2>3, <2>4 DEF IInv, TypeOK, NewOrder
<1>3. AcceptedOnce'
  BY DEF IInv, TypeOK, NewOrder, CanCreate, AcceptedOnce, RowsAccepted
<1>4. RowsAccepted'
  BY DEF IInv, TypeOK, NewOrder, RowsAccepted
<1>a. /\ wants[g] \in Orders /\ uses[g] \in Matchers /\ uses[g] = handler[PerpetualOf[wants[g]]]
      /\ \A k \in Matchers : book[k] \subseteq book'[k] /\ timers[k] \subseteq timers'[k]
      /\ \A k \in Matchers : failed[k] \subseteq failed'[k]
      /\ \A k \in Matchers : k # uses[g] => book'[k] = book[k] /\ timers'[k] = timers[k]
      /\ \A q \in Orders : q # wants[g] => row'[q] = row[q]
      /\ \A k \in Matchers : \A q \in Orders : q # wants[g] => (q \in book'[k] <=> q \in book[k])
  <2>1. /\ wants[g] \in Orders /\ uses[g] \in Matchers
        /\ uses[g] = handler[PerpetualOf[wants[g]]]
    BY Pairs DEF IInv, TypeOK, NewOrder, GoroutinesHold
  <2>2. /\ \A k \in Matchers : book[k] \subseteq book'[k] /\ timers[k] \subseteq timers'[k]
        /\ \A k \in Matchers : k # uses[g] => book'[k] = book[k] /\ timers'[k] = timers[k]
    BY <2>1 DEF IInv, TypeOK, NewOrder
  <2>3. \A k \in Matchers : failed[k] \subseteq failed'[k]
    BY <2>1 DEF IInv, TypeOK, NewOrder, Commits, Fails
  <2>4. \A q \in Orders : q # wants[g] => row'[q] = row[q]
    BY <2>1 DEF IInv, TypeOK, NewOrder
  <2>5. \A k \in Matchers : \A q \in Orders : q # wants[g] => (q \in book'[k] <=> q \in book[k])
    BY <2>1 DEF IInv, TypeOK, NewOrder
  <2>6. QED
    BY <2>1, <2>2, <2>3, <2>4, <2>5
<1>b. \/ UNCHANGED <<row, book, timers, failed>>
      \/ /\ row'[wants[g]] = "open"
         /\ wants[g] \in book'[uses[g]] /\ wants[g] \in timers'[uses[g]]
      \/ row' = row /\ wants[g] \in failed'[uses[g]]
  BY <1>a DEF IInv, TypeOK, NewOrder, Commits, Fails
<1>5. NoOrderForgotten'
  <2> SUFFICES ASSUME NEW q \in Orders, row'[q] = "open", handler[PerpetualOf[q]] # None
               PROVE  q \in book'[handler[PerpetualOf[q]]] \cup failed'[handler[PerpetualOf[q]]]
    BY DEF NoOrderForgotten, NewOrder
  <2>1. handler[PerpetualOf[q]] \in Matchers
    BY Pairs DEF IInv, TypeOK
  <2>2. CASE row[q] = "open"
    BY <1>a, <2>1, <2>2 DEF IInv, NoOrderForgotten
  <2>3. CASE row[q] # "open"
    BY <1>a, <1>b, <2>1, <2>3
  <2>4. QED
    BY <2>2, <2>3
<1>6. OpenIsTimed'
  <2> SUFFICES ASSUME NEW q \in Orders, row'[q] = "open", handler[PerpetualOf[q]] # None,
                      q \notin returned \cup cut
               PROVE  q \in timers'[handler[PerpetualOf[q]]] \cup failed'[handler[PerpetualOf[q]]]
    BY DEF OpenIsTimed, NewOrder
  <2>1. handler[PerpetualOf[q]] \in Matchers
    BY Pairs DEF IInv, TypeOK
  <2>2. CASE row[q] = "open"
    BY <1>a, <2>1, <2>2 DEF IInv, OpenIsTimed
  <2>3. CASE row[q] # "open"
    BY <1>a, <1>b, <2>1, <2>3
  <2>4. QED
    BY <2>2, <2>3
<1>7. OwnOrders'
  BY ServerAssumption
     DEF IInv, TypeOK, NewOrder, OwnOrders, GoroutinesHold, HandlersMade
<1>8. GoroutinesHold'
  BY DEF IInv, TypeOK, NewOrder, Goto, GoroutinesHold
<1>9. ReadIsComplete'
  <2> SUFFICES ASSUME NEW k \in Makers, at'[k] = "set", handler[uses'[k][1]] = None,
                      NEW o \in Orders, PerpetualOf[o] = uses'[k][1], row'[o] = "open"
               PROVE  (o \in book'[uses'[k]] /\ o \in timers'[uses'[k]]) \/ o \in failed'[uses'[k]]
    BY DEF ReadIsComplete, NewOrder
  <2>1. k # g /\ at[k] = "set" /\ uses'[k] = uses[k] /\ uses[k] \in Matchers
    BY DEF IInv, TypeOK, NewOrder, Goto, GoroutinesHold
  <2>2. o # wants[g] /\ row[o] = "open"
    BY <2>1 DEF IInv, TypeOK, NewOrder, GoroutinesHold
  <2>3. (o \in book[uses[k]] /\ o \in timers[uses[k]]) \/ o \in failed[uses[k]]
    BY <2>1, <2>2 DEF IInv, ReadIsComplete
  <2>4. QED
    BY <1>a, <2>1, <2>3
<1>10. AloneHasNoGhosts'
  <2> SUFFICES ASSUME NEW k \in Matchers, Alone(k), NEW q \in book'[k], q \notin failed'[k]
               PROVE  row'[q] \in {"open", "garbled"}
    BY DEF AloneHasNoGhosts, Alone, NewOrder
  <2>1. q \in Orders /\ q \notin failed[k]
    BY <1>2, <1>a DEF TypeOK
  <2>2. CASE q # wants[g]
    <3>1. q \in book[k] /\ row'[q] = row[q]
      BY <1>a, <2>1, <2>2
    <3>2. QED
      BY <2>1, <3>1 DEF IInv, AloneHasNoGhosts
  <2>3. CASE q = wants[g] /\ k = uses[g]
    BY <1>b, <2>1, <2>3 DEF IInv, AloneHasNoGhosts
  <2>4. CASE q = wants[g] /\ k # uses[g]
    <3>1. q \in book[k]
      BY <1>a, <2>4
    <3>2. k[1] = PerpetualOf[wants[g]] /\ PerpetualOf[wants[g]] \in Perpetuals
      BY <3>1, <1>a, <2>4, Pairs DEF IInv, OwnOrders
    <3>3. uses[g] \in made /\ uses[g][1] = k[1] /\ uses[g] # None
      BY <1>a, <3>2, Pairs DEF IInv, HandlersMade
    <3>4. QED
      BY <2>4, <3>3 DEF Alone
  <2>5. QED
    BY <2>2, <2>3, <2>4
<1>11. QED
  BY <1>1, <1>2, <1>3, <1>4, <1>5, <1>6, <1>7, <1>8, <1>9, <1>10 DEF IInv

\* CancelOrder of matcher m with one of its orders, by the timer of any matcher
\* or through the handler; armed is timers[m], or that without o.
LEMMA CancelKeeps ==
  ASSUME IInv, NEW m \in Matchers, NEW o \in Orders, NEW armed \in SUBSET timers[m],
         m \in made, PerpetualOf[o] = m[1],
         timers[m] \ {o} \subseteq armed,
         Cancel(m, o, armed),
         UNCHANGED <<table, accepted, handler, started, made, loop, makerVars, returned, cut, restarts>>
  PROVE  IInv'
<1>1. OneLoop' /\ AcceptedOnce' /\ HandlersMade' /\ GoroutinesHold'
  BY DEF IInv, makerVars, OneLoop, AcceptedOnce, HandlersMade, GoroutinesHold
<1>2. /\ \A k \in Matchers : k # m => book'[k] = book[k] /\ timers'[k] = timers[k]
      /\ book'[m] \subseteq book[m] /\ book[m] \ {o} \subseteq book'[m]
      /\ timers'[m] \subseteq timers[m] /\ timers[m] \ {o} \subseteq timers'[m]
      /\ book' \in [Matchers -> SUBSET Orders] /\ timers' \in [Matchers -> SUBSET Orders]
  BY DEF IInv, TypeOK, Cancel, SetBook, SetTimers
<1>3. /\ row' \in [Orders -> RowStatus]
      /\ \A q \in Orders : q # o => row'[q] = row[q]
      /\ row'[o] = row[o] \/ (row[o] = "open" /\ row'[o] = "closed")
  BY DEF IInv, TypeOK, Cancel, SetRow, RowStatus
<1>4. /\ failed' \in [Matchers -> SUBSET Orders] /\ faults' \in 0..MaxFaults
      /\ \A k \in Matchers : failed[k] \subseteq failed'[k]
  BY ServerAssumption DEF IInv, TypeOK, Cancel, Commits, Fails
<1>5. row'[o] = "open" => o \in failed'[m]
  BY DEF IInv, TypeOK, Cancel, SetRow, ToCancel, Fails
<1>6. row'[o] # row[o] => o \notin book'[m]
  BY DEF IInv, TypeOK, Cancel, SetRow, SetBook
<1>7. TypeOK'
  BY <1>2, <1>3, <1>4 DEF IInv, TypeOK, makerVars
<1>8. RowsAccepted'
  BY <1>3 DEF IInv, RowsAccepted
<1>9. NoOrderForgotten' /\ OpenIsTimed'
  <2> SUFFICES ASSUME NEW q \in Orders, row'[q] = "open", handler[PerpetualOf[q]] # None
               PROVE  /\ q \in book'[handler[PerpetualOf[q]]] \cup failed'[handler[PerpetualOf[q]]]
                      /\ q \notin returned \cup cut =>
                           q \in timers'[handler[PerpetualOf[q]]] \cup failed'[handler[PerpetualOf[q]]]
    BY DEF NoOrderForgotten, OpenIsTimed
  <2>1. row[q] = "open" /\ PerpetualOf[q] \in Perpetuals /\ handler[PerpetualOf[q]] \in Matchers
    BY <1>3, Pairs DEF IInv, TypeOK
  <2>2. /\ q \in book[handler[PerpetualOf[q]]] \cup failed[handler[PerpetualOf[q]]]
        /\ q \notin returned \cup cut =>
             q \in timers[handler[PerpetualOf[q]]] \cup failed[handler[PerpetualOf[q]]]
    BY <2>1 DEF IInv, NoOrderForgotten, OpenIsTimed
  <2>3. QED
    BY <1>2, <1>4, <1>5, <2>1, <2>2
<1>10. OwnOrders'
  BY <1>2 DEF IInv, OwnOrders
<1>11. ReadIsComplete'
  <2> SUFFICES ASSUME NEW g \in Makers, at[g] = "set", handler[uses[g][1]] = None,
                      NEW q \in Orders, PerpetualOf[q] = uses[g][1], row'[q] = "open"
               PROVE  (q \in book'[uses[g]] /\ q \in timers'[uses[g]]) \/ q \in failed'[uses[g]]
    BY DEF ReadIsComplete, makerVars
  <2>1. row[q] = "open" /\ uses[g] \in Matchers
    BY <1>3 DEF IInv, TypeOK, GoroutinesHold
  <2>2. (q \in book[uses[g]] /\ q \in timers[uses[g]]) \/ q \in failed[uses[g]]
    BY <2>1 DEF IInv, ReadIsComplete
  <2>3. QED
    BY <1>2, <1>4, <1>5, <2>1, <2>2
<1>12. AloneHasNoGhosts'
  <2> SUFFICES ASSUME NEW k \in Matchers, Alone(k), NEW q \in book'[k], q \notin failed'[k]
               PROVE  row'[q] \in {"open", "garbled"}
    BY DEF AloneHasNoGhosts, Alone
  <2>1. q \in book[k] /\ q \notin failed[k] /\ q \in Orders
    BY <1>2, <1>4 DEF IInv, TypeOK
  <2>2. row[q] \in {"open", "garbled"} /\ PerpetualOf[q] = k[1]
    BY <2>1 DEF IInv, AloneHasNoGhosts, OwnOrders
  <2>3. CASE q = o
    <3>1. k = m
      BY <2>2, <2>3 DEF Alone
    <3>2. QED
      BY <1>6, <2>2, <2>3, <3>1
  <2>4. CASE q # o
    BY <1>3, <2>1, <2>2, <2>4
  <2>5. QED
    BY <2>3, <2>4
<1>13. QED
  BY <1>1, <1>7, <1>8, <1>9, <1>10, <1>11, <1>12 DEF IInv

\* A timer may belong to a matcher that lost the race.
LEMMA OnOrderExpiredKeeps ==
  ASSUME IInv, NEW m \in Matchers, NEW o \in Orders, onOrderExpired(m, o)
  PROVE  IInv'
<1>1. m \in made /\ PerpetualOf[o] = m[1]
  BY DEF IInv, OwnOrders, onOrderExpired
<1> DEFINE armed == timers[m] \ {o}
<1>2. armed \in SUBSET timers[m] /\ timers[m] \ {o} \subseteq armed
  OBVIOUS
<1>3. Cancel(m, o, armed)
  BY DEF onOrderExpired
<1>4. UNCHANGED <<table, accepted, handler, started, made, loop, makerVars, returned, cut, restarts>>
  BY DEF onOrderExpired
<1> HIDE DEF armed
<1>5. QED
  BY <1>1, <1>2, <1>3, <1>4, CancelKeeps

LEMMA HandlerServes ==
  ASSUME IInv, NEW o \in Orders, handler[PerpetualOf[o]] # None
  PROVE  /\ handler[PerpetualOf[o]] \in Matchers /\ handler[PerpetualOf[o]] \in made
         /\ PerpetualOf[o] = handler[PerpetualOf[o]][1]
BY Pairs DEF IInv, TypeOK, HandlersMade

LEMMA CancelOrderKeeps ==
  ASSUME IInv, NEW o \in Orders, CancelOrder(o)
  PROVE  IInv'
<1> DEFINE m == handler[PerpetualOf[o]]
<1>1. m \in Matchers /\ m \in made /\ PerpetualOf[o] = m[1]
  BY HandlerServes DEF CancelOrder, getMatchHandler
<1>2. Cancel(m, o, timers[m])
  BY DEF CancelOrder, getMatchHandler
<1>3. UNCHANGED <<table, accepted, handler, started, made, loop, makerVars, returned, cut, restarts>>
  BY DEF CancelOrder
<1> HIDE DEF m
<1>4. QED
  BY <1>1, <1>2, <1>3, CancelKeeps

LEMMA CancelPartKeeps ==
  ASSUME IInv, NEW o \in Orders, CancelPart(o)
  PROVE  IInv'
<1> DEFINE m == handler[PerpetualOf[o]]
<1>1. m \in Matchers /\ m \in made /\ PerpetualOf[o] = m[1]
  BY HandlerServes DEF CancelPart, getMatchHandler
<1>2. OneLoop' /\ AcceptedOnce' /\ HandlersMade' /\ GoroutinesHold'
  BY DEF IInv, CancelPart, makerVars, OneLoop, AcceptedOnce, HandlersMade, GoroutinesHold
<1>3. /\ \A k \in Matchers : k # m => timers'[k] = timers[k]
      /\ timers'[m] \subseteq timers[m] /\ timers[m] \ {o} \subseteq timers'[m]
      /\ timers' \in [Matchers -> SUBSET Orders]
  BY <1>1 DEF IInv, TypeOK, CancelPart, getMatchHandler, SetTimers
<1>4. /\ row' \in [Orders -> RowStatus]
      /\ \A q \in Orders : q # o => row'[q] = row[q]
      /\ row[o] = "open" /\ row'[o] \in {"open", "garbled"}
  BY DEF IInv, TypeOK, CancelPart, SetRow, RowStatus
<1>5. /\ failed' \in [Matchers -> SUBSET Orders] /\ faults' \in 0..MaxFaults
      /\ \A k \in Matchers : failed[k] \subseteq failed'[k]
      /\ cut \subseteq cut' /\ cut' \subseteq Orders
      /\ row'[o] = "open" => o \in cut'
  BY <1>1, ServerAssumption
     DEF IInv, TypeOK, CancelPart, getMatchHandler, SetRow, Commits, Fails
<1>6. TypeOK'
  BY <1>3, <1>4, <1>5 DEF IInv, TypeOK, CancelPart, makerVars
<1>7. RowsAccepted'
  BY <1>4 DEF IInv, CancelPart, RowsAccepted
<1>8. NoOrderForgotten'
  BY <1>4, <1>5, Pairs DEF IInv, TypeOK, CancelPart, NoOrderForgotten
<1>9. OpenIsTimed'
  <2> SUFFICES ASSUME NEW q \in Orders, row'[q] = "open", handler[PerpetualOf[q]] # None,
                      q \notin returned \cup cut'
               PROVE  q \in timers'[handler[PerpetualOf[q]]] \cup failed'[handler[PerpetualOf[q]]]
    BY DEF OpenIsTimed, CancelPart
  <2>1. q # o /\ row[q] = "open" /\ handler[PerpetualOf[q]] \in Matchers
    BY <1>4, <1>5, Pairs DEF IInv, TypeOK
  <2>2. q \in timers[handler[PerpetualOf[q]]] \cup failed[handler[PerpetualOf[q]]]
    BY <1>5, <2>1 DEF IInv, OpenIsTimed
  <2>3. QED
    BY <1>3, <1>5, <2>1, <2>2
<1>10. OwnOrders'
  BY <1>3 DEF IInv, CancelPart, OwnOrders
<1>11. ReadIsComplete'
  BY <1>1, <1>3, <1>4, <1>5
     DEF IInv, TypeOK, CancelPart, getMatchHandler, ReadIsComplete, GoroutinesHold, makerVars
<1>12. AloneHasNoGhosts'
  BY <1>4, <1>5 DEF IInv, TypeOK, CancelPart, AloneHasNoGhosts, Alone
<1>13. QED
  BY <1>2, <1>6, <1>7, <1>8, <1>9, <1>10, <1>11, <1>12 DEF IInv

\* A step of the registered matcher m that leaves the timers alone: the row of
\* one order and its entry in the book change, and whatever leaves them apart is
\* a failed transaction or garbled.
LEMMA EntryKeeps ==
  ASSUME IInv, NEW m \in Matchers, NEW o \in Orders,
         m \in made, PerpetualOf[o] = m[1], handler[PerpetualOf[o]] = m,
         row[o] # "none",
         row' \in [Orders -> RowStatus], \A q \in Orders : q # o => row'[q] = row[q],
         row'[o] # "none",
         book' \in [Matchers -> SUBSET Orders],
         \A k \in Matchers : k # m => book'[k] = book[k],
         book'[m] \ {o} = book[m] \ {o},
         failed' \in [Matchers -> SUBSET Orders], faults' \in 0..MaxFaults,
         \A k \in Matchers : failed[k] \subseteq failed'[k],
         returned' \subseteq Orders, returned \subseteq returned',
         row'[o] = "open" => o \in book'[m] \cup failed'[m],
         row'[o] = "open" => row[o] = "open" \/ o \in returned',
         o \in book'[m] =>
           \/ o \in failed'[m] \/ row'[o] \in {"open", "garbled"}
           \/ o \in book[m] /\ row[o] \notin {"open", "garbled"},
         UNCHANGED <<table, accepted, handler, started, made, timers, loop, makerVars, cut, restarts>>
  PROVE  IInv'
<1>1. OneLoop' /\ AcceptedOnce' /\ HandlersMade' /\ GoroutinesHold'
  BY DEF IInv, makerVars, OneLoop, AcceptedOnce, HandlersMade, GoroutinesHold
<1>2. TypeOK'
  BY DEF IInv, TypeOK, makerVars
<1>3. RowsAccepted'
  BY DEF IInv, RowsAccepted
<1>4. NoOrderForgotten'
  <2> SUFFICES ASSUME NEW q \in Orders, row'[q] = "open", handler[PerpetualOf[q]] # None
               PROVE  q \in book'[handler[PerpetualOf[q]]] \cup failed'[handler[PerpetualOf[q]]]
    BY DEF NoOrderForgotten
  <2>1. CASE q = o
    BY <2>1
  <2>2. CASE q # o
    <3>1. handler[PerpetualOf[q]] \in Matchers
      BY Pairs DEF IInv, TypeOK
    <3>2. q \in book[handler[PerpetualOf[q]]] \cup failed[handler[PerpetualOf[q]]]
      BY <2>2 DEF IInv, NoOrderForgotten
    <3>3. QED
      BY <2>2, <3>1, <3>2
  <2>3. QED
    BY <2>1, <2>2
<1>5. OpenIsTimed'
  <2> SUFFICES ASSUME NEW q \in Orders, row'[q] = "open", handler[PerpetualOf[q]] # None,
                      q \notin returned' \cup cut
               PROVE  q \in timers[handler[PerpetualOf[q]]] \cup failed'[handler[PerpetualOf[q]]]
    BY DEF OpenIsTimed
  <2>1. row[q] = "open" /\ q \notin returned \cup cut /\ handler[PerpetualOf[q]] \in Matchers
    BY Pairs DEF IInv, TypeOK
  <2>2. q \in timers[handler[PerpetualOf[q]]] \cup failed[handler[PerpetualOf[q]]]
    BY <2>1 DEF IInv, OpenIsTimed
  <2>3. QED
    BY <2>1, <2>2
<1>6. OwnOrders'
  BY DEF IInv, OwnOrders
<1>7. ReadIsComplete'
  <2> SUFFICES ASSUME NEW g \in Makers, at[g] = "set", handler[uses[g][1]] = None,
                      NEW q \in Orders, PerpetualOf[q] = uses[g][1], row'[q] = "open"
               PROVE  (q \in book'[uses[g]] /\ q \in timers[uses[g]]) \/ q \in failed'[uses[g]]
    BY DEF ReadIsComplete, makerVars
  <2>1. q # o /\ uses[g] # m /\ uses[g] \in Matchers
    BY Pairs DEF IInv, TypeOK, GoroutinesHold
  <2>2. (q \in book[uses[g]] /\ q \in timers[uses[g]]) \/ q \in failed[uses[g]]
    BY <2>1 DEF IInv, ReadIsComplete
  <2>3. QED
    BY <2>1, <2>2
<1>8. AloneHasNoGhosts'
  <2> SUFFICES ASSUME NEW k \in Matchers, Alone(k), NEW q \in book'[k], q \notin failed'[k]
               PROVE  row'[q] \in {"open", "garbled"}
    BY DEF AloneHasNoGhosts, Alone
  <2>1. q \notin failed[k] /\ q \in Orders
    OBVIOUS
  <2>2. CASE k = m /\ q = o
    BY <2>1, <2>2 DEF IInv, AloneHasNoGhosts
  <2>3. CASE k # m /\ q = o
    <3>1. o \in book[k]
      BY <2>3
    <3>2. k[1] = m[1]
      BY <3>1 DEF IInv, OwnOrders
    <3>3. QED
      BY <2>3, <3>2 DEF Alone
  <2>4. CASE q # o
    BY <2>1, <2>4 DEF IInv, AloneHasNoGhosts
  <2>5. QED
    BY <2>2, <2>3, <2>4
<1>9. QED
  BY <1>1, <1>2, <1>3, <1>4, <1>5, <1>6, <1>7, <1>8 DEF IInv

\* Only a registered matcher has a loop.
LEMMA MatchOrderKeeps ==
  ASSUME IInv, NEW m \in Matchers, NEW o \in Orders, MatchOrder(m, o)
  PROVE  IInv'
<1>1. m \in made /\ PerpetualOf[o] = m[1] /\ handler[PerpetualOf[o]] = m
  BY DEF IInv, TypeOK, OneLoop, OwnOrders, MatchOrder
<1>2. /\ row' \in [Orders -> RowStatus] /\ \A q \in Orders : q # o => row'[q] = row[q]
      /\ row[o] # "none" /\ row'[o] # "none"
      /\ row'[o] \in {row[o], "matched", "garbled"}
  BY DEF IInv, TypeOK, MatchOrder, SetRow, RowStatus
<1>3. /\ book' \in [Matchers -> SUBSET Orders]
      /\ \A k \in Matchers : k # m => book'[k] = book[k]
      /\ book'[m] \ {o} = book[m] \ {o}
      /\ o \in book'[m] => row[o] = "garbled"
  BY DEF IInv, TypeOK, MatchOrder, SetBook
<1>4. /\ failed' \in [Matchers -> SUBSET Orders] /\ faults' \in 0..MaxFaults
      /\ \A k \in Matchers : failed[k] \subseteq failed'[k]
  BY ServerAssumption DEF IInv, TypeOK, MatchOrder, Commits, Fails
<1>5. row'[o] = "open" => o \in failed'[m] /\ row[o] = "open"
  BY DEF IInv, TypeOK, MatchOrder, SetRow, Fails
<1>6. row[o] = "garbled" => row'[o] = "garbled"
  BY DEF IInv, TypeOK, MatchOrder, SetRow
<1>7. returned' \subseteq Orders /\ returned \subseteq returned'
  BY DEF IInv, TypeOK, MatchOrder
<1>8. UNCHANGED <<table, accepted, handler, started, made, timers, loop, makerVars, cut, restarts>>
  BY DEF MatchOrder
<1>9. QED
  BY <1>1, <1>2, <1>3, <1>4, <1>5, <1>6, <1>7, <1>8, EntryKeeps

\* What PutBack does to the row and the entry of an order that is not open.
LEMMA PutBackDoes ==
  ASSUME IInv, NEW m \in Matchers, NEW o \in Orders, PutBack(m, o),
         row[o] \in {"matched", "settled"}
  PROVE  /\ row' \in [Orders -> RowStatus] /\ \A q \in Orders : q # o => row'[q] = row[q]
         /\ row'[o] # "none"
         /\ book' \in [Matchers -> SUBSET Orders]
         /\ \A k \in Matchers : k # m => book'[k] = book[k]
         /\ book'[m] \ {o} = book[m] \ {o} /\ o \in book'[m]
         /\ failed' \in [Matchers -> SUBSET Orders] /\ faults' \in 0..MaxFaults
         /\ \A k \in Matchers : failed[k] \subseteq failed'[k]
         /\ returned' \subseteq Orders /\ returned \subseteq returned'
         /\ row'[o] = "open" => o \in returned'
         /\ o \in failed'[m] \/ row'[o] = "open"
<1>1. /\ book' \in [Matchers -> SUBSET Orders]
      /\ \A k \in Matchers : k # m => book'[k] = book[k]
      /\ book'[m] \ {o} = book[m] \ {o} /\ o \in book'[m]
  BY DEF IInv, TypeOK, PutBack, SetBook
<1>2. CASE Commits /\ SetRow(o, "open") /\ returned' = returned \cup {o}
  BY <1>1, <1>2 DEF IInv, TypeOK, Commits, SetRow, RowStatus
<1>3. CASE Fails(m, o) /\ UNCHANGED <<row, returned>>
  BY <1>1, <1>3, ServerAssumption DEF IInv, TypeOK, Fails
<1>4. QED
  BY <1>2, <1>3 DEF PutBack

\* The same for a garbled order.
LEMMA AnyEntryDoes ==
  ASSUME IInv, NEW m \in Matchers, NEW o \in Orders, AnyEntry(m, o)
  PROVE  /\ row' \in [Orders -> RowStatus] /\ \A q \in Orders : q # o => row'[q] = row[q]
         /\ row[o] = "garbled" /\ row'[o] = "garbled"
         /\ book' \in [Matchers -> SUBSET Orders]
         /\ \A k \in Matchers : k # m => book'[k] = book[k]
         /\ book'[m] \ {o} = book[m] \ {o}
         /\ failed' \in [Matchers -> SUBSET Orders] /\ faults' \in 0..MaxFaults
         /\ \A k \in Matchers : failed[k] \subseteq failed'[k]
         /\ returned' \subseteq Orders /\ returned \subseteq returned'
BY DEF IInv, TypeOK, AnyEntry, SetBook, Commits

LEMMA SettleKeeps ==
  ASSUME IInv, NEW o \in Orders, Settle(o)
  PROVE  IInv'
<1> DEFINE m == handler[PerpetualOf[o]]
<1>1. m \in Matchers /\ m \in made /\ PerpetualOf[o] = m[1] /\ handler[PerpetualOf[o]] = m
  BY HandlerServes DEF Settle, getMatchHandler
<1>2. UNCHANGED <<table, accepted, handler, started, made, timers, loop, makerVars, cut, restarts>>
  BY DEF Settle
<1>3. \/ row[o] = "matched" /\ SetRow(o, "settled") /\ Commits /\ UNCHANGED <<book, returned>>
      \/ row[o] = "matched" /\ PutBack(m, o)
      \/ AnyEntry(m, o)
  BY DEF Settle, getMatchHandler
<1> HIDE DEF m
<1>4. CASE row[o] = "matched" /\ SetRow(o, "settled") /\ Commits /\ UNCHANGED <<book, returned>>
  <2>1. /\ row' \in [Orders -> RowStatus] /\ \A q \in Orders : q # o => row'[q] = row[q]
        /\ row'[o] = "settled"
    BY <1>4 DEF IInv, TypeOK, SetRow, RowStatus
  <2>2. /\ book' = book /\ returned' = returned /\ failed' = failed /\ faults' = faults
        /\ book \in [Matchers -> SUBSET Orders] /\ failed \in [Matchers -> SUBSET Orders]
        /\ returned \subseteq Orders /\ faults \in 0..MaxFaults
    BY <1>4 DEF IInv, TypeOK, Commits
  <2>3. QED
    BY <1>1, <1>2, <1>4, <2>1, <2>2, EntryKeeps
<1>5. CASE row[o] = "matched" /\ PutBack(m, o)
  BY <1>1, <1>2, <1>5, PutBackDoes, EntryKeeps
<1>6. CASE AnyEntry(m, o)
  BY <1>1, <1>2, <1>6, AnyEntryDoes, EntryKeeps
<1>7. QED
  BY <1>3, <1>4, <1>5, <1>6

LEMMA SettleAgainKeeps ==
  ASSUME IInv, NEW o \in Orders, SettleAgain(o)
  PROVE  IInv'
<1> DEFINE m == handler[PerpetualOf[o]]
<1>1. m \in Matchers /\ m \in made /\ PerpetualOf[o] = m[1] /\ handler[PerpetualOf[o]] = m
  BY HandlerServes DEF SettleAgain, getMatchHandler
<1>2. UNCHANGED <<table, accepted, handler, started, made, timers, loop, makerVars, returned, cut, failed, restarts>>
  BY DEF SettleAgain
<1>3. /\ row' \in [Orders -> RowStatus] /\ \A q \in Orders : q # o => row'[q] = row[q]
      /\ row'[o] = "garbled"
  BY DEF IInv, TypeOK, SettleAgain, SetRow, RowStatus
<1>4. /\ book' \in [Matchers -> SUBSET Orders]
      /\ \A k \in Matchers : k # m => book'[k] = book[k]
      /\ book'[m] \ {o} = book[m] \ {o}
  BY <1>1 DEF IInv, TypeOK, SettleAgain, getMatchHandler, SetBook
<1>5. /\ failed \in [Matchers -> SUBSET Orders] /\ faults' \in 0..MaxFaults
      /\ returned \subseteq Orders
  BY ServerAssumption DEF IInv, TypeOK, SettleAgain
<1> HIDE DEF m
<1>6. row[o] # "none"
  BY DEF SettleAgain
<1>7. QED
  BY <1>1, <1>2, <1>3, <1>4, <1>5, <1>6, EntryKeeps

LEMMA RecheckKeeps ==
  ASSUME IInv, NEW o \in Orders, Recheck(o)
  PROVE  IInv'
<1> DEFINE m == handler[PerpetualOf[o]]
<1>1. m \in Matchers /\ m \in made /\ PerpetualOf[o] = m[1] /\ handler[PerpetualOf[o]] = m
  BY HandlerServes DEF Recheck, getMatchHandler
<1>2. UNCHANGED <<table, accepted, handler, started, made, timers, loop, makerVars, cut, restarts>>
  BY DEF Recheck
<1>3. \/ row[o] = "settled" /\ PutBack(m, o)
      \/ /\ row[o] = "open" /\ SetBook(m, book[m] \ {o}) /\ UNCHANGED returned
         /\ \/ Commits /\ SetRow(o, "settled")
            \/ Fails(m, o) /\ UNCHANGED row
      \/ AnyEntry(m, o)
  BY DEF Recheck, getMatchHandler
<1> HIDE DEF m
<1>4. CASE row[o] = "settled" /\ PutBack(m, o)
  BY <1>1, <1>2, <1>4, PutBackDoes, EntryKeeps
<1>5. CASE /\ row[o] = "open" /\ SetBook(m, book[m] \ {o}) /\ UNCHANGED returned
           /\ \/ Commits /\ SetRow(o, "settled")
              \/ Fails(m, o) /\ UNCHANGED row
  <2>1. /\ row' \in [Orders -> RowStatus] /\ \A q \in Orders : q # o => row'[q] = row[q]
        /\ row'[o] \in {"open", "settled"}
    BY <1>5 DEF IInv, TypeOK, SetRow, RowStatus
  <2>2. /\ book' \in [Matchers -> SUBSET Orders]
        /\ \A k \in Matchers : k # m => book'[k] = book[k]
        /\ book'[m] \ {o} = book[m] \ {o} /\ o \notin book'[m]
    BY <1>1, <1>5 DEF IInv, TypeOK, SetBook
  <2>3. /\ failed' \in [Matchers -> SUBSET Orders] /\ faults' \in 0..MaxFaults
        /\ \A k \in Matchers : failed[k] \subseteq failed'[k]
        /\ row'[o] = "open" => o \in failed'[m]
        /\ returned' = returned /\ returned \subseteq Orders
    BY <1>1, <1>5, ServerAssumption DEF IInv, TypeOK, Commits, Fails, SetRow
  <2>4. QED
    BY <1>1, <1>2, <1>5, <2>1, <2>2, <2>3, EntryKeeps
<1>6. CASE AnyEntry(m, o)
  BY <1>1, <1>2, <1>6, AnyEntryDoes, EntryKeeps
<1>7. QED
  BY <1>3, <1>4, <1>5, <1>6

LEMMA RestartKeeps ==
  ASSUME IInv, Restart
  PROVE  IInv'
<1>1. AcceptedOnce' /\ RowsAccepted'
  BY DEF IInv, Restart, AcceptedOnce, RowsAccepted
<1>2. TypeOK'
  <2>1. restarts' \in 0..MaxRestarts
    BY ServerAssumption DEF IInv, TypeOK, Restart
  <2>2. handler' \in [Perpetuals -> Matchers \cup {None}] /\ book' \in [Matchers -> SUBSET Orders]
        /\ timers' \in [Matchers -> SUBSET Orders]
    BY DEF Restart
  <2>3. at' \in [Makers -> {"idle", "make", "set", "insert"}]
        /\ wants' \in [Makers -> Orders \cup {None}] /\ uses' \in [Makers -> Matchers \cup {None}]
    BY DEF Restart
  <2>4. QED
    BY <2>1 DEF IInv, TypeOK, Restart
<1>3. OneLoop'
  BY DEF Restart, OneLoop
<1>4. NoOrderForgotten'
  BY ServerAssumption DEF Restart, NoOrderForgotten
<1>5. OpenIsTimed'
  BY ServerAssumption DEF Restart, OpenIsTimed
<1>6. OwnOrders'
  BY DEF Restart, OwnOrders
<1>7. HandlersMade'
  BY DEF Restart, HandlersMade
<1>8. GoroutinesHold'
  BY Pairs DEF Restart, GoroutinesHold
<1>9. ReadIsComplete'
  BY DEF Restart, ReadIsComplete
<1>10. AloneHasNoGhosts'
  BY DEF Restart, AloneHasNoGhosts
<1>11. QED
  BY <1>1, <1>2, <1>3, <1>4, <1>5, <1>6, <1>7, <1>8, <1>9, <1>10 DEF IInv

LEMMA StartStepKeeps ==
  ASSUME IInv, StartStep
  PROVE  IInv'
<1>1. CASE Start
  <2>1. TypeOK'
    BY <1>1 DEF IInv, TypeOK, Start, QueryPerpetuals, matcherVars, history
  <2>2. QED
    BY <1>1, <2>1
       DEF IInv, Start, matcherVars, history, OneLoop, AcceptedOnce, RowsAccepted,
       NoOrderForgotten, OpenIsTimed, OwnOrders, HandlersMade,
       GoroutinesHold, ReadIsComplete, AloneHasNoGhosts, Alone
<1>2. ASSUME NEW p \in Perpetuals, StartMatcher(p)
      PROVE  IInv'
  <2>1. CASE newMatch(Starter, p)
    BY <1>2, <2>1, NewMatchKeeps, Pairs DEF StartMatcher
  <2>2. CASE UNCHANGED <<made, book, timers, uses, at>>
    <3>1. TypeOK'
      BY <1>2, <2>2 DEF IInv, TypeOK, StartMatcher, history
    <3>2. QED
      BY <1>2, <2>2, <3>1
         DEF IInv, StartMatcher, history, OneLoop, AcceptedOnce, RowsAccepted,
         NoOrderForgotten, OpenIsTimed, OwnOrders, HandlersMade,
         GoroutinesHold, ReadIsComplete, AloneHasNoGhosts, Alone
  <2>3. QED
    BY <1>2, <2>1, <2>2 DEF StartMatcher
<1>3. CASE StartRegister
  BY <1>3, SetMatchHandlerKeeps, Pairs DEF StartRegister, Goto
<1>4. QED
  BY <1>1, <1>2, <1>3 DEF StartStep

LEMMA RequestStepKeeps ==
  ASSUME IInv, NEW g \in Requests, RequestStep(g)
  PROVE  IInv'
<1>1. CASE MakeMatcher(g) /\ newMatch(g, PerpetualOf[wants[g]]) /\ UNCHANGED wants
  <2>1. wants[g] \in Orders
    BY <1>1 DEF IInv, GoroutinesHold, MakeMatcher
  <2>2. QED
    BY <1>1, <2>1, NewMatchKeeps, Pairs DEF MakeMatcher
<1>2. CASE /\ MakeMatcher(g)
           /\ Goto(g, "idle") /\ wants' = [wants EXCEPT ![g] = None]
           /\ UNCHANGED <<made, book, timers, uses>>
  <2>1. /\ Goto(g, "idle") /\ wants' = [wants EXCEPT ![g] = None]
        /\ UNCHANGED <<table, row, accepted, handler, started, matcherVars, uses, toStart, history>>
    BY <1>2 DEF MakeMatcher, matcherVars, history
  <2>2. /\ OneLoop' /\ AcceptedOnce' /\ RowsAccepted' /\ NoOrderForgotten'
        /\ OpenIsTimed' /\ OwnOrders' /\ HandlersMade' /\ AloneHasNoGhosts'
    BY <2>1
       DEF IInv, matcherVars, history, OneLoop, AcceptedOnce, RowsAccepted,
       NoOrderForgotten, OpenIsTimed, OwnOrders, HandlersMade,
       AloneHasNoGhosts, Alone
  <2>3. TypeOK'
    BY <2>1 DEF IInv, TypeOK, matcherVars, history, Goto
  <2>4. GoroutinesHold' /\ ReadIsComplete'
    BY <2>1
       DEF IInv, TypeOK, matcherVars, history, Goto, GoroutinesHold, ReadIsComplete
  <2>5. QED
    BY <2>2, <2>3, <2>4 DEF IInv
<1>3. CASE Register(g)
  BY <1>3, SetMatchHandlerKeeps, Pairs DEF Register, Goto
<1>4. CASE NewOrder(g)
  BY <1>4, NewOrderKeeps
<1>5. ASSUME NEW o \in Orders, PlaceOrder(g, o)
      PROVE  IInv'
  BY <1>5, PlaceOrderKeeps
<1>6. QED
  BY <1>1, <1>2, <1>3, <1>4, <1>5 DEF RequestStep, MakeMatcher

LEMMA CreatePerpetualKeeps ==
  ASSUME IInv, NEW p \in Perpetuals, CreatePerpetual(p)
  PROVE  IInv'
<1>1. TypeOK'
  BY DEF IInv, TypeOK, CreatePerpetual, matcherVars, history, makerVars
<1>2. QED
  BY <1>1
     DEF IInv, CreatePerpetual, matcherVars, makerVars, history, OneLoop,
     AcceptedOnce, RowsAccepted, NoOrderForgotten, OpenIsTimed, OwnOrders,
     HandlersMade, GoroutinesHold, ReadIsComplete, AloneHasNoGhosts, Alone

LEMMA StutterKeeps ==
  ASSUME IInv, UNCHANGED vars
  PROVE  IInv'
BY DEF vars, IInv, TypeOK, matcherVars, makerVars, history, OneLoop, AcceptedOnce,
   RowsAccepted, NoOrderForgotten, OpenIsTimed, OwnOrders, HandlersMade,
   GoroutinesHold, ReadIsComplete, AloneHasNoGhosts, Alone

LEMMA InitIInv == Init => IInv
<1> SUFFICES ASSUME Init PROVE IInv
  OBVIOUS
<1>1. TypeOK
  <2>1. restarts \in 0..MaxRestarts /\ faults \in 0..MaxFaults
    BY ServerAssumption DEF Init
  <2>2. row \in [Orders -> RowStatus] /\ accepted \in [Orders -> Nat]
    BY DEF Init, RowStatus
  <2>3. handler \in [Perpetuals -> Matchers \cup {None}] /\ book \in [Matchers -> SUBSET Orders]
        /\ timers \in [Matchers -> SUBSET Orders]
    BY DEF Init
  <2>4. at \in [Makers -> {"idle", "make", "set", "insert"}]
        /\ wants \in [Makers -> Orders \cup {None}] /\ uses \in [Makers -> Matchers \cup {None}]
    BY DEF Init
  <2>5. failed \in [Matchers -> SUBSET Orders]
    BY DEF Init
  <2>6. QED
    BY <2>1, <2>2, <2>3, <2>4, <2>5 DEF Init, TypeOK
<1>2. OneLoop /\ AcceptedOnce /\ RowsAccepted /\ NoOrderForgotten /\ OpenIsTimed
  BY DEF Init, OneLoop, AcceptedOnce, RowsAccepted, NoOrderForgotten,
     OpenIsTimed
<1>3. OwnOrders /\ HandlersMade /\ GoroutinesHold /\ ReadIsComplete /\ AloneHasNoGhosts
  BY Pairs
     DEF Init, OwnOrders, HandlersMade, GoroutinesHold, ReadIsComplete,
     AloneHasNoGhosts
<1>4. QED
  BY <1>1, <1>2, <1>3 DEF IInv

\* IInv is inductive.
THEOREM InductiveInvariant == Spec => []IInv
<1>1. IInv /\ [Next]_vars => IInv'
  <2> SUFFICES ASSUME IInv, [Next]_vars PROVE IInv'
    OBVIOUS
  <2>1. CASE StartStep
    BY <2>1, StartStepKeeps
  <2>2. ASSUME NEW g \in Requests, RequestStep(g) PROVE IInv'
    BY <2>2, RequestStepKeeps
  <2>3. ASSUME NEW m \in Matchers, MatcherStep(m) PROVE IInv'
    BY <2>3, OnOrderExpiredKeeps, MatchOrderKeeps DEF MatcherStep
  <2>4. ASSUME NEW o \in Orders, OrderStep(o) PROVE IInv'
    BY <2>4, CancelOrderKeeps, CancelPartKeeps, SettleKeeps, SettleAgainKeeps, RecheckKeeps
       DEF OrderStep
  <2>5. ASSUME NEW p \in Perpetuals, CreatePerpetual(p) PROVE IInv'
    BY <2>5, CreatePerpetualKeeps
  <2>6. CASE Restart
    BY <2>6, RestartKeeps
  <2>7. CASE UNCHANGED vars
    BY <2>7, StutterKeeps
  <2>8. QED
    BY <2>1, <2>2, <2>3, <2>4, <2>5, <2>6, <2>7 DEF Next
<1>2. QED
  BY InitIInv, <1>1, PTL DEF Spec

\* The types; Start serves perpetuals of the table only, and RunMatch runs for
\* matchers in memory only.
THEOREM TypeCorrect == Spec => []TypeOK
<1>1. IInv => TypeOK
  BY DEF IInv
<1>2. QED
  BY InductiveInvariant, <1>1, PTL

\* However Server.Start, first orders, settlements and restarts interleave, an
\* open order is in the book of the registered matcher: newMatch reads the
\* orders table long before setMatchHandler, and what it read is still complete.
\* Only a failed transaction of that matcher takes an open order out of it.
THEOREM OpenOrdersInBook == Spec => []NoOrderForgotten
<1>1. IInv => NoOrderForgotten
  BY DEF IInv
<1>2. QED
  BY InductiveInvariant, <1>1, PTL

\* The same for the timers: an open order has its timer unless a settlement put
\* it back, the monitor cut it or a transaction of the matcher failed for it.
THEOREM OpenOrdersTimed == Spec => []OpenIsTimed
<1>1. IInv => OpenIsTimed
  BY DEF IInv
<1>2. QED
  BY InductiveInvariant, <1>1, PTL

\* A book serves an order that is no longer open only if newMatch ran twice for
\* the perpetual and setMatchHandler refused one of the two matchers, if a
\* transaction of the matcher failed for that order, or if the amounts of the
\* order are garbled.
THEOREM GhostsCaused == Spec => []GhostsHaveACause
<1>1. IInv => GhostsHaveACause
  <2> SUFFICES ASSUME IInv, NEW p \in Perpetuals, handler[p] # None, ~Stray(p)
               PROVE  \A o \in book[handler[p]] \ failed[handler[p]] : row[o] \in {"open", "garbled"}
    BY DEF GhostsHaveACause
  <2>1. handler[p] \in Matchers /\ handler[p] \in made /\ handler[p][1] = p
    BY DEF IInv, TypeOK, HandlersMade
  <2>2. Alone(handler[p])
    BY <2>1 DEF Stray, Alone
  <2>3. QED
    BY <2>1, <2>2 DEF IInv, AloneHasNoGhosts
<1>2. QED
  BY InductiveInvariant, <1>1, PTL

\* setMatchHandler lets one RunMatch loop run for a perpetual.
THEOREM OneLoopPerPerpetual == Spec => []OneLoop
<1>1. IInv => OneLoop
  BY DEF IInv
<1>2. QED
  BY InductiveInvariant, <1>1, PTL

\* PlaceOrder accepts an order hash once, with any number of requests for it in
\* progress and across restarts.
THEOREM HashAcceptedOnce == Spec => []AcceptedOnce
<1>1. IInv => AcceptedOnce
  BY DEF IInv
<1>2. QED
  BY InductiveInvariant, <1>1, PTL
=============================================================================
