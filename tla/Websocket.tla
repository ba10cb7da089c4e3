----------------------------- MODULE Websocket -----------------------------
(***************************************************************************)
(* The websocket server (src/websocket): the matchers put order changes on *)
(* wsChan, one consumer goroutine hands each to the channel of its account,*)
(* one goroutine per channel copies it to the msgChan of every subscriber, *)
(* and per client one goroutine writes msgChan to the connection while     *)
(* another reads its requests.  wsChan and msgChan are bounded, the        *)
(* channels' own Go channels are unbuffered, and allChannels is guarded by *)
(* a RWMutex whose waiting writer keeps new readers out.                   *)
(***************************************************************************)
EXTENDS Naturals, Sequences, FiniteSets

CONSTANTS Clients,      \* connections, each with a uuid of its own
          Accounts,     \* trader addresses; the channel IDs are "TraderAddress#account"
          Consumer,     \* the goroutine of startConsumer
          None,
          WsCap,        \* capacity of wsChan (100 in main.go)
          MsgCap,       \* capacity of msgChan (100 in NewClient)
          MaxChanges,   \* bound: order changes published for an account
          MaxRequests   \* bound: requests each client sends

ASSUME WebsocketAssumption ==
    /\ Consumer \notin Clients
    /\ None \notin Clients \cup Accounts
    /\ None \notin Accounts \X (Clients \cup {Consumer})
    /\ None \notin [account : Accounts, n : 1..MaxChanges]
    /\ {WsCap, MsgCap, MaxChanges} \subseteq Nat \ {0}
    /\ MaxRequests \in [Clients -> Nat]

Actors == Clients \cup {Consumer}

\* A channel object.  An actor makes at most one for an account: once it has
\* saved it, findChannel finds one.
Channels == Accounts \X Actors

\* WebSocketMessage with the number of the order change it carries; Reply
\* stands for pong, login and subscribeError answers.
Change == [account : Accounts, n : 1..MaxChanges]
Reply == [account |-> None, n |-> 0]

VARIABLES
    published,    \* per account: order changes published so far
    pending,      \* the change a matcher is sending with its mutex held, or None
    wsChan,
    held,         \* the message the consumer is handing on, or None
    allChannels,  \* per account: the registered channel, or None
    members,      \* Channel.Clients
    sending,      \* clients handleMessage has still to send to
    current,      \* the message handleMessage is sending
    at,           \* where an actor is in its code
    want,         \* the account it is looking a channel up for
    using,        \* the channel it found or made
    todo,         \* accounts left of the client's request
    request,      \* the type of that request
    left,         \* requests the client may still send
    login,        \* Client.LoginAddresses
    msgChan, closed,   \* Client.msgChan and whether it is closed
    open,         \* the connection can be read and written
    sender        \* runSendMsg is running

chanVars == <<allChannels, members, sending, current>>
actorVars == <<at, want, using>>
clientVars == <<todo, request, left, login>>
connVars == <<msgChan, closed, open, sender>>
pubVars == <<published, pending, wsChan, held>>
vars == <<pubVars, chanVars, actorVars, clientVars, connVars>>

\* New, createBaseChannel and, for each connection, connectHandler and NewClient.
Init ==
    /\ published = [a \in Accounts |-> 0]
    /\ pending = None
    /\ wsChan = <<>>
    /\ held = None
    /\ allChannels = [a \in Accounts |-> None]
    /\ members = [h \in Channels |-> {}]
    /\ sending = [h \in Channels |-> {}]
    /\ current = [h \in Channels |-> None]
    /\ at = [p \in Actors |-> IF p = Consumer THEN "receive" ELSE "read"]
    /\ want = [p \in Actors |-> None]
    /\ using = [p \in Actors |-> None]
    /\ todo = [c \in Clients |-> {}]
    /\ request = [c \in Clients |-> None]
    /\ left = MaxRequests
    /\ login = [c \in Clients |-> {}]
    /\ msgChan = [c \in Clients |-> <<>>]
    /\ closed = [c \in Clients |-> FALSE]
    /\ open = [c \in Clients |-> TRUE]
    /\ sender = [c \in Clients |-> TRUE]

-----------------------------------------------------------------------------
(* The matchers' side of wsChan. *)

\* A matcher has changed an order of account a and, its mutex still held,
\* starts m.wsChan <- wsMsg.
OrderChanges(a) ==
    /\ pending = None
    /\ published[a] < MaxChanges
    /\ published' = [published EXCEPT ![a] = @ + 1]
    /\ pending' = [account |-> a, n |-> published[a] + 1]
    /\ UNCHANGED <<wsChan, held, chanVars, actorVars, clientVars, connVars>>

Publish ==
    /\ pending # None
    /\ Len(wsChan) < WsCap
    /\ wsChan' = Append(wsChan, pending)
    /\ pending' = None
    /\ UNCHANGED <<published, held, chanVars, actorVars, clientVars, connVars>>

-----------------------------------------------------------------------------
(* allChannelsMutex.  RLock holders that stay are the clients inside         *)
(* RemoveSubscriberAllChannels; every actor at "save" has called Lock.      *)

ReadLocked == \E c \in Clients : at[c] = "leaving"
WriterWaits == \E p \in Actors : at[p] = "save"

findChannel(a) == allChannels[a]

\* The actor looks its channel up, and creates one when there is none.
Find(p, a, found) ==
    /\ ~WriterWaits
    /\ want' = [want EXCEPT ![p] = a]
    /\ using' = [using EXCEPT ![p] = findChannel(a)]
    /\ at' = [at EXCEPT ![p] = IF findChannel(a) = None THEN "create" ELSE found]

\* Bug: a channel that is there is replaced.
RegisteredAnew(p) == <<want[p], p>>

Registered(p) ==
    IF allChannels[want[p]] = None THEN <<want[p], p>> ELSE allChannels[want[p]]

\* createChannelByID and saveChannel, which keeps a channel that is there;
\* the caller goes on with the channel it made, registered or not.
CreateChannel(p) ==
    /\ at[p] \in {"create", "save"}
    /\ ~ReadLocked
    /\ allChannels' = [allChannels EXCEPT ![want[p]] = Registered(p)]
    /\ using' = [using EXCEPT ![p] = <<want[p], p>>]
    /\ at' = [at EXCEPT ![p] = "add"]
    /\ UNCHANGED <<members, sending, current, want, pubVars, clientVars, connVars>>

\* saveChannel has to wait for the lock.
WaitToSave(p) ==
    /\ at[p] = "create"
    /\ ReadLocked
    /\ at' = [at EXCEPT ![p] = "save"]
    /\ UNCHANGED <<want, using, pubVars, chanVars, clientVars, connVars>>

\* The local variables of the actor go out of scope.
Forget(p) ==
    /\ want' = [want EXCEPT ![p] = None]
    /\ using' = [using EXCEPT ![p] = None]

-----------------------------------------------------------------------------
(* The consumer: startConsumer. *)

\* The next message and its channel.  While a writer waits for the lock the
\* message is left in wsChan, where the consumer would hold it in its hand.
Receive ==
    /\ at[Consumer] = "receive"
    /\ wsChan # <<>>
    /\ held' = Head(wsChan)
    /\ wsChan' = Tail(wsChan)
    /\ Find(Consumer, Head(wsChan).account, "add")
    /\ UNCHANGED <<published, pending, chanVars, clientVars, connVars>>

\* The goroutine of channel h is in its select, ready for a rendezvous.
Ready(h) == sending[h] = {}

\* AddMessage meets the channel's select; handleMessage starts.
AddMessage ==
    LET h == using[Consumer] IN
    /\ at[Consumer] = "add"
    /\ Ready(h)
    /\ current' = [current EXCEPT ![h] = IF members[h] = {} THEN None ELSE held]
    /\ sending' = [sending EXCEPT ![h] = members[h]]
    /\ held' = None
    /\ at' = [at EXCEPT ![Consumer] = "receive"]
    /\ Forget(Consumer)
    /\ UNCHANGED <<published, pending, wsChan, allChannels, members, clientVars, connVars>>

\* The service is stopping and the consumer's select sees it.
ConsumerExits ==
    /\ at[Consumer] = "receive"
    /\ at' = [at EXCEPT ![Consumer] = "exit"]
    /\ UNCHANGED <<pubVars, want, using, chanVars, clientVars, connVars>>

-----------------------------------------------------------------------------
(* Channel goroutines and the clients' msgChan. *)

\* Bug: msgChan is not closed, and a send to it waits forever.
CanSendIfRoom(c) == Len(msgChan[c]) < MsgCap

\* c.msgChan <- msg: waits while the buffer is full; on a closed channel it
\* panics, the panic is recovered and the message is dropped.
CanSend(c) == closed[c] \/ Len(msgChan[c]) < MsgCap
SendMsg(c, msg) ==
    msgChan' = IF closed[c] THEN msgChan ELSE [msgChan EXCEPT ![c] = Append(@, msg)]

\* Bug: the client is not ticked off.
ForwardAgain(h, c) ==
    /\ c \in sending[h]
    /\ CanSend(c)
    /\ SendMsg(c, current[h])
    /\ UNCHANGED <<chanVars, pubVars, actorVars, clientVars, closed, open, sender>>

\* handleMessage sends the current message to one more subscriber.
Forward(h, c) ==
    /\ c \in sending[h]
    /\ CanSend(c)
    /\ SendMsg(c, current[h])
    /\ sending' = [sending EXCEPT ![h] = @ \ {c}]
    /\ current' = [current EXCEPT ![h] = IF sending[h] = {c} THEN None ELSE @]
    /\ UNCHANGED <<allChannels, members, pubVars, actorVars, clientVars,
                   closed, open, sender>>

-----------------------------------------------------------------------------
(* runSendMsg and the connection. *)

\* sendData: the message is written; or it is lost because the close handshake
\* is over, and the loop goes on; or the write fails with an OpError or a
\* CloseError, and the goroutine ends, leaving msgChan without a reader.
Write(c) ==
    /\ sender[c]
    /\ msgChan[c] # <<>>
    /\ msgChan' = [msgChan EXCEPT ![c] = Tail(@)]
    /\ \/ UNCHANGED sender
       \/ sender' = [sender EXCEPT ![c] = FALSE]
    /\ UNCHANGED <<closed, open, pubVars, chanVars, actorVars, clientVars>>

SenderEnds(c) ==
    /\ sender[c]
    /\ closed[c] /\ msgChan[c] = <<>>
    /\ sender' = [sender EXCEPT ![c] = FALSE]
    /\ UNCHANGED <<msgChan, closed, open, pubVars, chanVars, actorVars, clientVars>>

\* A ping fails with an OpError: the goroutine ends as well.
PingFails(c) ==
    /\ sender[c]
    /\ sender' = [sender EXCEPT ![c] = FALSE]
    /\ UNCHANGED <<msgChan, closed, open, pubVars, chanVars, actorVars, clientVars>>

\* The connection ends: the peer closes it, TCP gives it up, or the pong timer
\* armed by the last ping closes it.
ConnectionEnds(c) ==
    /\ open[c]
    /\ open' = [open EXCEPT ![c] = FALSE]
    /\ UNCHANGED <<msgChan, closed, sender, pubVars, chanVars, actorVars, clientVars>>

-----------------------------------------------------------------------------
(* The reader of a client: handleClientRequest. *)

Goto(c, pc) == at' = [at EXCEPT ![c] = pc]

\* ReadJSON returns a request.  A login adds the address of a valid token;
\* the answer to ping and login goes through msgChan.
ReadRequest(c) ==
    /\ at[c] = "read" /\ open[c]
    /\ left[c] > 0
    /\ left' = [left EXCEPT ![c] = @ - 1]
    /\ \/ /\ Goto(c, "reply")
          /\ \/ UNCHANGED login
             \/ \E a \in Accounts : login' = [login EXCEPT ![c] = @ \cup {a}]
          /\ UNCHANGED <<todo, request>>
       \/ /\ Goto(c, "each")
          /\ \E r \in {"subscribe", "unsubscribe"}, ids \in SUBSET Accounts \ {{}} :
                /\ request' = [request EXCEPT ![c] = r]
                /\ todo' = [todo EXCEPT ![c] = ids]
          /\ UNCHANGED login
    /\ UNCHANGED <<want, using, pubVars, chanVars, connVars>>

AfterOne(c) == IF todo[c] = {} THEN "read" ELSE "each"

SendReply(c) ==
    /\ at[c] = "reply"
    /\ CanSend(c)
    /\ SendMsg(c, Reply)
    /\ Goto(c, AfterOne(c))
    /\ UNCHANGED <<want, using, closed, open, sender, pubVars, chanVars, clientVars>>

\* Bug: the login is not checked.
CheckNothing(c, a) == TRUE

CheckLogin(c, a) == a \in login[c]

\* One account of a subscribe request: without login an error is answered,
\* else the channel is found or created.
SubscribeOne(c, a) ==
    /\ at[c] = "each" /\ request[c] = "subscribe" /\ a \in todo[c]
    /\ todo' = [todo EXCEPT ![c] = @ \ {a}]
    /\ \/ CheckLogin(c, a) /\ Find(c, a, "add")
       \/ ~CheckLogin(c, a) /\ Goto(c, "reply") /\ UNCHANGED <<want, using>>
    /\ UNCHANGED <<request, left, login, pubVars, chanVars, connVars>>

AddSubscriber(c) ==
    LET h == using[c] IN
    /\ at[c] = "add"
    /\ Ready(h)
    /\ members' = [members EXCEPT ![h] = @ \cup {c}]
    /\ Goto(c, AfterOne(c))
    /\ Forget(c)
    /\ UNCHANGED <<allChannels, sending, current, pubVars, clientVars, connVars>>

UnsubscribeOne(c, a) ==
    /\ at[c] = "each" /\ request[c] = "unsubscribe" /\ a \in todo[c]
    /\ ~WriterWaits
    /\ todo' = [todo EXCEPT ![c] = @ \ {a}]
    /\ using' = [using EXCEPT ![c] = findChannel(a)]
    /\ Goto(c, IF findChannel(a) # None THEN "remove"
               ELSE IF todo[c] = {a} THEN "read" ELSE "each")
    /\ UNCHANGED <<want, request, left, login, pubVars, chanVars, connVars>>

RemoveSubscriber(c) ==
    LET h == using[c] IN
    /\ at[c] = "remove"
    /\ Ready(h)
    /\ members' = [members EXCEPT ![h] = @ \ {c}]
    /\ Goto(c, AfterOne(c))
    /\ Forget(c)
    /\ UNCHANGED <<allChannels, sending, current, pubVars, clientVars, connVars>>

\* ReadJSON fails and the deferred function runs client.Close(): the timer
\* stops, msgChan and the connection are closed.
Close(c) ==
    /\ at[c] = "read" /\ ~open[c]
    /\ Goto(c, "leave")
    /\ closed' = [closed EXCEPT ![c] = TRUE]
    /\ UNCHANGED <<want, using, msgChan, open, sender, pubVars, chanVars, clientVars>>

\* Bug: a closed client is not taken off the channels.
ToLeaveNone == {}

\* The channels RemoveSubscriberAllChannels ranges over.
ToLeave == {a \in Accounts : allChannels[a] # None}

StillLeaving(rest) == IF rest = {} THEN "left" ELSE "leaving"

\* RemoveSubscriberAllChannels takes RLock ...
Leave(c) ==
    /\ at[c] = "leave"
    /\ ~WriterWaits
    /\ todo' = [todo EXCEPT ![c] = ToLeave]
    /\ Goto(c, StillLeaving(ToLeave))
    /\ UNCHANGED <<want, using, request, left, login, pubVars, chanVars, connVars>>

\* ... and meets the channels one by one before it releases the lock.
LeaveChannel(c, a) ==
    LET h == allChannels[a] IN
    /\ at[c] = "leaving" /\ a \in todo[c]
    /\ Ready(h)
    /\ members' = [members EXCEPT ![h] = @ \ {c}]
    /\ todo' = [todo EXCEPT ![c] = @ \ {a}]
    /\ Goto(c, StillLeaving(todo[c] \ {a}))
    /\ UNCHANGED <<want, using, allChannels, sending, current, request, left, login, pubVars, connVars>>

-----------------------------------------------------------------------------

ChannelStep(h) == \E c \in Clients : Forward(h, c)

ReaderStep(c) ==
    \/ CreateChannel(c) \/ WaitToSave(c)
    \/ SendReply(c) \/ AddSubscriber(c) \/ RemoveSubscriber(c)
    \/ \E a \in Accounts : SubscribeOne(c, a) \/ UnsubscribeOne(c, a) \/ LeaveChannel(c, a)
    \/ Close(c) \/ Leave(c)

ConsumerStep ==
    \/ Receive \/ AddMessage
    \/ CreateChannel(Consumer) \/ WaitToSave(Consumer)

SenderStep(c) == Write(c) \/ SenderEnds(c)

Environment ==
    \/ ConsumerExits
    \/ \E a \in Accounts : OrderChanges(a)
    \/ \E c \in Clients : ReadRequest(c) \/ PingFails(c)
                          \/ ConnectionEnds(c)

Next ==
    \/ Publish
    \/ ConsumerStep
    \/ \E h \in Channels : ChannelStep(h)
    \/ \E c \in Clients : ReaderStep(c) \/ SenderStep(c)
    \/ Environment

\* Go's scheduler runs every goroutine that can go on; nothing obliges the
\* peers, the timers or the matchers to act.
Fairness ==
    /\ WF_vars(Publish)
    /\ WF_vars(ConsumerStep)
    /\ \A h \in Channels : WF_vars(ChannelStep(h))
    /\ \A c \in Clients : WF_vars(ReaderStep(c)) /\ WF_vars(SenderStep(c))

Spec == Init /\ [][Next]_vars /\ Fairness

-----------------------------------------------------------------------------

\* Where an actor can be in its code.
Places == {"receive", "exit", "create", "save", "add", "read", "reply", "each",
           "remove", "leave", "leaving", "left"}

PubTypeOK ==
    /\ published \in [Accounts -> 0..MaxChanges]
    /\ pending \in Change \cup {None}
    /\ wsChan \in Seq(Change) /\ Len(wsChan) <= WsCap
    /\ held \in Change \cup {None}

ChanTypeOK ==
    /\ allChannels \in [Accounts -> Channels \cup {None}]
    /\ members \in [Channels -> SUBSET Clients]
    /\ sending \in [Channels -> SUBSET Clients]
    /\ current \in [Channels -> Change \cup {None}]

ActorTypeOK ==
    /\ at \in [Actors -> Places]
    /\ want \in [Actors -> Accounts \cup {None}]
    /\ using \in [Actors -> Channels \cup {None}]

ClientTypeOK ==
    /\ todo \in [Clients -> SUBSET Accounts]
    /\ request \in [Clients -> {"subscribe", "unsubscribe", None}]
    /\ left \in [Clients -> Nat]
    /\ login \in [Clients -> SUBSET Accounts]

ConnTypeOK ==
    /\ msgChan \in [Clients -> Seq(Change \cup {Reply})]
    /\ \A c \in Clients : Len(msgChan[c]) <= MsgCap
    /\ closed \in [Clients -> BOOLEAN]
    /\ open \in [Clients -> BOOLEAN]
    /\ sender \in [Clients -> BOOLEAN]

\* Every queue holds what belongs there and keeps within its capacity:
\* wsChan and the msgChan of each client.
TypeOK == PubTypeOK /\ ChanTypeOK /\ ActorTypeOK /\ ClientTypeOK /\ ConnTypeOK

\* The order changes of an account are queued only for clients that have
\* logged in with that account: the check of handleClientRequest, for every
\* way into a channel and however the channel came to be.
OnlyOwnAccounts ==
    \A c \in Clients : \A i \in DOMAIN msgChan[c] :
        msgChan[c][i].account \in login[c] \cup {None}

\* What is on its way to client c through channel h, oldest first, with what
\* the consumer and the matchers hold.
OnTheWay(c, h) ==
    msgChan[c]
    \o (IF c \in sending[h] THEN <<current[h]>> ELSE <<>>)
    \o (IF held # None THEN <<held>> ELSE <<>>)
    \o wsChan
    \o (IF pending # None THEN <<pending>> ELSE <<>>)

\* The changes of an account reach a client in the order of publication and
\* none twice, although they pass four goroutines and three queues.
ChangesInOrder ==
    \A c \in Clients, h \in Channels :
        LET way == OnTheWay(c, h) IN
        \A i, j \in DOMAIN way :
            i < j /\ way[i].account = h[1] /\ way[j].account = h[1] => way[i].n < way[j].n

\* A subscriber of a registered channel stays one until its own reader takes
\* it off: no later subscriber, message or disconnection cuts it off.
StaysSubscribed ==
    [][\A c \in Clients, a \in Accounts :
          /\ allChannels[a] # None /\ c \in members[allChannels[a]]
          /\ at[c] \notin {"remove", "leaving"}
          => c \in members'[allChannels'[a]]]_vars

\* When the reader of a client has ended, no registered channel keeps the
\* client: a later message is not sent to it.
GoneIsForgotten ==
    \A c \in Clients : at[c] = "left" =>
        \A a \in Accounts : allChannels[a] # None => c \notin members[allChannels[a]]

\* msgChan of c is full and nobody reads it.
DeadEnd(c) == ~sender[c] /\ ~closed[c] /\ Len(msgChan[c]) = MsgCap

\* A matcher that sends an order change goes on, and with it every operation
\* that waits for its mutex, unless the service is stopping or a client whose
\* writer goroutine ended has a full msgChan.
MatcherGoesOn ==
    pending # None ~> (pending = None \/ at[Consumer] = "exit" \/ \E c \in Clients : DeadEnd(c))

=============================================================================
