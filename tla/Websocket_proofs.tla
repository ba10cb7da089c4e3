-------------------------- MODULE Websocket_proofs --------------------------
(***************************************************************************)
(* Safety of the websocket server, for all clients, accounts and           *)
(* capacities of its queues.                                               *)
(***************************************************************************)
EXTENDS Websocket, TLAPS

-----------------------------------------------------------------------------
(***************************************************************************)
(* Channels and clients                                                    *)
(***************************************************************************)

\* A channel is registered under its own account.
ChannelsOwn == \A a \in Accounts : allChannels[a] # None => allChannels[a][1] = a

\* What an actor holds between the steps of findChannel, saveChannel and the
\* rendezvous with the channel: a channel of an account that is registered,
\* if perhaps with another channel; a client looks up only its own accounts.
ActorsHold ==
  /\ \A p \in Actors :
       /\ at[p] \in {"create", "save"} => want[p] \in Accounts
       /\ at[p] \in {"add", "remove"} =>
            /\ using[p] # None /\ allChannels[using[p][1]] # None
            /\ using[p] = allChannels[using[p][1]] \/ using[p][2] = p
  /\ \A c \in Clients :
       /\ at[c] \in {"create", "save"} => want[c] \in login[c]
       /\ at[c] = "add" => using[c][1] \in login[c]
  /\ at[Consumer] \in {"receive", "exit"} => held = None
  /\ at[Consumer] \in {"create", "save"} => held # None /\ want[Consumer] = held.account
  /\ at[Consumer] = "add" => held # None /\ using[Consumer][1] = held.account
  /\ at[Consumer] \in {"receive", "exit", "create", "save", "add"}

\* Subscribers have logged in with the account; a channel that has some is
\* registered, or it is the one its only subscriber made.
MembersHold ==
  \A h \in Channels : \A c \in members[h] :
    /\ h[1] \in login[c]
    /\ allChannels[h[1]] # None
    /\ h = allChannels[h[1]] \/ h[2] = c

\* Only a registered channel sends, and it sends a change of its account.
SendingHold ==
  \A h \in Channels : \A c \in sending[h] :
    /\ h[1] \in login[c]
    /\ h = allChannels[h[1]]
    /\ current[h] \in Change /\ current[h].account = h[1]

\* The client is off the channels RemoveSubscriberAllChannels has met.
LeavesAll ==
  \A c \in Clients : at[c] = "leaving" =>
    \A a \in Accounts \ todo[c] : allChannels[a] # None => c \notin members[allChannels[a]]

-----------------------------------------------------------------------------
(***************************************************************************)
(* The order of the changes                                                *)
(***************************************************************************)

\* y may follow x.
Before(x, y) == x.account = y.account /\ x.account # None => x.n < y.n

Ordered(s) == \A i, j \in DOMAIN s : i < j => Before(s[i], s[j])

\* The changes that have not reached a channel.
Coming == {x \in Change : x = held \/ x = pending \/ \E i \in DOMAIN wsChan : x = wsChan[i]}

QueueInOrder ==
  /\ Ordered(wsChan)
  /\ held # None => \A i \in DOMAIN wsChan : Before(held, wsChan[i])
  /\ pending # None => \A i \in DOMAIN wsChan : Before(wsChan[i], pending)
  /\ held # None /\ pending # None => Before(held, pending)

\* x was published, and before everything that is coming.
Passed(x) == x.n <= published[x.account] /\ \A y \in Coming : Before(x, y)

ComingPublished == \A x \in Coming : x.n <= published[x.account]

ChannelsInOrder ==
  \A h \in Channels : sending[h] # {} => Passed(current[h])

ClientsInOrder ==
  \A c \in Clients :
    /\ Ordered(msgChan[c])
    /\ \A i \in DOMAIN msgChan[c] :
         /\ msgChan[c][i] # Reply => Passed(msgChan[c][i])
         /\ \A h \in Channels : c \in sending[h] => Before(msgChan[c][i], current[h])

IInv ==
  /\ TypeOK /\ ChannelsOwn /\ ActorsHold /\ MembersHold /\ SendingHold
  /\ OnlyOwnAccounts /\ LeavesAll /\ GoneIsForgotten
  /\ QueueInOrder /\ ComingPublished /\ ChannelsInOrder /\ ClientsInOrder

-----------------------------------------------------------------------------

LEMMA Pairs ==
  /\ \A h \in Channels : h[1] \in Accounts /\ h[2] \in Actors
  /\ \A a \in Accounts, p \in Actors : <<a, p>> \in Channels /\ <<a, p>>[1] = a /\ <<a, p>>[2] = p
  /\ Consumer \in Actors /\ Clients \subseteq Actors
  /\ \A c \in Clients : c # Consumer
  /\ None \notin Channels /\ None \notin Accounts /\ None \notin Change
BY WebsocketAssumption DEF Channels, Actors, Change

LEMMA Changes ==
  /\ \A x \in Change : x.account \in Accounts /\ x.n \in Nat /\ x # Reply
  /\ Reply.account = None
BY DEF Change, Reply

LEMMA AppendSeq ==
  ASSUME NEW S, NEW s \in Seq(S), NEW x \in S
  PROVE  /\ Append(s, x) \in Seq(S) /\ Len(Append(s, x)) = Len(s) + 1
         /\ \A i \in DOMAIN Append(s, x) :
              \/ i \in DOMAIN s /\ Append(s, x)[i] = s[i]
              \/ i = Len(s) + 1 /\ Append(s, x)[i] = x
OBVIOUS

LEMMA TailSeq ==
  ASSUME NEW S, NEW s \in Seq(S), s # <<>>
  PROVE  /\ Tail(s) \in Seq(S) /\ Len(Tail(s)) = Len(s) - 1 /\ Len(s) \in Nat
         /\ Head(s) \in S /\ Head(s) = s[1] /\ 1 \in DOMAIN s
         /\ \A i \in DOMAIN Tail(s) : i + 1 \in DOMAIN s /\ i >= 1 /\ Tail(s)[i] = s[i + 1]
OBVIOUS

LEMMA AppendOrdered ==
  ASSUME NEW S, NEW s \in Seq(S), NEW x \in S, Ordered(s),
         \A i \in DOMAIN s : Before(s[i], x)
  PROVE  Ordered(Append(s, x))
BY DEF Ordered

LEMMA TailOrdered ==
  ASSUME NEW S, NEW s \in Seq(S), s # <<>>, Ordered(s)
  PROVE  Ordered(Tail(s)) /\ \A i \in DOMAIN Tail(s) : Before(Head(s), Tail(s)[i])
BY TailSeq DEF Ordered

\* What a send to msgChan does.
LEMMA SendMsgAppends ==
  ASSUME ConnTypeOK, NEW c \in Clients, NEW msg \in Change \cup {Reply}, CanSend(c), SendMsg(c, msg)
  PROVE  /\ msgChan' \in [Clients -> Seq(Change \cup {Reply})]
         /\ \A d \in Clients : Len(msgChan'[d]) <= MsgCap
         /\ \A d \in Clients :
              \/ msgChan'[d] = msgChan[d]
              \/ d = c /\ msgChan'[d] = Append(msgChan[d], msg)
<1>1. CASE closed[c]
  BY <1>1 DEF ConnTypeOK, SendMsg
<1>2. CASE ~closed[c]
  <2>1. msgChan' = [msgChan EXCEPT ![c] = Append(msgChan[c], msg)]
    BY <1>2 DEF SendMsg
  <2>2. msgChan[c] \in Seq(Change \cup {Reply}) /\ Len(msgChan[c]) < MsgCap
    BY <1>2 DEF ConnTypeOK, CanSend
  <2>3. /\ Append(msgChan[c], msg) \in Seq(Change \cup {Reply})
        /\ Len(Append(msgChan[c], msg)) <= MsgCap
    BY <2>2, WebsocketAssumption
  <2>4. QED
    BY <2>1, <2>3 DEF ConnTypeOK
<1>3. QED
  BY <1>1, <1>2

LEMMA OrderChangesKeeps ==
  ASSUME IInv, NEW a \in Accounts, OrderChanges(a)
  PROVE  IInv'
<1>1. ChanTypeOK' /\ ActorTypeOK' /\ ClientTypeOK' /\ ConnTypeOK'
  BY DEF IInv, OrderChanges, chanVars, actorVars, clientVars, connVars,
     ChanTypeOK, ActorTypeOK, ClientTypeOK, ConnTypeOK, TypeOK
<1>2. /\ ChannelsOwn' /\ ActorsHold' /\ MembersHold' /\ SendingHold'
      /\ OnlyOwnAccounts' /\ LeavesAll' /\ GoneIsForgotten'
  BY DEF IInv, OrderChanges, chanVars, actorVars, clientVars, connVars,
     ChannelsOwn, ActorsHold, MembersHold, SendingHold, OnlyOwnAccounts,
     LeavesAll, GoneIsForgotten
<1>3. PubTypeOK'
  <2>1. published[a] + 1 \in 1..MaxChanges
    BY WebsocketAssumption DEF IInv, TypeOK, PubTypeOK, OrderChanges
  <2>2. pending' \in Change
    BY <2>1 DEF OrderChanges, Change
  <2>3. published' \in [Accounts -> 0..MaxChanges]
    BY WebsocketAssumption DEF IInv, TypeOK, PubTypeOK, OrderChanges
  <2>4. QED
    BY <2>2, <2>3 DEF IInv, TypeOK, PubTypeOK, OrderChanges
<1>4. QueueInOrder'
  BY Pairs, Changes
     DEF IInv, QueueInOrder, OrderChanges, actorVars, Ordered, Before,
     ComingPublished, Coming, ActorsHold, PubTypeOK, TypeOK
<1>5. ComingPublished'
  BY Pairs, Changes
     DEF IInv, ComingPublished, OrderChanges, Coming, ActorsHold, PubTypeOK,
     TypeOK
<1>6. ChannelsInOrder'
  BY Pairs, Changes
     DEF IInv, ChannelsInOrder, OrderChanges, chanVars, clientVars, Passed,
     Coming, Before, ActorsHold, SendingHold, PubTypeOK, TypeOK
<1>7. ClientsInOrder'
  BY Changes
     DEF IInv, ClientsInOrder, OrderChanges, chanVars, connVars, Passed,
     Coming, Before, PubTypeOK, ConnTypeOK, TypeOK
<1>8. QED
  BY <1>1, <1>2, <1>3, <1>4, <1>5, <1>6, <1>7 DEF IInv, TypeOK

LEMMA PublishKeeps ==
  ASSUME IInv, Publish
  PROVE  IInv'
<1>1. ChanTypeOK' /\ ActorTypeOK' /\ ClientTypeOK' /\ ConnTypeOK'
  BY DEF IInv, Publish, chanVars, actorVars, clientVars, connVars,
     ChanTypeOK, ActorTypeOK, ClientTypeOK, ConnTypeOK, TypeOK
<1>2. /\ ChannelsOwn' /\ ActorsHold' /\ MembersHold' /\ SendingHold'
      /\ OnlyOwnAccounts' /\ LeavesAll' /\ GoneIsForgotten'
  BY DEF IInv, Publish, chanVars, actorVars, clientVars, connVars,
     ChannelsOwn, ActorsHold, MembersHold, SendingHold, OnlyOwnAccounts,
     LeavesAll, GoneIsForgotten
<1>3. PubTypeOK'
  <2>1. pending \in Change /\ wsChan \in Seq(Change) /\ Len(wsChan) < WsCap
    BY DEF IInv, TypeOK, PubTypeOK, Publish
  <2>2. wsChan' \in Seq(Change) /\ Len(wsChan') <= WsCap
    BY <2>1, WebsocketAssumption DEF Publish
  <2>3. QED
    BY <2>2 DEF IInv, TypeOK, PubTypeOK, Publish
<1>4. QueueInOrder'
  <2>1. pending \in Change /\ wsChan \in Seq(Change)
    BY DEF IInv, TypeOK, PubTypeOK, Publish
  <2>2. Ordered(wsChan')
    BY <2>1, AppendOrdered DEF IInv, QueueInOrder, Publish
  <2>3. held # None => \A i \in DOMAIN wsChan' : Before(held, wsChan'[i])
    BY DEF IInv, QueueInOrder, Publish
  <2>4. QED
    BY <2>2, <2>3 DEF QueueInOrder, Publish
<1>5. ComingPublished'
  BY Pairs DEF IInv, ComingPublished, Publish, Coming
<1>6. ChannelsInOrder'
  BY Pairs DEF IInv, ChannelsInOrder, Publish, chanVars, Passed, Coming
<1>7. ClientsInOrder'
  BY Pairs
     DEF IInv, ClientsInOrder, Publish, chanVars, connVars, Passed, Coming
<1>8. QED
  BY <1>1, <1>2, <1>3, <1>4, <1>5, <1>6, <1>7 DEF IInv, TypeOK

LEMMA ReceiveKeeps ==
  ASSUME IInv, Receive
  PROVE  IInv'
<1>1. ChanTypeOK' /\ ClientTypeOK' /\ ConnTypeOK'
  BY DEF IInv, Receive, chanVars, clientVars, connVars, ChanTypeOK,
     ClientTypeOK, ConnTypeOK, TypeOK
<1>2. ChannelsOwn' /\ MembersHold' /\ SendingHold' /\ OnlyOwnAccounts'
  BY DEF IInv, Receive, chanVars, clientVars, connVars, ChannelsOwn,
     MembersHold, SendingHold, OnlyOwnAccounts
<1>3. PubTypeOK'
  <2>1. Tail(wsChan) \in Seq(Change) /\ Len(Tail(wsChan)) <= WsCap /\ Head(wsChan) \in Change
    BY WebsocketAssumption DEF IInv, TypeOK, PubTypeOK, Receive
  <2>2. QED
    BY <2>1 DEF IInv, TypeOK, PubTypeOK, Receive
<1>4. ActorTypeOK'
  BY Pairs, Changes
     DEF IInv, ActorTypeOK, Receive, Find, findChannel, ChanTypeOK,
     PubTypeOK, Places, TypeOK
<1>5. ActorsHold'
  BY Pairs, Changes
     DEF IInv, ActorsHold, Receive, Find, findChannel, chanVars, clientVars,
     ChannelsOwn, ActorTypeOK, PubTypeOK, ClientTypeOK, TypeOK
<1>6. LeavesAll'
  BY DEF IInv, LeavesAll, Receive, Find, chanVars, clientVars
<1>7. GoneIsForgotten'
  BY DEF IInv, GoneIsForgotten, Receive, Find, chanVars
<1>8. QueueInOrder'
  <2>1. wsChan \in Seq(Change) /\ wsChan # <<>>
    BY DEF IInv, TypeOK, PubTypeOK, Receive
  <2>2. Ordered(Tail(wsChan)) /\ \A i \in DOMAIN Tail(wsChan) : Before(Head(wsChan), Tail(wsChan)[i])
    BY <2>1, TailOrdered DEF IInv, QueueInOrder
  <2>3. pending # None => /\ Before(Head(wsChan), pending)
                          /\ \A i \in DOMAIN Tail(wsChan) : Before(Tail(wsChan)[i], pending)
    BY <2>1 DEF IInv, QueueInOrder
  <2>4. QED
    BY <2>2, <2>3 DEF QueueInOrder, Receive
<1>9. ComingPublished'
  BY DEF IInv, ComingPublished, Receive, Coming
<1>10. ChannelsInOrder'
  BY DEF IInv, ChannelsInOrder, Receive, chanVars, Passed, Coming, PubTypeOK,
     TypeOK
<1>11. ClientsInOrder'
  BY Pairs
     DEF IInv, ClientsInOrder, Receive, chanVars, connVars, Passed, Coming,
     PubTypeOK
<1>12. QED
  BY <1>1, <1>2, <1>3, <1>4, <1>5, <1>6, <1>7, <1>8, <1>9, <1>10, <1>11
     DEF IInv, TypeOK

LEMMA CreateChannelKeeps ==
  ASSUME IInv, NEW p \in Actors, CreateChannel(p)
  PROVE  IInv'
<1>1. PubTypeOK' /\ ClientTypeOK' /\ ConnTypeOK'
  BY DEF IInv, CreateChannel, clientVars, connVars, pubVars, PubTypeOK,
     ClientTypeOK, ConnTypeOK, TypeOK
<1>2. /\ OnlyOwnAccounts' /\ QueueInOrder' /\ ComingPublished'
      /\ ChannelsInOrder' /\ ClientsInOrder'
  BY DEF IInv, CreateChannel, clientVars, connVars, pubVars, OnlyOwnAccounts,
     QueueInOrder, ComingPublished, ChannelsInOrder, ClientsInOrder, Coming,
     Passed
<1>3. ChanTypeOK'
  BY Pairs DEF IInv, ChanTypeOK, CreateChannel, Registered, TypeOK
<1>4. ActorTypeOK'
  BY Pairs DEF IInv, ActorTypeOK, CreateChannel, Places, ActorsHold, TypeOK
<1>5. ChannelsOwn'
  BY DEF IInv, ChannelsOwn, CreateChannel, Registered
<1>6. ActorsHold'
  BY Pairs
     DEF IInv, ActorsHold, CreateChannel, Registered, clientVars, pubVars,
     ActorTypeOK, ChanTypeOK, TypeOK
<1>7. MembersHold'
  BY DEF IInv, MembersHold, CreateChannel, Registered, clientVars
<1>8. SendingHold'
  BY Pairs DEF IInv, SendingHold, CreateChannel, Registered, clientVars
<1>9. LeavesAll'
  BY DEF LeavesAll, CreateChannel, ReadLocked
<1>10. GoneIsForgotten'
  BY Pairs DEF IInv, GoneIsForgotten, CreateChannel, Registered, MembersHold
<1>11. QED
  BY <1>1, <1>2, <1>3, <1>4, <1>5, <1>6, <1>7, <1>8, <1>9, <1>10
     DEF IInv, TypeOK

LEMMA WaitToSaveKeeps ==
  ASSUME IInv, NEW p \in Actors, WaitToSave(p)
  PROVE  IInv'
<1>1. PubTypeOK' /\ ChanTypeOK' /\ ClientTypeOK' /\ ConnTypeOK'
  BY DEF IInv, WaitToSave, chanVars, clientVars, connVars, pubVars,
     PubTypeOK, ChanTypeOK, ClientTypeOK, ConnTypeOK, TypeOK
<1>2. /\ ChannelsOwn' /\ MembersHold' /\ SendingHold' /\ OnlyOwnAccounts'
      /\ QueueInOrder' /\ ComingPublished' /\ ChannelsInOrder'
      /\ ClientsInOrder'
  BY DEF IInv, WaitToSave, chanVars, clientVars, connVars, pubVars,
     ChannelsOwn, MembersHold, SendingHold, OnlyOwnAccounts, QueueInOrder,
     ComingPublished, ChannelsInOrder, ClientsInOrder, Coming, Passed
<1>3. ActorTypeOK'
  BY DEF IInv, ActorTypeOK, WaitToSave, Places, TypeOK
<1>4. ActorsHold'
  BY DEF IInv, ActorsHold, WaitToSave, chanVars, clientVars, pubVars
<1>5. LeavesAll'
  BY DEF IInv, LeavesAll, WaitToSave, chanVars, clientVars
<1>6. GoneIsForgotten'
  BY DEF IInv, GoneIsForgotten, WaitToSave, chanVars
<1>7. QED
  BY <1>1, <1>2, <1>3, <1>4, <1>5, <1>6 DEF IInv, TypeOK

LEMMA AddMessageKeeps ==
  ASSUME IInv, AddMessage
  PROVE  IInv'
<1>1. ClientTypeOK' /\ ConnTypeOK'
  BY DEF IInv, AddMessage, clientVars, connVars, ClientTypeOK, ConnTypeOK,
     TypeOK
<1>2. ChannelsOwn' /\ MembersHold' /\ OnlyOwnAccounts'
  BY DEF IInv, AddMessage, clientVars, connVars, ChannelsOwn, MembersHold,
     OnlyOwnAccounts
<1>3. PubTypeOK'
  BY DEF IInv, PubTypeOK, AddMessage, TypeOK
<1>4. ChanTypeOK'
  BY DEF IInv, ChanTypeOK, AddMessage, PubTypeOK, TypeOK
<1>5. ActorTypeOK'
  BY DEF IInv, ActorTypeOK, AddMessage, Forget, Places, TypeOK
<1>6. ActorsHold'
  BY Pairs
     DEF IInv, ActorsHold, AddMessage, Forget, clientVars, ActorTypeOK,
     TypeOK
<1>7. SendingHold'
  BY Pairs, Changes
     DEF IInv, SendingHold, AddMessage, Ready, Forget, clientVars,
     ActorsHold, MembersHold, ActorTypeOK, ChanTypeOK, ClientTypeOK,
     PubTypeOK, TypeOK
<1>8. LeavesAll'
  BY DEF IInv, LeavesAll, AddMessage, clientVars
<1>9. GoneIsForgotten'
  BY DEF IInv, GoneIsForgotten, AddMessage
<1>10. QueueInOrder'
  BY DEF IInv, QueueInOrder, AddMessage
<1>11. ComingPublished'
  BY Pairs DEF IInv, ComingPublished, AddMessage, Coming
<1>12. ChannelsInOrder'
  <2> DEFINE u == using[Consumer]
  <2>1. held \in Change /\ held \in Coming /\ u \in Channels
    BY Pairs
       DEF IInv, TypeOK, PubTypeOK, ActorTypeOK, ActorsHold, AddMessage,
       Coming
  <2>2. Coming' \subseteq Coming /\ \A y \in Coming' : Before(held, y)
    BY <2>1, Pairs DEF IInv, AddMessage, Coming, QueueInOrder
  <2>3. \A x : x = held => Passed(x)'
    BY <2>1, <2>2 DEF IInv, Passed, ComingPublished, AddMessage
  <2>4. ASSUME NEW h \in Channels, sending'[h] # {}
        PROVE  Passed(current[h])'
    <3>1. CASE h = u
      BY <2>3, <2>4, <3>1 DEF IInv, TypeOK, ChanTypeOK, AddMessage
    <3>2. CASE h # u
      <4>1. current'[h] = current[h] /\ sending[h] # {}
        BY <2>4, <3>2 DEF AddMessage
      <4>2. QED
        BY <2>2, <4>1 DEF IInv, ChannelsInOrder, Passed, AddMessage
    <3>3. QED
      BY <3>1, <3>2
  <2>5. QED
    BY <2>4 DEF ChannelsInOrder
<1>13. ClientsInOrder'
  <2>1. held \in Coming
    BY Pairs
       DEF IInv, TypeOK, PubTypeOK, ActorTypeOK, ActorsHold, AddMessage,
       Coming
  <2>2. \A x : Passed(x) => Passed(x)' /\ Before(x, held)
    <3>1. Coming' \subseteq Coming /\ published' = published
      BY Pairs DEF AddMessage, Coming
    <3>2. QED
      BY <2>1, <3>1 DEF Passed
  <2>3. \A g \in Channels : sending'[g] # {} =>
           \/ current'[g] = held
           \/ current'[g] = current[g] /\ sending'[g] = sending[g]
    BY DEF IInv, TypeOK, ChanTypeOK, AddMessage
  <2>4. \A x : Before(Reply, x)
    BY Changes DEF Before
  <2>5. msgChan' = msgChan
    BY DEF AddMessage, connVars
  <2>6. ASSUME NEW d \in Clients
        PROVE  ClientsInOrder!(d)'
    BY <2>2, <2>3, <2>4, <2>5 DEF IInv, ClientsInOrder
  <2>7. QED
    BY <2>6 DEF ClientsInOrder
<1>14. QED
  BY <1>1, <1>2, <1>3, <1>4, <1>5, <1>6, <1>7, <1>8, <1>9, <1>10, <1>11,
     <1>12, <1>13
     DEF IInv, TypeOK

LEMMA ConsumerExitsKeeps ==
  ASSUME IInv, ConsumerExits
  PROVE  IInv'
<1>1. PubTypeOK' /\ ChanTypeOK' /\ ClientTypeOK' /\ ConnTypeOK'
  BY DEF IInv, ConsumerExits, chanVars, clientVars, connVars, pubVars,
     PubTypeOK, ChanTypeOK, ClientTypeOK, ConnTypeOK, TypeOK
<1>2. /\ ChannelsOwn' /\ MembersHold' /\ SendingHold' /\ OnlyOwnAccounts'
      /\ QueueInOrder' /\ ComingPublished' /\ ChannelsInOrder'
      /\ ClientsInOrder'
  BY DEF IInv, ConsumerExits, chanVars, clientVars, connVars, pubVars,
     ChannelsOwn, MembersHold, SendingHold, OnlyOwnAccounts, QueueInOrder,
     ComingPublished, ChannelsInOrder, ClientsInOrder, Coming, Passed
<1>3. ActorTypeOK'
  BY DEF IInv, ActorTypeOK, ConsumerExits, Places, TypeOK
<1>4. ActorsHold'
  BY DEF IInv, ActorsHold, ConsumerExits, chanVars, clientVars, pubVars
<1>5. LeavesAll'
  BY DEF IInv, LeavesAll, ConsumerExits, chanVars, clientVars
<1>6. GoneIsForgotten'
  BY DEF IInv, GoneIsForgotten, ConsumerExits, chanVars
<1>7. QED
  BY <1>1, <1>2, <1>3, <1>4, <1>5, <1>6 DEF IInv, TypeOK

LEMMA ForwardKeeps ==
  ASSUME IInv, NEW h \in Channels, NEW c \in Clients, Forward(h, c)
  PROVE  IInv'
<1>1. PubTypeOK' /\ ActorTypeOK' /\ ClientTypeOK'
  BY DEF IInv, Forward, actorVars, clientVars, pubVars, PubTypeOK,
     ActorTypeOK, ClientTypeOK, TypeOK
<1>2. /\ ChannelsOwn' /\ ActorsHold' /\ MembersHold' /\ LeavesAll'
      /\ GoneIsForgotten' /\ QueueInOrder' /\ ComingPublished'
  BY DEF IInv, Forward, actorVars, clientVars, pubVars, ChannelsOwn,
     ActorsHold, MembersHold, LeavesAll, GoneIsForgotten, QueueInOrder,
     ComingPublished, Coming
<1>3. ChanTypeOK'
  BY DEF IInv, ChanTypeOK, Forward, TypeOK
<1>4. ConnTypeOK'
  <2>1. current[h] \in Change
    BY DEF IInv, SendingHold, Forward
  <2>2. /\ msgChan' \in [Clients -> Seq(Change \cup {Reply})]
        /\ \A d \in Clients : Len(msgChan'[d]) <= MsgCap
    BY <2>1, SendMsgAppends DEF IInv, TypeOK, Forward
  <2>3. QED
    BY <2>2 DEF IInv, TypeOK, ConnTypeOK, Forward
<1>5. SendingHold'
  BY DEF IInv, SendingHold, Forward, clientVars, ChanTypeOK, TypeOK
<1>6. OnlyOwnAccounts'
  BY DEF IInv, OnlyOwnAccounts, Forward, SendMsg, clientVars, SendingHold
<1>7. ChannelsInOrder'
  <2>1. \A x : Passed(x)' <=> Passed(x)
    BY DEF Passed, Coming, Forward, pubVars
  <2>2. \A g \in Channels :
           sending'[g] # {} => sending[g] # {} /\ current'[g] = current[g]
    BY DEF IInv, TypeOK, ChanTypeOK, Forward
  <2>3. QED
    BY <2>1, <2>2 DEF IInv, ChannelsInOrder
<1>8. ClientsInOrder'
  <2>1. current[h] \in Change /\ current[h].account = h[1] /\ h = allChannels[h[1]] /\ Passed(current[h])
    BY DEF IInv, SendingHold, ChannelsInOrder, Forward
  <2>2. \A x : Passed(x)' <=> Passed(x)
    BY DEF Passed, Coming, Forward, pubVars
  <2>3. \A g \in Channels : sending'[g] \subseteq sending[g]
                            /\ (sending'[g] # {} => current'[g] = current[g])
    BY DEF IInv, TypeOK, ChanTypeOK, Forward
  <2>4. ASSUME NEW d \in Clients
        PROVE  ClientsInOrder!(d)'
    <3>1. CASE msgChan'[d] = msgChan[d]
      BY <2>2, <2>3, <3>1 DEF IInv, ClientsInOrder
    <3>2. CASE d = c /\ msgChan'[d] = Append(msgChan[d], current[h])
      <4>1. msgChan[c] \in Seq(Change \cup {Reply})
        BY DEF IInv, TypeOK, ConnTypeOK
      <4>2. \A i \in DOMAIN msgChan[c] : Before(msgChan[c][i], current[h])
        BY DEF IInv, ClientsInOrder, Forward
      <4>3. Ordered(msgChan'[d])
        BY <2>1, <3>2, <4>1, <4>2, AppendOrdered DEF IInv, ClientsInOrder
      <4>4. \A g \in Channels : c \in sending'[g] => Before(current[h], current'[g])
        <5> SUFFICES ASSUME NEW g \in Channels, c \in sending'[g]
                     PROVE  Before(current[h], current'[g])
          OBVIOUS
        <5>1. c \in sending[g] /\ g # h
          BY DEF IInv, TypeOK, ChanTypeOK, Forward
        <5>2. current[g].account = g[1] /\ g = allChannels[g[1]]
          BY <5>1 DEF IInv, SendingHold
        <5>3. QED
          BY <2>1, <2>3, <5>1, <5>2 DEF Before
      <4>5. \A i \in DOMAIN msgChan'[d] :
              /\ msgChan'[d][i] # Reply => Passed(msgChan'[d][i])
              /\ \A g \in Channels : c \in sending'[g] => Before(msgChan'[d][i], current'[g])
        BY <2>1, <2>3, <3>2, <4>4 DEF IInv, ClientsInOrder
      <4>6. QED
        BY <2>2, <3>2, <4>3, <4>5
    <3>3. QED
      BY <2>1, <3>1, <3>2, SendMsgAppends DEF IInv, TypeOK, Forward
  <2>5. QED
    BY <2>4 DEF ClientsInOrder
<1>9. QED
  BY <1>1, <1>2, <1>3, <1>4, <1>5, <1>6, <1>7, <1>8 DEF IInv, TypeOK

LEMMA WriteKeeps ==
  ASSUME IInv, NEW c \in Clients, Write(c)
  PROVE  IInv'
<1>1. PubTypeOK' /\ ChanTypeOK' /\ ActorTypeOK' /\ ClientTypeOK'
  BY DEF IInv, Write, chanVars, actorVars, clientVars, pubVars, PubTypeOK,
     ChanTypeOK, ActorTypeOK, ClientTypeOK, TypeOK
<1>2. /\ ChannelsOwn' /\ ActorsHold' /\ MembersHold' /\ SendingHold'
      /\ LeavesAll' /\ GoneIsForgotten' /\ QueueInOrder' /\ ComingPublished'
      /\ ChannelsInOrder'
  BY DEF IInv, Write, chanVars, actorVars, clientVars, pubVars, ChannelsOwn,
     ActorsHold, MembersHold, SendingHold, LeavesAll, GoneIsForgotten,
     QueueInOrder, ComingPublished, ChannelsInOrder, Coming, Passed
<1>3. ConnTypeOK'
  <2>1. msgChan[c] \in Seq(Change \cup {Reply}) /\ msgChan[c] # <<>> /\ Len(msgChan[c]) <= MsgCap
    BY DEF IInv, TypeOK, ConnTypeOK, Write
  <2>2. Tail(msgChan[c]) \in Seq(Change \cup {Reply}) /\ Len(Tail(msgChan[c])) <= MsgCap
    BY <2>1, WebsocketAssumption
  <2>3. QED
    BY <2>2 DEF IInv, TypeOK, ConnTypeOK, Write
<1>4. OnlyOwnAccounts'
  BY DEF IInv, OnlyOwnAccounts, Write, clientVars, ConnTypeOK, TypeOK
<1>5. ClientsInOrder'
  <2>1. msgChan[c] \in Seq(Change \cup {Reply}) /\ msgChan[c] # <<>>
    BY DEF IInv, TypeOK, ConnTypeOK, Write
  <2>2. \A x : Passed(x)' <=> Passed(x)
    BY DEF Passed, Coming, Write, pubVars
  <2>3. Ordered(Tail(msgChan[c])) /\ \A i \in DOMAIN Tail(msgChan[c]) :
          i + 1 \in DOMAIN msgChan[c] /\ Tail(msgChan[c])[i] = msgChan[c][i + 1]
    BY <2>1, TailOrdered DEF IInv, ClientsInOrder
  <2>4. \A d \in Clients : msgChan'[d] = IF d = c THEN Tail(msgChan[c]) ELSE msgChan[d]
    BY DEF IInv, TypeOK, ConnTypeOK, Write
  <2>5. QED
    BY <2>2, <2>3 DEF IInv, ClientsInOrder, Write, chanVars
<1>6. QED
  BY <1>1, <1>2, <1>3, <1>4, <1>5 DEF IInv, TypeOK

LEMMA ReadRequestKeeps ==
  ASSUME IInv, NEW c \in Clients, ReadRequest(c)
  PROVE  IInv'
<1>1. PubTypeOK' /\ ChanTypeOK' /\ ConnTypeOK'
  BY DEF IInv, ReadRequest, chanVars, connVars, pubVars, PubTypeOK,
     ChanTypeOK, ConnTypeOK, TypeOK
<1>2. /\ ChannelsOwn' /\ QueueInOrder' /\ ComingPublished' /\ ChannelsInOrder'
      /\ ClientsInOrder'
  BY DEF IInv, ReadRequest, chanVars, connVars, pubVars, ChannelsOwn,
     QueueInOrder, ComingPublished, ChannelsInOrder, ClientsInOrder, Coming,
     Passed
<1>3. ActorTypeOK'
  <2>1. at' = [at EXCEPT ![c] = "reply"] \/ at' = [at EXCEPT ![c] = "each"]
    BY DEF ReadRequest, Goto
  <2>2. QED
    BY <2>1 DEF IInv, TypeOK, ActorTypeOK, Places, ReadRequest
<1>4. ClientTypeOK'
  BY DEF IInv, ClientTypeOK, ReadRequest, TypeOK
<1>5. ActorsHold'
  BY Pairs
     DEF IInv, ActorsHold, ReadRequest, Goto, chanVars, connVars, pubVars,
     ActorTypeOK, ClientTypeOK, TypeOK
<1>6. MembersHold'
  BY Pairs
     DEF IInv, MembersHold, ReadRequest, chanVars, ChanTypeOK, ClientTypeOK,
     TypeOK
<1>7. SendingHold'
  <2>1. \A d \in Clients : login[d] \subseteq login'[d]
    BY DEF IInv, TypeOK, ClientTypeOK, ReadRequest
  <2>2. QED
    BY <2>1 DEF IInv, TypeOK, ChanTypeOK, SendingHold, ReadRequest, chanVars
<1>8. OnlyOwnAccounts'
  <2>1. \A d \in Clients : login[d] \subseteq login'[d]
    BY DEF IInv, TypeOK, ClientTypeOK, ReadRequest
  <2>2. QED
    BY <2>1 DEF IInv, OnlyOwnAccounts, ReadRequest, connVars
<1>9. LeavesAll'
  BY Pairs, Changes
     DEF IInv, LeavesAll, ReadRequest, Goto, chanVars, ActorTypeOK,
     ClientTypeOK, TypeOK
<1>10. GoneIsForgotten'
  BY Pairs
     DEF IInv, GoneIsForgotten, ReadRequest, Goto, chanVars, connVars,
     ActorTypeOK, TypeOK
<1>11. QED
  BY <1>1, <1>2, <1>3, <1>4, <1>5, <1>6, <1>7, <1>8, <1>9, <1>10
     DEF IInv, TypeOK

LEMMA SendReplyKeeps ==
  ASSUME IInv, NEW c \in Clients, SendReply(c)
  PROVE  IInv'
<1>1. PubTypeOK' /\ ChanTypeOK' /\ ClientTypeOK'
  BY DEF IInv, SendReply, chanVars, clientVars, pubVars, PubTypeOK,
     ChanTypeOK, ClientTypeOK, TypeOK
<1>2. /\ ChannelsOwn' /\ MembersHold' /\ SendingHold' /\ QueueInOrder'
      /\ ComingPublished' /\ ChannelsInOrder'
  BY DEF IInv, SendReply, chanVars, clientVars, pubVars, ChannelsOwn,
     MembersHold, SendingHold, QueueInOrder, ComingPublished,
     ChannelsInOrder, Coming, Passed
<1>3. ActorTypeOK'
  BY DEF IInv, ActorTypeOK, SendReply, Goto, AfterOne, Places, TypeOK
<1>4. ConnTypeOK'
  <2>1. /\ msgChan' \in [Clients -> Seq(Change \cup {Reply})]
        /\ \A d \in Clients : Len(msgChan'[d]) <= MsgCap
    BY SendMsgAppends DEF IInv, TypeOK, SendReply
  <2>2. QED
    BY <2>1 DEF IInv, TypeOK, ConnTypeOK, SendReply
<1>5. ActorsHold'
  BY DEF IInv, ActorsHold, SendReply, Goto, AfterOne, chanVars, clientVars,
     pubVars
<1>6. OnlyOwnAccounts'
  BY Changes DEF IInv, OnlyOwnAccounts, SendReply, SendMsg, clientVars
<1>7. LeavesAll'
  BY DEF IInv, LeavesAll, SendReply, Goto, AfterOne, chanVars, clientVars
<1>8. GoneIsForgotten'
  BY DEF IInv, GoneIsForgotten, SendReply, Goto, AfterOne, chanVars
<1>9. ClientsInOrder'
  <2>1. \A x : Passed(x)' <=> Passed(x)
    BY DEF Passed, Coming, SendReply, pubVars
  <2>2. \A d \in Clients : msgChan[d] \in Seq(Change \cup {Reply})
    BY DEF IInv, TypeOK, ConnTypeOK
  <2>3. \A x : Before(x, Reply) /\ Before(Reply, x)
    BY Changes DEF Before
  <2>4. ASSUME NEW d \in Clients
        PROVE  ClientsInOrder!(d)'
    <3>1. CASE msgChan'[d] = msgChan[d]
      BY <2>1, <3>1 DEF IInv, ClientsInOrder, SendReply, chanVars
    <3>2. CASE msgChan'[d] = Append(msgChan[d], Reply)
      <4>1. Ordered(msgChan'[d])
        BY <2>2, <2>3, <3>2, AppendOrdered DEF IInv, ClientsInOrder
      <4>2. \A i \in DOMAIN msgChan'[d] :
              msgChan'[d][i] = Reply \/ (i \in DOMAIN msgChan[d] /\ msgChan'[d][i] = msgChan[d][i])
        BY <3>2
      <4>3. QED
        BY <2>1, <2>3, <4>1, <4>2
           DEF IInv, ClientsInOrder, SendReply, chanVars
    <3>3. QED
      BY <3>1, <3>2, SendMsgAppends DEF IInv, TypeOK, SendReply
  <2>5. QED
    BY <2>4 DEF ClientsInOrder
<1>10. QED
  BY <1>1, <1>2, <1>3, <1>4, <1>5, <1>6, <1>7, <1>8, <1>9 DEF IInv, TypeOK

LEMMA SubscribeOneKeeps ==
  ASSUME IInv, NEW c \in Clients, NEW a \in Accounts, SubscribeOne(c, a)
  PROVE  IInv'
<1>1. PubTypeOK' /\ ChanTypeOK' /\ ConnTypeOK'
  BY DEF IInv, SubscribeOne, chanVars, connVars, pubVars, PubTypeOK,
     ChanTypeOK, ConnTypeOK, TypeOK
<1>2. /\ ChannelsOwn' /\ MembersHold' /\ SendingHold' /\ OnlyOwnAccounts'
      /\ QueueInOrder' /\ ComingPublished' /\ ChannelsInOrder'
      /\ ClientsInOrder'
  BY DEF IInv, SubscribeOne, chanVars, connVars, pubVars, ChannelsOwn,
     MembersHold, SendingHold, OnlyOwnAccounts, QueueInOrder,
     ComingPublished, ChannelsInOrder, ClientsInOrder, Coming, Passed
<1>3. ActorTypeOK'
  <2>1. CASE CheckLogin(c, a)
    BY <2>1
       DEF IInv, TypeOK, ActorTypeOK, ChanTypeOK, Places, SubscribeOne, Find,
       findChannel
  <2>2. CASE ~CheckLogin(c, a)
    BY <2>2 DEF IInv, TypeOK, ActorTypeOK, Places, SubscribeOne, Goto
  <2>3. QED
    BY <2>1, <2>2
<1>4. ClientTypeOK'
  BY DEF IInv, ClientTypeOK, SubscribeOne, TypeOK
<1>5. ActorsHold'
  BY Pairs, Changes
     DEF IInv, ActorsHold, SubscribeOne, CheckLogin, Find, findChannel, Goto,
     chanVars, connVars, pubVars, ChannelsOwn, ActorTypeOK, ChanTypeOK,
     TypeOK
<1>6. LeavesAll'
  BY Pairs
     DEF IInv, LeavesAll, SubscribeOne, Find, Goto, chanVars, ActorTypeOK,
     TypeOK
<1>7. GoneIsForgotten'
  BY Pairs
     DEF IInv, GoneIsForgotten, SubscribeOne, Find, Goto, chanVars, connVars,
     pubVars, LeavesAll, ActorTypeOK, TypeOK
<1>8. QED
  BY <1>1, <1>2, <1>3, <1>4, <1>5, <1>6, <1>7 DEF IInv, TypeOK

LEMMA AddSubscriberKeeps ==
  ASSUME IInv, NEW c \in Clients, AddSubscriber(c)
  PROVE  IInv'
<1>1. PubTypeOK' /\ ClientTypeOK' /\ ConnTypeOK'
  BY DEF IInv, AddSubscriber, clientVars, connVars, pubVars, PubTypeOK,
     ClientTypeOK, ConnTypeOK, TypeOK
<1>2. /\ ChannelsOwn' /\ SendingHold' /\ OnlyOwnAccounts' /\ QueueInOrder'
      /\ ComingPublished' /\ ChannelsInOrder' /\ ClientsInOrder'
  BY DEF IInv, AddSubscriber, clientVars, connVars, pubVars, ChannelsOwn,
     SendingHold, OnlyOwnAccounts, QueueInOrder, ComingPublished,
     ChannelsInOrder, ClientsInOrder, Coming, Passed
<1>3. ChanTypeOK'
  BY Changes DEF IInv, ChanTypeOK, AddSubscriber, TypeOK
<1>4. ActorTypeOK'
  BY DEF IInv, ActorTypeOK, AddSubscriber, Goto, AfterOne, Forget, Places,
     TypeOK
<1>5. ActorsHold'
  BY Pairs
     DEF IInv, ActorsHold, AddSubscriber, Goto, AfterOne, Forget, clientVars,
     pubVars, ActorTypeOK, TypeOK
<1>6. MembersHold'
  BY Pairs DEF IInv, MembersHold, AddSubscriber, clientVars, ActorsHold
<1>7. LeavesAll'
  BY DEF IInv, LeavesAll, AddSubscriber, Goto, AfterOne, clientVars
<1>8. GoneIsForgotten'
  BY DEF IInv, GoneIsForgotten, AddSubscriber, Goto, AfterOne
<1>9. QED
  BY <1>1, <1>2, <1>3, <1>4, <1>5, <1>6, <1>7, <1>8 DEF IInv, TypeOK

LEMMA UnsubscribeOneKeeps ==
  ASSUME IInv, NEW c \in Clients, NEW a \in Accounts, UnsubscribeOne(c, a)
  PROVE  IInv'
<1>1. PubTypeOK' /\ ChanTypeOK' /\ ConnTypeOK'
  BY DEF IInv, UnsubscribeOne, chanVars, connVars, pubVars, PubTypeOK,
     ChanTypeOK, ConnTypeOK, TypeOK
<1>2. /\ ChannelsOwn' /\ MembersHold' /\ SendingHold' /\ OnlyOwnAccounts'
      /\ QueueInOrder' /\ ComingPublished' /\ ChannelsInOrder'
      /\ ClientsInOrder'
  BY DEF IInv, UnsubscribeOne, chanVars, connVars, pubVars, ChannelsOwn,
     MembersHold, SendingHold, OnlyOwnAccounts, QueueInOrder,
     ComingPublished, ChannelsInOrder, ClientsInOrder, Coming, Passed
<1>3. ActorTypeOK'
  BY DEF IInv, ActorTypeOK, UnsubscribeOne, findChannel, Goto, ChanTypeOK,
     Places, TypeOK
<1>4. ClientTypeOK'
  BY DEF IInv, ClientTypeOK, UnsubscribeOne, TypeOK
<1>5. ActorsHold'
  BY DEF IInv, ActorsHold, UnsubscribeOne, findChannel, Goto, chanVars,
     pubVars, ChannelsOwn, ActorTypeOK, TypeOK
<1>6. LeavesAll'
  BY DEF IInv, LeavesAll, UnsubscribeOne, Goto, chanVars
<1>7. GoneIsForgotten'
  BY DEF IInv, GoneIsForgotten, UnsubscribeOne, Goto, chanVars
<1>8. QED
  BY <1>1, <1>2, <1>3, <1>4, <1>5, <1>6, <1>7 DEF IInv, TypeOK

LEMMA RemoveSubscriberKeeps ==
  ASSUME IInv, NEW c \in Clients, RemoveSubscriber(c)
  PROVE  IInv'
<1>1. PubTypeOK' /\ ClientTypeOK' /\ ConnTypeOK'
  BY DEF IInv, RemoveSubscriber, clientVars, connVars, pubVars, PubTypeOK,
     ClientTypeOK, ConnTypeOK, TypeOK
<1>2. /\ ChannelsOwn' /\ SendingHold' /\ OnlyOwnAccounts' /\ QueueInOrder'
      /\ ComingPublished' /\ ChannelsInOrder' /\ ClientsInOrder'
  BY DEF IInv, RemoveSubscriber, clientVars, connVars, pubVars, ChannelsOwn,
     SendingHold, OnlyOwnAccounts, QueueInOrder, ComingPublished,
     ChannelsInOrder, ClientsInOrder, Coming, Passed
<1>3. ChanTypeOK'
  BY DEF IInv, ChanTypeOK, RemoveSubscriber, TypeOK
<1>4. ActorTypeOK'
  BY DEF IInv, ActorTypeOK, RemoveSubscriber, Goto, AfterOne, Forget, Places,
     TypeOK
<1>5. ActorsHold'
  BY DEF IInv, ActorsHold, RemoveSubscriber, Goto, AfterOne, Forget,
     clientVars, pubVars, ActorTypeOK, TypeOK
<1>6. MembersHold'
  BY DEF IInv, MembersHold, RemoveSubscriber, clientVars
<1>7. LeavesAll'
  BY DEF IInv, LeavesAll, RemoveSubscriber, Goto, AfterOne, clientVars
<1>8. GoneIsForgotten'
  BY DEF IInv, GoneIsForgotten, RemoveSubscriber, Goto, AfterOne
<1>9. QED
  BY <1>1, <1>2, <1>3, <1>4, <1>5, <1>6, <1>7, <1>8 DEF IInv, TypeOK

LEMMA CloseKeeps ==
  ASSUME IInv, NEW c \in Clients, Close(c)
  PROVE  IInv'
<1>1. PubTypeOK' /\ ChanTypeOK' /\ ClientTypeOK'
  BY DEF IInv, Close, chanVars, clientVars, pubVars, PubTypeOK, ChanTypeOK,
     ClientTypeOK, TypeOK
<1>2. /\ ChannelsOwn' /\ MembersHold' /\ SendingHold' /\ OnlyOwnAccounts'
      /\ QueueInOrder' /\ ComingPublished' /\ ChannelsInOrder'
      /\ ClientsInOrder'
  BY DEF IInv, Close, chanVars, clientVars, pubVars, ChannelsOwn,
     MembersHold, SendingHold, OnlyOwnAccounts, QueueInOrder,
     ComingPublished, ChannelsInOrder, ClientsInOrder, Coming, Passed
<1>3. ActorTypeOK'
  BY DEF IInv, ActorTypeOK, Close, Goto, Places, TypeOK
<1>4. ConnTypeOK'
  BY DEF IInv, ConnTypeOK, Close, TypeOK
<1>5. ActorsHold'
  BY DEF IInv, ActorsHold, Close, Goto, chanVars, clientVars, pubVars
<1>6. LeavesAll'
  BY DEF IInv, LeavesAll, Close, Goto, chanVars, clientVars
<1>7. GoneIsForgotten'
  BY DEF IInv, GoneIsForgotten, Close, Goto, chanVars
<1>8. QED
  BY <1>1, <1>2, <1>3, <1>4, <1>5, <1>6, <1>7 DEF IInv, TypeOK

LEMMA LeaveKeeps ==
  ASSUME IInv, NEW c \in Clients, Leave(c)
  PROVE  IInv'
<1>1. PubTypeOK' /\ ChanTypeOK' /\ ConnTypeOK'
  BY DEF IInv, Leave, chanVars, connVars, pubVars, PubTypeOK, ChanTypeOK,
     ConnTypeOK, TypeOK
<1>2. /\ ChannelsOwn' /\ MembersHold' /\ SendingHold' /\ OnlyOwnAccounts'
      /\ QueueInOrder' /\ ComingPublished' /\ ChannelsInOrder'
      /\ ClientsInOrder'
  BY DEF IInv, Leave, chanVars, connVars, pubVars, ChannelsOwn, MembersHold,
     SendingHold, OnlyOwnAccounts, QueueInOrder, ComingPublished,
     ChannelsInOrder, ClientsInOrder, Coming, Passed
<1>3. ActorTypeOK'
  BY DEF IInv, ActorTypeOK, Leave, Goto, StillLeaving, Places, TypeOK
<1>4. ClientTypeOK'
  BY DEF IInv, ClientTypeOK, Leave, ToLeave, TypeOK
<1>5. ActorsHold'
  BY DEF IInv, ActorsHold, Leave, Goto, StillLeaving, chanVars, pubVars
<1>6. LeavesAll'
  BY DEF IInv, LeavesAll, Leave, Goto, ToLeave, chanVars, ClientTypeOK, TypeOK
<1>7. GoneIsForgotten'
  BY DEF IInv, GoneIsForgotten, Leave, Goto, ToLeave, StillLeaving, chanVars
<1>8. QED
  BY <1>1, <1>2, <1>3, <1>4, <1>5, <1>6, <1>7 DEF IInv, TypeOK

LEMMA LeaveChannelKeeps ==
  ASSUME IInv, NEW c \in Clients, NEW a \in Accounts, LeaveChannel(c, a)
  PROVE  IInv'
<1>1. PubTypeOK' /\ ConnTypeOK'
  BY DEF IInv, LeaveChannel, connVars, pubVars, PubTypeOK, ConnTypeOK, TypeOK
<1>2. /\ ChannelsOwn' /\ SendingHold' /\ OnlyOwnAccounts' /\ QueueInOrder'
      /\ ComingPublished' /\ ChannelsInOrder' /\ ClientsInOrder'
  BY DEF IInv, LeaveChannel, connVars, pubVars, ChannelsOwn, SendingHold,
     OnlyOwnAccounts, QueueInOrder, ComingPublished, ChannelsInOrder,
     ClientsInOrder, Coming, Passed
<1>3. ChanTypeOK'
  BY DEF IInv, ChanTypeOK, LeaveChannel, TypeOK
<1>4. ActorTypeOK'
  BY DEF IInv, ActorTypeOK, LeaveChannel, Goto, StillLeaving, Places, TypeOK
<1>5. ClientTypeOK'
  BY DEF IInv, ClientTypeOK, LeaveChannel, TypeOK
<1>6. ActorsHold'
  BY DEF IInv, ActorsHold, LeaveChannel, Goto, StillLeaving, pubVars
<1>7. MembersHold'
  BY DEF IInv, MembersHold, LeaveChannel
<1>8. LeavesAll'
  BY DEF IInv, LeavesAll, LeaveChannel, Goto, ChanTypeOK, TypeOK
<1>9. GoneIsForgotten'
  BY DEF IInv, GoneIsForgotten, LeaveChannel, Goto, StillLeaving, LeavesAll,
     ChanTypeOK, TypeOK
<1>10. QED
  BY <1>1, <1>2, <1>3, <1>4, <1>5, <1>6, <1>7, <1>8, <1>9 DEF IInv, TypeOK

LEMMA ConnectionKeeps ==
  ASSUME IInv, NEW c \in Clients, SenderEnds(c) \/ PingFails(c) \/ ConnectionEnds(c)
  PROVE  IInv'
<1>1. TypeOK'
  BY DEF IInv, TypeOK, PubTypeOK, ChanTypeOK, ActorTypeOK, ClientTypeOK,
     ConnTypeOK, SenderEnds, PingFails, ConnectionEnds, pubVars, chanVars,
     actorVars, clientVars
<1>2. QED
  BY <1>1
     DEF IInv, SenderEnds, PingFails, ConnectionEnds, pubVars, chanVars,
     actorVars, clientVars, ChannelsOwn, ActorsHold, MembersHold,
     SendingHold, OnlyOwnAccounts, LeavesAll, GoneIsForgotten, QueueInOrder,
     ComingPublished, ChannelsInOrder, ClientsInOrder, Passed, Coming

LEMMA InitIInv == Init => IInv
<1> SUFFICES ASSUME Init PROVE IInv
  OBVIOUS
<1>1. PubTypeOK /\ ChanTypeOK
  BY WebsocketAssumption DEF Init, PubTypeOK, ChanTypeOK
<1>2. ActorTypeOK /\ ClientTypeOK
  BY WebsocketAssumption DEF Init, ActorTypeOK, ClientTypeOK, Places
<1>3. ConnTypeOK
  BY WebsocketAssumption DEF Init, ConnTypeOK
<1>4. ChannelsOwn /\ ActorsHold /\ MembersHold /\ SendingHold
  BY Pairs DEF Init, ChannelsOwn, ActorsHold, MembersHold, SendingHold
<1>5. OnlyOwnAccounts /\ LeavesAll /\ GoneIsForgotten
  BY DEF Init, OnlyOwnAccounts, LeavesAll, GoneIsForgotten
<1>6. Coming = {}
  BY Pairs DEF Init, Coming
<1>7. QueueInOrder /\ ComingPublished /\ ChannelsInOrder /\ ClientsInOrder
  BY <1>6
     DEF Init, QueueInOrder, ComingPublished, ChannelsInOrder,
     ClientsInOrder, Ordered
<1>8. QED
  BY <1>1, <1>2, <1>3, <1>4, <1>5, <1>7 DEF IInv, TypeOK

LEMMA StutterKeeps ==
  ASSUME IInv, UNCHANGED vars
  PROVE  IInv'
<1>1. TypeOK'
  BY DEF vars, pubVars, chanVars, actorVars, clientVars, connVars, IInv,
     TypeOK, PubTypeOK, ChanTypeOK, ActorTypeOK, ClientTypeOK, ConnTypeOK
<1>2. QED
  BY <1>1
     DEF vars, pubVars, chanVars, actorVars, clientVars, connVars, IInv,
     ChannelsOwn, ActorsHold, MembersHold, SendingHold, OnlyOwnAccounts,
     LeavesAll, GoneIsForgotten, QueueInOrder, ComingPublished,
     ChannelsInOrder, ClientsInOrder, Passed, Coming

\* IInv is inductive.
THEOREM InductiveInvariant == Spec => []IInv
<1>1. IInv /\ [Next]_vars => IInv'
  <2> SUFFICES ASSUME IInv, [Next]_vars PROVE IInv'
    OBVIOUS
  <2>1. CASE Publish
    BY <2>1, PublishKeeps
  <2>2. CASE ConsumerStep
    BY <2>2, Pairs, ReceiveKeeps, AddMessageKeeps, CreateChannelKeeps,
       WaitToSaveKeeps
       DEF ConsumerStep
  <2>3. ASSUME NEW h \in Channels, ChannelStep(h) PROVE IInv'
    BY <2>3, ForwardKeeps DEF ChannelStep
  <2>4. ASSUME NEW c \in Clients, ReaderStep(c) PROVE IInv'
    BY <2>4, Pairs, CreateChannelKeeps, WaitToSaveKeeps, SendReplyKeeps,
       AddSubscriberKeeps, RemoveSubscriberKeeps, SubscribeOneKeeps,
       UnsubscribeOneKeeps, LeaveChannelKeeps, CloseKeeps, LeaveKeeps
       DEF ReaderStep
  <2>5. ASSUME NEW c \in Clients, SenderStep(c) PROVE IInv'
    BY <2>5, WriteKeeps, ConnectionKeeps DEF SenderStep
  <2>6. CASE Environment
    BY <2>6, ConsumerExitsKeeps, OrderChangesKeeps, ReadRequestKeeps,
       ConnectionKeeps
       DEF Environment
  <2>7. CASE UNCHANGED vars
    BY <2>7, StutterKeeps
  <2>8. QED
    BY <2>1, <2>2, <2>3, <2>4, <2>5, <2>6, <2>7 DEF Next
<1>2. QED
  BY InitIInv, <1>1, PTL DEF Spec

\* wsChan and the msgChan of every client hold what belongs there and keep
\* within their capacities.
THEOREM TypeCorrect == Spec => []TypeOK
<1>1. IInv => TypeOK
  BY DEF IInv
<1>2. QED
  BY InductiveInvariant, <1>1, PTL

\* handleClientRequest lets a client subscribe only to accounts it has logged
\* in with, and handleMessage queues it changes of no other account.
THEOREM OwnAccountsOnly == Spec => []OnlyOwnAccounts
<1>1. IInv => OnlyOwnAccounts
  BY DEF IInv
<1>2. QED
  BY InductiveInvariant, <1>1, PTL

\* A client whose reader has ended is off every registered channel: Close and
\* RemoveSubscriberAllChannels race with channels made by saveChannel.
THEOREM GoneClientsForgotten == Spec => []GoneIsForgotten
<1>1. IInv => GoneIsForgotten
  BY DEF IInv
<1>2. QED
  BY InductiveInvariant, <1>1, PTL

LEMMA ConcatOrdered ==
  ASSUME NEW S, NEW s \in Seq(S), NEW t \in Seq(S), Ordered(s), Ordered(t),
         \A i \in DOMAIN s, j \in DOMAIN t : Before(s[i], t[j])
  PROVE  /\ s \o t \in Seq(S) /\ Ordered(s \o t)
         /\ \A k \in DOMAIN (s \o t) :
              \/ \E i \in DOMAIN s : (s \o t)[k] = s[i]
              \/ \E j \in DOMAIN t : (s \o t)[k] = t[j]
<1>1. /\ s \o t \in Seq(S) /\ Len(s) \in Nat /\ Len(t) \in Nat /\ Len(s \o t) = Len(s) + Len(t)
      /\ DOMAIN s = 1..Len(s) /\ DOMAIN t = 1..Len(t) /\ DOMAIN (s \o t) = 1..Len(s \o t)
  OBVIOUS
<1>2. \A k \in 1..Len(s) : (s \o t)[k] = s[k]
  OBVIOUS
<1>3. \A k \in (Len(s) + 1)..Len(s \o t) : k - Len(s) \in DOMAIN t /\ (s \o t)[k] = t[k - Len(s)]
  OBVIOUS
<1>4. Ordered(s \o t)
  <2> SUFFICES ASSUME NEW i \in DOMAIN (s \o t), NEW j \in DOMAIN (s \o t), i < j
               PROVE  Before((s \o t)[i], (s \o t)[j])
    BY DEF Ordered
  <2>1. CASE j <= Len(s)
    BY <2>1 DEF Ordered
  <2>2. CASE i <= Len(s) /\ Len(s) < j
    BY <2>2
  <2>3. CASE Len(s) < i
    BY <1>1, <1>3, <2>3 DEF Ordered
  <2>4. QED
    BY <1>1, <2>1, <2>2, <2>3
<1>5. QED
  BY <1>3, <1>4

LEMMA OneOrNone ==
  ASSUME NEW S, NEW b \in BOOLEAN, NEW x, b => x \in S
  PROVE  /\ (IF b THEN <<x>> ELSE <<>>) \in Seq(S)
         /\ Ordered(IF b THEN <<x>> ELSE <<>>)
         /\ \A i \in DOMAIN (IF b THEN <<x>> ELSE <<>>) :
              b /\ (IF b THEN <<x>> ELSE <<>>)[i] = x
BY DEF Ordered

LEMMA WayOrdered ==
  ASSUME IInv, NEW c \in Clients, NEW h \in Channels
  PROVE  Ordered(OnTheWay(c, h))
<1> DEFINE M == Change \cup {Reply}
           q == msgChan[c]
           r == IF c \in sending[h] THEN <<current[h]>> ELSE <<>>
           s == IF held # None THEN <<held>> ELSE <<>>
           t == IF pending # None THEN <<pending>> ELSE <<>>
<1>1. q \in Seq(M) /\ Ordered(q) /\ wsChan \in Seq(M) /\ Ordered(wsChan)
  BY DEF IInv, TypeOK, PubTypeOK, ConnTypeOK, ClientsInOrder, QueueInOrder
<1>2. /\ r \in Seq(M) /\ Ordered(r)
      /\ \A i \in DOMAIN r : c \in sending[h] /\ r[i] = current[h]
  <2>1. c \in sending[h] => current[h] \in M
    BY DEF IInv, SendingHold
  <2>2. QED
    BY <2>1, OneOrNone
<1>3. /\ s \in Seq(M) /\ Ordered(s)
      /\ \A i \in DOMAIN s : held # None /\ s[i] = held /\ held \in Coming
  <2>1. held # None => held \in Change /\ held \in Coming
    BY DEF IInv, TypeOK, PubTypeOK, Coming
  <2>2. QED
    BY <2>1, OneOrNone
<1>4. /\ t \in Seq(M) /\ Ordered(t)
      /\ \A i \in DOMAIN t : pending # None /\ t[i] = pending /\ pending \in Coming
  <2>1. pending # None => pending \in Change /\ pending \in Coming
    BY DEF IInv, TypeOK, PubTypeOK, Coming
  <2>2. QED
    BY <2>1, OneOrNone
<1>5. \A i \in DOMAIN wsChan : wsChan[i] \in Coming
  BY DEF IInv, TypeOK, PubTypeOK, Coming
<1> HIDE DEF q, r, s, t, M
<1>6. \A i \in DOMAIN q :
        /\ \A j \in DOMAIN r : Before(q[i], r[j])
        /\ \A y \in Coming : Before(q[i], y)
  <2>1. \A y : Before(Reply, y)
    BY Changes DEF Before
  <2>2. QED
    BY <1>2, <2>1 DEF IInv, ClientsInOrder, Passed, q
<1>7. \A j \in DOMAIN r, y \in Coming : Before(r[j], y)
  BY <1>2 DEF IInv, ChannelsInOrder, Passed
<1>8. /\ \A i \in DOMAIN s, j \in DOMAIN wsChan : Before(s[i], wsChan[j])
      /\ \A i \in DOMAIN s, j \in DOMAIN t : Before(s[i], t[j])
      /\ \A i \in DOMAIN wsChan, j \in DOMAIN t : Before(wsChan[i], t[j])
  BY <1>3, <1>4 DEF IInv, QueueInOrder
<1>9. /\ q \o r \in Seq(M) /\ Ordered(q \o r)
      /\ \A k \in DOMAIN (q \o r), y \in Coming : Before((q \o r)[k], y)
  BY <1>1, <1>2, <1>6, <1>7, ConcatOrdered
<1>10. /\ q \o r \o s \in Seq(M) /\ Ordered(q \o r \o s)
       /\ \A k \in DOMAIN (q \o r \o s), j \in DOMAIN wsChan : Before((q \o r \o s)[k], wsChan[j])
       /\ \A k \in DOMAIN (q \o r \o s), j \in DOMAIN t : Before((q \o r \o s)[k], t[j])
  <2>1. \A i \in DOMAIN (q \o r), j \in DOMAIN s : Before((q \o r)[i], s[j])
    BY <1>3, <1>9
  <2>2. \A y \in Coming : (\A i \in DOMAIN s : Before(s[i], y)) =>
          \A k \in DOMAIN (q \o r \o s) : Before((q \o r \o s)[k], y)
    BY <1>9, <2>1, ConcatOrdered
  <2>3. q \o r \o s \in Seq(M) /\ Ordered(q \o r \o s)
    BY <1>3, <1>9, <2>1, ConcatOrdered
  <2>4. QED
    BY <1>4, <1>5, <1>8, <2>2, <2>3
<1>11. /\ q \o r \o s \o wsChan \in Seq(M) /\ Ordered(q \o r \o s \o wsChan)
       /\ \A k \in DOMAIN (q \o r \o s \o wsChan), j \in DOMAIN t :
            Before((q \o r \o s \o wsChan)[k], t[j])
  <2> DEFINE u == q \o r \o s
  <2>1. /\ u \in Seq(M) /\ Ordered(u)
        /\ \A k \in DOMAIN u : /\ \A j \in DOMAIN wsChan : Before(u[k], wsChan[j])
                               /\ \A j \in DOMAIN t : Before(u[k], t[j])
    BY <1>10
  <2> HIDE DEF u
  <2>2. u \o wsChan \in Seq(M) /\ Ordered(u \o wsChan)
        /\ \A k \in DOMAIN (u \o wsChan) :
             \/ \E i \in DOMAIN u : (u \o wsChan)[k] = u[i]
             \/ \E j \in DOMAIN wsChan : (u \o wsChan)[k] = wsChan[j]
    BY <1>1, <2>1, ConcatOrdered
  <2>3. \A k \in DOMAIN (u \o wsChan), j \in DOMAIN t : Before((u \o wsChan)[k], t[j])
    BY <1>8, <2>1, <2>2
  <2>4. QED
    BY <2>2, <2>3 DEF u
<1>12. Ordered(q \o r \o s \o wsChan \o t)
  BY <1>4, <1>11, ConcatOrdered
<1>13. QED
  BY <1>12 DEF OnTheWay, q, r, s, t

\* Published changes reach a client in the order of publication and none
\* twice, on their way through wsChan, startConsumer, handleMessage and the
\* client's msgChan.
THEOREM InOrderOfPublication == Spec => []ChangesInOrder
<1>1. IInv => ChangesInOrder
  <2> SUFFICES ASSUME IInv, NEW c \in Clients, NEW h \in Channels,
                      NEW i \in DOMAIN OnTheWay(c, h), NEW j \in DOMAIN OnTheWay(c, h), i < j,
                      OnTheWay(c, h)[i].account = h[1], OnTheWay(c, h)[j].account = h[1]
               PROVE  OnTheWay(c, h)[i].n < OnTheWay(c, h)[j].n
    BY DEF ChangesInOrder
  <2>1. Before(OnTheWay(c, h)[i], OnTheWay(c, h)[j])
    BY WayOrdered DEF Ordered
  <2>2. QED
    BY <2>1, Pairs DEF Before
<1>2. QED
  BY InductiveInvariant, <1>1, PTL

\* No step of another goroutine takes a subscriber off a registered channel:
\* saveChannel keeps the channel that is there, and the channels remove only
\* the client that asks for it.
THEOREM SubscribersStay == Spec => StaysSubscribed
<1>1. IInv /\ [Next]_vars =>
        [\A c \in Clients, a \in Accounts :
           /\ allChannels[a] # None /\ c \in members[allChannels[a]]
           /\ at[c] \notin {"remove", "leaving"}
           => c \in members'[allChannels'[a]]]_vars
  <2> SUFFICES ASSUME IInv, Next, NEW c \in Clients, NEW a \in Accounts,
                      allChannels[a] # None, c \in members[allChannels[a]],
                      at[c] \notin {"remove", "leaving"}
               PROVE  c \in members'[allChannels'[a]]
    OBVIOUS
  <2>1. allChannels[a] \in Channels
    BY DEF IInv, TypeOK, ChanTypeOK
  <2>2. ASSUME UNCHANGED <<allChannels, members>>
        PROVE  c \in members'[allChannels'[a]]
    BY <2>2
  <2>3. ASSUME NEW p \in Actors, CreateChannel(p)
        PROVE  allChannels'[a] = allChannels[a] /\ UNCHANGED members
    BY <2>3 DEF CreateChannel, Registered
  <2>4. ASSUME NEW d \in Clients, AddSubscriber(d)
        PROVE  c \in members'[allChannels'[a]]
    BY <2>4 DEF AddSubscriber
  <2>5. ASSUME NEW d \in Clients, RemoveSubscriber(d)
        PROVE  c \in members'[allChannels'[a]]
    BY <2>5 DEF RemoveSubscriber
  <2>6. ASSUME NEW d \in Clients, NEW b \in Accounts, LeaveChannel(d, b)
        PROVE  c \in members'[allChannels'[a]]
    BY <2>6 DEF LeaveChannel
  <2>7. CASE Publish \/ Environment
    BY <2>7
       DEF Publish, Environment, ConsumerExits, OrderChanges, ReadRequest,
       PingFails, ConnectionEnds, chanVars
  <2>8. CASE ConsumerStep
    BY <2>3, <2>8, Pairs
       DEF ConsumerStep, Receive, AddMessage, WaitToSave, chanVars
  <2>9. ASSUME NEW h \in Channels, ChannelStep(h)
        PROVE  c \in members'[allChannels'[a]]
    BY <2>9 DEF ChannelStep, Forward
  <2>10. ASSUME NEW d \in Clients, ReaderStep(d)
         PROVE  c \in members'[allChannels'[a]]
    BY <2>3, <2>4, <2>5, <2>6, <2>10, Pairs
       DEF ReaderStep, WaitToSave, SendReply, SubscribeOne, UnsubscribeOne,
       Close, Leave, chanVars
  <2>11. ASSUME NEW d \in Clients, SenderStep(d)
         PROVE  c \in members'[allChannels'[a]]
    BY <2>11 DEF SenderStep, Write, SenderEnds, chanVars
  <2>12. QED
    BY <2>7, <2>8, <2>9, <2>10, <2>11 DEF Next
<1>2. QED
  BY InductiveInvariant, <1>1, PTL DEF Spec, StaysSubscribed
=============================================================================
