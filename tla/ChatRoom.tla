------------------------------ MODULE ChatRoom ------------------------------
(***************************************************************************)
(* The chat of a trip: rooms of the RedisConnectionManager on the          *)
(* ws-gateway pods, with one Redis subscription per pod and room, the      *)
(* relay of a chat message, and chat-service, which stores it.             *)
(*                                                                         *)
(* A socket is served by the pod Home[s].  JoinRoom, LeaveRoom and Remove  *)
(* hold the manager's mutex and are atomic.  Whether the sender is part of *)
(* the trip is decided by the pair keys of module TripPair; a message that *)
(* is refused leaves no trace.  A message stands for one frame that a      *)
(* client sends.  Its id may be the client's choice, so that two messages  *)
(* can have one id.                                                        *)
(***************************************************************************)
EXTENDS Naturals

CONSTANTS
  Pods, Sockets, Rooms, Msgs, Ids,
  Earlier,    \* messages that were sent before
  Home,       \* Home[s]: the pod of socket s
  RoomOf,     \* RoomOf[m]: the room of the trip that message m is about
  IdOf,       \* IdOf[m]: the id under which message m is stored
  MaxChatFaults   \* bound: Redis, broker and database errors, and crashes

ASSUME ChatAssumption ==
  /\ Home \in [Sockets -> Pods]
  /\ RoomOf \in [Msgs -> Rooms]
  /\ IdOf \in [Msgs -> Ids]
  /\ Earlier \subseteq Msgs
  /\ MaxChatFaults \in Nat

VARIABLES
  sock,         \* sock[s]: "new", "open" (in its read loop) or "closed"
  local,        \* sockets in the registry of their pod
  socketRooms,  \* rooms of each socket
  roomSockets,  \* sockets of each room, on all pods
  roomSubs,     \* roomSubs[p][r]: "none", "asked" or "live" at Redis
  relay,        \* what the handler of each socket is doing with a message
  inbox,        \* inbox[p][r]: messages buffered for runRoomSubscription
  writes,       \* <<s, m>>: deliverToRoomLocally is to write m to s
  chatQueue,    \* the queue chat_cmd_send
  service,      \* chat-service: "up", "deaf" (its channel is lost) or "down"
  chat,         \* chat-service's handler
  stored,       \* the collection chat_messages
  receipts,     \* chat.event.delivered published
  chatFaults,
  sent,         \* history: messages that a handler has begun to relay
  queued,       \* history: messages that were published to chat_cmd_send
  owed,         \* history: <<s, m>>, member s was subscribed when m was published
  got           \* got[s][m]: how often m was written to s

sockVars == <<sock, local>>
roomVars == <<socketRooms, roomSockets, roomSubs>>
storeVars == <<chatQueue, service, chat, stored, receipts, queued>>
chatVars == <<sockVars, roomVars, relay, inbox, writes, storeVars, chatFaults,
          sent, owed, got>>

----------------------------------------------------------------------------
(* Data *)

Open == {s \in Sockets : sock[s] = "open"}

AtRest == [pc |-> "idle"]
Relaying == [pc : {"broadcast", "publish"}, msg : Msgs]
Storing == [pc : {"save", "receipt"}, msg : Msgs]

ChatFault == chatFaults < MaxChatFaults /\ chatFaults' = chatFaults + 1

\* Local members of room r on pod p.
On(p, members) == {s \in members : Home[s] = p}

ChatInit ==
  /\ sock = [s \in Sockets |-> "new"]
  /\ local = {}
  /\ socketRooms = [s \in Sockets |-> {}]
  /\ roomSockets = [r \in Rooms |-> {}]
  /\ roomSubs = [p \in Pods |-> [r \in Rooms |-> "none"]]
  /\ relay = [s \in Sockets |-> AtRest]
  /\ inbox = [p \in Pods |-> [r \in Rooms |-> {}]]
  /\ writes = {}
  /\ chatQueue = {} /\ service = "up" /\ chat = AtRest /\ receipts = {}
  /\ stored \in SUBSET Earlier    \* the others did not reach the queue
  /\ queued = stored
  /\ chatFaults = 0
  /\ sent = Earlier /\ owed = {}
  /\ got = [s \in Sockets |-> [m \in Msgs |-> 0]]

----------------------------------------------------------------------------
(* Sockets and rooms *)

Add(s) ==
  /\ sock[s] = "new"
  /\ sock' = [sock EXCEPT ![s] = "open"]
  /\ local' = local \cup {s}
  /\ UNCHANGED <<roomVars, relay, inbox, writes, storeVars, chatFaults,
                 sent, owed, got>>

\* A frame ws.room.join or ws.topic.subscribe, or the driver accepts.  The
\* first local member subscribes.
JoinRoom(s, r) ==
  /\ s \in Open
  /\ relay[s] = AtRest
  /\ socketRooms' = [socketRooms EXCEPT ![s] = @ \cup {r}]
  /\ roomSockets' = [roomSockets EXCEPT ![r] = @ \cup {s}]
  /\ roomSubs' = IF roomSubs[Home[s]][r] # "none" THEN roomSubs
                   ELSE [roomSubs EXCEPT ![Home[s]][r] = "asked"]
  /\ UNCHANGED <<sockVars, relay, inbox, writes, storeVars, chatFaults,
                 sent, owed, got>>

\* Redis gets the SUBSCRIBE.
SubscriptionStarts(p, r) ==
  /\ roomSubs[p][r] = "asked"
  /\ roomSubs' = [roomSubs EXCEPT ![p][r] = "live"]
  /\ UNCHANGED <<sockVars, socketRooms, roomSockets, relay, inbox,
                 writes, storeVars, chatFaults, sent, owed, got>>

\* Mutant of Leaves: the entry goes and the subscription stays open.
LeavesSubscribed(s, rs) ==
  /\ socketRooms' = [socketRooms EXCEPT ![s] = @ \ rs]
  /\ roomSockets' = [r \in Rooms |-> IF r \in rs THEN roomSockets[r] \ {s}
                                       ELSE roomSockets[r]]
  /\ UNCHANGED <<roomSubs, inbox, owed>>

\* Socket s leaves the rooms rs; the last local member closes the
\* subscription, whose goroutine may or may not handle what it has buffered.
Leaves(s, rs) ==
  LET p == Home[s]
      closed == {r \in rs : On(p, roomSockets[r]) \subseteq {s}}
  IN  /\ socketRooms' = [socketRooms EXCEPT ![s] = @ \ rs]
      /\ roomSockets' = [r \in Rooms |-> IF r \in rs THEN roomSockets[r] \ {s}
                                           ELSE roomSockets[r]]
      /\ roomSubs' = [roomSubs EXCEPT ![p] = [r \in Rooms |->
                        IF r \in closed THEN "none" ELSE @[r]]]
      /\ \E kept \in [closed -> SUBSET Msgs] :
           /\ \A r \in closed : kept[r] \subseteq inbox[p][r]
           /\ inbox' = [inbox EXCEPT ![p] = [r \in Rooms |->
                          IF r \in closed THEN kept[r] ELSE @[r]]]
      /\ owed' = {x \in owed : x[1] # s \/ RoomOf[x[2]] \notin rs}

\* A frame ws.room.leave or ws.topic.unsubscribe, or LeaveUserFromRoom of a
\* consumer that handles the end of the trip, which sees registered sockets.
LeaveRoom(s, r) ==
  /\ r \in socketRooms[s]
  /\ \/ s \in Open /\ relay[s] = AtRest
     \/ s \in local
  /\ Leaves(s, {r})
  /\ UNCHANGED <<sockVars, relay, writes, storeVars, chatFaults, sent, got>>

\* The read loop has ended: the socket is taken out of every room.
Remove(s) ==
  /\ s \in Open
  /\ relay[s] = AtRest
  /\ sock' = [sock EXCEPT ![s] = "closed"]
  /\ local' = local \ {s}
  /\ Leaves(s, socketRooms[s])
  /\ UNCHANGED <<relay, writes, storeVars, chatFaults, sent, got>>

----------------------------------------------------------------------------
(* relayTripChatMessage *)

\* The keys say that the sender is part of the trip.
ResolveTripChatPeer(s, m) ==
  /\ s \in Open
  /\ relay[s] = AtRest
  /\ m \notin sent
  /\ sent' = sent \cup {m}
  /\ relay' = [relay EXCEPT ![s] = [pc |-> "broadcast", msg |-> m]]
  /\ UNCHANGED <<sockVars, roomVars, inbox, writes, storeVars, chatFaults,
                 owed, got>>

\* PUBLISH reaches every pod whose subscription is live.
Publish(m) ==
  LET r == RoomOf[m]
      live == {p \in Pods : roomSubs[p][r] = "live"}
  IN  /\ inbox' = [p \in Pods |-> IF p \notin live THEN inbox[p]
                                   ELSE [inbox[p] EXCEPT ![r] = @ \cup {m}]]
      /\ owed' = owed \cup {<<s, m>> : s \in {x \in roomSockets[r] :
                                                Home[x] \in live}}

\* Mutant of BroadcastToRoom: the sender's pod also writes to its sockets.
BroadcastLocallyToo(s) ==
  /\ relay[s].pc = "broadcast"
  /\ Publish(relay[s].msg)
  /\ got' = [u \in Sockets |->
       IF u \in On(Home[s], roomSockets[RoomOf[relay[s].msg]])
         THEN [got[u] EXCEPT ![relay[s].msg] = @ + 1] ELSE got[u]]
  /\ relay' = [relay EXCEPT ![s].pc = "publish"]
  /\ UNCHANGED <<sockVars, roomVars, writes, storeVars, chatFaults, sent>>

\* An error is logged and the message goes on to be stored.
BroadcastToRoom(s) ==
  /\ relay[s].pc = "broadcast"
  /\ \/ Publish(relay[s].msg) /\ UNCHANGED chatFaults
     \/ ChatFault /\ UNCHANGED <<inbox, owed>>
  /\ relay' = [relay EXCEPT ![s].pc = "publish"]
  /\ UNCHANGED <<sockVars, roomVars, writes, storeVars, sent, got>>

\* chat.cmd.send; an error is logged.
PublishChatCmd(s) ==
  /\ relay[s].pc = "publish"
  /\ \/ /\ chatQueue' = chatQueue \cup {relay[s].msg}
        /\ queued' = queued \cup {relay[s].msg}
        /\ UNCHANGED chatFaults
     \/ ChatFault /\ UNCHANGED <<chatQueue, queued>>
  /\ relay' = [relay EXCEPT ![s] = AtRest]
  /\ UNCHANGED <<sockVars, roomVars, inbox, writes, service, chat, stored,
                 receipts, sent, owed, got>>

----------------------------------------------------------------------------
(* runRoomSubscription *)

\* Mutant of deliverToRoomLocally: the message goes to one socket of the room.
DeliverToOne(p, r, m) ==
  /\ m \in inbox[p][r]
  /\ inbox' = [inbox EXCEPT ![p][r] = @ \ {m}]
  /\ IF On(p, roomSockets[r]) = {} THEN UNCHANGED writes
       ELSE \E s \in On(p, roomSockets[r]) : writes' = writes \cup {<<s, m>>}
  /\ UNCHANGED <<sockVars, roomVars, relay, storeVars, chatFaults, sent,
                 owed, got>>

\* The members are copied under the mutex and written to without it.
deliverToRoomLocally(p, r, m) ==
  /\ m \in inbox[p][r]
  /\ inbox' = [inbox EXCEPT ![p][r] = @ \ {m}]
  /\ writes' = writes \cup {<<s, m>> : s \in On(p, roomSockets[r])}
  /\ UNCHANGED <<sockVars, roomVars, relay, storeVars, chatFaults, sent,
                 owed, got>>

\* An unregistered socket is skipped; a failed write unregisters the socket.
SendToSocket(s, m) ==
  /\ <<s, m>> \in writes
  /\ writes' = writes \ {<<s, m>>}
  /\ \/ s \in local /\ got' = [got EXCEPT ![s][m] = @ + 1] /\ UNCHANGED local
     \/ local' = local \ {s} /\ UNCHANGED got
  /\ UNCHANGED <<sock, roomVars, relay, inbox, storeVars, chatFaults, sent,
                 owed>>

----------------------------------------------------------------------------
(* chat-service *)

\* Mutant of Receive: the delivery counts as acknowledged when it is sent.
ReceiveAutoAck(m) ==
  /\ service = "up"
  /\ chat = AtRest
  /\ m \in chatQueue
  /\ chatQueue' = chatQueue \ {m}
  /\ chat' = [pc |-> "save", msg |-> m]
  /\ UNCHANGED <<sockVars, roomVars, relay, inbox, writes, service, stored,
                 receipts, queued, chatFaults, sent, owed, got>>

Receive(m) ==
  /\ service = "up"
  /\ chat = AtRest
  /\ m \in chatQueue
  /\ chat' = [pc |-> "save", msg |-> m]
  /\ UNCHANGED <<sockVars, roomVars, relay, inbox, writes, chatQueue, service,
                 stored, receipts, queued, chatFaults, sent, owed, got>>

\* The collection has a message under the id of m.
Taken(m) == \E n \in stored : IdOf[n] = IdOf[m]

\* InsertOne under the message id.  Every error, that of an id which is there
\* already too, gives the delivery back to the queue.
Save ==
  /\ chat.pc = "save"
  /\ \/ /\ ~Taken(chat.msg)
        /\ stored' = stored \cup {chat.msg}
        /\ chat' = [chat EXCEPT !.pc = "receipt"]
        /\ UNCHANGED chatFaults
     \/ /\ Taken(chat.msg)
        /\ chat' = AtRest
        /\ UNCHANGED <<stored, chatFaults>>
     \/ /\ ChatFault
        /\ chat' = AtRest
        /\ UNCHANGED stored
  /\ UNCHANGED <<sockVars, roomVars, relay, inbox, writes, chatQueue, service,
                 receipts, queued, sent, owed, got>>

\* The receipt is best effort.  The delivery is acknowledged, which fails on a
\* lost channel: the broker has taken the delivery back.
PublishDelivered ==
  /\ chat.pc = "receipt"
  /\ \/ receipts' = receipts \cup {chat.msg} /\ UNCHANGED chatFaults
     \/ ChatFault /\ UNCHANGED receipts
  /\ chatQueue' = IF service = "up" THEN chatQueue \ {chat.msg} ELSE chatQueue
  /\ chat' = AtRest
  /\ UNCHANGED <<sockVars, roomVars, relay, inbox, writes, service, stored,
                 queued, sent, owed, got>>

\* The channel is lost.  The handler at work goes on; then the consumer
\* returns, and nothing in the process consumes again.
ChannelLost ==
  /\ ChatFault
  /\ service = "up"
  /\ service' = "deaf"
  /\ UNCHANGED <<sockVars, roomVars, relay, inbox, writes, chatQueue, chat,
                 stored, receipts, queued, sent, owed, got>>

ChatServiceStops ==
  /\ ChatFault
  /\ service # "down"
  /\ service' = "down"
  /\ chat' = AtRest
  /\ UNCHANGED <<sockVars, roomVars, relay, inbox, writes, chatQueue,
                 stored, receipts, queued, sent, owed, got>>

ChatServiceStarts ==
  /\ service = "down"
  /\ service' = "up"
  /\ UNCHANGED <<sockVars, roomVars, relay, inbox, writes, chatQueue, chat,
                 stored, receipts, queued, chatFaults, sent, owed, got>>

----------------------------------------------------------------------------

Relay(s) == BroadcastToRoom(s) \/ PublishChatCmd(s)
Deliver(p) ==
  \/ \E r \in Rooms : SubscriptionStarts(p, r)
  \/ \E r \in Rooms, m \in Msgs : deliverToRoomLocally(p, r, m)

ChatNext ==
  \/ \E s \in Sockets : Add(s) \/ Remove(s) \/ Relay(s)
  \/ \E s \in Sockets, r \in Rooms : JoinRoom(s, r) \/ LeaveRoom(s, r)
  \/ \E s \in Sockets, m \in Msgs :
       ResolveTripChatPeer(s, m) \/ SendToSocket(s, m)
  \/ \E p \in Pods : Deliver(p)
  \/ \E m \in Msgs : Receive(m)
  \/ Save \/ PublishDelivered
  \/ ChannelLost \/ ChatServiceStops \/ ChatServiceStarts

ChatSpec == ChatInit /\ [][ChatNext]_chatVars

\* The goroutines of the subscriptions go on: each hands out what it has
\* buffered and writes it.  chat-service has no fairness; a process that has
\* lost its channel stays as it is until somebody stops it.
ChatFairness ==
  /\ \A p \in Pods : WF_chatVars(Deliver(p))
  /\ \A s \in Sockets : WF_chatVars(\E m \in Msgs : SendToSocket(s, m))

FairChatSpec == ChatSpec /\ ChatFairness

----------------------------------------------------------------------------
(* Properties *)

\* Every variable has its type.
ChatTypeOK ==
  /\ sock \in [Sockets -> {"new", "open", "closed"}]
  /\ local \subseteq Open
  /\ socketRooms \in [Sockets -> SUBSET Rooms]
  /\ roomSockets \in [Rooms -> SUBSET Sockets]
  /\ roomSubs \in [Pods -> [Rooms -> {"none", "asked", "live"}]]
  /\ relay \in [Sockets -> {AtRest} \cup Relaying]
  /\ inbox \in [Pods -> [Rooms -> SUBSET Msgs]]
  /\ writes \subseteq Sockets \X Msgs
  /\ chatQueue \subseteq queued
  /\ queued \subseteq sent
  /\ service \in {"up", "deaf", "down"}
  /\ chat \in {AtRest} \cup Storing
  /\ stored \subseteq queued
  /\ receipts \subseteq Msgs
  /\ chatFaults \in 0..MaxChatFaults
  /\ sent \subseteq Msgs
  /\ owed \subseteq Sockets \X Msgs
  /\ got \in [Sockets -> [Msgs -> Nat]]

\* "The room's Redis channel is subscribed once per node": a pod has a
\* subscription of a room exactly while it has a member of it, the two maps
\* agree, and a socket that was removed is in no room.
RoomsAreSubscribed ==
  /\ \A s \in Sockets, r \in Rooms :
       s \in roomSockets[r] <=> r \in socketRooms[s] /\ s \in Open
  /\ \A p \in Pods, r \in Rooms :
       roomSubs[p][r] # "none" <=> On(p, roomSockets[r]) # {}

\* "Publishing once to Redis ... prevents duplicate delivery on the same node":
\* no socket gets a message twice, through every order of leaving, joining
\* again and late delivery from a subscription that was closed.  A client that
\* sends the same id again sends another message, which the members get too.
NoDuplicate == \A s \in Sockets, m \in Msgs : got[s][m] <= 1

\* Message m is on its way to socket s, or has come.
OnItsWay(s, m) ==
  \/ m \in inbox[Home[s]][RoomOf[m]]
  \/ <<s, m>> \in writes
  \/ got[s][m] > 0

\* No message is lost on its way, whoever leaves, closes a subscription or
\* crashes: for a member that was subscribed when it was published, and whose
\* connection stands, it is buffered, about to be written or written; and one
\* that was published to chat_cmd_send is in the queue until it is stored: for
\* ever, when the consumer has returned with its channel or the id is taken.
MessageIsKept ==
  /\ \A s \in local, m \in Msgs : <<s, m>> \in owed => OnItsWay(s, m)
  /\ queued \subseteq chatQueue \cup stored

\* What makes them inductive: only a socket that is open is in a room, and who
\* holds a message has it from a frame or from the queue;
HoldersAreEntitled ==
  /\ \A s \in Sockets \ Open : socketRooms[s] = {}
  /\ \A s \in Sockets : relay[s] # AtRest => relay[s].msg \in sent
  /\ chat # AtRest => chat.msg \in queued

\* a message that is still to be published is nowhere yet, and one socket at
\* most is to publish it;
Fresh(m) ==
  /\ \A p \in Pods, r \in Rooms : m \notin inbox[p][r]
  /\ \A s \in Sockets : <<s, m>> \notin writes /\ got[s][m] = 0

Publishing(s) == relay[s].pc = "broadcast"

PublishedOnce ==
  /\ \A m \in Msgs \ sent : Fresh(m)
  /\ \A s \in Sockets : Publishing(s) => Fresh(relay[s].msg)
  /\ \A s, u \in Sockets :
       Publishing(s) /\ Publishing(u) /\ relay[s].msg = relay[u].msg => s = u

\* and on its way to a socket it is buffered, about to be written or written.
InOnePlace ==
  /\ \A p \in Pods, r \in Rooms : \A m \in inbox[p][r] : RoomOf[m] = r
  /\ \A s \in Sockets, m \in Msgs :
       /\ m \in inbox[Home[s]][RoomOf[m]] => <<s, m>> \notin writes /\ got[s][m] = 0
       /\ <<s, m>> \in writes => got[s][m] = 0

\* A message is owed to members, and chat-service acknowledges what it stored.
DebtsAreMembers ==
  /\ \A s \in Sockets, m \in Msgs : <<s, m>> \in owed => s \in roomSockets[RoomOf[m]]
  /\ chat.pc = "receipt" => chat.msg \in stored

ChatInv ==
  /\ ChatTypeOK
  /\ RoomsAreSubscribed
  /\ HoldersAreEntitled
  /\ PublishedOnce
  /\ InOnePlace
  /\ NoDuplicate
  /\ DebtsAreMembers
  /\ MessageIsKept

\* A member of the room whose pod was subscribed when the message was
\* published gets it, unless it leaves or its connection breaks.
MemberHears ==
  \A s \in Sockets, m \in Msgs \ Earlier :
    <<s, m>> \in owed
      ~> got[s][m] > 0 \/ s \notin local \/ s \notin roomSockets[RoomOf[m]]
=============================================================================
