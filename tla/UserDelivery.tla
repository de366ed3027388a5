---------------------------- MODULE UserDelivery ----------------------------
(***************************************************************************)
(* How a notification reaches one user: the queue consumers of the         *)
(* ws-gateway pods, RedisConnectionManager with its Redis channel and      *)
(* stream, and the ConnectionManager of each pod with its sockets.  Users  *)
(* share none of this state, so the module follows a single user, who may  *)
(* have several sockets on several pods.                                   *)
(*                                                                         *)
(* A goroutine that sends a message locally (ConnectionManager.SendMessage)*)
(* takes the list of sockets first and writes to one after the other while *)
(* sockets come and go.  Three kinds do so: a queue consumer, for message  *)
(* m; the subscription goroutine of pod p; the replay that was started     *)
(* when socket s connected.  They are named by m, p and s.                 *)
(***************************************************************************)
EXTENDS Naturals

CONSTANTS
  Pods, Sockets, Msgs,
  MaxFaults   \* bound: failures of Redis and pods, expiries, lost acknowledgements

ASSUME DeliveryAssumption ==
  /\ Pods \cap Sockets = {}
  /\ Pods \cap Msgs = {}
  /\ Sockets \cap Msgs = {}
  /\ MaxFaults \in Nat

VARIABLES
  at,         \* the pod the load balancer gives a socket to
  conn,       \* where the WebSocket handler of a socket is
  broken,     \* sockets whose connection is gone, known or not
  registered, \* ConnectionManager: sockets in bySocket and byUser
  subs,       \* pods with a userSubs entry
  active,     \* pods that Redis counts as subscribers
  chan,       \* messages on the way to the subscription goroutine of a pod
  stream,     \* user:<id>:stream; a second entry of a message is not counted
  sent,       \* notifications published to the gateway's queues
  queue,      \* the unacknowledged ones
  job,        \* what each sending goroutine is doing
  replay,     \* replayUserStream, by the socket it was started for
  written,    \* messages for which a WriteJSON to some socket returned nil
  reached,    \* <<m, p>>: Redis passed m to the subscription of p
  givenUp,    \* messages dropped after the last retry, or expired
  faults      \* faults so far

vars == <<at, conn, broken, registered, subs, active, chan, stream, sent,
          queue, job, replay, written, reached, givenUp, faults>>
socketVars == <<at, conn, broken, registered>>
subVars == <<subs, active, chan>>
mailVars == <<stream, sent, queue, givenUp, faults>>

----------------------------------------------------------------------------
(* Data *)

Senders == Msgs \cup Pods \cup Sockets

\* "close": holds rcm.mu and is about to close the subscription; "orphaned":
\* ended, and Remove did not find the socket in the ConnectionManager.
Phase == {"new", "added", "serving", "closing", "close", "orphaned", "ended"}

Idle == [pc |-> "idle"]
Sending == [pc : {"write", "persist"}, msg : Msgs, pod : Pods,
            todo : SUBSET Sockets, failed : BOOLEAN]
Replaying == [pc : {"read", "send", "ack"}, left : SUBSET Msgs,
              acked : SUBSET Msgs]

\* byUser of the user on pod p.
Local(p) == {s \in registered : at[s] = p}

\* rcm.mu of pod p is held across two steps only by a Remove that closes.
Locked(p) == \E s \in Sockets : at[s] = p /\ conn[s] = "close"

Init ==
  /\ at \in [Sockets -> Pods]
  /\ conn = [s \in Sockets |-> "new"]
  /\ broken = {}
  /\ registered = {}
  /\ subs = {}
  /\ active = {}
  /\ chan = [p \in Pods |-> {}]
  /\ stream = {}
  /\ sent = {}
  /\ queue = {}
  /\ job = [w \in Senders |-> Idle]
  /\ replay = [s \in Sockets |-> Idle]
  /\ written = {}
  /\ reached = {}
  /\ givenUp = {}
  /\ faults = 0

\* One more failure.
Fault ==
  /\ faults < MaxFaults
  /\ faults' = faults + 1

----------------------------------------------------------------------------
(* The WebSocket handler: Add, serve, Remove *)

\* The ConnectionManager's part of Add.
AddLocal(s) ==
  /\ conn[s] = "new"
  /\ conn' = [conn EXCEPT ![s] = "added"]
  /\ registered' = registered \cup {s}
  /\ UNCHANGED <<at, broken, subVars, mailVars, job, replay, written, reached>>

\* Mutant of Subscribe: userSubs is read outside the lock.
SubscribeUnlocked(s) ==
  /\ conn[s] = "added"
  /\ conn' = [conn EXCEPT ![s] = "serving"]
  /\ subs' = subs \cup {at[s]}
  /\ replay' = [replay EXCEPT ![s] = [pc |-> "read", left |-> {}, acked |-> {}]]
  /\ UNCHANGED <<at, broken, registered, active, chan, mailVars, job, written,
                 reached>>

\* The rest of Add: one subscription per pod, and a replay for every socket.
Subscribe(s) ==
  /\ conn[s] = "added"
  /\ ~Locked(at[s])
  /\ conn' = [conn EXCEPT ![s] = "serving"]
  /\ subs' = subs \cup {at[s]}
  /\ replay' = [replay EXCEPT ![s] = [pc |-> "read", left |-> {}, acked |-> {}]]
  /\ UNCHANGED <<at, broken, registered, active, chan, mailVars, job, written,
                 reached>>

\* rdb.Subscribe does not wait for the server.
SubscriptionStarts(p) ==
  /\ p \in subs \ active
  /\ active' = active \cup {p}
  /\ UNCHANGED <<socketVars, subs, chan, mailVars, job, replay, written,
                 reached>>

\* The client goes away; the pod learns of it from a failed read or write.
ConnectionBreaks(s) ==
  /\ conn[s] \in {"added", "serving"}
  /\ s \notin broken
  /\ broken' = broken \cup {s}
  /\ UNCHANGED <<at, conn, registered, subVars, mailVars, job, replay, written,
                 reached>>

\* The read loop ends and Remove takes the socket out of the
\* ConnectionManager.  If a failed write already did, no user is returned and
\* the subscription is left alone.
RemoveLocal(s) ==
  /\ conn[s] = "serving"
  /\ s \in broken
  /\ registered' = registered \ {s}
  /\ conn' = [conn EXCEPT ![s] = IF s \in registered THEN "closing" ELSE "orphaned"]
  /\ UNCHANGED <<at, broken, subVars, mailVars, job, replay, written, reached>>

\* Under rcm.mu, is another socket of the user on this pod?
RemoveChecks(s) ==
  /\ conn[s] = "closing"
  /\ ~Locked(at[s])
  /\ conn' = [conn EXCEPT ![s] = IF Local(at[s]) = {} THEN "close" ELSE "ended"]
  /\ UNCHANGED <<at, broken, registered, subVars, mailVars, job, replay,
                 written, reached>>

\* Mutant of RemoveCloses: the userSubs entry is not deleted.
CloseKeepsEntry(s) ==
  /\ conn[s] = "close"
  /\ conn' = [conn EXCEPT ![s] = "ended"]
  /\ active' = active \ {at[s]}
  /\ UNCHANGED <<at, broken, registered, subs, chan, mailVars, job, replay,
                 written, reached>>

\* The subscription is closed.  What is buffered may still be delivered.
RemoveCloses(s) ==
  /\ conn[s] = "close"
  /\ conn' = [conn EXCEPT ![s] = "ended"]
  /\ subs' = subs \ {at[s]}
  /\ active' = active \ {at[s]}
  /\ \E buffered \in SUBSET chan[at[s]] :
       chan' = [chan EXCEPT ![at[s]] = buffered]
  /\ UNCHANGED <<at, broken, registered, mailVars, job, replay, written,
                 reached>>

----------------------------------------------------------------------------
(* ConnectionManager.SendMessage, run by goroutine w on pod p *)

StartSending(w, m, p) ==
  job' = [job EXCEPT ![w] = [pc |-> "write", msg |-> m, pod |-> p,
                             todo |-> Local(p), failed |-> Local(p) = {}]]

\* SendToSocket: the socket is written to; or it was removed since the list was
\* taken; or the write fails and the stale socket is removed.
SendToSocket(w, s) ==
  /\ job[w].pc = "write"
  /\ s \in job[w].todo
  /\ \/ /\ s \in registered
        /\ written' = written \cup {job[w].msg}
        /\ job' = [job EXCEPT ![w].todo = @ \ {s}]
        /\ UNCHANGED registered
     \/ /\ s \notin registered \/ s \in broken
        /\ registered' = registered \ {s}
        /\ job' = [job EXCEPT ![w].todo = @ \ {s}, ![w].failed = TRUE]
        /\ UNCHANGED written
  /\ UNCHANGED <<at, conn, broken, subVars, mailVars, replay, reached>>

SentOrFailed(w) == job[w].pc = "write" /\ job[w].todo = {}

----------------------------------------------------------------------------
(* A queue consumer: QueueConsumer and RedisConnectionManager.SendMessage *)

PublishNotification(m) ==
  /\ m \notin sent
  /\ sent' = sent \cup {m}
  /\ queue' = queue \cup {m}
  /\ UNCHANGED <<socketVars, subVars, stream, givenUp, faults, job, replay, written,
                 reached>>

\* The handler returned nil; the acknowledgement may be lost.
Ack(m) ==
  \/ queue' = queue \ {m} /\ UNCHANGED faults
  \/ Fault /\ UNCHANGED queue

\* The pods compete for the queues: any of them may take m.
SendMessage(m, p) ==
  /\ m \in queue
  /\ job[m] = Idle
  /\ StartSending(m, m, p)
  /\ UNCHANGED <<socketVars, subVars, mailVars, replay, written, reached>>

SentLocally(m) ==
  /\ SentOrFailed(m)
  /\ ~job[m].failed
  /\ Ack(m)
  /\ job' = [job EXCEPT ![m] = Idle]
  /\ UNCHANGED <<socketVars, subVars, stream, sent, givenUp, replay, written,
                 reached>>

\* Mutant of PublishToUser: the number of receivers is not looked at.
PublishUncounted(m) ==
  /\ SentOrFailed(m)
  /\ job[m].failed
  /\ chan' = [p \in Pods |-> IF p \in active THEN chan[p] \cup {m} ELSE chan[p]]
  /\ reached' = reached \cup ({m} \X active)
  /\ Ack(m)
  /\ job' = [job EXCEPT ![m] = Idle]
  /\ UNCHANGED <<socketVars, subs, active, stream, sent, givenUp, replay,
                 written>>

\* No socket here, or one that failed: the message is published to the user's
\* channel, and kept for replay when no pod receives it.
PublishToUser(m) ==
  /\ SentOrFailed(m)
  /\ job[m].failed
  /\ \/ /\ active # {}
        /\ chan' = [p \in Pods |->
                      IF p \in active THEN chan[p] \cup {m} ELSE chan[p]]
        /\ reached' = reached \cup ({m} \X active)
        /\ Ack(m)
        /\ job' = [job EXCEPT ![m] = Idle]
     \/ /\ active = {}
        /\ job' = [job EXCEPT ![m].pc = "persist"]
        /\ UNCHANGED <<chan, reached, queue, faults>>
  /\ UNCHANGED <<socketVars, subs, active, stream, sent, givenUp, replay,
                 written>>

persistUserMessage(m) ==
  /\ job[m].pc = "persist"
  /\ stream' = stream \cup {m}
  /\ Ack(m)
  /\ job' = [job EXCEPT ![m] = Idle]
  /\ UNCHANGED <<socketVars, subVars, sent, givenUp, replay, written, reached>>

\* Redis answers an error: the handler is retried from its first line.
SendFails(m) ==
  /\ Fault
  /\ job[m] # Idle
  /\ job' = [job EXCEPT ![m] = Idle]
  /\ UNCHANGED <<socketVars, subVars, stream, sent, queue, givenUp, replay, written, reached>>

\* The last retry failed, in place and through the dead-letter queue.
GiveUp(m) ==
  /\ Fault
  /\ m \in queue
  /\ job[m] = Idle
  /\ queue' = queue \ {m}
  /\ givenUp' = givenUp \cup {m}
  /\ UNCHANGED <<socketVars, subVars, stream, sent, job, replay, written,
                 reached>>

----------------------------------------------------------------------------
(* runUserSubscription *)

Receive(p, m) ==
  /\ job[p] = Idle
  /\ m \in chan[p]
  /\ chan' = [chan EXCEPT ![p] = @ \ {m}]
  /\ StartSending(p, m, p)
  /\ UNCHANGED <<socketVars, subs, active, mailVars, replay, written, reached>>

\* An error is only logged.
Received(p) ==
  /\ SentOrFailed(p)
  /\ job' = [job EXCEPT ![p] = Idle]
  /\ UNCHANGED <<socketVars, subVars, mailVars, replay, written, reached>>

----------------------------------------------------------------------------
(* replayUserStream *)

ReplayReads(s) ==
  /\ replay[s] # Idle
  /\ replay[s].pc = "read"
  /\ replay' = [replay EXCEPT ![s] = [pc |-> "send", left |-> stream,
                                      acked |-> {}]]
  /\ UNCHANGED <<socketVars, subVars, mailVars, job, written, reached>>

ReplayNext(s, m) ==
  /\ replay[s] # Idle
  /\ replay[s].pc = "send"
  /\ m \in replay[s].left
  /\ job[s] = Idle
  /\ replay' = [replay EXCEPT ![s].left = @ \ {m}]
  /\ StartSending(s, m, at[s])
  /\ UNCHANGED <<socketVars, subVars, mailVars, written, reached>>

\* Mutant of ReplaySent: a failed entry is acknowledged with the others.
ReplayAcksFailed(s) ==
  /\ replay[s] # Idle
  /\ SentOrFailed(s)
  /\ replay' = [replay EXCEPT ![s].acked = @ \cup {job[s].msg}]
  /\ job' = [job EXCEPT ![s] = Idle]
  /\ UNCHANGED <<socketVars, subVars, mailVars, written, reached>>

\* A delivered entry is noted for deletion; a failed one ends the loop.
ReplaySent(s) ==
  /\ replay[s] # Idle
  /\ SentOrFailed(s)
  /\ replay' = IF job[s].failed
               THEN [replay EXCEPT ![s].pc = "ack"]
               ELSE [replay EXCEPT ![s].acked = @ \cup {job[s].msg}]
  /\ job' = [job EXCEPT ![s] = Idle]
  /\ UNCHANGED <<socketVars, subVars, mailVars, written, reached>>

\* The delivered entries are deleted.
ReplayAcks(s) ==
  /\ replay[s] # Idle
  /\ job[s] = Idle
  /\ \/ replay[s].pc = "ack"
     \/ replay[s].pc = "send" /\ replay[s].left = {}
  /\ stream' = stream \ replay[s].acked
  /\ replay' = [replay EXCEPT ![s] = Idle]
  /\ UNCHANGED <<socketVars, subVars, sent, queue, givenUp, faults, job,
                 written, reached>>

\* XRANGE or XDEL fails: the entries stay.
ReplayFails(s) ==
  /\ Fault
  /\ replay[s] # Idle
  /\ job[s] = Idle
  /\ replay' = [replay EXCEPT ![s] = Idle]
  /\ UNCHANGED <<socketVars, subVars, stream, sent, queue, givenUp, job, written, reached>>

\* The stream's time to live passes, or its maximal length is exceeded.
StreamExpires(m) ==
  /\ Fault
  /\ m \in stream
  /\ stream' = stream \ {m}
  /\ givenUp' = givenUp \cup {m}
  /\ UNCHANGED <<socketVars, subVars, sent, queue, job, replay, written,
                 reached>>

----------------------------------------------------------------------------
(* A pod stops; another takes its name and its unacknowledged messages *)

PodStops(p) ==
  /\ Fault
  /\ LET gone == {s \in Sockets : at[s] = p /\ conn[s] # "new"}
         dead == {w \in Senders : job[w] # Idle /\ job[w].pod = p}
     IN  /\ conn' = [s \in Sockets |-> IF s \in gone THEN "ended" ELSE conn[s]]
         /\ broken' = broken \cup gone
         /\ registered' = registered \ gone
         /\ replay' = [s \in Sockets |-> IF s \in gone THEN Idle ELSE replay[s]]
         /\ job' = [w \in Senders |-> IF w \in dead THEN Idle ELSE job[w]]
  /\ subs' = subs \ {p}
  /\ active' = active \ {p}
  /\ chan' = [chan EXCEPT ![p] = {}]
  /\ UNCHANGED <<at, stream, sent, queue, givenUp, written, reached>>

----------------------------------------------------------------------------

Next ==
  \/ \E s \in Sockets :
       \/ AddLocal(s) \/ Subscribe(s) \/ ConnectionBreaks(s)
       \/ RemoveLocal(s) \/ RemoveChecks(s) \/ RemoveCloses(s)
       \/ ReplayReads(s) \/ ReplaySent(s) \/ ReplayAcks(s) \/ ReplayFails(s)
       \/ \E m \in Msgs : ReplayNext(s, m)
       \/ \E w \in Senders : SendToSocket(w, s)
  \/ \E m \in Msgs :
       \/ PublishNotification(m) \/ SentLocally(m) \/ PublishToUser(m)
       \/ persistUserMessage(m) \/ SendFails(m) \/ GiveUp(m)
       \/ StreamExpires(m)
       \/ \E p \in Pods : SendMessage(m, p) \/ Receive(p, m)
  \/ \E p \in Pods : SubscriptionStarts(p) \/ Received(p) \/ PodStops(p)

Spec == Init /\ [][Next]_vars

----------------------------------------------------------------------------
(* Properties *)

\* m is on its way from Redis to a pod, or in the hands of its subscription.
InFlight(m) ==
  \E p \in Pods : m \in chan[p] \/ (job[p] # Idle /\ job[p].msg = m)

\* Every variable has its type; Redis counts only subscriptions that exist.
TypeOK ==
  /\ at \in [Sockets -> Pods]
  /\ conn \in [Sockets -> Phase]
  /\ broken \subseteq Sockets
  /\ registered \subseteq Sockets
  /\ subs \subseteq Pods
  /\ active \subseteq subs
  /\ chan \in [Pods -> SUBSET Msgs]
  /\ stream \subseteq Msgs
  /\ sent \subseteq Msgs
  /\ queue \subseteq sent
  /\ job \in [Senders -> {Idle} \cup Sending]
  /\ replay \in [Sockets -> {Idle} \cup Replaying]
  /\ written \subseteq Msgs
  /\ reached \subseteq Msgs \X Pods
  /\ givenUp \subseteq Msgs
  /\ faults \in Nat

\* A socket that is served and registered has its pod subscribed: the Remove
\* of an earlier socket never closes the subscription a new one relies on,
\* although Add registers the socket and subscribes in two steps.
ServedIsSubscribed ==
  \A s \in Sockets :
    conn[s] = "serving" /\ s \in registered => at[s] \in subs

\* A pod keeps a subscription only for a handler that is still to close it, or
\* because a failed write had removed the socket before its handler did.
SubscriptionIsOwned ==
  \A p \in subs : \E s \in Sockets :
    /\ at[s] = p
    /\ conn[s] \in {"added", "serving", "closing", "close", "orphaned"}

\* An acknowledged notification was written to a socket, is kept for replay or
\* is on its way, was given up, or went to a pod where a connection broke.
LossNeedsDisconnect ==
  \A m \in sent \ queue :
    \/ m \in written \/ InFlight(m) \/ m \in stream \cup givenUp
    \/ \E s \in broken : <<m, at[s]>> \in reached

\* Replay deletes from the stream only what was written to a socket.
DeletedWasWritten ==
  [][\A m \in stream \ stream' : m \in written \/ m \in givenUp']_vars

\* What makes them inductive.  No socket relies on a subscription that is
\* about to be closed.
CloseIsAlone ==
  \A s, u \in Sockets :
    conn[s] = "close" /\ conn[u] = "serving" /\ at[u] = at[s]
      => u \notin registered

\* A connected socket is registered until its connection breaks.
LiveIsRegistered ==
  \A s \in Sockets :
    /\ conn[s] \in {"added", "serving"} /\ s \notin broken => s \in registered
    /\ conn[s] \in {"closing", "close", "orphaned", "ended"} =>
         s \in broken /\ s \notin registered
    /\ conn[s] = "new" => s \notin registered

\* A pod was subscribed when Redis passed it a message, so it had a socket.
ChanWasReached ==
  /\ \A p \in Pods : \A m \in chan[p] : <<m, p>> \in reached
  /\ \A m \in Msgs, p \in Pods : <<m, p>> \in reached =>
       \E s \in Sockets : at[s] = p /\ conn[s] # "new"

\* A message is written unless a write failed or is still to come, and a
\* subscription's message is written unless a connection of its pod broke.
JobsAreHonest ==
  \A w \in Senders : job[w] # Idle =>
    /\ \A s \in job[w].todo : at[s] = job[w].pod /\ conn[s] # "new"
    /\ job[w].pc = "write" /\ ~job[w].failed /\ job[w].todo = {}
         => job[w].msg \in written
    /\ w \in Msgs => job[w].msg = w
    /\ w \in Pods =>
         /\ job[w].pod = w
         /\ <<job[w].msg, w>> \in reached
         /\ \/ job[w].msg \in written
            \/ job[w].todo # {}
            \/ \E s \in broken : at[s] = w

\* What a replay is going to delete was written.
AckedWasWritten ==
  \A s \in Sockets : replay[s] # Idle => replay[s].acked \subseteq written

IndInv ==
  /\ TypeOK
  /\ ServedIsSubscribed
  /\ SubscriptionIsOwned
  /\ LossNeedsDisconnect
  /\ CloseIsAlone
  /\ LiveIsRegistered
  /\ ChanWasReached
  /\ JobsAreHonest
  /\ AckedWasWritten
=============================================================================
