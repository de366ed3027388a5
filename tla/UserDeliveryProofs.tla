------------------------- MODULE UserDeliveryProofs -------------------------
(***************************************************************************)
(* The safety properties of UserDelivery hold for any number of pods,      *)
(* sockets, messages and faults.                                           *)
(***************************************************************************)
EXTENDS UserDelivery, TLAPS

\* A goroutine that starts to send has a well-formed job.
LEMMA StartType ==
  ASSUME TypeOK, NEW w \in Senders, NEW m \in Msgs, NEW p \in Pods,
         StartSending(w, m, p)
  PROVE  job' \in [Senders -> {Idle} \cup Sending]
<1>1. Local(p) \subseteq Sockets
  BY DEF TypeOK, Local
<1>2. [pc |-> "write", msg |-> m, pod |-> p, todo |-> Local(p),
       failed |-> Local(p) = {}] \in Sending
  BY <1>1 DEF Sending
<1>3. QED
  BY <1>2 DEF TypeOK, StartSending

\* A sender that is not idle has the fields of Sending.
LEMMA JobFields ==
  ASSUME TypeOK, NEW w \in Senders, job[w] # Idle
  PROVE  /\ job[w] \in Sending
         /\ job[w].msg \in Msgs /\ job[w].pod \in Pods
         /\ job[w].todo \subseteq Sockets /\ job[w].failed \in BOOLEAN
BY DEF TypeOK, Sending

\* A sender that writes is not idle.
LEMMA WritingIsBusy ==
  ASSUME NEW w, job[w].pc \in {"write", "persist"}
  PROVE  job[w] # Idle
BY DEF Idle

\* Init establishes the invariant.
LEMMA InitIndInv == Init => IndInv
BY DEF Init, IndInv, TypeOK, ServedIsSubscribed, SubscriptionIsOwned,
       LossNeedsDisconnect, CloseIsAlone, LiveIsRegistered, ChanWasReached,
       JobsAreHonest, AckedWasWritten, Phase

-----------------------------------------------------------------------------
(* Types *)

\* The steps of the WebSocket handlers keep the types.
LEMMA HandlerType ==
  ASSUME TypeOK, NEW s \in Sockets,
         \/ AddLocal(s) \/ Subscribe(s) \/ ConnectionBreaks(s)
         \/ RemoveLocal(s) \/ RemoveChecks(s) \/ RemoveCloses(s)
  PROVE  TypeOK'
<1>1. CASE AddLocal(s)
  BY <1>1 DEF TypeOK, AddLocal, Phase, subVars, mailVars
<1>2. CASE Subscribe(s)
  BY <1>2 DEF TypeOK, Subscribe, Phase, mailVars, Replaying
<1>3. CASE ConnectionBreaks(s)
  BY <1>3 DEF TypeOK, ConnectionBreaks, subVars, mailVars
<1>4. CASE RemoveLocal(s)
  BY <1>4 DEF TypeOK, RemoveLocal, Phase, subVars, mailVars
<1>5. CASE RemoveChecks(s)
  BY <1>5 DEF TypeOK, RemoveChecks, Phase, subVars, mailVars
<1>6. CASE RemoveCloses(s)
  BY <1>6 DEF TypeOK, RemoveCloses, Phase, mailVars
<1>7. QED
  BY <1>1, <1>2, <1>3, <1>4, <1>5, <1>6

\* A write keeps the types.
LEMMA WriteType ==
  ASSUME TypeOK, NEW w \in Senders, NEW s \in Sockets, SendToSocket(w, s)
  PROVE  TypeOK'
<1>1. job[w] # Idle
  BY WritingIsBusy DEF SendToSocket
<1>2. /\ job[w] \in Sending /\ job[w].msg \in Msgs
      /\ job[w].todo \subseteq Sockets
  BY <1>1, JobFields
<1>3. job' \in [Senders -> {Idle} \cup Sending]
  BY <1>2 DEF TypeOK, SendToSocket, Sending
<1>4. QED
  BY <1>2, <1>3 DEF TypeOK, SendToSocket, subVars, mailVars

\* The consumer's steps keep the types.
LEMMA ConsumerType ==
  ASSUME TypeOK, NEW m \in Msgs,
         \/ PublishNotification(m) \/ SentLocally(m) \/ PublishToUser(m)
         \/ persistUserMessage(m) \/ SendFails(m) \/ GiveUp(m)
         \/ StreamExpires(m) \/ \E p \in Pods : SendMessage(m, p)
  PROVE  TypeOK'
<1>a. m \in Senders
  BY DEF Senders
<1>b. faults \in Nat /\ faults + 1 \in Nat
  BY DEF TypeOK
<1>c. Idle \in {Idle} \cup Sending
  OBVIOUS
<1>1. CASE PublishNotification(m)
  BY <1>1 DEF TypeOK, PublishNotification, socketVars, subVars
<1>2. CASE SentLocally(m)
  BY <1>2, <1>a, <1>b DEF TypeOK, SentLocally, Ack, Fault, socketVars, subVars
<1>3. CASE PublishToUser(m)
  <2>1. job[m] # Idle
    BY <1>3, WritingIsBusy DEF PublishToUser, SentOrFailed
  <2>2. job[m] \in Sending
    BY <2>1, <1>a, JobFields
  <2>3. job' \in [Senders -> {Idle} \cup Sending]
    BY <1>3, <1>a, <2>2 DEF TypeOK, PublishToUser, Sending
  <2>4. chan' \in [Pods -> SUBSET Msgs] /\ reached' \subseteq Msgs \X Pods
    BY <1>3 DEF TypeOK, PublishToUser
  <2>5. queue' \subseteq sent /\ faults' \in Nat
    BY <1>3, <1>b DEF TypeOK, PublishToUser, Ack, Fault
  <2>6. QED
    BY <1>3, <2>3, <2>4, <2>5 DEF TypeOK, PublishToUser, socketVars
<1>4. CASE persistUserMessage(m)
  BY <1>4, <1>a, <1>b DEF TypeOK, persistUserMessage, Ack, Fault, socketVars,
                          subVars
<1>5. CASE SendFails(m)
  BY <1>5, <1>a, <1>b DEF TypeOK, SendFails, Fault, socketVars, subVars
<1>6. CASE GiveUp(m)
  BY <1>6, <1>b DEF TypeOK, GiveUp, Fault, socketVars, subVars
<1>7. CASE StreamExpires(m)
  BY <1>7, <1>b DEF TypeOK, StreamExpires, Fault, socketVars, subVars
<1>8. CASE \E p \in Pods : SendMessage(m, p)
  <2>1. PICK p \in Pods : SendMessage(m, p)
    BY <1>8
  <2>2. job' \in [Senders -> {Idle} \cup Sending]
    BY <2>1, <1>a, StartType DEF SendMessage
  <2>3. QED
    BY <2>1, <2>2 DEF TypeOK, SendMessage, socketVars, subVars, mailVars
<1>9. QED
  BY <1>1, <1>2, <1>3, <1>4, <1>5, <1>6, <1>7, <1>8

\* The steps of a subscription, and a stopping pod, keep the types.
LEMMA PodType ==
  ASSUME TypeOK, NEW p \in Pods,
         \/ SubscriptionStarts(p) \/ Received(p) \/ PodStops(p)
         \/ \E m \in Msgs : Receive(p, m)
  PROVE  TypeOK'
<1>a. p \in Senders
  BY DEF Senders
<1>1. CASE SubscriptionStarts(p)
  BY <1>1 DEF TypeOK, SubscriptionStarts, socketVars, mailVars
<1>2. CASE Received(p)
  BY <1>2, <1>a DEF TypeOK, Received, socketVars, subVars, mailVars
<1>3. CASE PodStops(p)
  <2>1. faults' \in Nat
    BY <1>3 DEF TypeOK, PodStops, Fault
  <2>2. /\ conn' \in [Sockets -> Phase]
        /\ job' \in [Senders -> {Idle} \cup Sending]
        /\ replay' \in [Sockets -> {Idle} \cup Replaying]
    BY <1>3 DEF TypeOK, PodStops, Phase
  <2>3. QED
    BY <1>3, <2>1, <2>2 DEF TypeOK, PodStops
<1>4. CASE \E m \in Msgs : Receive(p, m)
  <2>1. PICK m \in Msgs : Receive(p, m)
    BY <1>4
  <2>2. job' \in [Senders -> {Idle} \cup Sending]
    BY <2>1, <1>a, StartType DEF Receive
  <2>3. QED
    BY <2>1, <2>2 DEF TypeOK, Receive, socketVars, mailVars
<1>5. QED
  BY <1>1, <1>2, <1>3, <1>4

\* The steps of a replay keep the types.
LEMMA ReplayType ==
  ASSUME TypeOK, NEW s \in Sockets,
         \/ ReplayReads(s) \/ ReplaySent(s) \/ ReplayAcks(s)
         \/ ReplayFails(s) \/ \E m \in Msgs : ReplayNext(s, m)
  PROVE  TypeOK'
<1>a. s \in Senders
  BY DEF Senders
<1>b. replay[s] # Idle => /\ replay[s] \in Replaying
                          /\ replay[s].left \subseteq Msgs
                          /\ replay[s].acked \subseteq Msgs
  BY DEF TypeOK, Replaying
<1>1. CASE ReplayReads(s)
  BY <1>1 DEF TypeOK, ReplayReads, Replaying, socketVars, subVars, mailVars
<1>2. CASE ReplaySent(s)
  <2>1. job[s] # Idle
    BY <1>2, WritingIsBusy DEF ReplaySent, SentOrFailed
  <2>2. job[s].msg \in Msgs
    BY <2>1, <1>a, JobFields
  <2>3. job' \in [Senders -> {Idle} \cup Sending]
    BY <1>2, <1>a DEF TypeOK, ReplaySent
  <2>4. replay[s] \in Replaying
    BY <1>2, <1>b DEF ReplaySent
  <2>5. /\ [replay[s] EXCEPT !.pc = "ack"] \in Replaying
        /\ [replay[s] EXCEPT !.acked = @ \cup {job[s].msg}] \in Replaying
    BY <2>4, <2>2 DEF Replaying
  <2>6. replay' \in [Sockets -> {Idle} \cup Replaying]
    BY <1>2, <2>5 DEF TypeOK, ReplaySent
  <2>7. QED
    BY <1>2, <2>3, <2>6
    DEF TypeOK, ReplaySent, socketVars, subVars, mailVars
<1>3. CASE ReplayAcks(s)
  BY <1>3 DEF TypeOK, ReplayAcks, socketVars, subVars
<1>4. CASE ReplayFails(s)
  BY <1>4 DEF TypeOK, ReplayFails, Fault, socketVars, subVars
<1>5. CASE \E m \in Msgs : ReplayNext(s, m)
  <2>1. PICK m \in Msgs : ReplayNext(s, m)
    BY <1>5
  <2>2. job' \in [Senders -> {Idle} \cup Sending]
    BY <2>1, <1>a, StartType DEF ReplayNext, TypeOK
  <2>3. replay' \in [Sockets -> {Idle} \cup Replaying]
    BY <2>1, <1>b DEF TypeOK, ReplayNext, Replaying
  <2>4. QED
    BY <2>1, <2>2, <2>3 DEF TypeOK, ReplayNext, socketVars, subVars, mailVars
<1>6. QED
  BY <1>1, <1>2, <1>3, <1>4, <1>5

\* Every step, and stuttering, keeps the types.
LEMMA NextTypeOK == TypeOK /\ [Next]_vars => TypeOK'
<1> SUFFICES ASSUME TypeOK, [Next]_vars PROVE TypeOK'
  OBVIOUS
<1>1. CASE UNCHANGED vars
  BY <1>1 DEF TypeOK, vars
<1>2. CASE Next
  BY <1>2, HandlerType, WriteType, ConsumerType, PodType, ReplayType DEF Next
<1>3. QED
  BY <1>1, <1>2
-----------------------------------------------------------------------------
(* Subscriptions *)

SocketInv ==
  /\ ServedIsSubscribed
  /\ SubscriptionIsOwned
  /\ CloseIsAlone
  /\ LiveIsRegistered

\* A step that leaves the sockets and the userSubs entries alone.
LEMMA SocketFrame ==
  ASSUME SocketInv, UNCHANGED <<socketVars, subs>>
  PROVE  SocketInv'
BY DEF SocketInv, ServedIsSubscribed, SubscriptionIsOwned, CloseIsAlone,
       LiveIsRegistered, socketVars

\* A socket that connects does not disturb the subscription.
LEMMA AddKeepsSockets ==
  ASSUME TypeOK, SocketInv, NEW s \in Sockets, AddLocal(s) \/ Subscribe(s)
  PROVE  SocketInv'
<1>1. CASE AddLocal(s)
  <2>1. conn' = [conn EXCEPT ![s] = "added"] /\ conn[s] = "new"
        /\ registered' = registered \cup {s} /\ UNCHANGED <<at, broken, subs>>
    BY <1>1 DEF AddLocal, subVars
  <2>2. ServedIsSubscribed' /\ CloseIsAlone'
    BY <2>1 DEF TypeOK, SocketInv, ServedIsSubscribed, CloseIsAlone
  <2>3. SubscriptionIsOwned'
    BY <2>1 DEF TypeOK, SocketInv, SubscriptionIsOwned
  <2>4. LiveIsRegistered'
    BY <2>1 DEF TypeOK, SocketInv, LiveIsRegistered
  <2>5. QED
    BY <2>2, <2>3, <2>4 DEF SocketInv
<1>2. CASE Subscribe(s)
  <2>1. conn' = [conn EXCEPT ![s] = "serving"] /\ conn[s] = "added"
        /\ subs' = subs \cup {at[s]} /\ ~Locked(at[s])
        /\ UNCHANGED <<at, broken, registered>>
    BY <1>2 DEF Subscribe
  <2>2. ServedIsSubscribed'
    BY <2>1 DEF TypeOK, SocketInv, ServedIsSubscribed
  <2>3. SubscriptionIsOwned'
    BY <2>1 DEF TypeOK, SocketInv, SubscriptionIsOwned
  <2>4. CloseIsAlone'
    BY <2>1 DEF TypeOK, SocketInv, CloseIsAlone, Locked
  <2>5. LiveIsRegistered'
    BY <2>1 DEF TypeOK, SocketInv, LiveIsRegistered
  <2>6. QED
    BY <2>2, <2>3, <2>4, <2>5 DEF SocketInv
<1>3. QED
  BY <1>1, <1>2

\* Neither does one that disconnects, up to the check of Remove.
LEMMA RemoveKeepsSockets ==
  ASSUME TypeOK, SocketInv, NEW s \in Sockets,
         ConnectionBreaks(s) \/ RemoveLocal(s) \/ RemoveChecks(s)
  PROVE  SocketInv'
<1>1. CASE ConnectionBreaks(s)
  BY <1>1 DEF SocketInv, ConnectionBreaks, ServedIsSubscribed,
              SubscriptionIsOwned, CloseIsAlone, LiveIsRegistered, subVars
<1>2. CASE RemoveLocal(s)
  <2>1. /\ conn[s] = "serving" /\ s \in broken
        /\ registered' = registered \ {s}
        /\ conn' = [conn EXCEPT ![s] = IF s \in registered THEN "closing"
                                       ELSE "orphaned"]
        /\ UNCHANGED <<at, broken, subs>>
    BY <1>2 DEF RemoveLocal, subVars
  <2>2. \A u \in Sockets : conn'[u] = IF u = s THEN IF s \in registered
                                      THEN "closing" ELSE "orphaned"
                                      ELSE conn[u]
    BY <2>1 DEF TypeOK
  <2>3. ServedIsSubscribed' /\ CloseIsAlone'
    BY <2>1, <2>2 DEF SocketInv, ServedIsSubscribed, CloseIsAlone
  <2>4. SubscriptionIsOwned'
    BY <2>1, <2>2 DEF SocketInv, SubscriptionIsOwned
  <2>5. LiveIsRegistered'
    BY <2>1, <2>2 DEF SocketInv, LiveIsRegistered
  <2>6. QED
    BY <2>3, <2>4, <2>5 DEF SocketInv
<1>3. CASE RemoveChecks(s)
  <2>1. /\ conn[s] = "closing" /\ ~Locked(at[s])
        /\ UNCHANGED <<at, broken, registered, subs>>
    BY <1>3 DEF RemoveChecks, subVars
  <2>2. \A u \in Sockets : conn'[u] = IF u = s THEN IF Local(at[s]) = {}
                                      THEN "close" ELSE "ended"
                                      ELSE conn[u]
    BY <1>3 DEF TypeOK, RemoveChecks
  <2>3. ServedIsSubscribed'
    BY <2>1, <2>2 DEF SocketInv, ServedIsSubscribed
  <2>4. CloseIsAlone'
    BY <2>1, <2>2 DEF TypeOK, SocketInv, CloseIsAlone, Local
  <2>5. LiveIsRegistered'
    BY <2>1, <2>2 DEF SocketInv, LiveIsRegistered
  <2>6. Local(at[s]) # {} =>
          \E u \in Sockets : at[u] = at[s] /\ conn[u] \in {"added", "serving"}
    BY DEF TypeOK, SocketInv, LiveIsRegistered, Local, Phase
  <2>7. SubscriptionIsOwned'
    BY <2>1, <2>2, <2>6 DEF SocketInv, SubscriptionIsOwned
  <2>8. QED
    BY <2>3, <2>4, <2>5, <2>7 DEF SocketInv
<1>4. QED
  BY <1>1, <1>2, <1>3

\* Closing takes the subscription of no socket that relies on it.
LEMMA CloseKeepsSockets ==
  ASSUME TypeOK, SocketInv, NEW s \in Sockets, RemoveCloses(s)
  PROVE  SocketInv'
<1>1. /\ conn[s] = "close" /\ subs' = subs \ {at[s]}
      /\ UNCHANGED <<at, broken, registered>>
  BY DEF RemoveCloses
<1>2. \A u \in Sockets : conn'[u] = IF u = s THEN "ended" ELSE conn[u]
  BY DEF TypeOK, RemoveCloses
<1>3. ServedIsSubscribed'
  BY <1>1, <1>2 DEF SocketInv, ServedIsSubscribed, CloseIsAlone
<1>4. SubscriptionIsOwned'
  BY <1>1, <1>2 DEF SocketInv, SubscriptionIsOwned
<1>5. CloseIsAlone' /\ LiveIsRegistered'
  BY <1>1, <1>2 DEF SocketInv, CloseIsAlone, LiveIsRegistered
<1>6. QED
  BY <1>3, <1>4, <1>5 DEF SocketInv

\* A write removes only a socket that is broken.
LEMMA WriteKeepsSockets ==
  ASSUME SocketInv, NEW w, NEW s \in Sockets, SendToSocket(w, s)
  PROVE  SocketInv'
<1>1. /\ UNCHANGED <<at, conn, broken, subs>>
      /\ \/ UNCHANGED registered
         \/ (s \notin registered \/ s \in broken) /\ registered' = registered \ {s}
  BY DEF SendToSocket, subVars
<1>2. QED
  BY <1>1 DEF SocketInv, ServedIsSubscribed, SubscriptionIsOwned, CloseIsAlone,
              LiveIsRegistered

\* A pod that stops takes its sockets and its subscription with it.
LEMMA StopKeepsSockets ==
  ASSUME TypeOK, SocketInv, NEW p \in Pods, PodStops(p)
  PROVE  SocketInv'
<1> DEFINE gone == {s \in Sockets : at[s] = p /\ conn[s] # "new"}
<1>1. /\ broken' = broken \cup gone
      /\ registered' = registered \ gone
      /\ subs' = subs \ {p}
      /\ UNCHANGED at
  BY DEF PodStops
<1>2. \A u \in Sockets : conn'[u] = IF u \in gone THEN "ended" ELSE conn[u]
  BY DEF PodStops
<1>3. ServedIsSubscribed'
  BY <1>1, <1>2 DEF SocketInv, ServedIsSubscribed
<1>4. SubscriptionIsOwned'
  BY <1>1, <1>2 DEF SocketInv, SubscriptionIsOwned
<1>5. CloseIsAlone' /\ LiveIsRegistered'
  BY <1>1, <1>2 DEF SocketInv, CloseIsAlone, LiveIsRegistered
<1>6. QED
  BY <1>3, <1>4, <1>5 DEF SocketInv

\* All other steps leave the sockets and the userSubs entries alone.
LEMMA OthersKeepSockets ==
  ASSUME Next,
         ~ \E s \in Sockets : \/ AddLocal(s) \/ Subscribe(s)
                              \/ ConnectionBreaks(s) \/ RemoveLocal(s)
                              \/ RemoveChecks(s) \/ RemoveCloses(s),
         ~ \E w \in Senders, s \in Sockets : SendToSocket(w, s),
         ~ \E p \in Pods : PodStops(p)
  PROVE  UNCHANGED <<socketVars, subs>>
<1>1. ASSUME NEW s \in Sockets,
             \/ ReplayReads(s) \/ ReplaySent(s) \/ ReplayAcks(s)
             \/ ReplayFails(s) \/ \E m \in Msgs : ReplayNext(s, m)
      PROVE  UNCHANGED <<socketVars, subs>>
  BY <1>1 DEF ReplayReads, ReplaySent, ReplayAcks, ReplayFails, ReplayNext,
              subVars
<1>2. ASSUME NEW m \in Msgs,
             \/ PublishNotification(m) \/ SentLocally(m) \/ PublishToUser(m)
             \/ persistUserMessage(m) \/ SendFails(m) \/ GiveUp(m)
             \/ StreamExpires(m)
             \/ \E p \in Pods : SendMessage(m, p) \/ Receive(p, m)
      PROVE  UNCHANGED <<socketVars, subs>>
  BY <1>2 DEF PublishNotification, SentLocally, PublishToUser,
              persistUserMessage, SendFails, GiveUp, StreamExpires,
              SendMessage, Receive, subVars
<1>3. ASSUME NEW p \in Pods, SubscriptionStarts(p) \/ Received(p)
      PROVE  UNCHANGED <<socketVars, subs>>
  BY <1>3 DEF SubscriptionStarts, Received, subVars
<1>4. QED
  BY <1>1, <1>2, <1>3 DEF Next

\* Every step keeps the invariant of the subscriptions.
LEMMA NextSocketInv == TypeOK /\ SocketInv /\ [Next]_vars => SocketInv'
<1> SUFFICES ASSUME TypeOK, SocketInv, [Next]_vars PROVE SocketInv'
  OBVIOUS
<1>1. CASE UNCHANGED vars
  BY <1>1, SocketFrame DEF vars, socketVars
<1>2. CASE \E s \in Sockets : \/ AddLocal(s) \/ Subscribe(s)
                              \/ ConnectionBreaks(s) \/ RemoveLocal(s)
                              \/ RemoveChecks(s) \/ RemoveCloses(s)
  BY <1>2, AddKeepsSockets, RemoveKeepsSockets, CloseKeepsSockets
<1>3. CASE \E w \in Senders, s \in Sockets : SendToSocket(w, s)
  BY <1>3, WriteKeepsSockets
<1>4. CASE \E p \in Pods : PodStops(p)
  BY <1>4, StopKeepsSockets
<1>5. QED
  BY <1>1, <1>2, <1>3, <1>4, OthersKeepSockets, SocketFrame

-----------------------------------------------------------------------------
(* Messages *)

\* What no step takes back.
Kept ==
  /\ at' = at
  /\ written \subseteq written'
  /\ reached \subseteq reached'
  /\ broken \subseteq broken'
  /\ givenUp \subseteq givenUp'
  /\ \A s \in Sockets : conn[s] # "new" => conn'[s] # "new"

\* A write, a break, a passed message and a connection are never undone.
LEMMA NextKept == TypeOK /\ [Next]_vars => Kept
<1> SUFFICES ASSUME TypeOK, [Next]_vars PROVE Kept
  OBVIOUS
<1>1. CASE UNCHANGED vars
  BY <1>1 DEF vars, Kept
<1>2. ASSUME NEW s \in Sockets,
             \/ AddLocal(s) \/ Subscribe(s) \/ ConnectionBreaks(s)
             \/ RemoveLocal(s) \/ RemoveChecks(s) \/ RemoveCloses(s)
      PROVE  Kept
  BY <1>2 DEF TypeOK, AddLocal, Subscribe, ConnectionBreaks, RemoveLocal,
              RemoveChecks, RemoveCloses, Kept, mailVars
<1>3. ASSUME NEW w \in Senders, NEW s \in Sockets, SendToSocket(w, s)
      PROVE  Kept
  BY <1>3 DEF SendToSocket, Kept, mailVars
<1>4. ASSUME NEW p \in Pods, PodStops(p)
      PROVE  Kept
  BY <1>4 DEF PodStops, Kept
<1>5. ASSUME NEW s \in Sockets,
             \/ ReplayReads(s) \/ ReplaySent(s) \/ ReplayAcks(s)
             \/ ReplayFails(s) \/ \E m \in Msgs : ReplayNext(s, m)
      PROVE  Kept
  BY <1>5 DEF ReplayReads, ReplaySent, ReplayAcks, ReplayFails, ReplayNext,
              Kept, socketVars, mailVars
<1>6. ASSUME NEW m \in Msgs,
             \/ PublishNotification(m) \/ SentLocally(m) \/ PublishToUser(m)
             \/ persistUserMessage(m) \/ SendFails(m) \/ GiveUp(m)
             \/ StreamExpires(m)
             \/ \E p \in Pods : SendMessage(m, p) \/ Receive(p, m)
      PROVE  Kept
  BY <1>6 DEF PublishNotification, SentLocally, PublishToUser,
              persistUserMessage, SendFails, GiveUp, StreamExpires,
              SendMessage, Receive, Kept, socketVars, mailVars
<1>7. ASSUME NEW p \in Pods, SubscriptionStarts(p) \/ Received(p)
      PROVE  Kept
  BY <1>7 DEF SubscriptionStarts, Received, Kept, socketVars, mailVars
<1>8. QED
  BY <1>1, <1>2, <1>3, <1>4, <1>5, <1>6, <1>7 DEF Next

\* Steps that neither publish nor add to a channel.
LEMMA ChanFrame ==
  ASSUME ChanWasReached, Kept, reached' = reached,
         \A p \in Pods : chan'[p] \subseteq chan[p]
  PROVE  ChanWasReached'
BY DEF ChanWasReached, Kept

\* Redis passes a message only to a pod that had a socket.
LEMMA NextChan ==
  TypeOK /\ SocketInv /\ ChanWasReached /\ [Next]_vars => ChanWasReached'
<1> SUFFICES ASSUME TypeOK, SocketInv, ChanWasReached, [Next]_vars
             PROVE  ChanWasReached'
  OBVIOUS
<1>k. Kept
  BY NextKept
<1>1. CASE UNCHANGED <<chan, reached>>
  BY <1>1, <1>k, ChanFrame
<1>2. ASSUME NEW s \in Sockets, RemoveCloses(s)
      PROVE  ChanWasReached'
  <2>1. /\ reached' = reached
        /\ \E b \in SUBSET chan[at[s]] : chan' = [chan EXCEPT ![at[s]] = b]
    BY <1>2 DEF RemoveCloses
  <2>2. \A p \in Pods : chan'[p] \subseteq chan[p]
    BY <2>1 DEF TypeOK
  <2>3. QED
    BY <2>1, <2>2, <1>k, ChanFrame
<1>3. ASSUME NEW p \in Pods, NEW m \in Msgs, Receive(p, m)
      PROVE  ChanWasReached'
  BY <1>3, <1>k, ChanFrame DEF Receive, TypeOK
<1>4. ASSUME NEW p \in Pods, PodStops(p)
      PROVE  ChanWasReached'
  BY <1>4, <1>k, ChanFrame DEF PodStops, TypeOK
<1>5. ASSUME NEW m \in Msgs, PublishToUser(m), active # {}
      PROVE  ChanWasReached'
  <2>1. /\ chan' = [p \in Pods |->
                      IF p \in active THEN chan[p] \cup {m} ELSE chan[p]]
        /\ reached' = reached \cup ({m} \X active)
    BY <1>5 DEF PublishToUser
  <2>2. \A p \in Pods : \A n \in chan'[p] : <<n, p>> \in reached'
    BY <2>1 DEF ChanWasReached
  <2>3. \A p \in active : \E s \in Sockets : at[s] = p /\ conn[s] # "new"
    BY DEF TypeOK, SocketInv, SubscriptionIsOwned
  <2>4. \A n \in Msgs, p \in Pods : <<n, p>> \in reached' =>
          \E s \in Sockets : at[s] = p /\ conn[s] # "new"
    BY <2>1, <2>3 DEF ChanWasReached
  <2>5. QED
    BY <2>2, <2>4, <1>k DEF ChanWasReached, Kept
<1>6. ASSUME NEW m \in Msgs, PublishToUser(m), active = {}
      PROVE  UNCHANGED <<chan, reached>>
  BY <1>6 DEF PublishToUser
<1>7. ASSUME NEW s \in Sockets,
             \/ AddLocal(s) \/ Subscribe(s) \/ ConnectionBreaks(s)
             \/ RemoveLocal(s) \/ RemoveChecks(s)
             \/ ReplayReads(s) \/ ReplaySent(s) \/ ReplayAcks(s)
             \/ ReplayFails(s) \/ \E m \in Msgs : ReplayNext(s, m)
             \/ \E w \in Senders : SendToSocket(w, s)
      PROVE  UNCHANGED <<chan, reached>>
  BY <1>7 DEF AddLocal, Subscribe, ConnectionBreaks, RemoveLocal,
              RemoveChecks, ReplayReads, ReplaySent, ReplayAcks, ReplayFails,
              ReplayNext, SendToSocket, subVars
<1>8. ASSUME NEW m \in Msgs,
             \/ PublishNotification(m) \/ SentLocally(m)
             \/ persistUserMessage(m) \/ SendFails(m) \/ GiveUp(m)
             \/ StreamExpires(m) \/ \E p \in Pods : SendMessage(m, p)
      PROVE  UNCHANGED <<chan, reached>>
  BY <1>8 DEF PublishNotification, SentLocally, persistUserMessage, SendFails,
              GiveUp, StreamExpires, SendMessage, subVars
<1>9. ASSUME NEW p \in Pods, SubscriptionStarts(p) \/ Received(p)
      PROVE  UNCHANGED <<chan, reached>>
  BY <1>9 DEF SubscriptionStarts, Received, subVars
<1>10. CASE UNCHANGED vars
  BY <1>10, <1>1 DEF vars
<1>11. QED
  BY <1>1, <1>2, <1>3, <1>4, <1>5, <1>6, <1>7, <1>8, <1>9, <1>10 DEF Next

\* The part of JobsAreHonest about goroutine w.
Honest(w) ==
  job[w] # Idle =>
    /\ \A s \in job[w].todo : at[s] = job[w].pod /\ conn[s] # "new"
    /\ job[w].pc = "write" /\ ~job[w].failed /\ job[w].todo = {}
         => job[w].msg \in written
    /\ w \in Msgs => job[w].msg = w
    /\ w \in Pods =>
         /\ job[w].pod = w
         /\ <<job[w].msg, w>> \in reached
         /\ \/ job[w].msg \in written
            \/ job[w].todo # {}
            \/ \E s \in broken : at[s] = w

\* A goroutine that does nothing, or becomes idle, stays honest.
LEMMA HonestFrame ==
  ASSUME TypeOK, Kept, NEW w \in Senders, Honest(w),
         job'[w] = job[w] \/ job'[w] = Idle
  PROVE  Honest(w)'
<1>1. CASE job'[w] = Idle
  BY <1>1 DEF Honest
<1>2. CASE job'[w] = job[w] /\ job[w] # Idle
  <2>1. job[w].todo \subseteq Sockets
    BY <1>2, JobFields
  <2>2. QED
    BY <1>2, <2>1 DEF Honest, Kept
<1>3. QED
  BY <1>1, <1>2

\* A goroutine that starts to send is honest: for a subscription, because Redis
\* passed it the message.
LEMMA HonestStart ==
  ASSUME TypeOK, LiveIsRegistered, ChanWasReached, Kept, NEW w \in Senders,
         NEW m \in Msgs, NEW p \in Pods, StartSending(w, m, p),
         w \in Msgs => m = w, w \in Pods => w = p /\ <<m, p>> \in reached,
         UNCHANGED socketVars
  PROVE  Honest(w)'
<1>1. job'[w] = [pc |-> "write", msg |-> m, pod |-> p,
                 todo |-> Local(p), failed |-> Local(p) = {}]
  BY DEF StartSending, TypeOK
<1>2. /\ job'[w].todo = Local(p) /\ job'[w].failed = (Local(p) = {})
      /\ job'[w].msg = m /\ job'[w].pod = p
  BY <1>1
<1>3. \A s \in Local(p) : at[s] = p /\ conn[s] # "new"
  BY DEF Local, LiveIsRegistered, TypeOK
<1>4. ASSUME w \in Pods, Local(p) = {}
      PROVE  \E s \in broken : at[s] = w
  <2>1. PICK s \in Sockets : at[s] = p /\ conn[s] # "new"
    BY <1>4 DEF ChanWasReached
  <2>2. s \notin registered
    BY <2>1, <1>4 DEF Local
  <2>3. s \in broken
    BY <2>1, <2>2 DEF LiveIsRegistered, TypeOK, Phase
  <2>4. QED
    BY <2>1, <2>3, <1>4
<1>5. /\ \A s \in job'[w].todo : at'[s] = job'[w].pod /\ conn'[s] # "new"
      /\ ~job'[w].failed /\ job'[w].todo = {} => job'[w].msg \in written'
      /\ w \in Msgs => job'[w].msg = w
  BY <1>2, <1>3 DEF socketVars
<1>6. w \in Pods =>
        /\ job'[w].pod = w
        /\ <<job'[w].msg, w>> \in reached'
        /\ \/ job'[w].msg \in written'
           \/ job'[w].todo # {}
           \/ \E s \in broken' : at'[s] = w
  BY <1>2, <1>4 DEF socketVars, Kept
<1>7. QED
  BY <1>5, <1>6 DEF Honest

\* A write that fails met a broken socket.
LEMMA HonestWrite ==
  ASSUME TypeOK, LiveIsRegistered, Kept, NEW w \in Senders, Honest(w),
         NEW s \in Sockets, SendToSocket(w, s)
  PROVE  Honest(w)'
<1>1. job[w] # Idle
  BY WritingIsBusy DEF SendToSocket
<1>2. /\ job[w] \in Sending /\ job[w].todo \subseteq Sockets
      /\ s \in job[w].todo /\ at[s] = job[w].pod /\ conn[s] # "new"
      /\ UNCHANGED <<at, conn, broken, reached>>
  BY <1>1, JobFields DEF SendToSocket, Honest
<1>3. CASE /\ written' = written \cup {job[w].msg}
           /\ job' = [job EXCEPT ![w].todo = @ \ {s}]
  <2>1. job'[w] = [job[w] EXCEPT !.todo = @ \ {s}]
    BY <1>3 DEF TypeOK
  <2>2. /\ job'[w].pc = job[w].pc /\ job'[w].failed = job[w].failed
        /\ job'[w].pod = job[w].pod /\ job'[w].msg = job[w].msg
        /\ job'[w].todo = job[w].todo \ {s}
    BY <2>1, <1>2 DEF Sending
  <2>3. QED
    BY <2>2, <1>1, <1>2, <1>3 DEF Honest
<1>4. CASE /\ s \notin registered \/ s \in broken
           /\ job' = [job EXCEPT ![w].todo = @ \ {s}, ![w].failed = TRUE]
           /\ UNCHANGED written
  <2>1. job'[w] = [job[w] EXCEPT !.todo = @ \ {s}, !.failed = TRUE]
    BY <1>4 DEF TypeOK
  <2>2. /\ job'[w].pc = job[w].pc /\ job'[w].failed = TRUE
        /\ job'[w].pod = job[w].pod /\ job'[w].msg = job[w].msg
        /\ job'[w].todo = job[w].todo \ {s}
    BY <2>1, <1>2 DEF Sending
  <2>3. s \in broken
    BY <1>2, <1>4 DEF LiveIsRegistered, TypeOK, Phase
  <2>4. QED
    BY <2>2, <2>3, <1>1, <1>2, <1>4 DEF Honest
<1>5. QED
  BY <1>3, <1>4 DEF SendToSocket

\* Every step leaves every goroutine honest.
LEMMA NextJobs ==
  /\ TypeOK /\ LiveIsRegistered /\ ChanWasReached /\ JobsAreHonest
  /\ [Next]_vars
  => JobsAreHonest'
<1> SUFFICES ASSUME TypeOK, LiveIsRegistered, ChanWasReached, JobsAreHonest,
                    [Next]_vars, NEW w \in Senders
             PROVE  Honest(w)'
  BY DEF JobsAreHonest, Honest
<1>k. Kept /\ Honest(w)
  BY NextKept DEF JobsAreHonest, Honest
<1>f. CASE job'[w] = job[w] \/ job'[w] = Idle
  BY <1>f, <1>k, HonestFrame
<1>1. ASSUME NEW v \in Senders, NEW s \in Sockets, SendToSocket(v, s)
      PROVE  Honest(w)'
  <2>1. CASE v = w
    BY <2>1, <1>1, <1>k, HonestWrite
  <2>2. CASE v # w
    BY <2>2, <1>1, <1>f DEF SendToSocket, TypeOK
  <2>3. QED
    BY <2>1, <2>2
<1>2. ASSUME NEW m \in Msgs, NEW p \in Pods, SendMessage(m, p)
      PROVE  Honest(w)'
  <2>1. CASE w = m
    <3>1. w \notin Pods
      BY <2>1, DeliveryAssumption
    <3>2. QED
      BY <2>1, <3>1, <1>2, <1>k, HonestStart DEF SendMessage
  <2>2. CASE w # m
    BY <2>2, <1>2, <1>f DEF SendMessage, StartSending, TypeOK
  <2>3. QED
    BY <2>1, <2>2
<1>3. ASSUME NEW m \in Msgs, NEW p \in Pods, Receive(p, m)
      PROVE  Honest(w)'
  <2>1. CASE w = p
    <3>1. w \notin Msgs /\ <<m, p>> \in reached
      BY <2>1, <1>3, DeliveryAssumption DEF Receive, ChanWasReached
    <3>2. QED
      BY <2>1, <3>1, <1>3, <1>k, HonestStart DEF Receive
  <2>2. CASE w # p
    BY <2>2, <1>3, <1>f DEF Receive, StartSending, TypeOK
  <2>3. QED
    BY <2>1, <2>2
<1>4. ASSUME NEW s \in Sockets, NEW m \in Msgs, ReplayNext(s, m)
      PROVE  Honest(w)'
  <2>1. CASE w = s
    <3>1. w \notin Msgs /\ w \notin Pods /\ at[s] \in Pods
      BY <2>1, DeliveryAssumption DEF TypeOK
    <3>2. QED
      BY <2>1, <3>1, <1>4, <1>k, HonestStart DEF ReplayNext
  <2>2. CASE w # s
    BY <2>2, <1>4, <1>f DEF ReplayNext, StartSending, TypeOK
  <2>3. QED
    BY <2>1, <2>2
<1>5. ASSUME NEW m \in Msgs, PublishToUser(m)
      PROVE  Honest(w)'
  <2>1. CASE job' = [job EXCEPT ![m] = Idle]
    BY <2>1, <1>f DEF TypeOK
  <2>2. CASE job' = [job EXCEPT ![m].pc = "persist"] /\ w # m
    BY <2>2, <1>f DEF TypeOK
  <2>3. CASE job' = [job EXCEPT ![m].pc = "persist"] /\ w = m
    <3>1. job[w] # Idle /\ w \notin Pods
      BY <1>5, <2>3, WritingIsBusy, DeliveryAssumption
      DEF PublishToUser, SentOrFailed
    <3>2. job[w] \in Sending /\ job[w].todo \subseteq Sockets
      BY <3>1, JobFields
    <3>3. job'[w] = [job[w] EXCEPT !.pc = "persist"]
      BY <2>3 DEF TypeOK
    <3>4. /\ job'[w].pc = "persist" /\ job'[w].todo = job[w].todo
          /\ job'[w].pod = job[w].pod /\ job'[w].msg = job[w].msg
      BY <3>2, <3>3 DEF Sending
    <3>5. QED
      BY <3>1, <3>2, <3>4, <1>k DEF Honest, Kept
  <2>4. QED
    BY <1>5, <2>1, <2>2, <2>3 DEF PublishToUser
<1>6. ASSUME NEW p \in Pods, PodStops(p)
      PROVE  Honest(w)'
  BY <1>6, <1>f DEF PodStops
<1>7. ASSUME NEW s \in Sockets,
             \/ AddLocal(s) \/ Subscribe(s) \/ ConnectionBreaks(s)
             \/ RemoveLocal(s) \/ RemoveChecks(s) \/ RemoveCloses(s)
             \/ ReplayReads(s) \/ ReplaySent(s) \/ ReplayAcks(s)
             \/ ReplayFails(s)
      PROVE  job'[w] = job[w] \/ job'[w] = Idle
  BY <1>7 DEF AddLocal, Subscribe, ConnectionBreaks, RemoveLocal,
              RemoveChecks, RemoveCloses, ReplayReads, ReplaySent, ReplayAcks,
              ReplayFails, TypeOK
<1>8. ASSUME NEW m \in Msgs,
             \/ PublishNotification(m) \/ SentLocally(m)
             \/ persistUserMessage(m) \/ SendFails(m) \/ GiveUp(m)
             \/ StreamExpires(m)
      PROVE  job'[w] = job[w] \/ job'[w] = Idle
  BY <1>8 DEF PublishNotification, SentLocally, persistUserMessage, SendFails,
              GiveUp, StreamExpires, TypeOK
<1>9. ASSUME NEW p \in Pods, SubscriptionStarts(p) \/ Received(p)
      PROVE  job'[w] = job[w] \/ job'[w] = Idle
  BY <1>9 DEF SubscriptionStarts, Received, TypeOK
<1>10. CASE UNCHANGED vars
  BY <1>10, <1>f DEF vars
<1>11. QED
  BY <1>f, <1>1, <1>2, <1>3, <1>4, <1>5, <1>6, <1>7, <1>8, <1>9, <1>10 DEF Next

-----------------------------------------------------------------------------
(* Replay *)

\* A replay notes for deletion only what was written.
LEMMA NextAcked ==
  TypeOK /\ JobsAreHonest /\ AckedWasWritten /\ [Next]_vars => AckedWasWritten'
<1> SUFFICES ASSUME TypeOK, JobsAreHonest, AckedWasWritten, [Next]_vars,
                    NEW u \in Sockets, replay'[u] # Idle
             PROVE  replay'[u].acked \subseteq written'
  BY DEF AckedWasWritten
<1>k. written \subseteq written'
  BY NextKept DEF Kept
<1>f. CASE replay'[u] = replay[u]
  BY <1>f, <1>k DEF AckedWasWritten
<1>1. ASSUME NEW s \in Sockets, ReplaySent(s)
      PROVE  replay'[u].acked \subseteq written'
  <2>1. replay[s] # Idle /\ replay[s] \in Replaying /\ s \in Senders
    BY <1>1 DEF ReplaySent, TypeOK, Senders
  <2>2. job[s] # Idle
    BY <1>1, WritingIsBusy DEF ReplaySent, SentOrFailed
  <2>3. CASE job[s].failed
    <3>1. replay' = [replay EXCEPT ![s].pc = "ack"]
      BY <1>1, <2>3 DEF ReplaySent
    <3>2. u = s => replay'[u].acked = replay[u].acked
      BY <3>1, <2>1 DEF TypeOK, Replaying
    <3>3. QED
      BY <3>1, <3>2, <2>1, <1>k, <1>f DEF TypeOK, AckedWasWritten
  <2>4. CASE ~job[s].failed
    <3>1. replay' = [replay EXCEPT ![s].acked = @ \cup {job[s].msg}]
      BY <1>1, <2>4 DEF ReplaySent
    <3>2. u = s => replay'[u].acked = replay[u].acked \cup {job[s].msg}
      BY <3>1, <2>1 DEF TypeOK, Replaying
    <3>3. job[s].msg \in written
      BY <1>1, <2>1, <2>2, <2>4 DEF ReplaySent, SentOrFailed, JobsAreHonest
    <3>4. QED
      BY <3>1, <3>2, <3>3, <2>1, <1>k, <1>f DEF TypeOK, AckedWasWritten
  <2>5. QED
    BY <2>3, <2>4
<1>2. ASSUME NEW s \in Sockets, NEW m \in Msgs, ReplayNext(s, m)
      PROVE  replay'[u].acked \subseteq written'
  <2>1. replay[s] # Idle /\ replay[s] \in Replaying
    BY <1>2 DEF ReplayNext, TypeOK
  <2>2. replay' = [replay EXCEPT ![s].left = @ \ {m}]
    BY <1>2 DEF ReplayNext
  <2>3. u = s => replay'[u].acked = replay[u].acked
    BY <2>1, <2>2 DEF TypeOK, Replaying
  <2>4. QED
    BY <2>1, <2>2, <2>3, <1>k, <1>f DEF TypeOK, AckedWasWritten
<1>3. ASSUME NEW s \in Sockets,
             \/ Subscribe(s) \/ ReplayReads(s) \/ ReplayAcks(s)
             \/ ReplayFails(s)
      PROVE  replay'[u] = replay[u] \/ replay'[u].acked = {}
  BY <1>3 DEF Subscribe, ReplayReads, ReplayAcks, ReplayFails, TypeOK
<1>4. ASSUME NEW p \in Pods, PodStops(p)
      PROVE  replay'[u] = replay[u]
  BY <1>4 DEF PodStops
<1>5. ASSUME NEW s \in Sockets,
             \/ AddLocal(s) \/ ConnectionBreaks(s) \/ RemoveLocal(s)
             \/ RemoveChecks(s) \/ RemoveCloses(s)
             \/ \E w \in Senders : SendToSocket(w, s)
      PROVE  replay'[u] = replay[u]
  BY <1>5 DEF AddLocal, ConnectionBreaks, RemoveLocal, RemoveChecks,
              RemoveCloses, SendToSocket
<1>6. ASSUME NEW m \in Msgs,
             \/ PublishNotification(m) \/ SentLocally(m) \/ PublishToUser(m)
             \/ persistUserMessage(m) \/ SendFails(m) \/ GiveUp(m)
             \/ StreamExpires(m)
             \/ \E p \in Pods : SendMessage(m, p) \/ Receive(p, m)
      PROVE  replay'[u] = replay[u]
  BY <1>6 DEF PublishNotification, SentLocally, PublishToUser,
              persistUserMessage, SendFails, GiveUp, StreamExpires,
              SendMessage, Receive
<1>7. ASSUME NEW p \in Pods, SubscriptionStarts(p) \/ Received(p)
      PROVE  replay'[u] = replay[u]
  BY <1>7 DEF SubscriptionStarts, Received
<1>8. CASE UNCHANGED vars
  BY <1>8, <1>f DEF vars
<1>9. QED
  BY <1>f, <1>1, <1>2, <1>3, <1>4, <1>5, <1>6, <1>7, <1>8 DEF Next

\* What leaves the stream was written, or expired.
LEMMA NextDeleted ==
  TypeOK /\ AckedWasWritten /\ [Next]_vars =>
    \A m \in stream \ stream' : m \in written \/ m \in givenUp'
<1> SUFFICES ASSUME TypeOK, AckedWasWritten, [Next]_vars,
                    NEW n \in stream \ stream'
             PROVE  n \in written \/ n \in givenUp'
  OBVIOUS
<1>1. ASSUME NEW s \in Sockets, ReplayAcks(s)
      PROVE  n \in written
  BY <1>1 DEF ReplayAcks, AckedWasWritten
<1>2. ASSUME NEW m \in Msgs, StreamExpires(m)
      PROVE  n \in givenUp'
  BY <1>2 DEF StreamExpires
<1>3. ASSUME NEW s \in Sockets,
             \/ AddLocal(s) \/ Subscribe(s) \/ ConnectionBreaks(s)
             \/ RemoveLocal(s) \/ RemoveChecks(s) \/ RemoveCloses(s)
             \/ ReplayReads(s) \/ ReplaySent(s) \/ ReplayFails(s)
             \/ \E m \in Msgs : ReplayNext(s, m)
             \/ \E w \in Senders : SendToSocket(w, s)
      PROVE  FALSE
  BY <1>3 DEF AddLocal, Subscribe, ConnectionBreaks, RemoveLocal,
              RemoveChecks, RemoveCloses, ReplayReads, ReplaySent,
              ReplayFails, ReplayNext, SendToSocket, mailVars
<1>4. ASSUME NEW m \in Msgs,
             \/ PublishNotification(m) \/ SentLocally(m) \/ PublishToUser(m)
             \/ persistUserMessage(m) \/ SendFails(m) \/ GiveUp(m)
             \/ \E p \in Pods : SendMessage(m, p) \/ Receive(p, m)
      PROVE  FALSE
  BY <1>4 DEF PublishNotification, SentLocally, PublishToUser,
              persistUserMessage, SendFails, GiveUp, SendMessage, Receive,
              mailVars
<1>5. ASSUME NEW p \in Pods,
             SubscriptionStarts(p) \/ Received(p) \/ PodStops(p)
      PROVE  FALSE
  BY <1>5 DEF SubscriptionStarts, Received, PodStops, mailVars
<1>6. CASE UNCHANGED vars
  BY <1>6 DEF vars
<1>7. QED
  BY <1>1, <1>2, <1>3, <1>4, <1>5, <1>6 DEF Next

-----------------------------------------------------------------------------
(* Loss *)

\* What became of message m, when it is not in its queue.
AccountedFor(m) ==
  \/ m \in written \/ InFlight(m) \/ m \in stream \cup givenUp
  \/ \E s \in broken : <<m, at[s]>> \in reached

\* What a channel drops was passed to a pod where a connection broke.
LEMMA ChanStays ==
  ASSUME TypeOK, SocketInv, ChanWasReached, Kept, Next,
         NEW q \in Pods, NEW n \in chan[q]
  PROVE  AccountedFor(n)'
<1>1. <<n, q>> \in reached'
  BY DEF ChanWasReached, Kept
<1>2. CASE n \in chan'[q]
  BY <1>2 DEF AccountedFor, InFlight
<1>3. ASSUME NEW u \in Sockets, at[u] = q, u \in broken'
      PROVE  AccountedFor(n)'
  BY <1>1, <1>3 DEF AccountedFor, Kept
<1>4. ASSUME NEW s \in Sockets, RemoveCloses(s), n \notin chan'[q]
      PROVE  AccountedFor(n)'
  <2>1. at[s] = q
    BY <1>4 DEF RemoveCloses, TypeOK
  <2>2. s \in broken'
    BY <1>4 DEF RemoveCloses, SocketInv, LiveIsRegistered
  <2>3. QED
    BY <2>1, <2>2, <1>3
<1>5. ASSUME NEW p \in Pods, NEW m \in Msgs, Receive(p, m), n \notin chan'[q]
      PROVE  AccountedFor(n)'
  <2>1. p = q /\ m = n
    BY <1>5 DEF Receive, TypeOK
  <2>2. q \in Senders
    BY DEF Senders
  <2>3. job'[q] = [pc |-> "write", msg |-> n, pod |-> q, todo |-> Local(q),
                   failed |-> Local(q) = {}]
    BY <1>5, <2>1, <2>2 DEF Receive, StartSending, TypeOK
  <2>4. job'[q].pc = "write" /\ job'[q].msg = n
    BY <2>3
  <2>5. job'[q] # Idle
    BY <2>4 DEF Idle
  <2>6. QED
    BY <2>4, <2>5 DEF AccountedFor, InFlight
<1>6. ASSUME NEW p \in Pods, PodStops(p), n \notin chan'[q]
      PROVE  AccountedFor(n)'
  <2>1. p = q
    BY <1>6 DEF PodStops, TypeOK
  <2>2. PICK u \in Sockets : at[u] = q /\ conn[u] # "new"
    BY DEF ChanWasReached, TypeOK
  <2>3. u \in broken'
    BY <1>6, <2>1, <2>2 DEF PodStops
  <2>4. QED
    BY <2>2, <2>3, <1>3
<1>7. ASSUME NEW s \in Sockets,
             \/ AddLocal(s) \/ Subscribe(s) \/ ConnectionBreaks(s)
             \/ RemoveLocal(s) \/ RemoveChecks(s)
             \/ ReplayReads(s) \/ ReplaySent(s) \/ ReplayAcks(s)
             \/ ReplayFails(s) \/ \E m \in Msgs : ReplayNext(s, m)
             \/ \E w \in Senders : SendToSocket(w, s)
      PROVE  chan' = chan
  BY <1>7 DEF AddLocal, Subscribe, ConnectionBreaks, RemoveLocal,
              RemoveChecks, ReplayReads, ReplaySent, ReplayAcks, ReplayFails,
              ReplayNext, SendToSocket, subVars
<1>8. ASSUME NEW m \in Msgs,
             \/ PublishNotification(m) \/ SentLocally(m) \/ PublishToUser(m)
             \/ persistUserMessage(m) \/ SendFails(m) \/ GiveUp(m)
             \/ StreamExpires(m) \/ \E p \in Pods : SendMessage(m, p)
      PROVE  chan[q] \subseteq chan'[q]
  BY <1>8 DEF PublishNotification, SentLocally, PublishToUser,
              persistUserMessage, SendFails, GiveUp, StreamExpires,
              SendMessage, subVars
<1>9. ASSUME NEW p \in Pods, SubscriptionStarts(p) \/ Received(p)
      PROVE  chan' = chan
  BY <1>9 DEF SubscriptionStarts, Received, subVars
<1>10. QED
  BY <1>2, <1>4, <1>5, <1>6, <1>7, <1>8, <1>9 DEF Next

\* What a subscription finishes was written, or a connection of its pod broke.
LEMMA ReceivedStays ==
  ASSUME TypeOK, SocketInv, ChanWasReached, JobsAreHonest, Kept, Next,
         NEW q \in Pods, job[q] # Idle, NEW n, n = job[q].msg
  PROVE  AccountedFor(n)'
<1>s. q \in Senders /\ q \notin Msgs /\ q \notin Sockets
  BY DeliveryAssumption DEF Senders
<1>1. /\ <<job[q].msg, q>> \in reached' /\ job[q].pod = q
      /\ \/ job[q].msg \in written
         \/ job[q].todo # {}
         \/ \E s \in broken : at[s] = q
      /\ job[q] \in Sending
  BY <1>s, JobFields DEF JobsAreHonest, Kept
<1>2. CASE job'[q] # Idle /\ job'[q].msg = job[q].msg
  BY <1>2 DEF AccountedFor, InFlight
<1>3. CASE \E u \in broken' : at[u] = q
  BY <1>1, <1>3 DEF AccountedFor, Kept
<1>4. CASE job[q].msg \in written
  BY <1>4 DEF AccountedFor, Kept
<1>5. ASSUME NEW p \in Pods, Received(p), p = q
      PROVE  AccountedFor(n)'
  <2>1. job[q].todo = {}
    BY <1>5 DEF Received, SentOrFailed
  <2>2. QED
    BY <2>1, <1>1, <1>3, <1>4 DEF Kept
<1>6. ASSUME NEW p \in Pods, PodStops(p), job'[q] = Idle
      PROVE  AccountedFor(n)'
  <2>1. p = q
    BY <1>6, <1>1, <1>s DEF PodStops
  <2>2. <<job[q].msg, q>> \in reached /\ job[q].msg \in Msgs
    BY <1>s, JobFields DEF JobsAreHonest
  <2>3. PICK u \in Sockets : at[u] = q /\ conn[u] # "new"
    BY <2>2 DEF ChanWasReached
  <2>4. u \in broken'
    BY <1>6, <2>1, <2>3 DEF PodStops
  <2>5. QED
    BY <2>3, <2>4, <1>3
<1>7. ASSUME NEW w \in Senders, NEW s \in Sockets, SendToSocket(w, s), w = q
      PROVE  job'[q] # Idle /\ job'[q].msg = job[q].msg
  <2>1. \/ job' = [job EXCEPT ![q].todo = @ \ {s}]
        \/ job' = [job EXCEPT ![q].todo = @ \ {s}, ![q].failed = TRUE]
    BY <1>7 DEF SendToSocket
  <2>2. \/ job'[q] = [job[q] EXCEPT !.todo = @ \ {s}]
        \/ job'[q] = [job[q] EXCEPT !.todo = @ \ {s}, !.failed = TRUE]
    BY <2>1, <1>s DEF TypeOK
  <2>3. job'[q].msg = job[q].msg /\ job'[q].pc = job[q].pc
    BY <2>2, <1>1 DEF Sending
  <2>4. job'[q] # Idle
    BY <2>3, <1>1 DEF Idle, Sending
  <2>5. QED
    BY <2>3, <2>4
<1>8. ASSUME NEW s \in Sockets,
             \/ AddLocal(s) \/ Subscribe(s) \/ ConnectionBreaks(s)
             \/ RemoveLocal(s) \/ RemoveChecks(s) \/ RemoveCloses(s)
             \/ ReplayReads(s) \/ ReplaySent(s) \/ ReplayAcks(s)
             \/ ReplayFails(s) \/ \E m \in Msgs : ReplayNext(s, m)
             \/ \E w \in Senders \ {q} : SendToSocket(w, s)
      PROVE  job'[q] = job[q]
  BY <1>8, <1>s DEF AddLocal, Subscribe, ConnectionBreaks, RemoveLocal,
              RemoveChecks, RemoveCloses, ReplayReads, ReplaySent, ReplayAcks,
              ReplayFails, ReplayNext, StartSending, SendToSocket, TypeOK
<1>9. ASSUME NEW m \in Msgs,
             \/ PublishNotification(m) \/ SentLocally(m) \/ PublishToUser(m)
             \/ persistUserMessage(m) \/ SendFails(m) \/ GiveUp(m)
             \/ StreamExpires(m) \/ \E p \in Pods : SendMessage(m, p)
      PROVE  job'[q] = job[q]
  BY <1>9, <1>s DEF PublishNotification, SentLocally, PublishToUser,
              persistUserMessage, SendFails, GiveUp, StreamExpires,
              SendMessage, StartSending, TypeOK
<1>10. ASSUME NEW p \in Pods,
              \/ SubscriptionStarts(p)
              \/ Received(p) /\ p # q
              \/ PodStops(p) /\ job'[q] # Idle
              \/ \E m \in Msgs : Receive(p, m)
       PROVE  job'[q] = job[q]
  BY <1>10, <1>s DEF SubscriptionStarts, Received, PodStops, Receive,
                     StartSending, TypeOK
<1>11. CASE job'[q] = job[q]
  BY <1>11, <1>2
<1>12. CASE \E s \in Sockets, w \in Senders : SendToSocket(w, s)
  BY <1>12, <1>2, <1>7, <1>8, <1>11
<1>13. CASE \E p \in Pods : \/ SubscriptionStarts(p) \/ Received(p)
                            \/ PodStops(p) \/ \E m \in Msgs : Receive(p, m)
  <2>1. PICK p \in Pods : \/ SubscriptionStarts(p) \/ Received(p)
                         \/ PodStops(p) \/ \E m \in Msgs : Receive(p, m)
    BY <1>13
  <2>2. CASE Received(p) /\ p = q
    BY <2>2, <1>5
  <2>3. CASE PodStops(p) /\ job'[q] = Idle
    BY <2>3, <1>6
  <2>4. CASE ~(Received(p) /\ p = q) /\ ~(PodStops(p) /\ job'[q] = Idle)
    <3>1. job'[q] = job[q]
      BY <2>1, <2>4, <1>10
    <3>2. QED
      BY <3>1, <1>11
  <2>5. QED
    BY <2>2, <2>3, <2>4
<1>14. QED
  BY <1>8, <1>9, <1>11, <1>12, <1>13 DEF Next

\* An acknowledgement is sent when the message is accounted for.
LEMMA AckIsAccounted ==
  ASSUME TypeOK, JobsAreHonest, Kept, Next, NEW n \in sent' \ queue',
         n \notin sent \ queue
  PROVE  AccountedFor(n)'
<1>1. ASSUME NEW m \in Msgs, PublishNotification(m)
      PROVE  FALSE
  BY <1>1 DEF PublishNotification
<1>2. ASSUME NEW m \in Msgs, SentLocally(m)
      PROVE  AccountedFor(n)'
  <2>1. m = n
    BY <1>2 DEF SentLocally, Ack
  <2>2. m \in Senders /\ job[m] # Idle
    BY <1>2, WritingIsBusy DEF SentLocally, SentOrFailed, Senders
  <2>3. job[m].pc = "write" /\ ~job[m].failed /\ job[m].todo = {}
    BY <1>2 DEF SentLocally, SentOrFailed
  <2>4. m \in written
    <3>1. Honest(m)
      BY <2>2 DEF JobsAreHonest, Honest
    <3>2. job[m].msg = m
      BY <2>2, <3>1 DEF Honest
    <3>3. job[m].msg \in written
      BY <2>2, <2>3, <3>1 DEF Honest
    <3>4. QED
      BY <3>2, <3>3
  <2>5. QED
    BY <2>1, <2>4 DEF AccountedFor, Kept
<1>3. ASSUME NEW m \in Msgs, PublishToUser(m)
      PROVE  AccountedFor(n)'
  <2>1. active # {} /\ m = n
    BY <1>3 DEF PublishToUser, Ack
  <2>2. PICK p \in active : TRUE
    BY <2>1
  <2>3. p \in Pods /\ n \in chan'[p]
    BY <1>3, <2>1, <2>2 DEF PublishToUser, TypeOK
  <2>4. QED
    BY <2>3 DEF AccountedFor, InFlight
<1>4. ASSUME NEW m \in Msgs, persistUserMessage(m)
      PROVE  AccountedFor(n)'
  BY <1>4 DEF persistUserMessage, Ack, AccountedFor
<1>5. ASSUME NEW m \in Msgs, GiveUp(m)
      PROVE  AccountedFor(n)'
  BY <1>5 DEF GiveUp, AccountedFor
<1>6. ASSUME NEW s \in Sockets,
             \/ AddLocal(s) \/ Subscribe(s) \/ ConnectionBreaks(s)
             \/ RemoveLocal(s) \/ RemoveChecks(s) \/ RemoveCloses(s)
             \/ ReplayReads(s) \/ ReplaySent(s) \/ ReplayAcks(s)
             \/ ReplayFails(s) \/ \E m \in Msgs : ReplayNext(s, m)
             \/ \E w \in Senders : SendToSocket(w, s)
      PROVE  UNCHANGED <<sent, queue>>
  BY <1>6 DEF AddLocal, Subscribe, ConnectionBreaks, RemoveLocal,
              RemoveChecks, RemoveCloses, ReplayReads, ReplaySent, ReplayAcks,
              ReplayFails, ReplayNext, SendToSocket, mailVars
<1>7. ASSUME NEW m \in Msgs,
             \/ SendFails(m) \/ StreamExpires(m)
             \/ \E p \in Pods : SendMessage(m, p) \/ Receive(p, m)
      PROVE  UNCHANGED <<sent, queue>>
  BY <1>7 DEF SendFails, StreamExpires, SendMessage, Receive, mailVars
<1>8. ASSUME NEW p \in Pods,
             SubscriptionStarts(p) \/ Received(p) \/ PodStops(p)
      PROVE  UNCHANGED <<sent, queue>>
  BY <1>8 DEF SubscriptionStarts, Received, PodStops, mailVars
<1>9. QED
  BY <1>1, <1>2, <1>3, <1>4, <1>5, <1>6, <1>7, <1>8 DEF Next

\* Every step leaves every acknowledged message accounted for.
LEMMA NextLoss == IndInv /\ [Next]_vars => LossNeedsDisconnect'
<1> SUFFICES ASSUME IndInv, [Next]_vars PROVE LossNeedsDisconnect'
  OBVIOUS
<1>1. CASE UNCHANGED vars
  BY <1>1 DEF vars, IndInv, LossNeedsDisconnect, InFlight
<1>2. CASE Next
  <2>1. Kept /\ SocketInv
    BY NextKept DEF IndInv, SocketInv
  <2> SUFFICES ASSUME NEW n \in sent' \ queue' PROVE AccountedFor(n)'
    BY DEF LossNeedsDisconnect, AccountedFor
  <2>2. CASE n \notin sent \ queue
    BY <2>1, <2>2, <1>2, AckIsAccounted DEF IndInv
  <2>3. CASE n \in sent \ queue
    <3>1. AccountedFor(n)
      BY <2>3 DEF IndInv, LossNeedsDisconnect, AccountedFor
    <3>2. CASE \/ n \in written \/ n \in givenUp
               \/ \E s \in broken : <<n, at[s]>> \in reached
      BY <3>2, <2>1 DEF AccountedFor, Kept
    <3>3. CASE n \in stream
      BY <3>3, <2>1, NextDeleted DEF IndInv, AccountedFor, Kept
    <3>4. CASE \E p \in Pods : n \in chan[p]
      BY <3>4, <2>1, <1>2, ChanStays DEF IndInv
    <3>5. CASE \E p \in Pods : job[p] # Idle /\ job[p].msg = n
      BY <3>5, <2>1, <1>2, ReceivedStays DEF IndInv
    <3>6. QED
      BY <3>1, <3>2, <3>3, <3>4, <3>5 DEF AccountedFor, InFlight
  <2>4. QED
    BY <2>2, <2>3
<1>3. QED
  BY <1>1, <1>2

-----------------------------------------------------------------------------
(* Theorems *)

\* Every step keeps the inductive invariant.
LEMMA NextIndInv == IndInv /\ [Next]_vars => IndInv'
<1> SUFFICES ASSUME IndInv, [Next]_vars PROVE IndInv'
  OBVIOUS
<1>1. TypeOK'
  BY NextTypeOK DEF IndInv
<1>2. SocketInv'
  BY NextSocketInv DEF IndInv, SocketInv
<1>3. ChanWasReached'
  BY NextChan DEF IndInv, SocketInv
<1>4. JobsAreHonest'
  BY NextJobs DEF IndInv
<1>5. AckedWasWritten'
  BY NextAcked DEF IndInv
<1>6. LossNeedsDisconnect'
  BY NextLoss
<1>7. QED
  BY <1>1, <1>2, <1>3, <1>4, <1>5, <1>6 DEF IndInv, SocketInv

\* The inductive invariant holds in every reachable state.
LEMMA Invariance == Spec => []IndInv
BY InitIndInv, NextIndInv, PTL DEF Spec

\* Every variable of the delivery path keeps its type.
THEOREM TypeCorrect == Spec => []TypeOK
<1>1. IndInv => TypeOK
  BY DEF IndInv
<1>2. QED
  BY Invariance, <1>1, PTL

\* A registered, served socket keeps its pod's subscription whatever the order
\* of concurrent Add and Remove calls.
THEOREM SubscribedTheorem == Spec => []ServedIsSubscribed
<1>1. IndInv => ServedIsSubscribed
  BY DEF IndInv
<1>2. QED
  BY Invariance, <1>1, PTL

\* A subscription without a handler to close it is one whose socket a failed
\* write had removed.
THEOREM OwnedTheorem == Spec => []SubscriptionIsOwned
<1>1. IndInv => SubscriptionIsOwned
  BY DEF IndInv
<1>2. QED
  BY Invariance, <1>1, PTL

\* An acknowledged notification is lost only at a pod where a connection broke.
THEOREM LossTheorem == Spec => []LossNeedsDisconnect
<1>1. IndInv => LossNeedsDisconnect
  BY DEF IndInv
<1>2. QED
  BY Invariance, <1>1, PTL

\* Replay deletes from the stream only what was written to a socket.
THEOREM DeletedTheorem == Spec => DeletedWasWritten
<1>1. IndInv /\ [Next]_vars =>
        [\A m \in stream \ stream' : m \in written \/ m \in givenUp']_vars
  BY NextDeleted DEF IndInv
<1>2. QED
  BY Invariance, <1>1, PTL DEF Spec, DeletedWasWritten
=============================================================================
