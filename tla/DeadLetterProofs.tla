-------------------------- MODULE DeadLetterProofs --------------------------
(***************************************************************************)
(* Proofs about DeadLetter, for any number of messages and queues, any     *)
(* bindings and any retry limits.                                          *)
(***************************************************************************)
EXTENDS DeadLetter, TLAPS

USE DeadLetterAssumption

----------------------------------------------------------------------------
(* Type correctness *)

\* What the broker makes of a publish are copies.
LEMMA CopiesType ==
  ASSUME NEW m \in Msgs, NEW n \in 0..MaxBrokerRetries, NEW o \in Origin
  PROVE  Copies(m, n, o) \subseteq Copy
BY DEF Copies, Copy

\* The dead-lettered form of a copy has its message and its count.
LEMMA DeadType ==
  ASSUME NEW c \in Copy, NEW o \in Origin
  PROVE  /\ Dead(c, o) \in DeadCopy
         /\ Dead(c, o).msg = c.msg
         /\ Dead(c, o).count = c.count
         /\ Dead(c, o).origin = o
BY DEF Dead, Copy, DeadCopy

\* A publish leaves a copy in every bound queue.
LEMMA CopiesReach ==
  ASSUME NEW m, NEW n, NEW o \in Origin, NEW q \in Route[m]
  PROVE  \E c \in Copies(m, n, o) : c.msg = m /\ c.at = q
<1>1. [msg |-> m, at |-> q, count |-> n, origin |-> o] \in Copies(m, n, o)
  BY DEF Copies
<1>2. QED
  BY <1>1

\* A consumer that is not idle works on a copy.
LEMMA WorkingCopy ==
  ASSUME TypeOK, NEW q \in Queues
  PROVE  /\ consumer[q].pc = "handling" => consumer[q] \in Working
         /\ consumer[q].pc = "failed" => consumer[q] \in Working
         /\ consumer[q] # Idle => consumer[q] \in Working
BY DEF TypeOK, Idle, Working

\* A worker in its delay holds a dead copy.
LEMMA DelayingCopy ==
  ASSUME TypeOK, worker.pc = "delay"
  PROVE  worker \in Delaying /\ worker.copy \in DeadCopy
BY DEF TypeOK, Idle, Down, Delaying

\* The initial state is well typed.
LEMMA InitTypeOK == Init => TypeOK
BY DEF Init, TypeOK

\* Every step of a well-typed, justified state leads to a well-typed one.  The
\* justification is needed for one bound: only a copy below the limit is
\* republished.
LEMMA NextTypeOK ==
  ASSUME TypeOK, WorkIsJustified, [Next]_vars
  PROVE  TypeOK'
<1>1. CASE UNCHANGED vars
  BY <1>1 DEF TypeOK, vars
<1>2. ASSUME NEW m \in Msgs, PublishMessage(m) PROVE TypeOK'
  <2>1. Copies(m, 0, "unset") \subseteq Copy
    <3>1. 0 \in 0..MaxBrokerRetries /\ "unset" \in Origin
      BY DEF Origin
    <3>2. QED
      BY <3>1, CopiesType
  <2>2. QED
    BY <1>2, <2>1 DEF TypeOK, PublishMessage
<1>3. ASSUME NEW c \in ready, Deliver(c) PROVE TypeOK'
  <2>1. [pc |-> "handling", copy |-> c, attempt |-> 0] \in Working
    BY <1>3 DEF TypeOK, Working
  <2>2. QED
    BY <1>3, <2>1 DEF TypeOK, Deliver
<1>4. ASSUME NEW q \in Queues, Consume(q) PROVE TypeOK'
  <2>1. CASE HandlerSucceeds(q)
    <3>1. <<consumer[q].copy.msg, q>> \in Msgs \X Queues
      BY <2>1, WorkingCopy DEF HandlerSucceeds, Working, Copy
    <3>2. ready' \subseteq ready
      BY <2>1 DEF HandlerSucceeds, AckReady
    <3>3. QED
      BY <2>1, <3>1, <3>2 DEF TypeOK, HandlerSucceeds
  <2>2. CASE HandlerRetries(q)
    <3>1. [consumer[q] EXCEPT !.attempt = @ + 1] \in Working
      BY <2>2, WorkingCopy DEF HandlerRetries, Working
    <3>2. QED
      BY <2>2, <3>1 DEF TypeOK, HandlerRetries
  <2>3. CASE HandlerGivesUp(q)
    <3>1. /\ [consumer[q] EXCEPT !.pc = "failed"] \in Working
          /\ <<consumer[q].copy.msg, consumer[q].copy.count>>
               \in Msgs \X (0..MaxBrokerRetries)
      BY <2>3, WorkingCopy DEF HandlerGivesUp, Working, Copy
    <3>2. QED
      BY <2>3, <3>1 DEF TypeOK, HandlerGivesUp
  <2>4. CASE RepublishToDLX(q)
    <3>1. consumer[q].copy \in Copy /\ ready' \subseteq ready
      BY <2>4, WorkingCopy DEF RepublishToDLX, AckReady, Working
    <3>2. Dead(consumer[q].copy, "set") \in DeadCopy
      BY <3>1, "set" \in Origin, DeadType DEF Origin
    <3>3. QED
      BY <2>4, <3>1, <3>2 DEF TypeOK, RepublishToDLX
  <2>5. CASE RejectToDLX(q)
    <3>1. consumer[q].copy \in Copy /\ consumer[q].copy.origin \in Origin
      BY <2>5, WorkingCopy DEF RejectToDLX, Working, Copy
    <3>2. Dead(consumer[q].copy, consumer[q].copy.origin) \in DeadCopy
      BY <3>1, DeadType
    <3>3. QED
      BY <2>5, <3>1, <3>2 DEF TypeOK, RejectToDLX
  <2>6. QED
    BY <1>4, <2>1, <2>2, <2>3, <2>4, <2>5 DEF Consume
<1>5. ASSUME NEW q \in Queues, ChannelLost(q) \/ ServiceRestarts(q)
      PROVE  TypeOK'
  BY <1>5 DEF TypeOK, ChannelLost, ServiceRestarts
<1>6. CASE WorkerStarts \/ WorkerExits \/ NackDLQMessage
  BY <1>6 DEF TypeOK, WorkerStarts, WorkerExits, NackDLQMessage
<1>7. CASE retryDLQMessage
  <2>1. worker.copy.msg \in Msgs /\ worker.copy.count + 1 \in 0..MaxBrokerRetries
    BY <1>7, DelayingCopy DEF retryDLQMessage, DeadCopy, WorkIsJustified,
       TooManyRetries
  <2>2. dlq' \subseteq dlq
    BY <1>7 DEF retryDLQMessage, AckDead
  <2>3. Copies(worker.copy.msg, worker.copy.count + 1, "set") \subseteq Copy
    BY <2>1, "set" \in Origin, CopiesType DEF Origin
  <2>4. QED
    BY <1>7, <2>2, <2>3 DEF TypeOK, retryDLQMessage
<1>8. ASSUME NEW x \in dlq, DiscardDLQMessage(x) PROVE TypeOK'
  BY <1>8 DEF TypeOK, DiscardDLQMessage, AckDead
<1>9. ASSUME NEW x \in dlq, DelayDLQMessage(x) PROVE TypeOK'
  <2>1. [pc |-> "delay", copy |-> x] \in Delaying
    BY <1>9 DEF TypeOK, Delaying
  <2>2. QED
    BY <1>9, <2>1 DEF TypeOK, DelayDLQMessage
<1>10. QED
  BY <1>1, <1>2, <1>3, <1>4, <1>5, <1>6, <1>7, <1>8, <1>9 DEF Next
----------------------------------------------------------------------------
(* The invariants *)

\* Nothing is lost by a step that replaces each copy it removes: by a handled
\* mark, by a dead letter, or by a copy in every bound queue.
LEMMA LossStep ==
  ASSUME NoSilentLoss,
         UNCHANGED sent,
         handled \subseteq handled',
         \A c \in ready : \/ c \in ready'
                         \/ <<c.msg, c.at>> \in handled'
                         \/ \E x \in dlq' \cup discarded' : x.msg = c.msg,
         \A x \in dlq \cup discarded :
           \/ x \in dlq' \cup discarded'
           \/ \A q \in Route[x.msg] :
                \E c \in ready' : c.msg = x.msg /\ c.at = q
  PROVE  NoSilentLoss'
<1> SUFFICES ASSUME NEW m \in sent, NEW q \in Route[m]
             PROVE  \/ <<m, q>> \in handled'
                    \/ \E c \in ready' : c.msg = m /\ c.at = q
                    \/ \E x \in dlq' \cup discarded' : x.msg = m
  BY DEF NoSilentLoss
<1>1. CASE <<m, q>> \in handled
  BY <1>1
<1>2. CASE \E c \in ready : c.msg = m /\ c.at = q
  BY <1>2
<1>3. CASE \E x \in dlq \cup discarded : x.msg = m
  BY <1>3
<1>4. QED
  BY <1>1, <1>2, <1>3 DEF NoSilentLoss

\* The count stays honest when each new copy is.
LEMMA CountStep ==
  ASSUME CountIsHonest,
         exhausted \subseteq exhausted',
         \A c \in ready' : \/ c \in ready
                          \/ \A k \in 0..MaxBrokerRetries :
                               k < c.count => <<c.msg, k>> \in exhausted',
         \A x \in dlq' \cup discarded' :
           \/ x \in dlq \cup discarded
           \/ \A k \in 0..MaxBrokerRetries :
                k <= x.count => <<x.msg, k>> \in exhausted'
  PROVE  CountIsHonest'
BY DEF CountIsHonest

\* The initial state satisfies the inductive invariant.
LEMMA InitIndInv == Init => IndInv
<1>1. ASSUME Init PROVE NoSilentLoss /\ CountIsHonest /\ WorkIsJustified
  BY <1>1 DEF Init, NoSilentLoss, CountIsHonest, WorkIsJustified, Idle, Down
<1>2. QED
  BY <1>1, InitTypeOK DEF IndInv

\* A publish leaves a copy in every bound queue.
LEMMA PublishStep ==
  ASSUME IndInv, NEW m \in Msgs, PublishMessage(m)
  PROVE  NoSilentLoss' /\ CountIsHonest' /\ WorkIsJustified'
<1>1. \A q \in Route[m] : \E c \in ready' : c.msg = m /\ c.at = q
  <2>1. ready' = ready \cup Copies(m, 0, "unset")
    BY DEF PublishMessage
  <2>2. TAKE q \in Route[m]
  <2>3. \E c \in Copies(m, 0, "unset") : c.msg = m /\ c.at = q
    BY "unset" \in Origin, CopiesReach DEF Origin
  <2>4. QED
    BY <2>1, <2>3
<1>2. \A c \in Copies(m, 0, "unset") : c.count = 0
  BY DEF Copies
<1>3. NoSilentLoss'
  <2>1. /\ sent' = sent \cup {m}
        /\ ready \subseteq ready'
        /\ UNCHANGED <<handled, dlq, discarded>>
    BY DEF PublishMessage
  <2>2. ASSUME NEW n \in sent, NEW q \in Route[n]
        PROVE  \/ <<n, q>> \in handled'
               \/ \E c \in ready' : c.msg = n /\ c.at = q
               \/ \E x \in dlq' \cup discarded' : x.msg = n
    <3>1. \/ <<n, q>> \in handled
          \/ \E c \in ready : c.msg = n /\ c.at = q
          \/ \E x \in dlq \cup discarded : x.msg = n
      BY DEF IndInv, NoSilentLoss
    <3>2. QED
      BY <2>1, <3>1
  <2>3. SUFFICES ASSUME NEW n \in sent', NEW q \in Route[n]
                 PROVE  \/ <<n, q>> \in handled'
                        \/ \E c \in ready' : c.msg = n /\ c.at = q
                        \/ \E x \in dlq' \cup discarded' : x.msg = n
    BY DEF NoSilentLoss
  <2>4. CASE n = m
    BY <1>1, <2>4
  <2>5. CASE n \in sent
    BY <2>2, <2>5
  <2>6. QED
    BY <2>1, <2>4, <2>5
<1>4. CountIsHonest'
  <2>1. /\ ready' = ready \cup Copies(m, 0, "unset")
        /\ UNCHANGED <<exhausted, dlq, discarded>>
    BY DEF PublishMessage
  <2>2. \A c \in ready' : \/ c \in ready
                        \/ \A k \in 0..MaxBrokerRetries :
                             k < c.count => <<c.msg, k>> \in exhausted'
    BY <1>2, <2>1
  <2>3. QED
    BY <2>1, <2>2, CountStep DEF IndInv
<1>5. WorkIsJustified'
  BY DEF IndInv, WorkIsJustified, PublishMessage
<1>6. QED
  BY <1>3, <1>4, <1>5

\* A consumer takes a copy of its own queue.
LEMMA DeliverStep ==
  ASSUME IndInv, NEW c \in ready, Deliver(c)
  PROVE  NoSilentLoss' /\ CountIsHonest' /\ WorkIsJustified'
<1>1. UNCHANGED <<sent, ready, dlq, worker, handled, exhausted, discarded>>
  BY DEF Deliver
<1>2. c \in Copy /\ c.at \in Queues
  BY DEF IndInv, TypeOK, Copy
<1>3. /\ consumer'[c.at] = [pc |-> "handling", copy |-> c, attempt |-> 0]
      /\ \A q \in Queues : q # c.at => consumer'[q] = consumer[q]
  BY <1>2 DEF Deliver, IndInv, TypeOK
<1>4. QED
  BY <1>1, <1>2, <1>3 DEF IndInv, NoSilentLoss, CountIsHonest, WorkIsJustified

\* A consumer that stops working on a copy, if the copy is handled or dead.
LEMMA ReleaseStep ==
  ASSUME IndInv, NEW q \in Queues,
         consumer' = [consumer EXCEPT ![q] = Idle],
         UNCHANGED <<sent, worker, discarded, exhausted>>,
         handled \subseteq handled',
         dlq \subseteq dlq',
         ready' \subseteq ready,
         \A c \in ready : c \in ready' \/ c = consumer[q].copy,
         \/ ready' = ready
         \/ /\ consumer[q] # Idle
            /\ \/ <<consumer[q].copy.msg, q>> \in handled'
               \/ \E x \in dlq' : x.msg = consumer[q].copy.msg
  PROVE  NoSilentLoss' /\ WorkIsJustified'
<1>1. consumer[q] # Idle => consumer[q].copy.at = q
  BY DEF IndInv, WorkIsJustified
<1>2. NoSilentLoss'
  <2>1. \A c \in ready : \/ c \in ready'
                       \/ <<c.msg, c.at>> \in handled'
                       \/ \E x \in dlq' \cup discarded' : x.msg = c.msg
    BY <1>1
  <2>2. QED
    BY <2>1, LossStep DEF IndInv
<1>3. /\ consumer'[q] = Idle
      /\ \A p \in Queues : p # q => consumer'[p] = consumer[p]
  BY DEF IndInv, TypeOK
<1>4. ASSUME NEW p \in Queues, consumer'[p] # Idle
      PROVE  /\ consumer'[p].copy \in ready'
             /\ consumer'[p].copy.at = p
             /\ consumer'[p].pc = "failed" =>
                  <<consumer'[p].copy.msg, consumer'[p].copy.count>>
                    \in exhausted'
  <2>1. p # q /\ consumer'[p] = consumer[p]
    BY <1>3, <1>4
  <2>2. /\ consumer[p].copy \in ready
        /\ consumer[p].copy.at = p
        /\ consumer[p].pc = "failed" =>
             <<consumer[p].copy.msg, consumer[p].copy.count>> \in exhausted
    BY <1>4, <2>1 DEF IndInv, WorkIsJustified
  <2>3. ready' = ready \/ consumer[p].copy # consumer[q].copy
    BY <1>1, <2>1, <2>2
  <2>4. QED
    BY <2>1, <2>2, <2>3
<1>5. WorkIsJustified'
  BY <1>4 DEF IndInv, WorkIsJustified, TooManyRetries
<1>6. QED
  BY <1>2, <1>5

\* The steps of a consumer.  A copy leaves its queue only when it is marked as
\* handled or is in the dead-letter queue, with its own count exhausted.
LEMMA ConsumeStep ==
  ASSUME IndInv, NEW q \in Queues, Consume(q)
  PROVE  NoSilentLoss' /\ CountIsHonest' /\ WorkIsJustified'
<1>1. /\ consumer[q] # Idle /\ consumer[q] \in Working
      /\ consumer[q].copy \in Copy
  BY WorkingCopy DEF Consume, HandlerSucceeds, HandlerRetries, HandlerGivesUp,
     RepublishToDLX, RejectToDLX, Idle, IndInv, Working
<1>2. CASE HandlerSucceeds(q)
  <2>1. NoSilentLoss' /\ WorkIsJustified'
    BY <1>1, <1>2, ReleaseStep DEF HandlerSucceeds, AckReady
  <2>2. CountIsHonest'
    BY <1>2, CountStep DEF IndInv, HandlerSucceeds, AckReady
  <2>3. QED
    BY <2>1, <2>2
<1>3. CASE HandlerRetries(q) \/ HandlerGivesUp(q)
  <2>1. UNCHANGED <<sent, ready, dlq, worker, handled, discarded>>
        /\ exhausted \subseteq exhausted'
    BY <1>3 DEF HandlerRetries, HandlerGivesUp
  <2>2. /\ consumer'[q].copy = consumer[q].copy
        /\ consumer'[q].pc = "failed" =>
             <<consumer[q].copy.msg, consumer[q].copy.count>> \in exhausted'
        /\ \A p \in Queues : p # q => consumer'[p] = consumer[p]
    BY <1>1, <1>3 DEF HandlerRetries, HandlerGivesUp, IndInv, TypeOK, Working
  <2>3. WorkIsJustified'
    BY <1>1, <2>1, <2>2 DEF IndInv, WorkIsJustified, TooManyRetries
  <2>4. NoSilentLoss' /\ CountIsHonest'
    BY <2>1, LossStep, CountStep DEF IndInv
  <2>5. QED
    BY <2>3, <2>4
<1>4. CASE RepublishToDLX(q) \/ RejectToDLX(q)
  <2>1. PICK o \in Origin : dlq' = dlq \cup {Dead(consumer[q].copy, o)}
    BY <1>1, <1>4 DEF RepublishToDLX, RejectToDLX, Copy, Origin
  <2>2. /\ Dead(consumer[q].copy, o).msg = consumer[q].copy.msg
        /\ Dead(consumer[q].copy, o).count = consumer[q].copy.count
    BY <1>1, DeadType
  <2>3. /\ consumer' = [consumer EXCEPT ![q] = Idle]
        /\ UNCHANGED <<sent, worker, discarded, exhausted, handled>>
        /\ ready' = ready \/ ready' = ready \ {consumer[q].copy}
        /\ consumer[q].pc = "failed"
    BY <1>4 DEF RepublishToDLX, RejectToDLX, AckReady
  <2>4. NoSilentLoss' /\ WorkIsJustified'
    <3>1. \E x \in dlq' : x.msg = consumer[q].copy.msg
      BY <2>1, <2>2
    <3>2. QED
      BY <1>1, <2>1, <2>3, <3>1, ReleaseStep
  <2>5. \A k \in 0..MaxBrokerRetries :
          k <= consumer[q].copy.count =>
            <<consumer[q].copy.msg, k>> \in exhausted
    <3>1. /\ consumer[q].copy \in ready
          /\ <<consumer[q].copy.msg, consumer[q].copy.count>> \in exhausted
      BY <1>1, <2>3 DEF IndInv, WorkIsJustified
    <3>2. \A k \in 0..MaxBrokerRetries :
            k < consumer[q].copy.count =>
              <<consumer[q].copy.msg, k>> \in exhausted
      BY <3>1 DEF IndInv, CountIsHonest
    <3>3. consumer[q].copy.count \in Nat
      BY <1>1 DEF Copy
    <3>4. QED
      BY <3>1, <3>2, <3>3
  <2>6. CountIsHonest'
    BY <2>1, <2>2, <2>3, <2>5, CountStep DEF IndInv
  <2>7. QED
    BY <2>4, <2>6
<1>5. QED
  BY <1>2, <1>3, <1>4 DEF Consume

\* A lost channel or a restart only makes a consumer let go of its copy.
LEMMA StopStep ==
  ASSUME IndInv, NEW q \in Queues, ChannelLost(q) \/ ServiceRestarts(q)
  PROVE  NoSilentLoss' /\ CountIsHonest' /\ WorkIsJustified'
<1>1. /\ consumer' = [consumer EXCEPT ![q] = Idle]
      /\ UNCHANGED <<sent, ready, dlq, worker, handled, exhausted, discarded>>
  BY DEF ChannelLost, ServiceRestarts
<1>2. NoSilentLoss' /\ WorkIsJustified'
  BY <1>1, ReleaseStep
<1>3. CountIsHonest'
  BY <1>1 DEF IndInv, CountIsHonest
<1>4. QED
  BY <1>2, <1>3

\* The worker starts, exits or requeues: no copy changes.
LEMMA WorkerStep ==
  ASSUME IndInv, WorkerStarts \/ WorkerExits \/ NackDLQMessage
  PROVE  NoSilentLoss' /\ CountIsHonest' /\ WorkIsJustified'
<1>1. /\ UNCHANGED <<sent, ready, consumer, dlq, handled, exhausted, discarded>>
      /\ worker' = Idle \/ worker' = Down
  BY DEF WorkerStarts, WorkerExits, NackDLQMessage
<1>2. worker'.pc # "delay"
  BY <1>1 DEF Idle, Down
<1>3. NoSilentLoss' /\ CountIsHonest'
  BY <1>1 DEF IndInv, NoSilentLoss, CountIsHonest
<1>4. WorkIsJustified'
  BY <1>1, <1>2 DEF IndInv, WorkIsJustified
<1>5. QED
  BY <1>3, <1>4

\* The worker acknowledges a dead letter it gives up.
LEMMA DiscardStep ==
  ASSUME IndInv, NEW x \in dlq, DiscardDLQMessage(x)
  PROVE  NoSilentLoss' /\ CountIsHonest' /\ WorkIsJustified'
<1>1. /\ UNCHANGED <<sent, ready, consumer, worker, handled, exhausted>>
      /\ discarded' = discarded \cup {x}
      /\ dlq' \subseteq dlq
      /\ \A y \in dlq : y \in dlq' \cup discarded'
      /\ worker.pc # "delay"
      /\ MissingOrigin(x) \/ TooManyRetries(x)
  BY DEF DiscardDLQMessage, AckDead, Idle
<1>2. NoSilentLoss'
  BY <1>1, LossStep DEF IndInv
<1>3. CountIsHonest'
  BY <1>1, CountStep DEF IndInv
<1>4. WorkIsJustified'
  BY <1>1 DEF IndInv, WorkIsJustified, MissingOrigin
<1>5. QED
  BY <1>2, <1>3, <1>4

\* The worker takes a dead letter below the limit.
LEMMA DelayStep ==
  ASSUME IndInv, NEW x \in dlq, DelayDLQMessage(x)
  PROVE  NoSilentLoss' /\ CountIsHonest' /\ WorkIsJustified'
<1>1. /\ UNCHANGED <<sent, ready, consumer, dlq, handled, exhausted, discarded>>
      /\ worker' = [pc |-> "delay", copy |-> x]
      /\ ~TooManyRetries(x)
  BY DEF DelayDLQMessage
<1>2. NoSilentLoss' /\ CountIsHonest'
  BY <1>1 DEF IndInv, NoSilentLoss, CountIsHonest
<1>3. WorkIsJustified'
  BY <1>1 DEF IndInv, WorkIsJustified
<1>4. QED
  BY <1>2, <1>3

\* The worker republishes: a dead letter that leaves is in every bound queue,
\* and the new count has only exhausted counts below it.
LEMMA RetryStep ==
  ASSUME IndInv, retryDLQMessage
  PROVE  NoSilentLoss' /\ CountIsHonest' /\ WorkIsJustified'
<1> DEFINE x == worker.copy
           new == Copies(x.msg, x.count + 1, "set")
<1>1. /\ UNCHANGED <<sent, consumer, handled, exhausted, discarded>>
      /\ ready' = ready \cup new
      /\ dlq' = dlq \/ dlq' = dlq \ {x}
      /\ worker.pc = "delay"
      /\ worker' = Idle
  BY DEF retryDLQMessage, AckDead
<1>2. x \in DeadCopy /\ x \in dlq /\ x.count \in Nat
  BY <1>1, DelayingCopy DEF IndInv, WorkIsJustified, DeadCopy
<1>3. \A q \in Route[x.msg] : \E c \in new : c.msg = x.msg /\ c.at = q
  <2>1. TAKE q \in Route[x.msg]
  <2>2. QED
    BY "set" \in Origin, CopiesReach DEF Origin
<1>4. \A c \in new : c.msg = x.msg /\ c.count = x.count + 1
  BY DEF Copies
<1> HIDE DEF x, new
<1>5. NoSilentLoss'
  <2>1. \A y \in dlq \cup discarded :
          \/ y \in dlq' \cup discarded'
          \/ \A q \in Route[y.msg] :
               \E c \in ready' : c.msg = y.msg /\ c.at = q
    BY <1>1, <1>3
  <2>2. QED
    BY <1>1, <2>1, LossStep DEF IndInv
<1>6. CountIsHonest'
  <2>1. \A k \in 0..MaxBrokerRetries : k <= x.count => <<x.msg, k>> \in exhausted
    BY <1>2 DEF IndInv, CountIsHonest
  <2>2. \A c \in new : \A k \in 0..MaxBrokerRetries :
          k < c.count => <<c.msg, k>> \in exhausted
    BY <1>2, <1>4, <2>1
  <2>3. \A c \in ready' : \/ c \in ready
                        \/ \A k \in 0..MaxBrokerRetries :
                             k < c.count => <<c.msg, k>> \in exhausted'
    BY <1>1, <2>2
  <2>4. QED
    BY <1>1, <2>3, CountStep DEF IndInv
<1>7. WorkIsJustified'
  BY <1>1 DEF IndInv, WorkIsJustified, Idle
<1>8. QED
  BY <1>5, <1>6, <1>7

\* Every step preserves the inductive invariant.
LEMMA NextIndInv ==
  ASSUME IndInv, [Next]_vars
  PROVE  IndInv'
<1>1. TypeOK'
  BY NextTypeOK DEF IndInv
<1>2. NoSilentLoss' /\ CountIsHonest' /\ WorkIsJustified'
  <2>1. CASE UNCHANGED vars
    BY <2>1 DEF vars, IndInv, NoSilentLoss, CountIsHonest, WorkIsJustified
  <2>2. CASE Next
    BY <2>2, PublishStep, DeliverStep, ConsumeStep, StopStep, WorkerStep,
       DiscardStep, DelayStep, RetryStep DEF Next
  <2>3. QED
    BY <2>1, <2>2
<1>3. QED
  BY <1>1, <1>2 DEF IndInv

\* The inductive invariant holds throughout.
LEMMA Invariance == Spec => []IndInv
<1>1. Init => IndInv
  BY InitIndInv
<1>2. IndInv /\ [Next]_vars => IndInv'
  BY NextIndInv
<1>3. QED
  BY <1>1, <1>2, PTL DEF Spec

----------------------------------------------------------------------------
(* Theorems *)

\* The queues hold well-formed copies, none of them republished more often
\* than the DLQ consumer's limit allows.
THEOREM TypeCorrect == Spec => []TypeOK
<1>1. IndInv => TypeOK
  BY DEF IndInv
<1>2. QED
  BY <1>1, Invariance, PTL

\* ConsumeMessages and StartDLQConsumer lose no message silently.
THEOREM NoLossTheorem == Spec => []NoSilentLoss
<1>1. IndInv => NoSilentLoss
  BY DEF IndInv
<1>2. QED
  BY <1>1, Invariance, PTL

\* The broker-retry-count header never runs ahead of the failures it counts.
THEOREM CountTheorem == Spec => []CountIsHonest
<1>1. IndInv => CountIsHonest
  BY DEF IndInv
<1>2. QED
  BY <1>1, Invariance, PTL

\* A message is dropped only after every attempt of every round.
THEOREM DropTheorem == Spec => []DroppedWasTried
<1>1. IndInv => DroppedWasTried
  <2>1. ASSUME IndInv, NEW x \in discarded, x.origin = "set",
               NEW k \in 0..MaxBrokerRetries
        PROVE  <<x.msg, k>> \in exhausted
    <3>1. TooManyRetries(x) /\ x.count \in Nat
      BY <2>1 DEF IndInv, WorkIsJustified, TypeOK, DeadCopy
    <3>2. k <= x.count
      BY <3>1 DEF TooManyRetries
    <3>3. QED
      BY <2>1, <3>2 DEF IndInv, CountIsHonest
  <2>2. QED
    BY <2>1 DEF DroppedWasTried
<1>2. QED
  BY <1>1, Invariance, PTL
=============================================================================
