----------------------------- MODULE DeadLetter -----------------------------
(***************************************************************************)
(* What happens to a message between PublishMessage and the last time a    *)
(* handler sees it: ConsumeMessages with its in-place retries, the dead-   *)
(* letter exchange and queue, and StartDLQConsumer in the dlq-worker job.  *)
(*                                                                         *)
(* A copy of a message is told apart by its queue and by the headers that  *)
(* the code reads: the broker-retry-count and whether the origin headers   *)
(* are present.  The queues are sets of copies: an acknowledgement may be  *)
(* lost, and then the copy is delivered again, which is also what a second *)
(* equal copy would do; a queue is read in any order, which includes its   *)
(* own.                                                                    *)
(***************************************************************************)
EXTENDS Naturals

CONSTANTS
  Msgs,              \* message bodies
  Queues,            \* queues consumed with ConsumeMessages
  Route,             \* Route[m]: the queues bound to the routing key of m
  MaxRetries,        \* retry.DefaultConfig().MaxRetries, 3 in the code
  MaxBrokerRetries,  \* republishes by the DLQ consumer, 5 in the code
  MayFail            \* TRUE: channels and publishes between them may fail

ASSUME DeadLetterAssumption ==
  /\ Route \in [Msgs -> SUBSET Queues]
  /\ MaxRetries \in Nat
  /\ MaxBrokerRetries \in Nat
  /\ MayFail \in BOOLEAN

VARIABLES
  sent,       \* messages published
  ready,      \* copies in the queues, unacknowledged ones included
  consuming,  \* queues whose consumer goroutine still ranges over deliveries
  consumer,   \* the delivery each consumer goroutine works on
  dlq,        \* copies in dead_letter_queue
  worker,     \* the dlq-worker process
  handled,    \* <<m, q>>: a handler of queue q returned nil for m
  exhausted,  \* <<m, k>>: a copy of m with count k failed every attempt
  discarded   \* dead-letter copies acknowledged without being republished

vars == <<sent, ready, consuming, consumer, dlq, worker, handled, exhausted,
          discarded>>

----------------------------------------------------------------------------
(* Data *)

\* count: the broker-retry-count header; origin: x-origin-exchange and
\* x-original-routing-key are set or not.
Origin == {"set", "unset"}
Copy == [msg : Msgs, at : Queues, count : 0..MaxBrokerRetries, origin : Origin]
DeadCopy == [msg : Msgs, count : 0..MaxBrokerRetries, origin : Origin]

Idle == [pc |-> "idle"]
Down == [pc |-> "down"]

\* attempt: the retries made so far by WithBackoff; "failed" once it gave up.
Working == [pc : {"handling", "failed"}, copy : Copy, attempt : 0..MaxRetries]
Delaying == [pc : {"delay"}, copy : DeadCopy]

\* The broker routes a publish to every queue bound to its key.
Copies(m, n, o) ==
  {[msg |-> m, at |-> q, count |-> n, origin |-> o] : q \in Route[m]}

\* The dead-lettered form of c.
Dead(c, o) == [msg |-> c.msg, count |-> c.count, origin |-> o]

Init ==
  /\ sent = {}
  /\ ready = {}
  /\ consuming = Queues
  /\ consumer = [q \in Queues |-> Idle]
  /\ dlq = {}
  /\ worker = Down
  /\ handled = {}
  /\ exhausted = {}
  /\ discarded = {}

\* Acknowledging c, or crashing or losing the channel just before.
AckReady(c) == {ready, ready \ {c}}
AckDead(x) == {dlq, dlq \ {x}}

----------------------------------------------------------------------------
(* ConsumeMessages *)

PublishMessage(m) ==
  /\ m \notin sent
  /\ sent' = sent \cup {m}
  /\ ready' = ready \cup Copies(m, 0, "unset")
  /\ UNCHANGED <<consuming, consumer, dlq, worker, handled, exhausted,
                 discarded>>

\* Prefetch is 1: the goroutine takes one delivery at a time.
Deliver(c) ==
  /\ c \in ready
  /\ c.at \in consuming
  /\ consumer[c.at] = Idle
  /\ consumer' = [consumer EXCEPT
                    ![c.at] = [pc |-> "handling", copy |-> c, attempt |-> 0]]
  /\ UNCHANGED <<sent, ready, consuming, dlq, worker, handled, exhausted,
                 discarded>>

\* The handler returns nil and the delivery is acknowledged.
HandlerSucceeds(q) ==
  /\ consumer[q].pc = "handling"
  /\ handled' = handled \cup {<<consumer[q].copy.msg, q>>}
  /\ ready' \in AckReady(consumer[q].copy)
  /\ consumer' = [consumer EXCEPT ![q] = Idle]
  /\ UNCHANGED <<sent, consuming, dlq, worker, exhausted, discarded>>

\* Mutant of HandlerRetries: the count of attempts starts again at the limit.
RetriesForever(q) ==
  /\ consumer[q].pc = "handling"
  /\ consumer' = [consumer EXCEPT ![q].attempt = (@ + 1) % (MaxRetries + 1)]
  /\ UNCHANGED <<sent, ready, consuming, dlq, worker, handled, exhausted,
                 discarded>>

\* The handler returns an error before the last attempt: WithBackoff waits and
\* calls it again.
HandlerRetries(q) ==
  /\ consumer[q].pc = "handling"
  /\ consumer[q].attempt < MaxRetries
  /\ consumer' = [consumer EXCEPT ![q].attempt = @ + 1]
  /\ UNCHANGED <<sent, ready, consuming, dlq, worker, handled, exhausted,
                 discarded>>

\* The handler returns an error on the last attempt.
HandlerGivesUp(q) ==
  /\ consumer[q].pc = "handling"
  /\ consumer[q].attempt = MaxRetries
  /\ consumer' = [consumer EXCEPT ![q].pc = "failed"]
  /\ exhausted' = exhausted \cup
                    {<<consumer[q].copy.msg, consumer[q].copy.count>>}
  /\ UNCHANGED <<sent, ready, consuming, dlq, worker, handled, discarded>>

\* The message is published to the dead-letter exchange with the origin
\* headers, its other headers kept, and then acknowledged.
RepublishToDLX(q) ==
  /\ consumer[q].pc = "failed"
  /\ dlq' = dlq \cup {Dead(consumer[q].copy, "set")}
  /\ ready' \in AckReady(consumer[q].copy)
  /\ consumer' = [consumer EXCEPT ![q] = Idle]
  /\ UNCHANGED <<sent, consuming, worker, handled, exhausted, discarded>>

\* Mutant of RejectToDLX: the delivery is acknowledged when the publish failed.
AckInsteadOfReject(q) ==
  /\ MayFail
  /\ consumer[q].pc = "failed"
  /\ ready' = ready \ {consumer[q].copy}
  /\ consumer' = [consumer EXCEPT ![q] = Idle]
  /\ UNCHANGED <<sent, consuming, dlq, worker, handled, exhausted, discarded>>

\* That publish fails and the delivery is rejected: the broker dead-letters
\* the copy with the headers it had when it was delivered.
RejectToDLX(q) ==
  /\ MayFail
  /\ consumer[q].pc = "failed"
  /\ LET c == consumer[q].copy
     IN  /\ dlq' = dlq \cup {Dead(c, c.origin)}
         /\ ready' = ready \ {c}
  /\ consumer' = [consumer EXCEPT ![q] = Idle]
  /\ UNCHANGED <<sent, consuming, worker, handled, exhausted, discarded>>

\* The channel closes: the range over deliveries ends with it.  publish opens
\* another channel, but nobody calls ConsumeMessages again.
ChannelLost(q) ==
  /\ MayFail
  /\ consuming' = consuming \ {q}
  /\ consumer' = [consumer EXCEPT ![q] = Idle]
  /\ UNCHANGED <<sent, ready, dlq, worker, handled, exhausted, discarded>>

\* The process is restarted, whether it had lost its channel or crashed.
ServiceRestarts(q) ==
  /\ MayFail
  /\ consuming' = consuming \cup {q}
  /\ consumer' = [consumer EXCEPT ![q] = Idle]
  /\ UNCHANGED <<sent, ready, dlq, worker, handled, exhausted, discarded>>

----------------------------------------------------------------------------
(* dlq-worker: a job that is started on a schedule *)

WorkerStarts ==
  /\ worker = Down
  /\ worker' = Idle
  /\ UNCHANGED <<sent, ready, consuming, consumer, dlq, handled, exhausted,
                 discarded>>

\* main returns as soon as StartDLQConsumer has started its goroutine, which
\* ends with the process; what it had not acknowledged stays in the queue.
WorkerExits ==
  /\ worker # Down
  /\ worker' = Down
  /\ UNCHANGED <<sent, ready, consuming, consumer, dlq, handled, exhausted,
                 discarded>>

\* Without origin headers there is nowhere to republish to.
MissingOrigin(x) == x.origin = "unset"

\* Mutant of TooManyRetries: the limit itself is refused.
TooManyEarly(x) == x.count + 1 >= MaxBrokerRetries

\* The count is incremented first and then compared.
TooManyRetries(x) == x.count + 1 > MaxBrokerRetries

DiscardDLQMessage(x) ==
  /\ worker = Idle
  /\ x \in dlq
  /\ MissingOrigin(x) \/ TooManyRetries(x)
  /\ discarded' = discarded \cup {x}
  /\ dlq' \in AckDead(x)
  /\ UNCHANGED <<sent, ready, consuming, consumer, worker, handled, exhausted>>

\* The goroutine sleeps for five seconds times the count.
DelayDLQMessage(x) ==
  /\ worker = Idle
  /\ x \in dlq
  /\ ~MissingOrigin(x)
  /\ ~TooManyRetries(x)
  /\ worker' = [pc |-> "delay", copy |-> x]
  /\ UNCHANGED <<sent, ready, consuming, consumer, dlq, handled, exhausted,
                 discarded>>

\* Published to the original exchange and key, hence to every bound queue,
\* the ones whose handler succeeded included.
retryDLQMessage ==
  /\ worker.pc = "delay"
  /\ LET x == worker.copy
     IN  /\ ready' = ready \cup Copies(x.msg, x.count + 1, "set")
         /\ dlq' \in AckDead(x)
  /\ worker' = Idle
  /\ UNCHANGED <<sent, consuming, consumer, handled, exhausted, discarded>>

\* Mutant of NackDLQMessage: the incremented count is requeued.
NackCounts ==
  /\ MayFail
  /\ worker.pc = "delay"
  /\ dlq' = (dlq \ {worker.copy}) \cup {[worker.copy EXCEPT !.count = @ + 1]}
  /\ worker' = Idle
  /\ UNCHANGED <<sent, ready, consuming, consumer, handled, exhausted,
                 discarded>>

\* The publish fails: the delivery is requeued with the headers it came with.
NackDLQMessage ==
  /\ MayFail
  /\ worker.pc = "delay"
  /\ worker' = Idle
  /\ UNCHANGED <<sent, ready, consuming, consumer, dlq, handled, exhausted,
                 discarded>>

----------------------------------------------------------------------------

\* What a consumer goroutine does with the delivery it holds.
Consume(q) ==
  \/ HandlerSucceeds(q) \/ HandlerRetries(q) \/ HandlerGivesUp(q)
  \/ RepublishToDLX(q) \/ RejectToDLX(q)

Next ==
  \/ \E m \in Msgs : PublishMessage(m)
  \/ \E c \in ready : Deliver(c)
  \/ \E q \in Queues : Consume(q) \/ ChannelLost(q) \/ ServiceRestarts(q)
  \/ WorkerStarts \/ WorkerExits \/ retryDLQMessage \/ NackDLQMessage
  \/ \E x \in dlq : DiscardDLQMessage(x) \/ DelayDLQMessage(x)

Spec == Init /\ [][Next]_vars

\* A consumer goroutine goes on with the delivery it holds and takes every
\* copy of its first-in first-out queue in turn; the schedule starts the job
\* again and again, and its main returns whatever its goroutine is doing.  The
\* goroutine's steps are fair as long as the process lives.  (Only the copies
\* that are ever published are named: the first has no origin headers, a
\* republished one has them.)
Fairness ==
  /\ \A q \in Queues : WF_vars(Consume(q))
  /\ \A c \in Copy : (c.count = 0) = (c.origin = "unset") => SF_vars(Deliver(c))
  /\ WF_vars(WorkerStarts)
  /\ WF_vars(WorkerExits)
  /\ WF_vars(retryDLQMessage \/ \E x \in dlq : DiscardDLQMessage(x)
                                             \/ DelayDLQMessage(x))

FairSpec == Spec /\ Fairness

----------------------------------------------------------------------------
(* Properties *)

\* Every variable has its type; in particular no copy in a queue has been
\* republished more than MaxBrokerRetries times.
TypeOK ==
  /\ sent \subseteq Msgs
  /\ ready \subseteq Copy
  /\ consuming \subseteq Queues
  /\ consumer \in [Queues -> {Idle} \cup Working]
  /\ dlq \subseteq DeadCopy
  /\ worker \in {Down, Idle} \cup Delaying
  /\ handled \subseteq Msgs \X Queues
  /\ exhausted \subseteq Msgs \X (0..MaxBrokerRetries)
  /\ discarded \subseteq DeadCopy

\* No message is lost silently: for every queue bound to its key it was
\* handled there, a copy is still in that queue or in the dead-letter queue,
\* or the DLQ consumer discarded it.  Acknowledgements come after the
\* publish that replaces the copy, whatever fails in between.
NoSilentLoss ==
  \A m \in sent : \A q \in Route[m] :
    \/ <<m, q>> \in handled
    \/ \E c \in ready : c.msg = m /\ c.at = q
    \/ \E x \in dlq \cup discarded : x.msg = m

\* The retry count is honest: a copy that carries count k was given up by a
\* consumer with every smaller count, in spite of redeliveries, requeues and
\* the fan-out of republished copies, and a dead copy with its own count too.
CountIsHonest ==
  /\ \A c \in ready : \A k \in 0..MaxBrokerRetries :
       k < c.count => <<c.msg, k>> \in exhausted
  /\ \A x \in dlq \cup discarded : \A k \in 0..MaxBrokerRetries :
       k <= x.count => <<x.msg, k>> \in exhausted

\* A message that is dropped, rather than discarded for want of its origin,
\* failed MaxRetries + 1 attempts in each of MaxBrokerRetries + 1 rounds.
DroppedWasTried ==
  \A x \in discarded : x.origin = "set" =>
    \A k \in 0..MaxBrokerRetries : <<x.msg, k>> \in exhausted

\* What makes them inductive: a consumer in the middle of a delivery has the
\* copy it took, and a failed one has recorded so; the worker's copy has its
\* origin, a count below the limit and an exhausted round behind it.
WorkIsJustified ==
  /\ \A q \in Queues : consumer[q] # Idle =>
       /\ consumer[q].copy \in ready
       /\ consumer[q].copy.at = q
       /\ consumer[q].pc = "failed" =>
            <<consumer[q].copy.msg, consumer[q].copy.count>> \in exhausted
  /\ worker.pc = "delay" =>
       /\ worker.copy \in dlq
       /\ ~TooManyRetries(worker.copy)
  /\ \A x \in discarded : x.origin = "set" => TooManyRetries(x)

IndInv ==
  /\ TypeOK
  /\ NoSilentLoss
  /\ CountIsHonest
  /\ WorkIsJustified

\* Once services stop crashing and losing channels, a published message is
\* handled in each of its queues or fails a whole round of attempts somewhere,
\* except in a queue whose consumer goroutine has ended with its channel and
\* was not started again.
MessageIsTried ==
  <>[][\A q \in Queues : ~ChannelLost(q) /\ ~ServiceRestarts(q)]_vars =>
    \A m \in Msgs : \A q \in Route[m] :
      m \in sent ~> \/ <<m, q>> \in handled
                    \/ <<m, 0>> \in exhausted
                    \/ q \notin consuming
=============================================================================
