--------------------------- MODULE PaymentSession ---------------------------
(***************************************************************************)
(* payment-service's consumer of payment.cmd.create_session, its session   *)
(* store in Redis, Stripe as the code uses it, and the api-gateway's       *)
(* webhook that turns a completed checkout into payment.event.success.     *)
(*                                                                         *)
(* The handler is split at each call to Redis, Stripe and the broker.  One *)
(* instance of the service runs, with one delivery at a time.  The retry   *)
(* counts of a failing command are the subject of module DeadLetter; here  *)
(* a failed command is handled again or given up.                          *)
(***************************************************************************)
CONSTANTS
  Trips, Drivers,
  Sessions,   \* bound: the session ids Stripe hands out
  NoSession,  \* no value in Redis
  MayFail,    \* TRUE: Redis, Stripe, the broker and the process may fail
  MayExpire   \* TRUE: the 24 hours of a session may pass

ASSUME PaymentAssumption ==
  /\ NoSession \notin Sessions
  /\ MayFail \in BOOLEAN
  /\ MayExpire \in BOOLEAN

VARIABLES
  asked,      \* <<t, d>>: a command for trip t and driver d was published
  cmds,       \* commands not yet acknowledged
  store,      \* Redis: payment:session:<trip>
  stripe,     \* Stripe: state and metadata of every session
  consumer,   \* the handler of the command in hand
  told,       \* <<t, s>>: payment.event.session_created published to the rider
  succeeded   \* <<t, d>>: payment.event.success published

vars == <<asked, cmds, store, stripe, consumer, told, succeeded>>

----------------------------------------------------------------------------
(* Data *)

Unused == [state |-> "unused"]
Session == [state : {"open", "paid", "expired"}, trip : Trips, driver : Drivers]

Idle == [pc |-> "idle"]
Handling == [pc : {"create", "set", "publish"}, trip : Trips, driver : Drivers,
             session : Sessions \cup {NoSession}]

Init ==
  /\ asked = {}
  /\ cmds = {}
  /\ store = [t \in Trips |-> NoSession]
  /\ stripe = [s \in Sessions |-> Unused]
  /\ consumer = Idle
  /\ told = {}
  /\ succeeded = {}

----------------------------------------------------------------------------
(* payment-service *)

\* trip-service publishes the command; once per driver that accepts.
CommandArrives(t, d) ==
  /\ asked' = asked \cup {<<t, d>>}
  /\ cmds' = cmds \cup {<<t, d>>}
  /\ <<t, d>> \notin asked
  /\ UNCHANGED <<store, stripe, consumer, told, succeeded>>

\* Mutants of GetSession: the test for an existing session is missing; the
\* entry of another trip is read.
GetNothing(t, d) ==
  /\ consumer = Idle
  /\ <<t, d>> \in cmds
  /\ consumer' = [pc |-> "create", trip |-> t, driver |-> d,
                  session |-> NoSession]
  /\ UNCHANGED <<asked, cmds, store, stripe, told, succeeded>>

GetOfAnyTrip(t, d) ==
  /\ consumer = Idle
  /\ <<t, d>> \in cmds
  /\ \E u \in Trips :
       consumer' = [pc |-> IF store[u] = NoSession THEN "create" ELSE "publish",
                    trip |-> t, driver |-> d, session |-> store[u]]
  /\ UNCHANGED <<asked, cmds, store, stripe, told, succeeded>>

\* A session found in the store is published again as it is, whichever driver
\* the command names.
GetSession(t, d) ==
  /\ consumer = Idle
  /\ <<t, d>> \in cmds
  /\ consumer' = [pc |-> IF store[t] = NoSession THEN "create" ELSE "publish",
                  trip |-> t, driver |-> d, session |-> store[t]]
  /\ UNCHANGED <<asked, cmds, store, stripe, told, succeeded>>

CreateStripeSession(s) ==
  /\ consumer.pc = "create"
  /\ stripe[s] = Unused
  /\ stripe' = [stripe EXCEPT ![s] = [state |-> "open", trip |-> consumer.trip,
                                      driver |-> consumer.driver]]
  /\ consumer' = [consumer EXCEPT !.pc = "set", !.session = s]
  /\ UNCHANGED <<asked, cmds, store, told, succeeded>>

SetSession ==
  /\ consumer.pc = "set"
  /\ store' = [store EXCEPT ![consumer.trip] = consumer.session]
  /\ consumer' = [consumer EXCEPT !.pc = "publish"]
  /\ UNCHANGED <<asked, cmds, stripe, told, succeeded>>

\* "Non-fatal": the handler goes on without the stored id.
SetSessionFails ==
  /\ MayFail
  /\ consumer.pc = "set"
  /\ consumer' = [consumer EXCEPT !.pc = "publish"]
  /\ UNCHANGED <<asked, cmds, store, stripe, told, succeeded>>

\* Mutant of PublishSessionCreated: the command is acknowledged unpublished.
AckUnpublished ==
  /\ consumer.pc = "publish"
  /\ cmds' = cmds \ {<<consumer.trip, consumer.driver>>}
  /\ consumer' = Idle
  /\ UNCHANGED <<asked, store, stripe, told, succeeded>>

\* The session id goes to the rider and the command is acknowledged, unless
\* the acknowledgement is lost and the command delivered again.
PublishSessionCreated ==
  /\ consumer.pc = "publish"
  /\ told' = told \cup {<<consumer.trip, consumer.session>>}
  /\ cmds' \in {cmds, cmds \ {<<consumer.trip, consumer.driver>>}}
  /\ consumer' = Idle
  /\ UNCHANGED <<asked, store, stripe, succeeded>>

\* Redis, Stripe or the broker returns an error, or the process stops: the
\* command is still unacknowledged.
HandlerFails ==
  /\ MayFail
  /\ consumer # Idle
  /\ consumer' = Idle
  /\ UNCHANGED <<asked, cmds, store, stripe, told, succeeded>>

\* The last retry of a command failed.
CommandDropped(t, d) ==
  /\ MayFail
  /\ consumer = Idle
  /\ <<t, d>> \in cmds
  /\ cmds' = cmds \ {<<t, d>>}
  /\ UNCHANGED <<asked, store, stripe, consumer, told, succeeded>>

\* The store's entry lives for sessionTTL, set after Stripe's own 24 hours
\* began to run, so the session is not payable any more.
StoreExpires(t) ==
  /\ MayExpire
  /\ store[t] # NoSession
  /\ stripe[store[t]].state # "open"
  /\ store' = [store EXCEPT ![t] = NoSession]
  /\ UNCHANGED <<asked, cmds, stripe, consumer, told, succeeded>>

----------------------------------------------------------------------------
(* Stripe, its customer and the webhook *)

SessionExpires(s) ==
  /\ MayExpire
  /\ stripe[s].state = "open"
  /\ stripe' = [stripe EXCEPT ![s].state = "expired"]
  /\ UNCHANGED <<asked, cmds, store, consumer, told, succeeded>>

\* The rider pays for a session whose id was published.
CustomerPays(s) ==
  /\ stripe[s].state = "open"
  /\ <<stripe[s].trip, s>> \in told
  /\ stripe' = [stripe EXCEPT ![s].state = "paid"]
  /\ UNCHANGED <<asked, cmds, store, consumer, told, succeeded>>

\* Mutant of handleStripeWebhook: the driver is not taken from the metadata.
WebhookOfAnyDriver(s) ==
  /\ stripe[s].state = "paid"
  /\ \E d \in Drivers : succeeded' = succeeded \cup {<<stripe[s].trip, d>>}
  /\ UNCHANGED <<asked, cmds, store, stripe, consumer, told>>

\* checkout.session.completed, delivered once or more: the event names the
\* trip and the driver of the session's metadata.  When the publish fails the
\* webhook answers 500 and Stripe delivers again.
handleStripeWebhook(s) ==
  /\ stripe[s].state = "paid"
  /\ succeeded' = succeeded \cup {<<stripe[s].trip, stripe[s].driver>>}
  /\ UNCHANGED <<asked, cmds, store, stripe, consumer, told>>

----------------------------------------------------------------------------

Next ==
  \/ \E t \in Trips, d \in Drivers :
       CommandArrives(t, d) \/ GetSession(t, d) \/ CommandDropped(t, d)
  \/ SetSession \/ SetSessionFails \/ PublishSessionCreated \/ HandlerFails
  \/ \E s \in Sessions : \/ CreateStripeSession(s) \/ SessionExpires(s)
                         \/ CustomerPays(s) \/ handleStripeWebhook(s)
  \/ \E t \in Trips : StoreExpires(t)

Spec == Init /\ [][Next]_vars

\* The consumer goes on with the command in hand and takes every queued one in
\* turn.  The customer and Stripe owe nothing.
Fairness ==
  /\ \A t \in Trips, d \in Drivers : SF_vars(GetSession(t, d))
  /\ WF_vars((\E s \in Sessions : CreateStripeSession(s))
               \/ SetSession \/ PublishSessionCreated)

FairSpec == Spec /\ Fairness

----------------------------------------------------------------------------
(* Properties *)

\* Every variable has its type.
TypeOK ==
  /\ asked \subseteq Trips \X Drivers
  /\ cmds \subseteq asked
  /\ store \in [Trips -> Sessions \cup {NoSession}]
  /\ stripe \in [Sessions -> {Unused} \cup Session]
  /\ consumer \in {Idle} \cup Handling
  /\ told \subseteq Trips \X Sessions
  /\ succeeded \subseteq Trips \X Drivers

\* s is a session of trip t, made for a driver it was asked for.
SessionOf(s, t) ==
  /\ stripe[s] # Unused
  /\ stripe[s].trip = t
  /\ <<t, stripe[s].driver>> \in asked

\* The id the store keeps for a trip, and the id a rider is sent to pay for
\* it, are of a session of that very trip: an id held by the handler across
\* the calls to Redis and Stripe never ends up at another trip.
SessionIsOwn ==
  /\ \A t \in Trips : store[t] # NoSession => SessionOf(store[t], t)
  /\ \A p \in told : SessionOf(p[2], p[1])

\* "It is idempotent: if a session was already created for the given tripID it
\* returns the existing session instead of calling Stripe again": Stripe never
\* has two sessions of one trip, for redelivered commands and for commands of
\* two drivers alike.  It holds while Redis and the process do not fail.
OneSessionPerTrip ==
  \A s1, s2 \in Sessions :
    stripe[s1] # Unused /\ stripe[s2] # Unused /\ stripe[s1].trip = stripe[s2].trip
      => s1 = s2

\* payment-service, Stripe and the webhook keep the contract that trip-service
\* relies on.
Contract == INSTANCE PaymentContract
KeepsContract == Contract!Spec

\* What makes them inductive.
SessionsAreAsked ==
  \A s \in Sessions : stripe[s] # Unused => SessionOf(s, stripe[s].trip)
HandlingIsOwn ==
  consumer # Idle =>
    /\ <<consumer.trip, consumer.driver>> \in asked
    /\ consumer.pc # "create" => /\ consumer.session \in Sessions
                                 /\ SessionOf(consumer.session, consumer.trip)

IndInv == TypeOK /\ SessionIsOwn /\ SessionsAreAsked /\ HandlingIsOwn

\* Without failures: a session is known to the store, or to the handler that
\* is about to store it; a handler that is about to create one knows of none.
SessionsAreKnown ==
  \A s \in Sessions : stripe[s] # Unused =>
    \/ store[stripe[s].trip] = s
    \/ /\ consumer.pc = "set"
       /\ consumer.trip = stripe[s].trip
       /\ consumer.session = s
CreateIsFirst ==
  consumer.pc \in {"create", "set"} => store[consumer.trip] = NoSession

\* trip-service is told of a payment only when a session of that trip and that
\* driver was paid for.
SuccessWasPaid ==
  \A p \in succeeded : \E s \in Sessions :
    stripe[s] = [state |-> "paid", trip |-> p[1], driver |-> p[2]]

\* Without failures and expiry, a trip whose driver was replaced, with a payment
\* command for each of the two, is paid for one of them at most: however the
\* commands, their redeliveries, the payments and the webhooks interleave.
PaidForOneDriver ==
  \A t \in Trips, d1, d2 \in Drivers :
    <<t, d1>> \in succeeded /\ <<t, d2>> \in succeeded => d1 = d2

\* A command is kept until the rider has a session id.
CommandIsKept ==
  \A p \in asked \ cmds : \E s \in Sessions : <<p[1], s>> \in told

\* Without failures, a command leads to a session id at the rider.
CommandIsAnswered ==
  \A t \in Trips, d \in Drivers :
    <<t, d>> \in cmds ~> \E s \in Sessions : <<t, s>> \in told
=============================================================================
