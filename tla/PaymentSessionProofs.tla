------------------------ MODULE PaymentSessionProofs ------------------------
(***************************************************************************)
(* Proofs about PaymentSession, for any trips, drivers and session ids:    *)
(* payments keep the contract of PaymentContract under every failure, and  *)
(* a trip has one Stripe session when nothing fails.                       *)
(***************************************************************************)
EXTENDS PaymentSession, TLAPS

USE PaymentAssumption

----------------------------------------------------------------------------
(* Type correctness and ownership *)

\* A handler past its first call holds a command.
LEMMA HandlerType ==
  ASSUME TypeOK
  PROVE  /\ consumer # Idle => consumer \in Handling
         /\ \A p \in {"create", "set", "publish"} :
              consumer.pc = p => consumer # Idle /\ consumer \in Handling
BY DEF TypeOK, Idle, Handling

\* A session with a state Stripe gave it has its metadata.
LEMMA SessionType ==
  ASSUME TypeOK, NEW s \in Sessions
  PROVE  /\ stripe[s] # Unused => stripe[s] \in Session
         /\ \A x \in {"open", "paid", "expired"} :
              stripe[s].state = x => stripe[s] # Unused /\ stripe[s] \in Session
BY DEF TypeOK, Unused, Session

\* Sessions keep their trip and driver, and commands are never taken back, so
\* a session of a trip remains one.
LEMMA SessionStays ==
  ASSUME NEW s \in Sessions, NEW t,
         SessionOf(s, t),
         asked \subseteq asked',
         stripe'[s] # Unused,
         stripe'[s].trip = stripe[s].trip,
         stripe'[s].driver = stripe[s].driver
  PROVE  SessionOf(s, t)'
BY DEF SessionOf

\* The initial state satisfies the inductive invariant.
LEMMA InitIndInv == Init => IndInv
BY DEF Init, IndInv, TypeOK, SessionIsOwn, SessionsAreAsked, HandlingIsOwn

\* A step that leaves Stripe, the store and what the rider was told alone and
\* gives the handler only what it already had.
LEMMA FrameStep ==
  ASSUME IndInv, TypeOK',
         UNCHANGED <<store, stripe, told>>,
         asked \subseteq asked',
         \/ consumer' = Idle
         \/ HandlingIsOwn'
         \/ consumer' = consumer
  PROVE  IndInv'
<1>1. \A s \in Sessions, t \in Trips : SessionOf(s, t) => SessionOf(s, t)'
  BY SessionStays DEF SessionOf
<1>2. SessionIsOwn'
  BY <1>1 DEF IndInv, TypeOK, SessionIsOwn
<1>3. SessionsAreAsked'
  BY <1>1, SessionType DEF IndInv, SessionsAreAsked, Session
<1>4. HandlingIsOwn'
  BY <1>1, HandlerType DEF IndInv, HandlingIsOwn, Handling
<1>5. QED
  BY <1>2, <1>3, <1>4 DEF IndInv

\* A step of Stripe that changes the state of one session and nothing else.
LEMMA StripeStep ==
  ASSUME IndInv, NEW s \in Sessions, NEW x \in {"paid", "expired"},
         stripe[s].state = "open",
         stripe' = [stripe EXCEPT ![s].state = x],
         UNCHANGED <<asked, cmds, store, consumer, told, succeeded>>
  PROVE  IndInv'
<1>1. stripe[s] \in Session /\ stripe[s] # Unused
  BY SessionType DEF IndInv
<1>2. /\ stripe'[s] \in Session /\ stripe'[s] # Unused
      /\ stripe'[s].trip = stripe[s].trip
      /\ stripe'[s].driver = stripe[s].driver
      /\ \A r \in Sessions : r # s => stripe'[r] = stripe[r]
  BY <1>1 DEF IndInv, TypeOK, Session, Unused
<1>3. TypeOK'
  BY <1>2 DEF IndInv, TypeOK
<1>4. \A r \in Sessions, t \in Trips : SessionOf(r, t) => SessionOf(r, t)'
  <2>1. \A r \in Sessions : stripe[r] # Unused =>
          /\ stripe'[r] # Unused
          /\ stripe'[r].trip = stripe[r].trip
          /\ stripe'[r].driver = stripe[r].driver
    BY <1>2
  <2>2. QED
    BY <2>1, SessionStays DEF SessionOf
<1>5. SessionIsOwn'
  BY <1>4 DEF IndInv, TypeOK, SessionIsOwn
<1>6. SessionsAreAsked'
  <2>1. ASSUME NEW r \in Sessions, stripe'[r] # Unused
        PROVE  <<stripe'[r].trip, stripe'[r].driver>> \in asked'
    <3>1. /\ stripe[r] # Unused
          /\ stripe'[r].trip = stripe[r].trip
          /\ stripe'[r].driver = stripe[r].driver
      BY <1>1, <1>2, <2>1
    <3>2. QED
      BY <3>1 DEF IndInv, SessionsAreAsked, SessionOf
  <2>2. QED
    BY <2>1 DEF SessionsAreAsked, SessionOf
<1>7. HandlingIsOwn'
  BY <1>4, HandlerType DEF IndInv, HandlingIsOwn, Handling
<1>8. QED
  BY <1>3, <1>5, <1>6, <1>7 DEF IndInv

\* The handler creates a session with the trip and the driver of its command.
LEMMA CreateStep ==
  ASSUME IndInv, NEW s \in Sessions, CreateStripeSession(s)
  PROVE  IndInv'
<1>1. consumer \in Handling /\ consumer # Idle /\ consumer.pc = "create"
  BY HandlerType DEF CreateStripeSession, IndInv
<1>2. /\ stripe[s] = Unused
      /\ UNCHANGED <<asked, cmds, store, told, succeeded>>
      /\ consumer' = [consumer EXCEPT !.pc = "set", !.session = s]
  BY DEF CreateStripeSession
<1>3. /\ stripe'[s] = [state |-> "open", trip |-> consumer.trip,
                       driver |-> consumer.driver]
      /\ \A r \in Sessions : r # s => stripe'[r] = stripe[r]
  BY DEF CreateStripeSession, IndInv, TypeOK
<1>4. /\ consumer.trip \in Trips /\ consumer.driver \in Drivers
      /\ <<consumer.trip, consumer.driver>> \in asked
  BY <1>1 DEF Handling, IndInv, HandlingIsOwn
<1>5. stripe'[s] \in Session /\ stripe'[s] # Unused
  BY <1>3, <1>4 DEF Session, Unused
<1>6. consumer' \in Handling /\ consumer'.session = s
      /\ consumer'.trip = consumer.trip /\ consumer'.driver = consumer.driver
  BY <1>1, <1>2 DEF Handling
<1>7. TypeOK'
  <2>1. stripe' \in [Sessions -> {Unused} \cup Session]
    BY <1>3, <1>5 DEF CreateStripeSession, IndInv, TypeOK
  <2>2. QED
    BY <1>2, <1>6, <2>1 DEF IndInv, TypeOK
<1>8. \A r \in Sessions, t \in Trips : SessionOf(r, t) => SessionOf(r, t)'
  BY <1>2, <1>3 DEF SessionOf
<1>9. SessionOf(s, consumer.trip)'
  BY <1>2, <1>3, <1>4, <1>5, <1>6 DEF SessionOf
<1>10. SessionIsOwn'
  BY <1>2, <1>8 DEF IndInv, TypeOK, SessionIsOwn
<1>11. SessionsAreAsked'
  <2>1. ASSUME NEW r \in Sessions, stripe'[r] # Unused
        PROVE  /\ stripe'[r].trip \in Trips
               /\ <<stripe'[r].trip, stripe'[r].driver>> \in asked'
    <3>1. CASE r = s
      BY <1>2, <1>3, <1>4, <3>1
    <3>2. CASE r # s
      BY <1>2, <1>3, <2>1, <3>2, SessionType
         DEF IndInv, SessionsAreAsked, SessionOf, Session
    <3>3. QED
      BY <3>1, <3>2
  <2>2. QED
    BY <2>1 DEF SessionsAreAsked, SessionOf
<1>12. HandlingIsOwn'
  BY <1>2, <1>4, <1>6, <1>9 DEF HandlingIsOwn, SessionOf
<1>13. QED
  BY <1>7, <1>10, <1>11, <1>12 DEF IndInv

\* The steps between Redis, the broker and the command queue.
LEMMA HandlerStep ==
  ASSUME IndInv, NEW t \in Trips, NEW d \in Drivers,
         \/ CommandArrives(t, d) \/ GetSession(t, d) \/ CommandDropped(t, d)
         \/ SetSessionFails \/ HandlerFails
  PROVE  IndInv'
<1>1. CASE CommandArrives(t, d)
  <2>1. TypeOK'
    BY <1>1 DEF CommandArrives, IndInv, TypeOK
  <2>2. QED
    BY <1>1, <2>1, FrameStep DEF CommandArrives
<1>2. CASE GetSession(t, d)
  <2>1. /\ consumer' = [pc |-> IF store[t] = NoSession THEN "create"
                               ELSE "publish",
                        trip |-> t, driver |-> d, session |-> store[t]]
        /\ UNCHANGED <<asked, cmds, store, stripe, told, succeeded>>
        /\ <<t, d>> \in asked
        /\ store[t] \in Sessions \cup {NoSession}
    BY <1>2 DEF GetSession, IndInv, TypeOK
  <2>2. TypeOK'
    BY <2>1 DEF IndInv, TypeOK, Handling
  <2>3. HandlingIsOwn'
    BY <2>1 DEF IndInv, SessionIsOwn, HandlingIsOwn, SessionOf
  <2>4. QED
    BY <2>1, <2>2, <2>3, FrameStep
<1>3. CASE CommandDropped(t, d)
  <2>1. TypeOK'
    BY <1>3 DEF CommandDropped, IndInv, TypeOK
  <2>2. QED
    BY <1>3, <2>1, FrameStep DEF CommandDropped
<1>4. CASE SetSessionFails
  <2>1. /\ consumer \in Handling /\ consumer # Idle /\ consumer.pc = "set"
        /\ consumer' = [consumer EXCEPT !.pc = "publish"]
        /\ UNCHANGED <<asked, cmds, store, stripe, told, succeeded>>
    BY <1>4, HandlerType DEF SetSessionFails, IndInv
  <2>2. TypeOK'
    BY <2>1 DEF IndInv, TypeOK, Handling
  <2>3. HandlingIsOwn'
    BY <2>1 DEF IndInv, HandlingIsOwn, SessionOf, Handling
  <2>4. QED
    BY <2>1, <2>2, <2>3, FrameStep
<1>5. CASE HandlerFails
  <2>1. TypeOK'
    BY <1>5 DEF HandlerFails, IndInv, TypeOK
  <2>2. QED
    BY <1>5, <2>1, FrameStep DEF HandlerFails
<1>6. QED
  BY <1>1, <1>2, <1>3, <1>4, <1>5

\* The id of the handler's session goes to the store or to the rider, and the
\* store forgets one.
LEMMA StoreStep ==
  ASSUME IndInv,
         \/ SetSession \/ PublishSessionCreated
         \/ \E t \in Trips : StoreExpires(t)
  PROVE  IndInv'
<1>1. UNCHANGED <<asked, stripe, succeeded>>
  BY DEF SetSession, PublishSessionCreated, StoreExpires
<1>2. \A s \in Sessions, t \in Trips : SessionOf(s, t)' <=> SessionOf(s, t)
  BY <1>1 DEF SessionOf
<1>3. SessionsAreAsked'
  BY <1>1 DEF IndInv, SessionsAreAsked, SessionOf
<1>4. CASE SetSession
  <2>1. /\ consumer \in Handling /\ consumer # Idle /\ consumer.pc = "set"
        /\ consumer' = [consumer EXCEPT !.pc = "publish"]
        /\ store' = [store EXCEPT ![consumer.trip] = consumer.session]
        /\ UNCHANGED <<cmds, told>>
    BY <1>4, HandlerType DEF SetSession, IndInv
  <2>2. /\ consumer.session \in Sessions
        /\ SessionOf(consumer.session, consumer.trip)
        /\ consumer.trip \in Trips
    BY <2>1 DEF IndInv, HandlingIsOwn, Handling
  <2>3. TypeOK'
    BY <1>1, <2>1, <2>2 DEF IndInv, TypeOK, Handling
  <2>4. SessionIsOwn'
    BY <1>2, <2>1, <2>2 DEF IndInv, TypeOK, SessionIsOwn
  <2>5. HandlingIsOwn'
    BY <1>1, <2>1, <2>2 DEF IndInv, HandlingIsOwn, Handling, SessionOf
  <2>6. QED
    BY <1>3, <2>3, <2>4, <2>5 DEF IndInv
<1>5. CASE PublishSessionCreated
  <2>1. /\ consumer \in Handling /\ consumer # Idle /\ consumer.pc = "publish"
        /\ told' = told \cup {<<consumer.trip, consumer.session>>}
        /\ cmds' \subseteq cmds /\ consumer' = Idle /\ UNCHANGED store
    BY <1>5, HandlerType DEF PublishSessionCreated, IndInv
  <2>2. /\ consumer.session \in Sessions
        /\ SessionOf(consumer.session, consumer.trip)
        /\ consumer.trip \in Trips
    BY <2>1 DEF IndInv, HandlingIsOwn, Handling
  <2>3. TypeOK'
    BY <1>1, <2>1, <2>2 DEF IndInv, TypeOK
  <2>4. SessionIsOwn'
    BY <1>2, <2>1, <2>2 DEF IndInv, TypeOK, SessionIsOwn
  <2>5. HandlingIsOwn'
    BY <2>1 DEF HandlingIsOwn
  <2>6. QED
    BY <1>3, <2>3, <2>4, <2>5 DEF IndInv
<1>6. ASSUME NEW t \in Trips, StoreExpires(t) PROVE IndInv'
  <2>1. /\ store' = [store EXCEPT ![t] = NoSession]
        /\ UNCHANGED <<cmds, consumer, told>>
    BY <1>6 DEF StoreExpires
  <2>2. TypeOK' /\ SessionIsOwn'
    BY <1>1, <1>2, <2>1 DEF IndInv, TypeOK, SessionIsOwn
  <2>3. HandlingIsOwn'
    BY <1>1, <2>1 DEF IndInv, HandlingIsOwn, SessionOf
  <2>4. QED
    BY <1>3, <2>2, <2>3 DEF IndInv
<1>7. QED
  BY <1>4, <1>5, <1>6

\* The webhook publishes a session's own trip and driver.
LEMMA WebhookStep ==
  ASSUME IndInv, NEW s \in Sessions, handleStripeWebhook(s)
  PROVE  /\ IndInv'
         /\ \E t \in Trips, d \in Drivers : Contract!Succeed(t, d)
<1>1. /\ stripe[s].trip \in Trips /\ stripe[s].driver \in Drivers
      /\ <<stripe[s].trip, stripe[s].driver>> \in asked
  BY SessionType DEF handleStripeWebhook, IndInv, SessionsAreAsked, SessionOf,
     Session
<1>2. TypeOK'
  BY <1>1 DEF handleStripeWebhook, IndInv, TypeOK
<1>3. IndInv'
  BY <1>2, FrameStep DEF handleStripeWebhook
<1>4. Contract!Succeed(stripe[s].trip, stripe[s].driver)
  BY <1>1 DEF handleStripeWebhook, Contract!Succeed
<1>5. QED
  BY <1>1, <1>3, <1>4

\* Every step preserves the inductive invariant and is a step of the contract
\* or changes nothing of it.
LEMMA NextIndInv ==
  ASSUME IndInv, [Next]_vars
  PROVE  IndInv' /\ [Contract!Next]_<<asked, succeeded>>
<1>1. CASE UNCHANGED vars
  BY <1>1 DEF vars, IndInv, TypeOK, SessionIsOwn, SessionsAreAsked,
     HandlingIsOwn, SessionOf
<1>2. ASSUME NEW t \in Trips, NEW d \in Drivers, CommandArrives(t, d)
      PROVE  IndInv' /\ Contract!Next
  <2>1. Contract!Ask(t, d)
    BY <1>2 DEF CommandArrives, Contract!Ask
  <2>2. QED
    BY <1>2, <2>1, HandlerStep DEF Contract!Next
<1>3. ASSUME NEW t \in Trips, NEW d \in Drivers,
             GetSession(t, d) \/ CommandDropped(t, d)
      PROVE  IndInv' /\ UNCHANGED <<asked, succeeded>>
  BY <1>3, HandlerStep DEF GetSession, CommandDropped
<1>4. CASE SetSessionFails \/ HandlerFails
  <2>1. UNCHANGED <<asked, succeeded, store, stripe, told>>
    BY <1>4 DEF SetSessionFails, HandlerFails
  <2>2. consumer # Idle /\ consumer \in Handling
    BY <1>4, HandlerType DEF SetSessionFails, HandlerFails, IndInv
  <2>3. consumer.trip \in Trips /\ consumer.driver \in Drivers
    BY <2>2 DEF Handling
  <2>4. QED
    BY <1>4, <2>1, <2>3, HandlerStep
<1>5. CASE SetSession \/ PublishSessionCreated \/ \E t \in Trips : StoreExpires(t)
  <2>1. UNCHANGED <<asked, succeeded>>
    BY <1>5 DEF SetSession, PublishSessionCreated, StoreExpires
  <2>2. QED
    BY <1>5, <2>1, StoreStep
<1>6. ASSUME NEW s \in Sessions,
             \/ CreateStripeSession(s) \/ SessionExpires(s) \/ CustomerPays(s)
      PROVE  IndInv' /\ UNCHANGED <<asked, succeeded>>
  <2>1. UNCHANGED <<asked, succeeded>>
    BY <1>6 DEF CreateStripeSession, SessionExpires, CustomerPays
  <2>2. CASE CreateStripeSession(s)
    BY <2>1, <2>2, CreateStep
  <2>3. CASE SessionExpires(s)
    BY <2>1, <2>3, StripeStep DEF SessionExpires
  <2>4. CASE CustomerPays(s)
    BY <2>1, <2>4, StripeStep DEF CustomerPays
  <2>5. QED
    BY <1>6, <2>2, <2>3, <2>4
<1>7. ASSUME NEW s \in Sessions, handleStripeWebhook(s)
      PROVE  IndInv' /\ Contract!Next
  BY <1>7, WebhookStep DEF Contract!Next
<1>8. QED
  BY <1>1, <1>2, <1>3, <1>4, <1>5, <1>6, <1>7 DEF Next

\* The inductive invariant holds throughout.
LEMMA Invariance == Spec => []IndInv
<1>1. IndInv /\ [Next]_vars => IndInv'
  BY NextIndInv
<1>2. QED
  BY <1>1, InitIndInv, PTL DEF Spec

\* Every variable keeps its type.
THEOREM TypeCorrect == Spec => []TypeOK
<1>1. IndInv => TypeOK
  BY DEF IndInv
<1>2. QED
  BY <1>1, Invariance, PTL

\* Whatever fails or expires, the session id kept for a trip or sent to its
\* rider is of a session of that trip.
THEOREM OwnTheorem == Spec => []SessionIsOwn
<1>1. IndInv => SessionIsOwn
  BY DEF IndInv
<1>2. QED
  BY <1>1, Invariance, PTL

\* payment-service with Stripe and the webhook implements PaymentContract.
THEOREM ContractTheorem == Spec => KeepsContract
<1>1. Init => Contract!Init
  BY DEF Init, Contract!Init
<1>2. IndInv /\ [Next]_vars => [Contract!Next]_<<asked, succeeded>>
  BY NextIndInv
<1>3. QED
  BY <1>1, <1>2, Invariance, PTL DEF Spec, KeepsContract, Contract!Spec

----------------------------------------------------------------------------
(* One session per trip, when nothing fails or expires *)

\* The step of a known session: without failures the store learns of every
\* session before the handler lets go of it, and forgets none.
LEMMA KnownStep ==
  ASSUME ~MayFail, ~MayExpire,
         IndInv, SessionsAreKnown, CreateIsFirst, [Next]_vars
  PROVE  SessionsAreKnown' /\ CreateIsFirst'
<1>1. CASE \/ UNCHANGED vars
           \/ \E t \in Trips, d \in Drivers : CommandArrives(t, d)
           \/ \E s \in Sessions : handleStripeWebhook(s)
  <2>1. UNCHANGED <<store, stripe, consumer>>
    BY <1>1 DEF vars, CommandArrives, handleStripeWebhook
  <2>2. QED
    BY <2>1 DEF SessionsAreKnown, CreateIsFirst
<1>2. ASSUME NEW t \in Trips, NEW d \in Drivers, GetSession(t, d)
      PROVE  SessionsAreKnown' /\ CreateIsFirst'
  <2>1. /\ UNCHANGED <<store, stripe>>
        /\ consumer.pc # "set"
        /\ consumer'.pc \in {"create", "set"} => store[t] = NoSession
        /\ consumer'.trip = t
    BY <1>2 DEF GetSession, Idle
  <2>2. QED
    BY <2>1 DEF SessionsAreKnown, CreateIsFirst
<1>3. ASSUME NEW s \in Sessions, CreateStripeSession(s)
      PROVE  SessionsAreKnown' /\ CreateIsFirst'
  <2>1. consumer \in Handling /\ consumer.pc = "create"
    BY <1>3, HandlerType DEF CreateStripeSession, IndInv
  <2>2. /\ UNCHANGED store
        /\ consumer' = [consumer EXCEPT !.pc = "set", !.session = s]
        /\ stripe'[s].trip = consumer.trip
        /\ \A r \in Sessions : r # s => stripe'[r] = stripe[r]
    BY <1>3 DEF CreateStripeSession, IndInv, TypeOK
  <2>3. /\ consumer'.pc = "set" /\ consumer'.session = s
        /\ consumer'.trip = consumer.trip
    BY <2>1, <2>2 DEF Handling
  <2>4. QED
    BY <2>1, <2>2, <2>3 DEF SessionsAreKnown, CreateIsFirst
<1>4. CASE SetSession
  <2>1. /\ consumer \in Handling /\ consumer.pc = "set" /\ UNCHANGED stripe
        /\ consumer' = [consumer EXCEPT !.pc = "publish"]
        /\ store' = [store EXCEPT ![consumer.trip] = consumer.session]
    BY <1>4, HandlerType DEF SetSession, IndInv
  <2>2. /\ consumer.trip \in Trips /\ consumer'.pc = "publish"
        /\ consumer.session \in Sessions
        /\ stripe[consumer.session] # Unused
        /\ stripe[consumer.session].trip = consumer.trip
    BY <2>1 DEF Handling, IndInv, HandlingIsOwn, SessionOf, Idle
  <2>3. /\ store'[consumer.trip] = consumer.session
        /\ \A t \in Trips : t # consumer.trip => store'[t] = store[t]
    BY <2>1, <2>2 DEF IndInv, TypeOK
  <2>4. store[consumer.trip] = NoSession
    BY <2>1 DEF CreateIsFirst
  <2>5. ASSUME NEW s \in Sessions, stripe[s] # Unused
        PROVE  store'[stripe[s].trip] = s
    <3>1. stripe[s].trip \in Trips
      BY <2>5, SessionType DEF IndInv, Session
    <3>2. QED
      BY <2>1, <2>2, <2>3, <2>4, <2>5, <3>1 DEF SessionsAreKnown
  <2>6. QED
    BY <2>1, <2>2, <2>5 DEF SessionsAreKnown, CreateIsFirst
<1>5. CASE PublishSessionCreated
  BY <1>5 DEF PublishSessionCreated, SessionsAreKnown, CreateIsFirst, Idle
<1>6. ASSUME NEW s \in Sessions, CustomerPays(s)
      PROVE  SessionsAreKnown' /\ CreateIsFirst'
  <2>1. /\ stripe[s] \in Session /\ stripe[s] # Unused
        /\ UNCHANGED <<store, consumer>>
    BY <1>6, SessionType DEF CustomerPays, IndInv
  <2>2. \A r \in Sessions : stripe'[r] # Unused =>
          stripe[r] # Unused /\ stripe'[r].trip = stripe[r].trip
    BY <1>6, <2>1 DEF CustomerPays, IndInv, TypeOK, Session
  <2>3. QED
    BY <2>1, <2>2 DEF SessionsAreKnown, CreateIsFirst
<1>7. CASE \/ SetSessionFails \/ HandlerFails
           \/ \E t \in Trips, d \in Drivers : CommandDropped(t, d)
           \/ \E t \in Trips : StoreExpires(t)
           \/ \E s \in Sessions : SessionExpires(s)
  BY <1>7 DEF SetSessionFails, HandlerFails, CommandDropped, StoreExpires,
     SessionExpires
<1>8. QED
  BY <1>1, <1>2, <1>3, <1>4, <1>5, <1>6, <1>7 DEF Next

\* As long as Redis, Stripe, the broker and the process do not fail and no
\* session expires, CreatePaymentSession is idempotent: redelivered commands
\* and the commands of several drivers lead to one Stripe session per trip.
THEOREM OnceTheorem ==
  ASSUME ~MayFail, ~MayExpire
  PROVE  Spec => []OneSessionPerTrip
<1>1. Init => SessionsAreKnown /\ CreateIsFirst
  BY DEF Init, SessionsAreKnown, CreateIsFirst, Idle
<1>2. /\ IndInv /\ SessionsAreKnown /\ CreateIsFirst
      /\ [Next]_vars
      => (SessionsAreKnown /\ CreateIsFirst)'
  BY KnownStep
<1>3. SessionsAreKnown /\ CreateIsFirst => OneSessionPerTrip
  BY DEF SessionsAreKnown, CreateIsFirst, OneSessionPerTrip
<1>4. QED
  BY <1>1, <1>2, <1>3, Invariance, PTL DEF Spec
----------------------------------------------------------------------------
(* What is reported was paid, and every command is answered or queued *)

\* A paid session stays as it is.
LEMMA PaidStays ==
  ASSUME TypeOK, [Next]_vars, NEW s \in Sessions, stripe[s].state = "paid"
  PROVE  stripe'[s] = stripe[s]
<1>1. stripe[s] # Unused /\ stripe \in [Sessions -> {Unused} \cup Session]
  BY DEF Unused, TypeOK
<1>2. ASSUME NEW r \in Sessions,
             CreateStripeSession(r) \/ SessionExpires(r) \/ CustomerPays(r)
      PROVE  stripe'[s] = stripe[s]
  <2>1. r # s
    BY <1>1, <1>2 DEF CreateStripeSession, SessionExpires, CustomerPays
  <2> QED BY <1>1, <1>2, <2>1 DEF CreateStripeSession, SessionExpires, CustomerPays
<1> QED BY <1>2 DEF Next, vars, CommandArrives, GetSession, CommandDropped, SetSession,
           SetSessionFails, PublishSessionCreated, HandlerFails, handleStripeWebhook,
           StoreExpires

LEMMA SuccessStep ==
  ASSUME TypeOK, SuccessWasPaid, [Next]_vars
  PROVE  SuccessWasPaid'
<1> SUFFICES ASSUME NEW p \in succeeded'
             PROVE  \E s \in Sessions :
                      stripe'[s] = [state |-> "paid", trip |-> p[1], driver |-> p[2]]
  BY DEF SuccessWasPaid
<1>1. CASE p \in succeeded
  <2>1. PICK s \in Sessions : stripe[s] = [state |-> "paid", trip |-> p[1], driver |-> p[2]]
    BY <1>1 DEF SuccessWasPaid
  <2>2. stripe'[s] = stripe[s]
    BY <2>1, PaidStays
  <2> QED BY <2>1, <2>2
<1>2. CASE p \notin succeeded
  <2>1. PICK s \in Sessions : handleStripeWebhook(s)
    BY <1>2 DEF Next, vars, CommandArrives, GetSession, CommandDropped, SetSession,
       SetSessionFails, PublishSessionCreated, HandlerFails, StoreExpires,
       CreateStripeSession, SessionExpires, CustomerPays
  <2>2. /\ stripe[s].state = "paid" /\ UNCHANGED stripe
        /\ p = <<stripe[s].trip, stripe[s].driver>>
    BY <1>2, <2>1 DEF handleStripeWebhook
  <2>3. stripe[s] \in Session
    BY <2>2, SessionType DEF Unused
  <2> QED BY <2>2, <2>3 DEF Session
<1> QED BY <1>1, <1>2

\* The webhook reports what was paid: a payment event names the trip and the
\* driver of a session in Stripe that is paid, through every repetition of the
\* webhook and every failure of payment-service.
THEOREM PaidTheorem == Spec => []SuccessWasPaid
<1>1. Init => SuccessWasPaid
  BY DEF Init, SuccessWasPaid
<1>2. TypeOK /\ SuccessWasPaid /\ [Next]_vars => SuccessWasPaid'
  BY SuccessStep
<1> QED BY <1>1, <1>2, TypeCorrect, PTL DEF Spec

\* Two drivers may both have accepted a trip, and both commands reach
\* payment-service: without failures and expiry its rider pays for one.
THEOREM OneDriverTheorem ==
  ASSUME ~MayFail, ~MayExpire
  PROVE  Spec => []PaidForOneDriver
<1>1. ASSUME OneSessionPerTrip, SuccessWasPaid
      PROVE  PaidForOneDriver
  <2> SUFFICES ASSUME NEW t \in Trips, NEW d1 \in Drivers, NEW d2 \in Drivers,
                      <<t, d1>> \in succeeded, <<t, d2>> \in succeeded
               PROVE  d1 = d2
    BY DEF PaidForOneDriver
  <2>1. PICK s1 \in Sessions : stripe[s1] = [state |-> "paid", trip |-> t, driver |-> d1]
    BY <1>1 DEF SuccessWasPaid
  <2>2. PICK s2 \in Sessions : stripe[s2] = [state |-> "paid", trip |-> t, driver |-> d2]
    BY <1>1 DEF SuccessWasPaid
  <2>3. stripe[s1] # Unused /\ stripe[s2] # Unused /\ stripe[s1].trip = stripe[s2].trip
    BY <2>1, <2>2 DEF Unused
  <2>4. stripe[s1] = stripe[s2]
    BY <1>1, <2>3 DEF OneSessionPerTrip
  <2> QED BY <2>1, <2>2, <2>4
<1>2. Spec => []OneSessionPerTrip
  BY OnceTheorem
<1> QED BY <1>1, <1>2, PaidTheorem, PTL

\* Without failures no command is lost between its delivery and the answer: it
\* stays queued until PublishSessionCreated has sent a session id to the rider.
THEOREM CommandTheorem ==
  ASSUME ~MayFail
  PROVE  Spec => []CommandIsKept
<1>1. Init => CommandIsKept
  BY DEF Init, CommandIsKept
<1>2. ASSUME IndInv, CommandIsKept, [Next]_vars
      PROVE  CommandIsKept'
  <2>1. CASE PublishSessionCreated
    <3>1. consumer \in Handling /\ consumer.pc = "publish" /\ consumer.session \in Sessions
      BY <1>2, <2>1, HandlerType DEF PublishSessionCreated, IndInv, HandlingIsOwn, Idle
    <3>2. /\ UNCHANGED asked /\ told' = told \cup {<<consumer.trip, consumer.session>>}
          /\ \A p \in cmds : p \in cmds' \/ p = <<consumer.trip, consumer.driver>>
      BY <2>1 DEF PublishSessionCreated
    <3> QED BY <1>2, <3>1, <3>2 DEF CommandIsKept
  <2>2. ASSUME NEW t \in Trips, NEW d \in Drivers, CommandArrives(t, d)
        PROVE  CommandIsKept'
    BY <1>2, <2>2 DEF CommandArrives, CommandIsKept
  <2>3. CASE UNCHANGED <<asked, cmds, told>>
    BY <1>2, <2>3 DEF CommandIsKept
  <2> QED BY <1>2, <2>1, <2>2, <2>3 DEF Next, vars, GetSession, CommandDropped, SetSession,
             SetSessionFails, HandlerFails, handleStripeWebhook, StoreExpires,
             CreateStripeSession, SessionExpires, CustomerPays
<1> QED BY <1>1, <1>2, Invariance, PTL DEF Spec
=============================================================================
