# ride-go-mcs: TLA+ models, model checks and proofs

This directory holds a formal model of the ride-sharing back end in this
repository: the services that quote, create, dispatch, bill, complete and
cancel a trip, the sockets, chat and accounts of its users, and the messaging
layer that connects them. Modules are written from the
source; `PROJECT.json` maps every definition to the lines it models.

## 1. The system

Go services exchange events over one RabbitMQ topic exchange (`trip`) and talk
to clients over HTTP and WebSockets. MongoDB keeps trips and chat, PostgreSQL
keeps users, Redis keeps fares, the driver GEO index, payment sessions,
WebSocket presence, rooms and per-user streams.

| Component | Source | State | Operations |
|---|---|---|---|
| trip-service | `services/trip-service` | trip documents (status, driver); previews in Redis | PreviewTrip, CreateTrip, CancelTrip (gRPC); driver-response consumer (accept, decline); payment consumer (CompleteTrip) |
| driver-service | `services/driver-service` | GEO index per package, chat pairs and active pointers in Redis | dispatch consumer, location consumer, trip-assigned consumer; unregister (gRPC) |
| payment-service | `services/payment-service` | session id per trip in Redis; Stripe's sessions | create-session consumer |
| api-gateway | `services/api-gateway` | request counters in Redis, the refresh cookie of each browser | preview, start and cancel trip, Stripe webhook, login proxy |
| ws-gateway | `services/ws-gateway` | sockets, Redis counters, chat pairs | rider and driver sockets, connection gate, room join, cancel and payment-success consumers |
| messaging library | `shared/messaging` | AMQP queues, DLQ; Redis subscriptions, streams, rooms | ConsumeMessages, StartDLQConsumer; Add/Remove/SendMessage/BroadcastToRoom |
| dlq-worker | `services/dlq-worker` | none | a CronJob that starts the DLQ consumer |
| chat-service | `services/chat-service` | chat messages | store and list |
| login-service | `services/login-service` | users | register, login, Google sign-in, refresh |

How they interact. A start request makes trip-service insert a *pending* trip
and publish `trip.event.created`. driver-service looks for drivers around the
pickup with a live socket and publishes a request for one of them, or
`no_drivers_found`. The driver's answer goes from the ws-gateway to
trip-service; an accept updates the document, publishes `driver_assigned` and
`payment.cmd.create_session`; a decline publishes `driver_not_interested`,
which driver-service handles like a created trip. payment-service creates one
Stripe Checkout session and publishes its id to the rider; Stripe calls the
webhook, which publishes `payment.event.success`; trip-service marks the trip
*completed* and tells both parties. Rider or driver may cancel at any time.
A message whose handler keeps failing moves to the dead-letter queue, from
which the dlq-worker republishes it.

What is hard here:

* no handler locks the trip document, and reads, writes and publishes of
  several handlers interleave; only some transitions check the old status;
* every message may be handled twice: the acknowledgement comes last, and
  retries start a handler from its first line, after part of it took effect;
* a write and the publish that belongs to it are separate, so either may fail
  alone;
* messages that failed come back late and are fanned out again;
* the payment path crosses Redis and Stripe with no transaction over the two;
* presence (sockets, Redis keys, grace period) is spread over pods;
* chat pairs, fare previews and user rows are each written by several handlers
  without a transaction over what they read.

What makes each component correct:

* *trip*: nobody drives or is announced for a trip they did not accept; an
  accept leads to a bill for that driver, after the rider was told of them; a
  trip is never forgotten by dispatch, nor completed or cancelled without a
  notice;
* *dead letters*: no message vanishes without being handled, queued or
  deliberately discarded; the count of retries is honest;
* *payment*: one session per trip, paid for one driver; sessions and reports
  keep to the trip and driver they were asked for;
* *delivery*: a connected user's pod is subscribed, a message is delivered live
  or kept for replay, and replay deletes nothing it did not deliver;
* *presence and gate*: a driver who is connected and reports is found, the
  connection limit is neither exceeded nor used up for ever;
* *chat pair and relay*: up while the trip is under way, down once its end was
  handled, and never opened to somebody without a trip of that rider;
* *chat*: a room is subscribed exactly where it has members, members hear a
  message once, and it is neither lost on its way nor taken from the queue
  unstored;
* *fares*: a trip is booked only at a price that was quoted to its rider;
* *accounts*: nobody is signed in as somebody else, and no race replaces a
  password or splits a Google account.

`PROJECT.json` lists the hazards of each component at their source lines.

## 2. Modules

| Module | Models |
|---|---|
| `TripLifecycle` | a trip from CreateTrip to its end: trip-service handlers and store, driver-service dispatch, the driver's socket as far as answers and presence go |
| `MCTrip` | constants and symmetry for TLC |
| `TripLifecycleProofs` | theorems about `TripLifecycle` |
| `DeadLetter` | PublishMessage, ConsumeMessages with WithBackoff, the dead-letter exchange, StartDLQConsumer and the dlq-worker process |
| `MCDeadLetter`, `DeadLetterProofs` | constants; theorems |
| `PaymentContract` | the abstract promise to trip-service: payments succeed only for a trip and driver asked for |
| `PaymentSession` | payment-service's handler, its Redis store, Stripe, the webhook; implements `PaymentContract` |
| `MCPayment`, `PaymentSessionProofs` | constants; theorems |
| `UserDelivery` | a notification's way to a user: queue consumers, RedisConnectionManager with channel and stream, the sockets of each ws-gateway pod |
| `MCDelivery`, `UserDeliveryProofs` | constants and symmetry; theorems |
| `RideOffer` | the abstract promise of a quote: rides are booked only as offered |
| `FareQuote` | preview and start of a trip, from the api-gateway's rate limit through OSRM and the preview key to CreateTrip; implements `RideOffer` |
| `MCFare`, `FareQuoteProofs` | constants and symmetry; theorems |
| `DriverPresence` | a driver's sockets at the pods, the connection gate, the GEO index and the location updates |
| `MCPresence`, `DriverPresenceProofs` | constants; theorems |
| `TripPair` | the chat pair and the active pointers, and all who write and clear them |
| `MCPair` | constants and symmetry |
| `ChatRoom` | rooms of the connection manager, the relay of a chat message, chat-service |
| `MCChat`, `TripChatProofs` | constants; theorems about `TripPair` and `ChatRoom` |
| `Accounts` | login-service over its two tables, and the api-gateway's refresh cookie |
| `MCAccounts`, `AccountsProofs` | constants; theorems |

### TripLifecycle

State: `trips` is the MongoDB collection; `creating`, `accepting`,
`completing` and `calls` are the handlers in progress, with the local variables
they carry from one call to the next; `msgs` are the unacknowledged messages of
the queues consumed inside the module and `outbox` what was published to
others; `open` are the requests on a driver's screen, and `answers` is history:
what drivers' sockets have answered. `orphaned` and `dropped` record that the
code told someone of an error, or gave a message up.

Answers are free inputs: `DriverAnswers` lets any driver who is online accept or
decline any existing trip, offered or not, several times and in any state of the
trip, because neither the gateway nor the consumers check more than that the
trip exists. That only the driver of an offer answers is therefore not a
property of the code and not claimed.

Grain. A handler is one action per read or write of the document and per
publish, because that is where another handler can run. `AcceptUpdate` joins
the first read of `handleTripAccepted` with the update: that read only tests
whether the trip exists, and trips are never deleted. A failure (`AcceptFails`,
`CompleteFails`, `CancelFails`, `CreateTripFails`) may strike between any two
actions and stands for an error return as well as for a crash; the message is
still queued and the handler starts again.

`UpdateTrip` succeeds only when the document changes, because the code tests
`ModifiedCount`; `Updated` keeps the old driver when the new one is nil.

Queues are sets that a consumer may take from in any order. FIFO queues whose
failed messages return through the dead-letter queue produce every order, so
this adds no behaviour that redelivery does not already allow. `Repeatable`
names the keys whose messages may be delivered again after they were handled.

`Drop` is the end of the dead-letter path, the last retry refused. It also
applies without failures to an accept that would write what the document
already holds: `UpdateTrip` refuses it however often it is retried.

Abstractions: coordinates are search cells (`Places`), where `Zero` is the cell
of the coordinates that a payload lacks; fares, routes, names and car plates
are left out (a driver in the document is an id: `ToProto` leaves out a driver
only when its name is empty, and names are assumed to be there). The webhook,
payment-service and Stripe appear as `PaymentSucceeds`, which is the `Succeed`
of `PaymentContract`.

### DeadLetter

A copy of a message is its queue, its `broker-retry-count` and whether the
origin headers are set. `consumer[q]` is the goroutine of a queue with the
delivery it works on and the attempts made; `worker` is the dlq-worker process,
which is `Down`, `Idle` or sleeping before a republish. `handled`, `exhausted`
and `discarded` are history. An acknowledgement may be lost (`AckReady`,
`AckDead`); the publish to the dead-letter exchange may fail, after which the
broker's own dead-lettering keeps the headers the delivery came with
(`RejectToDLX`); a channel may close and end the range loop until the process
is restarted (`ChannelLost`, `ServiceRestarts`). A republished dead letter goes
to every queue bound to its routing key.

### PaymentSession

`store` is Redis, `stripe` holds the sessions with their metadata, `consumer`
is the handler in hand. The handler is one action per call. A failed `Set` is
not an error (`SetSessionFails`), every other failure starts the command again.
`StoreExpires` and `SessionExpires` are the 24 hours of both sides. The webhook
may be repeated without bound. The mapping to `PaymentContract` is by name:
`asked` and `succeeded` are variables of both.

### UserDelivery

Users share no delivery state, so the module follows one user with several
sockets on several pods. `conn[s]` is where the WebSocket handler of socket `s`
is between `Add` and the end of `Remove`; `registered` is the
ConnectionManager's maps, `subs` the `userSubs` entries, `active` the
subscriptions Redis counts (`rdb.Subscribe` does not wait for the server), and
`chan` what Redis passed to a subscription goroutine that has not read it.
`rcm.mu` is held over two steps only by a `Remove` that closes the
subscription; `Locked` says so and blocks the other handlers of that pod.

`ConnectionManager.SendMessage` takes a list of sockets and writes to one after
the other, so it is a `job` of several steps (`StartSending`, `SendToSocket`);
it is run by a queue consumer (named by its message), by a pod's subscription
(by its pod) and by a replay (by the socket that started it). A write to a
broken connection may still succeed for as long as the kernel buffers it: it
counts as written. The stream is a set of messages, and several entries of the
same message are one; the order of a replay is left open. The failures of
Redis, an expired stream, a lost acknowledgement, a message given up by the
dead-letter queue and a stopping pod are counted by `faults`; connections break
without bound. A connection breaks only after `Add`: an upgrade that fails
earlier never reaches the manager.

A message that finds a local socket is not sent to the user's sockets on other
pods; this is what the code does and no property says otherwise.

### FareQuote and RideOffer

`call[c]` is a request at the step before its next call to OSRM, Redis or
MongoDB. `stored[u]` is the key `fare_preview:<u>`, which every preview of the
user overwrites; `shown[u]` is the preview on the rider's screen, and answers
arrive there in any order. A preview stands for its fare ids, one per package,
which are fresh. Prices are integers: with a quarter of a cent as unit the
code's 1.5 and 0.25 are exact. An OSRM answer without routes is saved as a
preview without fares, and `ToProto` then indexes an empty list: `ToProtoPanics`
ends trip-service with all requests in it. `GatewayExits` is the `log.Fatal` of
`HandleStartTrip`; what trip-service was doing for the lost requests goes on
until their context is found cancelled (`RequestCancelled`).

`RideOffer` knows offers and rides only. The mapping computes the offers from
the previews made (`OffersMade`) and the rides from the trips (`RidesBooked`).

### DriverPresence

Every key is per user, so one driver is followed. `sock[s]` is the handler of a
connection attempt; its deferred calls run in the code's order: registry,
first check, grace period, second check, unregister, heartbeat, release. The
DECR and the DEL of the release are two actions, and either may fail. `leaked` and `reset` are
history: increments that nobody will undo, and a key dropped while a socket
held a slot. The key's TTL passes only when no heartbeat runs, or by a fault.

### TripPair

`pair`, `activeRider` and `activeDriver` are the Redis keys. They are written
by the ws-gateway when a driver presses accept (`AcceptTrip`, the pair only:
the rider in it is the one the client names, unchecked, and `named` remembers
it)
and by driver-service on `driver_assigned` (`SetTripChatPair`), and cleared by
the two consumers of the ws-gateway, in two commands (`ClearReads`,
`ClearDeletes`). trip-service is abridged to what it publishes.
`Participants(t)` is whom the chat relay lets write, `Watchers(d)` whom the
location consumer sends a position to. `marred` is history: trips for which a
write came after the end or over another driver's, or a Redis call failed.
`Entangled` says that a user of the trip is also a user of another trip, an
ended one too, or that another trip's accept named its rider: the pointers are
per user, so nothing is claimed of such a trip.

### ChatRoom

`JoinRoom`, `LeaveRoom` and `Remove` run under the manager's mutex and are one
action each; a subscription becomes live later (`SubscriptionStarts`), and a
closed one may still hand over what it had buffered. `deliverToRoomLocally`
copies the members under the mutex and writes without it, so each write is an
action of its own. The relay publishes to the room and then to chat-service,
whose handler saves, publishes a receipt and acknowledges; a failed insert
gives the delivery back to the queue.

A message is one frame of a client. Its id (`IdOf`) may be chosen by the
client, so a frame can carry an id that was used before: it is broadcast again,
and its insert fails at every delivery. `Earlier` are messages sent before the
behaviour begins, some of them stored. `service` is the chat-service process:
`ChannelLost` makes it `"deaf"`, since the consumer returns when its channel
closes (the handler at work goes on, and its acknowledgement is lost), and only
a stop and a start (`ChatServiceStops`, `ChatServiceStarts`) make it consume
again.

### Accounts

A handler is one action per statement. The rows carry what decides: the
password hash of `users` and the subject of `user_identities`; the constraints
UNIQUE of the migrations are in `Create` and `LinkGoogleIdentity`. `MailOf`
says which emails Google may confirm for a subject over time. `cookie` is one
browser, and responses reach it in any order.

### How the modules fit together

`TripLifecycle` leaves out what happens before CreateTrip (`FareQuote`), how a
driver comes to be listed (`DriverPresence`), what payment-service does between
the command and the webhook (`PaymentSession`, used through the contract that
`PaymentContract` states), how messages are retried (`DeadLetter`, seen there
as redelivery and `Drop`) and how an event reaches a screen (`UserDelivery`).
`TripPair` takes its trips from an abridged `TripLifecycle` and decides who may
use the rooms of `ChatRoom`.

## 3. Runs

| Run | Instance | Shows |
|---|---|---|
| `trip_faults` | 1 trip, 1 rider, 2 drivers, 5 inputs, all failures, all redeliveries | recorded and announced drivers have accepted, accepts are pursued to their bill, completions know their driver; pending trips are pursued and completed ones announced |
| `trip_live` | 2 drivers, 5 inputs, the created event redelivered, fair consumers, no failures | dispatch, the accept of each driver and payment are carried through, cancellations announced |
| `dlq` | 1 message in 2 queues, 1 republish, 1 in-place retry, all failures, fair consumers | nothing is lost silently; counts are honest; dropped means tried; every message is handled or fails a whole round |
| `pay_faults` | 2 trips, 2 drivers, 3 sessions, failures and expiry | sessions stay with their trip; `PaymentSession` implements `PaymentContract` |
| `pay_live` | the same without failures or expiry, fair consumer | one session per trip, paid for one driver at most; commands are answered |
| `delivery_faults` | 2 pods, 2 sockets, 1 message, 1 fault | a registered socket is subscribed, no subscription is forgotten but for a known reason, a message is lost only where a connection broke, replay deletes only what was written |
| `presence` | 2 pods, 3 connections, limit 2, 1 fault, fair handlers | the limit holds and recovers, the counter is explained, a driver who stays online is found |
| `accounts` | 2 emails, 2 Google accounts (one with both emails), 1 password, 2 requests, 1 fault | passwords are kept, sessions vouched for, subjects not split, Google sign-in gets through |
| `pair` | 2 trips, 2 riders, 2 drivers, 2 consumers, 3 calls, 2 faults | chat and relay serve a trip under way and end with it; notices go to drivers tied to the rider |
| `chat` | 2 pods, 3 sockets, 1 room, 1 message and an earlier one with its id, 1 fault, fair subscriptions | subscriptions follow members, nobody hears twice, no message is lost on its way to members or to the collection, members hear |
| `fare` | 2 riders, 2 requests, 2 previews, 2 packages, 2 routes or none, limit 1, 1 fault | a refused fare was superseded; `FareQuote` implements `RideOffer` |

`MaxInputs` bounds what riders, drivers and Stripe do: a driver online, an
accept and a payment are three; five leave room for a second driver's accept,
a decline or a cancellation in between. Two drivers are the
fewest that can race for a trip, and trips do not share state apart from the
consumers, which the proofs cover for any number. Two queues are the fewest
that show the fan-out of a republish; two republishes were tried too (the same
result). Three sessions let a trip have two while another has
one. Two sockets on one pod are the fewest for which `Add` races with the
`Remove` of another, two pods the fewest for which a publish crosses pods; a
second message shares with the first only the stream and the sockets, and a
second fault was tried as well (2.7 million states, the same result). Three
connections against a limit of two reach a rejection while the first is torn
down. Two trips with two riders and two drivers are the fewest in which the
clearing of one trip can hit the keys of another; three calls are an accept of
each and a cancellation or a payment, or two accepts of one trip and its end
(four did not finish in reasonable time; the proofs have no such bound). Two previews and two requests are the
fewest in which a slow preview overwrites a later one. One fault is enough to
fail any one step; the proofs have no such bound.

The type invariants are proved and not run again. That of `ChatRoom` also says
that only open sockets are registered and that nothing is stored which was not
sent.

Runs with `CHECK_DEADLOCK FALSE` may stop because the inputs are used up, or,
in the payment model, because the rider does not pay and Stripe's ids run out.
In the delivery, presence and chat models a socket is used once, so all may
have ended; in the fare model the previews run out.

### A disagreement a run exhibits

`trip_redispatch` checks a statement of the repository ("When a driver
declines, we should try to find another driver", `driver_consumer.go:59`;
`docs/architecture/messaging-architecture.md:1242` has the search exclude
declined drivers), and TLC finds a behaviour of the code that violates it: two
drivers are online near the pickup, the one who was offered the trip declines,
the re-dispatch event has no coordinates, the search runs around 0,0 and the
rider is told that there is nobody, although the other driver was never asked.
The property speaks only of drivers who have not declined.

More were met while modelling and are described only here:

* When a publish fails after an accept was written, every retry of the accept
  stops at `UpdateTrip`, which reports an unmodified document as not found, and
  the trip is never billed: the accept ends as given up, which is the third case
  of `AcceptIsPursued` (`AcceptProgress` is checked without failures).
* A driver's socket may accept or decline any trip, and its client names the
  rider of the chat pair: no handler compares them with the offer or with the
  document.
* The dlq-worker's `main` returns at once and ends its goroutine during the
  first sleep, so dead letters are not republished as
  `docs/architecture/messaging-architecture.md:1344` says.
* `Remove` unregisters the last socket and closes the subscription later; a
  message published in between is received by a subscription without sockets,
  only logged, and acknowledged (`LossNeedsDisconnect` names this case).
* `Remove` closes the subscription "when the user's last socket on this node
  disconnects"; a socket that a failed write had already removed leaves it
  open, and what is published from then on is received by nobody and not kept
  (`"orphaned"` in `SubscriptionIsOwned`).
* `CancelTrip` tests the requester on the trip it read and writes later, so a
  driver who lost the trip in between still cancels it; and the cancelled event
  names the driver of that read, so one who accepted in between is not told.
* When that event names no driver, the cancel consumer looks up the rider's
  active driver, who may be driving another trip of the rider
  (`NoticeIsTied` says no more than that).
* An accept, or an assigned event, that comes after the end of a trip writes
  the chat pair and the relay pointers again, and nothing clears them until
  they expire, although "cancellation must fully terminate trip chat + location
  relay" (`marred` in `StreamsEnd`).
* When the publish to the dead-letter exchange fails, the fallback `Reject`
  yields a dead letter without origin headers, which the DLQ consumer discards
  without a retry (`DroppedWasTried` therefore speaks only of letters that have
  their origin).
* With failures, session creation is not idempotent: after a failed `Set`, or a
  crash before it, the next command creates a second Stripe session
  (`OneSessionPerTrip` is checked and proved without failures).
* A connection attempt that the gate rejects has incremented the counter and
  nothing takes that back while the user's heartbeats keep the key alive.
* A driver who changes the package stays in the GEO index of the old one: the
  comment in `handler.go:224` speaks of a cleanup by driver-service that does
  not exist.
* `publisher.go:22` of chat-service says "ws-gateway will forward the ack to
  the sender"; the queue consumer skips `chat.event.delivered`.
* A chat message that was stored but not acknowledged, or whose id a client has
  used before, fails on its key at every further delivery and is requeued for
  ever; and when chat-service loses its channel nothing consumes the queue until
  the process is restarted. `MessageIsKept` says that such a message stays in the
  queue; that it is stored in the end is not true and not claimed.
* `auth.go:192` speaks of a transaction over the new user and the identity;
  there is none, and a sign-in that fails between the two is repaired by the
  next one (`GoogleGetsIn`).
* The comment in `redis.go:31` says an overwritten preview handles "cancel +
  retry automatically"; a slow earlier preview overwrites a later one just as
  well, and the start of the fare on the screen then ends the gateway process.
* A logout does not revoke refresh tokens: a refresh that is answered after it
  sets the cookie again.

## 4. Fairness

* `TripLifecycle`: each queue is FIFO with one goroutine, so the message at its
  head is taken (strong fairness, since the single consumer is busy in between)
  and a started handler goes on (weak). Nothing is assumed of riders, drivers
  or Stripe. The liveness run has `MayFail = FALSE`: with failures a message
  may be given up, which the safety properties account for through `dropped`.
* `DeadLetter`: consumers as above; the schedule starts the job again and again
  and its `main` returns (weak). The goroutine's steps are weakly fair, which
  the process's exit defeats. `MessageIsTried` assumes that channels are lost
  and services restarted only finitely often, and speaks of queues that have a
  consumer.
* `PaymentSession`: the consumer as above. Nothing is assumed of the rider, who
  need not pay, or of Stripe's webhook.
* `DriverPresence`: handlers go on and the reader of a dead connection notices
  (the ping loop and the read deadline); a connected client reports its
  position; Redis expires a key that nobody refreshes.
* `ChatRoom`: the goroutines of the subscriptions go on. Nothing is assumed of
  chat-service, whose consumer ends for good with its channel.
* `Accounts`: handlers go on, and whoever was confirmed by Google and wants in
  tries again (strong, since all handlers may be busy).
* `TripPair`, `UserDelivery` and `FareQuote` state safety only.

## 5. Proofs

All theorems hold for every value of the constants allowed by the named
assumptions (`ConstantsAssumption`, `DeadLetterAssumption`,
`PaymentAssumption`, `DeliveryAssumption`, `FareAssumption`,
`PresenceAssumption`, `PairAssumption`, `ChatAssumption`,
`AccountsAssumption`), which TLC evaluates in the runs; a theorem that holds
only without failures (`CancelledTheorem`, `OnceTheorem`, `OneDriverTheorem`,
`CommandTheorem`) says so in its ASSUME. Each component has its type theorem
and an inductive invariant (`IndInv`; `ChatInv` for `ChatRoom`), whose parts
are named in the module of the component and were checked by TLC before they
were proved. `TripPair` and `ChatRoom` share a proof module; the names of the
one are chosen not to clash with those of the other.

* `TripLifecycleProofs`: `TypeCorrect`, then six safety theorems from one
  inductive invariant, `IndInv`. None of the six is inductive alone: that the
  driver in the document accepted the trip is known because it is known of the
  accept in the queue (`QueuedIsJustified`). That the bill is for a driver the
  rider was told of needs the handler between its two reads and its two
  publishes: its message is still queued, nobody else has changed the driver it
  wrote, and at the bill the assigned event is out (`AcceptingIsJustified`).
  That a completed trip's driver is never lost follows from the payment message
  and `BilledHasDriver`; that a completed trip will be announced needs that
  the completing handler's message stays queued (`CompletingIsJustified`). The
  outbox only grows, so facts about it survive; the frame lemmas say which part
  of the invariant a step leaves alone, and there is one step lemma per action
  or group of like actions. `CancelledTheorem` assumes `MayFail = FALSE`: the
  update that cancels a trip leaves its call at the publish, and then nothing
  but that publish ends the call.
* `DeadLetterProofs`: the invariant adds `WorkIsJustified`: the delivery a
  goroutine or the worker holds is still in its queue, because the
  acknowledgement comes after the publish that replaces it. Hence nothing is
  lost, and a count k was earned in a round with every smaller count.
* `PaymentSessionProofs`: `SessionIsOwn` and the refinement
  `Spec => Contract!Spec` from an invariant that the ids held by store, rider
  and handler belong to the trip; `OnceTheorem` assumes `MayFail = FALSE` and
  `MayExpire = FALSE` and adds that every session is known to the store or to
  the handler about to store it. `PaidTheorem` (a payment event is about a paid
  session, with all failures) rests on a paid session staying as it is; with
  `OnceTheorem` it gives `OneDriverTheorem`, that a trip which two drivers
  accepted is paid for one of them. `CommandTheorem` is the safety half of
  `CommandIsAnswered`.
* `UserDeliveryProofs`: five theorems from `IndInv`. That a served socket is
  subscribed needs `CloseIsAlone`: between the check and the close of `Remove`
  no registered socket is served on that pod, since the next `Add` waits for
  the lock. The loss theorem follows a message from the publish on: it reached
  a pod that had a socket (`ChanWasReached`, from `SubscriptionIsOwned`), an
  unregistered socket is a broken one (`LiveIsRegistered`), so a sender that
  wrote nothing met a broken socket (`JobsAreHonest`). Replay deletes what was
  written by `AckedWasWritten`.
* `FareQuoteProofs`: `RefusalTheorem` and the refinement `Spec => Offer!Spec`
  from an invariant that follows a preview from the key to the screen to the
  request: it was made for that very user and is stored or superseded
  (`KeptIsKnown`, `RequestIsKnown`), and the price in a request or a trip is
  that of its preview (`Priced`).
* `DriverPresenceProofs`: the limit needs `SlotsAreCounted`, that every slot
  held is in the counter, and the counting facts of finite sets; the key may
  be dropped under a socket only with `reset`.
* `AccountsProofs`: three theorems. A Google session is vouched for because
  every link and every request on its way to one is (`LinkIsVouched`,
  `RequestIsVouched`); that a subject keeps its account needs that it stays
  linked unless another subject came with the email (`StillLinked`).
* `TripChatProofs`, on `TripPair`: `NoticeTheorem` from `TripsExist` (what is
  queued is about an existing trip, whose rider never changes) and
  `DriversAreGiven` (every driver in a document, an event or behind a pointer
  was given the trip). `RelayTheorem` and `StreamsTheorem` need `StreamInv`
  besides. It says of a trip that was not marred that its keys are all up, or
  its end is handled and they are down (`UpOrDown`); that this survives the two
  commands of a clearing needs that the pair a consumer has read is still the
  one it deletes (`SeenLasts`), which holds because such a trip has one driver
  (`OneDriver`) and nothing about its end is queued before it ends
  (`EndsOnce`). That a position goes only to the rider of a trip the driver
  was given is `WatchersAreServed`.
* `TripChatProofs`, on `ChatRoom`: four theorems from `ChatInv`.
  `RoomsAreSubscribed` is inductive with the types and with
  `HoldersAreEntitled`, that a socket which is not open is in no room.
  `NoDuplicate` needs that a message which is still to be published is nowhere
  yet (`PublishedOnce`), and that on its way to a socket it is in one of the
  pod's buffer, the writes to be done and the writes done (`InOnePlace`): so a
  socket that leaves and joins again, and a closed subscription that still
  delivers, find it in one place only. `MessageIsKept` needs that a message is
  owed to members alone (`DebtsAreMembers`): a subscription is closed with its
  buffer when the last local member leaves, and nobody else on that pod is owed
  anything from it; and that chat-service acknowledges only what is stored,
  whether its channel is lost, its process stops or an id is taken.

Only model-checked: all liveness properties, since the prover handles neither
fairness nor ENABLED, and the run that finds a violation. What a liveness
property needs of safety is proved for most of them: `PendingIsPursued`,
`CompletedIsAnnounced`, `NoSilentLoss`, `CommandIsKept` and `MessageIsKept` say
that what is to happen is still queued or in somebody's hands. All invariants
and the two refinements of the runs are proved. `CancelledByParty`,
`SuccessWasPaid` and `CommandIsKept` are proved and not run.

## 6. Not modelled

* Generated protobuf code, tracing, environment and database clients: no state
  of their own that interacts.
* JWT validation, CORS, the IP list of the webhook, validation of request
  bodies: each decides on one request alone; the models start where it passed.
* The rate limits of the other endpoints: the same counter as that of
  `FareQuote` with other constants. The `WsConnectionGate` of the api-gateway,
  the gRPC `UpdateLocation`, the in-memory repository, `GetHistory` and
  `MarkDelivered` have no caller.
* Floating-point rounding of prices, road routing, and distances: prices are
  exact integers, routes are given, a search cell stands for the search radius.
* Names, roles, avatars, car plates: carried along and never decide anything.
* The web front end and `tools/simulate_drivers`: clients. What they may send is
  a free input of the models: answers to any trip, any rider in an accept, any
  message id. Only frames that no handler acts on (ids of no trip, empty fields)
  are left out.

What could still be added: a composition in which `TripPair` takes its trips
from the full `TripLifecycle` and not from an abridged one.
