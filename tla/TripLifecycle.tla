--------------------------- MODULE TripLifecycle ---------------------------
(***************************************************************************)
(* The life of a trip: trip-service (gRPC handlers, driver-response and    *)
(* payment consumers, MongoDB store), driver-service's dispatch and the    *)
(* driver's answers as the ws-gateway publishes them.                      *)
(*                                                                         *)
(* Grain.  A handler is split where another handler can run in between:    *)
(* at each read and write of the trip document and at each publish.        *)
(*                                                                         *)
(* Queues.  msgs holds the messages of the queues consumed in this module  *)
(* that are not yet acknowledged; outbox holds what was published for      *)
(* consumers outside it (ws-gateway notifications, payment commands) and   *)
(* never shrinks.  Both are sets: a consumer may take the messages in any  *)
(* order, because a failed message travels through the dead-letter queue   *)
(* and returns behind later ones, and a second copy of a message is a      *)
(* redelivery, which Repeatable allows.  The exact retry counts are the    *)
(* subject of module DeadLetter.                                           *)
(***************************************************************************)
EXTENDS Naturals

CONSTANTS
  Trips,      \* trip ids that CreateTrip may allocate
  Riders, Drivers,
  NoDriver,   \* the nil driver of a trip document, the empty driverID
  Owner,      \* Owner[t]: the rider whose fare trip t is created from
  Places,     \* search cells: (package, disc of searchRadiusKM) pairs
  Zero,       \* the cell of the zero coordinates
  Pickup,     \* Pickup[t]: the cell of the first coordinate of the route
  Position,   \* Position[d]: the cell driver d is indexed in
  MaxInputs,  \* bound: what riders, drivers and Stripe do, in all
  MayFail,    \* TRUE: the store, Redis, the broker and the process may fail
  Repeatable  \* keys of the messages that may be delivered again once handled

ASSUME ConstantsAssumption ==
  /\ NoDriver \notin Drivers
  /\ Owner \in [Trips -> Riders]
  /\ Zero \in Places
  /\ Pickup \in [Trips -> Places]
  /\ Position \in [Drivers -> Places]
  /\ MaxInputs \in Nat
  /\ MayFail \in BOOLEAN

VARIABLES
  trips,      \* MongoDB collection "trips": status and driver of each document
  creating,   \* CreateTrip calls between the insert and the publish
  orphaned,   \* trips whose CreateTrip answered an error after the insert
  msgs,       \* unacknowledged messages of the queues consumed here
  outbox,     \* messages published to consumers outside this module
  dropped,    \* trips that lost a message: never published, or given up after
              \* its last retry
  accepting,  \* the driver-response consumer, when it handles an accept
  completing, \* the payment consumer
  calls,      \* CancelTrip calls in flight
  online,     \* drivers with a live ws-gateway subscription
  open,       \* trip requests a driver was sent and has not answered since
  answers,    \* history: the accepts and declines the gateway published
  inputs      \* inputs so far

vars == <<trips, creating, orphaned, msgs, outbox, dropped, accepting,
          completing, calls, online, open, answers, inputs>>
createVars == <<creating, orphaned>>
userVars == <<online, open, answers, inputs>>

----------------------------------------------------------------------------
(* Data *)

MaybeDriver == Drivers \cup {NoDriver}
Users == Riders \cup Drivers

\* "absent": the id is not allocated yet.
Status == {"absent", "pending", "accepted", "completed", "cancelled"}

Trip == [status : Status, driver : MaybeDriver]

\* A message: its routing key and the part of the payload a consumer reads.
Keys == {"created", "not_interested", "accept", "decline", "success",
         "trip_request", "no_drivers", "driver_assigned", "create_session",
         "completed_rider", "completed_driver", "cancelled"}
Message == [key : Keys, trip : Trips, driver : MaybeDriver, place : Places]

Msg(k, t, d, p) == [key |-> k, trip |-> t, driver |-> d, place |-> p]

TripEventCreated(t)        == Msg("created", t, NoDriver, Pickup[t])
DriverCmdTripAccept(t, d)  == Msg("accept", t, d, Zero)
DriverCmdTripDecline(t, d) == Msg("decline", t, d, Zero)
PaymentEventSuccess(t, d)  == Msg("success", t, d, Zero)
DriverCmdTripRequest(t, d) == Msg("trip_request", t, d, Zero)
TripEventNoDriversFound(t) == Msg("no_drivers", t, NoDriver, Zero)
TripEventDriverAssigned(t, d) == Msg("driver_assigned", t, d, Zero)
PaymentCmdCreateSession(t, d) == Msg("create_session", t, d, Zero)
CompletedForRider(t)       == Msg("completed_rider", t, NoDriver, Zero)
CompletedForDriver(t, d)   == Msg("completed_driver", t, d, Zero)
TripEventCancelled(t, d)   == Msg("cancelled", t, d, Zero)

\* The re-dispatch event carries the trip but neither PickupLat nor PickupLng,
\* which therefore have Go's zero value when driver-service decodes it.
TripEventDriverNotInterested(t) == Msg("not_interested", t, NoDriver, Zero)

\* A consumer that holds no message.
Idle == [pc |-> "idle"]

Accepting == [pc : {"reread", "assign", "bill"}, trip : Trips,
              driver : MaybeDriver, snap : MaybeDriver]
Completing == [pc : {"update", "rider", "driver"}, msg : Message,
               snap : MaybeDriver]
Cancelling == [pc : {"update", "publish"}, trip : Trips, by : Users,
               snap : MaybeDriver]

Init ==
  /\ trips = [t \in Trips |-> [status |-> "absent", driver |-> NoDriver]]
  /\ creating = {}
  /\ orphaned = {}
  /\ msgs = {}
  /\ outbox = {}
  /\ dropped = {}
  /\ accepting = Idle
  /\ completing = Idle
  /\ calls = {}
  /\ online = {}
  /\ open = {}
  /\ answers = {}
  /\ inputs = 0

\* One more thing a rider, a driver or Stripe does.
Input ==
  /\ inputs < MaxInputs
  /\ inputs' = inputs + 1

----------------------------------------------------------------------------
(* The repository *)

\* Mutant of Updated: a nil driver is written too.
UpdatedWithNil(t, s, d) == [status |-> s, driver |-> d]

\* The document UpdateTrip leaves: $set status, and driver unless it is nil.
Updated(t, s, d) ==
  [status |-> s, driver |-> IF d = NoDriver THEN trips[t].driver ELSE d]

\* UpdateTrip succeeds only when MongoDB reports a modified document: writing
\* the values the document already has is answered "trip not found".
CanUpdate(t, s, d) == Updated(t, s, d) # trips[t]

UpdateTrip(t, s, d) ==
  /\ CanUpdate(t, s, d)
  /\ trips' = [trips EXCEPT ![t] = Updated(t, s, d)]

----------------------------------------------------------------------------
(* Queues *)

\* The consumer acknowledges m after its handler returned nil.  A crash before
\* the acknowledgement, or a lost one, leaves m to be delivered again.
Ack(m) == {msgs \ {m}} \cup (IF m.key \in Repeatable THEN {msgs} ELSE {})

\* m is handled to the end by no consumer any more: every attempt failed, in
\* place and through the dead-letter queue, and the message is discarded.  An
\* accept that would write what the document already holds fails every time.
Drop(m) ==
  /\ m \in msgs
  /\ \/ MayFail
     \/ m.key = "accept" /\ ~CanUpdate(m.trip, "accepted", m.driver)
  /\ ~(accepting # Idle /\ m.key = "accept" /\ accepting.trip = m.trip
         /\ accepting.driver = m.driver)
  /\ ~(completing # Idle /\ completing.msg = m)
  /\ msgs' = msgs \ {m}
  /\ dropped' = dropped \cup {m.trip}
  /\ UNCHANGED <<trips, createVars, outbox, accepting, completing, calls,
                 userVars>>

----------------------------------------------------------------------------
(* trip-service: CreateTrip *)

\* The fare is valid; the trip document is inserted as pending, without driver.
CreateTrip(t) ==
  /\ trips[t].status = "absent"
  /\ trips' = [trips EXCEPT ![t] = [status |-> "pending", driver |-> NoDriver]]
  /\ creating' = creating \cup {t}
  /\ UNCHANGED <<orphaned, msgs, outbox, dropped, accepting, completing,
                 calls, userVars>>

PublishTripCreated(t) ==
  /\ t \in creating
  /\ creating' = creating \ {t}
  /\ msgs' = msgs \cup {TripEventCreated(t)}
  /\ UNCHANGED <<trips, orphaned, outbox, dropped, accepting, completing,
                 calls, userVars>>

\* The publish fails, or the process stops: the caller gets an error and the
\* inserted document stays.
CreateTripFails(t) ==
  /\ MayFail
  /\ t \in creating
  /\ creating' = creating \ {t}
  /\ orphaned' = orphaned \cup {t}
  /\ UNCHANGED <<trips, msgs, outbox, dropped, accepting, completing, calls,
                 userVars>>

----------------------------------------------------------------------------
(* driver-service: dispatch *)

\* GEO search around the cell, kept to the drivers with a live subscription.
\* A Redis error makes the whole result, or one driver, disappear from it.
FindAvailableDrivers(p) ==
  LET near == {d \in online : Position[d] = p}
  IN  IF MayFail THEN SUBSET near ELSE {near}

\* Mutant of handleAndNotifyDrivers: no event when no driver is found.
NotifyFoundOnly(m) ==
  /\ m \in msgs
  /\ m.key \in {"created", "not_interested"}
  /\ \E found \in FindAvailableDrivers(m.place) :
       \/ found = {} /\ UNCHANGED <<outbox, open>>
       \/ \E d \in found :
            /\ outbox' = outbox \cup {DriverCmdTripRequest(m.trip, d)}
            /\ open' = open \cup {<<m.trip, d>>}
  /\ msgs' \in Ack(m)
  /\ UNCHANGED <<trips, createVars, dropped, accepting, completing, calls,
                 online, answers, inputs>>

handleAndNotifyDrivers(m) ==
  /\ m \in msgs
  /\ m.key \in {"created", "not_interested"}
  /\ \E found \in FindAvailableDrivers(m.place) :
       \/ /\ found = {}
          /\ outbox' = outbox \cup {TripEventNoDriversFound(m.trip)}
          /\ UNCHANGED open
       \/ \E d \in found :
            /\ outbox' = outbox \cup {DriverCmdTripRequest(m.trip, d)}
            /\ open' = open \cup {<<m.trip, d>>}
  /\ msgs' \in Ack(m)
  /\ UNCHANGED <<trips, createVars, dropped, accepting, completing, calls,
                 online, answers, inputs>>

----------------------------------------------------------------------------
(* ws-gateway: the driver's socket *)

GoOnline(d) ==
  /\ Input
  /\ d \notin online
  /\ online' = online \cup {d}
  /\ UNCHANGED <<trips, createVars, msgs, outbox, dropped, accepting,
                 completing, calls, open, answers>>

GoOffline(d) ==
  /\ Input
  /\ d \in online
  /\ online' = online \ {d}
  /\ UNCHANGED <<trips, createVars, msgs, outbox, dropped, accepting,
                 completing, calls, open, answers>>

\* An accept or a decline that a driver's socket sends, late, twice, both ways
\* or for a trip the driver was never offered: the gateway publishes it without
\* a check, and only logs a publish that fails.  (Of an id that is no trip's the
\* consumers' handlers report an error and change nothing.)
DriverAnswers(t, d) ==
  /\ Input
  /\ d \in online
  /\ trips[t].status # "absent"
  /\ \/ /\ \E answer \in {DriverCmdTripAccept(t, d), DriverCmdTripDecline(t, d)} :
             /\ msgs' = msgs \cup {answer}
             /\ answers' = answers \cup {answer}
        /\ UNCHANGED dropped
     \/ /\ MayFail
        /\ dropped' = dropped \cup {t}
        /\ UNCHANGED <<msgs, answers>>
  /\ open' = open \ {<<t, d>>}
  /\ UNCHANGED <<trips, createVars, outbox, accepting, completing, calls,
                 online>>

----------------------------------------------------------------------------
(* trip-service: the driver-response consumer, one message at a time *)

\* Mutant of handleTripDeclined: the decline is acknowledged and no more.
DeclineIsFinal(m) ==
  /\ accepting = Idle
  /\ m \in msgs
  /\ m.key = "decline"
  /\ msgs' \in Ack(m)
  /\ UNCHANGED <<trips, createVars, outbox, dropped, accepting, completing,
                 calls, userVars>>

handleTripDeclined(m) ==
  /\ accepting = Idle
  /\ m \in msgs
  /\ m.key = "decline"
  /\ \E rest \in Ack(m) :
       msgs' = rest \cup {TripEventDriverNotInterested(m.trip)}
  /\ UNCHANGED <<trips, createVars, outbox, dropped, accepting, completing,
                 calls, userVars>>

\* Mutant of AcceptUpdate: the update does not attach the driver.
AcceptWithoutDriver(m) ==
  /\ accepting = Idle
  /\ m \in msgs
  /\ m.key = "accept"
  /\ UpdateTrip(m.trip, "accepted", NoDriver)
  /\ accepting' = [pc |-> "reread", trip |-> m.trip, driver |-> m.driver,
                   snap |-> NoDriver]
  /\ UNCHANGED <<createVars, msgs, outbox, dropped, completing, calls,
                 userVars>>

\* handleTripAccepted, steps 1 to 3: the trip is read only to see that it
\* exists, and updated whatever its status is.
AcceptUpdate(m) ==
  /\ accepting = Idle
  /\ m \in msgs
  /\ m.key = "accept"
  /\ UpdateTrip(m.trip, "accepted", m.driver)
  /\ accepting' = [pc |-> "reread", trip |-> m.trip, driver |-> m.driver,
                   snap |-> NoDriver]
  /\ UNCHANGED <<createVars, msgs, outbox, dropped, completing, calls,
                 userVars>>

\* The trip is read again for the event's payload.
AcceptReread ==
  /\ accepting # Idle
  /\ accepting.pc = "reread"
  /\ accepting' = [accepting EXCEPT !.pc = "assign",
                                    !.snap = trips[accepting.trip].driver]
  /\ UNCHANGED <<trips, createVars, msgs, outbox, dropped, completing, calls,
                 userVars>>

\* Mutant of AcceptPublishAssigned: the handler returns before step 5.
AssignedWithoutBill ==
  /\ accepting # Idle
  /\ accepting.pc = "assign"
  /\ outbox' = outbox \cup
                 {TripEventDriverAssigned(accepting.trip, accepting.snap)}
  /\ msgs' \in Ack(DriverCmdTripAccept(accepting.trip, accepting.driver))
  /\ accepting' = Idle
  /\ UNCHANGED <<trips, createVars, dropped, completing, calls, userVars>>

\* Step 4.
AcceptPublishAssigned ==
  /\ accepting # Idle
  /\ accepting.pc = "assign"
  /\ outbox' = outbox \cup
                 {TripEventDriverAssigned(accepting.trip, accepting.snap)}
  /\ accepting' = [accepting EXCEPT !.pc = "bill"]
  /\ UNCHANGED <<trips, createVars, msgs, dropped, completing, calls,
                 userVars>>

\* Step 5 and the acknowledgement.
AcceptPublishBill ==
  /\ accepting # Idle
  /\ accepting.pc = "bill"
  /\ outbox' = outbox \cup
                 {PaymentCmdCreateSession(accepting.trip, accepting.driver)}
  /\ msgs' \in Ack(DriverCmdTripAccept(accepting.trip, accepting.driver))
  /\ accepting' = Idle
  /\ UNCHANGED <<trips, createVars, dropped, completing, calls, userVars>>

\* A read or a publish fails, or the process stops: the message is still
\* unacknowledged and the handler starts again from its first line.
AcceptFails ==
  /\ MayFail
  /\ accepting # Idle
  /\ accepting' = Idle
  /\ UNCHANGED <<trips, createVars, msgs, outbox, dropped, completing, calls,
                 userVars>>

----------------------------------------------------------------------------
(* payment-service, Stripe and the webhook, by the promise that module       *)
(* PaymentContract states: a payment succeeds only for a session that was    *)
(* asked for, with the trip and driver of that request in its metadata.      *)

PaymentSucceeds(t, d) ==
  /\ Input
  /\ PaymentCmdCreateSession(t, d) \in outbox
  /\ msgs' = msgs \cup {PaymentEventSuccess(t, d)}
  /\ UNCHANGED <<trips, createVars, outbox, dropped, accepting, completing,
                 calls, online, open, answers>>

----------------------------------------------------------------------------
(* trip-service: the payment consumer, one message at a time *)

\* Mutant of CompleteRead: a trip that is already completed is acknowledged
\* without its events.
CompletedIsSkipped(m) ==
  /\ completing = Idle
  /\ m \in msgs
  /\ m.key = "success"
  /\ IF trips[m.trip].status = "completed"
     THEN msgs' = msgs \ {m} /\ UNCHANGED completing
     ELSE /\ completing' = [pc |-> "update", msg |-> m,
                            snap |-> trips[m.trip].driver]
          /\ UNCHANGED msgs
  /\ UNCHANGED <<trips, createVars, outbox, dropped, accepting, calls,
                 userVars>>

\* CompleteTrip reads the trip; a completed one is returned as it is.
CompleteRead(m) ==
  /\ completing = Idle
  /\ m \in msgs
  /\ m.key = "success"
  /\ completing' =
       [pc |-> IF trips[m.trip].status = "completed" THEN "rider" ELSE "update",
        msg |-> m, snap |-> trips[m.trip].driver]
  /\ UNCHANGED <<trips, createVars, msgs, outbox, dropped, accepting, calls,
                 userVars>>

\* Mutant of CompleteUpdate: every status but accepted is refused.
CompleteAcceptedOnly ==
  /\ completing # Idle
  /\ completing.pc = "update"
  /\ trips[completing.msg.trip].status = "accepted"
  /\ UpdateTrip(completing.msg.trip, "completed", NoDriver)
  /\ completing' = [completing EXCEPT !.pc = "rider"]
  /\ UNCHANGED <<createVars, msgs, outbox, dropped, accepting, calls,
                 userVars>>

CompleteUpdate ==
  /\ completing # Idle
  /\ completing.pc = "update"
  /\ UpdateTrip(completing.msg.trip, "completed", NoDriver)
  /\ completing' = [completing EXCEPT !.pc = "rider"]
  /\ UNCHANGED <<createVars, msgs, outbox, dropped, accepting, calls,
                 userVars>>

\* PublishTripCompleted, to the rider and, with a driver in the trip that was
\* read, to the driver.
CompletePublishRider ==
  /\ completing # Idle
  /\ completing.pc = "rider"
  /\ outbox' = outbox \cup {CompletedForRider(completing.msg.trip)}
  /\ IF completing.snap = NoDriver
     THEN completing' = Idle /\ msgs' \in Ack(completing.msg)
     ELSE completing' = [completing EXCEPT !.pc = "driver"] /\ UNCHANGED msgs
  /\ UNCHANGED <<trips, createVars, dropped, accepting, calls, userVars>>

CompletePublishDriver ==
  /\ completing # Idle
  /\ completing.pc = "driver"
  /\ outbox' = outbox \cup
                 {CompletedForDriver(completing.msg.trip, completing.snap)}
  /\ msgs' \in Ack(completing.msg)
  /\ completing' = Idle
  /\ UNCHANGED <<trips, createVars, dropped, accepting, calls, userVars>>

CompleteFails ==
  /\ MayFail
  /\ completing # Idle
  /\ completing' = Idle
  /\ UNCHANGED <<trips, createVars, msgs, outbox, dropped, accepting, calls,
                 userVars>>

----------------------------------------------------------------------------
(* trip-service: CancelTrip *)

\* The rider, and once the trip is accepted its driver too.
MayCancel(t, u) ==
  \/ u = Owner[t]
  \/ /\ trips[t].status = "accepted"
     /\ trips[t].driver # NoDriver
     /\ trips[t].driver = u

\* The trip is read and the requester checked; an already cancelled trip is
\* not written again, but its cancellation is published again.
CancelRead(t, u) ==
  /\ Input
  /\ trips[t].status # "absent"
  /\ MayCancel(t, u)
  /\ calls' = calls \cup
       {[pc |-> IF trips[t].status = "cancelled" THEN "publish" ELSE "update",
         trip |-> t, by |-> u, snap |-> trips[t].driver]}
  /\ UNCHANGED <<trips, createVars, msgs, outbox, dropped, accepting,
                 completing, online, open, answers>>

\* Mutant of CancelUpdate: the call returns without its event.
CancelWithoutEvent(c) ==
  /\ c.pc = "update"
  /\ UpdateTrip(c.trip, "cancelled", NoDriver)
  /\ calls' = calls \ {c}
  /\ UNCHANGED <<createVars, msgs, outbox, dropped, accepting, completing,
                 userVars>>

CancelUpdate(c) ==
  /\ c.pc = "update"
  /\ UpdateTrip(c.trip, "cancelled", NoDriver)
  /\ calls' = (calls \ {c}) \cup {[c EXCEPT !.pc = "publish"]}
  /\ UNCHANGED <<createVars, msgs, outbox, dropped, accepting, completing,
                 userVars>>

\* Another call cancelled the trip since it was read: this one answers an error.
CancelConflict(c) ==
  /\ c.pc = "update"
  /\ ~CanUpdate(c.trip, "cancelled", NoDriver)
  /\ calls' = calls \ {c}
  /\ UNCHANGED <<trips, createVars, msgs, outbox, dropped, accepting,
                 completing, userVars>>

\* The event names the driver of the trip as it was read.
PublishTripCancelled(c) ==
  /\ c.pc = "publish"
  /\ outbox' = outbox \cup {TripEventCancelled(c.trip, c.snap)}
  /\ calls' = calls \ {c}
  /\ UNCHANGED <<trips, createVars, msgs, dropped, accepting, completing,
                 userVars>>

\* The update fails and the caller is told, or the publish fails and the call
\* succeeds all the same, or the process stops.
CancelFails(c) ==
  /\ MayFail
  /\ calls' = calls \ {c}
  /\ UNCHANGED <<trips, createVars, msgs, outbox, dropped, accepting,
                 completing, userVars>>

----------------------------------------------------------------------------

Next ==
  \/ \E t \in Trips : CreateTrip(t) \/ PublishTripCreated(t) \/ CreateTripFails(t)
  \/ \E m \in msgs : handleAndNotifyDrivers(m) \/ handleTripDeclined(m)
                       \/ AcceptUpdate(m) \/ CompleteRead(m) \/ Drop(m)
  \/ \E d \in Drivers : GoOnline(d) \/ GoOffline(d)
  \/ \E t \in Trips, d \in Drivers : DriverAnswers(t, d) \/ PaymentSucceeds(t, d)
  \/ AcceptReread \/ AcceptPublishAssigned \/ AcceptPublishBill \/ AcceptFails
  \/ CompleteUpdate \/ CompletePublishRider \/ CompletePublishDriver
  \/ CompleteFails
  \/ \E t \in Trips, u \in Users : CancelRead(t, u)
  \/ \E c \in calls : CancelUpdate(c) \/ CancelConflict(c)
                        \/ PublishTripCancelled(c) \/ CancelFails(c)

Spec == Init /\ [][Next]_vars

\* Each queue is first in, first out and has one consumer goroutine that runs
\* its handler to the end, so a message at the head is handled however often
\* others arrive.  Riders, drivers and Stripe owe nothing.
Fairness ==
  /\ \A t \in Trips :
       /\ WF_vars(PublishTripCreated(t))
       /\ WF_vars(handleAndNotifyDrivers(TripEventCreated(t)))
       /\ \A d \in Drivers :
            /\ SF_vars(AcceptUpdate(DriverCmdTripAccept(t, d)))
            /\ SF_vars(CompleteRead(PaymentEventSuccess(t, d)))
  /\ WF_vars(AcceptReread \/ AcceptPublishAssigned \/ AcceptPublishBill)
  /\ WF_vars(CompleteUpdate \/ CompletePublishRider \/ CompletePublishDriver)

FairSpec == Spec /\ Fairness

----------------------------------------------------------------------------
(* Properties *)

Offered(t, d) == DriverCmdTripRequest(t, d) \in outbox
Assigned(t, d) == TripEventDriverAssigned(t, d) \in outbox
Billed(t, d) == PaymentCmdCreateSession(t, d) \in outbox
Accepted(t, d) == DriverCmdTripAccept(t, d) \in answers
Declined(t, d) == DriverCmdTripDecline(t, d) \in answers

\* Every variable has its type.
TypeOK ==
  /\ trips \in [Trips -> Trip]
  /\ creating \subseteq Trips
  /\ orphaned \subseteq Trips
  /\ msgs \subseteq Message
  /\ outbox \subseteq Message
  /\ dropped \subseteq Trips
  /\ accepting \in {Idle} \cup Accepting
  /\ completing \in {Idle} \cup Completing
  /\ calls \subseteq Cancelling
  /\ online \subseteq Drivers
  /\ open \subseteq Trips \X Drivers
  /\ answers \subseteq Message
  /\ inputs \in Nat

\* Whoever is recorded as the driver of a trip, or named to its rider in a
\* driver-assigned event (built from a second read of the document, which other
\* handlers may have changed in between), has accepted that trip; an accepted or
\* completed trip has a driver.  (Nothing in the code asks that the driver was
\* offered the trip.)
DriverHasAccepted ==
  \A t \in Trips :
    /\ trips[t].driver # NoDriver => Accepted(t, trips[t].driver)
    /\ trips[t].status \in {"accepted", "completed"}
         => trips[t].driver # NoDriver
    /\ \A d \in MaybeDriver : Assigned(t, d) => d # NoDriver /\ Accepted(t, d)

\* An accept is carried through: it is still to be (re)handled, or the rider was
\* asked to pay for that driver, or it was given up.  And nobody is asked to pay
\* for a driver who did not accept, or of whom the rider was not told first,
\* whatever fails or comes in between the handler's update, its second read and
\* its two publishes.
AcceptIsPursued ==
  \A t \in Trips, d \in Drivers :
    /\ Accepted(t, d) =>
         \/ DriverCmdTripAccept(t, d) \in msgs
         \/ Billed(t, d)
         \/ t \in dropped
    /\ Billed(t, d) => Accepted(t, d) /\ Assigned(t, d)

\* The trip that PublishTripCompleted is given, read before the update, has a
\* driver, so the driver's half of the notification is never skipped.
CompletionKnowsDriver ==
  completing # Idle => completing.snap # NoDriver

\* No pending trip is forgotten: it is being created, waits in a queue of the
\* dispatch cycle, is on the screen of a driver who has not answered, its
\* rider was told that there is no driver, its CreateTrip call was answered
\* with an error, or one of its messages was given up.
PendingIsPursued ==
  \A t \in Trips :
    trips[t].status = "pending" =>
      \/ t \in creating \cup orphaned \cup dropped
      \/ \E m \in msgs : m.trip = t /\ m.key # "success"
      \/ \E d \in Drivers : <<t, d>> \in open
      \/ TripEventNoDriversFound(t) \in outbox

\* A completed trip is announced to its rider, or the payment message that
\* completed it is still to be (re)handled, or was given up: the idempotent
\* CompleteTrip lets a retry publish what a failed attempt did not.
CompletedIsAnnounced ==
  \A t \in Trips :
    trips[t].status = "completed" =>
      \/ CompletedForRider(t) \in outbox
      \/ \E m \in msgs : m.key = "success" /\ m.trip = t
      \/ t \in dropped

\* Without failures, a cancelled trip is announced, or a call is about to do
\* so.  (A publish that fails is only logged, and the event is missed.)
CancelledIsAnnounced ==
  \A t \in Trips :
    trips[t].status = "cancelled" =>
      \/ \E d \in MaybeDriver : TripEventCancelled(t, d) \in outbox
      \/ \E c \in calls : c.trip = t /\ c.pc = "publish"

\* Only a call of the rider, or of a driver who accepted the trip, can be about
\* to cancel it.
CancelledByParty ==
  \A c \in calls :
    c.by # Owner[c.trip] => c.by \in Drivers /\ Accepted(c.trip, c.by)

\* What makes the invariants above inductive.  An answer in a queue of this
\* module was published by the gateway, a payment was asked for; a consumer in
\* the middle of a handler still owes what its message says, and nobody else has
\* changed the driver that handler wrote.
QueuedIsJustified ==
  \A m \in msgs :
    /\ m.key = "accept" => /\ m.driver \in Drivers
                           /\ m = DriverCmdTripAccept(m.trip, m.driver)
                           /\ Accepted(m.trip, m.driver)
    /\ m.key = "success" => m.driver \in Drivers /\ Billed(m.trip, m.driver)

BilledHasDriver ==
  \A t \in Trips :
    /\ trips[t].status \in {"absent", "pending"} => trips[t].driver = NoDriver
    /\ \A d \in Drivers : Billed(t, d) => trips[t].driver # NoDriver

AcceptingIsJustified ==
  accepting # Idle =>
    /\ accepting.driver \in Drivers
    /\ DriverCmdTripAccept(accepting.trip, accepting.driver) \in msgs
    /\ trips[accepting.trip].driver = accepting.driver
    /\ accepting.pc # "reread" => accepting.snap = accepting.driver
    /\ accepting.pc = "bill" => Assigned(accepting.trip, accepting.driver)

CompletingIsJustified ==
  completing # Idle =>
    /\ completing.msg \in msgs
    /\ completing.msg.key = "success"
    /\ completing.pc = "driver" => CompletedForRider(completing.msg.trip) \in outbox

IndInv ==
  /\ TypeOK
  /\ DriverHasAccepted
  /\ AcceptIsPursued
  /\ CompletionKnowsDriver
  /\ PendingIsPursued
  /\ CompletedIsAnnounced
  /\ CancelledByParty
  /\ QueuedIsJustified
  /\ BilledHasDriver
  /\ AcceptingIsJustified
  /\ CompletingIsJustified

\* Without failures, a trip being created is offered to a driver or its rider
\* is told that there is none.
DispatchProgress ==
  \A t \in Trips :
    t \in creating ~> \/ \E d \in Drivers : Offered(t, d)
                     \/ TripEventNoDriversFound(t) \in outbox

\* Without failures, a driver's accept leads to the payment command for that
\* driver, whatever cancellations, payments and accepts of other drivers come in
\* between.
AcceptProgress ==
  \A t \in Trips, d \in Drivers :
    DriverCmdTripAccept(t, d) \in msgs ~> Billed(t, d)

\* Without failures, a payment leads to the rider's completed event.
PaymentProgress ==
  \A t \in Trips, d \in Drivers :
    PaymentEventSuccess(t, d) \in msgs ~> CompletedForRider(t) \in outbox

----------------------------------------------------------------------------
(* What the repository says and the code does not do *)

\* "When a driver declines, we should try to find another driver": once drivers
\* who were offered the trip have declined it, the rider is told that there are
\* no drivers only when every driver online near the pickup has declined.
NoDriversMeansNone ==
  [][\A t \in Trips :
       /\ TripEventNoDriversFound(t) \in (outbox' \ outbox)
       /\ \E d \in Drivers : Declined(t, d)
       /\ \A d \in Drivers : Declined(t, d) => Offered(t, d)
       => \A d \in online : Position[d] = Pickup[t] => Declined(t, d)]_vars
=============================================================================
