------------------------ MODULE TripLifecycleProofs ------------------------
(***************************************************************************)
(* The safety invariants of TripLifecycle hold for any number of trips,    *)
(* riders, drivers and inputs, with and without failures and redeliveries. *)
(***************************************************************************)
EXTENDS TripLifecycle, TLAPS

\* A message built from a key, a trip, a driver and a cell is a Message.
LEMMA MsgType ==
  ASSUME NEW k \in Keys, NEW t \in Trips, NEW d \in MaybeDriver,
         NEW p \in Places
  PROVE  Msg(k, t, d, p) \in Message
BY DEF Msg, Message

\* Every message the actions publish is a Message.
LEMMA PublishedType ==
  ASSUME NEW t \in Trips, NEW d \in MaybeDriver
  PROVE  /\ TripEventCreated(t) \in Message
         /\ TripEventDriverNotInterested(t) \in Message
         /\ DriverCmdTripAccept(t, d) \in Message
         /\ DriverCmdTripDecline(t, d) \in Message
         /\ PaymentEventSuccess(t, d) \in Message
         /\ DriverCmdTripRequest(t, d) \in Message
         /\ TripEventNoDriversFound(t) \in Message
         /\ TripEventDriverAssigned(t, d) \in Message
         /\ PaymentCmdCreateSession(t, d) \in Message
         /\ CompletedForRider(t) \in Message
         /\ CompletedForDriver(t, d) \in Message
         /\ TripEventCancelled(t, d) \in Message
<1>1. NoDriver \in MaybeDriver /\ Zero \in Places /\ Pickup[t] \in Places
  BY ConstantsAssumption DEF MaybeDriver
<1>2. QED
  BY <1>1, MsgType DEF Keys, TripEventCreated, TripEventDriverNotInterested,
     DriverCmdTripAccept, DriverCmdTripDecline, PaymentEventSuccess,
     DriverCmdTripRequest, TripEventNoDriversFound, TripEventDriverAssigned,
     PaymentCmdCreateSession, CompletedForRider, CompletedForDriver,
     TripEventCancelled

\* UpdateTrip keeps the collection well typed.
LEMMA UpdateTripType ==
  ASSUME TypeOK, NEW t \in Trips, NEW s \in Status, NEW d \in MaybeDriver,
         UpdateTrip(t, s, d)
  PROVE  trips' \in [Trips -> Trip]
BY DEF TypeOK, UpdateTrip, Updated, Trip

\* An acknowledgement leaves a part of the queue.
LEMMA AckSubset ==
  ASSUME NEW m, NEW q \in Ack(m)
  PROVE  q \subseteq msgs /\ msgs \ {m} \subseteq q
BY DEF Ack

\* Init gives every variable its type.
LEMMA InitTypeOK == Init => TypeOK
BY ConstantsAssumption DEF Init, TypeOK, Trip, Status, MaybeDriver, Message

\* Every step keeps every variable in its type.
LEMMA NextTypeOK == TypeOK /\ [Next]_vars => TypeOK'
<1> SUFFICES ASSUME TypeOK, [Next]_vars PROVE TypeOK'
  OBVIOUS
<1>a. NoDriver \in MaybeDriver /\ Drivers \subseteq MaybeDriver
  BY DEF MaybeDriver
<1>1. ASSUME NEW t \in Trips, CreateTrip(t) PROVE TypeOK'
  BY <1>1, <1>a DEF TypeOK, CreateTrip, createVars, userVars, Trip, Status
<1>2. ASSUME NEW t \in Trips, PublishTripCreated(t) PROVE TypeOK'
  BY <1>2, PublishedType, <1>a DEF TypeOK, PublishTripCreated, userVars
<1>3. ASSUME NEW t \in Trips, CreateTripFails(t) PROVE TypeOK'
  BY <1>3 DEF TypeOK, CreateTripFails, userVars
<1>4. ASSUME NEW m \in msgs, handleAndNotifyDrivers(m) PROVE TypeOK'
  <2>1. m.trip \in Trips
    BY DEF TypeOK, Message
  <2>2. PICK found \in FindAvailableDrivers(m.place) :
          \/ outbox' = outbox \cup {TripEventNoDriversFound(m.trip)} /\ open' = open
          \/ \E d \in found :
               /\ outbox' = outbox \cup {DriverCmdTripRequest(m.trip, d)}
               /\ open' = open \cup {<<m.trip, d>>}
    BY <1>4 DEF handleAndNotifyDrivers
  <2>3. found \subseteq Drivers
    BY DEF FindAvailableDrivers, TypeOK
  <2>4. outbox' \subseteq Message /\ open' \subseteq Trips \X Drivers
    BY <2>1, <2>2, <2>3, <1>a, PublishedType DEF TypeOK
  <2>5. msgs' \subseteq Message
    BY <1>4, AckSubset DEF handleAndNotifyDrivers, TypeOK
  <2>6. QED
    BY <1>4, <2>4, <2>5 DEF handleAndNotifyDrivers, TypeOK, createVars
<1>5. ASSUME NEW m \in msgs, handleTripDeclined(m) PROVE TypeOK'
  <2>1. m.trip \in Trips
    BY DEF TypeOK, Message
  <2>2. msgs' \subseteq Message
    BY <1>5, <2>1, <1>a, AckSubset, PublishedType DEF handleTripDeclined, TypeOK
  <2>3. QED
    BY <1>5, <2>2 DEF handleTripDeclined, TypeOK, createVars, userVars
<1>6. ASSUME NEW m \in msgs, AcceptUpdate(m) PROVE TypeOK'
  <2>1. m.trip \in Trips /\ m.driver \in MaybeDriver
    BY DEF TypeOK, Message
  <2>2. trips' \in [Trips -> Trip]
    BY <1>6, <2>1, UpdateTripType DEF AcceptUpdate, Status
  <2>3. QED
    BY <1>6, <2>1, <2>2, <1>a
       DEF AcceptUpdate, TypeOK, createVars, userVars, Accepting
<1>7. CASE AcceptReread
  <2>1. accepting \in Accepting
    BY <1>7 DEF AcceptReread, TypeOK
  <2>2. accepting' \in Accepting
    BY <1>7, <2>1 DEF AcceptReread, Accepting, TypeOK, Trip
  <2>3. QED
    BY <1>7, <2>2 DEF AcceptReread, TypeOK, createVars, userVars
<1>8. CASE AcceptPublishAssigned
  <2>1. accepting \in Accepting
    BY <1>8 DEF AcceptPublishAssigned, TypeOK
  <2>2. /\ accepting' \in Accepting
        /\ outbox' \subseteq Message
    BY <1>8, <2>1, PublishedType DEF AcceptPublishAssigned, Accepting, TypeOK
  <2>3. QED
    BY <1>8, <2>2 DEF AcceptPublishAssigned, TypeOK, createVars, userVars
<1>9. CASE AcceptPublishBill
  <2>1. accepting \in Accepting
    BY <1>9 DEF AcceptPublishBill, TypeOK
  <2>2. outbox' \subseteq Message
    BY <1>9, <2>1, <1>a, PublishedType
       DEF AcceptPublishBill, Accepting, TypeOK
  <2>3. msgs' \subseteq Message
    BY <1>9, AckSubset DEF AcceptPublishBill, TypeOK
  <2>4. QED
    BY <1>9, <2>2, <2>3 DEF AcceptPublishBill, TypeOK, createVars, userVars
<1>10. CASE AcceptFails
  BY <1>10 DEF AcceptFails, TypeOK, createVars, userVars
<1>11. ASSUME NEW m \in msgs, CompleteRead(m) PROVE TypeOK'
  <2>1. m \in Message /\ m.trip \in Trips
    BY DEF TypeOK, Message
  <2>2. completing' \in Completing
    BY <1>11, <2>1 DEF CompleteRead, Completing, TypeOK, Trip
  <2>3. QED
    BY <1>11, <2>2 DEF CompleteRead, TypeOK, createVars, userVars
<1>12. CASE CompleteUpdate
  <2>1. completing \in Completing
    BY <1>12 DEF CompleteUpdate, TypeOK
  <2>2. completing.msg.trip \in Trips
    BY <2>1 DEF Completing, Message
  <2>3. trips' \in [Trips -> Trip]
    BY <1>12, <2>2, <1>a, UpdateTripType DEF CompleteUpdate, Status
  <2>4. completing' \in Completing
    BY <1>12, <2>1 DEF CompleteUpdate, Completing
  <2>5. QED
    BY <1>12, <2>3, <2>4 DEF CompleteUpdate, TypeOK, createVars, userVars
<1>13. CASE CompletePublishRider
  <2>1. completing \in Completing
    BY <1>13 DEF CompletePublishRider, TypeOK
  <2>2. completing.msg.trip \in Trips
    BY <2>1 DEF Completing, Message
  <2>3. outbox' \subseteq Message
    BY <1>13, <2>2, <1>a, PublishedType DEF CompletePublishRider, TypeOK
  <2>4. msgs' \subseteq Message /\ completing' \in {Idle} \cup Completing
    BY <1>13, <2>1, AckSubset DEF CompletePublishRider, Completing, TypeOK
  <2>5. QED
    BY <1>13, <2>3, <2>4 DEF CompletePublishRider, TypeOK, createVars, userVars
<1>14. CASE CompletePublishDriver
  <2>1. completing \in Completing
    BY <1>14 DEF CompletePublishDriver, TypeOK
  <2>2. completing.msg.trip \in Trips /\ completing.snap \in MaybeDriver
    BY <2>1 DEF Completing, Message
  <2>3. outbox' \subseteq Message
    BY <1>14, <2>2, PublishedType DEF CompletePublishDriver, TypeOK
  <2>4. msgs' \subseteq Message
    BY <1>14, AckSubset DEF CompletePublishDriver, TypeOK
  <2>5. QED
    BY <1>14, <2>3, <2>4 DEF CompletePublishDriver, TypeOK, createVars, userVars
<1>15. CASE CompleteFails
  BY <1>15 DEF CompleteFails, TypeOK, createVars, userVars
<1>16. ASSUME NEW t \in Trips, NEW d \in Drivers, DriverAnswers(t, d)
       PROVE  TypeOK'
  <2>1. /\ msgs' \subseteq Message /\ answers' \subseteq Message
        /\ dropped' \subseteq Trips /\ inputs' \in Nat
    BY <1>16, <1>a, PublishedType DEF DriverAnswers, Input, TypeOK
  <2>2. QED
    BY <1>16, <2>1 DEF DriverAnswers, TypeOK, createVars
<1>17. ASSUME NEW t \in Trips, NEW d \in Drivers, PaymentSucceeds(t, d)
       PROVE  TypeOK'
  <2>1. msgs' \subseteq Message /\ inputs' \in Nat
    BY <1>17, <1>a, PublishedType DEF PaymentSucceeds, Input, TypeOK
  <2>2. QED
    BY <1>17, <2>1 DEF PaymentSucceeds, TypeOK, createVars
<1>18. ASSUME NEW d \in Drivers, GoOnline(d) \/ GoOffline(d) PROVE TypeOK'
  BY <1>18 DEF GoOnline, GoOffline, Input, TypeOK, createVars
<1>19. ASSUME NEW t \in Trips, NEW u \in Users, CancelRead(t, u)
       PROVE  TypeOK'
  <2>1. calls' \subseteq Cancelling /\ inputs' \in Nat
    BY <1>19 DEF CancelRead, Cancelling, Input, TypeOK, Trip
  <2>2. QED
    BY <1>19, <2>1 DEF CancelRead, TypeOK, createVars
<1>20. ASSUME NEW c \in calls, CancelUpdate(c) PROVE TypeOK'
  <2>1. c \in Cancelling
    BY DEF TypeOK
  <2>2. trips' \in [Trips -> Trip]
    BY <1>20, <2>1, <1>a, UpdateTripType DEF CancelUpdate, Status, Cancelling
  <2>3. calls' \subseteq Cancelling
    BY <1>20, <2>1 DEF CancelUpdate, Cancelling, TypeOK
  <2>4. QED
    BY <1>20, <2>2, <2>3 DEF CancelUpdate, TypeOK, createVars, userVars
<1>21. ASSUME NEW c \in calls, CancelConflict(c) \/ CancelFails(c)
       PROVE  TypeOK'
  BY <1>21 DEF CancelConflict, CancelFails, TypeOK, createVars, userVars
<1>22. ASSUME NEW c \in calls, PublishTripCancelled(c) PROVE TypeOK'
  <2>1. c.trip \in Trips /\ c.snap \in MaybeDriver
    BY DEF TypeOK, Cancelling
  <2>2. outbox' \subseteq Message
    BY <1>22, <2>1, PublishedType DEF PublishTripCancelled, TypeOK
  <2>3. QED
    BY <1>22, <2>2 DEF PublishTripCancelled, TypeOK, createVars, userVars
<1>23. ASSUME NEW m \in msgs, Drop(m) PROVE TypeOK'
  <2>1. m.trip \in Trips
    BY DEF TypeOK, Message
  <2>2. QED
    BY <1>23, <2>1 DEF Drop, TypeOK, createVars, userVars
<1>24. CASE UNCHANGED vars
  BY <1>24 DEF vars, TypeOK
<1>25. QED
  BY <1>1, <1>2, <1>3, <1>4, <1>5, <1>6, <1>7, <1>8, <1>9, <1>10, <1>11, <1>12,
     <1>13, <1>14, <1>15, <1>16, <1>17, <1>18, <1>19, <1>20, <1>21, <1>22,
     <1>23, <1>24 DEF Next

\* Every variable of the specification always has its type.
THEOREM TypeCorrect == Spec => []TypeOK
BY InitTypeOK, NextTypeOK, PTL DEF Spec

----------------------------------------------------------------------------
(* When a part of the invariant survives a step *)

\* No document changes its status or driver, no answer is forgotten and no
\* assignment or payment is published.
LEMMA OfferFrame ==
  ASSUME IndInv, trips' = trips, outbox \subseteq outbox',
         answers \subseteq answers',
         \A m \in outbox' :
           m \in outbox \/ m.key \notin {"driver_assigned", "create_session"}
  PROVE  DriverHasAccepted' /\ BilledHasDriver'
<1>1. \A t, d : /\ Accepted(t, d) => Accepted(t, d)'
                /\ Billed(t, d)' <=> Billed(t, d)
                /\ Assigned(t, d)' => Assigned(t, d)
  BY DEF Accepted, Billed, Assigned, PaymentCmdCreateSession,
     TripEventDriverAssigned, Msg
<1>2. QED
  BY <1>1 DEF IndInv, DriverHasAccepted, BilledHasDriver

\* No accept is new, none goes away, and no payment is asked for.
LEMMA AcceptFrame ==
  ASSUME IndInv, outbox \subseteq outbox', answers' = answers,
         dropped \subseteq dropped',
         \A m \in outbox' : m \in outbox \/ m.key # "create_session",
         \A m \in msgs : m.key = "accept" => m \in msgs'
  PROVE  AcceptIsPursued'
<1>1. \A t, d : /\ Accepted(t, d)' <=> Accepted(t, d)
                /\ Billed(t, d)' <=> Billed(t, d)
                /\ Assigned(t, d) => Assigned(t, d)'
                /\ DriverCmdTripAccept(t, d)' = DriverCmdTripAccept(t, d)
                /\ DriverCmdTripAccept(t, d).key = "accept"
  BY DEF Accepted, Billed, Assigned, PaymentCmdCreateSession,
     TripEventDriverAssigned, DriverCmdTripAccept, Msg
<1>2. QED
  BY <1>1 DEF IndInv, AcceptIsPursued

\* Only dispatch messages are added to the queues.
LEMMA QueueFrame ==
  ASSUME IndInv, outbox \subseteq outbox', answers \subseteq answers',
         \A m \in msgs' : m \in msgs \/ m.key \in {"created", "not_interested"}
  PROVE  QueuedIsJustified'
BY DEF IndInv, QueuedIsJustified, Accepted, Billed, DriverCmdTripAccept, Msg

\* The accept in progress keeps its message, or stops, and no document changes
\* its driver.
LEMMA AcceptingFrame ==
  ASSUME IndInv, outbox \subseteq outbox',
         \/ accepting' = Idle
         \/ /\ accepting' = accepting
            /\ \A m \in msgs : m.key = "accept" => m \in msgs'
         \/ /\ accepting' = accepting
            /\ accepting # Idle =>
                 DriverCmdTripAccept(accepting.trip, accepting.driver) \in msgs',
         \A t \in Trips : trips'[t].driver = trips[t].driver
  PROVE  AcceptingIsJustified'
<1> SUFFICES ASSUME accepting' = accepting, accepting # Idle
             PROVE  AcceptingIsJustified'
  BY DEF AcceptingIsJustified
<1>1. accepting.trip \in Trips
  BY DEF IndInv, TypeOK, Accepting
<1>2. DriverCmdTripAccept(accepting.trip, accepting.driver) \in msgs'
  BY DEF IndInv, AcceptingIsJustified, DriverCmdTripAccept, Msg
<1>3. QED
  BY <1>1, <1>2 DEF IndInv, AcceptingIsJustified, Assigned,
     TripEventDriverAssigned, DriverCmdTripAccept, Msg

\* The completion in progress keeps its message, or stops.
LEMMA CompletingFrame ==
  ASSUME IndInv, outbox \subseteq outbox',
         \/ completing' = Idle
         \/ completing' = completing /\ completing.msg \in msgs'
         \/ completing' = completing /\ msgs \subseteq msgs'
  PROVE  CompletionKnowsDriver' /\ CompletingIsJustified'
BY DEF IndInv, CompletionKnowsDriver, CompletingIsJustified

\* Calls only end.
LEMMA CallsFrame ==
  ASSUME IndInv, calls' \subseteq calls, answers \subseteq answers'
  PROVE  CancelledByParty'
BY DEF IndInv, CancelledByParty, Accepted

\* No trip becomes pending and nothing that pursues one goes away.
LEMMA PursuitFrame ==
  ASSUME IndInv, outbox \subseteq outbox', open \subseteq open',
         creating \cup orphaned \cup dropped
           \subseteq creating' \cup orphaned' \cup dropped',
         \A t \in Trips : trips'[t].status = "pending"
                            => trips[t].status = "pending",
         \A m \in msgs : m.key # "success" => m \in msgs'
  PROVE  PendingIsPursued'
<1> SUFFICES ASSUME NEW t \in Trips, trips'[t].status = "pending"
             PROVE  \/ t \in creating' \cup orphaned' \cup dropped'
                    \/ \E m \in msgs' : m.trip = t /\ m.key # "success"
                    \/ \E d \in Drivers : <<t, d>> \in open'
                    \/ TripEventNoDriversFound(t) \in outbox'
  BY DEF PendingIsPursued, TripEventNoDriversFound, Msg
<1>1. \/ t \in creating \cup orphaned \cup dropped
      \/ \E m \in msgs : m.trip = t /\ m.key # "success"
      \/ \E d \in Drivers : <<t, d>> \in open
      \/ TripEventNoDriversFound(t) \in outbox
  BY DEF IndInv, PendingIsPursued
<1>2. QED
  BY <1>1

\* No trip becomes completed and no payment message goes away.
LEMMA AnnouncedFrame ==
  ASSUME IndInv, outbox \subseteq outbox', dropped \subseteq dropped',
         \A t \in Trips : trips'[t].status = "completed"
                            => trips[t].status = "completed",
         \A m \in msgs : m.key = "success" => m \in msgs'
  PROVE  CompletedIsAnnounced'
BY DEF IndInv, CompletedIsAnnounced, CompletedForRider, Msg

----------------------------------------------------------------------------
(* The invariant is inductive *)

\* The empty system satisfies the invariant.
LEMMA InitIndInv == Init => IndInv
<1> SUFFICES ASSUME Init PROVE IndInv
  OBVIOUS
<1>1. TypeOK
  BY InitTypeOK
<1>2. QED
  BY <1>1 DEF Init, IndInv, DriverHasAccepted, AcceptIsPursued,
     CompletionKnowsDriver, PendingIsPursued, CompletedIsAnnounced,
     CancelledByParty, QueuedIsJustified, BilledHasDriver,
     AcceptingIsJustified, CompletingIsJustified, Accepted, Assigned, Billed

\* CreateTrip and its publish.
LEMMA CreateStep ==
  ASSUME IndInv, TypeOK', NEW t \in Trips,
         CreateTrip(t) \/ PublishTripCreated(t) \/ CreateTripFails(t)
  PROVE  IndInv'
<1>1. CASE CreateTrip(t)
  <2>1. /\ UNCHANGED <<orphaned, msgs, outbox, dropped, accepting, completing,
                       calls, open, answers>>
        /\ creating' = creating \cup {t}
        /\ trips[t].status = "absent"
    BY <1>1 DEF CreateTrip, userVars
  <2>2. /\ trips'[t] = [status |-> "pending", driver |-> NoDriver]
        /\ \A u \in Trips : u # t => trips'[u] = trips[u]
    BY <1>1 DEF CreateTrip, IndInv, TypeOK
  <2>3. \A u \in Trips : trips'[u].driver = trips[u].driver
    BY <2>1, <2>2 DEF IndInv, BilledHasDriver
  <2>4. DriverHasAccepted' /\ BilledHasDriver'
    BY <2>1, <2>2, <2>3 DEF IndInv, DriverHasAccepted, BilledHasDriver,
       Accepted, Assigned, Billed
  <2>5. PendingIsPursued'
    BY <2>1, <2>2 DEF IndInv, PendingIsPursued
  <2>6. CompletedIsAnnounced'
    BY <2>1, <2>2, AnnouncedFrame
  <2>7. QED
    BY <2>1, <2>3, <2>4, <2>5, <2>6, AcceptFrame, QueueFrame, AcceptingFrame,
       CompletingFrame, CallsFrame DEF IndInv
<1>2. CASE PublishTripCreated(t)
  <2>1. /\ UNCHANGED <<trips, orphaned, outbox, dropped, accepting, completing,
                       calls, open, answers>>
        /\ creating' = creating \ {t}
        /\ msgs' = msgs \cup {TripEventCreated(t)}
    BY <1>2 DEF PublishTripCreated, userVars
  <2>2. TripEventCreated(t).key = "created" /\ TripEventCreated(t).trip = t
    BY DEF TripEventCreated, Msg
  <2>3. PendingIsPursued'
    BY <2>1, <2>2 DEF IndInv, PendingIsPursued
  <2>4. CompletedIsAnnounced'
    BY <2>1, AnnouncedFrame
  <2>5. QED
    BY <2>1, <2>2, <2>3, <2>4, OfferFrame, AcceptFrame, QueueFrame, AcceptingFrame,
       CompletingFrame, CallsFrame DEF IndInv
<1>3. CASE CreateTripFails(t)
  <2>1. /\ UNCHANGED <<trips, msgs, outbox, dropped, accepting, completing,
                       calls, open, answers>>
        /\ creating' = creating \ {t}
        /\ orphaned' = orphaned \cup {t}
    BY <1>3 DEF CreateTripFails, userVars
  <2>2. PendingIsPursued' /\ CompletedIsAnnounced'
    BY <2>1, PursuitFrame, AnnouncedFrame
  <2>3. QED
    BY <2>1, <2>2, OfferFrame, AcceptFrame, QueueFrame, AcceptingFrame, CompletingFrame,
       CallsFrame DEF IndInv
<1>4. QED
  BY <1>1, <1>2, <1>3

\* Dispatch: the message handled is replaced by an open request or by the
\* answer that there is no driver.
LEMMA DispatchStep ==
  ASSUME IndInv, TypeOK', NEW m \in msgs, handleAndNotifyDrivers(m)
  PROVE  IndInv'
<1>1. /\ UNCHANGED <<trips, creating, orphaned, dropped, accepting, completing,
                     calls, answers>>
      /\ m.key \in {"created", "not_interested"}
      /\ msgs' \subseteq msgs /\ msgs \ {m} \subseteq msgs'
  BY AckSubset DEF handleAndNotifyDrivers, createVars
<1>2. m.trip \in Trips
  BY DEF IndInv, TypeOK, Message
<1>3. \/ outbox' = outbox \cup {TripEventNoDriversFound(m.trip)} /\ open' = open
      \/ \E d \in Drivers :
           /\ outbox' = outbox \cup {DriverCmdTripRequest(m.trip, d)}
           /\ open' = open \cup {<<m.trip, d>>}
  BY DEF handleAndNotifyDrivers, FindAvailableDrivers, IndInv, TypeOK
<1>4. /\ outbox \subseteq outbox' /\ open \subseteq open'
      /\ \A x \in outbox' : x \in outbox
                              \/ x.key \in {"no_drivers", "trip_request"}
  BY <1>3 DEF TripEventNoDriversFound, DriverCmdTripRequest, Msg
<1>5. \/ TripEventNoDriversFound(m.trip) \in outbox'
      \/ \E d \in Drivers : <<m.trip, d>> \in open'
  BY <1>3
<1>6. PendingIsPursued'
  <2> SUFFICES ASSUME NEW t \in Trips, trips[t].status = "pending"
               PROVE  \/ t \in creating \cup orphaned \cup dropped
                      \/ \E x \in msgs' : x.trip = t /\ x.key # "success"
                      \/ \E d \in Drivers : <<t, d>> \in open'
                      \/ TripEventNoDriversFound(t) \in outbox'
    BY <1>1 DEF PendingIsPursued, TripEventNoDriversFound, Msg
  <2>1. CASE t = m.trip
    BY <2>1, <1>5
  <2>2. CASE t # m.trip
    <3>1. \/ t \in creating \cup orphaned \cup dropped
          \/ \E x \in msgs : x.trip = t /\ x.key # "success"
          \/ \E d \in Drivers : <<t, d>> \in open
          \/ TripEventNoDriversFound(t) \in outbox
      BY DEF IndInv, PendingIsPursued
    <3>2. QED
      BY <3>1, <2>2, <1>1, <1>4
  <2>3. QED
    BY <2>1, <2>2
<1>7. CompletedIsAnnounced'
  BY <1>1, <1>4, AnnouncedFrame
<1>8. completing # Idle => completing.msg \in msgs'
  BY <1>1 DEF IndInv, CompletingIsJustified
<1>9. QED
  BY <1>1, <1>4, <1>6, <1>7, <1>8, OfferFrame, AcceptFrame, QueueFrame, AcceptingFrame,
     CompletingFrame, CallsFrame DEF IndInv

\* A driver answers; a lost answer is accounted for.
LEMMA AnswerStep ==
  ASSUME IndInv, TypeOK', NEW t \in Trips, NEW d \in Drivers,
         DriverAnswers(t, d)
  PROVE  IndInv'
<1>1. /\ UNCHANGED <<trips, creating, orphaned, outbox, accepting,
                     completing, calls>>
      /\ open' = open \ {<<t, d>>}
      /\ \/ /\ \E x \in {DriverCmdTripAccept(t, d), DriverCmdTripDecline(t, d)} :
                 msgs' = msgs \cup {x} /\ answers' = answers \cup {x}
            /\ dropped' = dropped
         \/ dropped' = dropped \cup {t} /\ UNCHANGED <<msgs, answers>>
  BY DEF DriverAnswers, createVars
<1>2. /\ DriverCmdTripAccept(t, d).key = "accept"
      /\ DriverCmdTripDecline(t, d).key = "decline"
      /\ \A x \in {DriverCmdTripAccept(t, d), DriverCmdTripDecline(t, d)} :
           x.trip = t /\ x.driver = d /\ x.key # "success"
  BY DEF DriverCmdTripAccept, DriverCmdTripDecline, Msg
<1>3. QueuedIsJustified'
  <2> SUFFICES ASSUME NEW m \in msgs', m \notin msgs, m.key = "accept"
               PROVE  /\ m.driver \in Drivers
                      /\ m = DriverCmdTripAccept(m.trip, m.driver)
                      /\ DriverCmdTripAccept(m.trip, m.driver) \in answers'
    BY <1>1, <1>2 DEF IndInv, QueuedIsJustified, Accepted, Billed,
       DriverCmdTripAccept, Msg
  <2>1. m = DriverCmdTripAccept(t, d) /\ m \in answers'
    BY <1>1, <1>2
  <2>2. QED
    BY <2>1, <1>2
<1>a. AcceptIsPursued'
  <2> SUFFICES ASSUME NEW u \in Trips, NEW e \in Drivers
               PROVE  /\ DriverCmdTripAccept(u, e) \in answers' =>
                           \/ DriverCmdTripAccept(u, e) \in msgs'
                           \/ Billed(u, e)
                           \/ u \in dropped'
                      /\ Billed(u, e) =>
                           DriverCmdTripAccept(u, e) \in answers' /\ Assigned(u, e)
    BY <1>1 DEF AcceptIsPursued, Accepted, Assigned, Billed,
       TripEventDriverAssigned, PaymentCmdCreateSession, DriverCmdTripAccept, Msg
  <2>1. /\ DriverCmdTripAccept(u, e) \in answers' =>
             \/ DriverCmdTripAccept(u, e) \in answers
             \/ DriverCmdTripAccept(u, e) \in msgs'
        /\ answers \subseteq answers' /\ msgs \subseteq msgs'
        /\ dropped \subseteq dropped'
    BY <1>1
  <2>2. QED
    BY <2>1 DEF IndInv, AcceptIsPursued, Accepted
<1>4. PendingIsPursued'
  <2> SUFFICES ASSUME NEW u \in Trips, trips[u].status = "pending"
               PROVE  \/ u \in creating \cup orphaned \cup dropped'
                      \/ \E x \in msgs' : x.trip = u /\ x.key # "success"
                      \/ \E e \in Drivers : <<u, e>> \in open'
                      \/ TripEventNoDriversFound(u) \in outbox
    BY <1>1 DEF PendingIsPursued, TripEventNoDriversFound, Msg
  <2>1. CASE u = t
    BY <2>1, <1>1, <1>2
  <2>2. CASE u # t
    <3>1. \/ u \in creating \cup orphaned \cup dropped
          \/ \E x \in msgs : x.trip = u /\ x.key # "success"
          \/ \E e \in Drivers : <<u, e>> \in open
          \/ TripEventNoDriversFound(u) \in outbox
      BY DEF IndInv, PendingIsPursued
    <3>2. QED
      BY <3>1, <2>2, <1>1
  <2>3. QED
    BY <2>1, <2>2
<1>5. CompletedIsAnnounced'
  BY <1>1, AnnouncedFrame
<1>6. QED
  BY <1>1, <1>3, <1>a, <1>4, <1>5, OfferFrame, AcceptingFrame, CompletingFrame,
     CallsFrame DEF IndInv

\* A decline is replaced by the event that asks for another dispatch.
LEMMA DeclineStep ==
  ASSUME IndInv, TypeOK', NEW m \in msgs, handleTripDeclined(m)
  PROVE  IndInv'
<1>1. /\ UNCHANGED <<trips, creating, orphaned, outbox, dropped, accepting,
                     completing, calls, open, answers>>
      /\ m.key = "decline"
      /\ msgs \ {m} \subseteq msgs'
      /\ TripEventDriverNotInterested(m.trip) \in msgs'
      /\ \A x \in msgs' : x \in msgs \/ x = TripEventDriverNotInterested(m.trip)
  BY AckSubset DEF handleTripDeclined, createVars, userVars
<1>2. /\ TripEventDriverNotInterested(m.trip).key = "not_interested"
      /\ TripEventDriverNotInterested(m.trip).trip = m.trip
  BY DEF TripEventDriverNotInterested, Msg
<1>3. PendingIsPursued'
  <2> SUFFICES ASSUME NEW t \in Trips, trips[t].status = "pending"
               PROVE  \/ t \in creating \cup orphaned \cup dropped
                      \/ \E x \in msgs' : x.trip = t /\ x.key # "success"
                      \/ \E d \in Drivers : <<t, d>> \in open
                      \/ TripEventNoDriversFound(t) \in outbox
    BY <1>1 DEF PendingIsPursued, TripEventNoDriversFound, Msg
  <2>1. CASE t = m.trip
    BY <2>1, <1>1, <1>2
  <2>2. CASE t # m.trip
    BY <2>2, <1>1 DEF IndInv, PendingIsPursued
  <2>3. QED
    BY <2>1, <2>2
<1>4. CompletedIsAnnounced'
  BY <1>1, AnnouncedFrame
<1>5. completing # Idle => completing.msg \in msgs'
  BY <1>1 DEF IndInv, CompletingIsJustified
<1>6. QED
  BY <1>1, <1>2, <1>3, <1>4, <1>5, OfferFrame, AcceptFrame, QueueFrame, AcceptingFrame,
     CompletingFrame, CallsFrame DEF IndInv

\* The update of an accept records a driver who accepted.
LEMMA AcceptUpdateStep ==
  ASSUME IndInv, TypeOK', NEW m \in msgs, AcceptUpdate(m)
  PROVE  IndInv'
<1>1. /\ UNCHANGED <<creating, orphaned, msgs, outbox, dropped, completing,
                     calls, open, answers>>
      /\ m.key = "accept"
      /\ accepting' = [pc |-> "reread", trip |-> m.trip, driver |-> m.driver,
                       snap |-> NoDriver]
  BY DEF AcceptUpdate, createVars, userVars
<1>2. /\ m.trip \in Trips /\ m.driver \in Drivers /\ m.driver # NoDriver
      /\ Accepted(m.trip, m.driver)
      /\ DriverCmdTripAccept(m.trip, m.driver) \in msgs
  BY <1>1, ConstantsAssumption DEF IndInv, TypeOK, Message, QueuedIsJustified
<1>3. /\ trips'[m.trip].status = "accepted" /\ trips'[m.trip].driver = m.driver
      /\ \A t \in Trips : t # m.trip => trips'[t] = trips[t]
  BY <1>2 DEF AcceptUpdate, UpdateTrip, Updated, IndInv, TypeOK
<1>4. DriverHasAccepted'
  BY <1>1, <1>2, <1>3 DEF IndInv, DriverHasAccepted, Accepted, Assigned
<1>5. BilledHasDriver'
  BY <1>1, <1>2, <1>3 DEF IndInv, BilledHasDriver, Billed
<1>6. AcceptingIsJustified'
  BY <1>1, <1>2, <1>3 DEF AcceptingIsJustified, DriverCmdTripAccept, Msg
<1>7. PendingIsPursued' /\ CompletedIsAnnounced'
  BY <1>1, <1>3, PursuitFrame, AnnouncedFrame
<1>8. QED
  BY <1>1, <1>4, <1>5, <1>6, <1>7, AcceptFrame, QueueFrame, CompletingFrame, CallsFrame
     DEF IndInv

\* The rest of the accept handler: the second read, the two publishes.
LEMMA AcceptRestStep ==
  ASSUME IndInv, TypeOK',
         AcceptReread \/ AcceptPublishAssigned \/ AcceptPublishBill \/ AcceptFails
  PROVE  IndInv'
<1>1. /\ UNCHANGED <<trips, creating, orphaned, dropped, completing, calls, open, answers>>
      /\ accepting # Idle /\ accepting \in Accepting
  BY DEF AcceptReread, AcceptPublishAssigned, AcceptPublishBill, AcceptFails,
     createVars, userVars, IndInv, TypeOK
<1>2. /\ accepting.trip \in Trips /\ accepting.driver \in Drivers
      /\ accepting.driver # NoDriver
      /\ trips[accepting.trip].driver = accepting.driver
      /\ DriverCmdTripAccept(accepting.trip, accepting.driver) \in msgs
      /\ accepting.pc # "reread" => accepting.snap = accepting.driver
      /\ accepting.pc = "bill" => Assigned(accepting.trip, accepting.driver)
  BY <1>1, ConstantsAssumption DEF IndInv, AcceptingIsJustified, Accepting
<1>a. Accepted(accepting.trip, accepting.driver)
  BY <1>2 DEF IndInv, DriverHasAccepted
<1>3. CASE AcceptReread
  <2>1. UNCHANGED <<msgs, outbox>>
    BY <1>3 DEF AcceptReread
  <2>2. /\ accepting' \in Accepting
        /\ accepting'.trip = accepting.trip
        /\ accepting'.driver = accepting.driver
        /\ accepting'.snap = trips[accepting.trip].driver
        /\ accepting'.pc = "assign"
    BY <1>3, <1>1 DEF AcceptReread, Accepting, IndInv, TypeOK, Trip
  <2>4. AcceptingIsJustified'
    BY <2>1, <2>2, <1>1, <1>2 DEF AcceptingIsJustified, DriverCmdTripAccept, Msg
  <2>5. PendingIsPursued' /\ CompletedIsAnnounced'
    BY <1>1, <2>1, PursuitFrame, AnnouncedFrame
  <2>6. QED
    BY <1>1, <2>1, <2>4, <2>5, OfferFrame, AcceptFrame, QueueFrame, CompletingFrame,
       CallsFrame DEF IndInv
<1>4. CASE AcceptPublishAssigned
  <2>1. /\ msgs' = msgs
        /\ outbox' = outbox \cup
             {TripEventDriverAssigned(accepting.trip, accepting.snap)}
        /\ accepting.pc = "assign"
    BY <1>4 DEF AcceptPublishAssigned
  <2>2. /\ accepting'.trip = accepting.trip
        /\ accepting'.driver = accepting.driver
        /\ accepting'.snap = accepting.snap
    BY <1>4, <1>1 DEF AcceptPublishAssigned, Accepting
  <2>3. AcceptingIsJustified'
    BY <2>1, <2>2, <1>1, <1>2 DEF AcceptingIsJustified, Assigned,
       DriverCmdTripAccept, TripEventDriverAssigned, Msg
  <2>4. /\ \A t, d : Billed(t, d)' <=> Billed(t, d)
        /\ TripEventDriverAssigned(accepting.trip, accepting.snap).key
             = "driver_assigned"
    BY <2>1 DEF Billed, PaymentCmdCreateSession, TripEventDriverAssigned, Msg
  <2>5. \A t, d : Assigned(t, d)' =>
          \/ Assigned(t, d)
          \/ t = accepting.trip /\ d = accepting.driver
    BY <1>2, <2>1 DEF Assigned, TripEventDriverAssigned, Msg
  <2>6. DriverHasAccepted' /\ BilledHasDriver'
    BY <1>1, <1>2, <1>a, <2>4, <2>5 DEF IndInv, DriverHasAccepted,
       BilledHasDriver, Accepted
  <2>7. PendingIsPursued' /\ CompletedIsAnnounced'
    BY <1>1, <2>1, PursuitFrame, AnnouncedFrame
  <2>8. QED
    BY <1>1, <2>1, <2>3, <2>4, <2>6, <2>7, AcceptFrame, QueueFrame,
       CompletingFrame, CallsFrame
       DEF IndInv
<1>5. CASE AcceptPublishBill
  <2> DEFINE m == DriverCmdTripAccept(accepting.trip, accepting.driver)
  <2>1. /\ outbox' = outbox \cup
             {PaymentCmdCreateSession(accepting.trip, accepting.driver)}
        /\ msgs' \subseteq msgs /\ msgs \ {m} \subseteq msgs'
        /\ accepting' = Idle /\ accepting.pc = "bill"
    BY <1>5, AckSubset DEF AcceptPublishBill
  <2>2. m.key = "accept" /\ m.trip = accepting.trip
    BY DEF DriverCmdTripAccept, Msg
  <2>3. \A t, d : Billed(t, d)' =>
          \/ Billed(t, d)
          \/ t = accepting.trip /\ d = accepting.driver
    BY <2>1 DEF Billed, PaymentCmdCreateSession, Msg
  <2>4. /\ \A t, d : Assigned(t, d)' <=> Assigned(t, d)
        /\ \A t, d : Accepted(t, d)' <=> Accepted(t, d)
        /\ \A t, d : \/ Billed(t, d)
                     \/ t = accepting.trip /\ d = accepting.driver
                     => Billed(t, d)'
    BY <1>1, <2>1 DEF Accepted, Assigned, Billed, TripEventDriverAssigned,
       PaymentCmdCreateSession, DriverCmdTripAccept, Msg
  <2>5. DriverHasAccepted' /\ BilledHasDriver'
    BY <1>1, <1>2, <2>3, <2>4 DEF IndInv, DriverHasAccepted, BilledHasDriver
  <2>a. AcceptIsPursued'
    <3>1. \A t, d : /\ DriverCmdTripAccept(t, d)' = DriverCmdTripAccept(t, d)
                    /\ DriverCmdTripAccept(t, d) = m
                         => t = accepting.trip /\ d = accepting.driver
      BY DEF DriverCmdTripAccept, Msg
    <3>2. QED
      BY <1>1, <1>2, <1>a, <2>1, <2>3, <2>4, <3>1 DEF IndInv, AcceptIsPursued
  <2>6. PendingIsPursued'
    <3>1. trips[accepting.trip].status # "pending"
      BY <1>2 DEF IndInv, BilledHasDriver
    <3>2. QED
      BY <3>1, <1>1, <2>1, <2>2 DEF IndInv, PendingIsPursued
  <2>7. CompletedIsAnnounced'
    BY <1>1, <2>1, <2>2, AnnouncedFrame
  <2>8. completing # Idle => completing.msg \in msgs'
    BY <2>1, <2>2 DEF IndInv, CompletingIsJustified
  <2>9. QED
    BY <1>1, <2>1, <2>5, <2>a, <2>6, <2>7, <2>8, QueueFrame, AcceptingFrame,
       CompletingFrame, CallsFrame DEF IndInv
<1>6. CASE AcceptFails
  <2>1. UNCHANGED <<msgs, outbox>> /\ accepting' = Idle
    BY <1>6 DEF AcceptFails
  <2>2. PendingIsPursued' /\ CompletedIsAnnounced'
    BY <1>1, <2>1, PursuitFrame, AnnouncedFrame
  <2>3. QED
    BY <1>1, <2>1, <2>2, OfferFrame, AcceptFrame, QueueFrame, AcceptingFrame,
       CompletingFrame, CallsFrame DEF IndInv
<1>7. QED
  BY <1>3, <1>4, <1>5, <1>6

\* Stripe reports a payment that was asked for.
LEMMA PaymentStep ==
  ASSUME IndInv, TypeOK', NEW t \in Trips, NEW d \in Drivers,
         PaymentSucceeds(t, d)
  PROVE  IndInv'
<1>1. /\ UNCHANGED <<trips, creating, orphaned, outbox, dropped, accepting,
                     completing, calls, open, answers>>
      /\ msgs' = msgs \cup {PaymentEventSuccess(t, d)}
      /\ Billed(t, d)
  BY DEF PaymentSucceeds, createVars, Billed
<1>2. /\ PaymentEventSuccess(t, d).key = "success"
      /\ PaymentEventSuccess(t, d).trip = t
      /\ PaymentEventSuccess(t, d).driver = d
  BY DEF PaymentEventSuccess, Msg
<1>3. QueuedIsJustified'
  BY <1>1, <1>2 DEF IndInv, QueuedIsJustified, Accepted, Billed,
     PaymentCmdCreateSession, DriverCmdTripAccept, Msg
<1>4. PendingIsPursued' /\ CompletedIsAnnounced'
  BY <1>1, PursuitFrame, AnnouncedFrame
<1>5. QED
  BY <1>1, <1>3, <1>4, OfferFrame, AcceptFrame, AcceptingFrame, CompletingFrame, CallsFrame
     DEF IndInv

\* The read of a completion: a trip whose payment succeeded has a driver.
LEMMA CompleteReadStep ==
  ASSUME IndInv, TypeOK', NEW m \in msgs, CompleteRead(m)
  PROVE  IndInv'
<1>1. /\ UNCHANGED <<trips, creating, orphaned, msgs, outbox, dropped,
                     accepting, calls, open, answers>>
      /\ m.key = "success"
      /\ completing'.pc # "driver" /\ completing'.msg = m
      /\ completing'.snap = trips[m.trip].driver
  BY DEF CompleteRead, createVars, userVars
<1>2. trips[m.trip].driver # NoDriver
  BY <1>1 DEF IndInv, TypeOK, Message, QueuedIsJustified, BilledHasDriver
<1>3. CompletionKnowsDriver' /\ CompletingIsJustified'
  BY <1>1, <1>2 DEF CompletionKnowsDriver, CompletingIsJustified
<1>4. PendingIsPursued' /\ CompletedIsAnnounced'
  BY <1>1, PursuitFrame, AnnouncedFrame
<1>5. QED
  BY <1>1, <1>3, <1>4, OfferFrame, AcceptFrame, QueueFrame, AcceptingFrame, CallsFrame
     DEF IndInv

\* The rest of the payment consumer: the update and the two publishes.
LEMMA CompleteRestStep ==
  ASSUME IndInv, TypeOK',
         \/ CompleteUpdate \/ CompletePublishRider
         \/ CompletePublishDriver \/ CompleteFails
  PROVE  IndInv'
<1> DEFINE t == completing.msg.trip
<1>1. /\ UNCHANGED <<creating, orphaned, dropped, accepting, calls, open, answers>>
      /\ completing # Idle /\ completing \in Completing
  BY DEF CompleteUpdate, CompletePublishRider, CompletePublishDriver,
     CompleteFails, createVars, userVars, IndInv, TypeOK
<1>2. /\ completing.msg \in msgs /\ completing.msg.key = "success"
      /\ completing.snap # NoDriver
      /\ completing.pc = "driver" => CompletedForRider(t) \in outbox
  BY <1>1 DEF IndInv, CompletingIsJustified, CompletionKnowsDriver
<1>3. /\ t \in Trips /\ completing.msg.driver \in Drivers
      /\ Billed(t, completing.msg.driver)
      /\ trips[t].driver # NoDriver
  <2>1. t \in Trips /\ completing.msg.driver \in Drivers
        /\ Billed(t, completing.msg.driver)
    BY <1>2 DEF IndInv, TypeOK, Message, QueuedIsJustified
  <2>2. QED
    BY <2>1 DEF IndInv, BilledHasDriver
<1>4. CASE CompleteUpdate
  <2>1. /\ UNCHANGED <<msgs, outbox>>
        /\ completing'.pc = "rider" /\ completing'.msg = completing.msg
        /\ completing'.snap = completing.snap
    BY <1>4, <1>1 DEF CompleteUpdate, Completing
  <2>2. /\ trips'[t].status = "completed" /\ trips'[t].driver = trips[t].driver
        /\ \A u \in Trips : u # t => trips'[u] = trips[u]
    BY <1>4, <1>3 DEF CompleteUpdate, UpdateTrip, Updated, IndInv, TypeOK
  <2>3. DriverHasAccepted' /\ BilledHasDriver'
    BY <1>1, <1>3, <2>1, <2>2
       DEF IndInv, DriverHasAccepted, BilledHasDriver, Accepted, Assigned, Billed
  <2>5. CompletedIsAnnounced'
    BY <1>1, <1>2, <2>1, <2>2 DEF IndInv, CompletedIsAnnounced
  <2>6. PendingIsPursued'
    BY <1>1, <2>1, <2>2, PursuitFrame
  <2>7. CompletionKnowsDriver' /\ CompletingIsJustified'
    BY <1>2, <2>1 DEF CompletionKnowsDriver, CompletingIsJustified
  <2>8. QED
    BY <1>1, <2>1, <2>2, <2>3, <2>5, <2>6, <2>7, AcceptFrame, QueueFrame,
       AcceptingFrame, CallsFrame DEF IndInv
<1>5. CASE CompletePublishRider
  <2>1. /\ trips' = trips /\ msgs' = msgs
        /\ outbox' = outbox \cup {CompletedForRider(t)}
        /\ completing'.pc = "driver" /\ completing'.msg = completing.msg
        /\ completing'.snap = completing.snap
    BY <1>5, <1>1, <1>2 DEF CompletePublishRider, Completing
  <2>2. CompletedForRider(t).key = "completed_rider"
    BY DEF CompletedForRider, Msg
  <2>3. CompletionKnowsDriver' /\ CompletingIsJustified'
    BY <1>2, <2>1 DEF CompletionKnowsDriver, CompletingIsJustified,
       CompletedForRider, Msg
  <2>4. PendingIsPursued' /\ CompletedIsAnnounced'
    BY <1>1, <2>1, PursuitFrame, AnnouncedFrame
  <2>5. QED
    BY <1>1, <2>1, <2>2, <2>3, <2>4, OfferFrame, AcceptFrame, QueueFrame,
       AcceptingFrame, CallsFrame DEF IndInv
<1>6. CASE CompletePublishDriver
  <2>1. /\ trips' = trips /\ completing' = Idle /\ completing.pc = "driver"
        /\ outbox' = outbox \cup {CompletedForDriver(t, completing.snap)}
        /\ msgs' \subseteq msgs /\ msgs \ {completing.msg} \subseteq msgs'
    BY <1>6, AckSubset DEF CompletePublishDriver
  <2>2. CompletedForDriver(t, completing.snap).key = "completed_driver"
    BY DEF CompletedForDriver, Msg
  <2>3. CompletedIsAnnounced'
    <3> SUFFICES ASSUME NEW u \in Trips, trips[u].status = "completed"
                 PROVE  \/ CompletedForRider(u) \in outbox'
                        \/ \E m \in msgs' : m.key = "success" /\ m.trip = u
                        \/ u \in dropped
      BY <1>1, <2>1 DEF CompletedIsAnnounced, CompletedForRider, Msg
    <3>1. CASE u = t
      BY <3>1, <1>2, <2>1
    <3>2. CASE u # t
      BY <3>2, <2>1 DEF IndInv, CompletedIsAnnounced
    <3>3. QED
      BY <3>1, <3>2
  <2>4. PendingIsPursued'
    BY <1>1, <1>2, <2>1, PursuitFrame
  <2>5. QED
    BY <1>1, <1>2, <2>1, <2>2, <2>3, <2>4, OfferFrame, AcceptFrame, QueueFrame,
       AcceptingFrame, CompletingFrame, CallsFrame DEF IndInv
<1>7. CASE CompleteFails
  <2>1. UNCHANGED <<trips, msgs, outbox>> /\ completing' = Idle
    BY <1>7 DEF CompleteFails
  <2>2. PendingIsPursued' /\ CompletedIsAnnounced'
    BY <1>1, <2>1, PursuitFrame, AnnouncedFrame
  <2>3. QED
    BY <1>1, <2>1, <2>2, OfferFrame, AcceptFrame, QueueFrame, AcceptingFrame,
       CompletingFrame, CallsFrame DEF IndInv
<1>8. QED
  BY <1>4, <1>5, <1>6, <1>7

\* A cancellation starts: the caller is the rider, or the driver of an
\* accepted trip, who accepted it.
LEMMA CancelReadStep ==
  ASSUME IndInv, TypeOK', NEW t \in Trips, NEW u \in Users, CancelRead(t, u)
  PROVE  IndInv'
<1>1. /\ UNCHANGED <<trips, creating, orphaned, msgs, outbox, dropped,
                     accepting, completing, open, answers>>
      /\ MayCancel(t, u)
      /\ \A c \in calls' : c \in calls \/ (c.trip = t /\ c.by = u)
  BY DEF CancelRead, createVars
<1>2. u # Owner[t] => u \in Drivers /\ Accepted(t, u)
  BY <1>1 DEF MayCancel, IndInv, TypeOK, Trip, MaybeDriver, DriverHasAccepted
<1>3. CancelledByParty'
  BY <1>1, <1>2 DEF IndInv, CancelledByParty, Accepted
<1>4. PendingIsPursued' /\ CompletedIsAnnounced'
  BY <1>1, PursuitFrame, AnnouncedFrame
<1>5. QED
  BY <1>1, <1>3, <1>4, OfferFrame, AcceptFrame, QueueFrame, AcceptingFrame, CompletingFrame
     DEF IndInv

\* The rest of CancelTrip.  The update keeps the driver.
LEMMA CancelRestStep ==
  ASSUME IndInv, TypeOK', NEW c \in calls,
         \/ CancelUpdate(c) \/ CancelConflict(c)
         \/ PublishTripCancelled(c) \/ CancelFails(c)
  PROVE  IndInv'
<1>1. /\ UNCHANGED <<creating, orphaned, msgs, dropped, accepting, completing,
                     open, answers>>
      /\ c \in Cancelling /\ c.trip \in Trips
  BY DEF CancelUpdate, CancelConflict, PublishTripCancelled, CancelFails,
     createVars, userVars, IndInv, TypeOK, Cancelling
<1>2. CASE CancelUpdate(c)
  <2>1. /\ outbox' = outbox
        /\ \A x \in calls' : x \in calls \/ (x.trip = c.trip /\ x.by = c.by)
    BY <1>2, <1>1 DEF CancelUpdate, Cancelling
  <2>2. /\ trips'[c.trip].status = "cancelled"
        /\ trips'[c.trip].driver = trips[c.trip].driver
        /\ \A t \in Trips : t # c.trip => trips'[t] = trips[t]
    BY <1>2, <1>1 DEF CancelUpdate, UpdateTrip, Updated, IndInv, TypeOK
  <2>3. DriverHasAccepted' /\ BilledHasDriver'
    BY <1>1, <2>1, <2>2 DEF IndInv, DriverHasAccepted, BilledHasDriver,
       Accepted, Assigned, Billed
  <2>4. CancelledByParty'
    BY <1>1, <2>1 DEF IndInv, CancelledByParty, Accepted
  <2>5. PendingIsPursued' /\ CompletedIsAnnounced'
    BY <1>1, <2>1, <2>2, PursuitFrame, AnnouncedFrame
  <2>6. QED
    BY <1>1, <2>1, <2>2, <2>3, <2>4, <2>5, AcceptFrame, QueueFrame, AcceptingFrame,
       CompletingFrame DEF IndInv
<1>3. CASE CancelConflict(c) \/ CancelFails(c)
  <2>1. UNCHANGED <<trips, outbox>> /\ calls' \subseteq calls
    BY <1>3 DEF CancelConflict, CancelFails
  <2>2. PendingIsPursued' /\ CompletedIsAnnounced'
    BY <1>1, <2>1, PursuitFrame, AnnouncedFrame
  <2>3. QED
    BY <1>1, <2>1, <2>2, OfferFrame, AcceptFrame, QueueFrame, AcceptingFrame,
       CompletingFrame, CallsFrame DEF IndInv
<1>4. CASE PublishTripCancelled(c)
  <2>1. /\ trips' = trips /\ calls' \subseteq calls
        /\ outbox' = outbox \cup {TripEventCancelled(c.trip, c.snap)}
    BY <1>4 DEF PublishTripCancelled
  <2>2. TripEventCancelled(c.trip, c.snap).key = "cancelled"
    BY DEF TripEventCancelled, Msg
  <2>3. PendingIsPursued' /\ CompletedIsAnnounced'
    BY <1>1, <2>1, PursuitFrame, AnnouncedFrame
  <2>4. QED
    BY <1>1, <2>1, <2>2, <2>3, OfferFrame, AcceptFrame, QueueFrame, AcceptingFrame,
       CompletingFrame, CallsFrame DEF IndInv
<1>5. QED
  BY <1>2, <1>3, <1>4

\* A message is given up; its trip is on record.
LEMMA DropStep ==
  ASSUME IndInv, TypeOK', NEW m \in msgs, Drop(m)
  PROVE  IndInv'
<1>1. /\ UNCHANGED <<trips, creating, orphaned, outbox, accepting, completing,
                     calls, open, answers>>
      /\ msgs' = msgs \ {m}
      /\ dropped' = dropped \cup {m.trip}
      /\ completing # Idle => completing.msg # m
  BY DEF Drop, createVars, userVars
<1>2. PendingIsPursued' /\ CompletedIsAnnounced'
  BY <1>1 DEF IndInv, PendingIsPursued, CompletedIsAnnounced
<1>3. completing # Idle => completing.msg \in msgs'
  BY <1>1 DEF IndInv, CompletingIsJustified
<1>4. accepting # Idle =>
        DriverCmdTripAccept(accepting.trip, accepting.driver) \in msgs'
  BY <1>1 DEF Drop, IndInv, AcceptingIsJustified, DriverCmdTripAccept, Msg
<1>5. AcceptIsPursued'
  <2>1. \A t, d : DriverCmdTripAccept(t, d).trip = t
    BY DEF DriverCmdTripAccept, Msg
  <2>2. QED
    BY <1>1, <2>1 DEF IndInv, AcceptIsPursued, Accepted, Assigned, Billed
<1>6. QED
  BY <1>1, <1>2, <1>3, <1>4, <1>5, OfferFrame, QueueFrame, AcceptingFrame,
     CompletingFrame, CallsFrame DEF IndInv

\* The invariant is inductive.
LEMMA NextIndInv == IndInv /\ [Next]_vars => IndInv'
<1> SUFFICES ASSUME IndInv, [Next]_vars PROVE IndInv'
  OBVIOUS
<1>1. TypeOK'
  BY NextTypeOK DEF IndInv
<1>2. CASE UNCHANGED vars
  <2>1. UNCHANGED <<trips, creating, orphaned, msgs, outbox, dropped,
                    accepting, completing, calls, open, answers>>
    BY <1>2 DEF vars
  <2>2. PendingIsPursued' /\ CompletedIsAnnounced'
    BY <2>1, PursuitFrame, AnnouncedFrame
  <2>3. QED
    BY <1>1, <2>1, <2>2, OfferFrame, AcceptFrame, QueueFrame, AcceptingFrame,
       CompletingFrame, CallsFrame DEF IndInv
<1>3. ASSUME NEW d \in Drivers, GoOnline(d) \/ GoOffline(d) PROVE IndInv'
  <2>1. UNCHANGED <<trips, creating, orphaned, msgs, outbox, dropped,
                    accepting, completing, calls, open, answers>>
    BY <1>3 DEF GoOnline, GoOffline, createVars
  <2>2. PendingIsPursued' /\ CompletedIsAnnounced'
    BY <2>1, PursuitFrame, AnnouncedFrame
  <2>3. QED
    BY <1>1, <2>1, <2>2, OfferFrame, AcceptFrame, QueueFrame, AcceptingFrame,
       CompletingFrame, CallsFrame DEF IndInv
<1>4. CASE Next
  BY <1>1, <1>3, <1>4, CreateStep, DispatchStep, DeclineStep, AcceptUpdateStep,
     CompleteReadStep, DropStep, AnswerStep, PaymentStep, AcceptRestStep,
     CompleteRestStep, CancelReadStep, CancelRestStep DEF Next
<1>5. QED
  BY <1>2, <1>4

\* The inductive invariant always holds.
LEMMA Invariance == Spec => []IndInv
BY InitIndInv, NextIndInv, PTL DEF Spec

\* Whoever is recorded or announced as a trip's driver has accepted it.
THEOREM AcceptedTheorem == Spec => []DriverHasAccepted
<1>1. IndInv => DriverHasAccepted
  BY DEF IndInv
<1>2. QED
  BY <1>1, Invariance, PTL

\* An accept is handled, billed or given up, and nobody is billed for a driver
\* who did not accept or was not announced.
THEOREM AcceptTheorem == Spec => []AcceptIsPursued
<1>1. IndInv => AcceptIsPursued
  BY DEF IndInv
<1>2. QED
  BY <1>1, Invariance, PTL

\* The completed event always reaches for a driver.
THEOREM CompletionTheorem == Spec => []CompletionKnowsDriver
<1>1. IndInv => CompletionKnowsDriver
  BY DEF IndInv
<1>2. QED
  BY <1>1, Invariance, PTL

\* No pending trip is forgotten.
THEOREM PursuitTheorem == Spec => []PendingIsPursued
<1>1. IndInv => PendingIsPursued
  BY DEF IndInv
<1>2. QED
  BY <1>1, Invariance, PTL

\* A completed trip is announced, or its payment message is accounted for.
THEOREM AnnouncementTheorem == Spec => []CompletedIsAnnounced
<1>1. IndInv => CompletedIsAnnounced
  BY DEF IndInv
<1>2. QED
  BY <1>1, Invariance, PTL

\* Only the rider, or a driver who accepted the trip, can be about to cancel a trip.
THEOREM CancelTheorem == Spec => []CancelledByParty
<1>1. IndInv => CancelledByParty
  BY DEF IndInv
<1>2. QED
  BY <1>1, Invariance, PTL

----------------------------------------------------------------------------
(* Without failures, no cancellation goes unannounced *)

\* No trip becomes cancelled, and no call that is to announce one goes away.
LEMMA CancelledFrame ==
  ASSUME CancelledIsAnnounced, outbox \subseteq outbox',
         \A t \in Trips : trips'[t].status = "cancelled"
                            => trips[t].status = "cancelled",
         \A c \in calls : c.pc = "publish" => c \in calls'
  PROVE  CancelledIsAnnounced'
BY DEF CancelledIsAnnounced, TripEventCancelled, Msg

\* The update hands the cancellation to the call's publish, and a call that
\* ends without it has found the trip cancelled by another one.
LEMMA CancelledStep ==
  ASSUME ~MayFail, IndInv, CancelledIsAnnounced, NEW c \in calls,
         \/ CancelUpdate(c) \/ CancelConflict(c)
         \/ PublishTripCancelled(c) \/ CancelFails(c)
  PROVE  CancelledIsAnnounced'
<1>1. c \in Cancelling /\ c.trip \in Trips /\ c.snap \in MaybeDriver
  BY DEF IndInv, TypeOK, Cancelling
<1>2. CASE CancelUpdate(c)
  <2> DEFINE d == [c EXCEPT !.pc = "publish"]
  <2>1. /\ outbox' = outbox /\ d \in calls' /\ c.pc = "update"
        /\ \A x \in calls : x # c => x \in calls'
    BY <1>2 DEF CancelUpdate
  <2>2. d.trip = c.trip /\ d.pc = "publish"
    BY <1>1 DEF Cancelling
  <2> HIDE DEF d
  <2>3. \A t \in Trips : t # c.trip => trips'[t] = trips[t]
    BY <1>2, <1>1 DEF CancelUpdate, UpdateTrip, IndInv, TypeOK
  <2>4. ASSUME NEW t \in Trips, trips'[t].status = "cancelled", t # c.trip
        PROVE  \/ \E e \in MaybeDriver : TripEventCancelled(t, e) \in outbox'
               \/ \E x \in calls' : x.trip = t /\ x.pc = "publish"
    BY <2>1, <2>3, <2>4 DEF CancelledIsAnnounced
  <2> QED BY <2>1, <2>2, <2>4 DEF CancelledIsAnnounced, TripEventCancelled, Msg
<1>3. CASE CancelConflict(c)
  BY <1>3, CancelledFrame DEF CancelConflict
<1>4. CASE PublishTripCancelled(c)
  <2>1. /\ trips' = trips /\ calls' = calls \ {c}
        /\ outbox \subseteq outbox'
        /\ TripEventCancelled(c.trip, c.snap) \in outbox'
    BY <1>4 DEF PublishTripCancelled
  <2> SUFFICES ASSUME NEW t \in Trips, trips[t].status = "cancelled"
               PROVE  \/ \E e \in MaybeDriver : TripEventCancelled(t, e) \in outbox'
                      \/ \E x \in calls' : x.trip = t /\ x.pc = "publish"
    BY <2>1 DEF CancelledIsAnnounced, TripEventCancelled, Msg
  <2>2. CASE t = c.trip
    BY <1>1, <2>1, <2>2
  <2>3. CASE t # c.trip
    BY <2>1, <2>3 DEF CancelledIsAnnounced
  <2> QED BY <2>2, <2>3
<1>5. ~CancelFails(c)
  BY DEF CancelFails
<1> QED BY <1>2, <1>3, <1>4, <1>5

\* No other step cancels a trip or ends a call.
LEMMA NextCancelled ==
  ~MayFail /\ IndInv /\ CancelledIsAnnounced /\ [Next]_vars => CancelledIsAnnounced'
<1> SUFFICES ASSUME ~MayFail, IndInv, CancelledIsAnnounced, [Next]_vars
             PROVE  CancelledIsAnnounced'
  OBVIOUS
<1>a. TypeOK
  BY DEF IndInv
<1>1. ASSUME NEW t \in Trips, CreateTrip(t) \/ PublishTripCreated(t) \/ CreateTripFails(t)
      PROVE  CancelledIsAnnounced'
  <2>1. /\ UNCHANGED <<outbox, calls>>
        /\ \/ trips' = trips
           \/ trips' = [trips EXCEPT ![t] = [status |-> "pending", driver |-> NoDriver]]
    BY <1>1 DEF CreateTrip, PublishTripCreated, CreateTripFails
  <2> QED BY <1>a, <2>1, CancelledFrame DEF TypeOK
<1>2. ASSUME NEW m \in msgs, AcceptUpdate(m) PROVE CancelledIsAnnounced'
  <2>1. m.trip \in Trips
    BY <1>a DEF TypeOK, Message
  <2>2. \A t \in Trips : trips'[t].status = "cancelled" => trips[t].status = "cancelled"
    BY <1>2, <1>a, <2>1 DEF AcceptUpdate, UpdateTrip, Updated, TypeOK
  <2> QED BY <1>2, <2>2, CancelledFrame DEF AcceptUpdate
<1>3. CASE CompleteUpdate
  <2>1. completing.msg.trip \in Trips
    BY <1>3, <1>a DEF CompleteUpdate, TypeOK, Completing, Message
  <2>2. \A t \in Trips : trips'[t].status = "cancelled" => trips[t].status = "cancelled"
    BY <1>3, <1>a, <2>1 DEF CompleteUpdate, UpdateTrip, Updated, TypeOK
  <2> QED BY <1>3, <2>2, CancelledFrame DEF CompleteUpdate
<1>4. ASSUME NEW m \in msgs,
             \/ handleAndNotifyDrivers(m) \/ handleTripDeclined(m)
             \/ CompleteRead(m) \/ Drop(m)
      PROVE  CancelledIsAnnounced'
  <2>1. UNCHANGED <<trips, calls>> /\ outbox \subseteq outbox'
    BY <1>4 DEF handleAndNotifyDrivers, handleTripDeclined, CompleteRead, Drop
  <2> QED BY <2>1, CancelledFrame
<1>5. ASSUME NEW d \in Drivers,
             \/ GoOnline(d) \/ GoOffline(d)
             \/ \E t \in Trips : DriverAnswers(t, d) \/ PaymentSucceeds(t, d)
      PROVE  CancelledIsAnnounced'
  <2>1. UNCHANGED <<trips, calls, outbox>>
    BY <1>5 DEF GoOnline, GoOffline, DriverAnswers, PaymentSucceeds
  <2> QED BY <2>1, CancelledFrame
<1>6. CASE \/ AcceptReread \/ AcceptPublishAssigned \/ AcceptPublishBill \/ AcceptFails
           \/ CompletePublishRider \/ CompletePublishDriver \/ CompleteFails
  <2>1. UNCHANGED <<trips, calls>> /\ outbox \subseteq outbox'
    BY <1>6 DEF AcceptReread, AcceptPublishAssigned, AcceptPublishBill, AcceptFails,
       CompletePublishRider, CompletePublishDriver, CompleteFails
  <2> QED BY <2>1, CancelledFrame
<1>7. ASSUME NEW t \in Trips, NEW u \in Users, CancelRead(t, u)
      PROVE  CancelledIsAnnounced'
  <2>1. UNCHANGED <<trips, outbox>> /\ calls \subseteq calls'
    BY <1>7 DEF CancelRead
  <2> QED BY <2>1, CancelledFrame
<1>8. CASE UNCHANGED vars
  BY <1>8, CancelledFrame DEF vars
<1> QED BY <1>1, <1>2, <1>3, <1>4, <1>5, <1>6, <1>7, <1>8, CancelledStep DEF Next

\* Unless something fails, a cancelled trip is announced or a call is about to
\* announce it, however cancellations, accepts and payments of the same trip
\* interleave between their reads, updates and publishes.
THEOREM CancelledTheorem ==
  ASSUME ~MayFail
  PROVE  Spec => []CancelledIsAnnounced
<1>1. Init => CancelledIsAnnounced
  BY DEF Init, CancelledIsAnnounced
<1>2. IndInv /\ CancelledIsAnnounced /\ [Next]_vars => CancelledIsAnnounced'
  BY NextCancelled
<1> QED BY <1>1, <1>2, Invariance, PTL DEF Spec
=============================================================================
