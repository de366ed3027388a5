--------------------------- MODULE TripChatProofs ---------------------------
(***************************************************************************)
(* Proofs about the two modules on what the parties of a trip see of each  *)
(* other, for any trips, riders, drivers, consumers, pods, sockets and     *)
(* messages and any number of calls and faults.                            *)
(*                                                                         *)
(* TripPair: a driver who is told of a cancellation was given a trip of    *)
(* that rider; chat and location relay are up while a trip is under way    *)
(* and end with it.  ChatRoom: a pod is subscribed to a room exactly while *)
(* it has a member, no socket gets a message twice and none is lost.       *)
(***************************************************************************)
EXTENDS TripPair, ChatRoom, TLAPS

USE PairAssumption

----------------------------------------------------------------------------
(* Types *)

\* An event names a trip and, when it is a cancellation, a driver or none.
LEMMA EventType ==
  ASSUME NEW e \in Event
  PROVE  /\ e.trip \in Trips
         /\ e.kind = "cancelled" => e.driver \in Drivers \cup {None}
BY DEF Event

\* What a consumer that is not idle holds.
LEMMA WorkerType ==
  ASSUME TypeOK, NEW w \in Workers, worker[w] # Idle
  PROVE  /\ worker[w] \in Handling
         /\ worker[w].event \in Event
         /\ worker[w].event.trip \in Trips
         /\ worker[w].driver \in Drivers \cup {None}
BY EventType DEF TypeOK, Handling

\* A trip that exists has a rider.
LEMMA TripType ==
  ASSUME TypeOK, NEW t \in Trips, Exists(t)
  PROVE  trip[t] \in Trip /\ trip[t].rider \in Riders
BY DEF TypeOK, Exists, Trip

LEMMA TripExists ==
  ASSUME NEW x \in Trip
  PROVE  x # Absent
BY DEF Trip, Absent

LEMMA InitIndInv == Init => IndInv
BY DEF Init, IndInv, TypeOK, Pair, NoPair, TripsExist, DriversAreGiven, NoticeIsTied, Exists,
       Absent, Idle

----------------------------------------------------------------------------
(* What a step has to show *)

\* A trip that exists goes on to exist, with its rider.
RidersStay ==
  \A t \in Trips : Exists(t) => Exists(t)' /\ trip'[t].rider = trip[t].rider

\* A new or changed entry.
GoodTrip(t) == Exists(t) /\ trip[t].driver # None => <<t, trip[t].driver>> \in given
GoodCancel(c) == Exists(c[1]) /\ (c[2] # None => c \in given)
GoodEvent(e) ==
  /\ Exists(e.trip)
  /\ e.kind = "cancelled" /\ e.driver # None => <<e.trip, e.driver>> \in given
GoodWorker(w) ==
  worker[w] # Idle =>
    /\ Exists(worker[w].event.trip)
    /\ worker[w].driver # None
         => Tied(worker[w].driver, trip[worker[w].event.trip].rider)

SameWork(w) ==
  /\ worker[w] # Idle
  /\ worker'[w].event = worker[w].event
  /\ worker'[w].driver = worker[w].driver

LEMMA TiedStays ==
  ASSUME IndInv, RidersStay, given \subseteq given', NEW d, NEW r, Tied(d, r)
  PROVE  Tied(d, r)'
<1>1. PICK t \in Trips : <<t, d>> \in given /\ trip[t].rider = r
  BY DEF Tied
<1>2. Exists(t)
  BY <1>1 DEF IndInv, TripsExist
<1> QED BY <1>1, <1>2 DEF RidersStay, Tied

LEMMA StepIndInv ==
  ASSUME IndInv, TypeOK', RidersStay, given \subseteq given',
         \A t \in Trips : trip'[t] = trip[t] \/ GoodTrip(t)',
         \A x \in pressed' \ pressed : Exists(x[1])',
         \A x \in given' \ given : Exists(x[1])',
         \A c \in cancels' \ cancels : GoodCancel(c)',
         \A e \in ended' \ ended : GoodEvent(e)',
         \A r \in Riders : \/ activeDriver'[r] \in {activeDriver[r], None}
                           \/ Tied(activeDriver[r], r)',
         \A w \in Workers : worker'[w] = worker[w] \/ SameWork(w) \/ GoodWorker(w)'
  PROVE  IndInv'
<1>0. TypeOK
  BY DEF IndInv
<1>1. \A x \in pressed \cup given \cup cancels : x[1] \in Trips
  BY <1>0 DEF TypeOK
<1>2. \A x \in pressed' \cup given' \cup cancels' : Exists(x[1])'
  BY <1>1 DEF IndInv, TripsExist, RidersStay, GoodCancel
<1>3. \A e \in ended' : GoodEvent(e)'
  BY <1>0, EventType DEF IndInv, TypeOK, TripsExist, DriversAreGiven, RidersStay, GoodEvent
<1>4. ASSUME NEW w \in Workers PROVE GoodWorker(w)'
  <2>1. CASE worker'[w] # Idle /\ (worker'[w] = worker[w] \/ SameWork(w))
    <3>1. /\ worker[w] # Idle
          /\ worker'[w].event = worker[w].event
          /\ worker'[w].driver = worker[w].driver
      BY <2>1 DEF SameWork
    <3>2. PICK t \in Trips : t = worker[w].event.trip /\ Exists(t)
      BY <1>0, <3>1, WorkerType DEF IndInv, TripsExist
    <3>3. Exists(t)' /\ trip'[t].rider = trip[t].rider
      BY <3>2 DEF RidersStay
    <3>4. worker[w].driver # None => Tied(worker[w].driver, trip[t].rider)
      BY <3>1, <3>2 DEF IndInv, NoticeIsTied
    <3>5. PICK d, r : d = worker[w].driver /\ r = trip[t].rider
      OBVIOUS
    <3>6. d # None => Tied(d, r)'
      BY <3>4, <3>5, TiedStays
    <3> QED BY <3>1, <3>2, <3>3, <3>5, <3>6 DEF GoodWorker, Tied, Exists
  <2> QED BY <2>1 DEF GoodWorker, Idle
<1>5. TripsExist'
  BY <1>2, <1>3, <1>4 DEF TripsExist, GoodEvent, GoodWorker
<1>6. NoticeIsTied'
  BY <1>4 DEF NoticeIsTied, GoodWorker
<1>7. \A t \in Trips : GoodTrip(t)'
  BY DEF IndInv, DriversAreGiven, GoodTrip, Exists
<1>8. \A c \in cancels' : c[2] # None => c \in given'
  BY DEF IndInv, DriversAreGiven, GoodCancel
<1>9. ASSUME NEW r \in Riders, activeDriver'[r] # None
      PROVE  Tied(activeDriver[r], r)'
  <2>1. CASE activeDriver'[r] = activeDriver[r]
    <3>1. Tied(activeDriver[r], r)
      BY <1>9, <2>1 DEF IndInv, DriversAreGiven
    <3> QED BY <2>1, <3>1, TiedStays DEF Tied
  <2> QED BY <1>9, <2>1
<1>10. DriversAreGiven'
  BY <1>3, <1>7, <1>8, <1>9 DEF DriversAreGiven, GoodTrip, GoodEvent
<1> QED BY <1>5, <1>6, <1>10 DEF IndInv

\* A step that leaves the documents and the queues as they are.
LEMMA RedisStep ==
  ASSUME IndInv, TypeOK', UNCHANGED <<trip, cancels, pressed, named, given>>,
         ended' \subseteq ended,
         \A r \in Riders : \/ activeDriver'[r] \in {activeDriver[r], None}
                           \/ Tied(activeDriver[r], r)',
         \A w \in Workers : worker'[w] = worker[w] \/ SameWork(w) \/ GoodWorker(w)'
  PROVE  IndInv'
<1>1. RidersStay
  BY DEF RidersStay, Exists
<1> QED BY <1>1, StepIndInv

----------------------------------------------------------------------------
(* trip-service *)

LEMMA CreateTripStep ==
  ASSUME IndInv, NEW t \in Trips, NEW r \in Riders, CreateTrip(t, r)
  PROVE  IndInv'
<1> DEFINE new == [status |-> "pending", rider |-> r, driver |-> None]
<1>0. TypeOK /\ new \in Trip /\ trip' = [trip EXCEPT ![t] = new]
  BY DEF IndInv, CreateTrip, Trip
<1>1. TypeOK'
  BY <1>0 DEF TypeOK, CreateTrip, queueVars, redisVars, boundVars, histVars
<1>2. trip'[t] = new /\ \A u \in Trips \ {t} : trip'[u] = trip[u]
  BY <1>0 DEF TypeOK
<1>3. RidersStay
  BY <1>2 DEF RidersStay, CreateTrip, Exists
<1>4. GoodTrip(t)'
  BY <1>2 DEF GoodTrip
<1> QED BY <1>1, <1>2, <1>3, <1>4, StepIndInv
        DEF CreateTrip, queueVars, redisVars, boundVars, histVars

LEMMA handleTripAcceptedStep ==
  ASSUME IndInv, NEW t \in Trips, NEW d \in Drivers, handleTripAccepted(t, d)
  PROVE  IndInv'
<1> DEFINE new == [trip[t] EXCEPT !.status = "accepted", !.driver = d]
<1>0. TypeOK /\ Exists(t) /\ trip[t] \in Trip
  BY TripType DEF IndInv, TypeOK, TripsExist, handleTripAccepted
<1>a. UNCHANGED <<cancels, ended, worker, redisVars, boundVars, pressed, named, served>>
  BY DEF handleTripAccepted
<1>1. CASE trip[t] = new
  <2>1. UNCHANGED <<trip, assigned, given, marred>> /\ accepts' \subseteq accepts
    BY <1>1 DEF handleTripAccepted
  <2>2. TypeOK'
    BY <1>0, <1>a, <2>1 DEF TypeOK, redisVars, boundVars
  <2> QED BY <1>a, <2>1, <2>2, RedisStep DEF redisVars, boundVars
<1>2. CASE trip[t] # new
  <2>1. /\ trip' = [trip EXCEPT ![t] = new]
        /\ assigned' = assigned \cup {<<t, d>>}
        /\ given' = given \cup {<<t, d>>}
        /\ marred' \in {marred, marred \cup {t}}
        /\ accepts' \subseteq accepts
    BY <1>2 DEF handleTripAccepted
  <2>2. new \in Trip /\ new.rider = trip[t].rider /\ new.driver = d
    BY <1>0 DEF Trip
  <2> HIDE DEF new
  <2>3. trip'[t] = new /\ \A u \in Trips \ {t} : trip'[u] = trip[u]
    BY <1>0, <2>1 DEF TypeOK
  <2>4. TypeOK'
    BY <1>0, <1>a, <2>1, <2>2 DEF TypeOK, redisVars, boundVars
  <2>5. Exists(t)' /\ RidersStay
    BY <2>2, <2>3, TripExists DEF RidersStay, Exists
  <2>6. GoodTrip(t)'
    BY <2>1, <2>2, <2>3 DEF GoodTrip
  <2>7. \A x \in given' \ given : Exists(x[1])'
    BY <2>1, <2>5
  <2> QED BY <1>a, <2>1, <2>3, <2>4, <2>5, <2>6, <2>7, StepIndInv
          DEF redisVars, boundVars
<1> QED BY <1>1, <1>2

LEMMA CancelReadStep ==
  ASSUME IndInv, NEW t \in Trips, CancelRead(t)
  PROVE  IndInv'
<1> DEFINE c == <<t, trip[t].driver>>
<1>0. /\ TypeOK /\ Exists(t) /\ trip[t] \in Trip
      /\ cancels' = cancels \cup {c}
      /\ UNCHANGED <<trip, accepts, assigned, ended, worker, redisVars, faults,
                     histVars>>
      /\ calls' \in 0..MaxCalls
  BY TripType DEF IndInv, TypeOK, CancelRead, Called
<1>1. TypeOK'
  BY <1>0 DEF TypeOK, Trip, redisVars, histVars
<1>2. RidersStay /\ Exists(t)'
  BY <1>0 DEF RidersStay, Exists
<1>3. trip[t].driver # None => c \in given'
  BY <1>0 DEF IndInv, DriversAreGiven, histVars
<1>4. \A x \in cancels' \ cancels : GoodCancel(x)'
  BY <1>0, <1>2, <1>3 DEF GoodCancel, Exists
<1> QED BY <1>0, <1>1, <1>2, <1>4, StepIndInv DEF redisVars, histVars

LEMMA CancelUpdateStep ==
  ASSUME IndInv, NEW c \in cancels, CancelUpdate(c[1], c[2])
  PROVE  IndInv'
<1>0. /\ TypeOK /\ c[1] \in Trips /\ c[2] \in Drivers \cup {None}
      /\ c = <<c[1], c[2]>>
  BY DEF IndInv, TypeOK
<1>a. PICK t \in Trips, d \in Drivers \cup {None} : c = <<t, d>> /\ CancelUpdate(t, d)
  BY <1>0
<1>b. /\ Exists(t) /\ trip[t] \in Trip
      /\ d # None => <<t, d>> \in given
  BY <1>0, <1>a, TripType DEF IndInv, TripsExist, DriversAreGiven
<1>c. /\ cancels' \subseteq cancels
      /\ UNCHANGED <<accepts, assigned, worker, redisVars, boundVars, histVars>>
  BY <1>a DEF CancelUpdate
<1>1. CASE UNCHANGED <<trip, ended>>
  <2>1. TypeOK' /\ RidersStay
    BY <1>0, <1>1, <1>c DEF TypeOK, RidersStay, Exists, redisVars, boundVars, histVars
  <2> QED BY <1>1, <1>c, <2>1, StepIndInv DEF redisVars, boundVars, histVars
<1>2. CASE ~UNCHANGED <<trip, ended>>
  <2> DEFINE new == [trip[t] EXCEPT !.status = "cancelled"]
             e == [kind |-> "cancelled", trip |-> t, driver |-> d]
  <2>1. trip' = [trip EXCEPT ![t] = new] /\ ended' = ended \cup {e}
    BY <1>a, <1>2 DEF CancelUpdate
  <2>2. new \in Trip /\ new.rider = trip[t].rider /\ new.driver = trip[t].driver
    BY <1>b DEF Trip
  <2>3. e \in Event
    BY DEF Event
  <2> HIDE DEF new
  <2>4. trip'[t] = new /\ \A u \in Trips \ {t} : trip'[u] = trip[u]
    BY <1>0, <2>1 DEF TypeOK
  <2>5. TypeOK'
    BY <1>0, <1>c, <2>1, <2>2, <2>3 DEF TypeOK, redisVars, boundVars, histVars
  <2>6. Exists(t)' /\ RidersStay
    BY <2>2, <2>4, TripExists DEF RidersStay, Exists
  <2>7. GoodTrip(t)'
    BY <1>b, <1>c, <2>2, <2>4 DEF GoodTrip, IndInv, DriversAreGiven, histVars
  <2>8. \A x \in ended' \ ended : GoodEvent(x)'
    BY <1>b, <1>c, <2>1, <2>6 DEF GoodEvent, Exists, histVars
  <2> QED BY <1>c, <2>4, <2>5, <2>6, <2>7, <2>8, StepIndInv
          DEF redisVars, boundVars, histVars
<1> QED BY <1>1, <1>2

LEMMA CompleteTripStep ==
  ASSUME IndInv, NEW t \in Trips, CompleteTrip(t)
  PROVE  IndInv'
<1> DEFINE new == [trip[t] EXCEPT !.status = "completed"]
           ev == {[kind |-> "completed", trip |-> t, owner |-> u] :
                    u \in {trip[t].rider, trip[t].driver}}
<1>0. /\ TypeOK /\ Exists(t) /\ trip[t] \in Trip /\ trip[t].driver # None
      /\ trip' = [trip EXCEPT ![t] = new]
      /\ ended' = ended \cup ev
      /\ UNCHANGED <<cancels, accepts, assigned, worker, redisVars, faults,
                     histVars>>
      /\ calls' \in 0..MaxCalls
  BY TripType DEF IndInv, TypeOK, CompleteTrip, Called
<1>1. new \in Trip /\ new.rider = trip[t].rider /\ new.driver = trip[t].driver
  BY <1>0 DEF Trip
<1>2. \A e \in ev : e \in Event /\ e.trip = t /\ e.kind = "completed"
  BY <1>0 DEF Event, Trip
<1> HIDE DEF new, ev
<1>3. trip'[t] = new /\ \A u \in Trips \ {t} : trip'[u] = trip[u]
  BY <1>0 DEF TypeOK
<1>4. TypeOK'
  BY <1>0, <1>1, <1>2 DEF TypeOK, redisVars, histVars
<1>5. Exists(t)' /\ RidersStay
  BY <1>1, <1>3, TripExists DEF RidersStay, Exists
<1>6. GoodTrip(t)'
  BY <1>0, <1>1, <1>3 DEF GoodTrip, IndInv, DriversAreGiven, histVars
<1>7. \A x \in ended' \ ended : GoodEvent(x)'
  BY <1>0, <1>2, <1>5 DEF GoodEvent, Exists
<1> QED BY <1>0, <1>3, <1>4, <1>5, <1>6, <1>7, StepIndInv
        DEF redisVars, histVars

----------------------------------------------------------------------------
(* The keys *)

LEMMA AcceptTripStep ==
  ASSUME IndInv, NEW t \in Trips, NEW r \in Riders \cup {None},
         NEW d \in Drivers, AcceptTrip(t, r, d)
  PROVE  IndInv'
<1>0. /\ TypeOK /\ Exists(t)
      /\ pressed' = pressed \cup {<<t, d>>}
      /\ accepts' = accepts \cup {<<t, d>>}
      /\ UNCHANGED <<trip, cancels, assigned, ended, worker, activeRider,
                     activeDriver, given, served>>
  BY DEF IndInv, AcceptTrip
<1>1. /\ calls' \in 0..MaxCalls /\ faults' \in 0..MaxFaults
      /\ marred' \subseteq Trips /\ named' \subseteq Trips \X Riders
      /\ pair' \in [Trips -> Pair]
  BY <1>0 DEF TypeOK, AcceptTrip, Called, Fault, Pair
<1>2. TypeOK'
  BY <1>0, <1>1 DEF TypeOK
<1>3. RidersStay /\ Exists(t)'
  BY <1>0 DEF RidersStay, Exists
<1>4. \A x \in pressed' \ pressed : Exists(x[1])'
  BY <1>0, <1>3
<1> QED BY <1>0, <1>2, <1>3, <1>4, StepIndInv

LEMMA SetTripChatPairStep ==
  ASSUME IndInv, NEW t \in Trips, NEW d \in Drivers, SetTripChatPair(t, d)
  PROVE  IndInv'
<1>0. /\ TypeOK /\ Exists(t) /\ trip[t].rider \in Riders /\ <<t, d>> \in given
      /\ activeDriver' = [activeDriver EXCEPT ![trip[t].rider] = d]
      /\ UNCHANGED <<trip, calls, cancels, accepts, ended, worker, pressed, named, given>>
  BY TripType DEF IndInv, TypeOK, TripsExist, SetTripChatPair
<1>1. /\ faults' \in 0..MaxFaults
      /\ marred' \subseteq Trips /\ served' \subseteq Trips
      /\ pair' \in [Trips -> Pair]
      /\ activeRider' \in [Drivers -> Riders \cup {None}]
      /\ activeDriver' \in [Riders -> Drivers \cup {None}]
      /\ assigned' \subseteq assigned
  BY <1>0 DEF TypeOK, SetTripChatPair, Fault, Pair
<1>2. TypeOK'
  BY <1>0, <1>1 DEF TypeOK
<1>3. ASSUME NEW r \in Riders
      PROVE  activeDriver'[r] \in {activeDriver[r], None} \/ Tied(activeDriver[r], r)'
  BY <1>0 DEF TypeOK, Tied
<1> QED BY <1>0, <1>2, <1>3, RedisStep

LEMMA KeyExpiresStep ==
  ASSUME IndInv, KeyExpires
  PROVE  IndInv'
<1>0. TypeOK /\ UNCHANGED <<trip, calls, queueVars, worker, pressed, named, given, served>>
  BY DEF IndInv, KeyExpires
<1>1. /\ faults' \in 0..MaxFaults
      /\ marred' \subseteq Trips
      /\ pair' \in [Trips -> Pair]
      /\ activeRider' \in [Drivers -> Riders \cup {None}]
      /\ activeDriver' \in [Riders -> Drivers \cup {None}]
  BY <1>0 DEF TypeOK, KeyExpires, Fault, Pair, NoPair
<1>2. TypeOK'
  BY <1>0, <1>1 DEF TypeOK, queueVars
<1>3. \A r \in Riders : activeDriver'[r] \in {activeDriver[r], None}
  BY <1>0 DEF TypeOK, KeyExpires
<1> QED BY <1>0, <1>2, <1>3, RedisStep DEF queueVars

----------------------------------------------------------------------------
(* The consumers *)

\* Only consumer w moves.
LEMMA WorkerStep ==
  ASSUME IndInv, NEW w \in Workers, NEW x \in {Idle} \cup Handling,
         worker' = [worker EXCEPT ![w] = x],
         x = Idle \/ SameWork(w) \/ GoodWorker(w)',
         UNCHANGED <<trip, calls, cancels, accepts, assigned, pressed, named, given,
                     served>>,
         ended' \subseteq ended,
         faults' \in 0..MaxFaults, marred' \subseteq Trips,
         pair' \in [Trips -> Pair],
         activeRider' \in [Drivers -> Riders \cup {None}],
         activeDriver' \in [Riders -> Drivers \cup {None}],
         \A r \in Riders : activeDriver'[r] \in {activeDriver[r], None}
  PROVE  IndInv'
<1>0. TypeOK
  BY DEF IndInv
<1>1. worker'[w] = x /\ \A v \in Workers \ {w} : worker'[v] = worker[v]
  BY <1>0 DEF TypeOK
<1>2. TypeOK'
  BY <1>0 DEF TypeOK
<1>3. x = Idle => GoodWorker(w)'
  BY <1>1 DEF GoodWorker, Idle
<1> QED BY <1>1, <1>2, <1>3, RedisStep

\* Consumer w takes event e, with driver d to tell.
LEMMA TakeStep ==
  ASSUME IndInv, NEW w \in Workers, NEW e \in ended,
         NEW d \in Drivers \cup {None}, NEW pc \in {"read", "notify"},
         Handle(w, e, pc, d),
         d # None => Tied(d, trip[e.trip].rider),
         faults' \in 0..MaxFaults, marred' \subseteq Trips,
         UNCHANGED <<trip, calls, queueVars, redisVars, pressed, named, given, served>>
  PROVE  IndInv'
<1> DEFINE x == [pc |-> pc, event |-> e, driver |-> d, seen |-> NoPair]
<1>0. TypeOK /\ e \in Event /\ Exists(e.trip)
  BY DEF IndInv, TypeOK, TripsExist
<1>1. x \in Handling /\ worker' = [worker EXCEPT ![w] = x]
  BY <1>0 DEF Handling, Handle, Pair, NoPair
<1>2. worker'[w].event = e /\ worker'[w].driver = d
  BY <1>0, <1>1 DEF TypeOK
<1>3. GoodWorker(w)'
  BY <1>0, <1>2 DEF GoodWorker, Exists, Tied
<1> HIDE DEF x
<1> QED BY <1>0, <1>1, <1>3, WorkerStep DEF TypeOK, queueVars, redisVars

LEMMA TakeCancelledStep ==
  ASSUME IndInv, NEW w \in Workers, NEW e \in ended, TakeCancelled(w, e)
  PROVE  IndInv'
<1>0. /\ TypeOK /\ e \in Event /\ e.trip \in Trips /\ Exists(e.trip)
      /\ e.driver \in Drivers \cup {None}
      /\ trip[e.trip].rider \in Riders
      /\ UNCHANGED <<trip, calls, queueVars, redisVars, pressed, named, given, served>>
  BY EventType, TripType DEF IndInv, TypeOK, TripsExist, TakeCancelled
<1>1. faults' \in 0..MaxFaults /\ marred' \subseteq Trips
  BY <1>0 DEF TypeOK, TakeCancelled, Fault
<1>2. CASE e.driver # None /\ Handle(w, e, "read", e.driver)
  <2>1. Tied(e.driver, trip[e.trip].rider)
    BY <1>0, <1>2 DEF IndInv, DriversAreGiven, Tied, TakeCancelled
  <2> QED BY <1>0, <1>1, <1>2, <2>1, TakeStep
<1>3. ASSUME NEW d \in GetActiveDriver(trip[e.trip].rider),
             Handle(w, e, IF d = None THEN "notify" ELSE "read", d)
      PROVE  IndInv'
  <2>1. d = activeDriver[trip[e.trip].rider] /\ d \in Drivers \cup {None}
    BY <1>0, <1>3 DEF GetActiveDriver, TypeOK
  <2>2. d # None => Tied(d, trip[e.trip].rider)
    BY <1>0, <2>1 DEF IndInv, DriversAreGiven
  <2> QED BY <1>0, <1>1, <1>3, <2>1, <2>2, TakeStep
<1>4. CASE Handle(w, e, "notify", None)
  BY <1>0, <1>1, <1>4, TakeStep
<1> QED BY <1>2, <1>3, <1>4 DEF TakeCancelled

LEMMA TakeCompletedStep ==
  ASSUME IndInv, NEW w \in Workers, NEW e \in ended, TakeCompleted(w, e)
  PROVE  IndInv'
<1>1. /\ Handle(w, e, "read", None)
      /\ faults' \in 0..MaxFaults /\ marred' \subseteq Trips
      /\ UNCHANGED <<trip, calls, queueVars, redisVars, pressed, named, given, served>>
  BY DEF IndInv, TypeOK, TakeCompleted, boundVars, histVars
<1> QED BY <1>1, TakeStep

\* A consumer goes on with what it has.
LEMMA ClearStep ==
  ASSUME IndInv, NEW w \in Workers,
         ClearReads(w) \/ ClearDeletes(w) \/ ClearFails(w)
  PROVE  IndInv'
<1>0. TypeOK /\ worker[w] # Idle /\ worker[w] \in Handling
  BY WorkerType DEF IndInv, ClearReads, ClearDeletes, ClearFails, Idle
<1>a. worker[w].event.trip \in Trips
  BY <1>0, WorkerType
<1>1. PICK x \in Handling : /\ worker' = [worker EXCEPT ![w] = x]
                            /\ x.event = worker[w].event
                            /\ x.driver = worker[w].driver
  <2>1. CASE ClearReads(w)
    <3>1. pair[worker[w].event.trip] \in Pair
      BY <1>0, <1>a DEF TypeOK
    <3> DEFINE x == [worker[w] EXCEPT !.pc = "delete",
                                      !.seen = pair[worker[w].event.trip]]
    <3>2. /\ x \in Handling
          /\ x.event = worker[w].event /\ x.driver = worker[w].driver
      BY <1>0, <3>1 DEF Handling
    <3>3. worker' = [worker EXCEPT ![w] = x]
      BY <1>0, <2>1 DEF TypeOK, ClearReads
    <3> QED BY <3>2, <3>3
  <2>2. CASE ClearDeletes(w) \/ ClearFails(w)
    BY <1>0, <2>2 DEF TypeOK, ClearDeletes, ClearFails, Handling
  <2> QED BY <2>1, <2>2
<1>2. SameWork(w)
  BY <1>0, <1>1 DEF SameWork, TypeOK
<1>3. /\ UNCHANGED <<trip, calls, cancels, accepts, assigned, ended, pressed, named,
                     given, served>>
      /\ faults' \in 0..MaxFaults /\ marred' \subseteq Trips
  BY <1>0, <1>a DEF TypeOK, ClearReads, ClearDeletes, ClearFails, Fault, queueVars,
                   boundVars, histVars
<1>4. /\ pair' \in [Trips -> Pair]
      /\ activeRider' \in [Drivers -> Riders \cup {None}]
      /\ activeDriver' \in [Riders -> Drivers \cup {None}]
      /\ \A r \in Riders : activeDriver'[r] \in {activeDriver[r], None}
  BY <1>0, <1>a DEF TypeOK, ClearReads, ClearDeletes, ClearFails, redisVars, Pair,
                   NoPair
<1> QED BY <1>1, <1>2, <1>3, <1>4, WorkerStep

LEMMA EndStep ==
  ASSUME IndInv, NEW w \in Workers, Notify(w) \/ WorkerCrashes(w)
  PROVE  IndInv'
<1>1. /\ worker' = [worker EXCEPT ![w] = Idle]
      /\ UNCHANGED <<trip, calls, cancels, accepts, assigned, redisVars, pressed, named,
                     given, served, marred>>
      /\ ended' \subseteq ended
      /\ faults' \in 0..MaxFaults
  BY DEF IndInv, TypeOK, Notify, WorkerCrashes, Fault, queueVars, histVars
<1> QED BY <1>1, WorkerStep DEF IndInv, TypeOK, redisVars

----------------------------------------------------------------------------
(* The streams: what every step keeps *)

\* The documents keep their riders and the histories grow.
Grows ==
  /\ RidersStay
  /\ given \subseteq given' /\ pressed \subseteq pressed'
  /\ named \subseteq named'
  /\ served \subseteq served' /\ marred \subseteq marred'

LEMMA TripServiceGrows ==
  ASSUME IndInv, NEW t \in Trips, NEW d,
         \/ \E r \in Riders : CreateTrip(t, r)
         \/ handleTripAccepted(t, d) /\ <<t, d>> \in pressed
         \/ CancelRead(t)
         \/ CancelUpdate(t, d)
         \/ CompleteTrip(t)
  PROVE  Grows
<1>0. TypeOK
  BY DEF IndInv
<1>1. CASE \E r \in Riders : CreateTrip(t, r)
  BY <1>0, <1>1 DEF CreateTrip, Grows, RidersStay, Exists, TypeOK, histVars
<1>2. CASE handleTripAccepted(t, d) /\ <<t, d>> \in pressed
  <2> DEFINE new == [trip[t] EXCEPT !.status = "accepted", !.driver = d]
  <2>1. Exists(t) /\ trip[t] \in Trip /\ <<t, d>> \in Trips \X Drivers
    BY <1>0, <1>2, TripType DEF IndInv, TypeOK, TripsExist
  <2>2. new \in Trip /\ new.rider = trip[t].rider
    BY <2>1 DEF Trip
  <2>3. trip' = [trip EXCEPT ![t] = new] \/ trip' = trip
    BY <1>2 DEF handleTripAccepted
  <2>4. trip'[t].rider = trip[t].rider /\ trip'[t] \in Trip
        /\ \A u \in Trips \ {t} : trip'[u] = trip[u]
    BY <1>0, <2>1, <2>2, <2>3 DEF TypeOK
  <2>5. RidersStay
    BY <2>4, TripExists DEF RidersStay, Exists
  <2> QED BY <1>2, <2>5 DEF handleTripAccepted, Grows
<1>3. CASE CancelRead(t)
  BY <1>3 DEF CancelRead, Grows, RidersStay, Exists, histVars
<1>4. CASE CancelUpdate(t, d) \/ CompleteTrip(t)
  <2>1. Exists(t) /\ trip[t] \in Trip
    BY <1>0, <1>4, TripType DEF IndInv, TripsExist, CancelUpdate, CompleteTrip
  <2>2. \/ UNCHANGED trip
        \/ \E st \in {"cancelled", "completed"} : trip' = [trip EXCEPT ![t].status = st]
    BY <1>4 DEF CancelUpdate, CompleteTrip
  <2>3. RidersStay
    BY <1>0, <2>1, <2>2, TripExists DEF RidersStay, Exists, TypeOK, Trip
  <2> QED BY <1>4, <2>3 DEF CancelUpdate, CompleteTrip, Grows, histVars
<1> QED BY <1>1, <1>2, <1>3, <1>4

\* A trip stays entangled with another.
LEMMA EntangledStays ==
  ASSUME IndInv, Grows, NEW t \in Trips, Exists(t), NEW d, Entangled(t, d)
  PROVE  Entangled(t, d)'
<1>1. PICK u \in Trips \ {t} : /\ Exists(u)
                               /\ \/ trip[u].rider = trip[t].rider
                                  \/ <<u, trip[t].rider>> \in named
                                  \/ <<u, d>> \in pressed
  BY DEF Entangled
<1>2. /\ Exists(u)' /\ trip'[u].rider = trip[u].rider
      /\ trip'[t].rider = trip[t].rider
  BY <1>1 DEF Grows, RidersStay
<1> QED BY <1>1, <1>2 DEF Grows, Entangled

\* The driver of a trip that is served and not marred is the one who pressed
\* accept, before a step and after it.
LEMMA SameDriver ==
  ASSUME IndInv, IndInv', StreamInv, OneDriver', Grows,
         NEW t \in served, t \notin marred'
  PROVE  /\ t \in Trips /\ t \notin marred /\ Exists(t)
         /\ trip[t].driver \in Drivers /\ trip'[t].driver = trip[t].driver
         /\ trip[t].rider \in Riders /\ trip'[t].rider = trip[t].rider
         /\ <<t, trip[t].driver>> \in given
         /\ ~Entangled(t, trip[t].driver)' => ~Entangled(t, trip[t].driver)
<1>1. /\ t \in Trips /\ t \notin marred /\ Exists(t) /\ trip[t].driver # None
      /\ t \in served'
  BY DEF IndInv, TypeOK, Grows, StreamInv, OneDriver
<1>2. Exists(t)' /\ trip'[t].driver # None
  BY <1>1 DEF OneDriver
<1>3. /\ <<t, trip[t].driver>> \in given
      /\ <<t, trip'[t].driver>> \in given'
  BY <1>1, <1>2 DEF IndInv, DriversAreGiven
<1>4. /\ trip[t] \in Trip /\ trip[t].rider \in Riders
      /\ trip'[t].rider = trip[t].rider
  BY <1>1, TripType DEF IndInv, Grows, RidersStay
<1>5. /\ <<t, trip[t].driver>> \in pressed'
      /\ <<t, trip'[t].driver>> \in pressed'
  BY <1>3 DEF Grows, OneDriver
<1>6. trip[t].driver \in Drivers /\ trip'[t].driver \in Drivers
  BY <1>5 DEF IndInv, TypeOK
<1>7. trip'[t].driver = trip[t].driver
  BY <1>1, <1>5, <1>6 DEF OneDriver
<1>8. Entangled(t, trip[t].driver) => Entangled(t, trip[t].driver)'
  <2>1. PICK d : d = trip[t].driver
    OBVIOUS
  <2>2. Entangled(t, d) => Entangled(t, d)'
    BY <1>1, EntangledStays
  <2> QED BY <1>7, <2>1, <2>2 DEF Entangled
<1> QED BY <1>1, <1>3, <1>4, <1>6, <1>7, <1>8 DEF Entangled

\* The keys of a trip stay as they are, and its end, once queued or new, is
\* still to be handled.
LEMMA KeysStay ==
  ASSUME NEW t \in Trips, UpOrDown(t),
         NEW d, d = trip[t].driver, trip'[t].driver = d,
         trip'[t].rider = trip[t].rider,
         pair'[t] = pair[t],
         activeRider'[d] = activeRider[d],
         activeDriver'[trip[t].rider] = activeDriver[trip[t].rider],
         Entangled(t, d) => Entangled(t, d)',
         Ended(t) => Ended(t)',
         ~Ended(t) /\ Ended(t)' => EndIsQueued(t)',
         Up(t, d) /\ EndIsQueued(t) => EndIsQueued(t)'
  PROVE  UpOrDown(t)'
<1>1. /\ Up(t, d) => Up(t, d)'
      /\ Down(t, d) => Down(t, d)'
  BY DEF Up, Down
<1>2. Entangled(t, trip[t].driver)' => Entangled(t, d)'
  BY DEF Entangled
<1>3. CASE Entangled(t, d)'
  BY <1>3 DEF UpOrDown, Entangled
<1>4. CASE ~Entangled(t, d)'
  <2>1. IF Ended(t) THEN (Up(t, d) /\ EndIsQueued(t)) \/ Down(t, d) ELSE Up(t, d)
    BY <1>4 DEF UpOrDown
  <2>2. IF Ended(t)' THEN (Up(t, d)' /\ EndIsQueued(t)') \/ Down(t, d)' ELSE Up(t, d)'
    BY <1>1, <2>1
  <2>3. /\ Up(t, d)' => Up(t, trip[t].driver)'
        /\ Down(t, d)' => Down(t, trip[t].driver)'
    BY DEF Up, Down
  <2> QED BY <2>2, <2>3 DEF UpOrDown
<1> QED BY <1>3, <1>4

LEMMA TripServiceStream ==
  ASSUME IndInv, IndInv', StreamInv, Grows, NEW t \in Trips,
         UNCHANGED <<worker, redisVars, pressed, named, served>>,
         \A u \in Trips \ {t} : trip'[u] = trip[u],
         \A x \in given' \ given : x[1] = t /\ x \in pressed /\ trip'[t].driver # None,
         Exists(t) /\ trip[t].driver # None => trip'[t].driver # None,
         ended \subseteq ended',
         \A e \in ended' \ ended : e.trip = t /\ Ended(t)',
         t \notin marred' /\ Ended(t) => Ended(t)',
         Ended(t)' /\ ~Ended(t) => \E e \in ended' : e.trip = t
  PROVE  StreamInv'
<1>0. /\ TypeOK /\ TypeOK' /\ OneDriver /\ KeysArePressed /\ EndsOnce /\ SeenLasts
      /\ WatchersAreServed /\ marred \subseteq marred' /\ RidersStay
      /\ given \subseteq given'
  BY DEF IndInv, StreamInv, Grows
<1>1. \A x \in given : x[1] \in Trips /\ Exists(x[1])
  BY <1>0 DEF IndInv, TypeOK, TripsExist
<1>2. OneDriver'
  <2>1. \A u \in Trips : Exists(u) /\ trip[u].driver # None
                          => Exists(u)' /\ trip'[u].driver # None
    BY <1>0 DEF RidersStay
  <2>2. \A x \in given' : trip'[x[1]].driver # None
    BY <1>0, <1>1, <2>1 DEF OneDriver
  <2>3. \A u \in served' : Exists(u)' /\ trip'[u].driver # None
    BY <1>0, <2>1 DEF OneDriver, TypeOK
  <2> QED BY <1>0, <2>2, <2>3 DEF OneDriver
<1>3. KeysArePressed'
  <2>1. ASSUME NEW u \in Trips, NEW p, MayBePair(u, p) PROVE MayBePair(u, p)'
    <3>1. p # NoPair => Exists(u)
      BY <2>1 DEF MayBePair, IndInv, TripsExist
    <3> QED BY <1>0, <2>1, <3>1 DEF MayBePair, NoPair, RidersStay, Grows
  <2> QED BY <1>0, <2>1, WorkerType DEF KeysArePressed, MayBePair, NoPair, redisVars
<1>4. EndsOnce'
  <2> SUFFICES ASSUME NEW u \in Trips \ marred', ~Ended(u)'
               PROVE  /\ \A e \in ended' : e.trip # u
                      /\ \A w \in Workers : worker[w] # Idle => worker[w].event.trip # u
    BY DEF EndsOnce
  <2>1. ~Ended(u)
    BY DEF Ended, Exists
  <2> QED BY <1>0, <2>1 DEF EndsOnce
<1>5. SeenLasts'
  BY <1>0 DEF SeenLasts, redisVars
<1>6. WatchersAreServed'
  <2> SUFFICES ASSUME NEW d \in Drivers, activeRider[d] # None
               PROVE  \E u \in served : <<u, d>> \in given' /\ trip'[u].rider = activeRider[d]
    BY DEF WatchersAreServed, redisVars
  <2>1. PICK u \in served : <<u, d>> \in given /\ trip[u].rider = activeRider[d]
    BY <1>0 DEF WatchersAreServed
  <2>2. trip'[u].rider = trip[u].rider
    BY <1>0, <2>1 DEF OneDriver, RidersStay, TypeOK
  <2> QED BY <1>0, <2>1, <2>2
<1>7. ASSUME NEW u \in served' \ marred' PROVE UpOrDown(u)'
  <2>1. u \in served
    OBVIOUS
  <2>2. /\ u \in Trips \ marred
        /\ trip'[u].driver = trip[u].driver
        /\ trip'[u].rider = trip[u].rider
        /\ trip[u].driver \in Drivers /\ trip[u].rider \in Riders
        /\ ~Entangled(u, trip[u].driver)' => ~Entangled(u, trip[u].driver)
    BY <1>2, <2>1, SameDriver
  <2>3. PICK d \in Drivers : d = trip[u].driver
    BY <2>2
  <2>4. Entangled(u, d) => Entangled(u, d)'
    BY <2>2, <2>3 DEF Entangled
  <2>5. UpOrDown(u)
    BY <2>1, <2>2 DEF StreamInv
  <2>6. EndIsQueued(u) => EndIsQueued(u)'
    BY DEF EndIsQueued
  <2>7. Ended(u) => Ended(u)'
    BY <2>2 DEF Ended, Exists
  <2>8. ~Ended(u) /\ Ended(u)' => EndIsQueued(u)'
    <3> SUFFICES ASSUME ~Ended(u), Ended(u)' PROVE EndIsQueued(u)'
      OBVIOUS
    <3>1. PICK e \in ended' : e.trip = u
      BY <2>2 DEF Ended, Exists
    <3>2. \A w \in Workers : worker[w] # Idle => worker[w].event.trip # u
      BY <1>0, <2>2 DEF EndsOnce
    <3> QED BY <3>1, <3>2 DEF EndIsQueued
  <2> QED BY <2>2, <2>3, <2>4, <2>5, <2>6, <2>7, <2>8, KeysStay DEF redisVars
<1> QED BY <1>2, <1>3, <1>4, <1>5, <1>6, <1>7 DEF StreamInv

LEMMA CreateTripStream ==
  ASSUME IndInv, IndInv', StreamInv, NEW t \in Trips, NEW r \in Riders, CreateTrip(t, r)
  PROVE  StreamInv'
<1>0. TypeOK /\ ~Exists(t)
  BY DEF IndInv, CreateTrip
<1>1. Grows
  BY TripServiceGrows
<1>2. /\ trip'[t].status = "pending"
      /\ \A u \in Trips \ {t} : trip'[u] = trip[u]
  BY <1>0 DEF CreateTrip, TypeOK
<1>3. ~Ended(t) /\ ~Ended(t)'
  BY <1>0, <1>2 DEF Ended
<1> QED BY <1>0, <1>1, <1>2, <1>3, TripServiceStream
        DEF CreateTrip, queueVars, redisVars, histVars

LEMMA handleTripAcceptedStream ==
  ASSUME IndInv, IndInv', StreamInv, NEW t \in Trips, NEW d \in Drivers,
         handleTripAccepted(t, d)
  PROVE  StreamInv'
<1> DEFINE new == [trip[t] EXCEPT !.status = "accepted", !.driver = d]
<1>0. /\ TypeOK /\ <<t, d>> \in pressed /\ Exists(t) /\ trip[t] \in Trip
      /\ UNCHANGED <<cancels, ended, worker, redisVars, boundVars, pressed, named, served>>
  BY TripType DEF IndInv, TypeOK, TripsExist, handleTripAccepted
<1>1. Grows
  BY <1>0, TripServiceGrows
<1>2. CASE trip[t] = new
  <2>1. UNCHANGED <<trip, given, marred>>
    BY <1>2 DEF handleTripAccepted
  <2> QED BY <1>0, <1>1, <2>1, TripServiceStream DEF Ended, Exists
<1>3. CASE trip[t] # new
  <2>1. /\ trip' = [trip EXCEPT ![t] = new]
        /\ given' = given \cup {<<t, d>>}
        /\ marred' = IF Ended(t) THEN marred \cup {t} ELSE marred
    BY <1>3 DEF handleTripAccepted
  <2>2. new.status = "accepted" /\ new.driver = d
    BY <1>0 DEF Trip
  <2> HIDE DEF new
  <2>3. trip'[t] = new /\ \A u \in Trips \ {t} : trip'[u] = trip[u]
    BY <1>0, <2>1 DEF TypeOK
  <2>4. ~Ended(t)' /\ (Ended(t) => t \in marred')
    BY <2>1, <2>2, <2>3 DEF Ended
  <2>5. d # None
    OBVIOUS
  <2>6. \A x \in given' \ given : x[1] = t /\ x \in pressed /\ trip'[t].driver # None
    BY <1>0, <2>1, <2>2, <2>3, <2>5
  <2> QED BY <1>0, <1>1, <2>2, <2>3, <2>4, <2>5, <2>6, TripServiceStream
<1> QED BY <1>2, <1>3

LEMMA CancelReadStream ==
  ASSUME IndInv, IndInv', StreamInv, NEW t \in Trips, CancelRead(t)
  PROVE  StreamInv'
<1>1. Grows
  BY TripServiceGrows
<1> QED BY <1>1, TripServiceStream DEF CancelRead, histVars, Ended, Exists

\* The trip ends, and an event says so.
LEMMA EndStream ==
  ASSUME IndInv, IndInv', StreamInv, Grows, NEW t \in Trips, Exists(t),
         NEW st \in {"cancelled", "completed"},
         trip' = [trip EXCEPT ![t].status = st],
         NEW ev, \A e \in ev : e.trip = t, ev # {}, ended' = ended \cup ev,
         UNCHANGED <<worker, redisVars, pressed, named, served, given>>
  PROVE  StreamInv'
<1>0. TypeOK /\ trip[t] \in Trip
  BY TripType DEF IndInv
<1>1. /\ trip'[t].status = st /\ trip'[t].driver = trip[t].driver
      /\ \A u \in Trips \ {t} : trip'[u] = trip[u]
  BY <1>0 DEF TypeOK, Trip
<1>2. Ended(t)'
  BY <1>1 DEF Grows, RidersStay, Ended
<1> QED BY <1>0, <1>1, <1>2, TripServiceStream

LEMMA CancelUpdateStream ==
  ASSUME IndInv, IndInv', StreamInv, NEW c \in cancels, CancelUpdate(c[1], c[2])
  PROVE  StreamInv'
<1>1. PICK t \in Trips, d \in Drivers \cup {None} : c = <<t, d>> /\ CancelUpdate(t, d)
  BY DEF IndInv, TypeOK
<1>2. Grows /\ Exists(t)
  BY <1>1, TripServiceGrows DEF IndInv, TripsExist
<1>3. UNCHANGED <<worker, redisVars, pressed, named, served, given>>
  BY <1>1 DEF CancelUpdate, histVars
<1>4. CASE trip[t].status = "cancelled"
  <2>1. UNCHANGED <<trip, ended>>
    BY <1>1, <1>4 DEF CancelUpdate
  <2> QED BY <1>2, <1>3, <2>1, TripServiceStream DEF Ended, Exists
<1>5. CASE trip[t].status # "cancelled"
  <2> DEFINE ev == {[kind |-> "cancelled", trip |-> t, driver |-> d]}
  <2>1. trip' = [trip EXCEPT ![t].status = "cancelled"] /\ ended' = ended \cup ev
    BY <1>1, <1>5 DEF CancelUpdate
  <2>2. ev # {} /\ \A e \in ev : e.trip = t
    OBVIOUS
  <2> HIDE DEF ev
  <2> QED BY <1>2, <1>3, <2>1, <2>2, EndStream
<1> QED BY <1>4, <1>5

LEMMA CompleteTripStream ==
  ASSUME IndInv, IndInv', StreamInv, NEW t \in Trips, CompleteTrip(t)
  PROVE  StreamInv'
<1> DEFINE ev == {[kind |-> "completed", trip |-> t, owner |-> u] :
                    u \in {trip[t].rider, trip[t].driver}}
<1>1. Grows
  BY TripServiceGrows
<1>2. ev # {} /\ \A e \in ev : e.trip = t
  <2>1. [kind |-> "completed", trip |-> t, owner |-> trip[t].rider] \in ev
    OBVIOUS
  <2>2. \A e \in ev : e.trip = t
    OBVIOUS
  <2> HIDE DEF ev
  <2> QED BY <2>1, <2>2
<1>3. /\ Exists(t)
      /\ trip' = [trip EXCEPT ![t].status = "completed"] /\ ended' = ended \cup ev
      /\ UNCHANGED <<worker, redisVars, pressed, named, served, given>>
  BY DEF CompleteTrip, histVars
<1> HIDE DEF ev
<1> QED BY <1>1, <1>2, <1>3, EndStream

----------------------------------------------------------------------------
(* The streams: setting the keys *)

LEMMA AcceptTripStream ==
  ASSUME IndInv, IndInv', StreamInv, NEW t \in Trips,
         NEW r \in Riders \cup {None}, NEW d \in Drivers, AcceptTrip(t, r, d)
  PROVE  StreamInv'
<1>0. /\ TypeOK /\ OneDriver /\ KeysArePressed /\ EndsOnce /\ SeenLasts
      /\ WatchersAreServed
      /\ pressed' = pressed \cup {<<t, d>>}
      /\ UNCHANGED <<trip, cancels, assigned, ended, worker, activeRider,
                     activeDriver, given, served>>
  BY DEF IndInv, StreamInv, AcceptTrip
<1> DEFINE new == [rider |-> r, driver |-> d]
<1>1. /\ marred \subseteq marred' /\ named \subseteq named'
      /\ Mars(t, d) => t \in marred'
      /\ \A u \in Trips \ {t} : pair'[u] = pair[u]
      /\ \/ pair'[t] = pair[t]
         \/ /\ pair'[t] = new /\ <<t, r>> \in named'
            /\ t \in served /\ r # trip[t].rider => t \in marred'
  BY <1>0 DEF AcceptTrip, TypeOK
<1>2. Grows
  BY <1>0, <1>1 DEF Grows, RidersStay, Exists
<1>3. t \notin marred' => /\ ~Ended(t)
                          /\ \A e \in Drivers \ {d} : <<t, e>> \notin pressed
  BY <1>0, <1>1 DEF Mars
<1>4. OneDriver'
  <2>1. ASSUME NEW u \in Trips \ marred', NEW e \in Drivers, NEW f \in Drivers,
               <<u, e>> \in pressed', <<u, f>> \in pressed'
        PROVE  e = f
    <3>1. CASE u = t
      BY <1>0, <1>3, <2>1, <3>1
    <3>2. CASE u # t
      BY <1>0, <1>1, <2>1, <3>2 DEF OneDriver
    <3> QED BY <3>1, <3>2
  <2> QED BY <1>0, <2>1 DEF OneDriver, Exists
<1>5. KeysArePressed'
  <2>1. ASSUME NEW u \in Trips, NEW p, MayBePair(u, p) PROVE MayBePair(u, p)'
    BY <1>0, <1>1, <2>1 DEF MayBePair, NoPair
  <2>2. MayBePair(t, new)' \/ pair'[t] = pair[t]
    BY <1>0, <1>1 DEF MayBePair, NoPair
  <2>3. ASSUME NEW u \in Trips PROVE MayBePair(u, pair[u])'
    BY <1>0, <1>1, <2>1, <2>2, <2>3 DEF KeysArePressed, MayBePair, NoPair
  <2>4. ASSUME NEW w \in Workers, worker[w] # Idle
        PROVE  MayBePair(worker[w].event.trip, worker[w].seen)'
    BY <1>0, <2>1, <2>4, WorkerType DEF KeysArePressed, MayBePair, NoPair
  <2> QED BY <1>0, <2>3, <2>4 DEF KeysArePressed
<1>6. EndsOnce'
  BY <1>0, <1>1 DEF EndsOnce, Ended, Exists
<1>7. SeenLasts'
  <2> SUFFICES ASSUME NEW w \in Workers, worker[w] # Idle, worker[w].pc = "delete",
                      worker[w].event.trip \notin marred'
               PROVE  pair'[worker[w].event.trip] \in {NoPair, worker[w].seen}
    BY <1>0 DEF SeenLasts, NoPair
  <2>1. worker[w].event.trip \in Trips
    BY <1>0, WorkerType
  <2>2. worker[w].event.trip # t
    BY <1>0, <1>1, <1>3, <2>1 DEF EndsOnce
  <2> QED BY <1>0, <1>1, <2>1, <2>2 DEF SeenLasts
<1>8. WatchersAreServed'
  BY <1>0 DEF WatchersAreServed
<1>9. ASSUME NEW u \in served' \ marred' PROVE UpOrDown(u)'
  <2>1. u \in served
    BY <1>0
  <2>2. PICK e \in Drivers : /\ u \in Trips \ marred /\ e = trip[u].driver
                             /\ Exists(u)
                             /\ <<u, e>> \in given /\ trip[u].rider \in Riders
    BY <1>2, <1>4, <2>1, SameDriver
  <2>3. UpOrDown(u) /\ (Entangled(u, e) => Entangled(u, e)')
    BY <1>2, <2>1, <2>2, EntangledStays DEF StreamInv
  <2>4. /\ EndIsQueued(u) => EndIsQueued(u)'
        /\ Ended(u) <=> Ended(u)'
    BY <1>0 DEF EndIsQueued, Ended, Exists
  <2>5. CASE Entangled(u, e)'
    BY <1>0, <2>2, <2>5 DEF UpOrDown, Entangled, Exists
  <2>6. CASE ~Entangled(u, e)'
    <3>1. pair'[u] = pair[u]
      <4>1. CASE u # t
        BY <1>1, <2>2, <4>1
      <4>2. CASE u = t
        <5>1. e = d
          BY <1>0, <1>3, <2>2, <4>2 DEF OneDriver
        <5>2. Up(t, d)
          BY <1>3, <2>2, <2>3, <2>6, <4>2, <5>1 DEF UpOrDown
        <5> QED BY <1>1, <2>1, <4>2, <5>2 DEF Up
      <4> QED BY <4>1, <4>2
    <3> QED BY <1>0, <2>2, <2>3, <2>4, <3>1, KeysStay
  <2> QED BY <2>5, <2>6
<1> QED BY <1>4, <1>5, <1>6, <1>7, <1>8, <1>9 DEF StreamInv

LEMMA SetTripChatPairStream ==
  ASSUME IndInv, IndInv', StreamInv, NEW t \in Trips, NEW d \in Drivers,
         SetTripChatPair(t, d)
  PROVE  StreamInv'
<1>0. /\ TypeOK /\ OneDriver /\ KeysArePressed /\ EndsOnce /\ SeenLasts
      /\ WatchersAreServed
      /\ <<t, d>> \in given /\ <<t, d>> \in pressed /\ Exists(t)
      /\ trip[t].driver # None
      /\ served' = served \cup {t}
      /\ UNCHANGED <<trip, calls, cancels, accepts, ended, worker, pressed, named, given>>
  BY DEF IndInv, TypeOK, TripsExist, StreamInv, OneDriver, SetTripChatPair
<1>1. PICK r \in Riders : r = trip[t].rider
  BY <1>0, TripType
<1>2. /\ marred \subseteq marred' /\ (Mars(t, d) => t \in marred')
      /\ pair'[t] = [rider |-> r, driver |-> d]
      /\ \A u \in Trips \ {t} : pair'[u] = pair[u]
      /\ activeRider'[d] = r /\ \A e \in Drivers \ {d} : activeRider'[e] = activeRider[e]
      /\ activeDriver'[r] = d /\ \A q \in Riders \ {r} : activeDriver'[q] = activeDriver[q]
  BY <1>0, <1>1 DEF SetTripChatPair, TypeOK
<1>3. Grows
  BY <1>0, <1>2 DEF Grows, RidersStay, Exists
<1>4. t \notin marred' => ~Ended(t)
  BY <1>2 DEF Mars
<1>5. OneDriver'
  BY <1>0, <1>2 DEF OneDriver, Exists
<1>6. KeysArePressed'
  <2>1. ASSUME NEW u \in Trips PROVE MayBePair(u, pair[u])'
    BY <1>0, <1>1, <1>2, <2>1 DEF KeysArePressed, MayBePair, NoPair
  <2> QED BY <1>0, <2>1 DEF KeysArePressed, MayBePair, NoPair
<1>7. EndsOnce'
  BY <1>0, <1>2 DEF EndsOnce, Ended, Exists
<1>8. SeenLasts'
  <2> SUFFICES ASSUME NEW w \in Workers, worker[w] # Idle, worker[w].pc = "delete",
                      worker[w].event.trip \notin marred'
               PROVE  pair'[worker[w].event.trip] \in {NoPair, worker[w].seen}
    BY <1>0 DEF SeenLasts
  <2>1. worker[w].event.trip \in Trips
    BY <1>0, WorkerType
  <2>2. worker[w].event.trip # t
    BY <1>0, <1>2, <1>4, <2>1 DEF EndsOnce
  <2> QED BY <1>0, <1>2, <2>1, <2>2 DEF SeenLasts
<1>9. WatchersAreServed'
  <2> SUFFICES ASSUME NEW e \in Drivers, activeRider'[e] # None
               PROVE  \E u \in served' : <<u, e>> \in given /\ trip[u].rider = activeRider'[e]
    BY <1>0 DEF WatchersAreServed
  <2>1. CASE e = d
    BY <1>0, <1>1, <1>2, <2>1
  <2>2. CASE e # d
    BY <1>0, <1>2, <2>2 DEF WatchersAreServed
  <2> QED BY <2>1, <2>2
<1>10. ASSUME NEW u \in served' \ marred' PROVE UpOrDown(u)'
  <2>1. CASE u = t
    <3>1. trip[t].driver = d
      <4>1. <<t, trip[t].driver>> \in given
        BY <1>0 DEF IndInv, DriversAreGiven
      <4>2. <<t, trip[t].driver>> \in pressed /\ trip[t].driver \in Drivers
        BY <1>0, <4>1 DEF OneDriver, TypeOK
      <4> QED BY <1>0, <1>2, <1>10, <2>1, <4>2 DEF OneDriver
    <3>2. ~Ended(t)'
      BY <1>0, <1>4, <1>10, <2>1 DEF Ended, Exists
    <3>3. Up(t, trip[t].driver)'
      BY <1>0, <1>1, <1>2, <3>1 DEF Up
    <3> QED BY <2>1, <3>2, <3>3 DEF UpOrDown
  <2>2. CASE u # t
    <3>1. u \in served
      BY <1>0, <1>10, <2>2
    <3>2. PICK e \in Drivers : /\ u \in Trips \ marred /\ e = trip[u].driver
                               /\ <<u, e>> \in given /\ trip[u].rider \in Riders
      BY <1>3, <1>5, <1>10, <3>1, SameDriver
    <3>3. UpOrDown(u) /\ (Entangled(u, e) <=> Entangled(u, e)')
      BY <1>0, <3>1, <3>2 DEF StreamInv, Entangled, Exists
    <3>4. /\ EndIsQueued(u) => EndIsQueued(u)'
          /\ Ended(u) <=> Ended(u)'
      BY <1>0 DEF EndIsQueued, Ended, Exists
    <3>5. CASE Entangled(u, e)'
      BY <1>0, <3>2, <3>5 DEF UpOrDown, Entangled, Exists
    <3>6. CASE ~Entangled(u, e)'
      <4>1. e # d /\ trip[u].rider # r
        BY <1>0, <1>1, <2>2, <3>2, <3>3, <3>6 DEF Entangled
      <4> QED BY <1>0, <1>2, <2>2, <3>2, <3>3, <3>4, <4>1, KeysStay
    <3> QED BY <3>5, <3>6
  <2> QED BY <2>1, <2>2
<1> QED BY <1>5, <1>6, <1>7, <1>8, <1>9, <1>10 DEF StreamInv

----------------------------------------------------------------------------
(* The streams: clearing the keys *)

\* What consumer w holds after a step: an event it had or took from the queue,
\* and a pair that was written for the event's trip.
GoodHand(w) ==
  worker'[w] # Idle =>
    /\ worker'[w].event \in ended \/ (worker[w] # Idle /\ worker'[w].event = worker[w].event)
    /\ MayBePair(worker'[w].event.trip, worker'[w].seen)
    /\ worker'[w].pc = "delete" /\ worker'[w].event.trip \notin marred'
         => pair'[worker'[w].event.trip] \in {NoPair, worker'[w].seen}

LEMMA ConsumerStream ==
  ASSUME IndInv, IndInv', StreamInv,
         UNCHANGED <<trip, pressed, named, given, served>>,
         marred \subseteq marred', ended' \subseteq ended,
         \A w \in Workers : worker'[w] = worker[w] \/ GoodHand(w),
         \A t \in Trips : pair'[t] \in {pair[t], NoPair},
         \A d \in Drivers : activeRider'[d] \in {activeRider[d], None},
         \A t \in served \ marred' : t \in Trips /\ UpOrDown(t) => UpOrDown(t)'
  PROVE  StreamInv'
<1>0. /\ TypeOK /\ OneDriver /\ KeysArePressed /\ EndsOnce /\ SeenLasts
      /\ WatchersAreServed
  BY DEF IndInv, StreamInv
<1>1. OneDriver'
  BY <1>0 DEF OneDriver, Exists
<1>2. KeysArePressed'
  <2>1. ASSUME NEW t \in Trips PROVE MayBePair(t, pair[t])'
    BY <1>0, <2>1 DEF KeysArePressed, MayBePair, NoPair
  <2>2. ASSUME NEW w \in Workers, worker'[w] # Idle
        PROVE  MayBePair(worker[w].event.trip, worker[w].seen)'
    BY <1>0, <2>2 DEF KeysArePressed, GoodHand, MayBePair, NoPair
  <2> QED BY <2>1, <2>2 DEF KeysArePressed
<1>3. EndsOnce'
  <2> SUFFICES ASSUME NEW t \in Trips \ marred', ~Ended(t)'
               PROVE  /\ \A e \in ended' : e.trip # t
                      /\ \A w \in Workers : worker'[w] # Idle => worker'[w].event.trip # t
    BY DEF EndsOnce
  <2>1. /\ \A e \in ended : e.trip # t
        /\ \A w \in Workers : worker[w] # Idle => worker[w].event.trip # t
    BY <1>0 DEF EndsOnce, Ended, Exists
  <2> QED BY <2>1 DEF GoodHand
<1>4. SeenLasts'
  <2> SUFFICES ASSUME NEW w \in Workers, worker'[w] # Idle, worker'[w].pc = "delete",
                      worker'[w].event.trip \notin marred'
               PROVE  pair'[worker'[w].event.trip] \in {NoPair, worker'[w].seen}
    BY DEF SeenLasts
  <2>1. CASE worker'[w] = worker[w]
    <3>1. worker[w].event.trip \in Trips
      BY <1>0, <2>1, WorkerType
    <3> QED BY <1>0, <2>1, <3>1 DEF SeenLasts
  <2> QED BY <2>1 DEF GoodHand
<1>5. WatchersAreServed'
  BY <1>0 DEF WatchersAreServed
<1>6. \A t \in served' \ marred' : UpOrDown(t)'
  BY <1>0 DEF StreamInv, TypeOK
<1> QED BY <1>1, <1>2, <1>3, <1>4, <1>5, <1>6 DEF StreamInv

LEMMA KeyExpiresStream ==
  ASSUME IndInv, IndInv', StreamInv, KeyExpires
  PROVE  StreamInv'
<1>0. TypeOK
  BY DEF IndInv
<1>1. /\ marred' = Trips
      /\ UNCHANGED <<trip, pressed, named, given, served, worker, ended>>
      /\ \A t \in Trips : pair'[t] \in {pair[t], NoPair}
      /\ \A d \in Drivers : activeRider'[d] \in {activeRider[d], None}
  BY <1>0 DEF KeyExpires, TypeOK, queueVars
<1> QED BY <1>0, <1>1, ConsumerStream DEF TypeOK

\* Consumer w moves, and leaves the keys alone.  An event that is still to be
\* handled stays so, unless this consumer passes over it.
LEMMA QuietStream ==
  ASSUME IndInv, IndInv', StreamInv, NEW w \in Workers,
         NEW x, worker' = [worker EXCEPT ![w] = x],
         UNCHANGED <<trip, pressed, named, given, served, redisVars>>,
         marred \subseteq marred', ended' \subseteq ended,
         GoodHand(w),
         \A e \in ended \ ended' :
           worker[w] # Idle /\ worker[w].event = e /\ worker[w].pc = "notify",
         x # Idle /\ x.pc = "notify" =>
           \/ x.event.trip \in marred'
           \/ activeDriver[trip[x.event.trip].rider] = None
  PROVE  StreamInv'
<1>0. TypeOK
  BY DEF IndInv
<1>1. worker'[w] = x /\ \A v \in Workers \ {w} : worker'[v] = worker[v]
  BY <1>0 DEF TypeOK
<1>2. ASSUME NEW t \in served \ marred', t \in Trips, UpOrDown(t)
      PROVE  UpOrDown(t)'
  <2>1. PICK d : d = trip[t].driver
    OBVIOUS
  <2>2. d \in Drivers
    <3>1. Exists(t) /\ d # None
      BY <1>2, <2>1 DEF StreamInv, OneDriver
    <3>2. <<t, d>> \in given
      BY <1>2, <2>1, <3>1 DEF IndInv, DriversAreGiven
    <3> QED BY <1>0, <3>2 DEF TypeOK
  <2>3. ASSUME Up(t, d), EndIsQueued(t) PROVE EndIsQueued(t)'
    <3>1. PICK e \in ended :
            /\ e.trip = t
            /\ \A v \in Workers : worker[v] # Idle /\ worker[v].event = e
                                    => worker[v].pc # "notify"
      BY <2>3 DEF EndIsQueued
    <3>2. e \in ended'
      BY <3>1
    <3>3. x # Idle /\ x.event = e => x.pc # "notify"
      BY <1>2, <2>2, <2>3, <3>1 DEF Up
    <3>4. \A v \in Workers : worker'[v] # Idle /\ worker'[v].event = e
                               => worker'[v].pc # "notify"
      BY <1>1, <3>1, <3>3
    <3> QED BY <3>1, <3>2, <3>4 DEF EndIsQueued
  <2>4. /\ Ended(t) <=> Ended(t)'
        /\ Entangled(t, d) => Entangled(t, d)'
    BY DEF Ended, Entangled, Exists
  <2> QED BY <1>2, <2>1, <2>3, <2>4, KeysStay DEF redisVars
<1> QED BY <1>1, <1>2, ConsumerStream DEF redisVars

LEMMA TakeStream ==
  ASSUME IndInv, IndInv', StreamInv, NEW w \in Workers, NEW e \in ended,
         NEW d \in Drivers \cup {None}, NEW pc \in {"read", "notify"},
         Handle(w, e, pc, d),
         pc = "notify" => \/ e.trip \in marred'
                          \/ activeDriver[trip[e.trip].rider] = None,
         marred \subseteq marred',
         UNCHANGED <<trip, calls, queueVars, redisVars, pressed, named, given, served>>
  PROVE  StreamInv'
<1> DEFINE x == [pc |-> pc, event |-> e, driver |-> d, seen |-> NoPair]
<1>0. TypeOK /\ worker' = [worker EXCEPT ![w] = x]
  BY DEF IndInv, Handle
<1>1. worker'[w] = x /\ x.pc = pc /\ x.event = e /\ x.seen = NoPair
  BY <1>0 DEF TypeOK
<1> HIDE DEF x
<1>2. GoodHand(w)
  BY <1>1 DEF GoodHand, MayBePair
<1> QED BY <1>0, <1>1, <1>2, QuietStream DEF queueVars

LEMMA TakeCancelledStream ==
  ASSUME IndInv, IndInv', StreamInv, NEW w \in Workers, NEW e \in ended,
         TakeCancelled(w, e)
  PROVE  StreamInv'
<1>0. /\ TypeOK /\ e \in Event /\ e.trip \in Trips /\ Exists(e.trip)
      /\ e.driver \in Drivers \cup {None}
      /\ trip[e.trip].rider \in Riders
      /\ UNCHANGED <<trip, calls, queueVars, redisVars, pressed, named, given, served>>
      /\ marred \subseteq marred'
  BY EventType, TripType DEF IndInv, TypeOK, TripsExist, TakeCancelled
<1>1. CASE e.driver # None /\ Handle(w, e, "read", e.driver)
  BY <1>0, <1>1, TakeStream
<1>2. ASSUME NEW d \in GetActiveDriver(trip[e.trip].rider),
             Handle(w, e, IF d = None THEN "notify" ELSE "read", d)
      PROVE  StreamInv'
  <2>1. d = activeDriver[trip[e.trip].rider] /\ d \in Drivers \cup {None}
    BY <1>0, <1>2 DEF GetActiveDriver, TypeOK
  <2> QED BY <1>0, <1>2, <2>1, TakeStream
<1>3. CASE Handle(w, e, "notify", None) /\ e.trip \in marred'
  BY <1>0, <1>3, TakeStream
<1> QED BY <1>1, <1>2, <1>3 DEF TakeCancelled

LEMMA TakeCompletedStream ==
  ASSUME IndInv, IndInv', StreamInv, NEW w \in Workers, NEW e \in ended,
         TakeCompleted(w, e)
  PROVE  StreamInv'
<1>1. /\ Handle(w, e, "read", None)
      /\ marred \subseteq marred'
      /\ UNCHANGED <<trip, calls, queueVars, redisVars, pressed, named, given, served>>
  BY DEF TakeCompleted, boundVars, histVars
<1> QED BY <1>1, TakeStream

LEMMA ClearReadsStream ==
  ASSUME IndInv, IndInv', StreamInv, NEW w \in Workers, ClearReads(w)
  PROVE  StreamInv'
<1>0. /\ TypeOK /\ worker[w] # Idle /\ worker[w] \in Handling
      /\ worker[w].event.trip \in Trips
  BY WorkerType DEF IndInv, ClearReads, Idle
<1> DEFINE t == worker[w].event.trip
           x == [worker[w] EXCEPT !.pc = "delete", !.seen = pair[t]]
<1>1. /\ worker' = [worker EXCEPT ![w] = x]
      /\ UNCHANGED <<trip, queueVars, redisVars, boundVars, histVars>>
  BY <1>0 DEF ClearReads, TypeOK
<1>2. x.pc = "delete" /\ x.event = worker[w].event /\ x.seen = pair[t]
  BY <1>0 DEF Handling
<1>3. worker'[w] = x
  BY <1>0, <1>1 DEF TypeOK
<1> HIDE DEF x
<1>4. GoodHand(w)
  BY <1>0, <1>1, <1>2, <1>3 DEF GoodHand, StreamInv, KeysArePressed, redisVars
<1> QED BY <1>1, <1>2, <1>4, QuietStream DEF queueVars, histVars

\* The pair and the pointers go together.
LEMMA ClearDeletesStream ==
  ASSUME IndInv, IndInv', StreamInv, NEW w \in Workers, ClearDeletes(w)
  PROVE  StreamInv'
<1>0. /\ TypeOK /\ OneDriver /\ KeysArePressed /\ EndsOnce /\ SeenLasts
      /\ worker[w] # Idle /\ worker[w] \in Handling /\ worker[w].pc = "delete"
      /\ UNCHANGED <<trip, queueVars, boundVars, histVars>>
  BY WorkerType DEF IndInv, StreamInv, ClearDeletes, Idle
<1>a. PICK t \in Trips : t = worker[w].event.trip /\ Exists(t)
  BY <1>0, WorkerType DEF IndInv, TripsExist
<1>b. PICK p \in Pair : p = worker[w].seen
  BY <1>0 DEF Handling
<1>c. trip[t].rider \in Riders
  BY <1>0, <1>a, TripType
<1>1. /\ pair' = [pair EXCEPT ![t] = NoPair]
      /\ activeRider' = [e \in Drivers |->
                           IF e = p.driver THEN None ELSE activeRider[e]]
      /\ activeDriver' = [q \in Riders |->
                           IF q = p.rider THEN None ELSE activeDriver[q]]
  BY <1>a, <1>b DEF ClearDeletes
<1>2. /\ worker'[w].event = worker[w].event /\ worker'[w].seen = worker[w].seen
      /\ worker'[w].pc = "notify"
      /\ \A v \in Workers \ {w} : worker'[v] = worker[v]
  BY <1>0 DEF ClearDeletes, TypeOK, Handling
<1>3. /\ pair'[t] = NoPair /\ \A u \in Trips \ {t} : pair'[u] = pair[u]
      /\ \A e \in Drivers : activeRider'[e] = IF e = p.driver THEN None ELSE activeRider[e]
      /\ \A q \in Riders : q # p.rider => activeDriver'[q] = activeDriver[q]
  BY <1>0, <1>1 DEF TypeOK
<1>4. GoodHand(w)
  BY <1>0, <1>2 DEF GoodHand, KeysArePressed
<1>5. MayBePair(t, p)
  BY <1>0, <1>a, <1>b DEF KeysArePressed
<1>6. ASSUME NEW u \in served \ marred', u \in Trips, UpOrDown(u)
      PROVE  UpOrDown(u)'
  <2>1. PICK e \in Drivers : /\ e = trip[u].driver /\ <<u, e>> \in given
                             /\ u \notin marred
                             /\ trip[u].rider \in Riders
    <3>1. Exists(u) /\ trip[u].driver # None
      BY <1>0, <1>6 DEF OneDriver
    <3>2. <<u, trip[u].driver>> \in given
      BY <1>6, <3>1 DEF IndInv, DriversAreGiven
    <3> QED BY <1>0, <1>6, <3>1, <3>2, TripType DEF TypeOK, histVars
  <2>2. (Ended(u) <=> Ended(u)') /\ (Entangled(u, e) <=> Entangled(u, e)')
    BY <1>0 DEF Ended, Entangled, Exists, histVars
  <2>3. CASE Entangled(u, e)
    BY <1>0, <2>1, <2>2, <2>3 DEF UpOrDown, Entangled, Exists, histVars
  <2>4. CASE ~Entangled(u, e) /\ u = t
    <3>1. Ended(u)
      BY <1>0, <1>a, <2>1, <2>4 DEF EndsOnce
    <3>2. Up(u, e) \/ Down(u, e)
      BY <1>6, <2>1, <2>4, <3>1 DEF UpOrDown
    <3>3. Up(u, e) => e = p.driver
      BY <1>0, <1>a, <1>b, <2>1, <2>4 DEF Up, SeenLasts, NoPair
    <3>4. Down(u, trip[u].driver)'
      BY <1>0, <1>3, <2>1, <2>4, <3>2, <3>3 DEF Down
    <3> QED BY <2>2, <3>1, <3>4 DEF UpOrDown
  <2>5. CASE ~Entangled(u, e) /\ u # t
    <3>1. e # p.driver /\ trip[u].rider # p.rider
      BY <1>5, <1>a, <2>1, <2>5 DEF Entangled, MayBePair, NoPair
    <3>2. EndIsQueued(u) => EndIsQueued(u)'
      <4> SUFFICES ASSUME EndIsQueued(u) PROVE EndIsQueued(u)'
        OBVIOUS
      <4>1. PICK f \in ended :
              /\ f.trip = u
              /\ \A v \in Workers : worker[v] # Idle /\ worker[v].event = f
                                      => worker[v].pc # "notify"
        BY DEF EndIsQueued
      <4>2. worker'[w].event # f
        BY <1>2, <1>a, <2>5, <4>1
      <4>3. \A v \in Workers : worker'[v] # Idle /\ worker'[v].event = f
                                 => worker'[v].pc # "notify"
        BY <1>2, <4>1, <4>2
      <4> QED BY <1>0, <4>1, <4>3 DEF EndIsQueued, queueVars
    <3> QED BY <1>0, <1>3, <1>6, <2>1, <2>2, <2>5, <3>1, <3>2, KeysStay
  <2> QED BY <2>3, <2>4, <2>5
<1> QED BY <1>0, <1>2, <1>3, <1>4, <1>6, ConsumerStream DEF queueVars, histVars

LEMMA ClearFailsStream ==
  ASSUME IndInv, IndInv', StreamInv, NEW w \in Workers, ClearFails(w)
  PROVE  StreamInv'
<1>0. TypeOK /\ worker[w] # Idle /\ worker[w] \in Handling
  BY WorkerType DEF IndInv, ClearFails, Idle
<1> DEFINE x == [worker[w] EXCEPT !.pc = "notify"]
<1>1. /\ worker' = [worker EXCEPT ![w] = x]
      /\ marred' = marred \cup {worker[w].event.trip}
      /\ UNCHANGED <<trip, calls, queueVars, redisVars, pressed, named, given, served>>
  BY <1>0 DEF ClearFails, TypeOK
<1>2. x.pc = "notify" /\ x.event = worker[w].event /\ x.seen = worker[w].seen
  BY <1>0 DEF Handling
<1>3. worker'[w] = x
  BY <1>0, <1>1 DEF TypeOK
<1> HIDE DEF x
<1>4. GoodHand(w)
  BY <1>0, <1>2, <1>3 DEF GoodHand, StreamInv, KeysArePressed
<1> QED BY <1>1, <1>2, <1>4, QuietStream DEF queueVars

LEMMA EndOfHandlingStream ==
  ASSUME IndInv, IndInv', StreamInv, NEW w \in Workers, Notify(w) \/ WorkerCrashes(w)
  PROVE  StreamInv'
<1>1. /\ worker' = [worker EXCEPT ![w] = Idle]
      /\ UNCHANGED <<trip, pressed, named, given, served, redisVars, marred>>
      /\ ended' \subseteq ended
  BY DEF Notify, WorkerCrashes, queueVars, histVars
<1>2. \A e \in ended \ ended' :
        worker[w] # Idle /\ worker[w].event = e /\ worker[w].pc = "notify"
  BY DEF Notify, WorkerCrashes, queueVars, Idle
<1>3. GoodHand(w)
  BY <1>1 DEF GoodHand, IndInv, TypeOK
<1> QED BY <1>1, <1>2, <1>3, QuietStream

----------------------------------------------------------------------------
(* The theorems *)

LEMMA NextIndInv == IndInv /\ [Next]_vars => IndInv'
<1> SUFFICES ASSUME IndInv, [Next]_vars
             PROVE  IndInv'
  OBVIOUS
<1>1. ASSUME NEW t \in Trips,
             (\E r \in Riders : CreateTrip(t, r)) \/ CancelRead(t) \/ CompleteTrip(t)
      PROVE  IndInv'
  BY <1>1, CreateTripStep, CancelReadStep, CompleteTripStep
<1>2. ASSUME NEW t \in Trips, NEW d \in Drivers,
             \/ \E r \in Riders \cup {None} : AcceptTrip(t, r, d)
             \/ handleTripAccepted(t, d) \/ SetTripChatPair(t, d)
      PROVE  IndInv'
  BY <1>2, AcceptTripStep, handleTripAcceptedStep, SetTripChatPairStep
<1>3. CASE \E c \in cancels : CancelUpdate(c[1], c[2])
  BY <1>3, CancelUpdateStep
<1>4. CASE KeyExpires
  BY <1>4, KeyExpiresStep
<1>5. ASSUME NEW w \in Workers, Consume(w) \/ ClearFails(w) \/ WorkerCrashes(w)
      PROVE  IndInv'
  BY <1>5, TakeCancelledStep, TakeCompletedStep, ClearStep, EndStep DEF Consume
<1>6. CASE UNCHANGED vars
  BY <1>6 DEF vars, queueVars, redisVars, boundVars, histVars, IndInv, TypeOK,
              TripsExist, DriversAreGiven, NoticeIsTied, Tied, Exists
<1> QED BY <1>1, <1>2, <1>3, <1>4, <1>5, <1>6 DEF Next

\* The invariant that the others follow from.
THEOREM IndInvTheorem == Spec => []IndInv
BY InitIndInv, NextIndInv, PTL DEF Spec

\* Every variable has its type: in particular the keys in Redis never name
\* anyone but a rider and a driver of the right kind.
THEOREM TypeCorrect == Spec => []TypeOK
<1>1. IndInv => TypeOK
  BY DEF IndInv
<1> QED BY <1>1, IndInvTheorem, PTL

\* However accepts, cancellations, payments, redeliveries and expiring keys
\* interleave, the driver whom the cancel consumer tells of a cancellation was
\* given a trip of that rider.
THEOREM NoticeTheorem == Spec => []NoticeIsTied
<1>1. IndInv => NoticeIsTied
  BY DEF IndInv
<1> QED BY <1>1, IndInvTheorem, PTL

LEMMA InitStreamInv == Init => StreamInv
BY DEF Init, StreamInv, OneDriver, KeysArePressed, MayBePair, NoPair, EndsOnce,
       SeenLasts, WatchersAreServed, Idle

LEMMA NextStreamInv == IndInv /\ IndInv' /\ StreamInv /\ [Next]_vars => StreamInv'
<1> SUFFICES ASSUME IndInv, IndInv', StreamInv, [Next]_vars
             PROVE  StreamInv'
  OBVIOUS
<1>1. ASSUME NEW t \in Trips,
             (\E r \in Riders : CreateTrip(t, r)) \/ CancelRead(t) \/ CompleteTrip(t)
      PROVE  StreamInv'
  BY <1>1, CreateTripStream, CancelReadStream, CompleteTripStream
<1>2. ASSUME NEW t \in Trips, NEW d \in Drivers,
             \/ \E r \in Riders \cup {None} : AcceptTrip(t, r, d)
             \/ handleTripAccepted(t, d) \/ SetTripChatPair(t, d)
      PROVE  StreamInv'
  BY <1>2, AcceptTripStream, handleTripAcceptedStream, SetTripChatPairStream
<1>3. CASE \E c \in cancels : CancelUpdate(c[1], c[2])
  BY <1>3, CancelUpdateStream
<1>4. CASE KeyExpires
  BY <1>4, KeyExpiresStream
<1>5. ASSUME NEW w \in Workers, Consume(w) \/ ClearFails(w) \/ WorkerCrashes(w)
      PROVE  StreamInv'
  BY <1>5, TakeCancelledStream, TakeCompletedStream, ClearReadsStream,
     ClearDeletesStream, ClearFailsStream, EndOfHandlingStream DEF Consume
<1>6. CASE UNCHANGED vars
  <2>1. UNCHANGED <<trip, pressed, named, given, served, marred, ended, worker,
                    pair, activeRider, activeDriver>>
    BY <1>6 DEF vars, queueVars, redisVars, histVars
  <2>2. \A t \in Trips : UpOrDown(t) => UpOrDown(t)'
    BY <2>1 DEF UpOrDown, Up, Down, Ended, EndIsQueued, Entangled, Exists
  <2> QED BY <2>1, <2>2, ConsumerStream
<1> QED BY <1>1, <1>2, <1>3, <1>4, <1>5, <1>6 DEF Next

\* The invariant that the two theorems on the streams follow from.
THEOREM StreamInvTheorem == Spec => []StreamInv
<1>1. Spec => [](IndInv /\ StreamInv)
  BY InitIndInv, NextIndInv, InitStreamInv, NextStreamInv, PTL DEF Spec
<1> QED BY <1>1, PTL

\* The chat and the location relay of a trip under way are up, whatever the
\* consumers of other trips delete, unless the rider or the driver has another
\* trip too, or something about this one came late or failed.
THEOREM RelayTheorem == Spec => []RelayServes
<1>1. IndInv /\ StreamInv => RelayServes
  <2> SUFFICES ASSUME IndInv, StreamInv, NEW t \in served \ marred,
                      trip[t].status = "accepted", ~Entangled(t, trip[t].driver)
               PROVE  /\ Participants(t) = {trip[t].rider, trip[t].driver}
                      /\ activeRider[trip[t].driver] = trip[t].rider
                      /\ activeDriver[trip[t].rider] = trip[t].driver
    BY DEF RelayServes
  <2>1. trip[t].driver # None
    BY DEF StreamInv, OneDriver
  <2>2. UpOrDown(t) /\ ~Ended(t)
    BY DEF StreamInv, Ended
  <2>3. Up(t, trip[t].driver)
    BY <2>2 DEF UpOrDown
  <2>4. trip[t].rider # None
    BY TripType DEF IndInv, TypeOK, StreamInv, OneDriver
  <2> QED BY <2>1, <2>3, <2>4 DEF Up, Participants
<1> QED BY <1>1, IndInvTheorem, StreamInvTheorem, PTL

\* The end of a trip ends its streams: a rider is sent the position only of a
\* driver whom trip-service gave a trip of that rider, until the consumer has
\* handled the end of that trip, and nobody may chat about it afterwards.
THEOREM StreamsTheorem == Spec => []StreamsEnd
<1>1. IndInv /\ StreamInv => StreamsEnd
  <2> SUFFICES ASSUME IndInv, StreamInv
               PROVE  StreamsEnd
    OBVIOUS
  <2>1. ASSUME NEW d \in Drivers, NEW r \in Watchers(d)
        PROVE  \E t \in Trips :
                 /\ <<t, d>> \in given
                 /\ trip[t].rider = r
                 /\ ~Ended(t) \/ EndIsQueued(t) \/ t \in marred \/ Entangled(t, d)
    <3>1. PICK t \in served : <<t, d>> \in given /\ trip[t].rider = r
      BY <2>1 DEF StreamInv, WatchersAreServed, Watchers
    <3>2. t \in Trips
      BY DEF IndInv, TypeOK
    <3>3. ASSUME t \notin marred PROVE trip[t].driver = d
      <4>1. <<t, trip[t].driver>> \in given
        BY <3>1, <3>2 DEF StreamInv, OneDriver, IndInv, DriversAreGiven
      <4>2. trip[t].driver \in Drivers
        BY <4>1 DEF IndInv, TypeOK
      <4> QED BY <3>1, <3>2, <3>3, <4>1, <4>2 DEF StreamInv, OneDriver
    <3>4. activeRider[d] = r
      BY <2>1 DEF Watchers
    <3>5. t \notin marred /\ Ended(t) /\ ~Entangled(t, d) => EndIsQueued(t)
      BY <3>1, <3>3, <3>4 DEF StreamInv, UpOrDown, Down
    <3> QED BY <3>1, <3>2, <3>5
  <2>2. ASSUME NEW t \in served \ marred, Ended(t), ~EndIsQueued(t),
               ~Entangled(t, trip[t].driver)
        PROVE  Participants(t) = {}
    BY <2>2 DEF StreamInv, UpOrDown, Down, Participants, NoPair
  <2> QED BY <2>1, <2>2 DEF StreamsEnd
<1> QED BY <1>1, IndInvTheorem, StreamInvTheorem, PTL

----------------------------------------------------------------------------
(* ChatRoom: types and holders *)

\* chat-service loses its channel, stops or is started.
ServiceChanges == ChannelLost \/ ChatServiceStops \/ ChatServiceStarts

\* What a socket's handler, and chat-service, may hold.
LEMMA RelayType ==
  ASSUME ChatTypeOK, NEW s \in Sockets, relay[s] # AtRest
  PROVE  relay[s] \in Relaying /\ relay[s].msg \in Msgs
BY DEF ChatTypeOK, Relaying

LEMMA ChatType ==
  ASSUME ChatTypeOK, chat # AtRest
  PROVE  chat \in Storing /\ chat.msg \in Msgs
BY DEF ChatTypeOK, Storing

ChatSafe == ChatTypeOK /\ HoldersAreEntitled

LEMMA InitChatSafe == ChatInit => ChatSafe
BY ChatAssumption DEF ChatInit, ChatSafe, ChatTypeOK, HoldersAreEntitled, Open

\* Socket s leaves some of its rooms.
LEMMA LeavesType ==
  ASSUME ChatTypeOK, NEW s \in Sockets, NEW rs \in SUBSET Rooms, Leaves(s, rs)
  PROVE  /\ socketRooms' = [socketRooms EXCEPT ![s] = @ \ rs]
         /\ socketRooms' \in [Sockets -> SUBSET Rooms]
         /\ roomSockets' \in [Rooms -> SUBSET Sockets]
         /\ roomSubs' \in [Pods -> [Rooms -> {"none", "asked", "live"}]]
         /\ inbox' \in [Pods -> [Rooms -> SUBSET Msgs]]
         /\ \A p \in Pods, r \in Rooms : inbox'[p][r] \subseteq inbox[p][r]
         /\ owed' \subseteq owed
<1> DEFINE p == Home[s]
           closed == {r \in rs : On(p, roomSockets[r]) \subseteq {s}}
<1>0. p \in Pods /\ closed \subseteq Rooms
  BY ChatAssumption
<1>1. PICK kept \in [closed -> SUBSET Msgs] :
        /\ \A r \in closed : kept[r] \subseteq inbox[p][r]
        /\ inbox' = [inbox EXCEPT ![p] = [r \in Rooms |->
                       IF r \in closed THEN kept[r] ELSE @[r]]]
  BY DEF Leaves
<1>2. roomSubs' = [roomSubs EXCEPT ![p] = [r \in Rooms |->
                     IF r \in closed THEN "none" ELSE @[r]]]
  BY DEF Leaves
<1> HIDE DEF p, closed
<1>3. inbox' \in [Pods -> [Rooms -> SUBSET Msgs]]
  BY <1>0, <1>1 DEF ChatTypeOK
<1>4. \A q \in Pods, r \in Rooms : inbox'[q][r] \subseteq inbox[q][r]
  BY <1>0, <1>1 DEF ChatTypeOK
<1>5. roomSubs' \in [Pods -> [Rooms -> {"none", "asked", "live"}]]
  BY <1>0, <1>2 DEF ChatTypeOK
<1>6. /\ socketRooms' = [socketRooms EXCEPT ![s] = @ \ rs]
      /\ socketRooms' \in [Sockets -> SUBSET Rooms]
      /\ roomSockets' \in [Rooms -> SUBSET Sockets]
      /\ owed' \subseteq owed
  BY DEF Leaves, ChatTypeOK
<1> QED BY <1>3, <1>4, <1>5, <1>6

\* Sockets come, join, leave and go.
LEMMA SocketSafe ==
  ASSUME ChatSafe, NEW s \in Sockets,
         \/ Add(s) \/ Remove(s)
         \/ \E r \in Rooms : JoinRoom(s, r) \/ LeaveRoom(s, r)
  PROVE  ChatSafe'
<1>0. ChatTypeOK /\ HoldersAreEntitled
  BY DEF ChatSafe
<1>1. CASE Add(s)
  <2>1. /\ UNCHANGED <<roomVars, relay, inbox, writes, storeVars, chatFaults,
                       sent, owed, got>>
        /\ sock' \in [Sockets -> {"new", "open", "closed"}]
        /\ local' \subseteq Open' /\ Open \subseteq Open'
    BY <1>0, <1>1 DEF Add, ChatTypeOK, Open
  <2>2. ChatTypeOK'
    BY <1>0, <2>1 DEF ChatTypeOK, roomVars, storeVars
  <2>3. HoldersAreEntitled'
    BY <1>0, <2>1 DEF HoldersAreEntitled, roomVars, storeVars
  <2> QED BY <2>2, <2>3 DEF ChatSafe
<1>2. ASSUME NEW r \in Rooms, JoinRoom(s, r) PROVE ChatSafe'
  <2>1. /\ UNCHANGED <<sockVars, relay, inbox, writes, storeVars, chatFaults,
                       sent, owed, got>>
        /\ s \in Open
        /\ socketRooms' = [socketRooms EXCEPT ![s] = @ \cup {r}]
        /\ socketRooms' \in [Sockets -> SUBSET Rooms]
        /\ roomSockets' \in [Rooms -> SUBSET Sockets]
    BY <1>0, <1>2 DEF JoinRoom, ChatTypeOK
  <2>2. roomSubs' \in [Pods -> [Rooms -> {"none", "asked", "live"}]]
    BY <1>0, <1>2, ChatAssumption DEF JoinRoom, ChatTypeOK
  <2>3. ChatTypeOK'
    BY <1>0, <2>1, <2>2 DEF ChatTypeOK, sockVars, storeVars, Open
  <2>4. HoldersAreEntitled'
    BY <1>0, <2>1 DEF HoldersAreEntitled, ChatTypeOK, sockVars, storeVars, Open
  <2> QED BY <2>3, <2>4 DEF ChatSafe
<1>3. ASSUME NEW r \in Rooms, LeaveRoom(s, r) PROVE ChatSafe'
  <2>1. /\ Leaves(s, {r})
        /\ UNCHANGED <<sockVars, relay, writes, storeVars, chatFaults, sent, got>>
    BY <1>3 DEF LeaveRoom
  <2>2. /\ socketRooms' = [socketRooms EXCEPT ![s] = @ \ {r}]
        /\ socketRooms' \in [Sockets -> SUBSET Rooms]
        /\ roomSockets' \in [Rooms -> SUBSET Sockets]
        /\ roomSubs' \in [Pods -> [Rooms -> {"none", "asked", "live"}]]
        /\ inbox' \in [Pods -> [Rooms -> SUBSET Msgs]]
        /\ owed' \subseteq owed
    BY <1>0, <2>1, LeavesType
  <2>3. ChatTypeOK'
    BY <1>0, <2>1, <2>2 DEF ChatTypeOK, sockVars, storeVars, Open
  <2>4. HoldersAreEntitled'
    BY <1>0, <2>1, <2>2 DEF HoldersAreEntitled, ChatTypeOK, sockVars, storeVars, Open
  <2> QED BY <2>3, <2>4 DEF ChatSafe
<1>4. CASE Remove(s)
  <2>1. /\ Leaves(s, socketRooms[s]) /\ socketRooms[s] \in SUBSET Rooms
        /\ UNCHANGED <<relay, writes, storeVars, chatFaults, sent, got>>
        /\ sock' = [sock EXCEPT ![s] = "closed"]
        /\ local' = local \ {s}
    BY <1>0, <1>4 DEF Remove, ChatTypeOK
  <2>2. /\ socketRooms' = [socketRooms EXCEPT ![s] = @ \ socketRooms[s]]
        /\ socketRooms' \in [Sockets -> SUBSET Rooms]
        /\ roomSockets' \in [Rooms -> SUBSET Sockets]
        /\ roomSubs' \in [Pods -> [Rooms -> {"none", "asked", "live"}]]
        /\ inbox' \in [Pods -> [Rooms -> SUBSET Msgs]]
        /\ owed' \subseteq owed
    BY <1>0, <2>1, LeavesType
  <2>3. /\ sock' \in [Sockets -> {"new", "open", "closed"}]
        /\ Open' = Open \ {s}
    BY <1>0, <2>1 DEF ChatTypeOK, Open
  <2>4. ChatTypeOK'
    BY <1>0, <2>1, <2>2, <2>3 DEF ChatTypeOK, storeVars
  <2>5. \A u \in Sockets \ Open' : socketRooms'[u] = {}
    BY <1>0, <2>2, <2>3 DEF HoldersAreEntitled, ChatTypeOK
  <2>6. HoldersAreEntitled'
    BY <1>0, <2>1, <2>5 DEF HoldersAreEntitled, storeVars
  <2> QED BY <2>4, <2>6 DEF ChatSafe
<1> QED BY <1>1, <1>2, <1>3, <1>4

\* A message is relayed.
LEMMA RelaySafe ==
  ASSUME ChatSafe, NEW s \in Sockets,
         \/ \E m \in Msgs : ResolveTripChatPeer(s, m)
         \/ BroadcastToRoom(s) \/ PublishChatCmd(s)
  PROVE  ChatSafe'
<1>0. ChatTypeOK /\ HoldersAreEntitled
  BY DEF ChatSafe
<1>1. ASSUME NEW m \in Msgs, ResolveTripChatPeer(s, m) PROVE ChatSafe'
  <2> DEFINE x == [pc |-> "broadcast", msg |-> m]
  <2>1. /\ sent' = sent \cup {m} /\ relay' = [relay EXCEPT ![s] = x]
        /\ UNCHANGED <<sockVars, roomVars, inbox, writes, storeVars, chatFaults,
                       owed, got>>
    BY <1>1 DEF ResolveTripChatPeer
  <2>2. x \in Relaying /\ x.msg = m
    BY DEF Relaying
  <2> HIDE DEF x
  <2>3. /\ relay' \in [Sockets -> {AtRest} \cup Relaying]
        /\ relay'[s] = x /\ \A u \in Sockets \ {s} : relay'[u] = relay[u]
    BY <1>0, <2>1, <2>2 DEF ChatTypeOK
  <2>4. ChatTypeOK'
    BY <1>0, <2>1, <2>3 DEF ChatTypeOK, sockVars, roomVars, storeVars, Open
  <2>5. \A u \in Sockets : relay'[u] # AtRest => relay'[u].msg \in sent'
    BY <1>0, <2>1, <2>2, <2>3 DEF HoldersAreEntitled
  <2>6. HoldersAreEntitled'
    BY <1>0, <2>1, <2>5 DEF HoldersAreEntitled, sockVars, roomVars, storeVars, Open
  <2> QED BY <2>4, <2>6 DEF ChatSafe
<1>2. CASE BroadcastToRoom(s)
  <2>0. relay[s] # AtRest /\ relay[s] \in Relaying /\ relay[s].msg \in Msgs
    BY <1>0, <1>2, RelayType DEF BroadcastToRoom, AtRest
  <2> DEFINE x == [relay[s] EXCEPT !.pc = "publish"]
  <2>1. /\ relay' = [relay EXCEPT ![s] = x]
        /\ UNCHANGED <<sockVars, roomVars, writes, storeVars, sent, got>>
    BY <1>0, <1>2 DEF BroadcastToRoom, ChatTypeOK
  <2>2. x \in Relaying /\ x.msg = relay[s].msg
    BY <2>0 DEF Relaying
  <2> HIDE DEF x
  <2>3. /\ relay' \in [Sockets -> {AtRest} \cup Relaying]
        /\ relay'[s] = x /\ \A u \in Sockets \ {s} : relay'[u] = relay[u]
    BY <1>0, <2>1, <2>2 DEF ChatTypeOK
  <2>4. chatFaults' \in 0..MaxChatFaults
    BY <1>0, <1>2, ChatAssumption DEF BroadcastToRoom, ChatFault, ChatTypeOK
  <2>5. inbox' \in [Pods -> [Rooms -> SUBSET Msgs]] /\ owed' \subseteq Sockets \X Msgs
    <3>1. CASE Publish(relay[s].msg)
      BY <1>0, <2>0, <3>1, ChatAssumption DEF Publish, ChatTypeOK
    <3> QED BY <1>0, <1>2, <3>1 DEF BroadcastToRoom, ChatTypeOK
  <2>6. ChatTypeOK'
    BY <1>0, <2>1, <2>3, <2>4, <2>5 DEF ChatTypeOK, sockVars, roomVars, storeVars, Open
  <2>7. \A u \in Sockets : relay'[u] # AtRest => relay'[u].msg \in sent'
    BY <1>0, <2>0, <2>1, <2>2, <2>3 DEF HoldersAreEntitled
  <2>8. HoldersAreEntitled'
    BY <1>0, <2>1, <2>7 DEF HoldersAreEntitled, sockVars, roomVars, storeVars, Open
  <2> QED BY <2>6, <2>8 DEF ChatSafe
<1>3. CASE PublishChatCmd(s)
  <2>0. relay[s] # AtRest /\ relay[s].msg \in sent
    BY <1>0, <1>3 DEF PublishChatCmd, AtRest, HoldersAreEntitled
  <2>1. /\ relay' = [relay EXCEPT ![s] = AtRest]
        /\ UNCHANGED <<sockVars, roomVars, inbox, writes, service, chat, stored,
                       receipts, sent, owed, got>>
        /\ chatFaults' \in 0..MaxChatFaults
        /\ chatQueue' \subseteq queued' /\ queued' \subseteq sent
        /\ queued \subseteq queued'
    BY <1>0, <1>3, <2>0, ChatAssumption DEF PublishChatCmd, ChatFault, ChatTypeOK
  <2>2. ChatTypeOK'
    BY <1>0, <2>1 DEF ChatTypeOK, sockVars, roomVars, Open
  <2>3. HoldersAreEntitled'
    BY <1>0, <2>1 DEF HoldersAreEntitled, ChatTypeOK, sockVars, roomVars, Open
  <2> QED BY <2>2, <2>3 DEF ChatSafe
<1> QED BY <1>1, <1>2, <1>3

\* A subscription starts, hands out a message, and it is written.
LEMMA DeliverSafe ==
  ASSUME ChatSafe,
         \/ \E p \in Pods : Deliver(p)
         \/ \E s \in Sockets, m \in Msgs : SendToSocket(s, m)
  PROVE  ChatSafe'
<1>0. ChatTypeOK /\ HoldersAreEntitled
  BY DEF ChatSafe
<1>1. ASSUME NEW p \in Pods, NEW r \in Rooms, SubscriptionStarts(p, r) PROVE ChatSafe'
  <2>1. /\ UNCHANGED <<sockVars, socketRooms, roomSockets, relay, inbox,
                       writes, storeVars, chatFaults, sent, owed, got>>
        /\ roomSubs' \in [Pods -> [Rooms -> {"none", "asked", "live"}]]
    BY <1>0, <1>1 DEF SubscriptionStarts, ChatTypeOK
  <2> QED BY <1>0, <2>1 DEF ChatSafe, ChatTypeOK, HoldersAreEntitled, sockVars,
                         storeVars, Open
<1>2. ASSUME NEW p \in Pods, NEW r \in Rooms, NEW m \in Msgs,
             deliverToRoomLocally(p, r, m)
      PROVE  ChatSafe'
  <2>1. /\ UNCHANGED <<sockVars, roomVars, relay, storeVars, chatFaults, sent,
                       owed, got>>
        /\ inbox' \in [Pods -> [Rooms -> SUBSET Msgs]]
    BY <1>0, <1>2 DEF deliverToRoomLocally, ChatTypeOK
  <2>2. writes' \subseteq Sockets \X Msgs
    BY <1>0, <1>2 DEF deliverToRoomLocally, ChatTypeOK, On
  <2> QED BY <1>0, <2>1, <2>2 DEF ChatSafe, ChatTypeOK, HoldersAreEntitled,
                         sockVars, roomVars, storeVars, Open
<1>3. ASSUME NEW s \in Sockets, NEW m \in Msgs, SendToSocket(s, m) PROVE ChatSafe'
  <2>1. /\ UNCHANGED <<sock, roomVars, relay, inbox, storeVars, chatFaults, sent,
                       owed>>
        /\ writes' \subseteq writes /\ local' \subseteq local
        /\ got' = got \/ got' = [got EXCEPT ![s][m] = @ + 1]
    BY <1>3 DEF SendToSocket
  <2>2. got' \in [Sockets -> [Msgs -> Nat]]
    <3>1. got \in [Sockets -> [Msgs -> Nat]]
      BY <1>0 DEF ChatTypeOK
    <3> DEFINE g == [got[s] EXCEPT ![m] = @ + 1]
    <3>2. g \in [Msgs -> Nat]
      BY <3>1
    <3>3. got' = got \/ got' = [got EXCEPT ![s] = g]
      BY <2>1, <3>1
    <3> HIDE DEF g
    <3> QED BY <3>1, <3>2, <3>3
  <2> QED BY <1>0, <2>1, <2>2 DEF ChatSafe, ChatTypeOK, HoldersAreEntitled, roomVars,
                         storeVars, Open
<1> QED BY <1>1, <1>2, <1>3 DEF Deliver

\* chat-service takes, stores and acknowledges.
LEMMA StoreSafe ==
  ASSUME ChatSafe,
         (\E m \in Msgs : Receive(m)) \/ Save \/ PublishDelivered \/ ServiceChanges
  PROVE  ChatSafe'
<1>0. ChatTypeOK /\ HoldersAreEntitled
  BY DEF ChatSafe
<1>1. UNCHANGED <<sockVars, roomVars, relay, inbox, writes, queued, sent, owed, got>>
  BY DEF Receive, Save, PublishDelivered, ServiceChanges, ChannelLost, ChatServiceStops,
     ChatServiceStarts
<1>2. chatFaults' \in 0..MaxChatFaults
  BY <1>0, ChatAssumption
     DEF Receive, Save, PublishDelivered, ServiceChanges, ChannelLost, ChatServiceStops,
       ChatServiceStarts, ChatFault, ChatTypeOK
<1>3. /\ chat' \in {AtRest} \cup Storing
      /\ chat' # AtRest => chat'.msg \in queued
      /\ chatQueue' \subseteq queued /\ stored' \subseteq queued /\ receipts' \subseteq Msgs
      /\ service' \in {"up", "deaf", "down"}
  <2>1. ASSUME NEW m \in Msgs, Receive(m)
        PROVE  /\ chat' = [pc |-> "save", msg |-> m] /\ m \in queued
               /\ UNCHANGED <<chatQueue, service, stored, receipts>>
    BY <1>0, <2>1 DEF Receive, ChatTypeOK
  <2>2. CASE Save
    <3>1. chat # AtRest /\ chat \in Storing /\ chat.msg \in queued
      BY <1>0, <2>2, ChatType DEF Save, AtRest, HoldersAreEntitled
    <3> QED BY <1>0, <2>2, <3>1 DEF Save, Storing, ChatTypeOK
  <2>3. CASE PublishDelivered
    <3>1. chat # AtRest /\ chat.msg \in Msgs
      BY <1>0, <2>3, ChatType DEF PublishDelivered, AtRest
    <3> QED BY <1>0, <2>3, <3>1 DEF PublishDelivered, ChatTypeOK
  <2>4. CASE ServiceChanges
    BY <1>0, <2>4 DEF ServiceChanges, ChannelLost, ChatServiceStops,
       ChatServiceStarts, ChatTypeOK, HoldersAreEntitled
  <2> QED BY <1>0, <2>1, <2>2, <2>3, <2>4 DEF Storing, ChatTypeOK
<1>4. ChatTypeOK'
  BY <1>0, <1>1, <1>2, <1>3 DEF ChatTypeOK, sockVars, roomVars, Open
<1>5. HoldersAreEntitled'
  BY <1>0, <1>1, <1>3 DEF HoldersAreEntitled, sockVars, roomVars, Open
<1> QED BY <1>4, <1>5 DEF ChatSafe

----------------------------------------------------------------------------
(* ChatRoom: rooms and subscriptions *)

\* The rooms, the members and the subscriptions are as before.
LEMMA RoomsFrame ==
  ASSUME RoomsAreSubscribed, UNCHANGED <<sock, socketRooms, roomSockets, roomSubs>>
  PROVE  RoomsAreSubscribed'
BY DEF RoomsAreSubscribed, Open, On

\* A socket that leaves closes the subscriptions of which it was the last
\* local member, and no others.
LEMMA LeavesRooms ==
  ASSUME ChatSafe, RoomsAreSubscribed, NEW s \in Open, NEW rs \in SUBSET socketRooms[s],
         Leaves(s, rs), sock' = sock \/ (rs = socketRooms[s] /\ Open' = Open \ {s})
  PROVE  RoomsAreSubscribed'
<1> DEFINE p == Home[s]
           closed == {r \in rs : On(p, roomSockets[r]) \subseteq {s}}
<1>0. /\ ChatTypeOK /\ s \in Sockets /\ p \in Pods /\ rs \subseteq Rooms
  BY ChatAssumption DEF ChatSafe, ChatTypeOK, Open
<1>1. /\ socketRooms'[s] = socketRooms[s] \ rs
      /\ \A u \in Sockets \ {s} : socketRooms'[u] = socketRooms[u]
      /\ \A r \in Rooms : roomSockets'[r] = IF r \in rs THEN roomSockets[r] \ {s}
                                              ELSE roomSockets[r]
  BY <1>0 DEF Leaves, ChatTypeOK
<1>2. /\ \A r \in Rooms : roomSubs'[p][r] = IF r \in closed THEN "none"
                                              ELSE roomSubs[p][r]
      /\ \A q \in Pods \ {p} : roomSubs'[q] = roomSubs[q]
  BY <1>0 DEF Leaves, ChatTypeOK
<1>3. \A r \in rs : s \in roomSockets[r]
  BY <1>0 DEF RoomsAreSubscribed
<1>4. \A u \in Sockets \ {s} : u \in Open' <=> u \in Open
  BY DEF Open
<1>5. ASSUME NEW u \in Sockets, NEW r \in Rooms
      PROVE  u \in roomSockets'[r] <=> r \in socketRooms'[u] /\ u \in Open'
  <2>1. u \in roomSockets[r] <=> r \in socketRooms[u] /\ u \in Open
    BY DEF RoomsAreSubscribed
  <2>2. CASE u = s
    <3>1. u \in roomSockets'[r] <=> r \in socketRooms[s] \ rs
      BY <1>1, <2>1, <2>2
    <3>2. sock' = sock => u \in Open'
      BY <2>2 DEF Open
    <3> QED BY <1>0, <1>1, <2>2, <3>1, <3>2
  <2>3. CASE u # s
    BY <1>1, <1>4, <2>1, <2>3
  <2> QED BY <2>2, <2>3
<1>6. ASSUME NEW q \in Pods, NEW r \in Rooms
      PROVE  roomSubs'[q][r] # "none" <=> On(q, roomSockets'[r]) # {}
  <2>1. roomSubs[q][r] # "none" <=> On(q, roomSockets[r]) # {}
    BY DEF RoomsAreSubscribed
  <2>2. CASE q # p \/ r \notin rs
    <3>1. On(q, roomSockets'[r]) = On(q, roomSockets[r])
      BY <1>1, <2>2 DEF On
    <3> QED BY <1>2, <2>1, <2>2, <3>1
  <2>3. CASE q = p /\ r \in rs
    <3>1. On(q, roomSockets'[r]) = On(q, roomSockets[r]) \ {s}
      BY <1>1, <2>3 DEF On
    <3>2. s \in On(q, roomSockets[r])
      BY <1>3, <2>3 DEF On
    <3>3. r \in closed <=> On(q, roomSockets'[r]) = {}
      BY <2>3, <3>1
    <3> HIDE DEF closed
    <3> QED BY <1>2, <2>1, <2>3, <3>2, <3>3
  <2> QED BY <2>2, <2>3
<1> QED BY <1>5, <1>6 DEF RoomsAreSubscribed, On

LEMMA NextRooms ==
  ASSUME ChatSafe, RoomsAreSubscribed, [ChatNext]_chatVars
  PROVE  RoomsAreSubscribed'
<1>0. ChatTypeOK /\ HoldersAreEntitled
  BY DEF ChatSafe
<1>1. ASSUME NEW s \in Sockets, Add(s) PROVE RoomsAreSubscribed'
  <2>1. /\ UNCHANGED <<socketRooms, roomSockets, roomSubs>>
        /\ Open' = Open \cup {s} /\ socketRooms[s] = {}
    BY <1>0, <1>1 DEF Add, roomVars, Open, ChatTypeOK, HoldersAreEntitled
  <2> QED BY <2>1 DEF RoomsAreSubscribed, On
<1>2. ASSUME NEW s \in Sockets, Remove(s) PROVE RoomsAreSubscribed'
  <2>1. /\ s \in Open /\ Leaves(s, socketRooms[s])
        /\ Open' = Open \ {s}
    BY <1>0, <1>2 DEF Remove, Open, ChatTypeOK
  <2> QED BY <2>1, LeavesRooms
<1>3. ASSUME NEW s \in Sockets, NEW r \in Rooms, LeaveRoom(s, r)
      PROVE  RoomsAreSubscribed'
  <2>1. r \in socketRooms[s] /\ Leaves(s, {r}) /\ sock' = sock
    BY <1>3 DEF LeaveRoom, sockVars
  <2>2. s \in Open
    BY <1>0, <2>1 DEF HoldersAreEntitled
  <2> QED BY <2>1, <2>2, LeavesRooms
<1>4. ASSUME NEW s \in Sockets, NEW r \in Rooms, JoinRoom(s, r)
      PROVE  RoomsAreSubscribed'
  <2>0. Home[s] \in Pods /\ s \in Open /\ sock' = sock
    BY <1>4, ChatAssumption DEF JoinRoom, sockVars
  <2>1. /\ socketRooms'[s] = socketRooms[s] \cup {r}
        /\ \A u \in Sockets \ {s} : socketRooms'[u] = socketRooms[u]
        /\ roomSockets'[r] = roomSockets[r] \cup {s}
        /\ \A x \in Rooms \ {r} : roomSockets'[x] = roomSockets[x]
    BY <1>0, <1>4 DEF JoinRoom, ChatTypeOK
  <2>2. /\ roomSubs'[Home[s]][r] # "none"
        /\ \A q \in Pods, x \in Rooms :
             q # Home[s] \/ x # r => roomSubs'[q][x] = roomSubs[q][x]
    BY <1>0, <1>4, <2>0 DEF JoinRoom, ChatTypeOK
  <2>3. \A u \in Sockets, x \in Rooms :
          u \in roomSockets'[x] <=> x \in socketRooms'[u] /\ u \in Open'
    BY <2>0, <2>1 DEF RoomsAreSubscribed, Open
  <2>4. ASSUME NEW q \in Pods, NEW x \in Rooms
        PROVE  roomSubs'[q][x] # "none" <=> On(q, roomSockets'[x]) # {}
    <3>1. CASE q = Home[s] /\ x = r
      <4>1. s \in On(q, roomSockets'[x])
        BY <2>1, <3>1 DEF On
      <4> QED BY <2>2, <3>1, <4>1
    <3>2. CASE q # Home[s] \/ x # r
      <4>1. On(q, roomSockets'[x]) = On(q, roomSockets[x])
        BY <2>1, <3>2 DEF On
      <4> QED BY <2>2, <3>2, <4>1 DEF RoomsAreSubscribed
    <3> QED BY <3>1, <3>2
  <2> QED BY <2>3, <2>4 DEF RoomsAreSubscribed, On
<1>5. ASSUME NEW p \in Pods, NEW r \in Rooms, SubscriptionStarts(p, r)
      PROVE  RoomsAreSubscribed'
  <2>1. /\ UNCHANGED <<sock, socketRooms, roomSockets>>
        /\ \A q \in Pods, x \in Rooms :
             roomSubs'[q][x] # "none" <=> roomSubs[q][x] # "none"
    BY <1>0, <1>5 DEF SubscriptionStarts, sockVars, ChatTypeOK
  <2> QED BY <2>1 DEF RoomsAreSubscribed, Open, On
<1>6. CASE \/ \E s \in Sockets : Relay(s)
           \/ \E s \in Sockets, m \in Msgs : ResolveTripChatPeer(s, m) \/ SendToSocket(s, m)
           \/ \E p \in Pods, r \in Rooms, m \in Msgs : deliverToRoomLocally(p, r, m)
           \/ \E m \in Msgs : Receive(m)
           \/ Save \/ PublishDelivered \/ ServiceChanges \/ UNCHANGED chatVars
  <2>1. UNCHANGED <<sock, socketRooms, roomSockets, roomSubs>>
    BY <1>6 DEF Relay, BroadcastToRoom, PublishChatCmd, ResolveTripChatPeer,
       SendToSocket, deliverToRoomLocally, Receive, Save, PublishDelivered,
       ServiceChanges, ChannelLost, ChatServiceStops,
       ChatServiceStarts, chatVars, sockVars, roomVars
  <2> QED BY <2>1, RoomsFrame
<1> QED BY <1>1, <1>2, <1>3, <1>4, <1>5, <1>6 DEF ServiceChanges, ChatNext, Deliver

LEMMA NextChatSafe ==
  ASSUME ChatSafe, [ChatNext]_chatVars
  PROVE  ChatSafe'
<1>1. CASE UNCHANGED chatVars
  BY <1>1 DEF ChatSafe, ChatTypeOK, HoldersAreEntitled, chatVars, sockVars,
     roomVars, storeVars, Open
<1> QED BY <1>1, SocketSafe, RelaySafe, DeliverSafe, StoreSafe DEF ServiceChanges, ChatNext, Relay

----------------------------------------------------------------------------
(* ChatRoom: a message is published once and is in one place *)

OnceInv == PublishedOnce /\ InOnePlace /\ NoDuplicate

\* Buffers may only lose messages, and no handler begins or goes on.
LEMMA OnceFrame ==
  ASSUME ChatSafe, OnceInv, UNCHANGED <<relay, writes, sent, got>>,
         \A p \in Pods, r \in Rooms : inbox'[p][r] \subseteq inbox[p][r]
  PROVE  OnceInv'
<1>1. \A m : Fresh(m) => Fresh(m)'
  BY DEF Fresh
<1>2. PublishedOnce'
  BY <1>1 DEF OnceInv, PublishedOnce, Publishing
<1>3. InOnePlace'
  BY ChatAssumption DEF OnceInv, InOnePlace
<1>4. NoDuplicate'
  BY DEF OnceInv, NoDuplicate
<1> QED BY <1>2, <1>3, <1>4 DEF OnceInv

\* A handler takes a message that no other has taken.
LEMMA ResolveOnce ==
  ASSUME ChatSafe, OnceInv, NEW s \in Sockets, NEW m \in Msgs,
         ResolveTripChatPeer(s, m)
  PROVE  OnceInv'
<1> DEFINE x == [pc |-> "broadcast", msg |-> m]
<1>1. /\ m \notin sent /\ sent' = sent \cup {m}
      /\ relay' = [relay EXCEPT ![s] = x]
      /\ UNCHANGED <<inbox, writes, got>>
  BY DEF ResolveTripChatPeer
<1>2. x.msg = m
  OBVIOUS
<1> HIDE DEF x
<1>3. relay'[s] = x /\ \A u \in Sockets \ {s} : relay'[u] = relay[u]
  BY <1>1 DEF ChatSafe, ChatTypeOK
<1>4. \A n : Fresh(n) => Fresh(n)'
  BY <1>1 DEF Fresh
<1>5. Fresh(m)'
  BY <1>1, <1>4 DEF OnceInv, PublishedOnce
<1>6. \A u \in Sockets \ {s} : Publishing(u)' =>
        Publishing(u) /\ relay'[u].msg = relay[u].msg /\ relay[u].msg \in sent
  BY <1>3 DEF Publishing, ChatSafe, HoldersAreEntitled, AtRest
<1>7. PublishedOnce'
  <2>1. \A n \in Msgs \ sent' : Fresh(n)'
    BY <1>1, <1>4 DEF OnceInv, PublishedOnce
  <2>2. ASSUME NEW u \in Sockets, NEW n, Publishing(u)', n = relay'[u].msg
        PROVE  Fresh(n)'
    <3>1. CASE u = s
      BY <1>2, <1>3, <1>5, <2>2, <3>1
    <3>2. CASE u # s
      <4>1. Fresh(n)
        BY <1>6, <2>2, <3>2 DEF OnceInv, PublishedOnce, Fresh
      <4> QED BY <1>4, <4>1
    <3> QED BY <3>1, <3>2
  <2>3. ASSUME NEW u \in Sockets, NEW v \in Sockets, Publishing(u)', Publishing(v)',
               relay'[u].msg = relay'[v].msg
        PROVE  u = v
    BY <1>1, <1>2, <1>3, <1>6, <2>3 DEF OnceInv, PublishedOnce
  <2> QED BY <2>1, <2>2, <2>3 DEF PublishedOnce, Fresh
<1> QED BY <1>1, <1>7 DEF OnceInv, InOnePlace, NoDuplicate

\* The message is published: it enters the buffers of its room, once.
LEMMA BroadcastOnce ==
  ASSUME ChatSafe, OnceInv, NEW s \in Sockets, BroadcastToRoom(s)
  PROVE  OnceInv'
<1> DEFINE m == relay[s].msg
<1>0. relay[s] # AtRest /\ m \in Msgs /\ m \in sent /\ Publishing(s)
  BY RelayType DEF BroadcastToRoom, AtRest, ChatSafe, HoldersAreEntitled, Publishing
<1>1. /\ UNCHANGED <<writes, sent, got>>
      /\ relay' = [relay EXCEPT ![s].pc = "publish"]
  BY DEF BroadcastToRoom
<1>2. ~Publishing(s)' /\ \A u \in Sockets \ {s} : relay'[u] = relay[u]
  BY <1>0, <1>1, RelayType DEF ChatSafe, ChatTypeOK, Publishing, Relaying
<1>3. Fresh(m)
  BY <1>0 DEF OnceInv, PublishedOnce
<1>4. \A p \in Pods, r \in Rooms :
        inbox'[p][r] \subseteq inbox[p][r] \cup (IF r = RoomOf[m] THEN {m} ELSE {})
  <2>1. CASE Publish(m)
    BY <2>1, <1>0, ChatAssumption DEF Publish, ChatSafe, ChatTypeOK
  <2> QED BY <2>1 DEF BroadcastToRoom
<1> HIDE DEF m
<1>5. \A n : Fresh(n) /\ n # m => Fresh(n)'
  BY <1>1, <1>4 DEF Fresh
<1>6. PublishedOnce'
  <2>1. \A n \in Msgs \ sent' : Fresh(n)'
    BY <1>0, <1>1, <1>5 DEF OnceInv, PublishedOnce
  <2>2. ASSUME NEW u \in Sockets, Publishing(u)'
        PROVE  u # s /\ Publishing(u) /\ relay'[u].msg = relay[u].msg
    BY <1>2, <2>2 DEF Publishing
  <2>3. ASSUME NEW u \in Sockets, NEW n, Publishing(u)', n = relay'[u].msg
        PROVE  Fresh(n)'
    <3>1. n = relay[u].msg /\ n # m
      BY <1>0, <2>2, <2>3 DEF OnceInv, PublishedOnce, m
    <3>2. Fresh(n)
      BY <2>2, <2>3, <3>1 DEF OnceInv, PublishedOnce, Fresh
    <3> QED BY <1>5, <3>1, <3>2
  <2>4. ASSUME NEW u \in Sockets, NEW v \in Sockets, Publishing(u)', Publishing(v)',
               relay'[u].msg = relay'[v].msg
        PROVE  u = v
    BY <2>2, <2>4 DEF OnceInv, PublishedOnce
  <2> QED BY <2>1, <2>3, <2>4 DEF PublishedOnce, Fresh
<1>7. InOnePlace'
  <2>1. \A p \in Pods, r \in Rooms : \A n \in inbox'[p][r] : RoomOf[n] = r
    BY <1>4 DEF OnceInv, InOnePlace
  <2>2. ASSUME NEW u \in Sockets, NEW n \in Msgs, n \in inbox'[Home[u]][RoomOf[n]]
        PROVE  <<u, n>> \notin writes /\ got[u][n] = 0
    <3>1. Home[u] \in Pods /\ RoomOf[n] \in Rooms
      BY ChatAssumption
    <3>2. n = m \/ n \in inbox[Home[u]][RoomOf[n]]
      BY <1>4, <2>2, <3>1
    <3> QED BY <1>3, <3>2 DEF Fresh, OnceInv, InOnePlace
  <2> QED BY <1>1, <2>1, <2>2 DEF OnceInv, InOnePlace
<1> QED BY <1>1, <1>6, <1>7 DEF OnceInv, NoDuplicate

\* The handler is done with its message, which is published already.
LEMMA CommandOnce ==
  ASSUME ChatSafe, OnceInv, NEW s \in Sockets, PublishChatCmd(s)
  PROVE  OnceInv'
<1>1. /\ UNCHANGED <<inbox, writes, sent, got>>
      /\ relay' = [relay EXCEPT ![s] = AtRest]
  BY DEF PublishChatCmd
<1>2. ~Publishing(s)' /\ \A u \in Sockets \ {s} : relay'[u] = relay[u]
  BY <1>1 DEF ChatSafe, ChatTypeOK, Publishing, AtRest
<1>3. \A u \in Sockets : Publishing(u)' => Publishing(u) /\ relay'[u] = relay[u]
  BY <1>2 DEF Publishing
<1>4. PublishedOnce'
  BY <1>1, <1>3 DEF OnceInv, PublishedOnce, Fresh
<1> QED BY <1>1, <1>4 DEF OnceInv, InOnePlace, NoDuplicate

\* The message leaves the buffer of pod p when it is to be written to the
\* members on p: to none of them was it to be written, or was written, before.
LEMMA DeliverOnce ==
  ASSUME ChatSafe, OnceInv, NEW p \in Pods, NEW r \in Rooms, NEW m \in Msgs,
         deliverToRoomLocally(p, r, m)
  PROVE  OnceInv'
<1>0. m \in inbox[p][r] /\ RoomOf[m] = r
  BY DEF deliverToRoomLocally, OnceInv, InOnePlace
<1>1. /\ UNCHANGED <<relay, sent, got>>
      /\ inbox' = [inbox EXCEPT ![p][r] = @ \ {m}]
      /\ writes' = writes \cup {<<s, m>> : s \in On(p, roomSockets[r])}
  BY DEF deliverToRoomLocally
<1>2. /\ m \notin inbox'[p][r]
      /\ \A q \in Pods, x \in Rooms : inbox'[q][x] \subseteq inbox[q][x]
  BY <1>1 DEF ChatSafe, ChatTypeOK
<1>3. ASSUME NEW s \in Sockets, NEW n \in Msgs, <<s, n>> \in writes', <<s, n>> \notin writes
      PROVE  n = m /\ Home[s] = p
  BY <1>1, <1>3 DEF On
<1>4. ~Fresh(m)
  BY <1>0 DEF Fresh
<1>5. ASSUME NEW n, Fresh(n) PROVE Fresh(n)'
  <2>1. \A s \in Sockets : <<s, n>> \notin writes'
    BY <1>1, <1>4, <1>5 DEF Fresh
  <2> QED BY <1>1, <1>2, <1>5, <2>1 DEF Fresh
<1>6. PublishedOnce'
  <2>1. ASSUME NEW u \in Sockets, Publishing(u)' PROVE Fresh(relay[u].msg)'
    <3> DEFINE n == relay[u].msg
    <3>1. Fresh(n) /\ relay'[u].msg = n
      BY <1>1, <2>1 DEF OnceInv, PublishedOnce, Publishing
    <3> QED BY <1>1, <1>2, <1>5, <3>1 DEF Fresh
  <2> QED BY <1>1, <1>5, <2>1 DEF OnceInv, PublishedOnce, Publishing
<1>7. InOnePlace'
  <2>1. ASSUME NEW s \in Sockets, NEW n \in Msgs
        PROVE  /\ n \in inbox'[Home[s]][RoomOf[n]] => <<s, n>> \notin writes' /\ got'[s][n] = 0
               /\ <<s, n>> \in writes' => got'[s][n] = 0
    <3>1. Home[s] \in Pods /\ RoomOf[n] \in Rooms
      BY ChatAssumption
    <3>2. CASE <<s, n>> \in writes' /\ <<s, n>> \notin writes
      BY <1>0, <1>1, <1>2, <1>3, <3>2 DEF OnceInv, InOnePlace
    <3>3. CASE <<s, n>> \in writes' => <<s, n>> \in writes
      BY <1>1, <1>2, <3>1, <3>3 DEF OnceInv, InOnePlace
    <3> QED BY <3>2, <3>3
  <2> QED BY <1>2, <2>1 DEF OnceInv, InOnePlace
<1> QED BY <1>1, <1>6, <1>7 DEF OnceInv, NoDuplicate

\* The message is written: it was not before, and is no longer to be.
LEMMA SendOnce ==
  ASSUME ChatSafe, OnceInv, NEW s \in Sockets, NEW m \in Msgs, SendToSocket(s, m)
  PROVE  OnceInv'
<1>0. <<s, m>> \in writes /\ got[s][m] = 0 /\ m \notin inbox[Home[s]][RoomOf[m]]
  BY DEF SendToSocket, OnceInv, InOnePlace
<1>1. /\ UNCHANGED <<relay, sent, inbox>>
      /\ writes' = writes \ {<<s, m>>}
      /\ got' = got \/ got' = [got EXCEPT ![s][m] = @ + 1]
  BY DEF SendToSocket
<1>2. /\ \A u \in Sockets, n \in Msgs : u # s \/ n # m => got'[u][n] = got[u][n]
      /\ got'[s][m] \in {0, 1}
  BY <1>0, <1>1 DEF ChatSafe, ChatTypeOK
<1>3. ~Fresh(m)
  BY <1>0 DEF Fresh
<1>4. ASSUME NEW n \in Msgs, Fresh(n) PROVE Fresh(n)'
  BY <1>1, <1>2, <1>3, <1>4 DEF Fresh
<1>5. PublishedOnce'
  <2>1. ASSUME NEW u \in Sockets, Publishing(u)' PROVE Fresh(relay[u].msg)'
    <3> DEFINE n == relay[u].msg
    <3>1. Fresh(n) /\ relay'[u].msg = n /\ n \in Msgs
      BY <1>1, <2>1, RelayType DEF OnceInv, PublishedOnce, Publishing, AtRest, ChatSafe
    <3> QED BY <1>1, <1>4, <3>1 DEF Fresh
  <2> QED BY <1>1, <1>4, <2>1 DEF OnceInv, PublishedOnce, Publishing
<1>6. InOnePlace'
  BY <1>0, <1>1, <1>2 DEF OnceInv, InOnePlace
<1>7. NoDuplicate'
  BY <1>2 DEF OnceInv, NoDuplicate
<1> QED BY <1>5, <1>6, <1>7 DEF OnceInv

LEMMA NextOnce ==
  ASSUME ChatSafe, OnceInv, [ChatNext]_chatVars
  PROVE  OnceInv'
<1>0. ChatTypeOK
  BY DEF ChatSafe
<1>1. ASSUME NEW s \in Sockets, Remove(s) \/ \E r \in Rooms : LeaveRoom(s, r)
      PROVE  OnceInv'
  <2>1. /\ UNCHANGED <<relay, writes, sent, got>>
        /\ \E rs \in SUBSET Rooms : Leaves(s, rs)
    BY <1>0, <1>1 DEF Remove, LeaveRoom, ChatTypeOK
  <2> QED BY <1>0, <2>1, LeavesType, OnceFrame
<1>2. CASE \/ \E s \in Sockets : Add(s) \/ \E r \in Rooms : JoinRoom(s, r)
           \/ \E p \in Pods, r \in Rooms : SubscriptionStarts(p, r)
           \/ \E m \in Msgs : Receive(m)
           \/ Save \/ PublishDelivered \/ ServiceChanges \/ UNCHANGED chatVars
  <2>1. UNCHANGED <<relay, inbox, writes, sent, got>>
    BY <1>2 DEF Add, JoinRoom, SubscriptionStarts, Receive, Save, PublishDelivered,
       ServiceChanges, ChannelLost, ChatServiceStops,
       ChatServiceStarts, chatVars
  <2> QED BY <2>1, OnceFrame
<1> QED BY <1>1, <1>2, ResolveOnce, BroadcastOnce, CommandOnce, DeliverOnce, SendOnce
        DEF ServiceChanges, ChatNext, Relay, Deliver

----------------------------------------------------------------------------
(* ChatRoom: no message is lost *)

DebtInv ==
  /\ \A s \in Sockets, m \in Msgs : <<s, m>> \in owed => s \in roomSockets[RoomOf[m]]
  /\ \A s \in local, m \in Msgs : <<s, m>> \in owed => OnItsWay(s, m)

StoreInv ==
  /\ chat.pc = "receipt" => chat.msg \in stored
  /\ queued \subseteq chatQueue \cup stored

\* Nothing is lost, nobody leaves, and a new registration is owed nothing.
LEMMA DebtFrame ==
  ASSUME DebtInv, owed' = owed,
         \A r \in Rooms : roomSockets[r] \subseteq roomSockets'[r],
         \A s \in local' \ local, m \in Msgs : <<s, m>> \notin owed,
         \A s \in local \cap local', m \in Msgs :
           <<s, m>> \in owed /\ OnItsWay(s, m) => OnItsWay(s, m)'
  PROVE  DebtInv'
BY ChatAssumption DEF DebtInv

\* Who leaves is owed nothing more; a subscription is closed when no other
\* local member needs what it has buffered.
LEMMA LeavesDebt ==
  ASSUME ChatSafe, DebtInv, NEW s \in Sockets, NEW rs \in SUBSET Rooms, Leaves(s, rs),
         local' \subseteq local, UNCHANGED <<writes, got>>
  PROVE  DebtInv'
<1> DEFINE p == Home[s]
           closed == {r \in rs : On(p, roomSockets[r]) \subseteq {s}}
<1>0. /\ ChatTypeOK /\ p \in Pods /\ closed \subseteq Rooms /\ local \subseteq Sockets
  BY ChatAssumption DEF ChatSafe, ChatTypeOK, Open
<1>1. PICK kept \in [closed -> SUBSET Msgs] :
        inbox' = [inbox EXCEPT ![p] = [r \in Rooms |->
                    IF r \in closed THEN kept[r] ELSE @[r]]]
  BY DEF Leaves
<1>2. /\ \A r \in Rooms : roomSockets'[r] = IF r \in rs THEN roomSockets[r] \ {s}
                                              ELSE roomSockets[r]
      /\ owed' = {x \in owed : x[1] # s \/ RoomOf[x[2]] \notin rs}
  BY DEF Leaves
<1>3. \A u \in Sockets, m \in Msgs : <<u, m>> \in owed' =>
        <<u, m>> \in owed /\ (u # s \/ RoomOf[m] \notin rs)
  BY <1>2
<1>4. \A r \in closed : r \in rs /\ \A u \in roomSockets[r] : Home[u] = p => u = s
  BY DEF On
<1> HIDE DEF closed
<1>5. \A q \in Pods, r \in Rooms : q # p \/ r \notin closed => inbox'[q][r] = inbox[q][r]
  BY <1>0, <1>1 DEF ChatTypeOK
<1>6. ASSUME NEW u \in Sockets, NEW m \in Msgs, <<u, m>> \in owed'
      PROVE  /\ u \in roomSockets[RoomOf[m]] /\ u \in roomSockets'[RoomOf[m]]
             /\ inbox'[Home[u]][RoomOf[m]] = inbox[Home[u]][RoomOf[m]]
  <2>1. Home[u] \in Pods /\ RoomOf[m] \in Rooms
    BY ChatAssumption
  <2>2. u \in roomSockets[RoomOf[m]]
    BY <1>3, <1>6 DEF DebtInv
  <2>3. u \in roomSockets'[RoomOf[m]]
    BY <1>2, <1>3, <1>6, <2>1, <2>2
  <2>4. Home[u] # p \/ RoomOf[m] \notin closed
    BY <1>3, <1>4, <1>6, <2>2
  <2> QED BY <1>5, <2>1, <2>2, <2>3, <2>4
<1>7. ASSUME NEW u \in local', NEW m \in Msgs, <<u, m>> \in owed' PROVE OnItsWay(u, m)'
  <2>1. u \in local /\ u \in Sockets
    BY <1>0
  <2>2. OnItsWay(u, m)
    BY <1>3, <1>7, <2>1 DEF DebtInv
  <2> QED BY <1>6, <1>7, <2>1, <2>2 DEF OnItsWay
<1> QED BY <1>6, <1>7 DEF DebtInv

\* Publish owes the message to members whose pod gets it.
LEMMA PublishDebt ==
  ASSUME ChatSafe, DebtInv, NEW m \in Msgs, Publish(m),
         UNCHANGED <<local, roomSockets, writes, got>>
  PROVE  DebtInv'
<1> DEFINE live == {p \in Pods : roomSubs[p][RoomOf[m]] = "live"}
<1>0. RoomOf[m] \in Rooms /\ local \subseteq Sockets
  BY ChatAssumption DEF ChatSafe, ChatTypeOK, Open
<1>1. /\ \A p \in Pods, r \in Rooms : inbox[p][r] \subseteq inbox'[p][r]
      /\ \A p \in live : m \in inbox'[p][RoomOf[m]]
  BY <1>0 DEF Publish, ChatSafe, ChatTypeOK
<1>2. \A u \in Sockets, n \in Msgs : <<u, n>> \in owed' =>
        \/ <<u, n>> \in owed
        \/ n = m /\ u \in roomSockets[RoomOf[m]] /\ Home[u] \in live
  BY DEF Publish
<1> HIDE DEF live
<1>3. ASSUME NEW u \in local', NEW n \in Msgs, <<u, n>> \in owed' PROVE OnItsWay(u, n)'
  <2>1. u \in local /\ u \in Sockets /\ Home[u] \in Pods /\ RoomOf[n] \in Rooms
    BY <1>0, ChatAssumption
  <2>2. CASE <<u, n>> \in owed
    BY <1>1, <2>1, <2>2 DEF DebtInv, OnItsWay
  <2>3. CASE n = m /\ Home[u] \in live
    BY <1>1, <2>3 DEF OnItsWay
  <2> QED BY <1>2, <1>3, <2>1, <2>2, <2>3
<1> QED BY <1>2, <1>3 DEF DebtInv

\* What a subscription hands out is to be written to every local member.
LEMMA DeliverDebt ==
  ASSUME ChatSafe, DebtInv, NEW p \in Pods, NEW r \in Rooms, NEW m \in Msgs,
         deliverToRoomLocally(p, r, m)
  PROVE  DebtInv'
<1>0. local \subseteq Sockets
  BY DEF ChatSafe, ChatTypeOK, Open
<1>1. /\ UNCHANGED <<local, roomSockets, owed, got>>
      /\ inbox' = [inbox EXCEPT ![p][r] = @ \ {m}]
      /\ writes' = writes \cup {<<s, m>> : s \in On(p, roomSockets[r])}
  BY DEF deliverToRoomLocally, sockVars, roomVars
<1>2. \A q \in Pods, x \in Rooms : \A n \in inbox[q][x] :
        n \in inbox'[q][x] \/ (q = p /\ x = r /\ n = m)
  BY <1>1 DEF ChatSafe, ChatTypeOK
<1>3. ASSUME NEW s \in local, NEW n \in Msgs, <<s, n>> \in owed, OnItsWay(s, n)
      PROVE  OnItsWay(s, n)'
  <2>1. s \in roomSockets[RoomOf[n]] /\ Home[s] \in Pods /\ RoomOf[n] \in Rooms
    BY <1>0, <1>3, ChatAssumption DEF DebtInv
  <2>2. CASE n \in inbox[Home[s]][RoomOf[n]]
    <3>1. CASE n = m /\ RoomOf[n] = r /\ Home[s] = p
      BY <1>1, <2>1, <3>1 DEF On, OnItsWay
    <3> QED BY <1>2, <2>1, <2>2, <3>1 DEF OnItsWay
  <2> QED BY <1>1, <1>3, <2>2 DEF OnItsWay
<1> QED BY <1>1, <1>3, DebtFrame

\* A message is written, or the socket is not registered any more.
LEMMA SendDebt ==
  ASSUME ChatSafe, DebtInv, NEW s \in Sockets, NEW m \in Msgs, SendToSocket(s, m)
  PROVE  DebtInv'
<1>0. local \subseteq Sockets /\ got \in [Sockets -> [Msgs -> Nat]]
  BY DEF ChatSafe, ChatTypeOK, Open
<1>1. /\ UNCHANGED <<roomSockets, owed, inbox>>
      /\ writes' = writes \ {<<s, m>>} /\ local' \subseteq local
      /\ s \notin local' \/ got' = [got EXCEPT ![s][m] = @ + 1]
      /\ got' = got \/ got' = [got EXCEPT ![s][m] = @ + 1]
  BY DEF SendToSocket, roomVars
<1>2. /\ s \notin local' \/ got'[s][m] > 0
      /\ \A u \in Sockets, n \in Msgs : got[u][n] > 0 => got'[u][n] > 0
  BY <1>0, <1>1
<1>3. \A u \in local', n \in Msgs : OnItsWay(u, n) => OnItsWay(u, n)'
  BY <1>0, <1>1, <1>2 DEF OnItsWay
<1> QED BY <1>1, <1>3, DebtFrame

LEMMA NextDebt ==
  ASSUME ChatSafe, RoomsAreSubscribed, DebtInv, [ChatNext]_chatVars
  PROVE  DebtInv'
<1>0. ChatTypeOK
  BY DEF ChatSafe
<1>1. ASSUME NEW s \in Sockets, Add(s) PROVE DebtInv'
  <2>1. /\ UNCHANGED <<roomSockets, owed, inbox, writes, got>>
        /\ local' = local \cup {s} /\ s \notin Open
    BY <1>0, <1>1 DEF Add, roomVars, Open
  <2>2. \A m \in Msgs : <<s, m>> \notin owed
    BY <2>1, ChatAssumption DEF RoomsAreSubscribed, DebtInv
  <2> QED BY <2>1, <2>2, DebtFrame DEF OnItsWay
<1>2. ASSUME NEW s \in Sockets, Remove(s) \/ \E r \in Rooms : LeaveRoom(s, r)
      PROVE  DebtInv'
  <2>1. /\ UNCHANGED <<writes, got>> /\ local' \subseteq local
        /\ \E rs \in SUBSET Rooms : Leaves(s, rs)
    BY <1>0, <1>2 DEF Remove, LeaveRoom, ChatTypeOK, sockVars
  <2> QED BY <2>1, LeavesDebt
<1>3. ASSUME NEW s \in Sockets, NEW r \in Rooms, JoinRoom(s, r) PROVE DebtInv'
  <2>1. /\ UNCHANGED <<local, owed, inbox, writes, got>>
        /\ \A x \in Rooms : roomSockets[x] \subseteq roomSockets'[x]
    BY <1>0, <1>3 DEF JoinRoom, sockVars, ChatTypeOK
  <2> QED BY <2>1, DebtFrame DEF OnItsWay
<1>4. ASSUME NEW s \in Sockets, BroadcastToRoom(s) PROVE DebtInv'
  <2>1. UNCHANGED <<local, roomSockets, writes, got>> /\ relay[s].msg \in Msgs
    BY <1>0, <1>4, RelayType DEF BroadcastToRoom, AtRest, sockVars, roomVars
  <2>2. CASE Publish(relay[s].msg)
    BY <2>1, <2>2, PublishDebt
  <2>3. CASE UNCHANGED <<inbox, owed>>
    BY <2>1, <2>3, DebtFrame DEF OnItsWay
  <2> QED BY <1>4, <2>2, <2>3 DEF BroadcastToRoom
<1>5. CASE \/ \E p \in Pods, r \in Rooms : SubscriptionStarts(p, r)
           \/ \E s \in Sockets : PublishChatCmd(s)
           \/ \E s \in Sockets, m \in Msgs : ResolveTripChatPeer(s, m)
           \/ \E m \in Msgs : Receive(m)
           \/ Save \/ PublishDelivered \/ ServiceChanges \/ UNCHANGED chatVars
  <2>1. UNCHANGED <<local, roomSockets, owed, inbox, writes, got>>
    BY <1>5 DEF SubscriptionStarts, PublishChatCmd, ResolveTripChatPeer, Receive, Save,
       PublishDelivered, ServiceChanges, ChannelLost, ChatServiceStops,
       ChatServiceStarts, chatVars, sockVars, roomVars
  <2> QED BY <2>1, DebtFrame DEF OnItsWay
<1> QED BY <1>1, <1>2, <1>3, <1>4, <1>5, DeliverDebt, SendDebt
        DEF ServiceChanges, ChatNext, Relay, Deliver

\* chat-service acknowledges a delivery that is stored, and no other.
LEMMA NextStore ==
  ASSUME ChatSafe, StoreInv, [ChatNext]_chatVars
  PROVE  StoreInv'
<1>0. chat \in {AtRest} \cup Storing
  BY DEF ChatSafe, ChatTypeOK
<1>1. ASSUME NEW s \in Sockets, PublishChatCmd(s) PROVE StoreInv'
  BY <1>1 DEF PublishChatCmd, StoreInv
<1>2. ASSUME NEW m \in Msgs, Receive(m) PROVE StoreInv'
  BY <1>2 DEF Receive, StoreInv
<1>3. CASE Save
  <2>1. chat \in Storing
    BY <1>0, <1>3 DEF Save, AtRest
  <2> QED BY <1>3, <2>1 DEF Save, StoreInv, Storing, AtRest
<1>4. CASE PublishDelivered
  BY <1>4 DEF PublishDelivered, StoreInv, AtRest
<1>5. CASE ServiceChanges
  BY <1>5 DEF ServiceChanges, ChannelLost, ChatServiceStops,
       ChatServiceStarts, StoreInv, AtRest
<1>6. CASE UNCHANGED storeVars
  BY <1>6 DEF storeVars, StoreInv
<1> QED BY <1>1, <1>2, <1>3, <1>4, <1>5, <1>6
        DEF ServiceChanges, ChatNext, Relay, Deliver, chatVars, Add, Remove, JoinRoom, LeaveRoom,
            ResolveTripChatPeer, SendToSocket, SubscriptionStarts,
            deliverToRoomLocally, BroadcastToRoom

----------------------------------------------------------------------------
(* ChatRoom: theorems *)

LEMMA InitChatInv == ChatInit => ChatInv
<1> SUFFICES ASSUME ChatInit PROVE ChatInv
  OBVIOUS
<1>1. ChatTypeOK /\ HoldersAreEntitled
  BY InitChatSafe DEF ChatSafe
<1>2. RoomsAreSubscribed
  BY DEF ChatInit, RoomsAreSubscribed, On, Open
<1>3. \A m \in Msgs : Fresh(m)
  BY DEF ChatInit, Fresh
<1>4. \A s \in Sockets : ~Publishing(s)
  BY DEF ChatInit, Publishing, AtRest
<1>5. PublishedOnce
  BY <1>3, <1>4 DEF PublishedOnce
<1>6. InOnePlace
  BY ChatAssumption DEF ChatInit, InOnePlace
<1>7. NoDuplicate
  BY DEF ChatInit, NoDuplicate
<1>8. DebtsAreMembers /\ MessageIsKept
  BY DEF ChatInit, DebtsAreMembers, MessageIsKept, AtRest
<1> QED BY <1>1, <1>2, <1>5, <1>6, <1>7, <1>8 DEF ChatInv

\* ChatInv is inductive: through every order of joining, leaving, relaying and
\* late delivery, rooms and subscriptions agree, and a message is published
\* once and is on its way to a socket in one place at most, and to a member
\* that is owed it in one.
THEOREM ChatInvTheorem == ChatSpec => []ChatInv
<1>1. ChatInv /\ [ChatNext]_chatVars => ChatInv'
  <2> SUFFICES ASSUME ChatInv, [ChatNext]_chatVars PROVE ChatInv'
    OBVIOUS
  <2>1. ChatSafe /\ RoomsAreSubscribed /\ OnceInv /\ DebtInv /\ StoreInv
    BY DEF ChatInv, ChatSafe, OnceInv, DebtInv, StoreInv, DebtsAreMembers, MessageIsKept
  <2>2. ChatSafe' /\ RoomsAreSubscribed' /\ OnceInv' /\ DebtInv' /\ StoreInv'
    BY <2>1, NextChatSafe, NextRooms, NextOnce, NextDebt, NextStore
  <2> QED BY <2>2 DEF ChatInv, ChatSafe, OnceInv, DebtInv, StoreInv, DebtsAreMembers,
                      MessageIsKept
<1> QED BY <1>1, InitChatInv, PTL DEF ChatSpec

\* The type invariant of the chat, for all pods, sockets, rooms and messages.
THEOREM ChatTypeTheorem == ChatSpec => []ChatTypeOK
<1>1. ChatInv => ChatTypeOK
  BY DEF ChatInv
<1> QED BY <1>1, ChatInvTheorem, PTL

\* JoinRoom, LeaveRoom and Remove keep one subscription per pod and room, just
\* while the pod has a member of the room, and the two room maps in agreement.
THEOREM RoomsTheorem == ChatSpec => []RoomsAreSubscribed
<1>1. ChatInv => RoomsAreSubscribed
  BY DEF ChatInv
<1> QED BY <1>1, ChatInvTheorem, PTL

\* BroadcastToRoom and the room subscriptions write no message to a socket
\* twice, whoever leaves and joins again while it is buffered.
THEOREM NoDuplicateTheorem == ChatSpec => []NoDuplicate
<1>1. ChatInv => NoDuplicate
  BY DEF ChatInv
<1> QED BY <1>1, ChatInvTheorem, PTL

\* A published message is not lost: neither Leaves, which closes subscriptions
\* with what they have buffered, nor a failed write to another socket, nor an
\* error, a lost channel or a stop of chat-service between Receive, Save and
\* PublishDelivered, nor an id that is taken.
THEOREM KeptTheorem == ChatSpec => []MessageIsKept
<1>1. ChatInv => MessageIsKept
  BY DEF ChatInv
<1> QED BY <1>1, ChatInvTheorem, PTL
=============================================================================
