------------------------------ MODULE TripPair ------------------------------
(***************************************************************************)
(* Who may chat with whom, and whose position is relayed to whom: the      *)
(* Redis keys trip:<t>:chat:rider and trip:<t>:chat:driver, the pointers   *)
(* driver:<d>:active_rider and rider:<r>:active_driver, and everyone who   *)
(* writes them: the ws-gateway when a driver accepts, the assigned         *)
(* consumer of driver-service, and the ws-gateway's consumers of cancelled *)
(* and completed trips.                                                    *)
(*                                                                         *)
(* trip-service is abridged to what it publishes: an accept overwrites     *)
(* whatever the document holds (module TripLifecycle has every step of     *)
(* it).  The two pair keys are always written, with the same expiry, and   *)
(* deleted in one transaction, so pair[t] is the pair of both.             *)
(***************************************************************************)
EXTENDS Naturals

CONSTANTS
  Trips, Riders, Drivers,
  Workers,    \* consumer goroutines of notify_trip_cancelled and _completed
  None,
  MaxCalls,   \* bound: accepts, cancellations and payments
  MaxFaults   \* bound: failed Redis calls, expired keys, redeliveries, crashes

ASSUME PairAssumption ==
  /\ None \notin Riders \cup Drivers
  /\ MaxCalls \in Nat
  /\ MaxFaults \in Nat

VARIABLES
  trip,         \* trip[t]: the document
  cancels,      \* <<t, d>>: CancelTrip has read trip t with driver d
  accepts,      \* <<t, d>>: queued driver.cmd.trip_accept
  assigned,     \* <<t, d>>: queued trip.event.driver_assigned
  ended,        \* queued trip.event.cancelled and trip.event.completed
  worker,       \* what each consumer goroutine is doing
  pair,         \* trip:<t>:chat:rider and trip:<t>:chat:driver
  activeRider,  \* driver:<d>:active_rider
  activeDriver, \* rider:<r>:active_driver
  calls, faults,
  pressed,      \* history: <<t, d>>, driver d pressed accept for trip t
  named,        \* history: <<t, r>>, an accept of trip t named rider r
  given,        \* history: <<t, d>>, trip-service gave trip t to driver d
  served,       \* history: trips whose assigned event has been handled
  marred        \* history: trips for which something came late or failed

redisVars == <<pair, activeRider, activeDriver>>
queueVars == <<cancels, accepts, assigned, ended>>
histVars == <<pressed, named, given, served, marred>>
boundVars == <<calls, faults>>
vars == <<trip, queueVars, worker, redisVars, boundVars, histVars>>

----------------------------------------------------------------------------
(* Data *)

Absent == [status |-> "absent"]
Trip == [status : {"pending", "accepted", "cancelled", "completed"},
         rider : Riders, driver : Drivers \cup {None}]

Exists(t) == trip[t] # Absent
Ended(t) == Exists(t) /\ trip[t].status \in {"cancelled", "completed"}

\* A completed event is published once for the rider and once for the driver.
Event == [kind : {"cancelled"}, trip : Trips, driver : Drivers \cup {None}]
           \cup [kind : {"completed"}, trip : Trips, owner : Riders \cup Drivers]

Pair == [rider : Riders \cup {None}, driver : Drivers \cup {None}]
NoPair == [rider |-> None, driver |-> None]

Idle == [pc |-> "idle"]
Handling == [pc : {"read", "delete", "notify"}, event : Event,
             driver : Drivers \cup {None}, seen : Pair]

Called == calls < MaxCalls /\ calls' = calls + 1
Fault == faults < MaxFaults /\ faults' = faults + 1

Init ==
  /\ trip = [t \in Trips |-> Absent]
  /\ cancels = {} /\ accepts = {} /\ assigned = {} /\ ended = {}
  /\ worker = [w \in Workers |-> Idle]
  /\ pair = [t \in Trips |-> NoPair]
  /\ activeRider = [d \in Drivers |-> None]
  /\ activeDriver = [r \in Riders |-> None]
  /\ calls = 0 /\ faults = 0
  /\ pressed = {} /\ named = {} /\ given = {} /\ served = {} /\ marred = {}

----------------------------------------------------------------------------
(* trip-service *)

CreateTrip(t, r) ==
  /\ ~Exists(t)
  /\ trip' = [trip EXCEPT ![t] = [status |-> "pending", rider |-> r,
                                  driver |-> None]]
  /\ UNCHANGED <<queueVars, worker, redisVars, boundVars, histVars>>

\* The accept is written and announced, whatever became of the trip, unless
\* the document holds it already.
handleTripAccepted(t, d) ==
  /\ <<t, d>> \in accepts
  /\ accepts' = accepts \ {<<t, d>>}
  /\ LET new == [trip[t] EXCEPT !.status = "accepted", !.driver = d]
     IN  IF trip[t] = new
           THEN UNCHANGED <<trip, assigned, given, marred>>
           ELSE /\ trip' = [trip EXCEPT ![t] = new]
                /\ assigned' = assigned \cup {<<t, d>>}
                /\ given' = given \cup {<<t, d>>}
                /\ marred' = IF Ended(t) THEN marred \cup {t} ELSE marred
  /\ UNCHANGED <<cancels, ended, worker, redisVars, boundVars, pressed, named,
                 served>>

\* The rider, or the driver of an accepted trip, cancels; the driver the event
\* will name is the one of this read.
CancelRead(t) ==
  /\ Called
  /\ Exists(t)
  /\ trip[t].status # "cancelled"
  /\ cancels' = cancels \cup {<<t, trip[t].driver>>}
  /\ UNCHANGED <<trip, accepts, assigned, ended, worker, redisVars, faults,
                 histVars>>

CancelUpdate(t, d) ==
  /\ <<t, d>> \in cancels
  /\ cancels' = cancels \ {<<t, d>>}
  /\ IF trip[t].status = "cancelled"
       THEN UNCHANGED <<trip, ended>>
       ELSE /\ trip' = [trip EXCEPT ![t].status = "cancelled"]
            /\ ended' = ended \cup
                 {[kind |-> "cancelled", trip |-> t, driver |-> d]}
  /\ UNCHANGED <<accepts, assigned, worker, redisVars, boundVars, histVars>>

CompleteTrip(t) ==
  /\ Called
  /\ Exists(t)
  /\ trip[t].driver # None
  /\ trip[t].status # "completed"
  /\ trip' = [trip EXCEPT ![t].status = "completed"]
  /\ ended' = ended \cup {[kind |-> "completed", trip |-> t, owner |-> u] :
                            u \in {trip[t].rider, trip[t].driver}}
  /\ UNCHANGED <<cancels, accepts, assigned, worker, redisVars, faults,
                 histVars>>

----------------------------------------------------------------------------
(* Setting the keys *)

\* The pair of trip t is written after its end, or over another driver's.
Mars(t, d) == Ended(t) \/ \E e \in Drivers \ {d} : <<t, e>> \in pressed

\* The driver presses accept: the ws-gateway stores the pair before
\* trip-service has heard of it.  The rider r is the one the client names, and
\* nobody compares it with the trip's; with none, no pair is stored and the
\* accept is published all the same.  (An id that is no rider's at all does what
\* that of a rider without trips does.)
AcceptTrip(t, r, d) ==
  /\ Called
  /\ Exists(t)
  /\ pressed' = pressed \cup {<<t, d>>}
  /\ accepts' = accepts \cup {<<t, d>>}
  /\ \/ /\ r = None
        /\ marred' = IF Mars(t, d) THEN marred \cup {t} ELSE marred
        /\ UNCHANGED <<pair, named, faults>>
     \/ /\ r # None
        /\ pair' = [pair EXCEPT ![t] = [rider |-> r, driver |-> d]]
        /\ named' = named \cup {<<t, r>>}
        /\ marred' = IF Mars(t, d) \/ (t \in served /\ r # trip[t].rider)
                       THEN marred \cup {t} ELSE marred
        /\ UNCHANGED faults
     \/ /\ r # None
        /\ Fault
        /\ marred' = marred \cup {t}
        /\ UNCHANGED <<pair, named>>
  /\ UNCHANGED <<trip, cancels, assigned, ended, worker, activeRider,
                 activeDriver, given, served>>

\* driver-service handles trip.event.driver_assigned; an error is retried, and
\* the event may be delivered again.
SetTripChatPair(t, d) ==
  /\ <<t, d>> \in assigned
  /\ pair' = [pair EXCEPT ![t] = [rider |-> trip[t].rider, driver |-> d]]
  /\ activeRider' = [activeRider EXCEPT ![d] = trip[t].rider]
  /\ activeDriver' = [activeDriver EXCEPT ![trip[t].rider] = d]
  /\ \/ assigned' = assigned \ {<<t, d>>} /\ UNCHANGED faults
     \/ Fault /\ UNCHANGED assigned
  /\ served' = served \cup {t}
  /\ marred' = IF Mars(t, d) THEN marred \cup {t} ELSE marred
  /\ UNCHANGED <<trip, calls, cancels, accepts, ended, worker, pressed, named,
                 given>>

----------------------------------------------------------------------------
(* Using them *)

\* ResolveTripChatPeer: who may write to the chat of trip t.
Participants(t) == {pair[t].rider, pair[t].driver} \ {None}

\* The location consumer publishes the driver's position to the active rider.
Watchers(d) == {activeRider[d]} \ {None}

----------------------------------------------------------------------------
(* Clearing them: cancelConsumer and paymentSuccessConsumer *)

InHand == {worker[w].event : w \in {v \in Workers : worker[v] # Idle}}

\* Mutant of GetActiveDriver: the pointer of any rider is used.
AnyActiveDriver(r) == {activeDriver[q] : q \in Riders}

GetActiveDriver(r) == {activeDriver[r]}

Handle(w, e, pc, d) ==
  worker' = [worker EXCEPT ![w] = [pc |-> pc, event |-> e, driver |-> d,
                                   seen |-> NoPair]]

\* An event without driver asks for the rider's active driver; without one
\* either, the streams are left as they are.
TakeCancelled(w, e) ==
  /\ worker[w] = Idle
  /\ e \in ended \ InHand
  /\ e.kind = "cancelled"
  /\ \/ /\ e.driver # None
        /\ Handle(w, e, "read", e.driver)
        /\ UNCHANGED <<faults, marred>>
     \/ /\ e.driver = None
        /\ \E d \in GetActiveDriver(trip[e.trip].rider) :
             Handle(w, e, IF d = None THEN "notify" ELSE "read", d)
        /\ UNCHANGED <<faults, marred>>
     \/ /\ e.driver = None
        /\ Fault
        /\ Handle(w, e, "notify", None)
        /\ marred' = marred \cup {e.trip}
  /\ UNCHANGED <<trip, calls, queueVars, redisVars, pressed, named, given,
                 served>>

TakeCompleted(w, e) ==
  /\ worker[w] = Idle
  /\ e \in ended \ InHand
  /\ e.kind = "completed"
  /\ Handle(w, e, "read", None)
  /\ UNCHANGED <<trip, queueVars, redisVars, boundVars, histVars>>

\* Mutant of ClearReads: the keys are not of the event's trip.
ReadsAnyPair(w) ==
  /\ worker[w].pc = "read"
  /\ \E t \in Trips : worker' = [worker EXCEPT ![w].pc = "delete",
                                               ![w].seen = pair[t]]
  /\ UNCHANGED <<trip, queueVars, redisVars, boundVars, histVars>>

\* ClearTripChatPair: MGET of the pair keys, then a transaction that deletes
\* them and the pointers of the two users that were read.
ClearReads(w) ==
  /\ worker[w].pc = "read"
  /\ worker' = [worker EXCEPT ![w].pc = "delete",
                              ![w].seen = pair[worker[w].event.trip]]
  /\ UNCHANGED <<trip, queueVars, redisVars, boundVars, histVars>>

\* Mutant of ClearDeletes: the pointers stay.
DeletePairOnly(w) ==
  /\ worker[w].pc = "delete"
  /\ pair' = [pair EXCEPT ![worker[w].event.trip] = NoPair]
  /\ worker' = [worker EXCEPT ![w].pc = "notify"]
  /\ UNCHANGED <<trip, queueVars, activeRider, activeDriver, boundVars, histVars>>

ClearDeletes(w) ==
  /\ worker[w].pc = "delete"
  /\ LET seen == worker[w].seen
     IN  /\ activeRider' = [d \in Drivers |->
                              IF d = seen.driver THEN None ELSE activeRider[d]]
         /\ activeDriver' = [r \in Riders |->
                              IF r = seen.rider THEN None ELSE activeDriver[r]]
  /\ pair' = [pair EXCEPT ![worker[w].event.trip] = NoPair]
  /\ worker' = [worker EXCEPT ![w].pc = "notify"]
  /\ UNCHANGED <<trip, queueVars, boundVars, histVars>>

\* Either command fails: logged, and the handler goes on.
ClearFails(w) ==
  /\ Fault
  /\ worker[w].pc \in {"read", "delete"}
  /\ worker' = [worker EXCEPT ![w].pc = "notify"]
  /\ marred' = marred \cup {worker[w].event.trip}
  /\ UNCHANGED <<trip, calls, queueVars, redisVars, pressed, named, given,
                 served>>

\* The users are taken out of the trip's rooms (module ChatRoom) and told, and
\* the event is acknowledged, or delivered once more.
Notify(w) ==
  /\ worker[w].pc = "notify"
  /\ \/ ended' = ended \ {worker[w].event} /\ UNCHANGED faults
     \/ Fault /\ UNCHANGED ended
  /\ worker' = [worker EXCEPT ![w] = Idle]
  /\ UNCHANGED <<trip, calls, cancels, accepts, assigned, redisVars, pressed,
                 named, given, served, marred>>

\* The gateway stops in the middle of an event, which is delivered again.
WorkerCrashes(w) ==
  /\ Fault
  /\ worker[w] # Idle
  /\ worker' = [worker EXCEPT ![w] = Idle]
  /\ UNCHANGED <<trip, calls, queueVars, redisVars, histVars>>

\* Two hours have passed since a key was set.
KeyExpires ==
  /\ Fault
  /\ \/ /\ \E t \in Trips : /\ pair[t] # NoPair
                            /\ pair' = [pair EXCEPT ![t] = NoPair]
        /\ UNCHANGED <<activeRider, activeDriver>>
     \/ /\ \E d \in Drivers : /\ activeRider[d] # None
                              /\ activeRider' = [activeRider EXCEPT ![d] = None]
        /\ UNCHANGED <<pair, activeDriver>>
     \/ /\ \E r \in Riders : /\ activeDriver[r] # None
                             /\ activeDriver' = [activeDriver EXCEPT ![r] = None]
        /\ UNCHANGED <<pair, activeRider>>
  /\ marred' = Trips
  /\ UNCHANGED <<trip, calls, queueVars, worker, pressed, named, given, served>>

----------------------------------------------------------------------------

Consume(w) ==
  \/ \E e \in ended : TakeCancelled(w, e) \/ TakeCompleted(w, e)
  \/ ClearReads(w) \/ ClearDeletes(w) \/ Notify(w)

Next ==
  \/ \E t \in Trips : \/ \E r \in Riders : CreateTrip(t, r)
                      \/ CancelRead(t) \/ CompleteTrip(t)
  \/ \E t \in Trips, d \in Drivers :
       \/ \E r \in Riders \cup {None} : AcceptTrip(t, r, d)
       \/ handleTripAccepted(t, d) \/ SetTripChatPair(t, d)
  \/ \E c \in cancels : CancelUpdate(c[1], c[2])
  \/ KeyExpires
  \/ \E w \in Workers : Consume(w) \/ ClearFails(w) \/ WorkerCrashes(w)

Spec == Init /\ [][Next]_vars

----------------------------------------------------------------------------
(* Properties *)

\* Every variable has its type.
TypeOK ==
  /\ trip \in [Trips -> {Absent} \cup Trip]
  /\ cancels \subseteq Trips \X (Drivers \cup {None})
  /\ accepts \subseteq pressed
  /\ assigned \subseteq given
  /\ ended \subseteq Event
  /\ worker \in [Workers -> {Idle} \cup Handling]
  /\ pair \in [Trips -> Pair]
  /\ activeRider \in [Drivers -> Riders \cup {None}]
  /\ activeDriver \in [Riders -> Drivers \cup {None}]
  /\ calls \in 0..MaxCalls
  /\ faults \in 0..MaxFaults
  /\ pressed \subseteq Trips \X Drivers
  /\ named \subseteq Trips \X Riders
  /\ given \subseteq Trips \X Drivers
  /\ served \subseteq Trips
  /\ marred \subseteq Trips

\* The end of trip t is still to be handled: the event is queued, or the
\* consumer that has it is not past the deletion.
EndIsQueued(t) ==
  \E e \in ended : /\ e.trip = t
                   /\ \A w \in Workers : worker[w] # Idle /\ worker[w].event = e
                                           => worker[w].pc # "notify"

\* Another trip of the same rider, accepted by the same driver, or accepted with
\* the name of this trip's rider.
Entangled(t, d) ==
  \E u \in Trips \ {t} : /\ Exists(u)
                         /\ \/ trip[u].rider = trip[t].rider
                            \/ <<u, trip[t].rider>> \in named
                            \/ <<u, d>> \in pressed

\* While a trip is under way its chat and its relay are up: nobody else's
\* clearing takes them down, unless the rider or the driver is part of another
\* trip too.
RelayServes ==
  \A t \in served \ marred :
    LET d == trip[t].driver
    IN  trip[t].status = "accepted" /\ ~Entangled(t, d)
          => /\ Participants(t) = {trip[t].rider, d}
             /\ activeRider[d] = trip[t].rider
             /\ activeDriver[trip[t].rider] = d

\* Driver d was given a trip of rider r.
Tied(d, r) == \E t \in Trips : <<t, d>> \in given /\ trip[t].rider = r

\* A driver who is about to be told of a cancellation was given the trip or,
\* when the driver had to be looked up, another trip of its rider.
NoticeIsTied ==
  \A w \in Workers : worker[w] # Idle /\ worker[w].driver # None =>
    Tied(worker[w].driver, trip[worker[w].event.trip].rider)

\* What makes it inductive: everything queued or in hand is about a trip that
\* exists, so that its rider is settled, and every driver in a document, in a
\* queue or behind a pointer was given the trip.
TripsExist ==
  /\ \A x \in pressed \cup given \cup cancels : Exists(x[1])
  /\ \A e \in ended : Exists(e.trip)
  /\ \A w \in Workers : worker[w] # Idle => Exists(worker[w].event.trip)

DriversAreGiven ==
  /\ \A t \in Trips : Exists(t) /\ trip[t].driver # None
                        => <<t, trip[t].driver>> \in given
  /\ \A c \in cancels : c[2] # None => c \in given
  /\ \A e \in ended : e.kind = "cancelled" /\ e.driver # None
                        => <<e.trip, e.driver>> \in given
  /\ \A r \in Riders : activeDriver[r] # None => Tied(activeDriver[r], r)

IndInv ==
  /\ TypeOK
  /\ TripsExist
  /\ DriversAreGiven
  /\ NoticeIsTied

\* "After acceptance, cancellation must fully terminate trip chat + location
\* relay".  A rider is sent the position of a driver only if trip-service gave
\* the driver a trip of that rider, pressing accept is not enough, and only
\* until the end of the trip has been handled; and then nobody may chat about
\* it any more.  The exceptions are trips with late or failed writes and users
\* with several trips.
StreamsEnd ==
  /\ \A d \in Drivers : \A r \in Watchers(d) :
       \E t \in Trips :
         /\ <<t, d>> \in given
         /\ trip[t].rider = r
         /\ ~Ended(t) \/ EndIsQueued(t) \/ t \in marred \/ Entangled(t, d)
  /\ \A t \in served \ marred :
       Ended(t) /\ ~EndIsQueued(t) /\ ~Entangled(t, trip[t].driver)
         => Participants(t) = {}

\* What makes StreamsEnd and RelayServes inductive.  Of a trip that nothing has
\* marred: one driver at most has pressed accept, and only that driver is in a
\* document, behind a key or in the hands of a consumer;
OneDriver ==
  /\ given \subseteq pressed
  /\ \A t \in Trips \ marred : \A d, e \in Drivers :
       <<t, d>> \in pressed /\ <<t, e>> \in pressed => d = e
  /\ \A x \in given : trip[x[1]].driver # None
  /\ \A t \in served : Exists(t) /\ trip[t].driver # None

MayBePair(t, p) ==
  p # NoPair => /\ <<t, p.driver>> \in pressed
                /\ p.rider = trip[t].rider \/ <<t, p.rider>> \in named

KeysArePressed ==
  /\ \A t \in Trips : MayBePair(t, pair[t])
  /\ \A w \in Workers : worker[w] # Idle
       => MayBePair(worker[w].event.trip, worker[w].seen)

\* nothing about its end is queued before it ends;
EndsOnce ==
  \A t \in Trips \ marred : ~Ended(t) =>
    /\ \A e \in ended : e.trip # t
    /\ \A w \in Workers : worker[w] # Idle => worker[w].event.trip # t

\* the pair that a consumer is about to delete is still the one it has read,
\* unless another consumer was faster;
SeenLasts ==
  \A w \in Workers :
    /\ worker[w] # Idle
    /\ worker[w].pc = "delete"
    /\ worker[w].event.trip \notin marred
    => pair[worker[w].event.trip] \in {NoPair, worker[w].seen}

\* a pointer was written for a trip that has been served;
WatchersAreServed ==
  \A d \in Drivers : activeRider[d] # None =>
    \E t \in served : <<t, d>> \in given /\ trip[t].rider = activeRider[d]

\* and its keys come and go together, up to the handling of its end.
Up(t, d) ==
  /\ pair[t] = [rider |-> trip[t].rider, driver |-> d]
  /\ activeRider[d] = trip[t].rider
  /\ activeDriver[trip[t].rider] = d

Down(t, d) == pair[t] = NoPair /\ activeRider[d] # trip[t].rider

UpOrDown(t) ==
  LET d == trip[t].driver
  IN  ~Entangled(t, d) =>
        IF Ended(t) THEN (Up(t, d) /\ EndIsQueued(t)) \/ Down(t, d)
          ELSE Up(t, d)

StreamInv ==
  /\ OneDriver
  /\ KeysArePressed
  /\ EndsOnce
  /\ SeenLasts
  /\ WatchersAreServed
  /\ \A t \in served \ marred : UpOrDown(t)
=============================================================================
