----------------------------- MODULE FareQuote -----------------------------
(***************************************************************************)
(* From the preview of a trip to its creation: HandleTripPreview and       *)
(* HandleStartTrip of the api-gateway behind their rate limit, PreviewTrip *)
(* and CreateTrip of trip-service, and the key fare_preview:<user> that    *)
(* connects them.                                                          *)
(*                                                                         *)
(* A request is split at the calls to OSRM, Redis and MongoDB.  Prices are *)
(* in quarters of a cent, with which the code's 1.5 and 0.25 are whole     *)
(* numbers.  What happens to a created trip is in module TripLifecycle.    *)
(***************************************************************************)
EXTENDS Integers

CONSTANTS
  Users,
  Calls,      \* requests that are handled at the same time
  Previews,   \* bound: previews made; each has fresh fare ids
  Packages,   \* the packages a rider picks from
  Routes,     \* routes OSRM may answer: records with distance and duration
  NoRoute,    \* OSRM answers without a route
  None,
  Limit,      \* requests to start a trip per user and window, 5 in the code
  MaxFaults   \* bound: failed calls and key expiries

ASSUME FareAssumption ==
  /\ Packages \subseteq {"van", "suv", "sedan", "luxury"}
  /\ Routes \subseteq [distance : Nat, duration : Nat]
  /\ NoRoute \notin Routes
  /\ None \notin Previews \cup [user : Users, route : Routes \cup {NoRoute}]
  /\ Limit \in Nat
  /\ MaxFaults \in Nat

VARIABLES
  call,        \* what the handler of each request is doing
  stored,      \* stored[u]: the preview under fare_preview:<u>
  shown,       \* shown[u]: the preview on the rider's screen
  hits,        \* the counter rl:trip:start:<u>, counted up to Limit + 1
  trips,       \* the trips created, with their fares
  gateway,     \* whether the api-gateway runs
  lost,        \* requests trip-service works on for a gateway that is gone
  made,        \* made[v]: None, or the user and the route preview v is about
  superseded,  \* history: previews that were overwritten or have expired
  refused,     \* history: previews of whose fares one was refused
  faults

vars == <<call, stored, shown, hits, trips, gateway, lost, made, superseded,
          refused, faults>>

----------------------------------------------------------------------------
(* Data *)

getBaseFares == [van |-> 100, suv |-> 150, sedan |-> 250, luxury |-> 400]

\* Base fare, 1.5 per unit of distance and 0.25 per unit of time.
estimateFareRoute(k, r) == 4 * getBaseFares[k] + 6 * r.distance + r.duration

Idle == [pc |-> "idle"]
Previewing == [pc : {"route"}, user : Users]
                \cup [pc : {"save"}, user : Users, route : Routes \cup {NoRoute}]
                \cup [pc : {"convert", "reply"}, user : Users, preview : Previews]
Starting == [pc : {"get"}, user : Users, preview : Previews, pkg : Packages]
              \cup [pc : {"insert"}, user : Users, preview : Previews,
                    pkg : Packages, price : Int]
              \cup [pc : {"error"}]

Sets(c, to) == call' = [call EXCEPT ![c] = to]
\* The request is over.
Ends(c) == Sets(c, Idle) /\ lost' = lost \ {c}
Fault == faults < MaxFaults /\ faults' = faults + 1

Init ==
  /\ call = [c \in Calls |-> Idle]
  /\ stored = [u \in Users |-> None]
  /\ shown = [u \in Users |-> None]
  /\ hits = [u \in Users |-> 0]
  /\ trips = {}
  /\ gateway = "up"
  /\ lost = {}
  /\ made = [v \in Previews |-> None]
  /\ superseded = {}
  /\ refused = {}
  /\ faults = 0

----------------------------------------------------------------------------
(* PreviewTrip *)

\* A preview that its own rate limit or the validation refuses leaves no trace.
HandleTripPreview(c, u) ==
  /\ gateway = "up"
  /\ call[c] = Idle
  /\ Sets(c, [pc |-> "route", user |-> u])
  /\ UNCHANGED <<stored, shown, hits, trips, gateway, lost, made, superseded,
                 refused, faults>>

GetRoute(c) ==
  /\ call[c].pc = "route"
  /\ \E r \in Routes \cup {NoRoute} :
       Sets(c, [pc |-> "save", user |-> call[c].user, route |-> r])
  /\ UNCHANGED <<stored, shown, hits, trips, gateway, lost, made, superseded,
                 refused, faults>>

\* EstimatePackagePriceWithRoute and GenerateTripFares: an error of the first
\* is not looked at, so a preview without fares is saved when there is no
\* route.  The preview overwrites the user's previous one.
SaveFarePreview(c, v) ==
  LET u == call[c].user
  IN  /\ call[c].pc = "save"
      /\ made[v] = None
      /\ made' = [made EXCEPT ![v] = [user |-> u, route |-> call[c].route]]
      /\ stored' = [stored EXCEPT ![u] = v]
      /\ superseded' = superseded \cup ({stored[u]} \ {None})
      /\ Sets(c, [pc |-> "convert", user |-> u, preview |-> v])
      /\ UNCHANGED <<shown, hits, trips, gateway, lost, refused, faults>>

HasRoute(v) == made[v].route # NoRoute

\* route.ToProto.
ToProto(c) ==
  /\ call[c].pc = "convert"
  /\ HasRoute(call[c].preview)
  /\ call' = [call EXCEPT ![c].pc = "reply"]
  /\ UNCHANGED <<stored, shown, hits, trips, gateway, lost, made, superseded,
                 refused, faults>>

\* The requests that trip-service is working on.
AtTripService == {c \in Calls : call[c].pc \in {"route", "save", "convert",
                                                "get", "insert"}}

\* Without a route the index is out of range, nothing recovers, and the
\* process ends with every request in it.
ToProtoPanics(c) ==
  /\ call[c].pc = "convert"
  /\ ~HasRoute(call[c].preview)
  /\ call' = [d \in Calls |->
                IF d \notin AtTripService THEN call[d]
                ELSE IF call[d].pc \in {"get", "insert"} THEN [pc |-> "error"]
                ELSE Idle]
  /\ lost' = {d \in lost : call'[d] # Idle}
  /\ UNCHANGED <<stored, shown, hits, trips, gateway, made, superseded,
                 refused, faults>>

\* Answers reach the rider's screen in any order.
PreviewAnswered(c) ==
  /\ call[c].pc = "reply"
  /\ c \notin lost
  /\ shown' = [shown EXCEPT ![call[c].user] = call[c].preview]
  /\ Ends(c)
  /\ UNCHANGED <<stored, hits, trips, gateway, made, superseded,
                 refused, faults>>

\* Mutant of PreviewFails: the error of SaveFarePreview is ignored.
SaveErrorIgnored(c) ==
  /\ Fault
  /\ call[c].pc = "save"
  /\ \E v \in Previews :
       /\ made[v] = None
       /\ made' = [made EXCEPT ![v] = [user |-> call[c].user,
                                       route |-> call[c].route]]
       /\ Sets(c, [pc |-> "convert", user |-> call[c].user, preview |-> v])
  /\ UNCHANGED <<stored, shown, hits, trips, gateway, lost, superseded,
                 refused>>

\* OSRM or Redis fails, and the rider sees an error.
PreviewFails(c) ==
  /\ Fault
  /\ call[c].pc \in {"route", "save"}
  /\ Ends(c)
  /\ UNCHANGED <<stored, shown, hits, trips, gateway, made, superseded,
                 refused>>

\* Twenty minutes have passed since a preview was saved.
PreviewExpires(u) ==
  /\ Fault
  /\ stored[u] # None
  /\ superseded' = superseded \cup {stored[u]}
  /\ stored' = [stored EXCEPT ![u] = None]
  /\ UNCHANGED <<call, shown, hits, trips, gateway, lost, made, refused>>

----------------------------------------------------------------------------
(* CreateTrip *)

\* The rate limit counts the request and compares; the rider takes a fare from
\* the screen.
HandleStartTrip(c, u, k) ==
  /\ gateway = "up"
  /\ call[c] = Idle
  /\ shown[u] # None
  /\ hits' = [hits EXCEPT ![u] = IF @ > Limit THEN @ ELSE @ + 1]
  /\ IF hits[u] + 1 > Limit
       THEN UNCHANGED call
       ELSE Sets(c, [pc |-> "get", user |-> u, preview |-> shown[u],
                     pkg |-> k])
  /\ UNCHANGED <<stored, shown, trips, gateway, lost, made, superseded,
                 refused, faults>>

\* The limiter's Redis fails, and the request is let through.
LimitFailsOpen(c, u, k) ==
  /\ Fault
  /\ gateway = "up"
  /\ call[c] = Idle
  /\ shown[u] # None
  /\ Sets(c, [pc |-> "get", user |-> u, preview |-> shown[u], pkg |-> k])
  /\ UNCHANGED <<stored, shown, hits, trips, gateway, lost, made, superseded,
                 refused>>

WindowEnds(u) ==
  /\ hits[u] # 0
  /\ hits' = [hits EXCEPT ![u] = 0]
  /\ UNCHANGED <<call, stored, shown, trips, gateway, lost, made, superseded,
                 refused, faults>>

\* Mutant of GetAndValidateFare: the package is looked up in whatever preview
\* is stored.
GetFareOfPackage(c) ==
  LET u == call[c].user
      v == stored[u]
  IN  /\ call[c].pc = "get"
      /\ v # None
      /\ HasRoute(v)
      /\ call' = [call EXCEPT ![c] =
           [pc |-> "insert", user |-> u, preview |-> call[c].preview,
            pkg |-> call[c].pkg,
            price |-> estimateFareRoute(call[c].pkg, made[v].route)]]
      /\ UNCHANGED <<stored, shown, hits, trips, gateway, lost, made, superseded,
                     refused, faults>>

\* The user's preview is read and the fare id looked up in it.
GetRideFareByID(u, v) == stored[u] = v

GetAndValidateFare(c) ==
  LET u == call[c].user
      v == call[c].preview
  IN  /\ call[c].pc = "get"
      /\ IF GetRideFareByID(u, v)
           THEN /\ Sets(c, [pc |-> "insert", user |-> u, preview |-> v,
                            pkg |-> call[c].pkg,
                            price |-> estimateFareRoute(call[c].pkg,
                                                        made[v].route)])
                /\ UNCHANGED refused
           ELSE /\ Sets(c, [pc |-> "error"])
                /\ refused' = refused \cup {v}
      /\ UNCHANGED <<stored, shown, hits, trips, gateway, lost, made, superseded,
                     faults>>

\* The trip is created with the fare and announced, and the rider answered.
CreateTrip(c) ==
  LET q == call[c]
  IN  /\ q.pc = "insert"
      /\ trips' = trips \cup {[user |-> q.user, preview |-> q.preview,
                               pkg |-> q.pkg, price |-> q.price]}
      /\ Ends(c)
      /\ UNCHANGED <<stored, shown, hits, gateway, made, superseded, refused,
                     faults>>

\* Redis, MongoDB or the broker fails; the trip may have been inserted.
CreateTripFails(c) ==
  LET q == call[c]
  IN  /\ Fault
      /\ q.pc \in {"get", "insert"}
      /\ \/ UNCHANGED trips
         \/ /\ q.pc = "insert"
            /\ trips' = trips \cup {[user |-> q.user, preview |-> q.preview,
                                     pkg |-> q.pkg, price |-> q.price]}
      /\ Sets(c, [pc |-> "error"])
      /\ UNCHANGED <<stored, shown, hits, gateway, lost, made, superseded, refused>>

\* HandleStartTrip calls log.Fatal on every error: the process exits.  No
\* request it was serving is answered; trip-service may be working on some.
GatewayExits(c) ==
  /\ call[c].pc = "error"
  /\ c \notin lost
  /\ gateway' = "down"
  /\ lost' = AtTripService
  /\ call' = [d \in Calls |-> IF d \in AtTripService THEN call[d] ELSE Idle]
  /\ UNCHANGED <<stored, shown, hits, trips, made, superseded, refused, faults>>

\* The context of a request without a client is cancelled: trip-service gives
\* up at its next call to Redis, MongoDB or the broker, or has nobody to answer.
RequestCancelled(c) ==
  /\ c \in lost
  /\ Ends(c)
  /\ UNCHANGED <<stored, shown, hits, trips, gateway, made, superseded,
                 refused, faults>>

\* The container is started again.
GatewayStarts ==
  /\ gateway = "down"
  /\ gateway' = "up"
  /\ UNCHANGED <<call, stored, shown, hits, trips, lost, made, superseded,
                 refused, faults>>

----------------------------------------------------------------------------

Handle(c) ==
  \/ GetRoute(c) \/ ToProto(c) \/ ToProtoPanics(c) \/ PreviewAnswered(c)
  \/ \E v \in Previews : SaveFarePreview(c, v)
  \/ GetAndValidateFare(c) \/ CreateTrip(c) \/ GatewayExits(c)

Next ==
  \/ \E c \in Calls, u \in Users :
       \/ HandleTripPreview(c, u)
       \/ \E k \in Packages : HandleStartTrip(c, u, k) \/ LimitFailsOpen(c, u, k)
  \/ \E c \in Calls : Handle(c) \/ PreviewFails(c) \/ CreateTripFails(c)
                         \/ RequestCancelled(c)
  \/ \E u \in Users : PreviewExpires(u) \/ WindowEnds(u)
  \/ GatewayStarts

Spec == Init /\ [][Next]_vars

----------------------------------------------------------------------------
(* Properties *)

\* Every variable has its type.
TypeOK ==
  /\ call \in [Calls -> {Idle} \cup Previewing \cup Starting]
  /\ stored \in [Users -> Previews \cup {None}]
  /\ shown \in [Users -> Previews \cup {None}]
  /\ hits \in [Users -> 0..(Limit + 1)]
  /\ trips \subseteq [user : Users, preview : Previews, pkg : Packages,
                      price : Int]
  /\ gateway \in {"up", "down"}
  /\ lost \subseteq {c \in Calls : call[c] # Idle}
  /\ made \in [Previews -> {None} \cup
                 [user : Users, route : Routes \cup {NoRoute}]]
  /\ superseded \subseteq Previews
  /\ refused \subseteq Previews
  /\ faults \in 0..MaxFaults

\* The fares of the previews made, and those of the trips, as offers.
OffersMade ==
  {[user |-> made[v].user, fare |-> <<v, k>>,
    price |-> estimateFareRoute(k, made[v].route)] :
     v \in {w \in Previews : made[w] # None /\ HasRoute(w)}, k \in Packages}
RidesBooked ==
  {[user |-> t.user, fare |-> <<t.preview, t.pkg>>, price |-> t.price] :
     t \in trips}

\* The fare of a trip is one that was quoted to its rider, under that id and at
\* that price, whatever previews are made, overwritten and answered in between.
Offer == INSTANCE RideOffer WITH offers <- OffersMade, rides <- RidesBooked
KeepsOffer == Offer!Spec

\* A fare on the screen is refused, and the gateway exits, only when a later
\* preview of the same rider has overwritten it or it has expired.
RefusedWasSuperseded == refused \subseteq superseded

\* What makes them inductive.  A preview that is stored, on a screen or in a
\* request was made for that very user and is the stored one or superseded; one
\* that can be taken has a route, and prices are those of the preview.
Known(u, v) ==
  /\ made[v] # None
  /\ made[v].user = u
  /\ stored[u] = v \/ v \in superseded
Takeable(u, v) == Known(u, v) /\ HasRoute(v)
Priced(x) == x.price = estimateFareRoute(x.pkg, made[x.preview].route)

KeptIsKnown ==
  \A u \in Users : /\ stored[u] # None => Known(u, stored[u])
                   /\ shown[u] # None => Takeable(u, shown[u])

RequestIsKnown ==
  \A c \in Calls :
    /\ call[c].pc = "convert" => Known(call[c].user, call[c].preview)
    /\ call[c].pc \in {"reply", "get", "insert"} =>
         Takeable(call[c].user, call[c].preview)
    /\ call[c].pc = "insert" => Priced(call[c])

TripIsPriced ==
  \A t \in trips : Takeable(t.user, t.preview) /\ Priced(t)

IndInv ==
  /\ TypeOK
  /\ KeptIsKnown
  /\ RequestIsKnown
  /\ TripIsPriced
  /\ RefusedWasSuperseded
=============================================================================
