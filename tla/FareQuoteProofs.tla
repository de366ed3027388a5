-------------------------- MODULE FareQuoteProofs --------------------------
(***************************************************************************)
(* Proofs about FareQuote, for any users, requests, previews and routes:   *)
(* it implements RideOffer, whatever is overwritten, expires or fails, and *)
(* a fare on a rider's screen is refused only when it was superseded.      *)
(***************************************************************************)
EXTENDS FareQuote, TLAPS

USE FareAssumption

----------------------------------------------------------------------------
(* Types *)

\* A price is a whole number of quarters of a cent.
LEMMA PriceType ==
  ASSUME NEW k \in Packages, NEW r \in Routes
  PROVE  estimateFareRoute(k, r) \in Int
<1>1. getBaseFares[k] \in Int
  BY DEF getBaseFares
<1>2. r.distance \in Int /\ r.duration \in Int
  OBVIOUS
<1> QED BY <1>1, <1>2 DEF estimateFareRoute

\* What a request holds at each of its steps.
LEMMA CallType ==
  ASSUME TypeOK, NEW c \in Calls
  PROVE  /\ call[c].pc = "route" => call[c].user \in Users
         /\ call[c].pc = "save" => /\ call[c].user \in Users
                                   /\ call[c].route \in Routes \cup {NoRoute}
         /\ call[c].pc \in {"convert", "reply", "get", "insert"} =>
              call[c].user \in Users /\ call[c].preview \in Previews
         /\ call[c].pc \in {"convert", "reply"} =>
              call[c] = [pc |-> call[c].pc, user |-> call[c].user,
                         preview |-> call[c].preview]
         /\ call[c].pc \in {"get", "insert"} => call[c].pkg \in Packages
         /\ call[c].pc = "insert" => call[c].price \in Int
BY DEF TypeOK, Idle, Previewing, Starting

\* What a preview that was made records.
LEMMA MadeType ==
  ASSUME TypeOK, NEW v \in Previews, made[v] # None
  PROVE  /\ made[v].user \in Users
         /\ made[v].route \in Routes \cup {NoRoute}
         /\ HasRoute(v) => made[v].route \in Routes
BY DEF TypeOK, HasRoute

\* The initial state.
LEMMA InitIndInv == Init => IndInv
BY DEF Init, IndInv, TypeOK, KeptIsKnown, RequestIsKnown, TripIsPriced,
       RefusedWasSuperseded, Idle

----------------------------------------------------------------------------
(* What is known stays known *)

\* A step that leaves the previews made alone, and supersedes the stored
\* preview it replaces.
Keeps ==
  /\ \A v \in Previews : made[v] # None => made'[v] = made[v]
  /\ superseded \subseteq superseded'
  /\ \A u \in Users : \/ stored'[u] = stored[u]
                      \/ stored[u] = None
                      \/ stored[u] \in superseded'

\* Then whatever a user may hold can still be held.
LEMMA KnownStays ==
  ASSUME Keeps, NEW u \in Users, NEW v \in Previews, Known(u, v)
  PROVE  Known(u, v)' /\ (HasRoute(v) => HasRoute(v)')
BY DEF Keeps, Known, HasRoute

LEMMA TakeableStays ==
  ASSUME Keeps, NEW u \in Users, NEW v \in Previews, Takeable(u, v)
  PROVE  Takeable(u, v)'
BY KnownStays DEF Takeable

\* Trips and refusals survive a step that adds none.
LEMMA TripsStay ==
  ASSUME IndInv, Keeps, trips' = trips
  PROVE  TripIsPriced'
<1> SUFFICES ASSUME NEW t \in trips PROVE Takeable(t.user, t.preview)' /\ Priced(t)'
  BY DEF TripIsPriced
<1>1. t.user \in Users /\ t.preview \in Previews
  BY DEF IndInv, TypeOK
<1>2. Takeable(t.user, t.preview) /\ Priced(t)
  BY DEF IndInv, TripIsPriced
<1>3. Takeable(t.user, t.preview)'
  BY <1>1, <1>2, TakeableStays
<1>4. made'[t.preview] = made[t.preview]
  BY <1>1, <1>2 DEF Keeps, Takeable, Known
<1> QED BY <1>2, <1>3, <1>4 DEF Priced

\* So does what the store and the screens hold, where they do not change.
LEMMA KeptStays ==
  ASSUME IndInv, Keeps, NEW u \in Users
  PROVE  /\ stored'[u] = stored[u] /\ stored[u] # None => Known(u, stored[u])'
         /\ shown'[u] = shown[u] /\ shown[u] # None => Takeable(u, shown[u])'
<1>1. /\ stored[u] # None => stored[u] \in Previews /\ Known(u, stored[u])
      /\ shown[u] # None => shown[u] \in Previews /\ Takeable(u, shown[u])
  BY DEF IndInv, TypeOK, KeptIsKnown
<1> QED BY <1>1, KnownStays, TakeableStays DEF Known, Takeable, HasRoute

\* And what a request holds that does not move.
HoldsKnown(c) ==
  /\ call[c].pc = "convert" => Known(call[c].user, call[c].preview)
  /\ call[c].pc \in {"reply", "get", "insert"} =>
       Takeable(call[c].user, call[c].preview)
  /\ call[c].pc = "insert" => Priced(call[c])

LEMMA RequestStays ==
  ASSUME IndInv, Keeps, NEW c \in Calls, call'[c] = call[c]
  PROVE  HoldsKnown(c)'
<1> TypeOK /\ HoldsKnown(c)
  BY DEF IndInv, RequestIsKnown, HoldsKnown
<1>1. call[c].pc \in {"convert", "reply", "get", "insert"} =>
        call[c].user \in Users /\ call[c].preview \in Previews
  BY CallType
<1>2. call[c].pc = "convert" => Known(call[c].user, call[c].preview)'
  BY <1>1, KnownStays DEF HoldsKnown, Known
<1>3. call[c].pc \in {"reply", "get", "insert"} =>
        Takeable(call[c].user, call[c].preview)'
  BY <1>1, TakeableStays DEF HoldsKnown, Takeable, Known, HasRoute
<1>4. call[c].pc = "insert" => made'[call[c].preview] = made[call[c].preview]
  BY <1>1 DEF HoldsKnown, Takeable, Known, Keeps
<1> QED BY <1>2, <1>3, <1>4 DEF HoldsKnown, Known, Takeable, HasRoute, Priced

\* A request that holds no preview.
LEMMA HoldsNothing ==
  ASSUME NEW c \in Calls, call[c].pc \in {"idle", "route", "save", "error"}
  PROVE  HoldsKnown(c)
BY DEF HoldsKnown

\* What a step has to show.
LEMMA StepIndInv ==
  ASSUME IndInv, TypeOK', Keeps,
         \A u \in Users :
           stored'[u] = stored[u] \/ stored'[u] = None \/ Known(u, stored[u])',
         \A u \in Users : shown'[u] = shown[u] \/ Takeable(u, shown[u])',
         \A c \in Calls : call'[c] = call[c] \/ HoldsKnown(c)',
         TripIsPriced',
         RefusedWasSuperseded'
  PROVE  IndInv'
<1>1. KeptIsKnown'
  BY KeptStays DEF KeptIsKnown, Known, Takeable, HasRoute
<1>2. RequestIsKnown'
  BY RequestStays DEF RequestIsKnown, HoldsKnown
<1> QED BY <1>1, <1>2 DEF IndInv

\* A step that only moves requests.
LEMMA CallStep ==
  ASSUME IndInv, TypeOK',
         UNCHANGED <<stored, shown, trips, made, superseded, refused>>,
         \A c \in Calls : call'[c] = call[c] \/ HoldsKnown(c)'
  PROVE  IndInv'
<1>1. Keeps
  BY DEF Keeps
<1>2. TripIsPriced'
  BY <1>1, TripsStay
<1>3. RefusedWasSuperseded'
  BY DEF IndInv, RefusedWasSuperseded
<1> QED BY <1>1, <1>2, <1>3, StepIndInv

----------------------------------------------------------------------------
(* The actions *)

LEMMA HandleTripPreviewStep ==
  ASSUME IndInv, NEW c \in Calls, NEW u \in Users, HandleTripPreview(c, u)
  PROVE  IndInv'
<1> USE DEF HandleTripPreview, Sets
<1>1. TypeOK'
  BY DEF IndInv, TypeOK, Previewing, Idle
<1>2. \A d \in Calls : call'[d] = call[d] \/ HoldsKnown(d)'
  BY HoldsNothing DEF IndInv, TypeOK, HoldsKnown
<1> QED BY <1>1, <1>2, CallStep

LEMMA GetRouteStep ==
  ASSUME IndInv, NEW c \in Calls, GetRoute(c)
  PROVE  IndInv'
<1> USE DEF GetRoute, Sets
<1>1. TypeOK'
  BY CallType DEF IndInv, TypeOK, Previewing, Idle
<1>2. \A d \in Calls : call'[d] = call[d] \/ HoldsKnown(d)'
  BY DEF IndInv, TypeOK, HoldsKnown
<1> QED BY <1>1, <1>2, CallStep

LEMMA ToProtoStep ==
  ASSUME IndInv, NEW c \in Calls, ToProto(c)
  PROVE  IndInv'
<1> USE DEF ToProto
<1>0. TypeOK /\ call[c].pc = "convert"
  BY DEF IndInv
<1>a. call'[c] = [pc |-> "reply", user |-> call[c].user, preview |-> call[c].preview]
  BY <1>0, CallType DEF TypeOK
<1>1. TypeOK'
  BY <1>0, <1>a, CallType DEF TypeOK, Previewing, Idle
<1>2. HoldsKnown(c)'
  BY <1>0, <1>a DEF IndInv, RequestIsKnown, HoldsKnown, Takeable, Known, HasRoute
<1>3. \A d \in Calls : call'[d] = call[d] \/ HoldsKnown(d)'
  BY <1>2 DEF IndInv, TypeOK
<1> QED BY <1>1, <1>3, CallStep

LEMMA ToProtoPanicsStep ==
  ASSUME IndInv, NEW c \in Calls, ToProtoPanics(c)
  PROVE  IndInv'
<1> USE DEF ToProtoPanics
<1>1. TypeOK'
  BY DEF IndInv, TypeOK, AtTripService, Starting, Idle
<1>2. \A d \in Calls : call'[d] = call[d] \/ HoldsKnown(d)'
  BY DEF IndInv, TypeOK, HoldsKnown, Idle
<1> QED BY <1>1, <1>2, CallStep

\* Requests that end in nothing.
LEMMA EndsStep ==
  ASSUME IndInv, NEW c \in Calls, Ends(c), faults' \in 0..MaxFaults,
         UNCHANGED <<stored, shown, hits, trips, gateway, made, superseded,
                     refused>>
  PROVE  IndInv'
<1> USE DEF Ends, Sets
<1>1. TypeOK'
  BY DEF IndInv, TypeOK, Idle
<1>2. \A d \in Calls : call'[d] = call[d] \/ HoldsKnown(d)'
  BY DEF IndInv, TypeOK, HoldsKnown, Idle
<1> QED BY <1>1, <1>2, CallStep

LEMMA FaultType ==
  ASSUME TypeOK, Fault
  PROVE  faults' \in 0..MaxFaults
BY DEF TypeOK, Fault

LEMMA SaveFarePreviewStep ==
  ASSUME IndInv, NEW c \in Calls, NEW v \in Previews, SaveFarePreview(c, v)
  PROVE  IndInv'
<1> DEFINE w == call[c].user
<1> USE DEF SaveFarePreview, Sets
<1>0. TypeOK /\ call[c].pc = "save" /\ w \in Users
      /\ call[c].route \in Routes \cup {NoRoute} /\ made[v] = None
  BY CallType DEF IndInv
<1>1. TypeOK'
  BY <1>0 DEF TypeOK, Previewing, Idle
<1>2. Keeps
  BY <1>0 DEF Keeps, TypeOK
<1>a. made'[v] = [user |-> w, route |-> call[c].route]
  BY <1>0 DEF TypeOK
<1>b. made'[v] # None
  BY <1>0, <1>a
<1>3. Known(w, v)'
  BY <1>0, <1>a, <1>b DEF Known, TypeOK
<1>4. \A u \in Users : stored'[u] = stored[u] \/ Known(u, stored[u])'
  BY <1>0, <1>3 DEF TypeOK, Known
<1>5. HoldsKnown(c)'
  BY <1>0, <1>3 DEF TypeOK, HoldsKnown, Known
<1>6. \A d \in Calls : call'[d] = call[d] \/ HoldsKnown(d)'
  BY <1>5 DEF IndInv, TypeOK
<1>7. TripIsPriced'
  BY <1>2, TripsStay
<1>8. RefusedWasSuperseded'
  BY DEF IndInv, RefusedWasSuperseded
<1> QED BY <1>1, <1>2, <1>4, <1>6, <1>7, <1>8, StepIndInv

LEMMA PreviewAnsweredStep ==
  ASSUME IndInv, NEW c \in Calls, PreviewAnswered(c)
  PROVE  IndInv'
<1> DEFINE w == call[c].user
           v == call[c].preview
<1> USE DEF PreviewAnswered, Ends, Sets
<1>0. TypeOK /\ w \in Users /\ v \in Previews /\ Takeable(w, v)
  BY CallType DEF IndInv, RequestIsKnown
<1>1. TypeOK'
  BY <1>0 DEF TypeOK, Idle
<1>2. Keeps
  BY DEF Keeps
<1>3. \A u \in Users : shown'[u] = shown[u] \/ Takeable(u, shown[u])'
  BY <1>0 DEF TypeOK, Takeable, Known, HasRoute
<1>4. \A d \in Calls : call'[d] = call[d] \/ HoldsKnown(d)'
  BY <1>0 DEF TypeOK, HoldsKnown, Idle
<1>5. TripIsPriced' /\ RefusedWasSuperseded'
  BY <1>2, TripsStay DEF IndInv, RefusedWasSuperseded
<1> QED BY <1>1, <1>2, <1>3, <1>4, <1>5, StepIndInv

LEMMA PreviewExpiresStep ==
  ASSUME IndInv, NEW u \in Users, PreviewExpires(u)
  PROVE  IndInv'
<1> USE DEF PreviewExpires
<1>0. TypeOK /\ stored[u] \in Previews
  BY DEF IndInv, TypeOK
<1>1. TypeOK'
  BY <1>0, FaultType DEF TypeOK
<1>2. Keeps
  BY <1>0 DEF Keeps, TypeOK
<1>3. \A x \in Users : stored'[x] = stored[x] \/ stored'[x] = None
  BY <1>0 DEF TypeOK
<1>4. TripIsPriced' /\ RefusedWasSuperseded'
  BY <1>2, TripsStay DEF IndInv, RefusedWasSuperseded
<1> QED BY <1>1, <1>2, <1>3, <1>4, StepIndInv

\* A request to start a trip begins with a preview from the screen.
LEMMA StartStep ==
  ASSUME IndInv, NEW c \in Calls, NEW u \in Users, NEW k \in Packages,
         call[c] = Idle, shown[u] # None,
         \/ call' = call
         \/ Sets(c, [pc |-> "get", user |-> u, preview |-> shown[u], pkg |-> k]),
         hits' \in [Users -> 0..(Limit + 1)], faults' \in 0..MaxFaults,
         UNCHANGED <<stored, shown, trips, gateway, lost, made, superseded,
                     refused>>
  PROVE  IndInv'
<1> USE DEF Sets
<1>0. TypeOK /\ shown[u] \in Previews /\ Takeable(u, shown[u])
  BY DEF IndInv, TypeOK, KeptIsKnown
<1>1. TypeOK'
  BY <1>0 DEF TypeOK, Starting, Idle
<1>2. \A d \in Calls : call'[d] = call[d] \/ HoldsKnown(d)'
  BY <1>0 DEF TypeOK, HoldsKnown, Takeable, Known, HasRoute
<1> QED BY <1>1, <1>2, CallStep

LEMMA HandleStartTripStep ==
  ASSUME IndInv, NEW c \in Calls, NEW u \in Users, NEW k \in Packages,
         HandleStartTrip(c, u, k)
  PROVE  IndInv'
<1>1. hits' \in [Users -> 0..(Limit + 1)]
  BY DEF IndInv, TypeOK, HandleStartTrip
<1>2. faults' \in 0..MaxFaults
  BY DEF IndInv, TypeOK, HandleStartTrip
<1> QED BY <1>1, <1>2, StartStep DEF HandleStartTrip

LEMMA LimitFailsOpenStep ==
  ASSUME IndInv, NEW c \in Calls, NEW u \in Users, NEW k \in Packages,
         LimitFailsOpen(c, u, k)
  PROVE  IndInv'
<1>1. hits' \in [Users -> 0..(Limit + 1)]
  BY DEF IndInv, TypeOK, LimitFailsOpen
<1>2. faults' \in 0..MaxFaults
  BY FaultType DEF IndInv, LimitFailsOpen
<1> QED BY <1>1, <1>2, StartStep DEF LimitFailsOpen

LEMMA GetAndValidateFareStep ==
  ASSUME IndInv, NEW c \in Calls, GetAndValidateFare(c)
  PROVE  IndInv'
<1> DEFINE u == call[c].user
           v == call[c].preview
           k == call[c].pkg
           x == estimateFareRoute(k, made[v].route)
<1> USE DEF GetAndValidateFare, GetRideFareByID, Sets
<1>0. /\ TypeOK /\ u \in Users /\ v \in Previews /\ k \in Packages
      /\ Takeable(u, v)
  BY CallType DEF IndInv, RequestIsKnown
<1>1. x \in Int
  BY <1>0, MadeType, PriceType DEF Takeable, Known
<1>2. Keeps
  BY DEF Keeps
<1>3. TripIsPriced'
  BY <1>2, TripsStay
<1>4. CASE stored[u] = v
  <2> HIDE DEF x
  <2>a. Sets(c, [pc |-> "insert", user |-> u, preview |-> v, pkg |-> k,
                 price |-> x])
    BY <1>4 DEF x
  <2>1. TypeOK'
    BY <1>0, <1>1, <1>4, <2>a DEF TypeOK, Starting, Idle
  <2>b. call'[c] = [pc |-> "insert", user |-> u, preview |-> v, pkg |-> k,
                    price |-> x]
    BY <1>0, <2>a DEF TypeOK
  <2>c. Takeable(u, v)'
    BY <1>0, <2>b DEF Takeable, Known, HasRoute
  <2>2. HoldsKnown(c)'
    BY <2>b, <2>c DEF HoldsKnown, Takeable, Known, HasRoute, Priced, x
  <2>3. \A d \in Calls : call'[d] = call[d] \/ HoldsKnown(d)'
    BY <1>0, <2>2, <2>a DEF TypeOK
  <2>4. UNCHANGED refused
    BY <1>4
  <2> QED BY <2>1, <2>3, <2>4, CallStep
<1>5. CASE stored[u] # v
  <2>1. TypeOK'
    BY <1>0, <1>5 DEF TypeOK, Starting, Idle
  <2>2. \A d \in Calls : call'[d] = call[d] \/ HoldsKnown(d)'
    BY <1>0, <1>5 DEF TypeOK, HoldsKnown
  <2>3. RefusedWasSuperseded'
    BY <1>0, <1>5 DEF IndInv, RefusedWasSuperseded, Takeable, Known
  <2> QED BY <1>2, <1>3, <2>1, <2>2, <2>3, StepIndInv
<1> QED BY <1>4, <1>5

\* A trip is added with what its request holds.
Booked(c) == [user |-> call[c].user, preview |-> call[c].preview,
              pkg |-> call[c].pkg, price |-> call[c].price]

LEMMA BookStep ==
  ASSUME IndInv, NEW c \in Calls,
         \/ trips' = trips
         \/ call[c].pc = "insert" /\ trips' = trips \cup {Booked(c)},
         Ends(c) \/ (Sets(c, [pc |-> "error"]) /\ lost' = lost),
         call[c] # Idle,
         faults' \in 0..MaxFaults,
         UNCHANGED <<stored, shown, hits, gateway, made, superseded, refused>>
  PROVE  IndInv'
<1> USE DEF Ends, Sets
<1>0. TypeOK /\ Keeps
  BY DEF IndInv, Keeps
<1>1. TypeOK'
  <2>1. trips' \subseteq [user : Users, preview : Previews, pkg : Packages,
                          price : Int]
    BY <1>0, CallType DEF TypeOK, Booked
  <2>2. call' \in [Calls -> {Idle} \cup Previewing \cup Starting]
    BY <1>0 DEF TypeOK, Starting
  <2>3. lost' \subseteq {d \in Calls : call'[d] # Idle}
    BY <1>0 DEF TypeOK, Idle
  <2> QED BY <1>0, <2>1, <2>2, <2>3 DEF TypeOK
<1>2. \A d \in Calls : call'[d] = call[d] \/ HoldsKnown(d)'
  BY <1>0 DEF TypeOK, HoldsKnown, Idle
<1>3. TripIsPriced'
  <2>1. CASE trips' = trips
    BY <1>0, <2>1, TripsStay
  <2>2. CASE call[c].pc = "insert" /\ trips' = trips \cup {Booked(c)}
    <3>1. Takeable(call[c].user, call[c].preview) /\ Priced(call[c])
      BY <2>2 DEF IndInv, RequestIsKnown
    <3>2. \A t \in trips : Takeable(t.user, t.preview) /\ Priced(t)
      BY DEF IndInv, TripIsPriced
    <3>3. \A t \in trips' : Takeable(t.user, t.preview) /\ Priced(t)
      BY <2>2, <3>1, <3>2 DEF Booked, Priced
    <3> QED BY <3>3 DEF TripIsPriced, Takeable, Known, HasRoute, Priced
  <2> QED BY <2>1, <2>2
<1>4. RefusedWasSuperseded'
  BY DEF IndInv, RefusedWasSuperseded
<1> QED BY <1>0, <1>1, <1>2, <1>3, <1>4, StepIndInv

LEMMA CreateTripStep ==
  ASSUME IndInv, NEW c \in Calls, CreateTrip(c)
  PROVE  IndInv'
<1>1. faults' \in 0..MaxFaults /\ call[c] # Idle
  BY DEF IndInv, TypeOK, CreateTrip, Idle
<1> QED BY <1>1, BookStep DEF CreateTrip, Booked

LEMMA CreateTripFailsStep ==
  ASSUME IndInv, NEW c \in Calls, CreateTripFails(c)
  PROVE  IndInv'
<1>1. faults' \in 0..MaxFaults /\ call[c] # Idle
  BY FaultType DEF IndInv, CreateTripFails, Idle
<1> QED BY <1>1, BookStep DEF CreateTripFails, Booked

LEMMA GatewayExitsStep ==
  ASSUME IndInv, NEW c \in Calls, GatewayExits(c)
  PROVE  IndInv'
<1> USE DEF GatewayExits
<1>1. TypeOK'
  BY DEF IndInv, TypeOK, AtTripService, Idle
<1>2. \A d \in Calls : call'[d] = call[d] \/ HoldsKnown(d)'
  BY DEF HoldsKnown, Idle
<1> QED BY <1>1, <1>2, CallStep

\* Every step preserves the inductive invariant.
LEMMA NextIndInv == IndInv /\ [Next]_vars => IndInv'
<1> SUFFICES ASSUME IndInv, [Next]_vars PROVE IndInv'
  OBVIOUS
<1>0. TypeOK
  BY DEF IndInv
<1>1. ASSUME NEW c \in Calls, NEW u \in Users, HandleTripPreview(c, u)
      PROVE  IndInv'
  BY <1>1, HandleTripPreviewStep
<1>2. ASSUME NEW c \in Calls, NEW u \in Users, NEW k \in Packages,
             HandleStartTrip(c, u, k) \/ LimitFailsOpen(c, u, k)
      PROVE  IndInv'
  BY <1>2, HandleStartTripStep, LimitFailsOpenStep
<1>3. ASSUME NEW c \in Calls, Handle(c)
      PROVE  IndInv'
  BY <1>3, GetRouteStep, ToProtoStep, ToProtoPanicsStep, PreviewAnsweredStep,
     SaveFarePreviewStep, GetAndValidateFareStep, CreateTripStep,
     GatewayExitsStep DEF Handle
<1>4. ASSUME NEW c \in Calls, PreviewFails(c)
      PROVE  IndInv'
  BY <1>0, <1>4, FaultType, EndsStep DEF PreviewFails
<1>5. ASSUME NEW c \in Calls, CreateTripFails(c)
      PROVE  IndInv'
  BY <1>5, CreateTripFailsStep
<1>6. ASSUME NEW c \in Calls, RequestCancelled(c)
      PROVE  IndInv'
  <2>1. faults' \in 0..MaxFaults
    BY <1>0, <1>6 DEF TypeOK, RequestCancelled
  <2> QED BY <1>6, <2>1, EndsStep DEF RequestCancelled
<1>7. ASSUME NEW u \in Users, PreviewExpires(u)
      PROVE  IndInv'
  BY <1>7, PreviewExpiresStep
<1>8. ASSUME NEW u \in Users, WindowEnds(u)
      PROVE  IndInv'
  <2>1. TypeOK'
    BY <1>0, <1>8 DEF TypeOK, WindowEnds
  <2> QED BY <1>8, <2>1, CallStep DEF WindowEnds
<1>9. CASE GatewayStarts
  <2>1. TypeOK'
    BY <1>0, <1>9 DEF TypeOK, GatewayStarts
  <2> QED BY <1>9, <2>1, CallStep DEF GatewayStarts
<1>10. CASE UNCHANGED vars
  <2>1. TypeOK'
    BY <1>0, <1>10 DEF TypeOK, vars
  <2> QED BY <1>10, <2>1, CallStep DEF vars
<1> QED
  BY <1>1, <1>2, <1>3, <1>4, <1>5, <1>6, <1>7, <1>8, <1>9, <1>10 DEF Next

----------------------------------------------------------------------------
(* Theorems *)

\* The inductive invariant holds in every reachable state.
THEOREM IndInvTheorem == Spec => []IndInv
BY InitIndInv, NextIndInv, PTL DEF Spec

\* Every variable keeps its type.
THEOREM TypeCorrect == Spec => []TypeOK
<1>1. IndInv => TypeOK
  BY DEF IndInv
<1> QED BY <1>1, IndInvTheorem, PTL

\* A fare on the screen is refused, and the gateway exits for it, only when a
\* later preview of the same rider has overwritten it or it has expired.
THEOREM RefusalTheorem == Spec => []RefusedWasSuperseded
<1>1. IndInv => RefusedWasSuperseded
  BY DEF IndInv
<1> QED BY <1>1, IndInvTheorem, PTL

----------------------------------------------------------------------------
(* Refinement *)

\* Steps that make no preview and no trip are not seen in RideOffer.
LEMMA QuietStep ==
  ASSUME UNCHANGED <<made, trips>>
  PROVE  UNCHANGED <<OffersMade, RidesBooked>>
BY DEF OffersMade, RidesBooked, HasRoute

\* Saving a preview makes the offers of a user under new names.
LEMMA SaveMakesOffers ==
  ASSUME IndInv, NEW c \in Calls, NEW v \in Previews, SaveFarePreview(c, v)
  PROVE  Offer!MakeOffers(call[c].user)
<1>0. TypeOK /\ made[v] = None /\ made' = [made EXCEPT ![v] =
        [user |-> call[c].user, route |-> call[c].route]] /\ trips' = trips
  BY DEF IndInv, SaveFarePreview
<1>1. \A w \in Previews : made[w] # None => made'[w] = made[w] /\ w # v
  BY <1>0 DEF TypeOK
<1>2. OffersMade \subseteq OffersMade'
  BY <1>1 DEF OffersMade, HasRoute
<1>3. ASSUME NEW o \in OffersMade', o \notin OffersMade
      PROVE  o.user = call[c].user /\ \A p \in OffersMade : p.fare # o.fare
  <2>1. PICK w \in Previews, k \in Packages :
          /\ made'[w] # None /\ HasRoute(w)'
          /\ o = [user |-> made'[w].user, fare |-> <<w, k>>,
                  price |-> estimateFareRoute(k, made'[w].route)]
    BY <1>3 DEF OffersMade
  <2>2. w = v
    <3> SUFFICES ASSUME w # v PROVE FALSE
      OBVIOUS
    <3>1. made'[w] = made[w]
      BY <1>0 DEF TypeOK
    <3> QED BY <1>3, <2>1, <3>1 DEF OffersMade, HasRoute
  <2>3. made'[v].user = call[c].user
    BY <1>0 DEF TypeOK
  <2>4. \A p \in OffersMade : \E x \in Previews, y \in Packages :
          made[x] # None /\ p.fare = <<x, y>>
    BY DEF OffersMade
  <2> QED BY <1>0, <2>1, <2>2, <2>3, <2>4
<1>4. RidesBooked' = RidesBooked
  BY <1>0 DEF RidesBooked
<1> QED BY <1>2, <1>3, <1>4 DEF Offer!MakeOffers

\* A trip that is created books an offer.
LEMMA TripBooksOffer ==
  ASSUME IndInv, NEW c \in Calls, call[c].pc = "insert",
         trips' = trips \cup {Booked(c)}, made' = made
  PROVE  \E o \in OffersMade : Offer!Book(o)
<1> DEFINE o == [user |-> call[c].user, fare |-> <<call[c].preview, call[c].pkg>>,
                 price |-> call[c].price]
<1>1. /\ call[c].preview \in Previews /\ call[c].pkg \in Packages
      /\ Takeable(call[c].user, call[c].preview) /\ Priced(call[c])
  BY CallType DEF IndInv, RequestIsKnown
<1>2. o \in OffersMade
  <2>1. ASSUME NEW v \in Previews, NEW k \in Packages, made[v] # None, HasRoute(v)
        PROVE  [user |-> made[v].user, fare |-> <<v, k>>,
                price |-> estimateFareRoute(k, made[v].route)] \in OffersMade
    BY <2>1 DEF OffersMade
  <2> QED BY <1>1, <2>1 DEF Takeable, Known, Priced
<1>3. RidesBooked' = RidesBooked \cup {o}
  <2> DEFINE Ride(t) == [user |-> t.user, fare |-> <<t.preview, t.pkg>>,
                         price |-> t.price]
  <2>1. Ride(Booked(c)) = o
    BY DEF Booked
  <2>2. RidesBooked = {Ride(t) : t \in trips}
    BY DEF RidesBooked
  <2>3. RidesBooked' = {Ride(t) : t \in trips'}
    BY DEF RidesBooked
  <2> HIDE DEF Ride, o
  <2> QED BY <2>1, <2>2, <2>3
<1>4. OffersMade' = OffersMade
  BY DEF OffersMade, HasRoute
<1> QED BY <1>2, <1>3, <1>4 DEF Offer!Book

\* Every step is a step of RideOffer or is not seen there.
LEMMA StepKeepsOffer ==
  ASSUME IndInv, [Next]_vars
  PROVE  [Offer!Next]_<<OffersMade, RidesBooked>>
<1>1. ASSUME NEW c \in Calls, NEW v \in Previews, SaveFarePreview(c, v)
      PROVE  Offer!Next
  <2>1. call[c].user \in Users
    BY <1>1, CallType DEF IndInv, SaveFarePreview
  <2> QED BY <1>1, <2>1, SaveMakesOffers DEF Offer!Next
<1>2. ASSUME NEW c \in Calls, CreateTrip(c)
      PROVE  Offer!Next
  BY <1>2, TripBooksOffer DEF CreateTrip, Booked, Offer!Next
<1>3. ASSUME NEW c \in Calls, CreateTripFails(c)
      PROVE  Offer!Next \/ UNCHANGED <<made, trips>>
  BY <1>3, TripBooksOffer DEF CreateTripFails, Booked, Offer!Next
<1>4. \/ UNCHANGED <<made, trips>>
      \/ \E c \in Calls, v \in Previews : SaveFarePreview(c, v)
      \/ \E c \in Calls : CreateTrip(c) \/ CreateTripFails(c)
  BY DEF Next, Handle, vars, HandleTripPreview, HandleStartTrip,
         LimitFailsOpen, GetRoute, ToProto, ToProtoPanics, PreviewAnswered,
         GetAndValidateFare, GatewayExits, PreviewFails, RequestCancelled,
         PreviewExpires, WindowEnds, GatewayStarts
<1> QED BY <1>1, <1>2, <1>3, <1>4, QuietStep

\* The preview and the creation of trips implement RideOffer: a trip has a
\* fare that was quoted to its rider, at that price, whatever fails.
THEOREM OfferTheorem == Spec => KeepsOffer
<1>1. Init => Offer!Init
  BY DEF Init, Offer!Init, OffersMade, RidesBooked
<1>2. IndInv /\ [Next]_vars => [Offer!Next]_<<OffersMade, RidesBooked>>
  BY StepKeepsOffer
<1> QED BY <1>1, <1>2, IndInvTheorem, PTL DEF Spec, KeepsOffer, Offer!Spec
=============================================================================
