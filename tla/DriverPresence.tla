--------------------------- MODULE DriverPresence ---------------------------
(***************************************************************************)
(* Whether a driver can be found: the driver's sockets on the ws-gateway   *)
(* pods, the per-user connection gate in front of them, the GEO index of   *)
(* driver-service and the location updates that fill it.                   *)
(*                                                                         *)
(* All keys are per user, so one driver is modelled; each member of        *)
(* Sockets is one connection attempt.  A pod is subscribed to the driver's *)
(* channel while it has a local socket of the driver (UserDelivery shows   *)
(* this in detail), so PubSubNumSub is positive when some socket is local. *)
(* Riders pass the same gate.  Deferred calls run in reverse order: the    *)
(* driver is unregistered first, then the heartbeat stops, then the slot   *)
(* is released.                                                            *)
(***************************************************************************)
EXTENDS Integers, FiniteSets

CONSTANTS
  Pods, Sockets, Packages,
  Limit,      \* sockets per user, 3 in the code
  MaxFaults   \* bound: Redis errors, failed calls and stopping pods

ASSUME PresenceAssumption ==
  /\ IsFiniteSet(Sockets)
  /\ Limit \in Nat
  /\ MaxFaults \in Nat

VARIABLES
  sock,    \* the handler of each socket
  local,   \* sockets in the registry of their pod (ConnectionManager.byUser)
  conns,   \* the key ws:conns:<user>; 0 when it is absent
  geo,     \* packages in whose GEO index the driver is
  locs,    \* packages named by queued location updates
  faults,
  leaked,  \* history: increments since the key was absent that nobody will undo
  reset    \* history: the key was dropped while a socket held a slot

vars == <<sock, local, conns, geo, locs, faults, leaked, reset>>

----------------------------------------------------------------------------
(* Data *)

New == [pc |-> "new"]
Closed == [pc |-> "closed"]

\* slot: release undoes an increment; a socket that failed open has none.
Handler ==
  [pc : {"admitted", "open", "removed", "grace", "unregister", "release",
         "delete"},
   pod : Pods, pkg : Packages, slot : BOOLEAN]

Running == {s \in Sockets : sock[s] \notin {New, Closed}}

\* Mutant of Beating: the heartbeat goroutine is never stopped.
BeatingForever == {s \in Sockets : sock[s] # New}

\* Handlers whose heartbeat goroutine refreshes the key's TTL.
Beating == {s \in Running : sock[s].pc \notin {"release", "delete"}}

\* Sockets whose increment of conns is still to be undone.
Holding == {s \in Running : sock[s].slot /\ sock[s].pc # "delete"}

Moves(s, to) == sock' = [sock EXCEPT ![s].pc = to]
Fault == faults < MaxFaults /\ faults' = faults + 1

Init ==
  /\ sock = [s \in Sockets |-> New]
  /\ local = {}
  /\ conns = 0
  /\ geo = {}
  /\ locs = {}
  /\ faults = 0
  /\ leaked = 0
  /\ reset = FALSE

----------------------------------------------------------------------------
(* WsConnectionGate *)

\* Mutant of Admits: the count is compared before it is incremented.
AdmitsBefore == conns <= Limit

Admits == conns + 1 <= Limit

\* INCR, with EXPIRE when the result is 1.  A rejected attempt has incremented
\* the key too, and nothing takes that back.
WsConnectionGate(s, p, k) ==
  /\ sock[s] = New
  /\ conns' = conns + 1
  /\ IF Admits
       THEN /\ sock' = [sock EXCEPT ![s] = [pc |-> "admitted", pod |-> p,
                                            pkg |-> k, slot |-> TRUE]]
            /\ UNCHANGED leaked
       ELSE /\ sock' = [sock EXCEPT ![s] = Closed]
            /\ leaked' = leaked + 1
  /\ UNCHANGED <<local, geo, locs, faults, reset>>

\* The script fails: the gate lets the socket in and release does nothing.
GateFailsOpen(s, p, k) ==
  /\ Fault
  /\ sock[s] = New
  /\ sock' = [sock EXCEPT ![s] = [pc |-> "admitted", pod |-> p, pkg |-> k,
                                  slot |-> FALSE]]
  /\ UNCHANGED <<local, conns, geo, locs, leaked, reset>>

\* No heartbeat for the 60 s of the TTL: nobody sends any, or Redis does not
\* get them.
KeyExpires ==
  /\ conns # 0
  /\ IF Beating = {} THEN UNCHANGED faults ELSE Fault
  /\ conns' = 0
  /\ leaked' = 0
  /\ reset' = (reset \/ Holding # {})
  /\ UNCHANGED <<sock, local, geo, locs>>

\* Mutant of Release: the key is not decremented.
ReleaseForgets(s) ==
  /\ sock[s].pc = "release"
  /\ sock' = [sock EXCEPT ![s] = Closed]
  /\ UNCHANGED <<local, conns, geo, locs, faults, leaked, reset>>

\* The deferred release: DECR, and DEL in a second command when the result is
\* not positive.  DECR of an absent key makes it -1.
Release(s) ==
  /\ sock[s].pc = "release"
  /\ IF sock[s].slot
       THEN /\ conns' = conns - 1
            /\ sock' = [sock EXCEPT ![s] = IF conns - 1 <= 0
                                             THEN [@ EXCEPT !.pc = "delete"]
                                             ELSE Closed]
       ELSE /\ UNCHANGED conns
            /\ sock' = [sock EXCEPT ![s] = Closed]
  /\ UNCHANGED <<local, geo, locs, faults, leaked, reset>>

ReleaseFails(s) ==
  /\ Fault
  /\ sock[s].pc = "release"
  /\ leaked' = IF sock[s].slot THEN leaked + 1 ELSE leaked
  /\ sock' = [sock EXCEPT ![s] = Closed]
  /\ UNCHANGED <<local, conns, geo, locs, reset>>

DeleteKey(s) ==
  /\ sock[s].pc = "delete"
  /\ conns' = 0
  /\ leaked' = 0
  /\ reset' = (reset \/ Holding # {})
  /\ sock' = [sock EXCEPT ![s] = Closed]
  /\ UNCHANGED <<local, geo, locs, faults>>

\* The error of DEL is ignored; the key stays at what it is.
DeleteFails(s) ==
  /\ Fault
  /\ sock[s].pc = "delete"
  /\ sock' = [sock EXCEPT ![s] = Closed]
  /\ UNCHANGED <<local, conns, geo, locs, leaked, reset>>

----------------------------------------------------------------------------
(* handleDriversWebSocket *)

Add(s) ==
  /\ sock[s].pc = "admitted"
  /\ local' = local \cup {s}
  /\ Moves(s, "open")
  /\ UNCHANGED <<conns, geo, locs, faults, leaked, reset>>

\* A location frame is published; the client sends one every five seconds.
SendLocation(s) ==
  /\ sock[s].pc = "open"
  /\ locs' = locs \cup {sock[s].pkg}
  /\ UNCHANGED <<sock, local, conns, geo, faults, leaked, reset>>

\* A write to the socket fails: SendToSocket closes it and takes it out of the
\* registry; its handler has yet to notice.
WriteFails(s) ==
  /\ s \in local
  /\ local' = local \ {s}
  /\ UNCHANGED <<sock, conns, geo, locs, faults, leaked, reset>>

\* The read loop ends and the deferred function removes the socket.
Remove(s) ==
  /\ sock[s].pc = "open"
  /\ local' = local \ {s}
  /\ Moves(s, "removed")
  /\ UNCHANGED <<conns, geo, locs, faults, leaked, reset>>

HasLocalUser(p) == \E s \in local : sock[s].pod = p

\* HasLocalUser is asked once at once, and again when the handler has slept
\* for the grace period.
FirstCheck(s) ==
  /\ sock[s].pc = "removed"
  /\ Moves(s, IF HasLocalUser(sock[s].pod) THEN "release" ELSE "grace")
  /\ UNCHANGED <<local, conns, geo, locs, faults, leaked, reset>>

SecondCheck(s) ==
  /\ sock[s].pc = "grace"
  /\ Moves(s, IF HasLocalUser(sock[s].pod) THEN "release" ELSE "unregister")
  /\ UNCHANGED <<local, conns, geo, locs, faults, leaked, reset>>

\* ZREM from the index of this socket's package.
UnregisterDriver(s) ==
  /\ sock[s].pc = "unregister"
  /\ geo' = geo \ {sock[s].pkg}
  /\ Moves(s, "release")
  /\ UNCHANGED <<local, conns, locs, faults, leaked, reset>>

\* The call fails, or ZREM does, whose error nobody looks at.
UnregisterFails(s) ==
  /\ Fault
  /\ sock[s].pc = "unregister"
  /\ Moves(s, "release")
  /\ UNCHANGED <<local, conns, geo, locs, leaked, reset>>

\* The process ends: no deferred function runs.  A graceful shutdown does not
\* wait for hijacked connections either.
PodStops(p) ==
  LET gone == {s \in Running : sock[s].pod = p}
  IN  /\ Fault
      /\ gone # {}
      /\ sock' = [s \in Sockets |-> IF s \in gone THEN Closed ELSE sock[s]]
      /\ local' = local \ gone
      /\ leaked' = leaked + Cardinality(gone \cap Holding)
      /\ UNCHANGED <<conns, geo, locs, reset>>

----------------------------------------------------------------------------
(* driver-service *)

\* Mutant of UpdateDriverLocation: only a listed driver is updated.
UpdateListedOnly(k) ==
  /\ k \in locs
  /\ locs' = locs \ {k}
  /\ UNCHANGED <<sock, local, conns, geo, faults, leaked, reset>>

\* The location consumer upserts the driver; an equal update may be queued
\* behind this one, or this one be delivered again.  What the consumer relays
\* to the rider is in module TripPair.
UpdateDriverLocation(k) ==
  /\ k \in locs
  /\ geo' = geo \cup {k}
  /\ locs' \in {locs, locs \ {k}}
  /\ UNCHANGED <<sock, local, conns, faults, leaked, reset>>

\* The driver is listed for the package and some pod is subscribed.
FindAvailableDrivers(k) == k \in geo /\ local # {}

----------------------------------------------------------------------------

\* What the handler of a socket does once its connection is gone.
Teardown(s) ==
  \/ FirstCheck(s) \/ SecondCheck(s) \/ UnregisterDriver(s) \/ Release(s)
  \/ DeleteKey(s)

Next ==
  \/ \E s \in Sockets, p \in Pods, k \in Packages :
       WsConnectionGate(s, p, k) \/ GateFailsOpen(s, p, k)
  \/ \E s \in Sockets :
       \/ Add(s) \/ SendLocation(s) \/ WriteFails(s) \/ Remove(s)
       \/ Teardown(s) \/ ReleaseFails(s) \/ DeleteFails(s) \/ UnregisterFails(s)
  \/ KeyExpires
  \/ \E p \in Pods : PodStops(p)
  \/ \E k \in Packages : UpdateDriverLocation(k)

Spec == Init /\ [][Next]_vars

\* A handler goes on; a closed connection is noticed by its reader; a client
\* reports its position as long as it is connected, and the consumer takes its
\* queue in order; time passes for a key that nobody refreshes.
Fairness ==
  /\ \A s \in Sockets :
       /\ WF_vars(Add(s))
       /\ WF_vars(Teardown(s))
       /\ WF_vars(s \notin local /\ Remove(s))
       /\ WF_vars(SendLocation(s))
  /\ \A k \in Packages : WF_vars(UpdateDriverLocation(k))
  /\ WF_vars(conns > 0 /\ Beating = {} /\ KeyExpires)

FairSpec == Spec /\ Fairness

----------------------------------------------------------------------------
(* Properties *)

\* Every variable has its type, and only sockets of running handlers are
\* registered.
TypeOK ==
  /\ sock \in [Sockets -> {New, Closed} \cup Handler]
  /\ local \subseteq {s \in Running : sock[s].pc = "open"}
  /\ conns \in Int
  /\ geo \subseteq Packages
  /\ locs \subseteq Packages
  /\ faults \in 0..MaxFaults
  /\ leaked \in Nat
  /\ reset \in BOOLEAN

\* "enforces a per-user limit on simultaneous WebSocket connections": it does,
\* through every interleaving of connects, releases and rejections, as long as
\* the key is not dropped while a socket holds a slot.  Sockets that were let
\* in because Redis failed hold none.
LimitHolds == reset \/ Cardinality(Holding) <= Limit

\* What the key counts: the sockets that hold a slot, and the increments of
\* rejected attempts, failed releases and stopped pods since it was absent.
\* Nothing else can keep a user out.
CountIsExplained == conns <= Cardinality(Holding) + leaked

\* What makes LimitHolds inductive: every slot is counted.
SlotsAreCounted == reset \/ Cardinality(Holding) <= conns

IndInv == TypeOK /\ LimitHolds /\ SlotsAreCounted /\ CountIsExplained

\* A user without sockets can connect again: the key goes, whatever rejected
\* attempts, failures and stopped pods left in it.
GateRecovers == Running = {} ~> conns <= 0 \/ Running # {}

\* A driver who stays connected and reports is found, also after the teardown
\* of an earlier socket on the other pod has unregistered the driver.
OnlineIsFindable ==
  \A s \in Sockets, k \in Packages :
    s \in local /\ sock[s].pkg = k
      ~> FindAvailableDrivers(k) \/ s \notin local
=============================================================================
