------------------------ MODULE DriverPresenceProofs ------------------------
(***************************************************************************)
(* Proofs about DriverPresence, for any finite set of sockets and any      *)
(* limit: the gate counts every slot it gave, so it holds its limit as     *)
(* long as the key is not dropped under a socket, and nothing but slots    *)
(* and known leaks is counted.                                             *)
(***************************************************************************)
EXTENDS DriverPresence, FiniteSetTheorems, TLAPS

USE PresenceAssumption

----------------------------------------------------------------------------
(* Types *)

PCs == {"admitted", "open", "removed", "grace", "unregister", "release",
        "delete"}

\* A socket with a step to do has a handler.
LEMMA SockType ==
  ASSUME TypeOK, NEW s \in Sockets
  PROVE  /\ sock[s].pc \in PCs <=> sock[s] \notin {New, Closed}
         /\ sock[s] \notin {New, Closed} => sock[s] \in Handler
         /\ s \in local => sock[s].pc = "open"
BY DEF TypeOK, Handler, New, Closed, PCs, Running

LEMMA FaultType ==
  ASSUME TypeOK, Fault
  PROVE  faults' \in 0..MaxFaults
BY DEF TypeOK, Fault

\* The sockets that hold a slot are finitely many.
LEMMA HoldingIsFinite ==
  /\ IsFiniteSet(Holding)
  /\ Cardinality(Holding) \in Nat
<1>1. Holding \subseteq Sockets
  BY DEF Holding, Running
<1> QED BY <1>1, FS_Subset, FS_CardinalityType

----------------------------------------------------------------------------
(* Counting slots *)

Counting == LimitHolds /\ SlotsAreCounted /\ CountIsExplained

\* A handler moves on and keeps its slot.
LEMMA MoveStep ==
  ASSUME TypeOK, NEW s \in Sockets, sock[s].pc \in PCs \ {"delete"},
         NEW to \in PCs \ {"delete"}, Moves(s, to)
  PROVE  /\ sock' \in [Sockets -> {New, Closed} \cup Handler]
         /\ Holding' = Holding
         /\ Running' = Running
         /\ \A x \in Sockets \ {s} : sock'[x] = sock[x]
         /\ sock'[s].pc = to
<1>1. sock[s] \in Handler
  BY SockType
<1>2. /\ sock' \in [Sockets -> {New, Closed} \cup Handler]
      /\ sock'[s] \in Handler /\ sock'[s].pc = to /\ sock'[s].slot = sock[s].slot
      /\ \A x \in Sockets \ {s} : sock'[x] = sock[x]
  BY <1>1 DEF TypeOK, Moves, Handler, PCs
<1>3. sock[s] \notin {New, Closed} /\ sock'[s] \notin {New, Closed}
  BY <1>1, <1>2 DEF Handler, New, Closed
<1>4. Running' = Running
  BY <1>2, <1>3 DEF Running
<1>5. Holding' = Holding
  BY <1>2, <1>4 DEF Holding, Running
<1> QED BY <1>2, <1>4, <1>5

\* A handler ends, and its slot with it.
LEMMA CloseStep ==
  ASSUME TypeOK, NEW s \in Sockets, sock[s].pc \in PCs,
         \/ sock' = [sock EXCEPT ![s] = Closed]
         \/ sock' = [sock EXCEPT ![s].pc = "delete"]
  PROVE  /\ sock' \in [Sockets -> {New, Closed} \cup Handler]
         /\ Holding' = Holding \ {s}
         /\ \A x \in Sockets \ {s} : sock'[x] = sock[x]
<1>1. sock[s] \in Handler
  BY SockType
<1>2. /\ sock' \in [Sockets -> {New, Closed} \cup Handler]
      /\ sock'[s] = Closed \/ sock'[s].pc = "delete"
      /\ \A x \in Sockets \ {s} : sock'[x] = sock[x]
  BY <1>1 DEF TypeOK, Handler, PCs
<1>3. Holding' = Holding \ {s}
  BY <1>2 DEF Holding, Running
<1> QED BY <1>2, <1>3

\* A step that gives and takes no slot and leaves the key alone.
LEMMA SameCount ==
  ASSUME Counting, Holding' = Holding, UNCHANGED <<conns, leaked, reset>>
  PROVE  Counting'
BY DEF Counting, LimitHolds, SlotsAreCounted, CountIsExplained

----------------------------------------------------------------------------
(* The gate *)

LEMMA GateStep ==
  ASSUME IndInv, NEW s \in Sockets, NEW p \in Pods, NEW k \in Packages,
         WsConnectionGate(s, p, k)
  PROVE  IndInv'
<1> USE DEF WsConnectionGate
<1>0. TypeOK /\ Counting
  BY DEF IndInv, Counting
<1>1. s \notin Holding /\ s \notin local
  BY <1>0, SockType DEF Holding, Running, New
<1>2. CASE Admits
  <2>1. /\ sock' = [sock EXCEPT ![s] = [pc |-> "admitted", pod |-> p, pkg |-> k,
                                        slot |-> TRUE]]
        /\ leaked' = leaked /\ conns' = conns + 1 /\ conns + 1 <= Limit
    BY <1>2 DEF Admits
  <2>2. /\ sock'[s] \in Handler /\ sock'[s].pc = "admitted" /\ sock'[s].slot
        /\ \A x \in Sockets \ {s} : sock'[x] = sock[x]
        /\ sock' \in [Sockets -> {New, Closed} \cup Handler]
    BY <1>0, <2>1 DEF TypeOK, Handler
  <2>3. TypeOK'
    BY <1>0, <1>1, <2>1, <2>2 DEF TypeOK, Running
  <2>4. Holding' = Holding \cup {s}
    BY <2>2 DEF Holding, Running, Handler, New, Closed
  <2>5. Cardinality(Holding') = Cardinality(Holding) + 1
    BY <1>1, <2>4, HoldingIsFinite, FS_AddElement
  <2>6. Counting'
    BY <1>0, <2>1, <2>5, HoldingIsFinite
    DEF Counting, LimitHolds, SlotsAreCounted, CountIsExplained, TypeOK
  <2> QED BY <2>3, <2>6 DEF IndInv, Counting
<1>3. CASE ~Admits
  <2>1. /\ sock' = [sock EXCEPT ![s] = Closed]
        /\ leaked' = leaked + 1 /\ conns' = conns + 1
    BY <1>3
  <2>2. /\ \A x \in Sockets \ {s} : sock'[x] = sock[x]
        /\ sock'[s] = Closed
        /\ sock' \in [Sockets -> {New, Closed} \cup Handler]
    BY <1>0, <2>1 DEF TypeOK
  <2>3. TypeOK'
    BY <1>0, <1>1, <2>1, <2>2 DEF TypeOK, Running
  <2>4. Holding' = Holding
    BY <1>1, <2>2 DEF Holding, Running
  <2>5. Counting'
    BY <1>0, <2>1, <2>4, HoldingIsFinite
    DEF Counting, LimitHolds, SlotsAreCounted, CountIsExplained, TypeOK
  <2> QED BY <2>3, <2>5 DEF IndInv, Counting
<1> QED BY <1>2, <1>3

LEMMA FailsOpenStep ==
  ASSUME IndInv, NEW s \in Sockets, NEW p \in Pods, NEW k \in Packages,
         GateFailsOpen(s, p, k)
  PROVE  IndInv'
<1> USE DEF GateFailsOpen
<1>0. TypeOK /\ Counting
  BY DEF IndInv, Counting
<1>1. s \notin Holding /\ s \notin local
  BY <1>0, SockType DEF Holding, Running, New
<1>2. /\ sock'[s] \in Handler /\ ~sock'[s].slot
      /\ \A x \in Sockets \ {s} : sock'[x] = sock[x]
      /\ sock' \in [Sockets -> {New, Closed} \cup Handler]
  BY <1>0 DEF TypeOK, Handler
<1>3. TypeOK'
  BY <1>0, <1>1, <1>2, FaultType DEF TypeOK, Running
<1>4. Holding' = Holding
  BY <1>1, <1>2 DEF Holding, Running
<1> QED BY <1>0, <1>3, <1>4, SameCount DEF IndInv, Counting

LEMMA ExpiryStep ==
  ASSUME IndInv, KeyExpires
  PROVE  IndInv'
<1> USE DEF KeyExpires
<1>0. TypeOK /\ Counting
  BY DEF IndInv, Counting
<1>1. TypeOK'
  BY <1>0, FaultType DEF TypeOK, Running
<1>2. Holding' = Holding
  BY DEF Holding, Running
<1>3. Holding = {} => Cardinality(Holding) = 0
  BY FS_EmptySet
<1>4. reset' \/ Cardinality(Holding) = 0
  BY <1>3
<1>5. conns' = 0 /\ leaked' = 0
  OBVIOUS
<1>6. Counting'
  BY <1>2, <1>4, <1>5, HoldingIsFinite
  DEF Counting, LimitHolds, SlotsAreCounted, CountIsExplained
<1> QED BY <1>1, <1>6 DEF IndInv, Counting

\* The slot of s goes, and with it either one from the key or one to the leaks.
LEMMA SlotStep ==
  ASSUME TypeOK, Counting, NEW s \in Sockets, Holding' = Holding \ {s},
         reset' = reset,
         \/ s \in Holding /\ conns' = conns - 1 /\ leaked' = leaked
         \/ s \in Holding /\ conns' = conns /\ leaked' = leaked + 1
         \/ s \notin Holding /\ conns' = conns /\ leaked' = leaked
  PROVE  Counting'
<1>1. Cardinality(Holding') =
        IF s \in Holding THEN Cardinality(Holding) - 1 ELSE Cardinality(Holding)
  BY HoldingIsFinite, FS_RemoveElement
<1> QED BY <1>1, HoldingIsFinite
  DEF Counting, LimitHolds, SlotsAreCounted, CountIsExplained, TypeOK

LEMMA ReleaseStep ==
  ASSUME IndInv, NEW s \in Sockets, Release(s) \/ ReleaseFails(s)
  PROVE  IndInv'
<1>0. TypeOK /\ Counting /\ sock[s].pc = "release" /\ s \notin local
  BY SockType DEF IndInv, Counting, Release, ReleaseFails
<1>1. \/ sock' = [sock EXCEPT ![s] = Closed]
      \/ sock' = [sock EXCEPT ![s].pc = "delete"]
  BY <1>0 DEF Release, ReleaseFails, TypeOK
<1>2. /\ sock' \in [Sockets -> {New, Closed} \cup Handler]
      /\ Holding' = Holding \ {s}
      /\ \A x \in Sockets \ {s} : sock'[x] = sock[x]
  BY <1>0, <1>1, CloseStep DEF PCs
<1>3. TypeOK'
  BY <1>0, <1>2, FaultType DEF TypeOK, Running, Release, ReleaseFails
<1>4. s \in Holding <=> sock[s].slot
  BY <1>0, SockType DEF Holding, Running, New, Closed
<1>5. Counting'
  BY <1>0, <1>2, <1>4, SlotStep DEF Release, ReleaseFails
<1> QED BY <1>3, <1>5 DEF IndInv, Counting

LEMMA DeleteStep ==
  ASSUME IndInv, NEW s \in Sockets, DeleteKey(s)
  PROVE  IndInv'
<1> USE DEF DeleteKey
<1>0. TypeOK /\ Counting /\ s \notin local /\ s \notin Holding
  BY SockType DEF IndInv, Counting, Holding
<1>1. /\ sock' \in [Sockets -> {New, Closed} \cup Handler]
      /\ Holding' = Holding \ {s}
      /\ \A x \in Sockets \ {s} : sock'[x] = sock[x]
  BY <1>0, CloseStep DEF PCs
<1>2. TypeOK'
  BY <1>0, <1>1 DEF TypeOK, Running
<1>3. Holding' = Holding
  BY <1>0, <1>1
<1>4. reset' \/ Cardinality(Holding) = 0
  BY FS_EmptySet
<1>5. conns' = 0 /\ leaked' = 0
  OBVIOUS
<1>6. Counting'
  BY <1>3, <1>4, <1>5, HoldingIsFinite
  DEF Counting, LimitHolds, SlotsAreCounted, CountIsExplained
<1> QED BY <1>2, <1>6 DEF IndInv, Counting

LEMMA DeleteFailsStep ==
  ASSUME IndInv, NEW s \in Sockets, DeleteFails(s)
  PROVE  IndInv'
<1> USE DEF DeleteFails
<1>0. TypeOK /\ Counting /\ s \notin local /\ s \notin Holding
  BY SockType DEF IndInv, Counting, Holding
<1>1. /\ sock' \in [Sockets -> {New, Closed} \cup Handler]
      /\ Holding' = Holding \ {s}
      /\ \A x \in Sockets \ {s} : sock'[x] = sock[x]
  BY <1>0, CloseStep DEF PCs
<1>2. TypeOK'
  BY <1>0, <1>1, FaultType DEF TypeOK, Running
<1> QED BY <1>0, <1>1, <1>2, SameCount DEF IndInv, Counting

----------------------------------------------------------------------------
(* Sockets and the index *)

\* A handler moves on; only its own registration may change.
LEMMA HandlerStep ==
  ASSUME IndInv, NEW s \in Sockets, sock[s].pc \in PCs \ {"delete", "release"},
         NEW to \in PCs \ {"delete"}, Moves(s, to),
         \/ local' = local \ {s}
         \/ to = "open" /\ local' = local \cup {s},
         geo' \subseteq Packages, faults' \in 0..MaxFaults,
         UNCHANGED <<conns, locs, leaked, reset>>
  PROVE  IndInv'
<1>0. TypeOK /\ Counting
  BY DEF IndInv, Counting
<1>1. /\ sock' \in [Sockets -> {New, Closed} \cup Handler]
      /\ Holding' = Holding
      /\ Running' = Running
      /\ \A x \in Sockets \ {s} : sock'[x] = sock[x]
      /\ sock'[s].pc = to
  BY <1>0, MoveStep
<1>2. s \in Running
  BY <1>0, SockType DEF Running
<1>3. local' \subseteq {x \in Running : sock[x].pc = "open"}'
  BY <1>0, <1>1, <1>2 DEF TypeOK, Running
<1>4. TypeOK'
  BY <1>0, <1>1, <1>3 DEF TypeOK
<1> QED BY <1>0, <1>1, <1>4, SameCount DEF IndInv, Counting

\* A socket that is not open is not registered.
LEMMA NotLocal ==
  ASSUME IndInv, NEW s \in Sockets, sock[s].pc # "open"
  PROVE  local = local \ {s}
BY SockType DEF IndInv

LEMMA SocketStep ==
  ASSUME IndInv, NEW s \in Sockets,
         \/ Add(s) \/ Remove(s) \/ FirstCheck(s) \/ SecondCheck(s)
         \/ UnregisterDriver(s) \/ UnregisterFails(s)
  PROVE  IndInv'
<1>0. TypeOK /\ geo \subseteq Packages /\ faults \in 0..MaxFaults
  BY DEF IndInv, TypeOK
<1>1. CASE Add(s)
  BY <1>0, <1>1, HandlerStep DEF Add, PCs
<1>2. CASE Remove(s)
  BY <1>0, <1>2, HandlerStep DEF Remove, PCs
<1>3. CASE FirstCheck(s)
  BY <1>0, <1>3, NotLocal, HandlerStep DEF FirstCheck, PCs
<1>4. CASE SecondCheck(s)
  BY <1>0, <1>4, NotLocal, HandlerStep DEF SecondCheck, PCs
<1>5. CASE UnregisterDriver(s)
  BY <1>0, <1>5, NotLocal, HandlerStep DEF UnregisterDriver, PCs
<1>6. CASE UnregisterFails(s)
  BY <1>0, <1>6, NotLocal, FaultType, HandlerStep DEF UnregisterFails, PCs
<1> QED BY <1>1, <1>2, <1>3, <1>4, <1>5, <1>6

\* Steps that leave the handlers and the key alone.
LEMMA IndexStep ==
  ASSUME IndInv, UNCHANGED <<sock, conns, faults, leaked, reset>>,
         local' \subseteq local, geo' \subseteq Packages, locs' \subseteq Packages
  PROVE  IndInv'
<1>1. TypeOK' /\ Holding' = Holding
  BY DEF IndInv, TypeOK, Holding, Running
<1> QED BY <1>1, SameCount DEF IndInv, Counting

LEMMA PodStopsStep ==
  ASSUME IndInv, NEW p \in Pods, PodStops(p)
  PROVE  IndInv'
<1> DEFINE gone == {s \in Running : sock[s].pod = p}
           n == Cardinality(gone \cap Holding)
<1>0. TypeOK /\ Counting
  BY DEF IndInv, Counting
<1>1. /\ sock' = [s \in Sockets |-> IF s \in gone THEN Closed ELSE sock[s]]
      /\ local' = local \ gone
      /\ leaked' = leaked + n
      /\ faults' \in 0..MaxFaults
      /\ UNCHANGED <<conns, geo, locs, reset>>
  BY <1>0, FaultType DEF PodStops
<1>2. Holding' = Holding \ gone
  BY <1>1 DEF Holding, Running
<1>3. /\ Cardinality(Holding') = Cardinality(Holding) - n
      /\ n \in Nat
  <2>1. gone \cap Holding = Holding \cap gone
    OBVIOUS
  <2>2. IsFiniteSet(gone \cap Holding)
    BY HoldingIsFinite, FS_Intersection
  <2>3. n \in Nat
    BY <2>2, FS_CardinalityType
  <2>4. Cardinality(Holding \ gone) = Cardinality(Holding) - Cardinality(Holding \cap gone)
    BY HoldingIsFinite, FS_Difference
  <2> QED BY <1>2, <2>1, <2>3, <2>4
<1> HIDE DEF n
<1>4. Counting'
  BY <1>0, <1>1, <1>3, HoldingIsFinite
  DEF Counting, LimitHolds, SlotsAreCounted, CountIsExplained, TypeOK
<1>5. TypeOK'
  <2>1. sock' \in [Sockets -> {New, Closed} \cup Handler]
    BY <1>0, <1>1 DEF TypeOK
  <2>2. local' \subseteq {s \in Running : sock[s].pc = "open"}'
    BY <1>0, <1>1 DEF TypeOK, Running
  <2>3. leaked' \in Nat
    BY <1>0, <1>1, <1>3 DEF TypeOK
  <2>4. conns' \in Int /\ geo' \subseteq Packages /\ locs' \subseteq Packages
    BY <1>0, <1>1 DEF TypeOK
  <2>5. reset' \in BOOLEAN /\ faults' \in 0..MaxFaults
    BY <1>0, <1>1 DEF TypeOK
  <2> QED BY <2>1, <2>2, <2>3, <2>4, <2>5 DEF TypeOK
<1> QED BY <1>4, <1>5 DEF IndInv, Counting

----------------------------------------------------------------------------
(* Theorems *)

LEMMA InitIndInv == Init => IndInv
<1> SUFFICES ASSUME Init PROVE IndInv
  OBVIOUS
<1>1. TypeOK
  <2>1. sock \in [Sockets -> {New, Closed} \cup Handler]
    BY DEF Init
  <2>2. local \subseteq {s \in Running : sock[s].pc = "open"}
    BY DEF Init
  <2>3. conns \in Int /\ faults \in 0..MaxFaults /\ leaked \in Nat
    BY DEF Init
  <2>4. geo \subseteq Packages /\ locs \subseteq Packages /\ reset \in BOOLEAN
    BY DEF Init
  <2> QED BY <2>1, <2>2, <2>3, <2>4 DEF TypeOK
<1>2. Holding = {}
  BY DEF Init, Holding, Running
<1>3. Cardinality(Holding) = 0
  BY <1>2, FS_EmptySet
<1> QED BY <1>1, <1>3
  DEF Init, IndInv, LimitHolds, SlotsAreCounted, CountIsExplained

LEMMA NextIndInv == IndInv /\ [Next]_vars => IndInv'
<1> SUFFICES ASSUME IndInv, [Next]_vars PROVE IndInv'
  OBVIOUS
<1>0. TypeOK
  BY DEF IndInv
<1>1. ASSUME NEW s \in Sockets, NEW p \in Pods, NEW k \in Packages,
             WsConnectionGate(s, p, k) \/ GateFailsOpen(s, p, k)
      PROVE  IndInv'
  BY <1>1, GateStep, FailsOpenStep
<1>2. ASSUME NEW s \in Sockets,
             Add(s) \/ Remove(s) \/ Teardown(s) \/ ReleaseFails(s)
               \/ DeleteFails(s) \/ UnregisterFails(s)
      PROVE  IndInv'
  BY <1>2, SocketStep, ReleaseStep, DeleteStep, DeleteFailsStep DEF Teardown
<1>3. ASSUME NEW s \in Sockets, SendLocation(s)
      PROVE  IndInv'
  <2>1. sock[s] \in Handler
    BY <1>0, <1>3, SockType DEF SendLocation, PCs
  <2>2. sock[s].pkg \in Packages
    BY <2>1 DEF Handler
  <2> QED BY <1>0, <1>3, <2>2, IndexStep DEF SendLocation, TypeOK
<1>4. ASSUME NEW s \in Sockets, WriteFails(s)
      PROVE  IndInv'
  BY <1>0, <1>4, IndexStep DEF WriteFails, TypeOK
<1>5. CASE KeyExpires
  BY <1>5, ExpiryStep
<1>6. ASSUME NEW p \in Pods, PodStops(p)
      PROVE  IndInv'
  BY <1>6, PodStopsStep
<1>7. ASSUME NEW k \in Packages, UpdateDriverLocation(k)
      PROVE  IndInv'
  BY <1>0, <1>7, IndexStep DEF UpdateDriverLocation, TypeOK
<1>8. CASE UNCHANGED vars
  BY <1>0, <1>8, IndexStep DEF vars, TypeOK
<1> QED BY <1>1, <1>2, <1>3, <1>4, <1>5, <1>6, <1>7, <1>8 DEF Next

\* The inductive invariant holds in every reachable state.
THEOREM IndInvTheorem == Spec => []IndInv
BY InitIndInv, NextIndInv, PTL DEF Spec

\* Every variable keeps its type, and only open sockets are registered.
THEOREM TypeCorrect == Spec => []TypeOK
<1>1. IndInv => TypeOK
  BY DEF IndInv
<1> QED BY <1>1, IndInvTheorem, PTL

\* The gate of ws-gateway holds its limit, for any number of sockets and pods,
\* as long as the key was not dropped while a socket held a slot.
THEOREM LimitTheorem == Spec => []LimitHolds
<1>1. IndInv => LimitHolds
  BY DEF IndInv
<1> QED BY <1>1, IndInvTheorem, PTL

\* Nothing but slots in use, rejected attempts, failed releases and stopped
\* pods is counted against a user.
THEOREM ExplainedTheorem == Spec => []CountIsExplained
<1>1. IndInv => CountIsExplained
  BY DEF IndInv
<1> QED BY <1>1, IndInvTheorem, PTL
=============================================================================
