--------------------------- MODULE SchedulerRide ---------------------------
(***************************************************************************)
(* The parts of the inductive invariant: each is true at the start and     *)
(* kept by every step of a passenger and of an elevator.                   *)
(***************************************************************************)
EXTENDS SchedulerTypes

\* A request's identity is a passenger and one of its trips.
LEMMA NodeParts ==
  ASSUME NEW n \in Nodes
  PROVE  n[1] \in Passengers /\ n[2] \in 1 .. TRIPS_PER_PASSENGER /\ n = <<n[1], n[2]>>
  BY DEF Nodes

\* The immutable fields of a node: a passenger only writes its own, once.
LEMMA PKeepsNodes ==
  ASSUME TypeOK, NEW p \in Passengers, PNext(p), NEW n \in Nodes
  PROVE  \/ /\ node'[n].elevatorId = node[n].elevatorId
            /\ node'[n].from_floor = node[n].from_floor
            /\ node'[n].to_floor = node[n].to_floor
            /\ node'[n].status = node[n].status
         \/ AddRequest(p) /\ n = Req(p)
  <1> USE DEF TypeOK, ListType, NodeState
  <1>1. CASE AddRequest(p)
    BY <1>1 DEF AddRequest
  <1>2. CASE AddFirst(p)
    BY <1>2 DEF AddFirst
  <1>3. CASE AddLink(p)
    BY <1>3 DEF AddLink
  <1>4. CASE UNCHANGED listVars
    BY <1>4 DEF listVars
  <1> QED
    BY <1>1, <1>2, <1>3, <1>4, PList

\* An elevator writes elevatorId when it takes a request and at no other time.
LEMMA EKeepsNodes ==
  ASSUME TypeOK, NEW e \in Elevators, ENext(e), NEW n \in Nodes
  PROVE  /\ \/ node'[n].elevatorId = node[n].elevatorId
            \/ Take(e) /\ n = eptr[e]
         /\ node'[n].from_floor = node[n].from_floor
         /\ node'[n].to_floor = node[n].to_floor
  <1> USE DEF TypeOK, ListType, NodeState
  <1>1. CASE Take(e)
    BY <1>1 DEF Take
  <1>2. CASE RemoveHeadSet(e)
    BY <1>2 DEF RemoveHeadSet
  <1>3. CASE RemoveClear(e)
    BY <1>3 DEF RemoveClear
  <1>4. CASE RemoveSet(e)
    BY <1>4 DEF RemoveSet
  <1>5. CASE RemoveFree(e)
    BY <1>5 DEF RemoveFree
  <1>6. CASE UNCHANGED listVars
    BY <1>6 DEF listVars
  <1> QED
    BY <1>1, <1>2, <1>3, <1>4, <1>5, <1>6, EList

\* Only the thread that steps changes its place, and trip counts when a trip
\* starts.
LEMMA PMoves ==
  ASSUME TypeOK, NEW p \in Passengers, PNext(p)
  PROVE  /\ \A q \in Passengers \ {p} : ppc'[q] = ppc[q] /\ trip'[q] = trip[q]
         /\ ppc'[p] = ppc[p] \/ PFlow(ppc[p], ppc'[p])
         /\ trip'[p] = IF ppc[p] = "idle" /\ ppc'[p] = "request"
                       THEN trip[p] + 1 ELSE trip[p]
  <1> USE DEF TypeOK, PassengerType
  <1>1. \/ trip' = trip
        \/ StartTrip(p)
    BY PLocals
  <1>2. CASE StartTrip(p)
    BY <1>2, PControl DEF StartTrip, PStep, PFlow
  <1>3. CASE trip' = trip /\ ~StartTrip(p)
    BY <1>3, PControl, PIdle
  <1> QED
    BY <1>1, <1>2, <1>3

\* The same, read off the typed function of program counters.
LEMMA EMoves ==
  ASSUME TypeOK, NEW e \in Elevators, ENext(e)
  PROVE  /\ \A d \in Elevators \ {e} : epc'[d] = epc[d]
         /\ epc'[e] = epc[e] \/ EFlow(epc[e], epc'[e])
  BY EControl DEF TypeOK, ElevatorType

-----------------------------------------------------------------------------
(* Started: who is on a trip, and who has learnt its elevator.             *)

\* Nobody has started a trip.
LEMMA StartedInit == Init => Started
  <1> SUFFICES ASSUME Init, NEW p \in Passengers
               PROVE  ppc[p] = "idle"
    BY DEF Started, Learned
  <1> QED
    BY DEF Init

\* A passenger learns an elevator's id only from a claimed request.
LEMMA PStarted ==
  ASSUME TypeOK, Started, NEW p \in Passengers, PNext(p)
  PROVE  Started'
  <1> SUFFICES ASSUME NEW q \in Passengers
               PROVE  /\ ppc'[q] \notin {"idle", "end"} => trip'[q] >= 1
                      /\ ppc'[q] \in Learned => node'[Req(q)'].elevatorId \in Elevators
    BY DEF Started
  <1>1. ppc'[q] \notin {"idle", "end"} => trip'[q] >= 1
    <2>1. trip[q] \in Nat
      BY SchedulerAssumption DEF TypeOK, PassengerType
    <2> QED
      BY <2>1, PMoves DEF Started, PFlow
  <1>2. ASSUME ppc'[q] \in Learned PROVE node'[Req(q)'].elevatorId \in Elevators
    <2>1. ppc'[q] \notin {"idle", "end", "request", "addTest"}
      BY <1>2 DEF Learned
    <2>2. trip'[q] = trip[q] /\ Req(q)' = Req(q)
      BY <2>1, PMoves DEF Req
    <2>3. Req(q) \in Nodes
      BY <1>1, <2>1, <2>2, ReqIsNode
    <2>4. ~AddRequest(p) \/ Req(q) # Req(p)
      BY <2>1 DEF AddRequest, PStep, Req, TypeOK, PassengerType
    <2>5. node'[Req(q)].elevatorId = node[Req(q)].elevatorId
      BY <2>3, <2>4, PKeepsNodes
    <2>6. CASE ppc[q] \in Learned
      BY <2>2, <2>5, <2>6 DEF Started
    <2>7. CASE ppc[q] \notin Learned
      <3>1. q = p /\ ppc[p] = "spin" /\ ppc'[p] = "enter"
        BY <1>2, <2>7, PMoves DEF PFlow, Learned
      <3>2. LearnElevator(p)
        BY <3>1, PSpin DEF TypeOK
      <3>3. node[Req(q)].elevatorId # NoElevator
        BY <3>1, <3>2 DEF LearnElevator
      <3>4. node[Req(q)].elevatorId \in Elevators \cup {NoElevator}
        BY <2>3 DEF TypeOK, ListType, NodeState
      <3> QED
        BY <2>2, <2>5, <3>3, <3>4
    <2> QED
      BY <2>6, <2>7
  <1> QED
    BY <1>1, <1>2

\* An elevator claims, and never gives a claim up.
LEMMA EStarted ==
  ASSUME TypeOK, Started, NEW e \in Elevators, ENext(e)
  PROVE  Started'
  <1> SUFFICES ASSUME NEW q \in Passengers
               PROVE  /\ ppc'[q] \notin {"idle", "end"} => trip'[q] >= 1
                      /\ ppc'[q] \in Learned => node'[Req(q)'].elevatorId \in Elevators
    BY DEF Started
  <1>1. ppc' = ppc /\ trip' = trip /\ Req(q)' = Req(q)
    BY EKeepsPassengers DEF pvars, Req
  <1>2. ASSUME ppc[q] \in Learned PROVE node'[Req(q)].elevatorId \in Elevators
    <2>1. Req(q) \in Nodes
      BY <1>2, ReqIsNode DEF Started, Learned
    <2>2. CASE Take(e)
      BY <1>2, <2>1, <2>2 DEF Take, Started, TypeOK, ListType, NodeState
    <2> QED
      BY <1>2, <2>1, <2>2, EKeepsNodes DEF Started
  <1> QED
    BY <1>1, <1>2 DEF Started

-----------------------------------------------------------------------------
(* Mutex: lock_for_elevator_s is closed until the barrier opens, then a     *)
(* lock.                                                                   *)

\* lock_for_elevator_s is closed to begin with.
LEMMA MutexInit == Init => Mutex
  BY DEF Init, Mutex, ElevatorCS

\* A passenger opens the lock once, at the barrier, with nobody inside.
LEMMA PMutex ==
  ASSUME TypeOK, Mutex, NEW p \in Passengers, PNext(p)
  PROVE  Mutex'
  <1>1. epc' = epc
    BY PKeepsElevators
  <1>2. waiting \in Nat /\ Limit \in Nat
    BY LimitNat DEF TypeOK, SyncType
  <1>3. CASE Barrier(p)
    BY <1>1, <1>2, <1>3 DEF Barrier, Mutex
  <1>4. CASE UNCHANGED <<waiting, is_open, lock_for_elevator_s>>
    BY <1>1, <1>4 DEF Mutex
  <1> QED
    BY <1>3, <1>4, PBarrier

\* An elevator enters with the lock and leaves it behind.
LEMMA EMutex ==
  ASSUME TypeOK, Mutex, NEW e \in Elevators, ENext(e)
  PROVE  Mutex'
  <1>1. waiting' = waiting /\ epc \in [Elevators -> ElevatorPC]
    BY EKeepsPassengers DEF TypeOK, ElevatorType
  <1>2. CASE /\ epc[e] \in {"grab", "remove"} /\ lock_for_elevator_s > 0
             /\ lock_for_elevator_s' = lock_for_elevator_s - 1
             /\ \E to \in {"peek", "remHead"} : epc' = [epc EXCEPT ![e] = to]
    <2>1. lock_for_elevator_s = 1 /\ lock_for_elevator_s' = 0 /\ ~(waiting < Limit)
      BY <1>2 DEF Mutex
    <2>2. \A d \in Elevators : epc[d] \notin ElevatorCS
      BY <2>1 DEF Mutex
    <2>3. \A d \in Elevators \ {e} : epc'[d] \notin ElevatorCS
      BY <1>1, <1>2, <2>2
    <2> QED
      BY <1>1, <2>1, <2>3 DEF Mutex
  <1>3. CASE /\ epc[e] \in ElevatorCS
             /\ lock_for_elevator_s' = lock_for_elevator_s + 1
             /\ \E to \in {"last", "pickup", "check"} : epc' = [epc EXCEPT ![e] = to]
    <2>1. lock_for_elevator_s = 0 /\ lock_for_elevator_s' = 1 /\ ~(waiting < Limit)
      BY <1>3 DEF Mutex
    <2>2. \A d \in Elevators \ {e} : epc[d] \notin ElevatorCS
      BY <1>3 DEF Mutex
    <2>3. \A d \in Elevators : epc'[d] \notin ElevatorCS
      BY <1>1, <1>3, <2>2 DEF ElevatorCS
    <2> QED
      BY <1>1, <2>1, <2>3 DEF Mutex
  <1>4. CASE /\ UNCHANGED lock_for_elevator_s
             /\ \/ UNCHANGED epc
                \/ \E to : /\ epc' = [epc EXCEPT ![e] = to]
                           /\ epc[e] \in ElevatorCS <=> to \in ElevatorCS
    <2>1. \A d \in Elevators : epc'[d] \in ElevatorCS <=> epc[d] \in ElevatorCS
      BY <1>1, <1>4
    <2> QED
      BY <1>1, <1>4, <2>1 DEF Mutex
  <1> QED
    BY <1>2, <1>3, <1>4, ELock

-----------------------------------------------------------------------------
(* Claims: a serving elevator's request names it.                          *)

\* No elevator serves.
LEMMA ClaimsInit == Init => Claims
  BY DEF Init, Claims, Serving, RidePC

\* A passenger does not touch a claim.
LEMMA PClaims ==
  ASSUME TypeOK, Claims, Pointers, NEW p \in Passengers, PNext(p)
  PROVE  Claims'
  <1> SUFFICES ASSUME NEW e \in Elevators, Serving(e)
               PROVE  cur[e] \in Nodes /\ node'[cur[e]].elevatorId = e
    BY PKeepsElevators DEF Claims, Serving, ride
  <1>1. cur[e] \in Nodes /\ node[cur[e]].elevatorId = e
    BY DEF Claims
  <1>2. CASE AddRequest(p) /\ cur[e] = Req(p)
    <2>1. ~Made(cur[e])
      BY <1>2 DEF Made, AddRequest, PStep, Req, TypeOK, PassengerType
    <2>2. node[cur[e]].elevatorId = NoElevator
      BY <1>1, <2>1 DEF Pointers, Unallocated
    <2> QED
      BY <1>1, <2>2, BuildingAssumption
  <1> QED
    BY <1>1, <1>2, PKeepsNodes

\* An elevator claims an unclaimed request, and keeps it for the ride.
LEMMA EClaims ==
  ASSUME TypeOK, Claims, Pointers, Mutex, NEW e \in Elevators, ENext(e)
  PROVE  Claims'
  <1> SUFFICES ASSUME NEW d \in Elevators, Serving(d)'
               PROVE  cur'[d] \in Nodes /\ node'[cur'[d]].elevatorId = d
    BY DEF Claims
  <1>1. CASE Take(e)
    <2>1. eptr[e] \in Nodes /\ node[eptr[e]].elevatorId = NoElevator
      BY <1>1 DEF Take, EStep, Pointers
    <2>2. CASE d = e
      BY <1>1, <2>1, <2>2 DEF Take, TypeOK, ListType, NodeState, ElevatorType
    <2>3. CASE d # e
      <3>1. epc'[d] = epc[d] /\ cur'[d] = cur[d]
        BY <1>1, <2>3, EMoves DEF Take, TypeOK, ElevatorType
      <3>2. cur[d] \in Nodes /\ node[cur[d]].elevatorId = d
        BY <3>1 DEF Serving, Claims
      <3>3. cur[d] # eptr[e]
        BY <2>1, <3>2, BuildingAssumption
      <3> QED
        BY <3>1, <3>2, <3>3, EKeepsNodes
    <2> QED
      BY <2>2, <2>3
  <1>2. CASE ~Take(e)
    <2>1. cur' = cur
      BY <1>2, ELocals DEF ride, Plan, Move, CloseBoarded
    <2>2. Serving(d)
      BY <1>2, EMoves, ETake DEF Serving, RidePC, EFlow, TypeOK
    <2> QED
      BY <1>2, <2>1, <2>2, EKeepsNodes DEF Claims
  <1> QED
    BY <1>1, <1>2

-----------------------------------------------------------------------------
(* Pointers: the requests made are the nodes allocated, and no pointer     *)
(* leads anywhere else.                                                    *)

\* No request is allocated and every pointer is NULL.
LEMMA PointersInit == Init => Pointers
  BY NodeParts DEF Init, Pointers, Made, Unallocated

\* Made(n) in the next state.
MadeNext(n) ==
  LET p == n[1] IN n[2] < trip'[p] \/ (n[2] = trip'[p] /\ ppc'[p] # "request")

\* A request once made stays made; AddRequest makes its own.
LEMMA PMade ==
  ASSUME TypeOK, NEW p \in Passengers, PNext(p), NEW n \in Nodes
  PROVE  /\ Made(n) => MadeNext(n)
         /\ MadeNext(n) /\ ~Made(n) => AddRequest(p) /\ n = Req(p)
  <1> DEFINE q == n[1]
  <1>1. q \in Passengers /\ n[2] \in Nat /\ trip[q] \in Nat /\ n = <<q, n[2]>>
    BY NodeParts, SchedulerAssumption DEF TypeOK, PassengerType
  <1>2. CASE q # p
    BY <1>1, <1>2, PMoves DEF Made, MadeNext
  <1>3. CASE q = p
    <2>1. Made(n) => MadeNext(n)
      BY <1>1, <1>3, PMoves DEF Made, MadeNext, PFlow
    <2>2. ASSUME MadeNext(n), ~Made(n) PROVE AddRequest(p) /\ n = Req(p)
      <3>1. ppc[p] = "request" /\ ppc'[p] = "addTest" /\ n[2] = trip[p]
        BY <1>1, <1>3, <2>2, PMoves DEF Made, MadeNext, PFlow
      <3> QED
        BY <1>1, <1>3, <3>1, PRequest DEF Req, TypeOK
    <2> QED
      BY <2>1, <2>2
  <1> QED
    BY <1>2, <1>3

\* An elevator makes no request.
LEMMA EMade ==
  ASSUME NEW e \in Elevators, ENext(e), NEW n
  PROVE  MadeNext(n) <=> Made(n)
  BY EKeepsPassengers DEF Made, MadeNext, pvars

\* addRequest links allocated requests only.
LEMMA PPointers ==
  ASSUME TypeOK, TypeOK', Started, Pointers, NEW p \in Passengers, PNext(p)
  PROVE  Pointers'
  <1> USE DEF TypeOK
  <1>0. NULL \notin Nodes
    BY SchedulerAssumption DEF Nodes
  <1>1. ASSUME NEW n \in Nodes
        PROVE  /\ ~MadeNext(n) => node'[n] = Unallocated
               /\ MadeNext(n) => node'[n].status # "none"
               /\ node'[n].next # NULL => MadeNext(node'[n].next)
    <2>1. node[n] \in NodeState /\ node'[n] \in NodeState
      BY DEF ListType
    <2>2. CASE AddRequest(p)
      <3>1. trip'[p] = trip[p] /\ ppc'[p] = "addTest"
        BY <2>2 DEF AddRequest, PStep, PassengerType
      <3>2. CASE n = Req(p)
        <4>1. MadeNext(n)
          BY <3>1, <3>2 DEF MadeNext, Req
        <4>2. node'[n].status = "live" /\ node'[n].next = NULL
          BY <2>2, <3>2 DEF AddRequest, ListType
        <4> QED
          BY <4>1, <4>2
      <3>3. CASE n # Req(p)
        <4>1. node'[n] = node[n]
          BY <2>2, <3>3 DEF AddRequest, ListType
        <4> QED
          BY <2>1, <3>3, <4>1, PMade DEF Pointers, NodeState
      <3> QED
        BY <3>2, <3>3
    <2>3. CASE AddLink(p)
      <3>1. pptr[p] \in Nodes /\ Made(pptr[p]) /\ MadeNext(Req(p))
        <4>1. pptr[p] # NULL
          BY <2>3 DEF AddLink, PStep, PVerdict, Verdict, PTouches
        <4>2. ppc'[p] = "barrier" /\ trip' = trip
          BY <2>3 DEF AddLink, AddDone, PStep, PassengerType
        <4> QED
          BY <4>1, <4>2 DEF Pointers, PassengerType, MadeNext, Req
      <3>2. ~AddRequest(p)
        BY <2>3 DEF AddLink, AddRequest, PStep
      <3>3. CASE n = pptr[p]
        <4>1. node'[n].status = node[n].status /\ node'[n].next = Req(p)
          BY <2>3, <3>3 DEF AddLink, ListType, NodeState
        <4> QED
          BY <3>1, <3>3, <4>1, PMade DEF Pointers
      <3>4. CASE n # pptr[p]
        <4>1. node'[n] = node[n]
          BY <2>3, <3>4 DEF AddLink, ListType
        <4> QED
          BY <2>1, <3>2, <4>1, PMade DEF Pointers, NodeState
      <3> QED
        BY <3>3, <3>4
    <2>4. CASE ~AddRequest(p) /\ ~AddLink(p)
      <3>1. node' = node
        BY <2>4, PList DEF AddFirst, listVars
      <3> QED
        BY <2>1, <2>4, <3>1, PMade DEF Pointers, NodeState
    <2> QED
      BY <2>2, <2>3, <2>4
  <1>2. headOfRequests' # NULL => MadeNext(headOfRequests')
    <2>1. CASE AddFirst(p)
      <3>1. ppc'[p] = "barrier" /\ trip' = trip /\ headOfRequests' = Req(p)
        BY <2>1 DEF AddFirst, AddDone, PStep, PassengerType
      <3> QED
        BY <3>1 DEF MadeNext, Req
    <2>2. CASE ~AddFirst(p)
      <3>1. headOfRequests' = headOfRequests
        BY <2>2, PList DEF AddRequest, AddLink, listVars
      <3> QED
        BY <3>1, PMade DEF Pointers, ListType
    <2> QED
      BY <2>1, <2>2
  <1>3. ASSUME NEW q \in Passengers, pptr'[q] # NULL PROVE MadeNext(pptr'[q])
    <2>1. CASE AddHead(p) /\ q = p
      BY <1>0, <1>3, <2>1, PMade DEF AddHead, Pointers, ListType, PassengerType
    <2>2. CASE AddStep(p) /\ q = p
      <3>1. pptr[p] \in Nodes
        BY <2>2 DEF AddStep, PStep, PVerdict, Verdict, PTouches, PassengerType
      <3>2. pptr'[q] = node[pptr[p]].next /\ pptr'[q] \in Nodes
        BY <1>3, <2>2 DEF AddStep, PassengerType
      <3> QED
        BY <1>3, <3>1, <3>2, PMade DEF Pointers
    <2>3. CASE q # p \/ (~AddHead(p) /\ ~AddStep(p))
      <3>1. pptr'[q] = pptr[q]
        BY <2>3, PLocals DEF AddHead, AddStep, PassengerType
      <3> QED
        BY <1>3, <3>1, PMade DEF Pointers, PassengerType
    <2> QED
      BY <2>1, <2>2, <2>3
  <1>4. ASSUME NEW e \in Elevators
        PROVE  /\ eptr'[e] # NULL => MadeNext(eptr'[e])
               /\ prev'[e] # NULL => MadeNext(prev'[e])
               /\ nxt'[e] # NULL => MadeNext(nxt'[e])
    BY PKeepsElevators, PMade DEF walk, Pointers, ElevatorType
  <1>5. ASSUME NEW e \in Elevators, epc'[e] = "take"
        PROVE  eptr'[e] \in Nodes /\ node'[eptr'[e]].elevatorId = NoElevator
    <2>1. eptr'[e] = eptr[e] /\ eptr[e] \in Nodes /\ node[eptr[e]].elevatorId = NoElevator
      BY <1>5, PKeepsElevators DEF walk, Pointers
    <2>2. CASE AddRequest(p) /\ eptr[e] = Req(p)
      BY <2>1, <2>2 DEF AddRequest, ListType
    <2> QED
      BY <2>1, <2>2, PKeepsNodes
  <1> QED
    BY <1>1, <1>2, <1>3, <1>4, <1>5 DEF Pointers, Made, MadeNext

\* The pointers of a walk come from the list.
Here(d) == {eptr[d], prev[d], nxt[d], headOfRequests, NULL}
             \cup {node[n].next : n \in Nodes}

\* An elevator's pointers come from the list it walks.
LEMMA EWalk ==
  ASSUME TypeOK, NEW e \in Elevators, ENext(e), NEW d \in Elevators
  PROVE  /\ d # e => eptr'[d] = eptr[d] /\ prev'[d] = prev[d] /\ nxt'[d] = nxt[d]
         /\ eptr'[d] \in Here(d) /\ prev'[d] \in Here(d) /\ nxt'[d] \in Here(d)
  <1> USE DEF TypeOK, ElevatorType, Here
  <1>1. CASE PeekMore(e)
    BY <1>1 DEF PeekMore
  <1>2. CASE WalkPast(e)
    BY <1>2 DEF WalkPast
  <1>3. CASE RemoveHeadFound(e)
    BY <1>3 DEF RemoveHeadFound, ListType
  <1>4. CASE RemoveOther(e)
    BY <1>4 DEF RemoveOther, RemoveNothing, walk
  <1>5. CASE RemoveWalk(e)
    BY <1>5 DEF RemoveWalk, RemoveNothing, walk, EStep, EVerdict, Verdict, ETouches
  <1>6. CASE RemoveFound(e)
    BY <1>6 DEF RemoveFound, EStep, EVerdict, Verdict, ETouches
  <1>7. CASE RemoveSkip(e)
    BY <1>7 DEF RemoveSkip, EStep, EVerdict, Verdict, ETouches
  <1>8. CASE UNCHANGED walk
    BY <1>8 DEF walk
  <1> QED
    BY <1>1, <1>2, <1>3, <1>4, <1>5, <1>6, <1>7, <1>8, ELocals

\* elevator_ready and removeRequest follow and store allocated requests only.
LEMMA EPointers ==
  ASSUME TypeOK, Pointers, Mutex, NEW e \in Elevators, ENext(e)
  PROVE  Pointers'
  <1> USE DEF TypeOK
  <1>0. NULL \notin Nodes
    BY SchedulerAssumption DEF Nodes
  <1>1. \A m \in Nodes \cup {NULL} : MadeNext(m) <=> Made(m)
    BY EMade
  <1>2. ASSUME NEW n \in Nodes
        PROVE  /\ ~MadeNext(n) => node'[n] = Unallocated
               /\ MadeNext(n) => node'[n].status # "none"
               /\ node'[n].next # NULL => MadeNext(node'[n].next)
    <2>1. node[n] \in NodeState /\ node[n].next \in Nodes \cup {NULL}
      BY DEF ListType, NodeState
    <2>2. CASE node'[n] = node[n]
      <3>1. Made(n) <=> MadeNext(n)
        BY <1>1
      <3>2. node[n].next # NULL => MadeNext(node[n].next)
        BY <1>1, <2>1 DEF Pointers
      <3> QED
        BY <2>2, <3>1, <3>2 DEF Pointers
    <2>3. SUFFICES ASSUME node'[n] # node[n]
                   PROVE  /\ Made(n)
                          /\ node'[n].status # "none"
                          /\ node'[n].next # NULL => Made(node'[n].next)
                          /\ node'[n].next \in Nodes \cup {NULL}
      <3>1. Made(n) <=> MadeNext(n)
        BY <1>1
      <3> QED
        BY <1>1, <2>2, <3>1
    <2> USE DEF ListType, ElevatorType
    <2>4. CASE Take(e)
      <3>1. n = eptr[e] /\ node'[n].status = node[n].status
              /\ node'[n].next = node[n].next
        BY <2>1, <2>3, <2>4 DEF Take, NodeState
      <3> QED
        BY <1>0, <2>1, <3>1 DEF Pointers, NodeState
    <2>5. CASE RemoveClear(e)
      <3>1. n = eptr[e] /\ node'[n].status = node[n].status /\ node'[n].next = NULL
        BY <2>1, <2>3, <2>5 DEF RemoveClear, NodeState
      <3> QED
        BY <1>0, <3>1 DEF Pointers
    <2>6. CASE RemoveSet(e)
      <3>1. n = prev[e] /\ node'[n].status = node[n].status /\ node'[n].next = nxt[e]
        BY <2>1, <2>3, <2>6 DEF RemoveSet, NodeState
      <3> QED
        BY <1>0, <3>1 DEF Pointers
    <2>7. CASE RemoveFree(e)
      <3>1. n = eptr[e] /\ node'[n].status = "freed" /\ node'[n].next = node[n].next
        BY <2>1, <2>3, <2>7 DEF RemoveFree, NodeState
      <3> QED
        BY <1>0, <2>1, <3>1 DEF Pointers, NodeState
    <2>8. CASE node' = node
      BY <2>3, <2>8
    <2> QED
      BY <2>4, <2>5, <2>6, <2>7, <2>8, EList DEF RemoveHeadSet, listVars
  <1>3. headOfRequests' # NULL => MadeNext(headOfRequests')
    <2>1. headOfRequests' = headOfRequests \/ headOfRequests' = nxt[e]
      BY EList DEF Take, RemoveHeadSet, RemoveClear, RemoveSet, RemoveFree, listVars
    <2> QED
      BY <1>1, <2>1 DEF Pointers, ListType, ElevatorType
  <1>4. ASSUME NEW q \in Passengers, pptr'[q] # NULL PROVE MadeNext(pptr'[q])
    BY <1>1, <1>4, EKeepsPassengers DEF pvars, Pointers, PassengerType
  <1>5. ASSUME NEW d \in Elevators
        PROVE  /\ eptr'[d] # NULL => MadeNext(eptr'[d])
               /\ prev'[d] # NULL => MadeNext(prev'[d])
               /\ nxt'[d] # NULL => MadeNext(nxt'[d])
    <2>1. \A m \in Here(d) : m # NULL => m \in Nodes /\ Made(m)
      BY DEF Here, Pointers, ListType, NodeState, ElevatorType
    <2>2. eptr'[d] \in Here(d) /\ prev'[d] \in Here(d) /\ nxt'[d] \in Here(d)
      BY EWalk
    <2> QED
      BY <1>1, <2>1, <2>2
  <1>6. ASSUME NEW d \in Elevators, epc'[d] = "take"
        PROVE  eptr'[d] \in Nodes /\ node'[eptr'[d]].elevatorId = NoElevator
    <2>1. CASE d # e
      <3>1. epc[d] = "take" /\ eptr'[d] = eptr[d]
        BY <1>6, <2>1, EMoves, EWalk
      <3>2. ~Take(e)
        BY <2>1, <3>1 DEF Mutex, ElevatorCS, Take, EStep
      <3> QED
        BY <3>1, <3>2, EKeepsNodes DEF Pointers
    <2>2. CASE d = e /\ epc[e] = "take"
      BY <1>0, <1>6, <2>2, EStays DEF walk, listVars, Pointers
    <2>3. CASE d = e /\ epc[e] # "take"
      <3>1. WalkFound(e)
        BY <1>6, <2>3, EMoves, EFound DEF EFlow
      <3> QED
        BY <1>0, <2>3, <3>1 DEF WalkFound, walk, listVars, ElevatorType
    <2> QED
      BY <2>1, <2>2, <2>3
  <1> QED
    BY <1>2, <1>3, <1>4, <1>5, <1>6 DEF Pointers, Made, MadeNext

-----------------------------------------------------------------------------
(* Legs: which way an elevator is on.                                      *)

\* No elevator rides.
LEMMA LegsInit == Init => Legs
  BY DEF Init, Legs

\* A passenger does not touch a leg.
LEMMA PLegs ==
  ASSUME Legs, NEW p \in Passengers, PNext(p)
  PROVE  Legs'
  BY PKeepsElevators DEF Legs, ride

\* A ride starts with the pickup and ends with the delivery.
LEMMA ELegs ==
  ASSUME TypeOK, Legs, NEW e \in Elevators, ENext(e)
  PROVE  Legs'
  <1> SUFFICES ASSUME NEW d \in Elevators
               PROVE  /\ epc'[d] = "pickup" => leg'[d] = "pickup"
                      /\ epc'[d] = "remove" => leg'[d] = "deliver"
    BY DEF Legs
  <1> USE DEF TypeOK, ElevatorType
  <1>1. CASE Take(e)
    BY <1>1 DEF Take, EStep, Legs
  <1>2. CASE CloseBoarded(e)
    BY <1>2 DEF CloseBoarded, EStep, Legs
  <1>3. CASE ~Take(e) /\ ~CloseBoarded(e)
    <2>1. leg' = leg
      BY <1>3, ELocals DEF Plan, Move, ride
    <2>2. CASE epc'[d] = epc[d]
      BY <2>1, <2>2 DEF Legs
    <2>3. CASE d = e /\ epc'[e] # epc[e] /\ epc'[e] = "remove"
      <3>1. CloseDelivered(e)
        BY <2>3, EMoves, EReturn DEF EFlow
      <3> QED
        BY <2>1, <2>3, <3>1 DEF CloseDelivered
    <2>4. CASE d = e /\ epc'[e] # epc[e] /\ epc'[e] # "remove"
      BY <1>3, <2>4, EMoves, ETake DEF EFlow
    <2> QED
      BY <2>2, <2>3, <2>4, EMoves
  <1> QED
    BY <1>1, <1>2, <1>3

-----------------------------------------------------------------------------
(* Handshake: the two stages and the five semaphores.                      *)

\* Every semaphore and both stages are 0.
LEMMA HandshakeInit == Init => Handshake
  BY NodeParts DEF Init, Handshake, RiderStage, CarrierStage, Past, NoPosts,
     Semaphores, Unallocated

\* The rider's stage moves with five of its steps.
LEMMA PRider ==
  ASSUME TypeOK, NEW p \in Passengers, PNext(p), NEW n \in Nodes
  PROVE  \/ RiderStage(n)' = RiderStage(n)
         \/ /\ n = Req(p)
            /\ \/ ppc[p] = "pass" /\ ppc'[p] = "board"
                    /\ RiderStage(n) = 0 /\ RiderStage(n)' = 1
               \/ ppc[p] = "board" /\ ppc'[p] = "spin"
                    /\ RiderStage(n) = 1 /\ RiderStage(n)' = 2
               \/ ppc[p] = "on" /\ ppc'[p] = "unload"
                    /\ RiderStage(n) = 2 /\ RiderStage(n)' = 3
               \/ ppc[p] = "unload" /\ ppc'[p] = "exit"
                    /\ RiderStage(n) = 3 /\ RiderStage(n)' = 4
               \/ ppc[p] = "off" /\ ppc'[p] = "return"
                    /\ RiderStage(n) = 4 /\ RiderStage(n)' = 5
  <1> DEFINE q == n[1]
  <1>1. q \in Passengers /\ n[2] \in Nat /\ trip[q] \in Nat /\ n = <<q, n[2]>>
    BY NodeParts, SchedulerAssumption DEF TypeOK, PassengerType
  <1>2. CASE q # p
    BY <1>1, <1>2, PMoves DEF RiderStage
  <1>3. CASE q = p /\ ppc'[p] = ppc[p]
    BY <1>1, <1>3, PMoves DEF RiderStage
  <1>4. CASE q = p /\ PFlow(ppc[p], ppc'[p]) /\ ppc[p] = "idle"
    BY <1>1, <1>4, PMoves DEF RiderStage, PFlow
  <1>5. CASE q = p /\ PFlow(ppc[p], ppc'[p]) /\ ppc[p] # "idle" /\ n[2] # trip[p]
    BY <1>1, <1>5, PMoves DEF RiderStage
  <1>6. CASE q = p /\ PFlow(ppc[p], ppc'[p]) /\ ppc[p] # "idle" /\ n[2] = trip[p]
    <2>1. n = Req(p) /\ trip'[q] = trip[q]
      BY <1>1, <1>6, PMoves DEF Req
    <2> QED
      BY <1>1, <1>6, <2>1 DEF RiderStage, PFlow
  <1> QED
    BY <1>2, <1>3, <1>4, <1>5, <1>6, PMoves

\* The carrier's stage does not move with a passenger's step.
LEMMA PCarrier ==
  ASSUME TypeOK, Pointers, NEW p \in Passengers, PNext(p), NEW n \in Nodes
  PROVE  CarrierStage(n)' = CarrierStage(n)
  <1>1. node'[n].elevatorId = node[n].elevatorId
    <2>1. CASE AddRequest(p) /\ n = Req(p)
      <3>1. ~Made(n)
        BY <2>1 DEF Made, AddRequest, PStep, Req, TypeOK, PassengerType
      <3>2. node[n].elevatorId = NoElevator
        BY <3>1 DEF Pointers, Unallocated
      <3> QED
        BY <2>1, <3>2 DEF AddRequest, TypeOK, ListType
    <2> QED
      BY <2>1, PKeepsNodes
  <1> QED
    BY <1>1, PKeepsElevators DEF CarrierStage, Serving, ElevatorStage, ride

\* What a post and a wait do to the five semaphores of one node.
LEMMA PostOne ==
  ASSUME TypeOK, NEW m \in Nodes, NEW s \in Semaphores, Post(m, s),
         NEW n \in Nodes, NEW r \in Semaphores
  PROVE  sem'[n][r] = IF n = m /\ r = s THEN sem[n][r] + 1 ELSE sem[n][r]
  BY DEF Post, TypeOK, SyncType

\* sem_wait takes one post from one semaphore of one node.
LEMMA WaitOne ==
  ASSUME TypeOK, NEW m \in Nodes, NEW s \in Semaphores, Wait(m, s),
         NEW n \in Nodes, NEW r \in Semaphores
  PROVE  sem'[n][r] = IF n = m /\ r = s THEN sem[n][r] - 1 ELSE sem[n][r]
  BY DEF Wait, TypeOK, SyncType

\* The stages and semaphores of one node agree.
Agree(n, r, c) ==
  /\ sem[n]["passenger_ready_s"]        = Past(r, 1) - Past(c, 1)
  /\ sem[n]["elevator_boarding_s"]      = Past(c, 2) - Past(r, 2)
  /\ sem[n]["passenger_on_s"]           = Past(r, 3) - Past(c, 3)
  /\ sem[n]["elevator_unloading_s"]     = Past(c, 4) - Past(r, 4)
  /\ sem[n]["passenger_off_elevator_s"] = Past(r, 5) - Past(c, 5)

AgreeNext(n, r, c) ==
  /\ sem'[n]["passenger_ready_s"]        = Past(r, 1) - Past(c, 1)
  /\ sem'[n]["elevator_boarding_s"]      = Past(c, 2) - Past(r, 2)
  /\ sem'[n]["passenger_on_s"]           = Past(r, 3) - Past(c, 3)
  /\ sem'[n]["elevator_unloading_s"]     = Past(c, 4) - Past(r, 4)
  /\ sem'[n]["passenger_off_elevator_s"] = Past(r, 5) - Past(c, 5)

\* A stage is one of six.
LEMMA Stages ==
  ASSUME NEW n PROVE RiderStage(n) \in 0 .. 5 /\ CarrierStage(n) \in 0 .. 5
  BY DEF RiderStage, CarrierStage, ElevatorStage

\* A semaphore only changes in a step that moves a stage.
LEMMA PSemKept ==
  ASSUME TypeOK, NEW p \in Passengers, PNext(p), NEW n \in Nodes,
         RiderStage(n)' = RiderStage(n), ~(AddRequest(p) /\ n = Req(p))
  PROVE  sem'[n] = sem[n]
  <1> USE DEF TypeOK, SyncType, PassengerType
  <1>1. CASE AddRequest(p)
    BY <1>1 DEF AddRequest
  <1>2. CASE n # Req(p)
    BY <1>2, PSem DEF AddRequest, PassBarrier, WaitToBoard, ReportOn, WaitToUnload,
       ReportOff, Post, Wait
  <1>3. CASE n = Req(p) /\ ~AddRequest(p)
    <2>1. n[1] = p /\ n[2] = trip[p]
      BY <1>3 DEF Req
    <2> QED
      BY <1>3, <2>1, PSem DEF PassBarrier, WaitToBoard, ReportOn, WaitToUnload,
         ReportOff, PStep, RiderStage
  <1> QED
    BY <1>1, <1>2, <1>3

\* A passenger's step moves its stage and its semaphores together.
LEMMA PHandshake ==
  ASSUME TypeOK, Started, Pointers, Handshake, NEW p \in Passengers, PNext(p)
  PROVE  Handshake'
  <1> USE DEF Semaphores
  <1>1. SUFFICES ASSUME NEW n \in Nodes
                 PROVE  AgreeNext(n, RiderStage(n)', CarrierStage(n))
    BY PCarrier DEF Handshake, AgreeNext, Agree
  <1> DEFINE r == RiderStage(n)
             c == CarrierStage(n)
  <1>2. Agree(n, r, c) /\ r \in 0 .. 5 /\ c \in 0 .. 5
    BY Stages DEF Handshake, Agree
  <1>3. CASE RiderStage(n)' = r
    <2>1. CASE AddRequest(p) /\ n = Req(p)
      <3>1. r = 0 /\ ~Made(n)
        BY <2>1 DEF AddRequest, PStep, RiderStage, Made, Req, TypeOK, PassengerType
      <3>2. c = 0
        BY <3>1 DEF Pointers, Unallocated, CarrierStage
      <3>3. \A s \in Semaphores : sem'[n][s] = 0
        BY <2>1 DEF AddRequest, NoPosts, TypeOK, SyncType
      <3> QED
        BY <1>3, <3>1, <3>2, <3>3 DEF AgreeNext, Past
    <2>2. CASE ~(AddRequest(p) /\ n = Req(p))
      <3>1. sem'[n] = sem[n]
        BY <1>3, <2>2, PSemKept
      <3> QED
        BY <1>2, <1>3, <3>1 DEF Agree, AgreeNext
    <2> QED
      BY <2>1, <2>2
  <1>4. CASE /\ n = Req(p) /\ ppc[p] = "pass" /\ ppc'[p] = "board"
             /\ r = 0 /\ RiderStage(n)' = 1
    <2>1. Post(n, "passenger_ready_s")
      BY <1>4, PActs DEF TypeOK, PassBarrier
    <2> QED
      BY <1>2, <1>4, <2>1, PostOne DEF Agree, AgreeNext, Past
  <1>5. CASE /\ n = Req(p) /\ ppc[p] = "board" /\ ppc'[p] = "spin"
             /\ r = 1 /\ RiderStage(n)' = 2
    <2>1. Wait(n, "elevator_boarding_s")
      BY <1>5, PActs DEF TypeOK, WaitToBoard
    <2> QED
      BY <1>2, <1>5, <2>1, WaitOne DEF Agree, AgreeNext, Past
  <1>6. CASE /\ n = Req(p) /\ ppc[p] = "on" /\ ppc'[p] = "unload"
             /\ r = 2 /\ RiderStage(n)' = 3
    <2>1. Post(n, "passenger_on_s")
      BY <1>6, PActs DEF TypeOK, ReportOn
    <2> QED
      BY <1>2, <1>6, <2>1, PostOne DEF Agree, AgreeNext, Past
  <1>7. CASE /\ n = Req(p) /\ ppc[p] = "unload" /\ ppc'[p] = "exit"
             /\ r = 3 /\ RiderStage(n)' = 4
    <2>1. Wait(n, "elevator_unloading_s")
      BY <1>7, PActs DEF TypeOK, WaitToUnload
    <2> QED
      BY <1>2, <1>7, <2>1, WaitOne DEF Agree, AgreeNext, Past
  <1>8. CASE /\ n = Req(p) /\ ppc[p] = "off" /\ ppc'[p] = "return"
             /\ r = 4 /\ RiderStage(n)' = 5
    <2>1. Post(n, "passenger_off_elevator_s")
      BY <1>8, PActs DEF TypeOK, ReportOff
    <2> QED
      BY <1>2, <1>8, <2>1, PostOne DEF Agree, AgreeNext, Past
  <1> QED
    BY <1>3, <1>4, <1>5, <1>6, <1>7, <1>8, PRider

\* The carrier's stage moves with five of an elevator's steps: it does not
\* when the elevator takes or leaves a request.
LEMMA ECarrier ==
  ASSUME TypeOK, Claims, Legs, Pointers, NEW e \in Elevators, ENext(e), NEW n \in Nodes
  PROVE  \/ CarrierStage(n)' = CarrierStage(n)
         \/ /\ n = cur[e]
            /\ \/ epc[e] = "pickup" /\ epc'[e] = "plan"
                    /\ CarrierStage(n) = 0 /\ CarrierStage(n)' = 1
               \/ epc[e] = "signal" /\ epc'[e] = "await" /\ leg[e] = "pickup"
                    /\ CarrierStage(n) = 1 /\ CarrierStage(n)' = 2
               \/ epc[e] = "await" /\ epc'[e] = "close" /\ leg[e] = "pickup"
                    /\ CarrierStage(n) = 2 /\ CarrierStage(n)' = 3
               \/ epc[e] = "signal" /\ epc'[e] = "await" /\ leg[e] = "deliver"
                    /\ CarrierStage(n) = 3 /\ CarrierStage(n)' = 4
               \/ epc[e] = "await" /\ epc'[e] = "close" /\ leg[e] = "deliver"
                    /\ CarrierStage(n) = 4 /\ CarrierStage(n)' = 5
  <1> DEFINE d == node[n].elevatorId
  <1>0. d \in Elevators \cup {NoElevator} /\ NoElevator \notin Elevators
    BY BuildingAssumption DEF TypeOK, ListType, NodeState
  <1>1. CASE Take(e)
    <2>1. /\ eptr[e] \in Nodes /\ node[eptr[e]].elevatorId = NoElevator
          /\ epc[e] = "take" /\ epc'[e] = "pickup" /\ leg'[e] = "pickup"
          /\ cur'[e] = eptr[e]
          /\ \A f \in Elevators \ {e} :
               epc'[f] = epc[f] /\ leg'[f] = leg[f] /\ cur'[f] = cur[f]
      BY <1>1 DEF Take, EStep, Pointers, TypeOK, ElevatorType
    <2>2. CASE n = eptr[e]
      <3>1. node'[n].elevatorId = e
        BY <1>1, <2>1, <2>2 DEF Take, TypeOK, ListType, NodeState
      <3> QED
        BY <1>0, <2>1, <2>2, <3>1 DEF CarrierStage, ElevatorStage, Serving, RidePC
    <2>3. CASE n # eptr[e]
      <3>1. node'[n].elevatorId = d
        BY <2>3, EKeepsNodes
      <3>2. CASE d = e
        BY <1>0, <2>1, <2>3, <3>1, <3>2 DEF CarrierStage, Serving, RidePC
      <3>3. CASE d # e
        BY <1>0, <2>1, <3>1, <3>3 DEF CarrierStage, ElevatorStage, Serving
      <3> QED
        BY <3>2, <3>3
    <2> QED
      BY <2>2, <2>3
  <1>2. CASE ~Take(e)
    <2>1. node'[n].elevatorId = d /\ cur' = cur
      BY <1>2, EKeepsNodes, ELocals DEF ride, Plan, Move, CloseBoarded
    <2>2. \A f \in Elevators \ {e} : epc'[f] = epc[f] /\ leg'[f] = leg[f]
      BY <1>2, EMoves, ELocals DEF ride, Plan, Move, CloseBoarded, TypeOK, ElevatorType
    <2>3. CASE d # e
      BY <1>0, <2>1, <2>2, <2>3 DEF CarrierStage, ElevatorStage, Serving
    <2>4. CASE d = e /\ (cur[e] # n \/ ~Serving(e))
      <3>1. ~(Serving(e)' /\ cur'[e] = n)
        BY <1>2, <2>1, <2>4, EMoves, ETake DEF Serving, RidePC, EFlow, TypeOK
      <3> QED
        BY <1>0, <2>1, <2>4, <3>1 DEF CarrierStage
    <2>5. CASE d = e /\ cur[e] = n /\ Serving(e) /\ ~Serving(e)'
      <3>1. epc[e] = "remove" /\ leg[e] = "deliver"
        BY <2>5, EMoves DEF Serving, RidePC, EFlow, Legs
      <3>2. CarrierStage(n) = ElevatorStage(e) /\ CarrierStage(n)' = 5
        BY <1>0, <2>1, <2>5 DEF CarrierStage
      <3> QED
        BY <3>1, <3>2 DEF ElevatorStage
    <2>6. CASE d = e /\ cur[e] = n /\ Serving(e) /\ Serving(e)'
      <3>1. CarrierStage(n) = ElevatorStage(e) /\ CarrierStage(n)' = ElevatorStage(e)'
        BY <1>0, <2>1, <2>6 DEF CarrierStage
      <3>2. CASE CloseBoarded(e)
        <4>1. /\ epc[e] = "closeApply" /\ epc'[e] = "plan"
              /\ leg[e] = "pickup" /\ leg'[e] = "deliver"
          BY <3>2 DEF CloseBoarded, EStep, TypeOK, ElevatorType
        <4> QED
          BY <3>1, <4>1 DEF ElevatorStage
      <3>3. CASE ~CloseBoarded(e)
        <4>1. leg'[e] = leg[e] /\ leg[e] \in {"pickup", "deliver"}
          BY <1>2, <3>3, ELocals DEF ride, Plan, Move, TypeOK, ElevatorType
        <4>2. CASE epc'[e] = epc[e]
          BY <3>1, <4>1, <4>2 DEF ElevatorStage
        <4>3. CASE epc[e] = "pickup"
          BY <2>6, <3>1, <4>1, <4>3, EMoves DEF ElevatorStage, EFlow, Legs
        <4>4. CASE epc[e] = "closeApply" /\ epc'[e] # epc[e]
          <5>1. epc'[e] = "remove" /\ leg[e] = "deliver"
            BY <3>3, <4>4, EMoves, EActs, EReturn DEF EFlow, CloseDelivered, TypeOK
          <5> QED
            BY <3>1, <4>1, <4>4, <5>1 DEF ElevatorStage
        <4>5. CASE epc[e] \notin {"pickup", "closeApply"} /\ epc'[e] # epc[e]
          BY <2>6, <3>1, <4>1, <4>5, EMoves DEF ElevatorStage, EFlow, Serving, RidePC
        <4> QED
          BY <4>2, <4>3, <4>4, <4>5
      <3> QED
        BY <3>2, <3>3
    <2> QED
      BY <2>3, <2>4, <2>5, <2>6
  <1> QED
    BY <1>1, <1>2

\* What a passenger has done does not depend on the elevators.
LEMMA ERider ==
  ASSUME NEW e \in Elevators, ENext(e), NEW n \in Nodes
  PROVE  RiderStage(n)' = RiderStage(n)
  BY EKeepsPassengers DEF RiderStage, pvars

\* An elevator that stays in its stage leaves the node's semaphores alone.
LEMMA ESemKept ==
  ASSUME TypeOK, Claims, NEW e \in Elevators, ENext(e), NEW n \in Nodes,
         CarrierStage(n)' = CarrierStage(n), Claims', Legs
  PROVE  sem'[n] = sem[n]
  <1> USE DEF TypeOK, SyncType, ElevatorType
  <1>1. CASE n # cur[e]
    BY <1>1, ESem DEF WaitReady, SignalPassenger, AwaitPassenger, Post, Wait
  <1>2. CASE n = cur[e] /\ epc[e] \notin {"pickup", "signal", "await"}
    BY <1>2, ESem DEF WaitReady, SignalPassenger, AwaitPassenger, EStep
  <1>3. CASE n = cur[e] /\ epc[e] \in {"pickup", "signal", "await"} /\ UNCHANGED sem
    BY <1>3
  <1>4. CASE /\ n = cur[e] /\ epc[e] \in {"pickup", "signal", "await"}
             /\ WaitReady(e) \/ SignalPassenger(e) \/ AwaitPassenger(e)
    <2>1. /\ epc'[e] \in {"plan", "await", "close"}
          /\ leg'[e] = leg[e] /\ leg[e] \in {"pickup", "deliver"}
          /\ epc[e] = "pickup" <=> epc'[e] = "plan"
          /\ epc[e] = "signal" <=> epc'[e] = "await"
          /\ cur'[e] = cur[e]
      BY <1>4 DEF WaitReady, SignalPassenger, AwaitPassenger, EStep, ride
    <2>2. node[n].elevatorId = e /\ node'[n].elevatorId = e
      BY <1>4, <2>1 DEF Claims, Serving, RidePC
    <2>3. Serving(e) /\ Serving(e)'
      BY <1>4, <2>1 DEF Serving, RidePC
    <2>4. CarrierStage(n) = ElevatorStage(e) /\ CarrierStage(n)' = ElevatorStage(e)'
      BY <1>4, <2>1, <2>2, <2>3, BuildingAssumption DEF CarrierStage
    <2> QED
      BY <1>4, <2>1, <2>4 DEF ElevatorStage, Legs
  <1> QED
    BY <1>1, <1>2, <1>3, <1>4, ESem

\* An elevator's step moves its stage and its semaphores together.
LEMMA EHandshake ==
  ASSUME TypeOK, Claims, Claims', Legs, Pointers, Handshake,
         NEW e \in Elevators, ENext(e)
  PROVE  Handshake'
  <1> USE DEF Semaphores
  <1>1. SUFFICES ASSUME NEW n \in Nodes
                 PROVE  AgreeNext(n, RiderStage(n), CarrierStage(n)')
    BY ERider DEF Handshake, AgreeNext
  <1> DEFINE r == RiderStage(n)
             c == CarrierStage(n)
  <1>2. Agree(n, r, c) /\ r \in 0 .. 5 /\ c \in 0 .. 5
    BY Stages DEF Handshake, Agree
  <1>3. CASE CarrierStage(n)' = c
    BY <1>2, <1>3, ESemKept DEF Agree, AgreeNext
  <1>4. CASE /\ n = cur[e] /\ epc[e] = "pickup" /\ epc'[e] = "plan"
             /\ c = 0 /\ CarrierStage(n)' = 1
    <2>1. Wait(n, "passenger_ready_s")
      BY <1>4, EActs DEF TypeOK, WaitReady
    <2> QED
      BY <1>2, <1>4, <2>1, WaitOne DEF Agree, AgreeNext, Past
  <1>5. CASE /\ n = cur[e] /\ epc[e] = "signal" /\ epc'[e] = "await" /\ leg[e] = "pickup"
             /\ c = 1 /\ CarrierStage(n)' = 2
    <2>1. Post(n, "elevator_boarding_s")
      BY <1>5, EActs DEF TypeOK, SignalPassenger
    <2> QED
      BY <1>2, <1>5, <2>1, PostOne DEF Agree, AgreeNext, Past
  <1>6. CASE /\ n = cur[e] /\ epc[e] = "await" /\ epc'[e] = "close" /\ leg[e] = "pickup"
             /\ c = 2 /\ CarrierStage(n)' = 3
    <2>1. Wait(n, "passenger_on_s")
      BY <1>6, EActs DEF TypeOK, AwaitPassenger
    <2> QED
      BY <1>2, <1>6, <2>1, WaitOne DEF Agree, AgreeNext, Past
  <1>7. CASE /\ n = cur[e] /\ epc[e] = "signal" /\ epc'[e] = "await" /\ leg[e] = "deliver"
             /\ c = 3 /\ CarrierStage(n)' = 4
    <2>1. Post(n, "elevator_unloading_s")
      BY <1>7, EActs DEF TypeOK, SignalPassenger
    <2> QED
      BY <1>2, <1>7, <2>1, PostOne DEF Agree, AgreeNext, Past
  <1>8. CASE /\ n = cur[e] /\ epc[e] = "await" /\ epc'[e] = "close" /\ leg[e] = "deliver"
             /\ c = 4 /\ CarrierStage(n)' = 5
    <2>1. Wait(n, "passenger_off_elevator_s")
      BY <1>8, EActs DEF TypeOK, AwaitPassenger
    <2> QED
      BY <1>2, <1>8, <2>1, WaitOne DEF Agree, AgreeNext, Past
  <1> QED
    BY <1>3, <1>4, <1>5, <1>6, <1>7, <1>8, ECarrier
=============================================================================
