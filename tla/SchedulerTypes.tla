--------------------------- MODULE SchedulerTypes ---------------------------
(***************************************************************************)
(* Which actions of Scheduler change which variables, and the proof that   *)
(* TypeOK is an invariant.  Every later proof that a step preserves an     *)
(* invariant cites the lemmas of the first part and is left with the few   *)
(* actions the invariant is about.                                         *)
(***************************************************************************)
EXTENDS SchedulerInv, TLAPS, FiniteSetTheorems

-----------------------------------------------------------------------------
(* Frames.                                                                  *)

USE DEF bvars, listVars, locks, gates, pvars, ride, walk, proc

USE DEF PNext, StartTrip, EndPassenger, AddRequest, AddDone, AddFirst,
  AddBehind, AddHead, AddWalk, AddStep, AddLink, Barrier, PassBarrier,
  WaitToBoard, LearnElevator, PassengerCheck, EnterElevator, ReportOn,
  WaitToUnload, ExitElevator, ReportOff, Return, Abort, PStep

\* A passenger leaves the elevators' threads alone.
LEMMA PKeepsElevators ==
  ASSUME NEW p, PNext(p)
  PROVE  UNCHANGED <<epc, ride, walk, stop, last_elevator_s>>
  OBVIOUS

\* What a passenger does to the building.
LEMMA PBuilding ==
  ASSUME NEW p, PNext(p)
  PROVE  StartTrip(p) \/ EnterElevator(p) \/ ExitElevator(p) \/ Return(p)
           \/ UNCHANGED bvars
  OBVIOUS

\* What a passenger does to the list.
LEMMA PList ==
  ASSUME NEW p, PNext(p)
  PROVE  AddRequest(p) \/ AddFirst(p) \/ AddLink(p) \/ UNCHANGED listVars
  OBVIOUS

\* What a passenger does to the semaphores of the requests.
LEMMA PSem ==
  ASSUME NEW p, PNext(p)
  PROVE  \/ AddRequest(p) \/ PassBarrier(p) \/ WaitToBoard(p) \/ ReportOn(p)
         \/ WaitToUnload(p) \/ ReportOff(p) \/ UNCHANGED sem
  OBVIOUS

\* What a passenger does to the barrier, and with it to the elevators' lock.
LEMMA PBarrier ==
  ASSUME NEW p, PNext(p)
  PROVE  Barrier(p) \/ UNCHANGED <<waiting, is_open, lock_for_elevator_s>>
  OBVIOUS

\* What a passenger does to the lock of addRequest.
LEMMA PLock ==
  ASSUME NEW p, PNext(p)
  PROVE  \/ lock_for_request_s > 0 /\ lock_for_request_s' = lock_for_request_s - 1
         \/ lock_for_request_s' = lock_for_request_s + 1
         \/ UNCHANGED lock_for_request_s
  OBVIOUS

\* What a passenger does to its locals.
LEMMA PLocals ==
  ASSUME NEW p, PNext(p)
  PROVE  /\ StartTrip(p) \/ UNCHANGED trip
         /\ AddHead(p) \/ AddStep(p) \/ UNCHANGED pptr
  OBVIOUS

\* The passenger's control flow.
PFlow(from, to) ==
  \/ from = "idle"       /\ to \in {"request", "end"}
  \/ from = "request"    /\ to = "addTest"
  \/ from = "addTest"    /\ to \in {"addHead", "barrier"}
  \/ from = "addHead"    /\ to = "addWalk"
  \/ from = "addWalk"    /\ to \in {"addStep", "addLink"}
  \/ from = "addStep"    /\ to = "addWalk"
  \/ from = "addLink"    /\ to = "barrier"
  \/ from = "barrier"    /\ to = "pass"
  \/ from = "pass"       /\ to = "board"
  \/ from = "board"      /\ to = "spin"
  \/ from = "spin"       /\ to = "enter"
  \/ from = "enter"      /\ to = "enterAgain"
  \/ from = "enterAgain" /\ to = "enterApply"
  \/ from = "enterApply" /\ to = "on"
  \/ from = "on"         /\ to = "unload"
  \/ from = "unload"     /\ to = "exit"
  \/ from = "exit"       /\ to = "exitAgain"
  \/ from = "exitAgain"  /\ to = "exitApply"
  \/ from = "exitApply"  /\ to = "off"
  \/ from = "off"        /\ to = "return"
  \/ from = "return"     /\ to = "idle"

\* A passenger's step moves its own program counter along PFlow.
LEMMA PControl ==
  ASSUME NEW p, PNext(p)
  PROVE  \/ UNCHANGED ppc
         \/ \E to : ppc' = [ppc EXCEPT ![p] = to] /\ PFlow(ppc[p], to)
  BY DEF PFlow

\* The actions behind the flow's steps that later proofs ask for.
LEMMA PIdle ==
  ASSUME NEW p \in Passengers, PNext(p), PassengerType,
         ppc[p] = "idle", ppc'[p] = "request"
  PROVE  StartTrip(p)
  BY DEF PassengerType

\* The step that enters addRequest is AddRequest.
LEMMA PRequest ==
  ASSUME NEW p \in Passengers, PNext(p), PassengerType,
         ppc[p] = "request", ppc'[p] = "addTest"
  PROVE  AddRequest(p)
  BY DEF PassengerType

\* The step that ends the busy wait is LearnElevator.
LEMMA PSpin ==
  ASSUME NEW p \in Passengers, PNext(p), PassengerType,
         ppc[p] = "spin", ppc'[p] = "enter"
  PROVE  LearnElevator(p)
  BY DEF PassengerType

\* Which action a passenger took, from where it was and where it is.
LEMMA PActs ==
  ASSUME NEW p \in Passengers, PNext(p), PassengerType
  PROVE  /\ ppc[p] = "pass" /\ ppc'[p] = "board" => PassBarrier(p)
         /\ ppc[p] = "board" /\ ppc'[p] = "spin" => WaitToBoard(p)
         /\ ppc[p] = "enterApply" /\ ppc'[p] = "on" => EnterElevator(p)
         /\ ppc[p] = "on" /\ ppc'[p] = "unload" => ReportOn(p)
         /\ ppc[p] = "unload" /\ ppc'[p] = "exit" => WaitToUnload(p)
         /\ ppc[p] = "exitApply" /\ ppc'[p] = "off" => ExitElevator(p)
         /\ ppc[p] = "off" /\ ppc'[p] = "return" => ReportOff(p)
         /\ ppc[p] = "return" /\ ppc'[p] = "idle" => Return(p)
  BY DEF PassengerType

\* A passenger that stays where it is changes nothing.
LEMMA PStays ==
  ASSUME NEW p \in Passengers, PNext(p), PassengerType, ppc'[p] = ppc[p]
  PROVE  UNCHANGED <<bvars, listVars, sem, locks, gates, pvars>>
  BY DEF PassengerType

\* The process lives on, or dies of the passenger's verdict.
LEMMA PFault ==
  ASSUME NEW p, PNext(p)
  PROVE  fault' = fault \/ (fault' = PVerdict(p) /\ UNCHANGED ppc)
  OBVIOUS

HIDE DEF PNext, StartTrip, EndPassenger, AddRequest, AddDone, AddFirst,
  AddBehind, AddHead, AddWalk, AddStep, AddLink, Barrier, PassBarrier,
  WaitToBoard, LearnElevator, PassengerCheck, EnterElevator, ReportOn,
  WaitToUnload, ExitElevator, ReportOff, Return, PStep

-----------------------------------------------------------------------------

USE DEF ENext, Loop, Lock, Grab, Unlock, PeekLast, PeekMore, WalkOff, WalkPast,
  WalkFound, Take, LastRemoved, WaitReady, Plan, ElevatorCheck, Move, Open,
  SignalPassenger, AwaitPassenger, CloseBoarded, CloseDelivered, LockToRemove,
  RemoveNothing, RemoveHeadFound, RemoveHeadSet, RemoveClear, RemoveOther,
  RemoveWalk, RemoveFound, RemoveSet, RemoveSkip, RemoveFree, CheckEmpty, EStep

\* An elevator leaves the passengers' threads and the barrier alone.
LEMMA EKeepsPassengers ==
  ASSUME NEW e, ENext(e)
  PROVE  UNCHANGED <<pvars, stop, waiting, is_open, lock_for_request_s>>
  OBVIOUS

\* What an elevator does to the building.
LEMMA EBuilding ==
  ASSUME NEW e, ENext(e)
  PROVE  Move(e) \/ Open(e) \/ CloseBoarded(e) \/ CloseDelivered(e)
           \/ UNCHANGED bvars
  OBVIOUS

\* What an elevator does to the list.
LEMMA EList ==
  ASSUME NEW e, ENext(e)
  PROVE  Take(e) \/ RemoveHeadSet(e) \/ RemoveClear(e) \/ RemoveSet(e)
           \/ RemoveFree(e) \/ UNCHANGED listVars
  OBVIOUS

\* What an elevator does to the semaphores of the requests.
LEMMA ESem ==
  ASSUME NEW e, ENext(e)
  PROVE  WaitReady(e) \/ SignalPassenger(e) \/ AwaitPassenger(e) \/ UNCHANGED sem
  OBVIOUS

\* What an elevator does to its lock: taking it, giving it back, or neither.
LEMMA ELock ==
  ASSUME NEW e, ENext(e)
  PROVE  \/ /\ epc[e] \in {"grab", "remove"} /\ lock_for_elevator_s > 0
            /\ lock_for_elevator_s' = lock_for_elevator_s - 1
            /\ \E to \in {"peek", "remHead"} : epc' = [epc EXCEPT ![e] = to]
         \/ /\ epc[e] \in ElevatorCS
            /\ lock_for_elevator_s' = lock_for_elevator_s + 1
            /\ \E to \in {"last", "pickup", "check"} : epc' = [epc EXCEPT ![e] = to]
         \/ /\ UNCHANGED lock_for_elevator_s
            /\ \/ UNCHANGED epc
               \/ \E to : /\ epc' = [epc EXCEPT ![e] = to]
                          /\ epc[e] \in ElevatorCS <=> to \in ElevatorCS
  <1>1. CASE RemoveOther(e)
    <2>1. CASE headOfRequests = NULL
      BY <1>1, <2>1 DEF ElevatorCS
    <2>2. CASE headOfRequests # NULL
      BY <1>1, <2>2 DEF ElevatorCS
    <2> QED
      BY <2>1, <2>2
  <1>2. CASE RemoveWalk(e)
    <2>1. CASE node[eptr[e]].next = NULL
      BY <1>2, <2>1 DEF ElevatorCS
    <2>2. CASE node[eptr[e]].next # NULL
      BY <1>2, <2>2 DEF ElevatorCS
    <2> QED
      BY <2>1, <2>2
  <1>3. CASE ~RemoveOther(e) /\ ~RemoveWalk(e)
    <2> HIDE DEF RemoveOther, RemoveWalk
    <2> QED
      BY <1>3, ZenonT(60) DEF ElevatorCS
  <1> QED
    BY <1>1, <1>2, <1>3

\* What an elevator does to its locals.
LEMMA ELocals ==
  ASSUME NEW e, ENext(e)
  PROVE  /\ Take(e) \/ Plan(e) \/ Move(e) \/ CloseBoarded(e) \/ UNCHANGED ride
         /\ \/ PeekMore(e) \/ WalkPast(e) \/ RemoveHeadFound(e) \/ RemoveOther(e)
            \/ RemoveWalk(e) \/ RemoveFound(e) \/ RemoveSkip(e) \/ UNCHANGED walk
         /\ CheckEmpty(e) \/ UNCHANGED last_elevator_s
  OBVIOUS

\* The elevator's control flow, as far as the ride is concerned: off it, an
\* elevator never gets onto one without Take.
EFlow(from, to) ==
  \/ from = "loop"       /\ to \in {"grab", "end"}
  \/ from = "grab"       /\ to = "peek"
  \/ from = "peek"       /\ to \in {"last", "walk"}
  \/ from = "walk"       /\ to \in {"last", "walk", "take"}
  \/ from = "take"       /\ to = "pickup"
  \/ from = "last"       /\ to = "loop"
  \/ from = "pickup"     /\ to = "plan"
  \/ from = "plan"       /\ to \in {"open", "move"}
  \/ from = "move"       /\ to = "moveAgain"
  \/ from = "moveAgain"  /\ to = "moveApply"
  \/ from = "moveApply"  /\ to \in {"open", "move"}
  \/ from = "open"       /\ to = "openAgain"
  \/ from = "openAgain"  /\ to = "openApply"
  \/ from = "openApply"  /\ to = "signal"
  \/ from = "signal"     /\ to = "await"
  \/ from = "await"      /\ to = "close"
  \/ from = "close"      /\ to = "closeApply"
  \/ from = "closeApply" /\ to \in {"plan", "remove"}
  \/ from = "remove"     /\ to = "remHead"
  \/ from = "remHead"    /\ to \in {"check", "remHeadSet", "remWalk"}
  \/ from = "remHeadSet" /\ to = "remClear"
  \/ from = "remClear"   /\ to = "remFree"
  \/ from = "remWalk"    /\ to \in {"check", "remMatch"}
  \/ from = "remMatch"   /\ to \in {"remSet", "remSkip"}
  \/ from = "remSkip"    /\ to = "remWalk"
  \/ from = "remSet"     /\ to = "remFree"
  \/ from = "remFree"    /\ to = "check"
  \/ from = "check"      /\ to = "loop"

\* An elevator's step moves its own program counter along EFlow.
LEMMA EControl ==
  ASSUME NEW e, ENext(e)
  PROVE  \/ UNCHANGED epc
         \/ \E to : epc' = [epc EXCEPT ![e] = to] /\ EFlow(epc[e], to)
  BY DEF EFlow

\* The actions behind the flow's steps that later proofs ask for.
LEMMA ETake ==
  ASSUME NEW e \in Elevators, ENext(e), ElevatorType,
         epc[e] = "take", epc'[e] = "pickup"
  PROVE  Take(e)
  BY DEF ElevatorType

\* Which action an elevator took, from where it was and where it is.
LEMMA EActs ==
  ASSUME NEW e \in Elevators, ENext(e), ElevatorType
  PROVE  /\ epc[e] = "pickup" /\ epc'[e] = "plan" => WaitReady(e)
         /\ epc[e] = "plan" /\ epc'[e] # epc[e] => Plan(e)
         /\ epc[e] = "moveApply" /\ epc'[e] # epc[e] => Move(e)
         /\ epc[e] = "openApply" /\ epc'[e] = "signal" => Open(e)
         /\ epc[e] = "signal" /\ epc'[e] = "await" => SignalPassenger(e)
         /\ epc[e] = "await" /\ epc'[e] = "close" => AwaitPassenger(e)
         /\ epc[e] = "closeApply" /\ epc'[e] = "plan" => CloseBoarded(e)
  BY DEF ElevatorType

\* The step that ends a ride is CloseDelivered.
LEMMA EReturn ==
  ASSUME NEW e \in Elevators, ENext(e), ElevatorType,
         epc[e] = "closeApply", epc'[e] = "remove"
  PROVE  CloseDelivered(e)
  BY DEF ElevatorType

\* The step that stops the walk over the list is WalkFound.
LEMMA EFound ==
  ASSUME NEW e \in Elevators, ENext(e), ElevatorType,
         epc[e] = "walk", epc'[e] = "take"
  PROVE  WalkFound(e)
  BY DEF ElevatorType

\* An elevator that stays where it is, but for its walk, changes nothing.
LEMMA EStays ==
  ASSUME NEW e \in Elevators, ENext(e), ElevatorType,
         epc'[e] = epc[e], epc[e] # "walk"
  PROVE  UNCHANGED <<bvars, listVars, sem, locks, gates, pvars, ride, walk>>
  BY DEF ElevatorType

\* The process lives on, or dies of the elevator's verdict.
LEMMA EFault ==
  ASSUME NEW e, ENext(e)
  PROVE  fault' = fault \/ (fault' = EVerdict(e) /\ UNCHANGED epc)
  OBVIOUS

HIDE DEF ENext, Loop, Lock, Grab, Unlock, PeekLast, PeekMore, WalkOff, WalkPast,
  WalkFound, Take, LastRemoved, WaitReady, Plan, ElevatorCheck, Move, Open,
  SignalPassenger, AwaitPassenger, CloseBoarded, CloseDelivered, LockToRemove,
  RemoveNothing, RemoveHeadFound, RemoveHeadSet, RemoveClear, RemoveOther,
  RemoveWalk, RemoveFound, RemoveSet, RemoveSkip, RemoveFree, CheckEmpty, EStep,
  Abort
HIDE DEF bvars, listVars, locks, gates, pvars, ride, walk, proc

-----------------------------------------------------------------------------
(* Types.                                                                   *)

\* The barrier's limit is a natural number.
LEMMA LimitNat == Limit \in Nat
  BY SchedulerAssumption, FS_CardinalityType DEF Limit

\* A passenger that has started a trip names a request of the heap.
LEMMA ReqIsNode ==
  ASSUME NEW p \in Passengers, TypeOK, trip[p] >= 1
  PROVE  Req(p) \in Nodes
  BY DEF TypeOK, PassengerType, Req, Nodes

\* The initial values have their types.
LEMMA TypeInit == Init => TypeOK
  <1> SUFFICES ASSUME Init PROVE TypeOK
    OBVIOUS
  <1>1. BuildingType
    BY BuildingAssumption
       DEF Init, BuildingInit, ElevatorsInit, PassengersInit, BuildingType, ElevatorState,
           PassengerState, Floors
  <1>2. Unallocated \in NodeState /\ NoPosts \in [Semaphores -> Nat]
    BY BuildingAssumption DEF Unallocated, NodeState, NoPosts, Floors
  <1>3. waiting \in 0 .. Limit
    BY LimitNat DEF Init
  <1>4. ListType /\ SyncType
    BY <1>2, <1>3 DEF Init, ListType, SyncType
  <1>5. PassengerType
    BY SchedulerAssumption DEF Init, PassengerType, PassengerPC
  <1>6. ElevatorType
    BY DEF Init, ElevatorType, ElevatorPC
  <1> QED
    BY <1>1, <1>4, <1>5, <1>6 DEF Init, TypeOK, ProcessType

\* Entering and leaving an elevator keep the building's types.
LEMMA EnterTypes ==
  ASSUME BuildingType, NEW p \in Passengers, NEW e \in Elevators, Enter(p, e)
  PROVE  BuildingType'
  <1> USE DEF BuildingType, Enter
  <1>1. elevators' \in [Elevators -> ElevatorState]
    BY DEF ElevatorState
  <1>2. passengers' \in [Passengers -> PassengerState]
    BY DEF PassengerState
  <1> QED
    BY <1>1, <1>2

\* passenger_exit keeps the types of the building.
LEMMA ExitTypes ==
  ASSUME BuildingType, NEW p \in Passengers, NEW e \in Elevators, Exit(p, e)
  PROVE  BuildingType'
  <1> USE DEF BuildingType, Exit
  <1>1. elevators' \in [Elevators -> ElevatorState]
    BY DEF ElevatorState
  <1>2. elevators[e].floor \in Int
    BY DEF ElevatorState
  <1>3. [passengers[p] EXCEPT !.in_elevator = NoElevator,
                              !.at_floor = elevators[e].floor,
                              !.state = "EXITED"] \in PassengerState
    BY <1>2 DEF PassengerState
  <1>4. passengers' \in [Passengers -> PassengerState]
    BY <1>3
  <1> QED
    BY <1>1, <1>4

\* Posting keeps semaphores natural numbers, and so does waiting, which is
\* blocked at zero.
LEMMA PostTypes ==
  ASSUME sem \in [Nodes -> [Semaphores -> Nat]],
         NEW n, NEW s \in Semaphores, Post(n, s)
  PROVE  sem' \in [Nodes -> [Semaphores -> Nat]]
  <1>1. CASE n \in Nodes
    <2>1. sem[n] \in [Semaphores -> Nat] /\ sem[n][s] \in Nat
      BY <1>1
    <2>2. sem'[n] \in [Semaphores -> Nat]
      BY <1>1, <2>1 DEF Post
    <2> QED
      BY <1>1, <2>2 DEF Post
  <1>2. CASE n \notin Nodes
    BY <1>2 DEF Post
  <1> QED
    BY <1>1, <1>2

\* sem_wait leaves every semaphore at or above zero.
LEMMA WaitTypes ==
  ASSUME sem \in [Nodes -> [Semaphores -> Nat]],
         NEW n, NEW s \in Semaphores, Wait(n, s)
  PROVE  sem' \in [Nodes -> [Semaphores -> Nat]]
  <1>1. CASE n \in Nodes
    <2>1. sem[n] \in [Semaphores -> Nat] /\ sem[n][s] \in Nat
      BY <1>1
    <2>2. sem'[n] \in [Semaphores -> Nat]
      BY <1>1, <2>1 DEF Wait
    <2> QED
      BY <1>1, <2>2 DEF Wait
  <1>2. CASE n \notin Nodes
    BY <1>2 DEF Wait
  <1> QED
    BY <1>1, <1>2

\* A store to one field of one node leaves every node well-formed.
LEMMA FieldTypes ==
  ASSUME node \in [Nodes -> NodeState], NEW m
  PROVE  /\ \A x \in Nodes \cup {NULL} :
              [node EXCEPT ![m].next = x] \in [Nodes -> NodeState]
         /\ \A x \in Elevators :
              [node EXCEPT ![m].elevatorId = x] \in [Nodes -> NodeState]
         /\ [node EXCEPT ![m].status = "freed"] \in [Nodes -> NodeState]
  <1>1. CASE m \in Nodes
    <2>1. node[m] \in NodeState
      BY <1>1
    <2>2. \A x \in Nodes \cup {NULL} : [node[m] EXCEPT !.next = x] \in NodeState
      BY <2>1 DEF NodeState
    <2>3. \A x \in Elevators : [node[m] EXCEPT !.elevatorId = x] \in NodeState
      BY <2>1 DEF NodeState
    <2>4. [node[m] EXCEPT !.status = "freed"] \in NodeState
      BY <2>1 DEF NodeState
    <2> QED
      BY <1>1, <2>2, <2>3, <2>4
  <1>2. CASE m \notin Nodes
    BY <1>2
  <1> QED
    BY <1>1, <1>2

\* A passenger's step keeps the types.
LEMMA PTypes ==
  ASSUME TypeOK, Started, NEW p \in Passengers, PNext(p)
  PROVE  TypeOK'
  <1> USE DEF TypeOK
  <1>1. BuildingType'
    <2>1. CASE StartTrip(p)
      <3>1. PICK dest \in Floors :
              passengers' = [passengers EXCEPT ![p].to_floor = dest,
                                               ![p].state = "WAITING"]
        BY <2>1 DEF StartTrip, NewTrip
      <3>2. passengers[p] \in PassengerState
        BY DEF BuildingType
      <3>3. [passengers[p] EXCEPT !.to_floor = dest, !.state = "WAITING"]
              \in PassengerState
        BY <3>2 DEF PassengerState
      <3>4. elevators' = elevators
        BY <2>1 DEF StartTrip, NewTrip
      <3> QED
        BY <3>1, <3>3, <3>4 DEF BuildingType
    <2>2. CASE EnterElevator(p)
      <3>1. ppc[p] \in Learned
        BY <2>2 DEF EnterElevator, PStep, Learned
      <3>2. node[Req(p)].elevatorId \in Elevators
        BY <3>1 DEF Started
      <3> QED
        BY <2>2, <3>2, EnterTypes DEF EnterElevator
    <2>3. CASE ExitElevator(p)
      <3>1. ppc[p] \in Learned
        BY <2>3 DEF ExitElevator, PStep, Learned
      <3>2. node[Req(p)].elevatorId \in Elevators
        BY <3>1 DEF Started
      <3> QED
        BY <2>3, <3>2, ExitTypes DEF ExitElevator
    <2>4. CASE Return(p)
      BY <2>4 DEF Return, EndTrip, BuildingType, PassengerState
    <2>5. CASE UNCHANGED bvars
      BY <2>5 DEF bvars, BuildingType
    <2> QED
      BY <2>1, <2>2, <2>3, <2>4, <2>5, PBuilding
  <1>2. ListType'
    <2>1. CASE AddRequest(p)
      BY <2>1 DEF AddRequest, ListType, NodeState, BuildingType, PassengerState
    <2>2. CASE AddFirst(p)
      <3>1. trip[p] >= 1
        BY <2>2 DEF AddFirst, PStep, Started
      <3> QED
        BY <2>2, <3>1, ReqIsNode DEF AddFirst, ListType
    <2>3. CASE AddLink(p)
      <3>1. trip[p] >= 1
        BY <2>3 DEF AddLink, PStep, Started
      <3> QED
        BY <2>3, <3>1, ReqIsNode DEF AddLink, ListType, NodeState
    <2>4. CASE UNCHANGED listVars
      BY <2>4 DEF listVars, ListType
    <2> QED
      BY <2>1, <2>2, <2>3, <2>4, PList
  <1>3. sem' \in [Nodes -> [Semaphores -> Nat]]
    <2> USE DEF SyncType, Semaphores
    <2>1. CASE AddRequest(p)
      BY <2>1 DEF AddRequest, NoPosts
    <2>2. CASE PassBarrier(p) \/ ReportOn(p) \/ ReportOff(p)
      BY <2>2, PostTypes DEF PassBarrier, ReportOn, ReportOff
    <2>3. CASE WaitToBoard(p) \/ WaitToUnload(p)
      BY <2>3, WaitTypes DEF WaitToBoard, WaitToUnload
    <2>4. CASE UNCHANGED sem
      BY <2>4
    <2> QED
      BY <2>1, <2>2, <2>3, <2>4, PSem
  <1>4. waiting' \in 0 .. Limit /\ is_open' \in Nat /\ lock_for_elevator_s' \in Nat
    <2>1. CASE Barrier(p)
      BY <2>1, LimitNat DEF Barrier, SyncType
    <2> QED
      BY <2>1, PBarrier, LimitNat DEF SyncType
  <1>5. lock_for_request_s' \in Nat
    <2>1. lock_for_request_s \in Nat
      BY DEF SyncType
    <2> QED
      BY <2>1, PLock
  <1>6. ppc' \in [Passengers -> PassengerPC]
    BY PControl DEF PFlow, PassengerType, PassengerPC
  <1>7. trip' \in [Passengers -> 0 .. TRIPS_PER_PASSENGER]
    BY PLocals, SchedulerAssumption DEF StartTrip, PassengerType
  <1>8. pptr' \in [Passengers -> Nodes \cup {NULL}]
    <2>1. CASE AddHead(p)
      BY <2>1 DEF AddHead, ListType, PassengerType
    <2>2. CASE AddStep(p)
      <3>1. pptr[p] # NULL
        BY <2>2 DEF AddStep, PStep, PVerdict, Verdict, PTouches
      <3> QED
        BY <2>2, <3>1 DEF AddStep, ListType, NodeState, PassengerType
    <2> QED
      BY <2>1, <2>2, PLocals DEF PassengerType
  <1>9. ElevatorType'
    BY PKeepsElevators DEF ElevatorType, ride, walk
  <1>10. ProcessType'
    BY PKeepsElevators, PFault DEF ProcessType, PVerdict, Verdict
  <1> QED
    BY <1>1, <1>2, <1>3, <1>4, <1>5, <1>6, <1>7, <1>8, <1>9, <1>10, PKeepsElevators
       DEF SyncType, PassengerType

\* An elevator's step keeps the types.
LEMMA ETypes ==
  ASSUME TypeOK, NEW e \in Elevators, ENext(e)
  PROVE  TypeOK'
  <1> USE DEF TypeOK
  <1>1. BuildingType'
    <2>1. CASE Move(e)
      BY <2>1 DEF Move, MoveBy, BuildingType, ElevatorState
    <2>2. CASE Open(e) \/ CloseBoarded(e) \/ CloseDelivered(e)
      BY <2>2 DEF Open, CloseBoarded, CloseDelivered, SetDoor, BuildingType, ElevatorState
    <2>3. CASE UNCHANGED bvars
      BY <2>3 DEF bvars, BuildingType
    <2> QED
      BY <2>1, <2>2, <2>3, EBuilding
  <1>2. ListType'
    <2>1. /\ headOfRequests \in Nodes \cup {NULL} /\ node \in [Nodes -> NodeState]
          /\ nxt[e] \in Nodes \cup {NULL}
      BY DEF ListType, ElevatorType
    <2>2. CASE Take(e)
      BY <2>1, <2>2, FieldTypes DEF Take, ListType
    <2>3. CASE RemoveHeadSet(e)
      BY <2>1, <2>3 DEF RemoveHeadSet, ListType
    <2>4. CASE RemoveClear(e)
      BY <2>1, <2>4, FieldTypes DEF RemoveClear, ListType
    <2>5. CASE RemoveSet(e)
      BY <2>1, <2>5, FieldTypes DEF RemoveSet, ListType
    <2>6. CASE RemoveFree(e)
      BY <2>1, <2>6, FieldTypes DEF RemoveFree, ListType
    <2>7. CASE UNCHANGED listVars
      BY <2>1, <2>7 DEF listVars, ListType
    <2> QED
      BY <2>2, <2>3, <2>4, <2>5, <2>6, <2>7, EList
  <1>3. sem' \in [Nodes -> [Semaphores -> Nat]]
    <2> USE DEF SyncType, Semaphores
    <2>1. CASE WaitReady(e)
      BY <2>1, WaitTypes DEF WaitReady
    <2>2. CASE SignalPassenger(e)
      BY <2>2, PostTypes DEF SignalPassenger
    <2>3. CASE AwaitPassenger(e)
      BY <2>3, WaitTypes DEF AwaitPassenger
    <2> QED
      BY <2>1, <2>2, <2>3, ESem
  <1>4. lock_for_elevator_s' \in Nat
    <2>1. lock_for_elevator_s \in Nat
      BY DEF SyncType
    <2> QED
      BY <2>1, ELock
  <1>5. last_elevator_s' \in Nat
    <2>1. last_elevator_s \in Nat
      BY DEF SyncType
    <2> QED
      BY <2>1, ELocals DEF CheckEmpty
  <1>6. epc' \in [Elevators -> ElevatorPC]
    BY EControl DEF EFlow, ElevatorType, ElevatorPC
  <1>7. /\ leg' \in [Elevators -> {"pickup", "deliver"}]
        /\ cur' \in [Elevators -> Nodes \cup {NULL}]
        /\ dist' \in [Elevators -> Int]
    <2> USE DEF ElevatorType
    <2>1. CASE Take(e)
      BY <2>1 DEF Take
    <2>2. CASE Plan(e)
      <3>1. cur[e] \in Nodes
        BY <2>2 DEF Plan, EStep, EVerdict, Verdict, ETouches
      <3>2. Distance(e) \in Int
        BY <3>1 DEF Distance, ListType, NodeState, BuildingType, ElevatorState, Floors
      <3> QED
        BY <2>2, <3>2 DEF Plan
    <2>3. CASE Move(e)
      BY <2>3 DEF Move
    <2>4. CASE CloseBoarded(e)
      BY <2>4 DEF CloseBoarded
    <2>5. CASE UNCHANGED ride
      BY <2>5 DEF ride
    <2> QED
      BY <2>1, <2>2, <2>3, <2>4, <2>5, ELocals
  <1>8. /\ eptr' \in [Elevators -> Nodes \cup {NULL}]
        /\ prev' \in [Elevators -> Nodes \cup {NULL}]
        /\ nxt' \in [Elevators -> Nodes \cup {NULL}]
    <2> USE DEF ElevatorType, ListType, NodeState
    <2>1. CASE PeekMore(e)
      BY <2>1 DEF PeekMore
    <2>2. CASE WalkPast(e)
      BY <2>2 DEF WalkPast
    <2>3. CASE RemoveHeadFound(e)
      BY <2>3 DEF RemoveHeadFound
    <2>4. CASE RemoveWalk(e)
      BY <2>4 DEF RemoveWalk, RemoveNothing, walk, EStep, EVerdict, Verdict, ETouches
    <2>5. CASE RemoveFound(e)
      BY <2>5 DEF RemoveFound, EStep, EVerdict, Verdict, ETouches
    <2>6. CASE RemoveSkip(e)
      BY <2>6 DEF RemoveSkip, EStep, EVerdict, Verdict, ETouches
    <2>7. CASE UNCHANGED walk
      BY <2>7 DEF walk
    <2>8. CASE RemoveOther(e)
      BY <2>8 DEF RemoveOther, RemoveNothing, walk
    <2> QED
      BY <2>1, <2>2, <2>3, <2>4, <2>5, <2>6, <2>7, <2>8, ELocals
  <1>9. PassengerType'
    BY EKeepsPassengers DEF PassengerType, pvars
  <1>10. ProcessType'
    BY EKeepsPassengers, EFault DEF ProcessType, EVerdict, Verdict
  <1> QED
    BY <1>1, <1>2, <1>3, <1>4, <1>5, <1>6, <1>7, <1>8, <1>9, <1>10, EKeepsPassengers
       DEF SyncType, ElevatorType
=============================================================================
