-------------------------- MODULE SchedulerProofs --------------------------
(***************************************************************************)
(* The safety theorems of Scheduler: IInv is inductive, the enforcement    *)
(* system of main.c never finds a violation, and the scheduler implements  *)
(* the service elevator.h promises.                                        *)
(***************************************************************************)
EXTENDS SchedulerRide

\* The ride from the passenger's side: a passenger that boards or gets off has
\* its elevator waiting for it, and one that rides has its elevator busy with
\* its request.  This is all the five semaphores are for.
LEMMA RideFacts ==
  ASSUME TypeOK, Started, Handshake, Legs, NEW p \in Passengers
  PROVE  LET e == node[Req(p)].elevatorId IN
         /\ ppc[p] \in {"spin", "enter", "enterAgain", "enterApply", "on"} =>
              /\ e \in Elevators /\ cur[e] = Req(p) /\ Serving(e)
              /\ (epc[e] = "await" /\ leg[e] = "pickup")
         /\ ppc[p] = "unload" => e \in Elevators /\ cur[e] = Req(p) /\ Serving(e)
         /\ ppc[p] \in {"exit", "exitAgain", "exitApply", "off"} =>
              /\ e \in Elevators /\ cur[e] = Req(p) /\ Serving(e)
              /\ (epc[e] = "await" /\ leg[e] = "deliver")
  <1> DEFINE n == Req(p)
             e == node[n].elevatorId
             r == RiderStage(n)
             c == CarrierStage(n)
  <1>1. SUFFICES ASSUME ppc[p] \in {"spin", "enter", "enterAgain", "enterApply",
                          "on", "unload", "exit", "exitAgain", "exitApply", "off"}
                 PROVE  /\ e \in Elevators /\ cur[e] = n /\ Serving(e)
                        /\ ppc[p] \in {"spin", "enter", "enterAgain", "enterApply", "on"}
                             => epc[e] = "await" /\ leg[e] = "pickup"
                        /\ ppc[p] \in {"exit", "exitAgain", "exitApply", "off"}
                             => epc[e] = "await" /\ leg[e] = "deliver"
    OBVIOUS
  <1>2. n \in Nodes /\ n[1] = p /\ n[2] = trip[p] /\ trip[p] \in Nat
    BY <1>1, ReqIsNode, SchedulerAssumption DEF Started, Req, TypeOK, PassengerType
  <1>3. r = IF ppc[p] \in {"exit", "exitAgain", "exitApply", "off"} THEN 4
            ELSE IF ppc[p] = "unload" THEN 3 ELSE 2
    BY <1>1, <1>2 DEF RiderStage
  <1>4. c \in 0 .. 5 /\ \A s \in Semaphores : sem[n][s] \in Nat
    BY <1>2, Stages DEF TypeOK, SyncType
  <1>5. /\ Past(r, 1) >= Past(c, 1) /\ Past(c, 2) >= Past(r, 2)
        /\ Past(r, 3) >= Past(c, 3) /\ Past(c, 4) >= Past(r, 4)
        /\ Past(r, 5) >= Past(c, 5)
    <2>1. /\ sem[n]["passenger_ready_s"]        = Past(r, 1) - Past(c, 1)
          /\ sem[n]["elevator_boarding_s"]      = Past(c, 2) - Past(r, 2)
          /\ sem[n]["passenger_on_s"]           = Past(r, 3) - Past(c, 3)
          /\ sem[n]["elevator_unloading_s"]     = Past(c, 4) - Past(r, 4)
          /\ sem[n]["passenger_off_elevator_s"] = Past(r, 5) - Past(c, 5)
      BY <1>2 DEF Handshake
    <2>2. \A i \in 1 .. 5 : Past(r, i) \in Int /\ Past(c, i) \in Int
      BY DEF Past
    <2> QED
      BY <1>4, <2>1, <2>2 DEF Semaphores
  <1>6. c \in 2 .. 4 /\ (r = 2 => c = 2) /\ (r = 4 => c = 4)
    BY <1>3, <1>4, <1>5 DEF Past
  <1>7. e \in Elevators /\ Serving(e) /\ cur[e] = n /\ c = ElevatorStage(e)
    BY <1>2, <1>6 DEF CarrierStage, TypeOK, ListType, NodeState
  <1>8. leg[e] \in {"pickup", "deliver"}
    BY <1>7 DEF TypeOK, ElevatorType
  <1>9. /\ c = 2 => epc[e] = "await" /\ leg[e] = "pickup"
        /\ c = 4 => epc[e] = "await" /\ leg[e] = "deliver"
    BY <1>7, <1>8 DEF ElevatorStage, Legs
  <1> QED
    BY <1>3, <1>6, <1>7, <1>9

\* An elevator has one rider at most.
LEMMA OneRider ==
  ASSUME TypeOK, Started, Handshake, Legs, Trips, NEW e \in Elevators,
         NEW p \in Passengers, NEW q \in Passengers,
         passengers[p].in_elevator = e,
         \/ passengers[q].in_elevator = e
         \/ /\ ppc[q] \in {"spin", "enter", "enterAgain", "enterApply", "on"}
            /\ node[Req(q)].elevatorId = e
  PROVE  p = q
  <1>1. ppc[p] \in Riding /\ node[Req(p)].elevatorId = e
    BY BuildingAssumption DEF Trips
  <1>2. cur[e] = Req(p)
    BY <1>1, RideFacts DEF Riding
  <1>3. CASE passengers[q].in_elevator = e
    <2>1. ppc[q] \in Riding /\ node[Req(q)].elevatorId = e
      BY <1>3, BuildingAssumption DEF Trips
    <2>2. cur[e] = Req(q)
      BY <2>1, RideFacts DEF Riding
    <2> QED
      BY <1>2, <2>2 DEF Req
  <1>4. CASE /\ ppc[q] \in {"spin", "enter", "enterAgain", "enterApply", "on"}
             /\ node[Req(q)].elevatorId = e
    <2>1. cur[e] = Req(q)
      BY <1>4, RideFacts
    <2> QED
      BY <1>2, <2>1 DEF Req
  <1> QED
    BY <1>3, <1>4

\* What the checks of main.c find, wherever they are made.
LEMMA EntersSafely ==
  ASSUME IInv, NEW p \in Passengers, ppc[p] \in {"enter", "enterAgain", "enterApply"}
  PROVE  EnterAllowed(p, node[Req(p)].elevatorId)
  <1> DEFINE e == node[Req(p)].elevatorId
  <1> USE DEF IInv
  <1>1. e \in Elevators /\ cur[e] = Req(p) /\ epc[e] = "await" /\ leg[e] = "pickup"
    BY RideFacts
  <1>2. elevators[e].open /\ elevators[e].floor = node[Req(p)].from_floor
    BY <1>1 DEF Doors, Target
  <1>3. /\ passengers[p].from_floor = node[Req(p)].from_floor
        /\ passengers[p].state = "WAITING" /\ passengers[p].in_elevator = NoElevator
    BY DEF Trips, Waiting, Riding
  <1>4. ~ \E q \in Passengers : passengers[q].in_elevator = e
    BY <1>1, <1>3, OneRider, BuildingAssumption
  <1>5. elevators[e].passengers = 0
    BY <1>1, <1>4 DEF Load
  <1> QED
    BY <1>2, <1>3, <1>5, BuildingAssumption DEF EnterAllowed

\* A passenger's exit check (main.c:278-307) passes, before and after its sleep.
LEMMA ExitsSafely ==
  ASSUME IInv, NEW p \in Passengers, ppc[p] \in {"exit", "exitAgain", "exitApply"}
  PROVE  ExitAllowed(p, node[Req(p)].elevatorId)
  <1> DEFINE e == node[Req(p)].elevatorId
  <1> USE DEF IInv
  <1>1. e \in Elevators /\ cur[e] = Req(p) /\ epc[e] = "await" /\ leg[e] = "deliver"
    BY RideFacts
  <1>2. elevators[e].open /\ elevators[e].floor = node[Req(p)].to_floor
    BY <1>1 DEF Doors, Target
  <1>3. /\ passengers[p].to_floor = node[Req(p)].to_floor
        /\ passengers[p].state = "ENTERED" /\ passengers[p].in_elevator = e
    BY DEF Trips, Riding
  <1> QED
    BY <1>2, <1>3 DEF ExitAllowed

\* An elevator's checks (main.c:89-176) pass, before and after its sleep.
LEMMA MovesSafely ==
  ASSUME IInv, NEW e \in Elevators
  PROVE  /\ epc[e] \in {"move", "moveAgain", "moveApply"} => MoveAllowed(e)
         /\ epc[e] \in {"open", "openAgain", "openApply"} => OpenAllowed(e)
         /\ epc[e] \in {"close", "closeApply"} => CloseAllowed(e)
  <1> USE DEF IInv
  <1>1. elevators[e].passengers \in {0, 1}
    BY DEF Load
  <1>2. CapacityOK(e)
    BY <1>1, BuildingAssumption DEF CapacityOK
  <1> QED
    BY <1>2 DEF Doors, MoveAllowed, OpenAllowed, CloseAllowed

-----------------------------------------------------------------------------
(* Trips.                                                                  *)

\* Nobody has asked for anything.
LEMMA TripsInit == Init => Trips
  <1>1. SUFFICES ASSUME Init PROVE Trips
    OBVIOUS
  <1>2. PICK f \in [Passengers -> Floors] :
          passengers = [q \in Passengers |->
            [from_floor |-> f[q], to_floor |-> 0, at_floor |-> f[q],
             in_elevator |-> NoElevator, state |-> "WAITING"]]
    BY <1>1 DEF Init, BuildingInit, ElevatorsInit, PassengersInit
  <1>3. ASSUME NEW p \in Passengers
        PROVE  /\ passengers[p].at_floor = passengers[p].from_floor
               /\ passengers[p].in_elevator = NoElevator
    BY <1>2
  <1>4. ASSUME NEW p \in Passengers
        PROVE  ppc[p] = "idle" /\ ~(trip[p] > 0)
    BY <1>1 DEF Init
  <1> QED
    BY <1>3, <1>4 DEF Trips, Waiting, Riding

\* Trips for one passenger, in the next state.
TripNext(p) ==
  LET q == passengers'[p]
      n == <<p, trip'[p]>> IN
  /\ ppc'[p] \notin {"idle", "end"} => q.from_floor # q.to_floor
  /\ ppc'[p] \notin {"idle", "end", "request"} =>
       /\ node'[n].from_floor = q.from_floor
       /\ node'[n].to_floor = q.to_floor
  /\ ppc'[p] \in Waiting => q.state = "WAITING"
  /\ ppc'[p] \in Riding => q.state = "ENTERED"
  /\ q.in_elevator = IF ppc'[p] \in Riding THEN node'[n].elevatorId ELSE NoElevator
  /\ ppc'[p] \in Waiting \cup Riding => q.at_floor = q.from_floor
  /\ ppc'[p] \in {"off", "return"} => q.at_floor = q.to_floor
  /\ ppc'[p] \in {"idle", "end"} =>
       q.at_floor = q.from_floor /\ (trip'[p] > 0 => q.to_floor = q.at_floor)

\* The thread's own record: unchanged, or one of the four changes of main.c.
LEMMA PRecord ==
  ASSUME TypeOK, NEW p \in Passengers, PNext(p)
  PROVE  /\ \A q \in Passengers \ {p} : passengers'[q] = passengers[q]
         /\ \/ passengers'[p] = passengers[p]
            \/ StartTrip(p) \/ EnterElevator(p) \/ ExitElevator(p) \/ Return(p)
  <1> USE DEF TypeOK, BuildingType
  <1>1. CASE StartTrip(p)
    BY <1>1 DEF StartTrip, NewTrip
  <1>2. CASE EnterElevator(p)
    BY <1>2 DEF EnterElevator, Enter
  <1>3. CASE ExitElevator(p)
    BY <1>3 DEF ExitElevator, Exit
  <1>4. CASE Return(p)
    BY <1>4 DEF Return, EndTrip
  <1>5. CASE UNCHANGED bvars
    BY <1>5 DEF bvars
  <1> QED
    BY <1>1, <1>2, <1>3, <1>4, <1>5, PBuilding

\* A passenger's step keeps its record, its request and its thread in agreement.
LEMMA PTrips ==
  ASSUME IInv, TypeOK', NEW p \in Passengers, PNext(p)
  PROVE  Trips'
  <1> USE DEF IInv
  <1>1. SUFFICES ASSUME NEW q \in Passengers PROVE TripNext(q)
    BY DEF Trips, TripNext, Req
  <1>2. trip[q] \in Nat /\ passengers[q] \in PassengerState
    BY SchedulerAssumption DEF TypeOK, PassengerType, BuildingType
  <1>3. CASE q # p
    <2>1. ppc'[q] = ppc[q] /\ trip'[q] = trip[q] /\ passengers'[q] = passengers[q]
      BY <1>3, PMoves, PRecord
    <2>2. CASE ppc[q] \in {"idle", "end"}
      BY <2>1, <2>2 DEF Trips, TripNext, Waiting, Riding
    <2>3. CASE ppc[q] \notin {"idle", "end"}
      <3>1. Req(q) \in Nodes /\ Req(q) # Req(p) /\ Req(q) = <<q, trip'[q]>>
        BY <1>3, <2>1, <2>3, ReqIsNode DEF Started, Req
      <3>2. /\ node'[Req(q)].elevatorId = node[Req(q)].elevatorId
            /\ node'[Req(q)].from_floor = node[Req(q)].from_floor
            /\ node'[Req(q)].to_floor = node[Req(q)].to_floor
        BY <3>1, PKeepsNodes
      <3> QED
        BY <2>1, <2>3, <3>1, <3>2 DEF Trips, TripNext
    <2> QED
      BY <2>2, <2>3
  <1>4. CASE q = p
    <2>1. CASE StartTrip(p)
      <3>1. PICK dest \in Floors \ {passengers[p].from_floor} :
              passengers' = [passengers EXCEPT ![p].to_floor = dest,
                                               ![p].state = "WAITING"]
        BY <2>1 DEF StartTrip, NewTrip
      <3>2. passengers'[p] = [passengers[p] EXCEPT !.to_floor = dest, !.state = "WAITING"]
        BY <3>1 DEF TypeOK, BuildingType
      <3>3. ppc[p] = "idle" /\ ppc'[p] = "request"
        BY <2>1 DEF StartTrip, PStep, TypeOK, PassengerType
      <3>4. /\ passengers'[p].from_floor # passengers'[p].to_floor
            /\ passengers'[p].state = "WAITING"
            /\ passengers'[p].in_elevator = passengers[p].in_elevator
            /\ passengers'[p].at_floor = passengers[p].at_floor
            /\ passengers'[p].from_floor = passengers[p].from_floor
        <4>1. passengers[p] \in PassengerState /\ dest # passengers[p].from_floor
          BY <1>2, <1>4, <3>1
        <4> HIDE DEF IInv
        <4> QED
          BY <3>2, <4>1 DEF PassengerState
      <3>5. /\ passengers[p].in_elevator = NoElevator
            /\ passengers[p].at_floor = passengers[p].from_floor
        BY <3>3 DEF Trips, Riding
      <3> QED
        BY <1>4, <3>3, <3>4, <3>5 DEF TripNext, Waiting, Riding
    <2>2. CASE AddRequest(p)
      <3>1. /\ ppc[p] = "request" /\ ppc'[p] = "addTest" /\ trip'[p] = trip[p]
            /\ passengers'[p] = passengers[p] /\ Req(p) = <<p, trip'[p]>>
        BY <2>2 DEF AddRequest, PStep, Req, bvars, TypeOK, PassengerType
      <3>2. Req(p) \in Nodes
        BY <3>1, ReqIsNode DEF Started
      <3>3. /\ node'[Req(p)].from_floor = passengers[p].from_floor
            /\ node'[Req(p)].to_floor = passengers[p].to_floor
        BY <2>2, <3>2 DEF AddRequest, TypeOK, ListType
      <3> QED
        BY <1>4, <3>1, <3>3 DEF Trips, TripNext, Waiting, Riding
    <2>3. ASSUME ~StartTrip(p), ~AddRequest(p), ppc'[p] # ppc[p], ppc[p] # "idle"
          PROVE  /\ trip'[p] = trip[p]
                 /\ ppc[p] \notin {"idle", "end", "request"}
                 /\ node'[Req(p)].elevatorId = node[Req(p)].elevatorId
                 /\ node'[Req(p)].from_floor = node[Req(p)].from_floor
                 /\ node'[Req(p)].to_floor = node[Req(p)].to_floor
                 /\ Req(p) = <<p, trip'[p]>>
      <3>1. trip'[p] = trip[p] /\ ppc[p] \notin {"idle", "end", "request"}
        BY <2>3, PMoves, PRequest DEF PFlow, TypeOK
      <3>2. Req(p) \in Nodes
        BY <3>1, ReqIsNode DEF Started
      <3> QED
        BY <2>3, <3>1, <3>2, PKeepsNodes DEF Req
    <2>4. CASE EnterElevator(p)
      <3>1. ppc[p] = "enterApply" /\ ppc'[p] = "on"
        BY <2>4 DEF EnterElevator, PStep, TypeOK, PassengerType
      <3>2. passengers'[p] = [passengers[p] EXCEPT
              !.in_elevator = node[Req(p)].elevatorId, !.state = "ENTERED"]
        BY <2>4 DEF EnterElevator, Enter, TypeOK, BuildingType
      <3> QED
        BY <1>2, <1>4, <2>3, <3>1, <3>2 DEF StartTrip, AddRequest, PStep,
           Trips, TripNext, Waiting, Riding, PassengerState
    <2>5. CASE ExitElevator(p)
      <3> DEFINE e == node[Req(p)].elevatorId
      <3>1. ppc[p] = "exitApply" /\ ppc'[p] = "off"
        BY <2>5 DEF ExitElevator, PStep, TypeOK, PassengerType
      <3>2. passengers'[p] = [passengers[p] EXCEPT
              !.in_elevator = NoElevator, !.at_floor = elevators[e].floor,
              !.state = "EXITED"]
        BY <2>5 DEF ExitElevator, Exit, TypeOK, BuildingType
      <3>3. elevators[e].floor = passengers[p].to_floor
        BY <3>1, ExitsSafely DEF ExitAllowed
      <3> QED
        BY <1>2, <1>4, <2>3, <3>1, <3>2, <3>3 DEF StartTrip, AddRequest, PStep,
           Trips, TripNext, Waiting, Riding, PassengerState
    <2>6. CASE Return(p)
      <3>1. ppc[p] = "return" /\ ppc'[p] = "idle"
        BY <2>6 DEF Return, PStep, TypeOK, PassengerType
      <3>2. passengers'[p] = [passengers[p] EXCEPT !.from_floor = passengers[p].to_floor]
        BY <2>6 DEF Return, EndTrip, TypeOK, BuildingType
      <3> QED
        BY <1>2, <1>4, <2>3, <3>1, <3>2 DEF StartTrip, AddRequest, PStep,
           Trips, TripNext, Waiting, Riding, PassengerState
    <2>7. CASE ppc'[p] = ppc[p]
      <3>1. /\ passengers' = passengers /\ trip' = trip /\ node' = node
        BY <2>7, PStays DEF bvars, pvars, listVars, TypeOK
      <3> QED
        BY <1>4, <2>7, <3>1 DEF Trips, TripNext, Req
    <2>8. CASE /\ ppc'[p] # ppc[p] /\ ~StartTrip(p) /\ ~AddRequest(p)
               /\ ~EnterElevator(p) /\ ~ExitElevator(p) /\ ~Return(p)
      <3>1. passengers'[p] = passengers[p]
        BY <2>8, PRecord
      <3>2. CASE ppc[p] = "idle"
        <4>1. ppc'[p] = "end" /\ trip'[p] = trip[p]
          BY <2>8, <3>2, PMoves, PIdle DEF PFlow, TypeOK
        <4> QED
          BY <1>4, <3>1, <3>2, <4>1 DEF Trips, TripNext, Waiting, Riding
      <3>3. CASE ppc[p] # "idle"
        <4>1. /\ ppc[p] \in Waiting <=> ppc'[p] \in Waiting
              /\ ppc[p] \in Riding <=> ppc'[p] \in Riding
              /\ ppc[p] = "off" <=> ppc'[p] = "return"
              /\ ppc'[p] \notin {"off", "idle", "end", "request"}
          BY <2>8, <3>3, PMoves, PActs DEF PFlow, Waiting, Riding, TypeOK
        <4> QED
          BY <1>4, <2>3, <2>8, <3>1, <3>3, <4>1 DEF Trips, TripNext
      <3> QED
        BY <3>2, <3>3
    <2> QED
      BY <2>1, <2>2, <2>4, <2>5, <2>6, <2>7, <2>8
  <1> QED
    BY <1>3, <1>4

\* An elevator moves, opens and closes; the passengers' records are theirs.
LEMMA ERecord ==
  ASSUME NEW e \in Elevators, ENext(e)
  PROVE  passengers' = passengers
  <1>1. CASE Move(e)
    BY <1>1 DEF Move, MoveBy
  <1>2. CASE Open(e) \/ CloseBoarded(e) \/ CloseDelivered(e)
    BY <1>2 DEF Open, CloseBoarded, CloseDelivered, SetDoor
  <1>3. CASE UNCHANGED bvars
    BY <1>3 DEF bvars
  <1> QED
    BY <1>1, <1>2, <1>3, EBuilding

\* An elevator touches no passenger, and no floor of a request.
LEMMA ETrips ==
  ASSUME IInv, NEW e \in Elevators, ENext(e)
  PROVE  Trips'
  <1> USE DEF IInv
  <1>1. SUFFICES ASSUME NEW q \in Passengers PROVE TripNext(q)
    BY DEF Trips, TripNext, Req
  <1>2. ppc' = ppc /\ trip' = trip /\ passengers' = passengers
    BY EKeepsPassengers, ERecord DEF pvars
  <1>3. CASE ppc[q] \in {"idle", "end", "request"}
    BY <1>2, <1>3 DEF Trips, TripNext, Waiting, Riding, Req
  <1>4. CASE ppc[q] \notin {"idle", "end", "request"}
    <2>1. Req(q) \in Nodes /\ Req(q) = <<q, trip'[q]>>
      BY <1>2, <1>4, ReqIsNode DEF Started, Req
    <2>2. /\ node'[Req(q)].from_floor = node[Req(q)].from_floor
          /\ node'[Req(q)].to_floor = node[Req(q)].to_floor
      BY <2>1, EKeepsNodes
    <2>3. ASSUME ppc[q] \in Riding
          PROVE  node'[Req(q)].elevatorId = node[Req(q)].elevatorId
      <3>1. node[Req(q)].elevatorId \in Elevators
        BY <2>3 DEF Started, Learned, Riding
      <3>2. CASE Take(e) /\ Req(q) = eptr[e]
        <4>1. epc[e] = "take"
          BY <3>2 DEF Take, EStep
        <4> QED
          BY <3>1, <3>2, <4>1, BuildingAssumption DEF Pointers
      <3> QED
        BY <2>1, <3>2, EKeepsNodes
    <2> QED
      BY <1>2, <1>4, <2>1, <2>2, <2>3 DEF Trips, TripNext
  <1> QED
    BY <1>3, <1>4

-----------------------------------------------------------------------------
(* Doors.                                                                  *)

\* Every elevator is on the ground floor with its door closed.
LEMMA DoorsInit == Init => Doors
  BY BuildingAssumption DEF Init, BuildingInit, ElevatorsInit, PassengersInit, Doors, Floors

\* Doors for one elevator, in the next state.
DoorNext(e) ==
  LET floor == elevators'[e].floor
      r == node'[cur'[e]]
      target == IF leg'[e] = "pickup" THEN r.from_floor ELSE r.to_floor IN
  /\ floor \in Floors
  /\ elevators'[e].open <=> epc'[e] \in {"signal", "await", "close", "closeApply"}
  /\ epc'[e] = "plan" /\ leg'[e] = "deliver" => floor = r.from_floor
  /\ epc'[e] \in {"move", "moveAgain", "moveApply"} =>
       dist'[e] # 0 /\ floor + dist'[e] = target
  /\ epc'[e] \in {"open", "openAgain", "openApply", "signal", "await",
                  "close", "closeApply"} => floor = target

\* The floors of the request an elevator serves do not change.
LEMMA PServed ==
  ASSUME IInv, NEW p \in Passengers, PNext(p), NEW e \in Elevators, Serving(e)
  PROVE  /\ node'[cur[e]].from_floor = node[cur[e]].from_floor
         /\ node'[cur[e]].to_floor = node[cur[e]].to_floor
  <1> USE DEF IInv
  <1>1. cur[e] \in Nodes /\ node[cur[e]].elevatorId = e
    BY DEF Claims
  <1>2. CASE AddRequest(p) /\ cur[e] = Req(p)
    <2>0. trip[p] \in Nat /\ ppc[p] = "request"
      BY <1>2, SchedulerAssumption DEF AddRequest, PStep, TypeOK, PassengerType
    <2>1. ~Made(Req(p))
      BY <2>0 DEF Made, Req
    <2>2. node[cur[e]] = Unallocated
      BY <1>1, <1>2, <2>1 DEF Pointers
    <2> QED
      BY <1>1, <2>2, BuildingAssumption DEF Unallocated
  <1> QED
    BY <1>1, <1>2, PKeepsNodes

\* A passenger changes nothing of an elevator but the count inside.
LEMMA PKeepsDoors ==
  ASSUME TypeOK, NEW p \in Passengers, PNext(p), NEW e \in Elevators
  PROVE  elevators'[e].floor = elevators[e].floor /\ elevators'[e].open = elevators[e].open
  <1> USE DEF TypeOK, BuildingType, ElevatorState
  <1>1. CASE StartTrip(p)
    BY <1>1 DEF StartTrip, NewTrip
  <1>2. CASE EnterElevator(p)
    BY <1>2 DEF EnterElevator, Enter
  <1>3. CASE ExitElevator(p)
    BY <1>3 DEF ExitElevator, Exit
  <1>4. CASE Return(p)
    BY <1>4 DEF Return, EndTrip
  <1>5. CASE UNCHANGED bvars
    BY <1>5 DEF bvars
  <1> QED
    BY <1>1, <1>2, <1>3, <1>4, <1>5, PBuilding

\* A passenger neither moves an elevator nor works its door.
LEMMA PDoors ==
  ASSUME IInv, NEW p \in Passengers, PNext(p)
  PROVE  Doors'
  <1>1. SUFFICES ASSUME NEW e \in Elevators PROVE DoorNext(e)
    BY DEF Doors, DoorNext, Target
  <1>2. epc' = epc /\ leg' = leg /\ cur' = cur /\ dist' = dist
    BY PKeepsElevators DEF ride
  <1>3. elevators'[e].floor = elevators[e].floor /\ elevators'[e].open = elevators[e].open
    BY PKeepsDoors DEF IInv
  <1>4. CASE Serving(e)
    <2>1. /\ node'[cur[e]].from_floor = node[cur[e]].from_floor
          /\ node'[cur[e]].to_floor = node[cur[e]].to_floor
      BY <1>4, PServed
    <2>2. Doors
      BY DEF IInv
    <2> QED
      BY <1>2, <1>3, <2>1, <2>2 DEF Doors, DoorNext, Target
  <1>5. CASE ~Serving(e)
    BY <1>2, <1>3, <1>5 DEF IInv, Doors, DoorNext, Serving, RidePC
  <1> QED
    BY <1>4, <1>5

\* An elevator changes its own state only, and none of its locals off the
\* four actions that do.
LEMMA EOwn ==
  ASSUME TypeOK, NEW e \in Elevators, ENext(e)
  PROVE  \A d \in Elevators \ {e} :
           /\ elevators'[d] = elevators[d]
           /\ leg'[d] = leg[d] /\ cur'[d] = cur[d] /\ dist'[d] = dist[d]
  <1> USE DEF TypeOK, BuildingType, ElevatorType
  <1>1. \A d \in Elevators \ {e} : elevators'[d] = elevators[d]
    <2>1. CASE Move(e)
      BY <2>1 DEF Move, MoveBy
    <2>2. CASE Open(e) \/ CloseBoarded(e) \/ CloseDelivered(e)
      BY <2>2 DEF Open, CloseBoarded, CloseDelivered, SetDoor
    <2>3. CASE UNCHANGED bvars
      BY <2>3 DEF bvars
    <2> QED
      BY <2>1, <2>2, <2>3, EBuilding
  <1>2. \A d \in Elevators \ {e} :
          leg'[d] = leg[d] /\ cur'[d] = cur[d] /\ dist'[d] = dist[d]
    <2>1. CASE Take(e)
      BY <2>1 DEF Take
    <2>2. CASE Plan(e) \/ CloseBoarded(e)
      BY <2>2 DEF Plan, CloseBoarded
    <2>3. CASE Move(e)
      BY <2>3 DEF Move
    <2>4. CASE UNCHANGED ride
      BY <2>4 DEF ride
    <2> QED
      BY <2>1, <2>2, <2>3, <2>4, ELocals
  <1> QED
    BY <1>1, <1>2

\* The five actions that drive the ride, and the steps between them.
LEMMA EBetween ==
  ASSUME TypeOK, Legs, NEW e \in Elevators, ENext(e),
         ~Plan(e), ~Move(e), ~Open(e), ~CloseBoarded(e), ~CloseDelivered(e)
  PROVE  LET from == epc[e]
             to == epc'[e] IN
         /\ to \in {"signal", "await", "close", "closeApply"}
              <=> from \in {"signal", "await", "close", "closeApply"}
         /\ to = "plan" => from = "plan" \/ (from = "pickup" /\ leg[e] = "pickup")
         /\ to \in {"move", "moveAgain", "moveApply"}
              => from \in {"move", "moveAgain", "moveApply"}
         /\ to \in {"open", "openAgain", "openApply"}
              => from \in {"open", "openAgain", "openApply"}
  <1>1. epc'[e] = epc[e] \/ EFlow(epc[e], epc'[e])
    BY EMoves
  <1>2. /\ epc[e] = "plan" => epc'[e] = epc[e]
        /\ epc[e] = "moveApply" => epc'[e] = epc[e]
        /\ ~(epc[e] = "openApply" /\ epc'[e] = "signal")
        /\ ~(epc[e] = "closeApply" /\ epc'[e] \in {"plan", "remove"})
    BY EActs, EReturn DEF TypeOK
  <1> QED
    BY <1>1, <1>2 DEF EFlow, Legs

\* An elevator moves towards its target and opens its door there only.
LEMMA EDoors ==
  ASSUME IInv, NEW e \in Elevators, ENext(e)
  PROVE  Doors'
  <1> USE DEF IInv
  <1>1. SUFFICES ASSUME NEW d \in Elevators PROVE DoorNext(d)
    BY DEF Doors, DoorNext, Target
  <1>2. ASSUME NEW n \in Nodes
        PROVE  /\ node'[n].from_floor = node[n].from_floor
               /\ node'[n].to_floor = node[n].to_floor
    BY <1>2, EKeepsNodes
  <1>3. Serving(d) => cur[d] \in Nodes
    BY DEF Claims
  <1>4. CASE d # e
    <2>1. /\ epc'[d] = epc[d] /\ leg'[d] = leg[d] /\ cur'[d] = cur[d]
          /\ dist'[d] = dist[d] /\ elevators'[d] = elevators[d]
      BY <1>4, EMoves, EOwn
    <2>2. Doors
      OBVIOUS
    <2> HIDE DEF IInv
    <2>3. CASE Serving(d)
      BY <1>2, <1>3, <2>1, <2>2, <2>3 DEF Doors, DoorNext, Target
    <2>4. CASE ~Serving(d)
      BY <2>1, <2>2, <2>4 DEF Doors, DoorNext, Serving, RidePC
    <2> QED
      BY <2>3, <2>4
  <1>5. CASE d = e
    <2>1. elevators[e] \in ElevatorState /\ leg[e] \in {"pickup", "deliver"}
          /\ dist[e] \in Int
      BY DEF TypeOK, BuildingType, ElevatorType
    <2>2. Doors
      OBVIOUS
    <2>3. CASE Plan(e)
      <3>1. /\ epc[e] = "plan" /\ elevators' = elevators /\ leg' = leg /\ cur' = cur
            /\ node' = node /\ dist'[e] = Distance(e)
            /\ epc'[e] = IF Distance(e) = 0 THEN "open" ELSE "move"
        BY <2>3 DEF Plan, EStep, bvars, listVars, TypeOK, ElevatorType
      <3>2. Serving(e)
        BY <3>1 DEF Serving, RidePC
      <3>3. /\ node[cur[e]].from_floor \in Int /\ node[cur[e]].to_floor \in Int
            /\ elevators[e].floor \in Int
        BY <1>3, <1>5, <2>1, <3>2, BuildingAssumption
           DEF TypeOK, ListType, NodeState, Floors, ElevatorState
      <3>4. elevators[e].floor + Distance(e) = Target(e)
        BY <2>1, <2>2, <3>1, <3>3 DEF Doors, Target, Distance
      <3>5. Distance(e) = 0 => elevators[e].floor = Target(e)
        BY <3>3, <3>4
      <3> HIDE DEF IInv
      <3> QED
        BY <1>5, <2>2, <3>1, <3>4, <3>5 DEF Doors, DoorNext, Target
    <2>4. CASE Move(e)
      <3> DEFINE direction == IF dist[e] > 0 THEN 1 ELSE -1
      <3>1. /\ epc[e] = "moveApply" /\ leg' = leg /\ cur' = cur /\ node' = node
            /\ dist'[e] = dist[e] - direction
            /\ epc'[e] = IF dist[e] = direction THEN "open" ELSE "move"
        BY <2>4 DEF Move, EStep, listVars, TypeOK, ElevatorType
      <3>2. elevators'[e] = [elevators[e] EXCEPT !.floor = @ + direction]
        BY <2>4 DEF Move, MoveBy, TypeOK, BuildingType
      <3>3. /\ elevators'[e].floor = elevators[e].floor + direction
            /\ elevators'[e].open = elevators[e].open
        BY <2>1, <3>2 DEF ElevatorState
      <3>4. /\ Target(e) \in Floors /\ elevators[e].floor \in Floors
            /\ dist[e] # 0 /\ elevators[e].floor + dist[e] = Target(e)
            /\ ~elevators[e].open
        <4>1. Serving(e)
          BY <3>1 DEF Serving, RidePC
        <4>2. Target(e) \in Floors
          BY <1>3, <1>5, <4>1 DEF Target, TypeOK, ListType, NodeState
        <4> QED
          BY <2>2, <3>1, <4>2 DEF Doors, Target
      <3>5. /\ elevators[e].floor + direction \in Floors
            /\ (elevators[e].floor + direction) + (dist[e] - direction) = Target(e)
            /\ dist[e] # direction => dist[e] - direction # 0
            /\ dist[e] = direction => elevators[e].floor + direction = Target(e)
        BY <2>1, <3>4, BuildingAssumption DEF Floors
      <3> HIDE DEF IInv, direction
      <3> QED
        BY <1>5, <3>1, <3>3, <3>4, <3>5 DEF DoorNext, Target
    <2>5. CASE Open(e)
      <3>1. /\ epc[e] = "openApply" /\ epc'[e] = "signal" /\ leg' = leg
            /\ cur' = cur /\ node' = node
        BY <2>5 DEF Open, EStep, listVars, ride, TypeOK, ElevatorType
      <3>2. elevators'[e].floor = elevators[e].floor /\ elevators'[e].open
        BY <2>1, <2>5 DEF Open, SetDoor, TypeOK, BuildingType, ElevatorState
      <3> HIDE DEF IInv
      <3> QED
        BY <1>5, <2>2, <3>1, <3>2 DEF Doors, DoorNext, Target
    <2>6. CASE CloseBoarded(e) \/ CloseDelivered(e)
      <3>1. /\ epc[e] = "closeApply" /\ cur' = cur /\ node' = node
            /\ epc'[e] = IF leg[e] = "pickup" THEN "plan" ELSE "remove"
        BY <2>6 DEF CloseBoarded, CloseDelivered, EStep, listVars, ride, TypeOK, ElevatorType
      <3>2. elevators'[e].floor = elevators[e].floor /\ ~elevators'[e].open
        BY <2>1, <2>6 DEF CloseBoarded, CloseDelivered, SetDoor, TypeOK,
           BuildingType, ElevatorState
      <3>3. leg[e] = "pickup" => elevators[e].floor = node[cur[e]].from_floor
        BY <2>2, <3>1 DEF Doors, Target
      <3>4. elevators[e].floor \in Floors
        BY <2>2 DEF Doors
      <3> HIDE DEF IInv
      <3> QED
        BY <1>5, <2>1, <3>1, <3>2, <3>3, <3>4 DEF DoorNext
    <2>7. CASE ~Plan(e) /\ ~Move(e) /\ ~Open(e) /\ ~CloseBoarded(e) /\ ~CloseDelivered(e)
      <3>1. elevators' = elevators
        BY <2>7, EBuilding DEF bvars
      <3>2. Take(e) \/ (leg' = leg /\ cur' = cur /\ dist' = dist)
        BY <2>7, ELocals DEF ride
      <3>3. CASE Take(e)
        <4>1. epc[e] = "take" /\ epc'[e] = "pickup"
          BY <3>3 DEF Take, EStep, TypeOK, ElevatorType
        <4> HIDE DEF IInv
        <4> QED
          BY <1>5, <2>2, <3>1, <4>1 DEF Doors, DoorNext
      <3>4. CASE leg' = leg /\ cur' = cur /\ dist' = dist
        <4>1. CASE Serving(e)
          <5>1. /\ node'[cur[e]].from_floor = node[cur[e]].from_floor
                /\ node'[cur[e]].to_floor = node[cur[e]].to_floor
            BY <1>2, <1>3, <1>5, <4>1
          <5> HIDE DEF IInv
          <5> QED
            BY <1>5, <2>1, <2>2, <2>7, <3>1, <3>4, <5>1, EBetween
               DEF Doors, DoorNext, Target, IInv
        <4>2. CASE ~Serving(e)
          BY <1>5, <2>2, <2>7, <3>1, <3>4, <4>2, EBetween
             DEF Doors, DoorNext, Serving, RidePC
        <4> QED
          BY <4>1, <4>2
      <3> QED
        BY <3>2, <3>3, <3>4
    <2> QED
      BY <2>3, <2>4, <2>5, <2>6, <2>7
  <1> QED
    BY <1>4, <1>5

-----------------------------------------------------------------------------
(* Load.                                                                   *)

\* Every elevator is empty.
LEMMA LoadInit == Init => Load
  <1>1. SUFFICES ASSUME Init PROVE Load
    OBVIOUS
  <1>2. ASSUME NEW p \in Passengers PROVE passengers[p].in_elevator = NoElevator
    <2>1. PICK f \in [Passengers -> Floors] :
            passengers = [q \in Passengers |->
              [from_floor |-> f[q], to_floor |-> 0, at_floor |-> f[q],
               in_elevator |-> NoElevator, state |-> "WAITING"]]
      BY <1>1 DEF Init, BuildingInit, ElevatorsInit, PassengersInit
    <2> QED
      BY <2>1
  <1>3. \A e \in Elevators : elevators[e].passengers = 0
    BY <1>1 DEF Init, BuildingInit, ElevatorsInit, PassengersInit
  <1> QED
    BY <1>2, <1>3, BuildingAssumption DEF Load

\* Boarding and getting off are counted where the passenger is.
LEMMA PLoad ==
  ASSUME IInv, NEW p \in Passengers, PNext(p)
  PROVE  Load'
  <1> DEFINE en == node[Req(p)].elevatorId
  <1>1. SUFFICES ASSUME NEW e \in Elevators
                 PROVE  elevators'[e].passengers =
                          IF \E q \in Passengers : passengers'[q].in_elevator = e
                          THEN 1 ELSE 0
    BY DEF Load
  <1>2. elevators[e].passengers =
          IF \E q \in Passengers : passengers[q].in_elevator = e THEN 1 ELSE 0
    BY DEF IInv, Load
  <1>3. /\ elevators \in [Elevators -> ElevatorState]
        /\ passengers \in [Passengers -> PassengerState]
    BY DEF IInv, TypeOK, BuildingType
  <1>4. CASE EnterElevator(p)
    <2>1. ppc[p] = "enterApply" /\ Enter(p, en)
      BY <1>4 DEF EnterElevator, PStep
    <2>2. en \in Elevators
      BY <2>1, RideFacts DEF IInv
    <2>3. passengers[p].in_elevator = NoElevator
      BY <2>1 DEF IInv, Trips, Riding
    <2>4. ~ \E q \in Passengers : passengers[q].in_elevator = en
      BY <2>1, <2>2, <2>3, OneRider, BuildingAssumption DEF IInv
    <2>5. elevators'[e].passengers =
            IF e = en THEN elevators[e].passengers + 1 ELSE elevators[e].passengers
      BY <1>3, <2>1, <2>2 DEF Enter, ElevatorState
    <2>6. passengers'[p].in_elevator = en
      BY <1>3, <2>1 DEF Enter, PassengerState
    <2>7. \A q \in Passengers \ {p} : passengers'[q] = passengers[q]
      BY <1>3, <2>1 DEF Enter
    <2>8. CASE e = en
      BY <1>2, <2>2, <2>3, <2>4, <2>5, <2>6, <2>7, <2>8, BuildingAssumption
    <2>9. CASE e # en
      BY <1>2, <2>3, <2>5, <2>6, <2>7, <2>9, BuildingAssumption
    <2> QED
      BY <2>8, <2>9
  <1>5. CASE ExitElevator(p)
    <2>1. ppc[p] = "exitApply" /\ Exit(p, en)
      BY <1>5 DEF ExitElevator, PStep
    <2>2. en \in Elevators
      BY <2>1, RideFacts DEF IInv
    <2>3. passengers[p].in_elevator = en
      BY <2>1 DEF IInv, Trips, Riding
    <2>4. \A q \in Passengers : passengers[q].in_elevator = en => q = p
      BY <2>2, <2>3, OneRider DEF IInv
    <2>5. elevators'[e].passengers =
            IF e = en THEN elevators[e].passengers - 1 ELSE elevators[e].passengers
      BY <1>3, <2>1, <2>2 DEF Exit, ElevatorState
    <2>6. passengers'[p].in_elevator = NoElevator
      BY <1>3, <2>1 DEF Exit, PassengerState
    <2>7. \A q \in Passengers \ {p} : passengers'[q] = passengers[q]
      BY <1>3, <2>1 DEF Exit
    <2>8. CASE e = en
      BY <1>2, <2>2, <2>3, <2>4, <2>5, <2>6, <2>7, <2>8, BuildingAssumption
    <2>9. CASE e # en
      BY <1>2, <2>3, <2>5, <2>6, <2>7, <2>9, BuildingAssumption
    <2> QED
      BY <2>8, <2>9
  <1>6. CASE StartTrip(p) \/ Return(p) \/ UNCHANGED bvars
    <2>1. elevators' = elevators
      BY <1>6 DEF StartTrip, NewTrip, Return, EndTrip, bvars
    <2>2. ASSUME NEW q \in Passengers
          PROVE  passengers'[q].in_elevator = passengers[q].in_elevator
      <3>1. CASE StartTrip(p)
        BY <1>3, <3>1 DEF StartTrip, NewTrip, PassengerState
      <3>2. CASE Return(p)
        BY <1>3, <3>2 DEF Return, EndTrip, PassengerState
      <3> QED
        BY <1>6, <3>1, <3>2 DEF bvars
    <2> QED
      BY <1>2, <2>1, <2>2
  <1> QED
    BY <1>4, <1>5, <1>6, PBuilding

\* An elevator's own steps leave its load alone.
LEMMA ELoad ==
  ASSUME IInv, NEW e \in Elevators, ENext(e)
  PROVE  Load'
  <1>1. elevators \in [Elevators -> ElevatorState]
    BY DEF IInv, TypeOK, BuildingType
  <1>2. \A d \in Elevators : elevators'[d].passengers = elevators[d].passengers
    <2>1. CASE Move(e)
      BY <1>1, <2>1 DEF Move, MoveBy, ElevatorState
    <2>2. CASE Open(e) \/ CloseBoarded(e) \/ CloseDelivered(e)
      BY <1>1, <2>2 DEF Open, CloseBoarded, CloseDelivered, SetDoor, ElevatorState
    <2>3. CASE UNCHANGED bvars
      BY <2>3 DEF bvars
    <2> QED
      BY <2>1, <2>2, <2>3, EBuilding
  <1> QED
    BY <1>2, ERecord DEF IInv, Load

-----------------------------------------------------------------------------
(* The checks always pass.                                                 *)

\* No passenger is told off by the enforcement system.
LEMMA PNoViolation ==
  ASSUME IInv, NEW p \in Passengers, PNext(p)
  PROVE  NoViolation'
  <1>1. ppc[p] = "return" => ReturnAllowed(p)
    BY DEF IInv, Trips, ReturnAllowed
  <1>2. PCheck(p)
    BY <1>1, EntersSafely, ExitsSafely DEF PCheck
  <1>3. PVerdict(p) # "violation"
    BY <1>2 DEF PVerdict, Verdict
  <1> QED
    BY <1>3, PFault DEF IInv, NoViolation

\* No elevator is told off by the enforcement system.
LEMMA ENoViolation ==
  ASSUME IInv, NEW e \in Elevators, ENext(e)
  PROVE  NoViolation'
  <1>1. ECheck(e)
    BY MovesSafely DEF ECheck
  <1>2. EVerdict(e) # "violation"
    BY <1>1 DEF EVerdict, Verdict
  <1> QED
    BY <1>2, EFault DEF IInv, NoViolation

-----------------------------------------------------------------------------
(* The invariant is inductive.                                             *)

\* scheduler_init establishes the invariant.
LEMMA IInvInit == Init => IInv
  BY TypeInit, StartedInit, MutexInit, ClaimsInit, LegsInit, PointersInit,
     HandshakeInit, TripsInit, DoorsInit, LoadInit DEF IInv, NoViolation, Init

\* Every step of a passenger thread keeps the invariant.
LEMMA IInvPassenger ==
  ASSUME IInv, NEW p \in Passengers, PNext(p)
  PROVE  IInv'
  <1>1. TypeOK /\ Started /\ Mutex /\ Claims /\ Legs /\ Pointers /\ Handshake
    BY DEF IInv
  <1>2. TypeOK'
    BY <1>1, PTypes
  <1>3. Started' /\ Mutex' /\ Claims' /\ Legs' /\ Pointers' /\ Handshake'
    BY <1>1, <1>2, PStarted, PMutex, PClaims, PLegs, PPointers, PHandshake
  <1>4. Trips' /\ Doors' /\ Load' /\ NoViolation'
    BY <1>2, PTrips, PDoors, PLoad, PNoViolation
  <1> QED
    BY <1>2, <1>3, <1>4 DEF IInv

\* Every step of an elevator thread keeps the invariant.
LEMMA IInvElevator ==
  ASSUME IInv, NEW e \in Elevators, ENext(e)
  PROVE  IInv'
  <1>1. TypeOK /\ Started /\ Mutex /\ Claims /\ Legs /\ Pointers /\ Handshake
    BY DEF IInv
  <1>2. TypeOK'
    BY <1>1, ETypes
  <1>3. Started' /\ Mutex' /\ Claims' /\ Legs' /\ Pointers'
    BY <1>1, EStarted, EMutex, EClaims, ELegs, EPointers
  <1>4. Handshake'
    BY <1>1, <1>3, EHandshake
  <1>5. Trips' /\ Doors' /\ Load' /\ NoViolation'
    BY ETrips, EDoors, ELoad, ENoViolation
  <1> QED
    BY <1>2, <1>3, <1>4, <1>5 DEF IInv

\* main's own steps touch nothing the threads have.
LEMMA IInvMain ==
  ASSUME IInv, UNCHANGED <<bvars, listVars, sem, locks, gates, pvars, epc, ride,
                           walk, fault>>,
         stop' \in BOOLEAN
  PROVE  IInv'
  <1> USE DEF IInv, bvars, listVars, locks, gates, pvars, ride, walk
  <1>1. TypeOK'
    BY DEF TypeOK, BuildingType, ListType, SyncType, PassengerType, ElevatorType,
       ProcessType
  <1>2. Started' /\ Claims' /\ Legs'
    BY DEF Started, Claims, Legs, Req, Serving
  <1>3. Mutex'
    BY DEF Mutex
  <1>4. Pointers'
    BY SMTT(60) DEF Pointers, Made
  <1>5. Handshake'
    <2>1. \A n : RiderStage(n)' = RiderStage(n)
      BY DEF RiderStage
    <2>2. \A e : ElevatorStage(e)' = ElevatorStage(e)
      BY DEF ElevatorStage
    <2>3. \A n : CarrierStage(n)' = CarrierStage(n)
      BY <2>2 DEF CarrierStage, Serving
    <2>4. sem' = sem
      OBVIOUS
    <2> HIDE DEF IInv
    <2> QED
      BY <2>1, <2>3, <2>4 DEF Handshake, IInv
  <1>6. Trips'
    BY DEF Trips, Req
  <1>7. Doors'
    BY DEF Doors, Target
  <1>8. Load' /\ NoViolation'
    BY DEF Load, NoViolation
  <1> QED
    BY <1>1, <1>2, <1>3, <1>4, <1>5, <1>6, <1>7, <1>8

\* Every step of the program keeps the invariant.
LEMMA IInvStep == IInv /\ [Next]_vars => IInv'
  <1>1. SUFFICES ASSUME IInv, [Next]_vars PROVE IInv'
    OBVIOUS
  <1>2. stop \in BOOLEAN
    BY <1>1 DEF IInv, TypeOK, ProcessType
  <1>3. CASE Stop
    BY <1>1, <1>3, IInvMain DEF Stop
  <1>4. CASE UNCHANGED vars
    BY <1>1, <1>2, <1>4, IInvMain DEF vars, proc
  <1> QED
    BY <1>1, <1>3, <1>4, IInvPassenger, IInvElevator DEF Next, Halted

\* The hand-shake of passenger_request and elevator_ready stays in step on
\* every node, for any building and any number of trips, although addRequest
\* and removeRequest race for the list: IInv is an invariant.
THEOREM Invariance == Spec => []IInv
  BY IInvInit, IInvStep, PTL DEF Spec

\* Types: every pointer is NULL or leads to a request, the barrier never counts
\* beyond its limit, nobody makes a trip too many.
THEOREM TypeCorrect == Spec => []TypeOK
  <1>1. IInv => TypeOK
    BY DEF IInv
  <1> QED
    BY <1>1, Invariance, PTL

\* The enforcement system of main.c never logs a VIOLATION, for any number of
\* passengers, elevators, floors and trips, and any capacity of at least one.
THEOREM NeverViolates == Spec => []NoViolation
  <1>1. IInv => NoViolation
    BY DEF IInv
  <1> QED
    BY <1>1, Invariance, PTL

\* What a callback of main.c checked before it slept is true when it acts.
THEOREM ChecksHold == Spec => []ChecksStillHold
  <1>1. IInv => ChecksStillHold
    BY EntersSafely, ExitsSafely, MovesSafely DEF ChecksStillHold
  <1> QED
    BY <1>1, Invariance, PTL

\* No request is ever carried by two elevators, or by one its node does not
\* name.
THEOREM CarriedOnce == Spec => []SoleCarrier
  <1>1. IInv => SoleCarrier
    BY DEF IInv, Claims, SoleCarrier
  <1> QED
    BY <1>1, Invariance, PTL

-----------------------------------------------------------------------------
(* The scheduler implements Service.                                       *)

at == [p \in Passengers |-> passengers[p].at_floor]
dest == [p \in Passengers |-> IF trip[p] = 0 THEN passengers[p].at_floor
                                            ELSE passengers[p].to_floor]
aboard == [p \in Passengers |-> passengers[p].in_elevator]

\* start_passenger's new destination is a request of the service.
LEMMA RequestStep ==
  ASSUME IInv, NEW p \in Passengers, StartTrip(p)
  PROVE  Promise!Request(p)
  <1>1. /\ ppc[p] = "idle" /\ trip[p] \in Nat /\ trip[p] < TRIPS_PER_PASSENGER
        /\ trip' = [trip EXCEPT ![p] = trip[p] + 1]
        /\ trip \in [Passengers -> 0 .. TRIPS_PER_PASSENGER]
    BY SchedulerAssumption DEF StartTrip, PStep, IInv, TypeOK, PassengerType
  <1>2. PICK f \in Floors \ {passengers[p].from_floor} :
          passengers' = [passengers EXCEPT ![p].to_floor = f, ![p].state = "WAITING"]
    BY DEF StartTrip, NewTrip
  <1>3. passengers \in [Passengers -> PassengerState]
    BY DEF IInv, TypeOK, BuildingType
  <1>4. /\ passengers[p].from_floor = passengers[p].at_floor
        /\ trip[p] > 0 => passengers[p].to_floor = passengers[p].at_floor
    BY <1>1 DEF IInv, Trips
  <1>5. passengers'[p] = [passengers[p] EXCEPT !.to_floor = f, !.state = "WAITING"]
    BY <1>2, <1>3
  <1>6. /\ passengers'[p].to_floor = f /\ passengers'[p].at_floor = passengers[p].at_floor
        /\ passengers'[p].in_elevator = passengers[p].in_elevator
    BY <1>3, <1>5 DEF PassengerState
  <1>7. \A q \in Passengers \ {p} : passengers'[q] = passengers[q] /\ trip'[q] = trip[q]
    BY <1>1, <1>2, <1>3
  <1>8. trip'[p] # 0
    BY <1>1
  <1>9. at' = at /\ aboard' = aboard /\ dest' = [dest EXCEPT ![p] = f]
    BY <1>6, <1>7, <1>8 DEF at, aboard, dest
  <1>10. at[p] = dest[p] /\ f \in Floors \ {at[p]}
    BY <1>1, <1>2, <1>4 DEF at, dest
  <1> QED
    BY <1>9, <1>10 DEF Promise!Request, at, dest, aboard

\* passenger_enter boards an elevator nobody else is in.
LEMMA BoardStep ==
  ASSUME IInv, NEW p \in Passengers, EnterElevator(p)
  PROVE  \E e \in Elevators : Promise!Board(p, e)
  <1> DEFINE e == node[Req(p)].elevatorId
  <1>1. ppc[p] = "enterApply" /\ trip' = trip /\ Enter(p, e)
    BY DEF EnterElevator, PStep
  <1>2. e \in Elevators
    BY <1>1, RideFacts DEF IInv
  <1>3. passengers \in [Passengers -> PassengerState] /\ trip[p] # 0
    BY <1>1 DEF IInv, TypeOK, BuildingType, Started
  <1>4. /\ passengers[p].in_elevator = NoElevator
        /\ passengers[p].at_floor # passengers[p].to_floor
    BY <1>1 DEF IInv, Trips, Waiting, Riding
  <1>5. \A q \in Passengers : passengers[q].in_elevator # e
    BY <1>1, <1>2, <1>4, OneRider, BuildingAssumption DEF IInv
  <1>6. /\ passengers'[p].to_floor = passengers[p].to_floor
        /\ passengers'[p].at_floor = passengers[p].at_floor
        /\ passengers'[p].in_elevator = e
    BY <1>1, <1>3 DEF Enter, PassengerState
  <1>7. \A q \in Passengers \ {p} : passengers'[q] = passengers[q]
    BY <1>1, <1>3 DEF Enter
  <1>8. at' = at /\ dest' = dest /\ aboard' = [aboard EXCEPT ![p] = e]
    BY <1>1, <1>6, <1>7 DEF at, aboard, dest
  <1>9. at[p] # dest[p] /\ aboard[p] = NoElevator /\ \A q \in Passengers : aboard[q] # e
    BY <1>3, <1>4, <1>5 DEF at, aboard, dest
  <1> QED
    BY <1>2, <1>8, <1>9 DEF Promise!Board, at, dest, aboard

\* passenger_exit puts the passenger down at the floor it asked for.
LEMMA AlightStep ==
  ASSUME IInv, NEW p \in Passengers, ExitElevator(p)
  PROVE  Promise!Alight(p)
  <1> DEFINE e == node[Req(p)].elevatorId
  <1>1. ppc[p] = "exitApply" /\ trip' = trip /\ Exit(p, e)
    BY DEF ExitElevator, PStep
  <1>2. e \in Elevators
    BY <1>1, RideFacts DEF IInv
  <1>3. passengers \in [Passengers -> PassengerState] /\ trip[p] # 0
    BY <1>1 DEF IInv, TypeOK, BuildingType, Started
  <1>4. passengers[p].in_elevator = e /\ passengers[p].to_floor = elevators[e].floor
    BY <1>1, ExitsSafely DEF ExitAllowed
  <1>5. /\ passengers'[p].to_floor = passengers[p].to_floor
        /\ passengers'[p].at_floor = elevators[e].floor
        /\ passengers'[p].in_elevator = NoElevator
    BY <1>1, <1>3 DEF Exit, PassengerState
  <1>6. \A q \in Passengers \ {p} : passengers'[q] = passengers[q]
    BY <1>1, <1>3 DEF Exit
  <1>7. dest[p] = elevators[e].floor
    BY <1>3, <1>4 DEF dest
  <1>8. /\ at' = [at EXCEPT ![p] = dest[p]] /\ dest' = dest
        /\ aboard' = [aboard EXCEPT ![p] = NoElevator]
    BY <1>1, <1>3, <1>5, <1>6, <1>7 DEF at, aboard, dest
  <1>9. aboard[p] # NoElevator
    BY <1>2, <1>4, BuildingAssumption DEF aboard
  <1> QED
    BY <1>8, <1>9 DEF Promise!Alight, at, dest, aboard

\* Every other step leaves at, dest and aboard as they are.
LEMMA StutterStep ==
  ASSUME TypeOK, trip' = trip,
         \A q \in Passengers :
           /\ passengers'[q].at_floor = passengers[q].at_floor
           /\ passengers'[q].to_floor = passengers[q].to_floor
           /\ passengers'[q].in_elevator = passengers[q].in_elevator
  PROVE  UNCHANGED Promise!svars
  <1>1. at' = at /\ dest' = dest /\ aboard' = aboard
    BY DEF at, dest, aboard
  <1> QED
    BY <1>1 DEF Promise!svars, at, dest, aboard

\* A passenger's step is a step of the service, or none.
LEMMA PassengerImplements ==
  ASSUME IInv, NEW p \in Passengers, PNext(p)
  PROVE  Promise!Next \/ UNCHANGED Promise!svars
  <1>1. CASE StartTrip(p)
    BY <1>1, RequestStep DEF Promise!Next
  <1>2. CASE EnterElevator(p)
    BY <1>2, BoardStep DEF Promise!Next
  <1>3. CASE ExitElevator(p)
    BY <1>3, AlightStep DEF Promise!Next
  <1>4. CASE ~StartTrip(p) /\ ~EnterElevator(p) /\ ~ExitElevator(p)
    <2>1. trip' = trip /\ TypeOK /\ passengers \in [Passengers -> PassengerState]
      BY <1>4, PLocals DEF IInv, TypeOK, BuildingType
    <2>2. ASSUME NEW q \in Passengers
          PROVE  /\ passengers'[q].at_floor = passengers[q].at_floor
                 /\ passengers'[q].to_floor = passengers[q].to_floor
                 /\ passengers'[q].in_elevator = passengers[q].in_elevator
      <3>1. CASE Return(p)
        BY <2>1, <3>1 DEF Return, EndTrip, PassengerState
      <3> QED
        BY <1>4, <3>1, PBuilding DEF bvars
    <2> QED
      BY <2>1, <2>2, StutterStep
  <1> QED
    BY <1>1, <1>2, <1>3, <1>4

\* The scheduler implements the service: a passenger_request that returns has
\* carried its passenger, alone, to the floor it asked for.
THEOREM KeepsPromise == Spec => DeliversAsPromised
  <1>1. Init => Promise!Init
    <2>1. SUFFICES ASSUME Init PROVE Promise!Init
      OBVIOUS
    <2>2. PICK f \in [Passengers -> Floors] :
            passengers = [q \in Passengers |->
              [from_floor |-> f[q], to_floor |-> 0, at_floor |-> f[q],
               in_elevator |-> NoElevator, state |-> "WAITING"]]
      BY <2>1 DEF Init, BuildingInit, ElevatorsInit, PassengersInit
    <2>3. \A p \in Passengers : trip[p] = 0
      BY <2>1 DEF Init
    <2>4. at \in [Passengers -> Floors] /\ dest = at
            /\ aboard = [p \in Passengers |-> NoElevator]
      BY <2>2, <2>3 DEF at, dest, aboard
    <2> QED
      BY <2>4 DEF Promise!Init, at, dest, aboard
  <1>2. IInv /\ [Next]_vars => [Promise!Next]_Promise!svars
    <2>1. SUFFICES ASSUME IInv, [Next]_vars
                   PROVE  Promise!Next \/ UNCHANGED Promise!svars
      OBVIOUS
    <2>2. TypeOK
      BY <2>1 DEF IInv
    <2>3. ASSUME NEW e \in Elevators, ENext(e) PROVE UNCHANGED Promise!svars
      BY <2>2, <2>3, EKeepsPassengers, ERecord, StutterStep DEF pvars
    <2>4. CASE Stop \/ UNCHANGED vars
      BY <2>2, <2>4, StutterStep DEF Stop, vars, bvars, pvars
    <2> QED
      BY <2>1, <2>3, <2>4, PassengerImplements DEF Next, Halted
  <1> QED
    BY <1>1, <1>2, Invariance, PTL DEF Spec, DeliversAsPromised, Promise!Spec
=============================================================================
