------------------------------ MODULE Building ------------------------------
(***************************************************************************)
(* The simulated building of hw5/main.c: the elevators[] and passengers[]  *)
(* arrays of its enforcement system, the checks that log a VIOLATION, and  *)
(* the state changes the API callbacks make.                               *)
(*                                                                         *)
(* Every callback takes state_lock, runs its check, releases the lock,     *)
(* sleeps, checks again and only then takes the lock once more to change   *)
(* the state.  The three critical sections are separate steps: this module *)
(* has the checks (...Allowed) and the changes, Scheduler.tla the order.   *)
(* elevators[].trips is left out, nothing reads it.                        *)
(***************************************************************************)
EXTENDS Integers

CONSTANTS
  Passengers,    \* the passenger threads
  Elevators,     \* the elevator threads
  FLOORS,        \* number of floors
  MAX_CAPACITY,  \* passengers an elevator holds
  NoElevator     \* the -1 of in_elevator and elevatorId

ASSUME BuildingAssumption ==
  /\ FLOORS \in Nat /\ FLOORS >= 2
  /\ MAX_CAPACITY \in Nat /\ MAX_CAPACITY >= 1
  /\ NoElevator \notin Elevators

VARIABLES
  elevators,     \* struct Elevator elevators[]
  passengers     \* struct Passenger passengers[]

bvars == <<elevators, passengers>>

Floors == 0 .. FLOORS - 1

ElevatorState == [floor: Int, open: BOOLEAN, passengers: Int]

PassengerState ==
  [from_floor: Floors, to_floor: Floors, at_floor: Int,
   in_elevator: Elevators \cup {NoElevator},
   state: {"WAITING", "ENTERED", "EXITED"}]

BuildingType ==
  /\ elevators \in [Elevators -> ElevatorState]
  /\ passengers \in [Passengers -> PassengerState]

ElevatorsInit ==
  elevators = [e \in Elevators |-> [floor |-> 0, open |-> FALSE, passengers |-> 0]]

\* Passengers appear on any floor (random() % FLOORS); the array is static, so
\* to_floor starts as 0 and state as WAITING.
PassengersInit ==
  \E f \in [Passengers -> Floors] :
    passengers = [p \in Passengers |->
                    [from_floor |-> f[p], to_floor |-> 0, at_floor |-> f[p],
                     in_elevator |-> NoElevator, state |-> "WAITING"]]

BuildingInit == ElevatorsInit /\ PassengersInit

-----------------------------------------------------------------------------
(* The checks.  One that fails logs a VIOLATION and exits the process.     *)

CapacityOK(e) == elevators[e].passengers \in 0 .. MAX_CAPACITY

MoveAllowed(e) ==
  CapacityOK(e) /\ ~elevators[e].open /\ elevators[e].floor \in Floors

OpenAllowed(e) == CapacityOK(e) /\ ~elevators[e].open

CloseAllowed(e) == CapacityOK(e) /\ elevators[e].open

EnterAllowed(p, e) ==
  /\ passengers[p].from_floor = elevators[e].floor
  /\ elevators[e].open
  /\ elevators[e].passengers # MAX_CAPACITY
  /\ passengers[p].state = "WAITING"

ExitAllowed(p, e) ==
  /\ passengers[p].in_elevator = e
  /\ passengers[p].to_floor = elevators[e].floor
  /\ elevators[e].open
  /\ passengers[p].state = "ENTERED"

\* start_passenger compares the two floors when passenger_request returns.
ReturnAllowed(p) == passengers[p].at_floor = passengers[p].to_floor

-----------------------------------------------------------------------------
(* The state changes.                                                      *)

MoveBy(e, direction) ==
  /\ elevators' = [elevators EXCEPT ![e].floor = @ + direction]
  /\ UNCHANGED passengers

SetDoor(e, isOpen) ==
  /\ elevators' = [elevators EXCEPT ![e].open = isOpen]
  /\ UNCHANGED passengers

Enter(p, e) ==
  /\ elevators' = [elevators EXCEPT ![e].passengers = @ + 1]
  /\ passengers' = [passengers EXCEPT ![p].in_elevator = e,
                                      ![p].state = "ENTERED"]

\* Slip: the passenger leaves without being put down on the floor.
ExitNowhere(p, e) ==
  /\ elevators' = [elevators EXCEPT ![e].passengers = @ - 1]
  /\ passengers' = [passengers EXCEPT ![p].in_elevator = NoElevator,
                                      ![p].state = "EXITED"]

Exit(p, e) ==
  /\ elevators' = [elevators EXCEPT ![e].passengers = @ - 1]
  /\ passengers' = [passengers EXCEPT ![p].in_elevator = NoElevator,
                                      ![p].at_floor = elevators[e].floor,
                                      ![p].state = "EXITED"]

\* A new trip: any destination but the floor the passenger is on.
NewTrip(p) ==
  /\ \E dest \in Floors \ {passengers[p].from_floor} :
       passengers' = [passengers EXCEPT ![p].to_floor = dest,
                                        ![p].state = "WAITING"]
  /\ UNCHANGED elevators

EndTrip(p) ==
  /\ passengers' = [passengers EXCEPT ![p].from_floor = passengers[p].to_floor]
  /\ UNCHANGED elevators
=============================================================================
