------------------------------ MODULE Service ------------------------------
(***************************************************************************)
(* What elevator.h promises of passenger_request: "return only when the    *)
(* passenger is delivered to requested floor".  No list, no semaphores, no *)
(* doors: a passenger asks for a floor, rides in one elevator, alone, and  *)
(* gets off at the floor asked for.  hw5.c gives every elevator one        *)
(* request at a time, so this is stricter than MAX_CAPACITY.               *)
(***************************************************************************)
CONSTANTS Passengers, Elevators, Floors, NoElevator

VARIABLES
  at,      \* the floor a passenger was last seen on
  dest,    \* the floor it wants to be on
  aboard   \* the elevator it rides in, or NoElevator

svars == <<at, dest, aboard>>

Init ==
  /\ at \in [Passengers -> Floors]
  /\ dest = at
  /\ aboard = [p \in Passengers |-> NoElevator]

Request(p) ==
  /\ at[p] = dest[p]
  /\ \E f \in Floors \ {at[p]} : dest' = [dest EXCEPT ![p] = f]
  /\ UNCHANGED <<at, aboard>>

Board(p, e) ==
  /\ at[p] # dest[p] /\ aboard[p] = NoElevator
  /\ \A q \in Passengers : aboard[q] # e
  /\ aboard' = [aboard EXCEPT ![p] = e]
  /\ UNCHANGED <<at, dest>>

Alight(p) ==
  /\ aboard[p] # NoElevator
  /\ aboard' = [aboard EXCEPT ![p] = NoElevator]
  /\ at' = [at EXCEPT ![p] = dest[p]]
  /\ UNCHANGED dest

Next ==
  \E p \in Passengers :
    \/ Request(p) \/ Alight(p)
    \/ \E e \in Elevators : Board(p, e)

Spec == Init /\ [][Next]_svars
=============================================================================
