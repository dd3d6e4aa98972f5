---------------------------- MODULE SchedulerInv ----------------------------
(***************************************************************************)
(* The inductive invariant behind the safety of Scheduler.                 *)
(*                                                                         *)
(* The list may lose nodes and may be corrupted; the ride does not care.   *)
(* What makes a ride safe is that a node is claimed by one elevator, once, *)
(* and that from then on the two sides walk through the five semaphores    *)
(* in step.  RiderStage counts the passenger's semaphore operations on a   *)
(* node, CarrierStage the elevator's; each semaphore is their difference.  *)
(***************************************************************************)
EXTENDS Scheduler

\* A passenger on a trip has a request, and once it has learnt its elevator
\* the request keeps it.
Learned == {"enter", "enterAgain", "enterApply", "on", "unload", "exit",
            "exitAgain", "exitApply", "off"}

Started ==
  \A p \in Passengers :
    /\ ppc[p] \notin {"idle", "end"} => trip[p] >= 1
    /\ ppc[p] \in Learned => node[Req(p)].elevatorId \in Elevators

RiderStage(n) ==
  LET p == n[1] IN
  IF n[2] > trip[p] THEN 0
  ELSE IF n[2] < trip[p] THEN 5
  ELSE CASE ppc[p] \in {"return", "idle", "end"}                    -> 5
         [] ppc[p] \in {"exit", "exitAgain", "exitApply", "off"}    -> 4
         [] ppc[p] = "unload"                                       -> 3
         [] ppc[p] \in {"spin", "enter", "enterAgain", "enterApply", "on"} -> 2
         [] ppc[p] = "board"                                        -> 1
         [] OTHER                                                   -> 0

\* Each leg of a ride waits for the passenger between two operations.
ElevatorStage(e) ==
  LET base == IF leg[e] = "pickup" THEN 1 ELSE 3 IN
  CASE epc[e] = "pickup"                          -> 0
    [] epc[e] = "await"                           -> base + 1
    [] epc[e] \in {"close", "closeApply", "remove"} -> base + 2
    [] OTHER                                      -> base

CarrierStage(n) ==
  LET e == node[n].elevatorId IN
  IF e = NoElevator THEN 0
  ELSE IF Serving(e) /\ cur[e] = n THEN ElevatorStage(e) ELSE 5

Past(stage, k) == IF stage >= k THEN 1 ELSE 0

\* Each semaphore holds what one side has posted and the other not yet taken.
Handshake ==
  \A n \in Nodes :
    LET r == RiderStage(n)
        c == CarrierStage(n) IN
    /\ sem[n]["passenger_ready_s"]        = Past(r, 1) - Past(c, 1)
    /\ sem[n]["elevator_boarding_s"]      = Past(c, 2) - Past(r, 2)
    /\ sem[n]["passenger_on_s"]           = Past(r, 3) - Past(c, 3)
    /\ sem[n]["elevator_unloading_s"]     = Past(c, 4) - Past(r, 4)
    /\ sem[n]["passenger_off_elevator_s"] = Past(r, 5) - Past(c, 5)

\* A serving elevator's request names it; the ride starts with the way to
\* the passenger and ends after the way with the passenger.
Claims == \A e \in Elevators :
  Serving(e) => cur[e] \in Nodes /\ node[cur[e]].elevatorId = e

Legs == \A e \in Elevators :
  /\ epc[e] = "pickup" => leg[e] = "pickup"
  /\ epc[e] = "remove" => leg[e] = "deliver"

\* lock_for_elevator_s is a lock once the barrier has opened, and closed
\* to everyone before.
ElevatorCS ==
  {"peek", "walk", "take", "remHead", "remHeadSet", "remClear", "remFree",
   "remWalk", "remMatch", "remSet", "remSkip"}

Mutex ==
  /\ lock_for_elevator_s \in {0, 1}
  /\ waiting < Limit \/ lock_for_elevator_s = 1 =>
       \A e \in Elevators : epc[e] \notin ElevatorCS
  /\ waiting < Limit => lock_for_elevator_s = 0
  /\ \A d, e \in Elevators :
       epc[d] \in ElevatorCS /\ epc[e] \in ElevatorCS => d = e

\* Exactly the requests already made are allocated, pointers lead to them,
\* and the request an elevator is about to claim is unclaimed.
Made(n) ==
  LET p == n[1] IN n[2] < trip[p] \/ (n[2] = trip[p] /\ ppc[p] # "request")

Pointers ==
  /\ \A n \in Nodes :
       /\ ~Made(n) => node[n] = Unallocated
       /\ Made(n) => node[n].status # "none"
       /\ node[n].next # NULL => Made(node[n].next)
  /\ headOfRequests # NULL => Made(headOfRequests)
  /\ \A p \in Passengers : pptr[p] # NULL => Made(pptr[p])
  /\ \A e \in Elevators :
       /\ eptr[e] # NULL => Made(eptr[e])
       /\ prev[e] # NULL => Made(prev[e])
       /\ nxt[e] # NULL => Made(nxt[e])
       /\ epc[e] = "take" =>
            eptr[e] \in Nodes /\ node[eptr[e]].elevatorId = NoElevator

\* The passenger's record and its request say the same, and its state, place
\* and elevator are where its thread is.
Waiting == {"request", "addTest", "addHead", "addWalk", "addStep", "addLink",
            "barrier", "pass", "board", "spin", "enter", "enterAgain", "enterApply"}
Riding  == {"on", "unload", "exit", "exitAgain", "exitApply"}

Trips ==
  \A p \in Passengers :
    LET q == passengers[p] IN
    /\ ppc[p] \notin {"idle", "end"} => q.from_floor # q.to_floor
    /\ ppc[p] \notin {"idle", "end", "request"} =>
         /\ node[Req(p)].from_floor = q.from_floor
         /\ node[Req(p)].to_floor = q.to_floor
    /\ ppc[p] \in Waiting => q.state = "WAITING"
    /\ ppc[p] \in Riding => q.state = "ENTERED"
    /\ q.in_elevator = IF ppc[p] \in Riding THEN node[Req(p)].elevatorId
                                            ELSE NoElevator
    /\ ppc[p] \in Waiting \cup Riding => q.at_floor = q.from_floor
    /\ ppc[p] \in {"off", "return"} => q.at_floor = q.to_floor
    /\ ppc[p] \in {"idle", "end"} =>
         q.at_floor = q.from_floor /\ (trip[p] > 0 => q.to_floor = q.at_floor)

\* Where an elevator is on its way, and whether its door is open.
Target(e) == IF leg[e] = "pickup" THEN node[cur[e]].from_floor
                                  ELSE node[cur[e]].to_floor

Doors ==
  \A e \in Elevators :
    /\ elevators[e].floor \in Floors
    /\ elevators[e].open <=> epc[e] \in {"signal", "await", "close", "closeApply"}
    /\ epc[e] = "plan" /\ leg[e] = "deliver" =>
         elevators[e].floor = node[cur[e]].from_floor
    /\ epc[e] \in {"move", "moveAgain", "moveApply"} =>
         dist[e] # 0 /\ elevators[e].floor + dist[e] = Target(e)
    /\ epc[e] \in {"open", "openAgain", "openApply", "signal", "await",
                   "close", "closeApply"} => elevators[e].floor = Target(e)

\* elevators[].passengers counts the one passenger that may be inside.
Load ==
  \A e \in Elevators :
    elevators[e].passengers =
      IF \E p \in Passengers : passengers[p].in_elevator = e THEN 1 ELSE 0

IInv == TypeOK /\ Started /\ Mutex /\ Claims /\ Legs /\ Pointers /\ Handshake /\ Trips /\ Doors
          /\ Load /\ NoViolation
=============================================================================
