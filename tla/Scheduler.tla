----------------------------- MODULE Scheduler -----------------------------
(***************************************************************************)
(* The elevator scheduler of hw5: hw5/hw5.c with the passenger, elevator   *)
(* and main threads of hw5/main.c that drive it.                           *)
(*                                                                         *)
(* A request is a heap node, named <<passenger, trip>>.  passenger_request *)
(* appends it to the linked list under lock_for_request_s; elevator_ready  *)
(* claims the first unclaimed node and later unlinks and frees it, both    *)
(* under the OTHER lock, lock_for_elevator_s.  The ride in between is a    *)
(* hand-shake on the five semaphores of the node.                          *)
(*                                                                         *)
(* A step is one critical section of main.c, one semaphore operation, or   *)
(* one access to a list field another thread may write meanwhile.  The     *)
(* outcome of a bad access is that of the build under test (runtests.sh    *)
(* compiles with -fsanitize=address): NULL stops the process, and so does  *)
(* reading or writing a field of a freed node; semaphores of a freed node  *)
(* are not instrumented and still work.  requestID, the log, the clock and *)
(* the globals nobody reads (passenger_in_elevator...) are left out.       *)
(***************************************************************************)
EXTENDS Building, FiniteSets

CONSTANTS
  TRIPS_PER_PASSENGER,
  NULL               \* the null pointer

ASSUME SchedulerAssumption ==
  /\ IsFiniteSet(Passengers)
  /\ TRIPS_PER_PASSENGER \in Nat
  /\ NULL \notin Passengers \X (1 .. TRIPS_PER_PASSENGER)

VARIABLES
  headOfRequests,      \* the list: its head and the nodes of the heap
  node,
  sem,                 \* the five semaphores of each node
  lock_for_request_s, lock_for_elevator_s, last_elevator_s,
  waiting, is_open,    \* the passengers' barrier B
  ppc, pptr, trip,     \* a passenger: where it is, addRequest's pointer, trips
  epc, leg, cur, dist, \* an elevator: where it is, currentRequest, the steps
                       \* move_elevator still has to make (signed)
  eptr, prev, nxt,     \* an elevator's pointers while it walks the list
  stop,                \* main.c: set when every passenger has finished
  fault                \* why the process died

listVars == <<headOfRequests, node>>
locks    == <<lock_for_request_s, lock_for_elevator_s>>
gates    == <<last_elevator_s, waiting, is_open>>
pvars    == <<ppc, pptr, trip>>
ride     == <<leg, cur, dist>>
walk     == <<eptr, prev, nxt>>
proc     == <<stop, fault>>
vars     == <<bvars, listVars, sem, locks, gates, pvars, epc, ride, walk, proc>>

Nodes == Passengers \X (1 .. TRIPS_PER_PASSENGER)

Semaphores == {"passenger_ready_s", "elevator_boarding_s", "passenger_on_s",
               "elevator_unloading_s", "passenger_off_elevator_s"}

Limit == Cardinality(Passengers)       \* of the barrier

NoPosts == [s \in Semaphores |-> 0]

Unallocated == [status |-> "none", from_floor |-> 0, to_floor |-> 0,
                elevatorId |-> NoElevator, next |-> NULL]

Req(p) == <<p, trip[p]>>               \* passenger_request's currentRequest

PassengerPC ==
  {"idle", "request", "addTest", "addHead", "addWalk", "addStep", "addLink",
   "barrier", "pass", "board", "spin", "enter", "enterAgain", "enterApply",
   "on", "unload", "exit", "exitAgain", "exitApply", "off", "return", "end"}

ElevatorPC ==
  {"loop", "grab", "peek", "walk", "take", "last", "pickup", "plan",
   "move", "moveAgain", "moveApply", "open", "openAgain", "openApply",
   "signal", "await", "close", "closeApply",
   "remove", "remHead", "remHeadSet", "remClear", "remFree", "remWalk",
   "remMatch", "remSet", "remSkip", "check", "end"}

Init ==
  /\ BuildingInit
  /\ headOfRequests = NULL
  /\ node = [n \in Nodes |-> Unallocated]
  /\ sem = [n \in Nodes |-> NoPosts]
  /\ lock_for_request_s = 1 /\ lock_for_elevator_s = 0 /\ last_elevator_s = 0
  /\ waiting = 0 /\ is_open = 0
  /\ ppc = [p \in Passengers |-> "idle"]
  /\ pptr = [p \in Passengers |-> NULL]
  /\ trip = [p \in Passengers |-> 0]
  /\ epc = [e \in Elevators |-> "loop"]
  /\ leg = [e \in Elevators |-> "pickup"]
  /\ cur = [e \in Elevators |-> NULL]
  /\ dist = [e \in Elevators |-> 0]
  /\ eptr = [e \in Elevators |-> NULL]
  /\ prev = [e \in Elevators |-> NULL]
  /\ nxt = [e \in Elevators |-> NULL]
  /\ stop = FALSE /\ fault = "none"

-----------------------------------------------------------------------------
(* What the next instruction of a thread touches, and the check it makes.  *)

PTouches(p) ==
  CASE ppc[p] \in {"addWalk", "addStep", "addLink"} -> {pptr[p]}
    [] ppc[p] = "spin"                              -> {Req(p)}
    [] OTHER                                        -> {}

PCheck(p) ==
  /\ ppc[p] \in {"enter", "enterAgain"} =>
       EnterAllowed(p, node[Req(p)].elevatorId)
  /\ ppc[p] \in {"exit", "exitAgain"} =>
       ExitAllowed(p, node[Req(p)].elevatorId)
  /\ ppc[p] = "return" => ReturnAllowed(p)

ETouches(e) ==
  CASE epc[e] = "peek"                        -> {headOfRequests}
    [] epc[e] = "walk"                        -> {eptr[e]} \ {NULL}
    [] epc[e] = "plan"                        -> {cur[e]}
    [] epc[e] = "remHead"                     -> {cur[e]} \cup
                                                 ({headOfRequests} \ {NULL})
    [] epc[e] \in {"take", "remClear", "remWalk", "remMatch"}
                                              -> {eptr[e]}
    [] epc[e] \in {"remSet", "remSkip"}       -> {prev[e]}
    [] OTHER                                  -> {}

ECheck(e) ==
  /\ epc[e] \in {"move", "moveAgain"} => MoveAllowed(e)
  /\ epc[e] \in {"open", "openAgain"} => OpenAllowed(e)
  /\ epc[e] = "close" => CloseAllowed(e)

\* NULL first, then freed memory, then the enforcement system.
Verdict(touched, allowed) ==
  IF NULL \in touched THEN "null"
  ELSE IF \E n \in touched : node[n].status = "freed" THEN "uaf"
  ELSE IF ~allowed THEN "violation" ELSE "none"

PVerdict(p) == Verdict(PTouches(p), PCheck(p))
EVerdict(e) == Verdict(ETouches(e), ECheck(e))

\* The process dies: SIGSEGV, the sanitizer, or exit(1) after a VIOLATION.
Abort(verdict) ==
  /\ fault = "none" /\ verdict # "none"
  /\ fault' = verdict
  /\ UNCHANGED <<bvars, listVars, sem, locks, gates, pvars, epc, ride, walk, stop>>

PStep(p, from, to) ==
  /\ fault = "none" /\ ppc[p] = from /\ PVerdict(p) = "none"
  /\ ppc' = [ppc EXCEPT ![p] = to]
  /\ UNCHANGED <<epc, ride, walk, proc>>

EStep(e, from, to) ==
  /\ fault = "none" /\ epc[e] = from /\ EVerdict(e) = "none"
  /\ epc' = [epc EXCEPT ![e] = to]
  /\ UNCHANGED <<pvars, proc>>

Post(n, s) == sem' = [sem EXCEPT ![n][s] = @ + 1]

Wait(n, s) == sem[n][s] > 0 /\ sem' = [sem EXCEPT ![n][s] = @ - 1]

-----------------------------------------------------------------------------
(* A passenger thread: start_passenger and passenger_request.              *)

\* Slip: trips-- >= 0.
StartTripOnceMore(p) ==
  /\ PStep(p, "idle", "request")
  /\ ~stop /\ trip[p] <= TRIPS_PER_PASSENGER
  /\ NewTrip(p)
  /\ trip' = [trip EXCEPT ![p] = @ + 1]
  /\ UNCHANGED <<listVars, sem, locks, gates, pptr>>

StartTrip(p) ==
  /\ PStep(p, "idle", "request")
  /\ ~stop /\ trip[p] < TRIPS_PER_PASSENGER
  /\ NewTrip(p)
  /\ trip' = [trip EXCEPT ![p] = @ + 1]
  /\ UNCHANGED <<listVars, sem, locks, gates, pptr>>

EndPassenger(p) ==
  /\ PStep(p, "idle", "end")
  /\ stop \/ trip[p] = TRIPS_PER_PASSENGER
  /\ UNCHANGED <<bvars, listVars, sem, locks, gates, pptr, trip>>

\* Slip: addRequest's sem_wait is missing, its sem_post is not.
AddRequestUnlocked(p) ==
  /\ PStep(p, "request", "addTest")
  /\ node' = [node EXCEPT ![Req(p)] =
                [status |-> "live", from_floor |-> passengers[p].from_floor,
                 to_floor |-> passengers[p].to_floor,
                 elevatorId |-> NoElevator, next |-> NULL]]
  /\ sem' = [sem EXCEPT ![Req(p)] = NoPosts]
  /\ UNCHANGED <<bvars, headOfRequests, locks, gates, pptr, trip>>

AddRequest(p) ==
  /\ PStep(p, "request", "addTest")
  /\ lock_for_request_s > 0
  /\ lock_for_request_s' = lock_for_request_s - 1
  /\ node' = [node EXCEPT ![Req(p)] =
                [status |-> "live", from_floor |-> passengers[p].from_floor,
                 to_floor |-> passengers[p].to_floor,
                 elevatorId |-> NoElevator, next |-> NULL]]
  /\ sem' = [sem EXCEPT ![Req(p)] = NoPosts]
  /\ UNCHANGED <<bvars, headOfRequests, lock_for_elevator_s, gates, pptr, trip>>

\* Leaving addRequest: the list's end points to the new node, lock released.
AddDone(p) ==
  /\ lock_for_request_s' = lock_for_request_s + 1
  /\ UNCHANGED <<bvars, sem, lock_for_elevator_s, gates, pptr, trip>>

AddFirst(p) ==
  /\ PStep(p, "addTest", "barrier")
  /\ headOfRequests = NULL
  /\ headOfRequests' = Req(p)
  /\ AddDone(p)
  /\ UNCHANGED node

AddBehind(p) ==
  /\ PStep(p, "addTest", "addHead")
  /\ headOfRequests # NULL
  /\ UNCHANGED <<bvars, listVars, sem, locks, gates, pptr, trip>>

AddHead(p) ==
  /\ PStep(p, "addHead", "addWalk")
  /\ pptr' = [pptr EXCEPT ![p] = headOfRequests]
  /\ UNCHANGED <<bvars, listVars, sem, locks, gates, trip>>

\* `while(pointer->next != NULL) pointer = pointer->next` reads next twice.
AddWalk(p) ==
  /\ PStep(p, "addWalk", IF node[pptr[p]].next = NULL THEN "addLink" ELSE "addStep")
  /\ UNCHANGED <<bvars, listVars, sem, locks, gates, pptr, trip>>

AddStep(p) ==
  /\ PStep(p, "addStep", "addWalk")
  /\ pptr' = [pptr EXCEPT ![p] = node[pptr[p]].next]
  /\ UNCHANGED <<bvars, listVars, sem, locks, gates, trip>>

AddLink(p) ==
  /\ PStep(p, "addLink", "barrier")
  /\ node' = [node EXCEPT ![pptr[p]].next = Req(p)]
  /\ AddDone(p)
  /\ UNCHANGED headOfRequests

\* Slip: any arrival before the limit opens the elevators' lock.
BarrierEarly(p) ==
  /\ PStep(p, "barrier", "pass")
  /\ waiting' = IF waiting < Limit THEN waiting + 1 ELSE waiting
  /\ IF waiting < Limit
     THEN /\ is_open' = is_open + 1
          /\ lock_for_elevator_s' = lock_for_elevator_s + 1
     ELSE UNCHANGED <<is_open, lock_for_elevator_s>>
  /\ UNCHANGED <<bvars, listVars, sem, lock_for_request_s, last_elevator_s, pptr, trip>>

\* The last passenger opens the barrier and, with it, the elevators' lock.
\* Once open it stays open: on later trips it only lets the caller through.
Barrier(p) ==
  /\ PStep(p, "barrier", "pass")
  /\ waiting' = IF waiting < Limit THEN waiting + 1 ELSE waiting
  /\ IF waiting < Limit /\ waiting + 1 = Limit
     THEN /\ is_open' = is_open + 1
          /\ lock_for_elevator_s' = lock_for_elevator_s + 1
     ELSE UNCHANGED <<is_open, lock_for_elevator_s>>
  /\ UNCHANGED <<bvars, listVars, sem, lock_for_request_s, last_elevator_s, pptr, trip>>

PassBarrier(p) ==
  /\ PStep(p, "pass", "board")
  /\ is_open > 0
  /\ Post(Req(p), "passenger_ready_s")
  /\ UNCHANGED <<bvars, listVars, locks, gates, pptr, trip>>

WaitToBoard(p) ==
  /\ PStep(p, "board", "spin")
  /\ Wait(Req(p), "elevator_boarding_s")
  /\ UNCHANGED <<bvars, listVars, locks, gates, pptr, trip>>

\* Busy-waits for an elevator id; the field is written once, so the local
\* copy elevatorid is the field itself.
LearnElevator(p) ==
  /\ PStep(p, "spin", "enter")
  /\ node[Req(p)].elevatorId # NoElevator
  /\ UNCHANGED <<bvars, listVars, sem, locks, gates, pptr, trip>>

\* A check that passes: passenger_enter and passenger_exit each make two.
PassengerCheck(p) ==
  /\ \/ PStep(p, "enter", "enterAgain")
     \/ PStep(p, "enterAgain", "enterApply")
     \/ PStep(p, "exit", "exitAgain")
     \/ PStep(p, "exitAgain", "exitApply")
  /\ UNCHANGED <<bvars, listVars, sem, locks, gates, pptr, trip>>

EnterElevator(p) ==
  /\ PStep(p, "enterApply", "on")
  /\ Enter(p, node[Req(p)].elevatorId)
  /\ UNCHANGED <<listVars, sem, locks, gates, pptr, trip>>

ReportOn(p) ==
  /\ PStep(p, "on", "unload")
  /\ Post(Req(p), "passenger_on_s")
  /\ UNCHANGED <<bvars, listVars, locks, gates, pptr, trip>>

WaitToUnload(p) ==
  /\ PStep(p, "unload", "exit")
  /\ Wait(Req(p), "elevator_unloading_s")
  /\ UNCHANGED <<bvars, listVars, locks, gates, pptr, trip>>

ExitElevator(p) ==
  /\ PStep(p, "exitApply", "off")
  /\ Exit(p, node[Req(p)].elevatorId)
  /\ UNCHANGED <<listVars, sem, locks, gates, pptr, trip>>

ReportOff(p) ==
  /\ PStep(p, "off", "return")
  /\ Post(Req(p), "passenger_off_elevator_s")
  /\ UNCHANGED <<bvars, listVars, locks, gates, pptr, trip>>

\* Back in start_passenger: the destination check, then from_floor = to_floor.
Return(p) ==
  /\ PStep(p, "return", "idle")
  /\ EndTrip(p)
  /\ UNCHANGED <<listVars, sem, locks, gates, pptr, trip>>

PNext(p) ==
  \/ StartTrip(p) \/ EndPassenger(p) \/ AddRequest(p) \/ AddFirst(p)
  \/ AddBehind(p) \/ AddHead(p) \/ AddWalk(p) \/ AddStep(p) \/ AddLink(p)
  \/ Barrier(p) \/ PassBarrier(p) \/ WaitToBoard(p) \/ LearnElevator(p)
  \/ PassengerCheck(p) \/ EnterElevator(p) \/ ReportOn(p) \/ WaitToUnload(p)
  \/ ExitElevator(p) \/ ReportOff(p) \/ Return(p) \/ Abort(PVerdict(p))

-----------------------------------------------------------------------------
(* An elevator thread: start_elevator and elevator_ready, grabbing first.  *)

Loop(e) ==
  /\ EStep(e, "loop", IF stop THEN "end" ELSE "grab")
  /\ UNCHANGED <<bvars, listVars, sem, locks, gates, ride, walk>>

\* Slip: the lock is tested but not taken.
LockForgotten(e) ==
  /\ lock_for_elevator_s > 0
  /\ UNCHANGED <<bvars, listVars, sem, locks, gates, ride, walk>>

Lock(e) ==
  /\ lock_for_elevator_s > 0
  /\ lock_for_elevator_s' = lock_for_elevator_s - 1
  /\ UNCHANGED <<bvars, listVars, sem, lock_for_request_s, gates, ride, walk>>

Grab(e) == EStep(e, "grab", "peek") /\ Lock(e)

Unlock ==
  /\ lock_for_elevator_s' = lock_for_elevator_s + 1
  /\ UNCHANGED <<bvars, sem, lock_for_request_s, gates>>

HeadIsLastAndTaken ==
  /\ node[headOfRequests].next = NULL
  /\ node[headOfRequests].elevatorId # NoElevator

PeekLast(e) ==
  /\ EStep(e, "peek", "last")
  /\ HeadIsLastAndTaken
  /\ Unlock
  /\ UNCHANGED <<listVars, ride, walk>>

\* Slip: the walk starts behind the head, which was only peeked at.
PeekBehind(e) ==
  /\ EStep(e, "peek", "walk")
  /\ ~HeadIsLastAndTaken
  /\ eptr' = [eptr EXCEPT ![e] = node[headOfRequests].next]
  /\ UNCHANGED <<bvars, listVars, sem, locks, gates, ride, prev, nxt>>

PeekMore(e) ==
  /\ EStep(e, "peek", "walk")
  /\ ~HeadIsLastAndTaken
  /\ eptr' = [eptr EXCEPT ![e] = headOfRequests]
  /\ UNCHANGED <<bvars, listVars, sem, locks, gates, ride, prev, nxt>>

WalkOff(e) ==
  /\ EStep(e, "walk", "last")
  /\ eptr[e] = NULL
  /\ Unlock
  /\ UNCHANGED <<listVars, ride, walk>>

WalkPast(e) ==
  /\ EStep(e, "walk", "walk")
  /\ eptr[e] # NULL /\ node[eptr[e]].elevatorId # NoElevator
  /\ eptr' = [eptr EXCEPT ![e] = node[eptr[e]].next]
  /\ UNCHANGED <<bvars, listVars, sem, locks, gates, ride, prev, nxt>>

WalkFound(e) ==
  /\ EStep(e, "walk", "take")
  /\ eptr[e] # NULL /\ node[eptr[e]].elevatorId = NoElevator
  /\ UNCHANGED <<bvars, listVars, sem, locks, gates, ride, walk>>

\* Slip: the leg of the last ride is left standing.
TakeSameLeg(e) ==
  /\ EStep(e, "take", "pickup")
  /\ node' = [node EXCEPT ![eptr[e]].elevatorId = e]
  /\ cur' = [cur EXCEPT ![e] = eptr[e]]
  /\ Unlock
  /\ UNCHANGED <<headOfRequests, leg, dist, walk>>

Take(e) ==
  /\ EStep(e, "take", "pickup")
  /\ node' = [node EXCEPT ![eptr[e]].elevatorId = e]
  /\ cur' = [cur EXCEPT ![e] = eptr[e]]
  /\ leg' = [leg EXCEPT ![e] = "pickup"]
  /\ Unlock
  /\ UNCHANGED <<headOfRequests, dist, walk>>

\* sem_wait and sem_post on last_elevator_s: a turnstile nobody closes again.
LastRemoved(e) ==
  /\ EStep(e, "last", "loop")
  /\ last_elevator_s > 0
  /\ UNCHANGED <<bvars, listVars, sem, locks, gates, ride, walk>>

-----------------------------------------------------------------------------
(* An elevator's ride: to the passenger, then with the passenger.          *)

WaitReady(e) ==
  /\ EStep(e, "pickup", "plan")
  /\ Wait(cur[e], "passenger_ready_s")
  /\ UNCHANGED <<bvars, listVars, locks, gates, ride, walk>>

\* Slip: the pickup goes to the passenger's destination.
DistanceToGoal(e) ==
  LET r == node[cur[e]] IN
  IF leg[e] = "pickup" THEN r.to_floor - elevators[e].floor
                       ELSE r.to_floor - r.from_floor

\* move_elevator(source, destination): pickup starts from the elevator's own
\* floor (at_floor, read when elevator_ready was called; no one else moves it).
Distance(e) ==
  LET r == node[cur[e]] IN
  IF leg[e] = "pickup" THEN r.from_floor - elevators[e].floor
                       ELSE r.to_floor - r.from_floor

Plan(e) ==
  /\ EStep(e, "plan", IF Distance(e) = 0 THEN "open" ELSE "move")
  /\ dist' = [dist EXCEPT ![e] = Distance(e)]
  /\ UNCHANGED <<bvars, listVars, sem, locks, gates, leg, cur, walk>>

\* A check that passes: moving and opening make two each, closing one.
ElevatorCheck(e) ==
  /\ \/ EStep(e, "move", "moveAgain")
     \/ EStep(e, "moveAgain", "moveApply")
     \/ EStep(e, "open", "openAgain")
     \/ EStep(e, "openAgain", "openApply")
     \/ EStep(e, "close", "closeApply")
  /\ UNCHANGED <<bvars, listVars, sem, locks, gates, ride, walk>>

Move(e) ==
  LET direction == IF dist[e] > 0 THEN 1 ELSE -1 IN
  /\ EStep(e, "moveApply", IF dist[e] = direction THEN "open" ELSE "move")
  /\ MoveBy(e, direction)
  /\ dist' = [dist EXCEPT ![e] = @ - direction]
  /\ UNCHANGED <<listVars, sem, locks, gates, leg, cur, walk>>

Open(e) ==
  /\ EStep(e, "openApply", "signal")
  /\ SetDoor(e, TRUE)
  /\ UNCHANGED <<listVars, sem, locks, gates, ride, walk>>

SignalPassenger(e) ==
  /\ EStep(e, "signal", "await")
  /\ Post(cur[e], IF leg[e] = "pickup" THEN "elevator_boarding_s"
                                       ELSE "elevator_unloading_s")
  /\ UNCHANGED <<bvars, listVars, locks, gates, ride, walk>>

\* Slip: the elevator closes its door without waiting.
AwaitNobody(e) ==
  /\ EStep(e, "await", "close")
  /\ UNCHANGED <<bvars, listVars, sem, locks, gates, ride, walk>>

AwaitPassenger(e) ==
  /\ EStep(e, "await", "close")
  /\ Wait(cur[e], IF leg[e] = "pickup" THEN "passenger_on_s"
                                       ELSE "passenger_off_elevator_s")
  /\ UNCHANGED <<bvars, listVars, locks, gates, ride, walk>>

\* Slip: elevator_ready returns after the pickup.
CloseAndForget(e) ==
  /\ EStep(e, "closeApply", "remove")
  /\ leg[e] = "pickup"
  /\ SetDoor(e, FALSE)
  /\ UNCHANGED <<listVars, sem, locks, gates, ride, walk>>

CloseBoarded(e) ==
  /\ EStep(e, "closeApply", "plan")
  /\ leg[e] = "pickup"
  /\ SetDoor(e, FALSE)
  /\ leg' = [leg EXCEPT ![e] = "deliver"]
  /\ UNCHANGED <<listVars, sem, locks, gates, cur, dist, walk>>

CloseDelivered(e) ==
  /\ EStep(e, "closeApply", "remove")
  /\ leg[e] = "deliver"
  /\ SetDoor(e, FALSE)
  /\ UNCHANGED <<listVars, sem, locks, gates, ride, walk>>

-----------------------------------------------------------------------------
(* removeRequest.  It finds the node by its contents, not by its address.  *)

LockToRemove(e) == EStep(e, "remove", "remHead") /\ Lock(e)

\* Slip: one request of the passenger is as good as another.
matchesPassenger(n, m) == n[1] = m[1]

matchesRequest(n, m) ==
  /\ n[1] = m[1]
  /\ node[n].from_floor = node[m].from_floor
  /\ node[n].to_floor = node[m].to_floor

\* The two ways out that find no node.
RemoveNothing == Unlock /\ UNCHANGED <<listVars, ride, walk>>

RemoveHeadFound(e) ==
  /\ EStep(e, "remHead", "remHeadSet")
  /\ headOfRequests # NULL /\ matchesRequest(headOfRequests, cur[e])
  /\ eptr' = [eptr EXCEPT ![e] = headOfRequests]
  /\ nxt' = [nxt EXCEPT ![e] = node[headOfRequests].next]
  /\ UNCHANGED <<bvars, listVars, sem, locks, gates, ride, prev>>

RemoveHeadSet(e) ==
  /\ EStep(e, "remHeadSet", "remClear")
  /\ headOfRequests' = nxt[e]
  /\ UNCHANGED <<bvars, node, sem, locks, gates, ride, walk>>

RemoveClear(e) ==
  /\ EStep(e, "remClear", "remFree")
  /\ node' = [node EXCEPT ![eptr[e]].next = NULL]
  /\ UNCHANGED <<bvars, headOfRequests, sem, locks, gates, ride, walk>>

RemoveOther(e) ==
  /\ EStep(e, "remHead", IF headOfRequests = NULL THEN "check" ELSE "remWalk")
  /\ headOfRequests # NULL => ~matchesRequest(headOfRequests, cur[e])
  /\ IF headOfRequests = NULL
     THEN RemoveNothing
     ELSE /\ eptr' = [eptr EXCEPT ![e] = headOfRequests]
          /\ prev' = [prev EXCEPT ![e] = headOfRequests]
          /\ UNCHANGED <<bvars, listVars, sem, locks, gates, ride, nxt>>

RemoveWalk(e) ==
  /\ EStep(e, "remWalk", IF node[eptr[e]].next = NULL THEN "check" ELSE "remMatch")
  /\ IF node[eptr[e]].next = NULL
     THEN RemoveNothing
     ELSE /\ eptr' = [eptr EXCEPT ![e] = node[@].next]
          /\ UNCHANGED <<bvars, listVars, sem, locks, gates, ride, prev, nxt>>

RemoveFound(e) ==
  /\ EStep(e, "remMatch", "remSet")
  /\ matchesRequest(eptr[e], cur[e])
  /\ nxt' = [nxt EXCEPT ![e] = node[eptr[e]].next]
  /\ UNCHANGED <<bvars, listVars, sem, locks, gates, ride, eptr, prev>>

\* Slip: what follows the removed node is dropped with it.
RemoveSetLosing(e) ==
  /\ EStep(e, "remSet", "remFree")
  /\ node' = [node EXCEPT ![prev[e]].next = NULL]
  /\ UNCHANGED <<bvars, headOfRequests, sem, locks, gates, ride, walk>>

RemoveSet(e) ==
  /\ EStep(e, "remSet", "remFree")
  /\ node' = [node EXCEPT ![prev[e]].next = nxt[e]]
  /\ UNCHANGED <<bvars, headOfRequests, sem, locks, gates, ride, walk>>

RemoveSkip(e) ==
  /\ \/ EStep(e, "remMatch", "remSkip") /\ ~matchesRequest(eptr[e], cur[e])
        /\ UNCHANGED prev
     \/ EStep(e, "remSkip", "remWalk")
        /\ prev' = [prev EXCEPT ![e] = node[@].next]
  /\ UNCHANGED <<bvars, listVars, sem, locks, gates, ride, eptr, nxt>>

RemoveFree(e) ==
  /\ EStep(e, "remFree", "check")
  /\ node' = [node EXCEPT ![eptr[e]].status = "freed"]
  /\ Unlock
  /\ UNCHANGED <<headOfRequests, ride, walk>>

\* Slip: nobody opens last_elevator_s.
CheckNothing(e) ==
  /\ EStep(e, "check", "loop")
  /\ UNCHANGED <<bvars, listVars, sem, locks, gates, ride, walk>>

\* After the lock is released: the head is read without it.
CheckEmpty(e) ==
  /\ EStep(e, "check", "loop")
  /\ last_elevator_s' = IF headOfRequests = NULL THEN last_elevator_s + 1
                                                 ELSE last_elevator_s
  /\ UNCHANGED <<bvars, listVars, sem, locks, waiting, is_open, ride, walk>>

ENext(e) ==
  \/ Loop(e) \/ Grab(e) \/ PeekLast(e) \/ PeekMore(e) \/ WalkOff(e)
  \/ WalkPast(e) \/ WalkFound(e) \/ Take(e) \/ LastRemoved(e) \/ WaitReady(e)
  \/ Plan(e) \/ ElevatorCheck(e) \/ Move(e) \/ Open(e) \/ SignalPassenger(e)
  \/ AwaitPassenger(e) \/ CloseBoarded(e) \/ CloseDelivered(e)
  \/ LockToRemove(e) \/ RemoveHeadFound(e) \/ RemoveHeadSet(e)
  \/ RemoveClear(e) \/ RemoveOther(e) \/ RemoveWalk(e) \/ RemoveFound(e)
  \/ RemoveSet(e) \/ RemoveSkip(e) \/ RemoveFree(e) \/ CheckEmpty(e)
  \/ Abort(EVerdict(e))

-----------------------------------------------------------------------------
\* main joins the passengers, then tells the elevators to stop.
Stop ==
  /\ fault = "none" /\ ~stop
  /\ \A p \in Passengers : ppc[p] = "end"
  /\ stop' = TRUE
  /\ UNCHANGED <<bvars, listVars, sem, locks, gates, pvars, epc, ride, walk, fault>>

\* The process is gone: it died, or main has joined every thread.
Halted ==
  /\ \/ fault # "none"
     \/ \A e \in Elevators : epc[e] = "end"
  /\ UNCHANGED vars

Next ==
  \/ \E p \in Passengers : PNext(p)
  \/ \E e \in Elevators : ENext(e)
  \/ Stop
  \/ Halted

Spec == Init /\ [][Next]_vars

\* Every thread the kernel can run is run: no thread has a priority, and no
\* lock is held across a blocking call.
Fairness ==
  /\ \A p \in Passengers : WF_vars(PNext(p))
  /\ \A e \in Elevators : WF_vars(ENext(e))
  /\ WF_vars(Stop)

FairSpec == Spec /\ Fairness

-----------------------------------------------------------------------------
(* Correctness.                                                            *)

NodeState ==
  [status : {"none", "live", "freed"}, from_floor : Floors, to_floor : Floors,
   elevatorId : Elevators \cup {NoElevator}, next : Nodes \cup {NULL}]

ListType ==
  /\ headOfRequests \in Nodes \cup {NULL}
  /\ node \in [Nodes -> NodeState]

SyncType ==
  /\ sem \in [Nodes -> [Semaphores -> Nat]]
  /\ lock_for_request_s \in Nat
  /\ lock_for_elevator_s \in Nat
  /\ last_elevator_s \in Nat
  /\ waiting \in 0 .. Limit
  /\ is_open \in Nat

PassengerType ==
  /\ ppc \in [Passengers -> PassengerPC]
  /\ pptr \in [Passengers -> Nodes \cup {NULL}]
  /\ trip \in [Passengers -> 0 .. TRIPS_PER_PASSENGER]

ElevatorType ==
  /\ epc \in [Elevators -> ElevatorPC]
  /\ leg \in [Elevators -> {"pickup", "deliver"}]
  /\ cur \in [Elevators -> Nodes \cup {NULL}]
  /\ dist \in [Elevators -> Int]
  /\ eptr \in [Elevators -> Nodes \cup {NULL}]
  /\ prev \in [Elevators -> Nodes \cup {NULL}]
  /\ nxt \in [Elevators -> Nodes \cup {NULL}]

ProcessType ==
  /\ stop \in BOOLEAN
  /\ fault \in {"none", "null", "uaf", "violation"}

\* Every variable keeps its type: pointers point to requests or are NULL, the
\* barrier never counts past its limit, nobody makes a trip too many.
TypeOK ==
  BuildingType /\ ListType /\ SyncType /\ PassengerType /\ ElevatorType /\ ProcessType

\* The enforcement system of main.c never finds a VIOLATION: whatever the
\* list does, no elevator moves with its door open or leaves the building and
\* no passenger walks into a wrong floor, a closed door or a full elevator.
NoViolation == fault # "violation"

\* Each callback of main.c checks, lets go of state_lock, and acts: what it
\* checked is still true when it acts (main.c:119-122, 149-152, 170-173,
\* 259-267, 318-328).
ChecksStillHold ==
  /\ \A p \in Passengers :
       /\ ppc[p] = "enterApply" => EnterAllowed(p, node[Req(p)].elevatorId)
       /\ ppc[p] = "exitApply" => ExitAllowed(p, node[Req(p)].elevatorId)
  /\ \A e \in Elevators :
       /\ epc[e] = "moveApply" => MoveAllowed(e)
       /\ epc[e] = "openApply" => OpenAllowed(e)
       /\ epc[e] = "closeApply" => CloseAllowed(e)

\* An elevator between taking a request and removing it.
RidePC ==
  {"pickup", "plan", "move", "moveAgain", "moveApply", "open", "openAgain",
   "openApply", "signal", "await", "close", "closeApply"}
Serving(e) == epc[e] \in RidePC \cup {"remove"}

\* A request is carried by one elevator at most, the one its node names, and
\* the two agree on it until the ride is over (hw5.c:333, read at 251).
SoleCarrier ==
  \A e \in Elevators : Serving(e) =>
    /\ node[cur[e]].elevatorId = e
    /\ \A d \in Elevators : Serving(d) /\ cur[d] = cur[e] => d = e

\* The nodes the list holds, from its head.
Listed ==
  LET R[k \in 0 .. Cardinality(Nodes)] ==
        IF k = 0 THEN {headOfRequests} \ {NULL}
        ELSE R[k-1] \cup ({node[n].next : n \in R[k-1]} \ {NULL})
  IN  R[Cardinality(Nodes)]

\* A request that was appended and that no elevator has claimed is in the
\* list, where an elevator will find it.
NoLostRequest ==
  \A p \in Passengers :
    ppc[p] \in {"barrier", "pass", "board"}
      /\ node[Req(p)].elevatorId = NoElevator => Req(p) \in Listed

\* addRequest "appends the request to the end of the linked list" (hw5.c:131).
AppendsToList ==
  [][\A p \in Passengers :
       ppc[p] # "barrier" /\ ppc'[p] = "barrier" => (Req(p) \in Listed)']_vars

\* First come, first served: a claimed request is never behind an unclaimed
\* one.
ClaimedInOrder ==
  \A m, n \in Listed :
    node[m].next = n /\ node[n].elevatorId # NoElevator
      => node[m].elevatorId # NoElevator

\* No two requests that were ever made are equal; no two that are allocated.
Contents(n) == <<n[1], node[n].from_floor, node[n].to_floor>>
Differ(S)   == \A m, n \in S : Contents(m) = Contents(n) => m = n
AllDiffer   == Differ({n \in Nodes : node[n].status # "none"})
LiveDiffer  == Differ({n \in Nodes : node[n].status = "live"})

\* removeRequest goes by contents (hw5.c:164-170, 199), and a passenger's next
\* request is linked behind nodes that are being removed: as long as no two
\* requests are equal, the one an elevator serves stays in the list, allocated,
\* until this elevator removes it.
ServedListed ==
  \A e \in Elevators : Serving(e) =>
    cur[e] \in Listed /\ node[cur[e]].status = "live"
ServedStaysListed == AllDiffer => ServedListed

\* And no elevator touches a freed node, though passengers may, or NULL, but
\* for the head of an empty list (hw5.c:297).
TouchedLive ==
  \A e \in Elevators : \A n \in ETouches(e) :
    IF n = NULL THEN epc[e] = "peek" ELSE node[n].status # "freed"
ElevatorsTouchLive == AllDiffer => TouchedLive

\* elevator_ready runs on an empty list when main has not yet set stop, and
\* dies at hw5.c:297.  With one trip each this can only be after everyone
\* has been delivered; and freed memory is never touched.
OnlyLateCrash ==
  /\ fault # "uaf"
  /\ fault = "null" => \A p \in Passengers : passengers[p].state = "EXITED"

\* hw5/runtests.sh:124 expects every program to terminate normally.
TerminatesNormally == fault # "null"

\* With one trip each everyone is delivered, and then the process ends, or dies:
\* nobody waits for ever, on a request's semaphores (hw5.c:240-262), on
\* last_elevator_s (hw5.c:302) or in pthread_join (main.c:480-485).
Ends ==
  <>(/\ \A p \in Passengers :
          passengers[p].state = "EXITED" /\ passengers[p].at_floor = passengers[p].to_floor
     /\ fault # "none" \/ \A e \in Elevators : epc[e] = "end")

\* The scheduler implements the service of elevator.h.
Promise == INSTANCE Service WITH
  at <- [p \in Passengers |-> passengers[p].at_floor],
  dest <- [p \in Passengers |-> IF trip[p] = 0 THEN passengers[p].at_floor
                                              ELSE passengers[p].to_floor],
  aboard <- [p \in Passengers |-> passengers[p].in_elevator]

DeliversAsPromised == Promise!Spec
=============================================================================
