--------------------------- MODULE SchedulerList ---------------------------
(***************************************************************************)
(* The list of Scheduler.  Appending and removing are under different      *)
(* locks.  When every passenger makes one trip, the barrier opens the      *)
(* elevators' lock when everyone has appended, so that they never meet:    *)
(* the list is at all times a sequence of live nodes, and each pointer     *)
(* into it is where its thread believes it to be (ListInv).  When          *)
(* passengers return they do meet, and requests get lost; what elevators   *)
(* hold of the list is sound all the same (RaceInv).                       *)
(***************************************************************************)
EXTENDS SchedulerInv, Sequences

OneTrip == TRIPS_PER_PASSENGER = 1

-----------------------------------------------------------------------------
(* How far a passenger is.                                                 *)

Adding == {"addTest", "addHead", "addWalk", "addStep", "addLink"}

\* Its request has been appended; it was counted by the barrier; it is where it
\* wanted to go, and no longer needs the request.
Filed(p)     == trip[p] = 1 /\ ppc[p] \notin {"request"} \cup Adding
Arrived(p)   == Filed(p) /\ ppc[p] # "barrier"
Delivered(p) == Filed(p) /\ ppc[p] \in {"return", "idle", "end"}

\* lock_for_request_s admits one passenger to the list.
Turns ==
  /\ lock_for_request_s = IF \E p \in Passengers : ppc[p] \in Adding THEN 0 ELSE 1
  /\ \A p, q \in Passengers : ppc[p] \in Adding /\ ppc[q] \in Adding => p = q

\* Nothing is claimed before the barrier has counted everyone.
Opening ==
  /\ waiting = Cardinality({p \in Passengers : Arrived(p)})
  /\ waiting < Limit =>
       /\ \A e \in Elevators : epc[e] \in {"loop", "grab", "end"}
       /\ \A n \in Nodes : node[n].elevatorId = NoElevator

Exited == \A p \in Passengers :
  Delivered(p) \/ ppc[p] = "off" => passengers[p].state = "EXITED"

-----------------------------------------------------------------------------
(* The list is the sequence s.                                             *)

Chain(s) ==
  /\ \A i, j \in DOMAIN s : s[i] = s[j] => i = j
  /\ headOfRequests = IF s = <<>> THEN NULL ELSE s[1]
  /\ \A i \in DOMAIN s :
       /\ node[s[i]].status = "live"
       /\ node[s[i]].next = IF i = Len(s) THEN NULL ELSE s[i + 1]

\* It holds the requests of those who are not delivered.
Members(s) ==
  /\ \A i \in DOMAIN s : Filed(s[i][1])
  /\ \A p \in Passengers : Filed(p) /\ ~Delivered(p) => \E i \in DOMAIN s : s[i] = Req(p)

\* Requests are claimed from the front.
Order(s) ==
  \A i, j \in DOMAIN s :
    i < j /\ node[s[j]].elevatorId # NoElevator => node[s[i]].elevatorId # NoElevator

\* Where addRequest is.
Appending(s) ==
  \A p \in Passengers :
    /\ ppc[p] \in Adding => node[Req(p)].status = "live" /\ node[Req(p)].next = NULL
    /\ ppc[p] \in Adding \ {"addTest"} => s # <<>>
    /\ ppc[p] = "addWalk" => \E i \in DOMAIN s : pptr[p] = s[i]
    /\ ppc[p] = "addStep" => \E i \in DOMAIN s : pptr[p] = s[i] /\ i # Len(s)
    /\ ppc[p] = "addLink" => pptr[p] = s[Len(s)]

\* Where an elevator looking for work is: whatever it has passed is claimed.
Looking(s, e) ==
  /\ epc[e] = "walk" /\ eptr[e] = NULL =>
       \A i \in DOMAIN s : node[s[i]].elevatorId # NoElevator
  /\ epc[e] = "take" \/ (epc[e] = "walk" /\ eptr[e] # NULL) =>
       \E i \in DOMAIN s :
         /\ eptr[e] = s[i]
         /\ \A j \in 1 .. i - 1 : node[s[j]].elevatorId # NoElevator

RemovePC == {"remHead", "remHeadSet", "remClear", "remFree", "remWalk",
             "remMatch", "remSet", "remSkip"}

Unlinked == {"remClear", "remFree"}

\* The request an elevator has claimed stays listed until it unlinks it itself,
\* which it does when the passenger is off.
Keeping(s, e) ==
  Serving(e) \/ epc[e] \in RemovePC =>
    /\ cur[e] \in Nodes /\ node[cur[e]].elevatorId = e
    /\ epc[e] \notin Unlinked => \E i \in DOMAIN s : s[i] = cur[e]
    /\ epc[e] \in Unlinked =>
         /\ eptr[e] = cur[e] /\ node[cur[e]].status = "live"
         /\ \A i \in DOMAIN s : s[i] # cur[e]
    /\ epc[e] \in RemovePC => Delivered(cur[e][1])

\* Where removeRequest is: prev and pointer are neighbours, and the request is
\* not behind them.
Removing(s, e) ==
  /\ epc[e] = "remHeadSet" =>
       s # <<>> /\ s[1] = cur[e] /\ eptr[e] = cur[e] /\ nxt[e] = node[cur[e]].next
  /\ epc[e] = "remWalk" =>
       \E i, j \in DOMAIN s : i < j /\ s[j] = cur[e] /\ prev[e] = s[i] /\ eptr[e] = s[i]
  /\ epc[e] \in {"remMatch", "remSkip", "remSet"} =>
       \E i, j \in DOMAIN s :
         /\ i < j /\ s[j] = cur[e] /\ prev[e] = s[i] /\ eptr[e] = s[i + 1]
         /\ epc[e] = "remSkip" => j # i + 1
         /\ epc[e] = "remSet" => j = i + 1 /\ nxt[e] = node[cur[e]].next

AtWork(s, e) == Looking(s, e) /\ Keeping(s, e) /\ Removing(s, e)

ListAt(s) ==
  /\ Chain(s) /\ Members(s) /\ Order(s) /\ Appending(s)
  /\ \A e \in Elevators : AtWork(s, e)

Lists == UNION {[1 .. k -> Nodes] : k \in 0 .. Cardinality(Nodes)}

ListInv ==
  /\ Turns /\ Opening /\ Exited
  /\ \E s \in Lists : ListAt(s)

-----------------------------------------------------------------------------
(* The list when passengers return.  Requests get lost then, but only ones *)
(* that are unclaimed: an append that meets a removal adds its node behind *)
(* one that goes, and the elevator that removes it is the only one that    *)
(* looks at the list meanwhile.                                            *)

\* addRequest is anywhere, in the list or among nodes that have left it; what
\* it links its node behind is the last in the list, or not in the list.
Joining(s) ==
  \A p \in Passengers :
    /\ ppc[p] \in Adding =>
         /\ node[Req(p)].status = "live" /\ node[Req(p)].next = NULL
         /\ node[Req(p)].elevatorId = NoElevator
         /\ \A i \in DOMAIN s : s[i] # Req(p)
    /\ ppc[p] = "addLink" => \A i \in DOMAIN s : pptr[p] = s[i] => i = Len(s)

Seeking(s, e) ==
  epc[e] = "take" \/ (epc[e] = "walk" /\ eptr[e] # NULL) =>
    \E i \in DOMAIN s : eptr[e] = s[i]

Holding(s, e) ==
  Serving(e) \/ epc[e] \in RemovePC =>
    /\ cur[e] \in Nodes /\ node[cur[e]].elevatorId = e
    /\ epc[e] \notin Unlinked => \E i \in DOMAIN s : s[i] = cur[e]
    /\ epc[e] \in Unlinked =>
         /\ eptr[e] = cur[e] /\ node[cur[e]].status = "live"
         /\ \A i \in DOMAIN s : s[i] # cur[e]

\* removeRequest has read the next field of the node at j.  If it was NULL, what
\* has been appended since is about to be lost.
HasNext(s, j, e) ==
  IF nxt[e] = NULL
  THEN \A k \in DOMAIN s : k > j => node[s[k]].elevatorId = NoElevator
  ELSE nxt[e] = node[s[j]].next

Leaving(s, e) ==
  /\ epc[e] = "remHeadSet" =>
       s # <<>> /\ s[1] = cur[e] /\ eptr[e] = cur[e] /\ HasNext(s, 1, e)
  /\ epc[e] = "remWalk" =>
       \E i, j \in DOMAIN s : i < j /\ s[j] = cur[e] /\ prev[e] = s[i] /\ eptr[e] = s[i]
  /\ epc[e] \in {"remMatch", "remSkip", "remSet"} =>
       \E i, j \in DOMAIN s :
         /\ i < j /\ s[j] = cur[e] /\ prev[e] = s[i] /\ eptr[e] = s[i + 1]
         /\ epc[e] = "remSkip" => j # i + 1
         /\ epc[e] = "remSet" => j = i + 1 /\ HasNext(s, j, e)

OnList(s, e) == Seeking(s, e) /\ Holding(s, e) /\ Leaving(s, e)

RaceAt(s) ==
  /\ Chain(s) /\ Joining(s)
  /\ \A e \in Elevators : OnList(s, e)

ListSound == \E s \in Lists : RaceAt(s)

RaceInv == Turns /\ (AllDiffer => ListSound)
=============================================================================
