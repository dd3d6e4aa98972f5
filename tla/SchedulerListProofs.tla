------------------------ MODULE SchedulerListProofs ------------------------
(***************************************************************************)
(* The list of Scheduler when every passenger makes one trip: it is at all *)
(* times the sequence SchedulerList says, so no request is lost, requests  *)
(* are claimed in the order of the list, and no pointer is followed that   *)
(* is NULL or dangling, but for the peek at an empty list when everyone    *)
(* has been delivered.                                                     *)
(***************************************************************************)
EXTENDS SchedulerList, SchedulerProofs, FiniteSetTheorems, WellFoundedInduction

\* NULL is no request, and there are finitely many requests.
LEMMA NodesFinite ==
  IsFiniteSet(Nodes) /\ Cardinality(Nodes) \in Nat /\ NULL \notin Nodes
  <1>1. IsFiniteSet(1 .. TRIPS_PER_PASSENGER)
    BY SchedulerAssumption, FS_Interval
  <1>2. IsFiniteSet(Nodes)
    BY <1>1, SchedulerAssumption, FS_Product DEF Nodes
  <1> QED
    BY <1>2, SchedulerAssumption, FS_CardinalityType DEF Nodes

\* A member of Lists is a function on 1 .. Len(s).
LEMMA ListFacts ==
  ASSUME NEW s \in Lists
  PROVE  /\ Len(s) \in Nat /\ Len(s) <= Cardinality(Nodes)
         /\ DOMAIN s = 1 .. Len(s)
         /\ s \in [1 .. Len(s) -> Nodes] /\ s \in Seq(Nodes)
         /\ s = <<>> <=> Len(s) = 0
  <1>1. PICK k \in 0 .. Cardinality(Nodes) : s \in [1 .. k -> Nodes]
    BY DEF Lists
  <1>2. k \in Nat /\ k <= Cardinality(Nodes)
    BY NodesFinite
  <1>3. s \in Seq(Nodes) /\ Len(s) = k
    BY <1>1, <1>2
  <1> QED
    BY <1>1, <1>2, <1>3

\* A list without repetitions fits into Lists.
LEMMA ListBound ==
  ASSUME NEW s \in Seq(Nodes), \A i, j \in DOMAIN s : s[i] = s[j] => i = j
  PROVE  s \in Lists
  <1>1. Len(s) \in Nat /\ DOMAIN s = 1 .. Len(s) /\ s \in [1 .. Len(s) -> Nodes]
    OBVIOUS
  <1>2. s \in Injection(1 .. Len(s), Nodes)
    BY <1>1 DEF Injection, IsInjective
  <1>3. Cardinality(1 .. Len(s)) <= Cardinality(Nodes)
    BY <1>2, NodesFinite, FS_Injection
  <1>4. Len(s) <= Cardinality(Nodes)
    BY <1>1, <1>3, FS_Interval, NodesFinite
  <1> QED
    BY <1>1, <1>4, NodesFinite DEF Lists

-----------------------------------------------------------------------------

\* The least-number principle, for a set instead of a predicate.
LEMMA LeastNumber ==
  ASSUME NEW S \in SUBSET Nat, S # {}
  PROVE  \E k \in S : \A j \in S : k <= j
  <1>1. PICK k \in S : \A j \in S : <<j, k>> \notin OpToRel(<, Nat)
    BY NatLessThanWellFounded, WFMin
  <1>2. ASSUME NEW j \in S PROVE ~(j < k)
    BY <1>1 DEF OpToRel
  <1> QED
    BY <1>2

\* Listed, which follows the pointers, finds exactly the nodes of the list.
LEMMA ListedIs ==
  ASSUME NEW s \in Lists, Chain(s)
  PROVE  Listed = {s[i] : i \in DOMAIN s}
  <1> DEFINE N == Cardinality(Nodes)
             Step(R, k) == IF k = 0 THEN {headOfRequests} \ {NULL}
                           ELSE R[k-1] \cup ({node[n].next : n \in R[k-1]} \ {NULL})
             Upto(k) == {s[i] : i \in {j \in DOMAIN s : j <= k + 1}}
             F == [k \in 0 .. N |-> Upto(k)]
             G == CHOOSE R : R = [k \in 0 .. N |-> Step(R, k)]
  <1>1. Listed = G[N]
    BY DEF Listed
  <1>2. N \in Nat /\ Len(s) \in Nat /\ Len(s) <= N /\ DOMAIN s = 1 .. Len(s)
        /\ (\A i \in DOMAIN s : s[i] \in Nodes) /\ NULL \notin Nodes
        /\ (s = <<>> <=> Len(s) = 0)
    BY NodesFinite, ListFacts
  <1> HIDE DEF N
  <1>3. ASSUME NEW k \in 0 .. N, k > 0
        PROVE  Upto(k) = Upto(k-1) \cup ({node[n].next : n \in Upto(k-1)} \ {NULL})
    <2>1. k - 1 \in 0 .. N /\ k \in Nat
      BY <1>2, <1>3
    <2>2. ASSUME NEW i \in DOMAIN s
          PROVE  IF i = Len(s) THEN node[s[i]].next = NULL
                               ELSE i + 1 \in DOMAIN s /\ node[s[i]].next = s[i+1]
      BY <1>2 DEF Chain
    <2>3. ASSUME NEW x, x \in Upto(k)
          PROVE  x \in Upto(k-1) \cup ({node[n].next : n \in Upto(k-1)} \ {NULL})
      <3>1. PICK i \in DOMAIN s : i <= k + 1 /\ x = s[i]
        BY <2>3
      <3>2. CASE i <= k
        BY <3>1, <3>2, <2>1, <1>2
      <3>3. CASE i = k + 1
        <4>1. k \in DOMAIN s /\ k # Len(s) /\ k <= (k - 1) + 1
          <5>1. i \in Nat /\ i >= 1 /\ i <= Len(s) /\ k \in Nat /\ k >= 1 /\ Len(s) \in Nat
            BY <3>1, <1>2, <1>3, <2>1
          <5>2. k \in 1 .. Len(s) /\ k # Len(s) /\ k <= (k - 1) + 1
            BY <3>3, <5>1
          <5> QED
            BY <5>2, <1>2
        <4>2. node[s[k]].next = x /\ x # NULL
          BY <2>2, <3>1, <3>3, <4>1, <1>2
        <4>3. s[k] \in Upto(k-1)
          BY <4>1
        <4> QED
          BY <4>2, <4>3
      <3> QED
        BY <3>1, <3>2, <3>3, <1>2, <2>1
    <2>4. ASSUME NEW x, x \in {node[n].next : n \in Upto(k-1)} \ {NULL}
          PROVE  x \in Upto(k)
      <3>1. PICK i \in DOMAIN s : i <= k /\ x = node[s[i]].next /\ x # NULL
        BY <2>1, <2>4
      <3>2. i + 1 \in DOMAIN s /\ x = s[i+1]
        BY <2>2, <3>1
      <3> QED
        BY <3>1, <3>2, <1>2, <2>1
    <2>5. Upto(k-1) \subseteq Upto(k)
      BY <2>1, <1>2
    <2> QED
      BY <2>3, <2>4, <2>5
  <1>4. Upto(0) = {headOfRequests} \ {NULL}
    <2>1. CASE s = <<>>
      BY <2>1, <1>2 DEF Chain
    <2>2. CASE s # <<>>
      <3>1. headOfRequests = s[1] /\ 1 \in DOMAIN s /\ s[1] # NULL
        BY <2>2, <1>2 DEF Chain
      <3> QED
        BY <3>1, <1>2
    <2> QED
      BY <2>1, <2>2
  <1> HIDE DEF Upto
  <1>5. F = [k \in 0 .. N |-> Step(F, k)]
    <2>1. ASSUME NEW k \in 0 .. N PROVE Upto(k) = Step(F, k)
      <3>1. CASE k = 0
        BY <3>1, <1>4
      <3>2. CASE k # 0
        <4>1. k > 0 /\ k - 1 \in 0 .. N
          BY <1>2, <3>2
        <4>2. F[k-1] = Upto(k-1)
          BY <4>1
        <4> QED
          BY <4>1, <4>2, <1>3
      <3> QED
        BY <3>1, <3>2
    <2> HIDE DEF Step
    <2> QED
      BY <2>1
  <1>6. G = [k \in 0 .. N |-> Step(G, k)]
    <2> HIDE DEF F, Step
    <2> QED
      BY <1>5
  <1>7. G[N] = F[N]
    <2> DEFINE Bad == {k \in 0 .. N : G[k] # F[k]}
    <2>1. SUFFICES ASSUME Bad # {} PROVE FALSE
      <3> HIDE DEF F, G
      <3> QED
        BY <1>2
    <2>2. PICK k \in Bad : \A j \in Bad : k <= j
      <3>1. Bad \subseteq Nat
        BY <1>2
      <3> HIDE DEF Bad
      <3> QED
        BY <2>1, <3>1, LeastNumber
    <2>3. ASSUME k > 0 PROVE G[k-1] = F[k-1]
      <3> HIDE DEF F, G
      <3>1. k - 1 \in 0 .. N /\ ~(k <= k - 1)
        BY <1>2, <2>3
      <3> QED
        BY <2>2, <3>1
    <2>4. G[k] = Step(G, k) /\ F[k] = Step(F, k)
      <3> HIDE DEF F, G, Step
      <3> QED
        BY <1>5, <1>6
    <2>5. Step(G, k) = Step(F, k)
      <3> HIDE DEF F, G
      <3>1. CASE k = 0
        BY <3>1
      <3>2. CASE k # 0
        <4>1. k > 0
          BY <1>2, <3>2
        <4>2. G[k-1] = F[k-1]
          BY <2>3, <4>1
        <4> QED
          BY <4>2
      <3> QED
        BY <3>1, <3>2
    <2>6. G[k] # F[k]
      OBVIOUS
    <2> HIDE DEF F, G, Step, Bad
    <2> QED
      BY <2>4, <2>5, <2>6
  <1>8. F[N] = Upto(N)
    BY <1>2
  <1>9. Upto(N) = {s[i] : i \in DOMAIN s}
    <2>1. {j \in DOMAIN s : j <= N + 1} = DOMAIN s
      BY <1>2
    <2> QED
      BY <2>1 DEF Upto
  <1> HIDE DEF F, G
  <1> QED
    BY <1>1, <1>7, <1>8, <1>9

-----------------------------------------------------------------------------
(* One trip: the facts the definitions of SchedulerList are about.          *)

\* A passenger's only request is <<p, 1>>.
LEMMA OneRequest ==
  ASSUME OneTrip, TypeOK
  PROVE  /\ \A p \in Passengers :
              trip[p] \in {0, 1} /\ (trip[p] = 1 => Req(p) = <<p, 1>> /\ Req(p) \in Nodes)
         /\ \A n \in Nodes : n[1] \in Passengers /\ n = <<n[1], 1>>
         /\ \A m, n \in Nodes : m[1] = n[1] => m = n
  BY DEF OneTrip, TypeOK, PassengerType, Req, Nodes

\* The barrier has counted everyone exactly when it is open.
LEMMA Arrivals ==
  ASSUME Opening
  PROVE  /\ waiting \in Nat /\ waiting <= Limit
         /\ waiting < Limit <=> \E p \in Passengers : ~Arrived(p)
  <1> DEFINE A == {p \in Passengers : Arrived(p)}
  <1>1. A \in SUBSET Passengers /\ waiting = Cardinality(A)
    BY DEF Opening
  <1>2. (A = Passengers) <=> \A p \in Passengers : Arrived(p)
    OBVIOUS
  <1> HIDE DEF A
  <1>3. IsFiniteSet(A) /\ Cardinality(A) <= Limit /\ (Limit = Cardinality(A) => Passengers = A)
    BY <1>1, SchedulerAssumption, FS_Subset DEF Limit
  <1>4. Cardinality(A) \in Nat /\ Limit \in Nat
    BY <1>3, LimitNat, FS_CardinalityType
  <1>5. A = Passengers => Cardinality(A) = Limit
    BY DEF Limit
  <1> QED
    BY <1>1, <1>2, <1>3, <1>4, <1>5

\* Which action of addRequest and the barrier a passenger took.
LEMMA PAdds ==
  ASSUME NEW p \in Passengers, PNext(p), PassengerType
  PROVE  /\ ppc[p] = "request" /\ ppc'[p] = "addTest" => AddRequest(p)
         /\ ppc[p] = "addTest" /\ ppc'[p] = "barrier" => AddFirst(p)
         /\ ppc[p] = "addTest" /\ ppc'[p] = "addHead" => AddBehind(p)
         /\ ppc[p] = "addHead" /\ ppc'[p] = "addWalk" => AddHead(p)
         /\ ppc[p] = "addWalk" /\ ppc'[p] # "addWalk" => AddWalk(p)
         /\ ppc[p] = "addStep" /\ ppc'[p] = "addWalk" => AddStep(p)
         /\ ppc[p] = "addLink" /\ ppc'[p] = "barrier" => AddLink(p)
         /\ ppc[p] = "barrier" /\ ppc'[p] = "pass" => Barrier(p)
  BY DEF PassengerType, PNext, StartTrip, EndPassenger, AddRequest, AddDone, AddFirst,
         AddBehind, AddHead, AddWalk, AddStep, AddLink, Barrier, PassBarrier,
         WaitToBoard, LearnElevator, PassengerCheck, EnterElevator, ReportOn,
         WaitToUnload, ExitElevator, ReportOff, Return, PStep, Abort, pvars

\* A passenger moves itself only, never back, and crosses the two lines that
\* matter by the actions that are about them.
LEMMA PProgress ==
  ASSUME OneTrip, TypeOK, NEW p \in Passengers, PNext(p)
  PROVE  /\ \A q \in Passengers :
              /\ Filed(q) => Filed(q)'
              /\ Arrived(q) => Arrived(q)'
              /\ Delivered(q) => Delivered(q)'
         /\ \A q \in Passengers \ {p} : trip'[q] = trip[q] /\ ppc'[q] = ppc[q]
         /\ AddFirst(p) \/ AddLink(p) \/ (Filed(p)' => Filed(p))
         /\ Barrier(p) \/ (Arrived(p)' => Arrived(p))
  <1>1. PassengerType
    BY DEF TypeOK
  <1>2. /\ \A q \in Passengers \ {p} : trip'[q] = trip[q] /\ ppc'[q] = ppc[q]
        /\ \/ ppc'[p] = ppc[p]
           \/ PFlow(ppc[p], ppc'[p])
    <2>1. \A q \in Passengers \ {p} : trip'[q] = trip[q]
      BY <1>1, PLocals DEF StartTrip, PassengerType
    <2>2. (\A q \in Passengers \ {p} : ppc'[q] = ppc[q])
          /\ (ppc'[p] = ppc[p] \/ PFlow(ppc[p], ppc'[p]))
      BY <1>1, PControl DEF PassengerType
    <2> QED
      BY <2>1, <2>2
  <1>3. CASE StartTrip(p)
    <2>1. trip[p] # 1 /\ ppc'[p] = "request"
      BY <1>1, <1>3 DEF StartTrip, PStep, PassengerType, OneTrip
    <2>2. ~Filed(p) /\ ~Arrived(p) /\ ~Delivered(p) /\ ~Filed(p)' /\ ~Arrived(p)'
      BY <2>1 DEF Filed, Arrived, Delivered
    <2>3. \A q \in Passengers \ {p} :
            (Filed(q)' <=> Filed(q)) /\ (Arrived(q)' <=> Arrived(q)) /\ (Delivered(q)' <=> Delivered(q))
      BY <1>2 DEF Filed, Arrived, Delivered
    <2> QED
      BY <1>2, <2>2, <2>3
  <1>4. CASE ~StartTrip(p)
    <2>1. trip' = trip /\ (ppc[p] = "idle" => ppc'[p] # "request")
      BY <1>1, <1>4, PLocals, PIdle
    <2>2. /\ Filed(p) => Filed(p)'
          /\ Arrived(p) => Arrived(p)'
          /\ Delivered(p) => Delivered(p)'
      BY <1>2, <2>1 DEF PFlow, Filed, Arrived, Delivered, Adding
    <2>3. AddFirst(p) \/ AddLink(p) \/ (Filed(p)' => Filed(p))
      BY <1>1, <1>2, <2>1, PAdds DEF PFlow, Filed, Adding
    <2>4. Barrier(p) \/ (Arrived(p)' => Arrived(p))
      BY <1>1, <1>2, <2>1, PAdds DEF PFlow, Filed, Arrived, Adding
    <2>5. \A q \in Passengers \ {p} :
            (Filed(q)' <=> Filed(q)) /\ (Arrived(q)' <=> Arrived(q)) /\ (Delivered(q)' <=> Delivered(q))
      BY <1>2 DEF Filed, Arrived, Delivered
    <2> QED
      BY <1>2, <2>2, <2>3, <2>4, <2>5
  <1> QED
    BY <1>3, <1>4

-----------------------------------------------------------------------------
(* Turns, Opening, Exited.                                                  *)

\* Nobody is on its way at the start.
LEMMA StaticInit == Init => Turns /\ Opening /\ Exited
  <1>1. SUFFICES ASSUME Init PROVE Turns /\ Opening /\ Exited
    OBVIOUS
  <1>2. \A p \in Passengers : ppc[p] = "idle" /\ trip[p] = 0
    BY <1>1 DEF Init
  <1>3. {p \in Passengers : Arrived(p)} = {}
    BY <1>2 DEF Arrived, Filed
  <1>4. /\ waiting = 0 /\ \A e \in Elevators : epc[e] = "loop"
        /\ \A n \in Nodes : node[n].elevatorId = NoElevator
    BY <1>1 DEF Init, Unallocated
  <1>5. Opening
    BY <1>3, <1>4, FS_EmptySet DEF Opening
  <1>6. Turns /\ Exited
    BY <1>1, <1>2 DEF Init, Turns, Exited, Adding, Delivered, Filed
  <1> QED
    BY <1>5, <1>6

\* The lock of addRequest is taken and given back by its ends.
LEMMA PLockFree ==
  ASSUME NEW p, PNext(p), ~AddRequest(p), ~AddFirst(p), ~AddLink(p)
  PROVE  lock_for_request_s' = lock_for_request_s
  BY DEF PNext, StartTrip, EndPassenger, AddBehind, AddHead, AddWalk, AddStep,
         Barrier, PassBarrier, WaitToBoard, LearnElevator, PassengerCheck,
         EnterElevator, ReportOn, WaitToUnload, ExitElevator, ReportOff, Return,
         Abort, locks

\* addRequest's lock admits one passenger at a time.
LEMMA PTurns ==
  ASSUME TypeOK, Turns, NEW p \in Passengers, PNext(p)
  PROVE  Turns'
  <1>1. PassengerType
    BY DEF TypeOK
  <1>2. \A q \in Passengers \ {p} : ppc'[q] = ppc[q]
    BY <1>1, PControl DEF PassengerType
  <1>3. CASE AddRequest(p)
    <2>1. \A q \in Passengers : ppc[q] \notin Adding
      BY <1>3 DEF AddRequest, Turns
    <2>2. ppc'[p] = "addTest" /\ lock_for_request_s = 1 /\ lock_for_request_s' = 0
      BY <1>1, <1>3, <2>1 DEF AddRequest, PStep, PassengerType, Turns
    <2>3. ppc'[p] \in Adding
      BY <2>2 DEF Adding
    <2> QED
      BY <1>2, <2>1, <2>2, <2>3 DEF Turns
  <1>4. CASE AddFirst(p) \/ AddLink(p)
    <2>1. ppc[p] \in Adding /\ ppc'[p] \notin Adding /\ lock_for_request_s' = lock_for_request_s + 1
      BY <1>1, <1>4 DEF AddFirst, AddLink, AddDone, PStep, PassengerType, Adding
    <2>2. \A q \in Passengers : ppc'[q] \notin Adding
      BY <1>2, <2>1 DEF Turns
    <2> QED
      BY <2>1, <2>2 DEF Turns
  <1>5. CASE ~AddRequest(p) /\ ~AddFirst(p) /\ ~AddLink(p)
    <2>1. ppc'[p] = ppc[p] \/ PFlow(ppc[p], ppc'[p])
      BY <1>1, PControl DEF PassengerType
    <2>2. ppc'[p] \in Adding <=> ppc[p] \in Adding
      BY <1>1, <1>5, <2>1, PAdds DEF PFlow, Adding
    <2>3. lock_for_request_s' = lock_for_request_s
      BY <1>5, PLockFree
    <2> QED
      BY <1>2, <2>2, <2>3 DEF Turns
  <1> QED
    BY <1>3, <1>4, <1>5

\* A passenger's step counts it, or leaves the count and those counted alone.
LEMMA POpening ==
  ASSUME OneTrip, TypeOK, Started, Opening, NEW p \in Passengers, PNext(p)
  PROVE  Opening'
  <1> DEFINE A == {q \in Passengers : Arrived(q)}
             B == {q \in Passengers : Arrived(q)'}
  <1>1. PassengerType
    BY DEF TypeOK
  <1>2. waiting' = Cardinality(B) /\ waiting \in Nat /\ waiting' \in Nat /\ waiting <= waiting'
    <2>1. CASE Barrier(p)
      <3>1. ~Arrived(p) /\ Arrived(p)'
        <4>1. ppc[p] = "barrier" /\ ppc'[p] = "pass" /\ trip' = trip
          BY <1>1, <2>1 DEF Barrier, PStep, PassengerType
        <4>2. trip[p] = 1
          BY <4>1, OneRequest DEF Started
        <4> QED
          BY <4>1, <4>2 DEF Arrived, Filed, Adding
      <3>2. waiting < Limit /\ waiting \in Nat
        BY <3>1, Arrivals
      <3>3. B = A \cup {p}
        BY <3>1, PProgress DEF Arrived, Filed
      <3>4. IsFiniteSet(A) /\ p \notin A
        BY <3>1, SchedulerAssumption, FS_Subset
      <3>5. waiting = Cardinality(A)
        BY DEF Opening
      <3>6. waiting' = waiting + 1
        BY <2>1, <3>2 DEF Barrier
      <3> HIDE DEF A, B
      <3>7. Cardinality(A \cup {p}) = waiting + 1
        BY <3>4, <3>5, FS_AddElement
      <3> QED
        BY <3>2, <3>3, <3>6, <3>7
    <2>2. CASE ~Barrier(p)
      <3>1. B = A
        BY <2>2, PProgress DEF Arrived, Filed
      <3>2. waiting' = waiting /\ waiting \in Nat
        BY <2>2, PBarrier, Arrivals
      <3> QED
        BY <3>1, <3>2 DEF Opening
    <2> QED
      BY <2>1, <2>2
  <1>3. ASSUME waiting' < Limit
        PROVE  /\ \A e \in Elevators : epc'[e] \in {"loop", "grab", "end"}
               /\ \A n \in Nodes : node'[n].elevatorId = NoElevator
    <2>1. waiting < Limit
      BY <1>2, <1>3, LimitNat
    <2>2. \A n \in Nodes : node'[n].elevatorId = NoElevator
      <3>1. SUFFICES ASSUME NEW n \in Nodes PROVE node'[n].elevatorId = NoElevator
        OBVIOUS
      <3>2. node[n].elevatorId = NoElevator
        BY <2>1 DEF Opening
      <3>3. CASE AddRequest(p) /\ n = Req(p)
        BY <3>3 DEF AddRequest, TypeOK, ListType
      <3> QED
        BY <3>2, <3>3, PKeepsNodes
    <2> QED
      BY <2>1, <2>2, PKeepsElevators DEF Opening
  <1> QED
    BY <1>2, <1>3, LimitNat DEF Opening, Limit

\* passenger_exit is the only way to the end of a trip.
LEMMA PExited ==
  ASSUME OneTrip, TypeOK, Exited, NEW p \in Passengers, PNext(p)
  PROVE  Exited'
  <1>1. PassengerType /\ passengers \in [Passengers -> PassengerState]
    BY DEF TypeOK, BuildingType
  <1>2. SUFFICES ASSUME NEW q \in Passengers, Delivered(q)' \/ ppc'[q] = "off"
                 PROVE  passengers'[q].state = "EXITED"
    BY DEF Exited
  <1>3. CASE q # p
    <2>1. Delivered(q) \/ ppc[q] = "off"
      BY <1>2, <1>3, PProgress DEF Delivered, Filed
    <2> QED
      BY <1>3, <2>1, PRecord DEF Exited
  <1>4. CASE q = p
    <2>1. CASE ExitElevator(p)
      BY <1>1, <1>4, <2>1 DEF ExitElevator, Exit, PassengerState
    <2>2. CASE ~ExitElevator(p)
      <3>1. Delivered(p) \/ ppc[p] = "off"
        <4>1. ppc'[p] = ppc[p] \/ PFlow(ppc[p], ppc'[p])
          BY <1>1, PControl DEF PassengerType
        <4>2. CASE StartTrip(p)
          BY <1>1, <1>2, <1>4, <4>2 DEF StartTrip, PStep, PassengerType, Delivered, Filed
        <4>3. CASE ~StartTrip(p)
          <5>1. trip' = trip
            BY <4>3, PLocals
          <5> QED
            <6>1. ppc[p] # "exitApply" \/ ppc'[p] # "off"
              BY <1>1, <2>2, PActs
            <6>2. trip'[p] = trip[p]
              BY <5>1
            <6> QED
              BY <1>2, <1>4, <4>1, <6>1, <6>2 DEF PFlow, Delivered, Filed, Adding
        <4> QED
          BY <4>2, <4>3
      <3>2. passengers[p].state = "EXITED"
        BY <3>1 DEF Exited
      <3>3. ~EnterElevator(p) /\ ~StartTrip(p)
        BY <1>1, <1>2, <1>4 DEF EnterElevator, StartTrip, PStep, PassengerType, Delivered, Filed
      <3>4. CASE Return(p)
        BY <1>1, <1>4, <3>2, <3>4 DEF Return, EndTrip, PassengerState
      <3> QED
        BY <1>4, <2>2, <3>2, <3>3, <3>4, PRecord
    <2> QED
      BY <2>1, <2>2
  <1> QED
    BY <1>3, <1>4

\* Before the barrier opens an elevator can only find its lock taken.
LEMMA EStatic ==
  ASSUME TypeOK, Mutex, Turns, Opening, Exited, NEW e \in Elevators, ENext(e)
  PROVE  Turns' /\ Opening' /\ Exited'
  <1>1. UNCHANGED <<ppc, trip, waiting, lock_for_request_s, passengers>>
    BY EKeepsPassengers, ERecord DEF pvars
  <1>2. Turns' /\ Exited'
    BY <1>1 DEF Turns, Exited, Delivered, Filed
  <1>3. waiting' = Cardinality({p \in Passengers : Arrived(p)'})
    BY <1>1 DEF Opening, Arrived, Filed
  <1>4. ASSUME waiting < Limit
        PROVE  /\ \A d \in Elevators : epc'[d] \in {"loop", "grab", "end"}
               /\ \A n \in Nodes : node'[n].elevatorId = NoElevator
    <2>1. epc \in [Elevators -> ElevatorPC] /\ epc[e] \in {"loop", "grab", "end"}
      BY <1>4 DEF Opening, TypeOK, ElevatorType
    <2>2. lock_for_elevator_s = 0
      BY <1>4 DEF Mutex
    <2>3. epc'[e] \in {"loop", "grab", "end"}
      BY <2>1, <2>2, EControl, ELock DEF EFlow, ElevatorCS
    <2>4. \A d \in Elevators \ {e} : epc'[d] = epc[d]
      BY <2>1, EControl
    <2>5. ~Take(e)
      BY <2>1 DEF Take, EStep
    <2>6. \A n \in Nodes : node'[n].elevatorId = node[n].elevatorId
      BY <2>5, EKeepsNodes
    <2> QED
      BY <1>4, <2>3, <2>4, <2>6 DEF Opening
  <1> QED
    BY <1>1, <1>2, <1>3, <1>4, LimitNat DEF Opening, Limit

-----------------------------------------------------------------------------
(* Passengers and the list.                                                 *)

\* Only addRequest's own steps touch what the list is made of.
LEMMA PFrame ==
  ASSUME OneTrip, IInv, NEW s \in Lists, ListAt(s),
         NEW p \in Passengers, PNext(p), ~AddFirst(p), ~AddLink(p)
  PROVE  /\ \A n \in Nodes : node'[n] = node[n] \/ (AddRequest(p) /\ n = Req(p))
         /\ Chain(s)' /\ Members(s)' /\ Order(s)'
         /\ \A e \in Elevators : AtWork(s, e)'
  <1>1. TypeOK /\ Pointers
    BY DEF IInv
  <1>2. UNCHANGED <<epc, cur, eptr, prev, nxt>>
    BY PKeepsElevators DEF ride, walk
  <1>3. /\ headOfRequests' = headOfRequests
        /\ \A n \in Nodes : node'[n] = node[n] \/ (AddRequest(p) /\ n = Req(p))
    <2>1. CASE AddRequest(p)
      BY <1>1, <2>1 DEF AddRequest, TypeOK, ListType
    <2>2. CASE UNCHANGED listVars
      BY <2>2 DEF listVars
    <2> QED
      BY <2>1, <2>2, PList
  <1>4. AddRequest(p) => ~Filed(p) /\ Req(p) \in Nodes /\ Req(p)[1] = p
                           /\ node[Req(p)].elevatorId = NoElevator
    <2>1. SUFFICES ASSUME AddRequest(p)
          PROVE  ~Filed(p) /\ Req(p) \in Nodes /\ Req(p)[1] = p
                   /\ node[Req(p)].elevatorId = NoElevator
      OBVIOUS
    <2>2. ppc[p] = "request" /\ trip[p] = 1
      BY <1>1, <2>1, OneRequest DEF AddRequest, PStep, IInv, Started
    <2>3. Req(p) = <<p, 1>> /\ Req(p) \in Nodes
      BY <1>1, <2>2, OneRequest
    <2>4. ~Made(Req(p)) /\ ~Filed(p)
      BY <2>2, <2>3 DEF Made, Filed
    <2> QED
      BY <1>1, <2>3, <2>4 DEF Pointers, Unallocated
  <1>5. DOMAIN s = 1 .. Len(s) /\ Len(s) \in Nat /\ \A i \in DOMAIN s : s[i] \in Nodes
    BY ListFacts
  <1>6. \A i \in DOMAIN s : node'[s[i]] = node[s[i]]
    BY <1>3, <1>4, <1>5 DEF ListAt, Members
  <1>7. \A e \in Elevators : Serving(e) \/ epc[e] \in RemovePC =>
          cur[e] \in Nodes /\ node'[cur[e]] = node[cur[e]]
    BY <1>3, <1>4, BuildingAssumption DEF ListAt, AtWork, Keeping
  <1>8. \A e \in Elevators : Serving(e)' <=> Serving(e)
    BY <1>2 DEF Serving
  <1>9. \A q \in Passengers : (Filed(q) => Filed(q)') /\ (Delivered(q) => Delivered(q)')
    BY <1>1, PProgress
  <1>10. \A q \in Passengers : Filed(q)' => Filed(q)
    BY <1>1, <1>9, PProgress DEF Filed
  <1>11. Chain(s)' /\ Order(s)'
    BY <1>3, <1>5, <1>6 DEF ListAt, Chain, Order
  <1>12. Members(s)'
    <2>1. \A i \in DOMAIN s : Filed(s[i][1])'
      BY <1>1, <1>5, <1>9, OneRequest DEF ListAt, Members
    <2>2. ASSUME NEW q \in Passengers, Filed(q)', ~Delivered(q)'
          PROVE  \E i \in DOMAIN s : s[i] = Req(q)'
      <3>1. Filed(q) /\ ~Delivered(q)
        BY <2>2, <1>9, <1>10
      <3>2. Req(q)' = Req(q)
        BY <1>1, <2>2, <3>1 DEF Req, Filed
      <3> QED
        BY <3>1, <3>2 DEF ListAt, Members
    <2> QED
      BY <2>1, <2>2 DEF Members
  <1>13. ASSUME NEW e \in Elevators PROVE AtWork(s, e)'
    <2>1. Looking(s, e) /\ Keeping(s, e) /\ Removing(s, e)
      BY DEF ListAt, AtWork
    <2>2. Looking(s, e)'
      BY <1>2, <1>5, <1>6, <2>1 DEF Looking
    <2>3. Keeping(s, e)'
      <3>1. CASE Serving(e) \/ epc[e] \in RemovePC
        <4>1. node'[cur[e]] = node[cur[e]] /\ cur[e][1] \in Passengers
          BY <1>1, <1>7, <3>1, OneRequest
        <4> QED
          BY <1>2, <1>9, <2>1, <3>1, <4>1 DEF Keeping
      <3> QED
        BY <1>2, <1>8, <3>1 DEF Keeping
    <2>4. Removing(s, e)'
      <3>1. epc[e] \in RemovePC => node'[cur[e]] = node[cur[e]]
        BY <1>7
      <3> QED
        BY <1>2, <2>1, <3>1 DEF Removing, RemovePC
    <2> QED
      BY <2>2, <2>3, <2>4 DEF AtWork
  <1> QED
    BY <1>3, <1>11, <1>12, <1>13

\* The passenger in addRequest keeps its place in the list.
LEMMA PAppending ==
  ASSUME OneTrip, IInv, Turns, NEW s \in Lists, ListAt(s),
         NEW p \in Passengers, PNext(p), ~AddFirst(p), ~AddLink(p)
  PROVE  Appending(s)'
  <1> DEFINE Place(q) ==
        /\ ppc[q] \in Adding => node[Req(q)].status = "live" /\ node[Req(q)].next = NULL
        /\ ppc[q] \in Adding \ {"addTest"} => s # <<>>
        /\ ppc[q] = "addWalk" => \E i \in DOMAIN s : pptr[q] = s[i]
        /\ ppc[q] = "addStep" => \E i \in DOMAIN s : pptr[q] = s[i] /\ i # Len(s)
        /\ ppc[q] = "addLink" => pptr[q] = s[Len(s)]
  <1>1. TypeOK /\ PassengerType /\ ListType /\ Pointers
    BY DEF IInv, TypeOK
  <1>2. \A n \in Nodes : node'[n] = node[n] \/ (AddRequest(p) /\ n = Req(p))
    BY PFrame
  <1>3. DOMAIN s = 1 .. Len(s) /\ Len(s) \in Nat /\ (\A i \in DOMAIN s : s[i] \in Nodes)
          /\ (s = <<>> <=> Len(s) = 0)
    BY ListFacts
  <1>4. SUFFICES ASSUME NEW q \in Passengers, ppc'[q] \in Adding PROVE Place(q)'
    BY DEF Appending, Adding
  <1>5. Place(q)
    BY DEF ListAt, Appending
  <1>6. Chain(s)
    BY DEF ListAt
  <1>7. ppc[q] \in Adding => trip[q] = 1 /\ Req(q) = <<q, 1>> /\ Req(q) \in Nodes
    BY <1>1, OneRequest DEF IInv, Started, Adding
  <1>8. CASE q # p
    <2>1. ppc'[q] = ppc[q] /\ trip'[q] = trip[q] /\ pptr'[q] = pptr[q]
      BY <1>1, <1>8, PProgress, PLocals DEF AddHead, AddStep, PassengerType
    <2>2. Req(q)' = Req(q)
      BY <2>1 DEF Req
    <2>3. node'[Req(q)] = node[Req(q)]
      <3>1. Req(q) # Req(p)
        BY <1>4, <1>7, <1>8, <2>1 DEF Req
      <3> QED
        BY <1>2, <1>4, <1>7, <2>1, <3>1
    <2> QED
      BY <1>5, <2>1, <2>2, <2>3
  <1>9. CASE q = p
    <2>1. CASE AddRequest(p)
      <3>1. ppc'[p] = "addTest" /\ Req(p)' = Req(p) /\ Req(p) \in Nodes
        <4>1. ppc[p] = "request" /\ ppc'[p] = "addTest" /\ trip' = trip
          BY <1>1, <2>1 DEF AddRequest, PStep, PassengerType
        <4>2. trip[p] = 1
          BY <1>1, <4>1, OneRequest DEF IInv, Started
        <4> QED
          BY <1>1, <4>1, <4>2, OneRequest DEF Req
      <3>2. node'[Req(p)].status = "live" /\ node'[Req(p)].next = NULL
        BY <1>1, <2>1, <3>1 DEF AddRequest, ListType
      <3> QED
        BY <1>9, <3>1, <3>2
    <2>2. CASE ~AddRequest(p) /\ ppc'[p] # ppc[p]
      <3>1. PFlow(ppc[p], ppc'[p])
        BY <1>1, <2>2, PControl DEF PassengerType
      <3>2. ppc[p] \in Adding /\ (AddBehind(p) \/ AddHead(p) \/ AddWalk(p) \/ AddStep(p))
        BY <1>1, <1>4, <1>9, <2>2, <3>1, PAdds DEF PFlow, Adding
      <3>3. Req(p)' = Req(p) /\ node'[Req(p)] = node[Req(p)]
        <4>1. trip' = trip
          BY <3>2 DEF AddBehind, AddHead, AddWalk, AddStep
        <4> QED
          BY <1>2, <1>7, <1>9, <2>2, <3>2, <4>1 DEF Req
      <3>4. node[Req(p)].status = "live" /\ node[Req(p)].next = NULL
        BY <1>5, <1>9, <3>2
      <3>5. CASE AddBehind(p)
        <4>1. ppc'[p] = "addHead" /\ s # <<>>
          BY <1>1, <1>6, <3>5 DEF AddBehind, PStep, PassengerType, Chain
        <4> QED
          BY <1>9, <3>3, <3>4, <4>1
      <3>6. CASE AddHead(p)
        <4>1. ppc[p] = "addHead" /\ ppc'[p] = "addWalk" /\ pptr'[p] = headOfRequests
          BY <1>1, <3>6 DEF AddHead, PStep, PassengerType
        <4>2. s # <<>>
          BY <1>5, <1>9, <4>1 DEF Adding
        <4>3. 1 \in DOMAIN s /\ headOfRequests = s[1]
          BY <1>3, <1>6, <4>2 DEF Chain
        <4> QED
          BY <1>9, <3>3, <3>4, <4>1, <4>2, <4>3
      <3>7. CASE AddWalk(p)
        <4>1. /\ ppc[p] = "addWalk" /\ pptr' = pptr
              /\ ppc'[p] = IF node[pptr[p]].next = NULL THEN "addLink" ELSE "addStep"
          BY <1>1, <3>7 DEF AddWalk, PStep, PassengerType
        <4>2. PICK i \in DOMAIN s : pptr[p] = s[i]
          BY <1>5, <1>9, <4>1
        <4>3. node[s[i]].next = NULL <=> i = Len(s)
          BY <1>3, <1>6, SchedulerAssumption DEF Chain, Nodes
        <4>4. s # <<>>
          BY <1>5, <1>9, <4>1 DEF Adding
        <4> QED
          BY <1>9, <3>3, <3>4, <4>1, <4>2, <4>3, <4>4
      <3>8. CASE AddStep(p)
        <4>1. ppc[p] = "addStep" /\ ppc'[p] = "addWalk" /\ pptr'[p] = node[pptr[p]].next
          BY <1>1, <3>8 DEF AddStep, PStep, PassengerType
        <4>2. PICK i \in DOMAIN s : pptr[p] = s[i] /\ i # Len(s)
          BY <1>5, <1>9, <4>1
        <4>3. i + 1 \in DOMAIN s /\ node[s[i]].next = s[i + 1]
          BY <1>3, <1>6, <4>2 DEF Chain
        <4>4. s # <<>>
          BY <1>5, <1>9, <4>1 DEF Adding
        <4> QED
          BY <1>9, <3>3, <3>4, <4>1, <4>2, <4>3, <4>4
      <3> QED
        BY <3>2, <3>5, <3>6, <3>7, <3>8
    <2>3. CASE ~AddRequest(p) /\ ppc'[p] = ppc[p]
      <3>1. UNCHANGED <<ppc, pptr, trip, node>>
        BY <1>1, <2>3, PStays DEF pvars, listVars
      <3> QED
        BY <1>5, <3>1 DEF Req
    <2> QED
      BY <2>1, <2>2, <2>3
  <1> QED
    BY <1>8, <1>9

\* Appending happens before the barrier opens: no elevator is at work, nothing
\* is claimed, and the appending passenger was alone in addRequest.
LEMMA PAlone ==
  ASSUME OneTrip, IInv, Turns, Opening,
         NEW p \in Passengers, PNext(p), AddFirst(p) \/ AddLink(p),
         NEW t \in Lists
  PROVE  Order(t)' /\ Appending(t)' /\ \A e \in Elevators : AtWork(t, e)'
  <1>1. TypeOK /\ PassengerType /\ Started
    BY DEF IInv, TypeOK
  <1>2. ppc[p] \in {"addTest", "addLink"} /\ ppc'[p] = "barrier" /\ trip' = trip
    BY <1>1 DEF AddFirst, AddLink, AddDone, PStep, PassengerType
  <1>3. trip[p] = 1 /\ Req(p) = <<p, 1>> /\ Req(p) \in Nodes
    BY <1>1, <1>2, OneRequest DEF Started
  <1>4. ~Filed(p) /\ Filed(p)' /\ ~Delivered(p)' /\ ~Arrived(p) /\ ~Arrived(p)'
    BY <1>2, <1>3 DEF Filed, Delivered, Arrived, Adding
  <1>5. waiting < Limit
    BY <1>4, Arrivals
  <1>6. \A e \in Elevators : epc'[e] \in {"loop", "grab", "end"}
    BY <1>5, PKeepsElevators DEF Opening
  <1>7. \A n \in Nodes : node'[n].elevatorId = NoElevator
    <2>1. \A n \in Nodes : node'[n].elevatorId = node[n].elevatorId
      <3>1. ~AddRequest(p)
        BY <1>2 DEF AddRequest, PStep
      <3> QED
        BY <1>1, <3>1, PKeepsNodes
    <2> QED
      BY <1>5, <2>1 DEF Opening
  <1>8. \A i \in DOMAIN t : t[i] \in Nodes
    BY ListFacts
  <1>9. Order(t)' /\ \A e \in Elevators : AtWork(t, e)'
    <2>1. Order(t)'
      BY <1>7, <1>8 DEF Order
    <2>2. \A e \in Elevators : ~Serving(e)' /\ epc'[e] \notin RemovePC
                                 /\ epc'[e] \notin {"walk", "take"}
      BY <1>6 DEF Serving, RidePC, RemovePC
    <2> QED
      BY <2>1, <2>2 DEF AtWork, Looking, Keeping, Removing, RemovePC
  <1>10. Appending(t)'
    <2>1. \A q \in Passengers : ppc'[q] \notin Adding
      <3>1. \A q \in Passengers \ {p} : ppc'[q] = ppc[q]
        BY <1>1, PProgress
      <3>2. ppc[p] \in Adding /\ ppc'[p] \notin Adding
        BY <1>2 DEF Adding
      <3> QED
        BY <3>1, <3>2 DEF Turns
    <2> QED
      BY <2>1 DEF Appending, Adding
  <1> QED
    BY <1>9, <1>10

\* What is appended is a live node that is not yet in the list.
LEMMA PAppends ==
  ASSUME OneTrip, IInv, NEW s \in Lists, ListAt(s),
         NEW p \in Passengers, PNext(p), AddFirst(p) \/ AddLink(p)
  PROVE  /\ Req(p) = <<p, 1>> /\ Req(p) \in Nodes /\ trip' = trip /\ Filed(p)'
         /\ node[Req(p)].status = "live" /\ node[Req(p)].next = NULL
         /\ \A i \in DOMAIN s : s[i] # Req(p)
  <1>1. TypeOK /\ PassengerType /\ Started
    BY DEF IInv, TypeOK
  <1>2. ppc[p] \in {"addTest", "addLink"} /\ ppc'[p] = "barrier" /\ trip' = trip
    BY <1>1 DEF AddFirst, AddLink, AddDone, PStep, PassengerType
  <1>3. trip[p] = 1 /\ Req(p) = <<p, 1>> /\ Req(p) \in Nodes
    BY <1>1, <1>2, OneRequest DEF Started
  <1>4. ~Filed(p) /\ Filed(p)'
    BY <1>2, <1>3 DEF Filed, Adding
  <1> QED
    BY <1>2, <1>3, <1>4 DEF ListAt, Appending, Members, Adding

\* Everyone else who had a request in the list still has.
LEMMA PMembers ==
  ASSUME OneTrip, IInv, NEW s \in Lists, ListAt(s),
         NEW p \in Passengers, PNext(p), Req(p) = <<p, 1>>, trip' = trip, Filed(p)',
         NEW t \in Lists,
         \A i \in DOMAIN s : \E j \in DOMAIN t : t[j] = s[i],
         \A j \in DOMAIN t : t[j] = Req(p) \/ \E i \in DOMAIN s : t[j] = s[i],
         \E j \in DOMAIN t : t[j] = Req(p)
  PROVE  Members(t)'
  <1>1. TypeOK /\ Members(s)
    BY DEF IInv, ListAt
  <1>2. \A j \in DOMAIN t : Filed(t[j][1])'
    <2>1. SUFFICES ASSUME NEW j \in DOMAIN t PROVE Filed(t[j][1])'
      OBVIOUS
    <2>2. CASE t[j] = Req(p)
      BY <2>2
    <2>3. CASE \E i \in DOMAIN s : t[j] = s[i]
      <3>1. t[j] \in Nodes /\ Filed(t[j][1])
        BY <1>1, <2>3, ListFacts DEF Members
      <3>2. t[j][1] \in Passengers
        BY <1>1, <3>1, OneRequest
      <3> QED
        BY <1>1, <3>1, <3>2, PProgress
    <2> QED
      BY <2>2, <2>3
  <1>3. ASSUME NEW q \in Passengers, Filed(q)', ~Delivered(q)'
        PROVE  \E j \in DOMAIN t : t[j] = Req(q)'
    <2>1. Req(q)' = Req(q)
      BY DEF Req
    <2>2. CASE q = p
      BY <2>1, <2>2
    <2>3. CASE q # p
      <3>1. Filed(q) /\ ~Delivered(q)
        BY <1>1, <1>3, <2>3, PProgress DEF Filed
      <3> QED
        BY <1>1, <2>1, <3>1 DEF Members
    <2> QED
      BY <2>2, <2>3
  <1> QED
    BY <1>2, <1>3 DEF Members

\* The first request becomes the head.
LEMMA PFirst ==
  ASSUME OneTrip, IInv, Turns, Opening, NEW s \in Lists, ListAt(s),
         NEW p \in Passengers, PNext(p), AddFirst(p)
  PROVE  \E t \in Lists : ListAt(t)'
  <1>1. TypeOK /\ ListType /\ Chain(s)
    BY DEF IInv, TypeOK, ListAt
  <1>2. s = <<>>
    <2>1. headOfRequests = NULL
      BY DEF AddFirst
    <2> QED
      BY <1>1, <2>1, ListFacts, NodesFinite DEF Chain
  <1>3. Req(p) = <<p, 1>> /\ Req(p) \in Nodes
    BY PAppends
  <1>4. PICK t \in Lists : DOMAIN t = {1} /\ Len(t) = 1 /\ t[1] = Req(p) /\ t # <<>>
    <2> DEFINE u == <<Req(p)>>
    <2>1. u \in Seq(Nodes) /\ DOMAIN u = {1} /\ Len(u) = 1 /\ u[1] = Req(p) /\ u # <<>>
      BY <1>3
    <2> HIDE DEF u
    <2>2. u \in Lists
      BY <2>1, ListBound
    <2> QED
      BY <2>1, <2>2
  <1>5. /\ Filed(p)' /\ node[Req(p)].status = "live" /\ node[Req(p)].next = NULL
        /\ Order(t)' /\ Appending(t)' /\ \A e \in Elevators : AtWork(t, e)'
    BY <1>4, PAppends, PAlone
  <1>6. headOfRequests' = Req(p) /\ node' = node /\ trip' = trip
    BY DEF AddFirst, AddDone
  <1>7. Chain(t)'
    BY <1>4, <1>5, <1>6 DEF Chain
  <1>8. Members(t)'
    <2>1. DOMAIN s = {}
      BY <1>2
    <2> QED
      BY <1>3, <1>4, <1>5, <1>6, <2>1, PMembers
  <1> QED
    BY <1>4, <1>5, <1>7, <1>8 DEF ListAt

\* t is s with n behind its last place.
IsLonger(t, s, n) ==
  /\ Len(t) = Len(s) + 1 /\ DOMAIN t = DOMAIN s \cup {Len(t)}
  /\ \A i \in DOMAIN s : t[i] = s[i]
  /\ t[Len(t)] = n

\* The last node is made to point to a node that is not in the list.
LEMMA Link ==
  ASSUME NEW s \in Lists, Chain(s), s # <<>>,
         NEW n \in Nodes, \A i \in DOMAIN s : s[i] # n,
         node[n].status = "live", node[n].next = NULL,
         headOfRequests' = headOfRequests,
         \A m \in Nodes :
           /\ node'[m].status = node[m].status
           /\ node'[m].next = IF m = s[Len(s)] THEN n ELSE node[m].next
  PROVE  \E t \in Lists : IsLonger(t, s, n) /\ Chain(t)'
  <1>1. /\ Len(s) \in Nat /\ DOMAIN s = 1 .. Len(s) /\ s \in Seq(Nodes)
        /\ (\A i \in DOMAIN s : s[i] \in Nodes)
        /\ (s = <<>> <=> Len(s) = 0)
    BY ListFacts
  <1>2. PICK t \in Lists :
          /\ Len(t) = Len(s) + 1 /\ DOMAIN t = 1 .. Len(s) + 1
          /\ \A i \in DOMAIN s : t[i] = s[i]
          /\ t[Len(s) + 1] = n /\ t # <<>>
          /\ \A i, j \in DOMAIN t : t[i] = t[j] => i = j
    <2> DEFINE u == Append(s, n)
    <2>1. u \in Seq(Nodes) /\ Len(u) = Len(s) + 1 /\ u[Len(s) + 1] = n
          /\ \A i \in 1 .. Len(s) : u[i] = s[i]
      BY <1>1
    <2> HIDE DEF u
    <2>2. DOMAIN u = 1 .. Len(s) + 1 /\ u # <<>>
      BY <1>1, <2>1
    <2>3. \A i \in DOMAIN u : i \in DOMAIN s \/ i = Len(s) + 1
      BY <1>1, <2>2
    <2>4. \A i, j \in DOMAIN u : u[i] = u[j] => i = j
      BY <1>1, <2>1, <2>3 DEF Chain
    <2>5. u \in Lists
      BY <2>1, <2>4, ListBound
    <2> QED
      BY <1>1, <2>1, <2>2, <2>4, <2>5
  <1>3. Len(s) \in DOMAIN s /\ 1 \in DOMAIN s
    BY <1>1
  <1>4. headOfRequests' = t[1]
    BY <1>2, <1>3 DEF Chain
  <1>5. ASSUME NEW i \in DOMAIN t
        PROVE  /\ node'[t[i]].status = "live"
               /\ node'[t[i]].next = IF i = Len(t) THEN NULL ELSE t[i + 1]
    <2>1. CASE i = Len(s) + 1
      <3>1. n # s[Len(s)]
        BY <1>3
      <3> QED
        BY <1>2, <2>1, <3>1
    <2>2. CASE i = Len(s)
      <3>1. node'[s[i]].next = n /\ node'[s[i]].status = "live"
        BY <1>1, <1>3, <2>2 DEF Chain
      <3>2. i # Len(t) /\ t[i] = s[i] /\ t[i + 1] = n
        BY <1>1, <1>2, <1>3, <2>2
      <3> QED
        BY <3>1, <3>2
    <2>3. CASE i # Len(s) /\ i # Len(s) + 1
      <3>1. i \in DOMAIN s /\ i + 1 \in DOMAIN s /\ i # Len(t)
        BY <1>1, <1>2, <2>3
      <3>2. s[i] # s[Len(s)]
        BY <1>3, <2>3, <3>1 DEF Chain
      <3>3. node'[s[i]].next = node[s[i]].next /\ node'[s[i]].status = node[s[i]].status
        BY <1>1, <3>1, <3>2
      <3>4. node[s[i]].next = s[i + 1] /\ node[s[i]].status = "live"
        BY <2>3, <3>1 DEF Chain
      <3> QED
        BY <1>2, <3>1, <3>3, <3>4
    <2> QED
      BY <2>1, <2>2, <2>3
  <1>6. Chain(t)'
    BY <1>2, <1>4, <1>5 DEF Chain
  <1>7. IsLonger(t, s, n)
    BY <1>1, <1>2 DEF IsLonger
  <1> QED
    BY <1>6, <1>7

\* Later requests go behind the last one.
LEMMA PLink ==
  ASSUME OneTrip, IInv, Turns, Opening, NEW s \in Lists, ListAt(s),
         NEW p \in Passengers, PNext(p), AddLink(p)
  PROVE  \E t \in Lists : ListAt(t)'
  <1>1. TypeOK /\ ListType /\ Chain(s)
    BY DEF IInv, TypeOK, ListAt
  <1>2. Len(s) \in Nat /\ DOMAIN s = 1 .. Len(s) /\ \A i \in DOMAIN s : s[i] \in Nodes
    BY ListFacts
  <1>3. PICK n \in Nodes :
          /\ n = Req(p) /\ n = <<p, 1>> /\ Filed(p)'
          /\ node[n].status = "live" /\ node[n].next = NULL
          /\ \A i \in DOMAIN s : s[i] # n
    BY PAppends
  <1>4. /\ s # <<>> /\ trip' = trip /\ headOfRequests' = headOfRequests
        /\ node' = [node EXCEPT ![s[Len(s)]].next = n]
    BY <1>3 DEF ListAt, Appending, AddLink, AddDone, PStep, Adding
  <1>5. \A m \in Nodes :
          /\ node'[m].status = node[m].status
          /\ node'[m].next = IF m = s[Len(s)] THEN n ELSE node[m].next
    BY <1>1, <1>4 DEF ListType, NodeState
  <1>6. PICK t \in Lists : IsLonger(t, s, n) /\ Chain(t)'
    BY <1>1, <1>3, <1>4, <1>5, Link
  <1>7. Order(t)' /\ Appending(t)' /\ \A e \in Elevators : AtWork(t, e)'
    BY PAlone
  <1>8. Members(t)'
    <2>1. \A i \in DOMAIN s : i \in DOMAIN t /\ t[i] = s[i]
      BY <1>6 DEF IsLonger
    <2>2. \A j \in DOMAIN t : t[j] = n \/ \E i \in DOMAIN s : t[j] = s[i]
      BY <1>6 DEF IsLonger
    <2>3. \E j \in DOMAIN t : t[j] = n
      BY <1>6 DEF IsLonger
    <2> QED
      BY <1>3, <1>4, <2>1, <2>2, <2>3, PMembers
  <1> QED
    BY <1>6, <1>7, <1>8 DEF ListAt

\* A passenger's step leaves the list a list.
LEMMA PListAt ==
  ASSUME OneTrip, IInv, Turns, Opening, NEW s \in Lists, ListAt(s),
         NEW p \in Passengers, PNext(p)
  PROVE  \E t \in Lists : ListAt(t)'
  <1>1. CASE AddFirst(p)
    BY <1>1, PFirst
  <1>2. CASE AddLink(p)
    BY <1>2, PLink
  <1>3. CASE ~AddFirst(p) /\ ~AddLink(p)
    BY <1>3, PFrame, PAppending DEF ListAt
  <1> QED
    BY <1>1, <1>2, <1>3

-----------------------------------------------------------------------------
(* Elevators and the list.                                                  *)

\* What an elevator does that the list's invariant is about; all else leaves
\* the list and the elevator's pointers alone and stays on its side of them.
LEMMA EActions ==
  ASSUME NEW e \in Elevators, ENext(e), ElevatorType
  PROVE  \/ PeekMore(e) \/ WalkPast(e) \/ WalkFound(e) \/ Take(e)
         \/ LockToRemove(e) \/ RemoveHeadFound(e) \/ RemoveHeadSet(e) \/ RemoveClear(e)
         \/ RemoveOther(e) \/ RemoveWalk(e) \/ RemoveFound(e) \/ RemoveSet(e)
         \/ RemoveSkip(e) \/ RemoveFree(e)
         \/ /\ UNCHANGED <<headOfRequests, node, cur, eptr, prev, nxt>>
            /\ \/ epc'[e] = epc[e]
               \/ epc'[e] \in {"loop", "grab", "peek", "last", "end"}
               \/ Serving(e) /\ epc'[e] \in RidePC \cup {"remove"}
  BY DEF ElevatorType, ENext, Loop, Lock, Grab, Unlock, PeekLast, WalkOff,
         LastRemoved, WaitReady, Plan, ElevatorCheck, Move, Open, SignalPassenger,
         AwaitPassenger, CloseBoarded, CloseDelivered, CheckEmpty, EStep, Abort,
         Serving, RidePC, listVars, ride, walk

\* In its critical section an elevator is alone with the list.
LEMMA EAlone ==
  ASSUME OneTrip, IInv, Opening, NEW e \in Elevators, epc[e] \in ElevatorCS
  PROVE  /\ waiting = Limit
         /\ \A p \in Passengers : Arrived(p) /\ ppc[p] \notin Adding
         /\ \A d \in Elevators \ {e} : epc[d] \notin ElevatorCS
  <1>1. ~(waiting < Limit) /\ \A d \in Elevators \ {e} : epc[d] \notin ElevatorCS
    BY DEF IInv, Mutex
  <1>2. \A p \in Passengers : Arrived(p)
    BY <1>1, Arrivals
  <1>3. waiting = Limit
    BY <1>1, Arrivals, LimitNat
  <1> QED
    BY <1>1, <1>2, <1>3 DEF Arrived, Filed

\* The other elevators do not notice, as long as their requests stay listed.
LEMMA EOthers ==
  ASSUME OneTrip, IInv, Opening, NEW s \in Lists, ListAt(s),
         NEW e \in Elevators, ENext(e), NEW t \in Lists,
         \/ UNCHANGED node /\ t = s
         \/ /\ epc[e] \in ElevatorCS
            /\ \A i \in DOMAIN s : node[s[i]].elevatorId \in Elevators \ {e} =>
                 \E j \in DOMAIN t : t[j] = s[i]
  PROVE  \A d \in Elevators \ {e} : AtWork(t, d)'
  <1>1. TypeOK /\ ElevatorType /\ Pointers
    BY DEF IInv, TypeOK
  <1>2. SUFFICES ASSUME NEW d \in Elevators \ {e} PROVE AtWork(t, d)'
    OBVIOUS
  <1>3. /\ epc'[d] = epc[d] /\ cur'[d] = cur[d]
        /\ eptr'[d] = eptr[d] /\ prev'[d] = prev[d] /\ nxt'[d] = nxt[d]
    BY <1>1, EMoves, EOwn, EWalk
  <1>4. Looking(s, d) /\ Keeping(s, d) /\ Removing(s, d)
    BY DEF ListAt, AtWork
  <1>5. \A p \in Passengers : Delivered(p)' <=> Delivered(p)
    BY EKeepsPassengers DEF Delivered, Filed, pvars
  <1>6. CASE UNCHANGED node /\ t = s
    <2>1. Looking(t, d)' /\ Removing(t, d)'
      BY <1>3, <1>4, <1>6 DEF Looking, Removing
    <2>2. Keeping(t, d)'
      <3>1. CASE Serving(d) \/ epc[d] \in RemovePC
        <4>1. cur[d][1] \in Passengers
          BY <1>1, <1>4, <3>1, OneRequest DEF Keeping
        <4> QED
          BY <1>3, <1>4, <1>5, <1>6, <3>1, <4>1 DEF Keeping
      <3> QED
        BY <1>3, <3>1 DEF Keeping, Serving
    <2> QED
      BY <2>1, <2>2 DEF AtWork
  <1>7. CASE epc[e] \in ElevatorCS
             /\ \A i \in DOMAIN s : node[s[i]].elevatorId \in Elevators \ {e} =>
                  \E j \in DOMAIN t : t[j] = s[i]
    <2>1. epc'[d] \notin ElevatorCS
      BY <1>3, <1>7, EAlone
    <2>2. Looking(t, d)' /\ Removing(t, d)'
      BY <2>1 DEF Looking, Removing, ElevatorCS
    <2>3. Keeping(t, d)'
      <3>1. epc'[d] \notin RemovePC /\ epc'[d] \notin Unlinked
        BY <2>1 DEF ElevatorCS, RemovePC, Unlinked
      <3>2. CASE Serving(d)
        <4>1. cur[d] \in Nodes /\ node[cur[d]].elevatorId = d
              /\ \E i \in DOMAIN s : s[i] = cur[d]
          BY <1>3, <1>4, <3>1, <3>2 DEF Keeping
        <4>2. \E j \in DOMAIN t : t[j] = cur[d]
          BY <1>7, <4>1
        <4>3. node'[cur[d]].elevatorId = d
          <5>1. ~Take(e) \/ cur[d] # eptr[e]
            BY <1>1, <4>1, BuildingAssumption DEF Pointers, Take, EStep
          <5> QED
            BY <1>1, <4>1, <5>1, EKeepsNodes
        <4> QED
          BY <1>3, <3>1, <4>1, <4>2, <4>3 DEF Keeping
      <3> QED
        BY <1>3, <3>1, <3>2 DEF Keeping, Serving
    <2> QED
      BY <2>2, <2>3 DEF AtWork
  <1> QED
    BY <1>6, <1>7

\* The passengers do not notice either.
LEMMA EKeepsAppending ==
  ASSUME OneTrip, IInv, Opening, NEW s \in Lists, ListAt(s),
         NEW e \in Elevators, ENext(e), NEW t \in Lists,
         (UNCHANGED node /\ t = s) \/ epc[e] \in ElevatorCS
  PROVE  Appending(t)'
  <1>1. UNCHANGED <<ppc, pptr, trip>>
    BY EKeepsPassengers DEF pvars
  <1>2. CASE UNCHANGED node /\ t = s
    BY <1>1, <1>2 DEF ListAt, Appending, Req
  <1>3. CASE epc[e] \in ElevatorCS
    <2>1. \A p \in Passengers : ppc'[p] \notin Adding
      BY <1>1, <1>3, EAlone
    <2> QED
      BY <2>1 DEF Appending, Adding
  <1> QED
    BY <1>2, <1>3

\* An elevator walks the list without changing it.
LEMMA EWalking ==
  ASSUME OneTrip, IInv, Opening, NEW s \in Lists, ListAt(s),
         NEW e \in Elevators, ENext(e),
         ~Take(e), ~RemoveHeadSet(e), ~RemoveClear(e), ~RemoveSet(e), ~RemoveFree(e)
  PROVE  AtWork(s, e)'
  <1>1. TypeOK /\ ElevatorType /\ ListType
    BY DEF IInv, TypeOK
  <1>2. headOfRequests' = headOfRequests /\ node' = node
    BY EList DEF listVars
  <1>3. /\ Len(s) \in Nat /\ DOMAIN s = 1 .. Len(s) /\ (s = <<>> <=> Len(s) = 0)
        /\ \A i \in DOMAIN s : s[i] \in Nodes /\ s[i] # NULL
    BY ListFacts, NodesFinite
  <1>4. Chain(s) /\ Looking(s, e) /\ Keeping(s, e) /\ Removing(s, e)
    BY DEF ListAt, AtWork
  <1>5. \A p \in Passengers : Delivered(p)' <=> Delivered(p)
    BY EKeepsPassengers DEF Delivered, Filed, pvars
  <1>6. \A n \in Nodes : n[1] \in Passengers
    BY <1>1, OneRequest
  <1>7. CASE PeekMore(e)
    <2>1. epc[e] = "peek" /\ epc'[e] = "walk" /\ eptr'[e] = headOfRequests /\ headOfRequests # NULL
      BY <1>1, <1>7 DEF PeekMore, EStep, ElevatorType, EVerdict, Verdict, ETouches
    <2>2. 1 \in DOMAIN s /\ headOfRequests = s[1]
      BY <1>3, <1>4, <2>1 DEF Chain
    <2>3. Looking(s, e)'
      <3>1. \A j \in 1 .. 1 - 1 : node'[s[j]].elevatorId # NoElevator
        OBVIOUS
      <3> QED
        BY <2>1, <2>2, <3>1 DEF Looking
    <2> QED
      BY <2>1, <2>3 DEF AtWork, Keeping, Removing, Serving, RidePC, RemovePC
  <1>8. CASE WalkPast(e)
    <2>1. /\ epc[e] = "walk" /\ epc'[e] = "walk" /\ eptr[e] # NULL
          /\ eptr'[e] = node[eptr[e]].next /\ node[eptr[e]].elevatorId # NoElevator
      BY <1>1, <1>8 DEF WalkPast, EStep, ElevatorType
    <2>2. PICK i \in DOMAIN s :
            /\ eptr[e] = s[i]
            /\ \A j \in 1 .. i - 1 : node[s[j]].elevatorId # NoElevator
      BY <1>4, <2>1 DEF Looking
    <2>3. \A j \in 1 .. i : node[s[j]].elevatorId # NoElevator
      BY <1>3, <2>1, <2>2
    <2>4. Looking(s, e)'
      <3>1. CASE i = Len(s)
        <4>1. eptr'[e] = NULL
          BY <1>4, <2>1, <2>2, <3>1 DEF Chain
        <4> QED
          BY <1>2, <1>3, <2>1, <2>3, <3>1, <4>1 DEF Looking
      <3>2. CASE i # Len(s)
        <4>1. i + 1 \in DOMAIN s /\ (i + 1) - 1 = i
          BY <1>3, <3>2
        <4>2. eptr'[e] = s[i + 1] /\ eptr'[e] # NULL
          BY <1>3, <1>4, <2>1, <2>2, <3>2, <4>1 DEF Chain
        <4>3. \A j \in 1 .. (i + 1) - 1 : node'[s[j]].elevatorId # NoElevator
          BY <1>2, <2>3, <4>1
        <4> QED
          BY <2>1, <4>1, <4>2, <4>3 DEF Looking
      <3> QED
        BY <3>1, <3>2
    <2> QED
      BY <2>1, <2>4 DEF AtWork, Keeping, Removing, Serving, RidePC, RemovePC
  <1>9. CASE WalkFound(e)
    <2>1. epc[e] = "walk" /\ epc'[e] = "take" /\ eptr[e] # NULL /\ eptr' = eptr
      BY <1>1, <1>9 DEF WalkFound, EStep, ElevatorType, walk
    <2>2. Looking(s, e)'
      BY <1>2, <1>4, <2>1 DEF Looking
    <2> QED
      BY <2>1, <2>2 DEF AtWork, Keeping, Removing, Serving, RidePC, RemovePC
  <1>10. CASE LockToRemove(e)
    <2>1. epc[e] = "remove" /\ epc'[e] = "remHead" /\ cur' = cur
      BY <1>1, <1>10 DEF LockToRemove, Lock, EStep, ElevatorType, ride
    <2>2. /\ cur[e] \in Nodes /\ node[cur[e]].elevatorId = e
          /\ \E i \in DOMAIN s : s[i] = cur[e]
      BY <1>4, <2>1 DEF Keeping, Serving, Unlinked
    <2>3. Delivered(cur[e][1])
      <3> DEFINE n == cur[e]
      <3>1. CarrierStage(n) = 5
        <4>1. leg[e] = "deliver"
          BY <2>1 DEF IInv, Legs
        <4> QED
          BY <2>1, <2>2, <4>1, BuildingAssumption DEF CarrierStage, Serving, ElevatorStage
      <3>2. sem[n]["passenger_off_elevator_s"] = Past(RiderStage(n), 5) - Past(CarrierStage(n), 5)
        BY <2>2 DEF IInv, Handshake
      <3>3. sem[n]["passenger_off_elevator_s"] \in Nat
        BY <1>1, <2>2 DEF TypeOK, SyncType, Semaphores
      <3>4. RiderStage(n) >= 5
        BY <3>1, <3>2, <3>3 DEF Past
      <3>5. n[1] \in Passengers /\ n[2] = 1 /\ trip[n[1]] \in {0, 1}
        <4>1. n[1] \in Passengers /\ n = <<n[1], 1>>
          BY <1>1, <2>2, OneRequest
        <4> QED
          BY <1>1, <4>1, OneRequest
      <3> HIDE DEF n
      <3>6. trip[n[1]] = 1 /\ ppc[n[1]] \in {"return", "idle", "end"}
        BY <3>4, <3>5 DEF RiderStage
      <3>7. Delivered(n[1])
        BY <3>6 DEF Delivered, Filed, Adding
      <3> QED
        BY <3>7 DEF n
    <2>4. Keeping(s, e)'
      BY <1>2, <1>5, <1>6, <2>1, <2>2, <2>3 DEF Keeping, Unlinked
    <2> QED
      BY <2>1, <2>4 DEF AtWork, Looking, Removing
  <1>11. ASSUME epc[e] \in RemovePC \ Unlinked, epc'[e] \in RemovePC \ Unlinked, cur' = cur
         PROVE  Keeping(s, e)' /\ Looking(s, e)'
    <2>1. /\ cur[e] \in Nodes /\ node[cur[e]].elevatorId = e
          /\ \E i \in DOMAIN s : s[i] = cur[e]
          /\ Delivered(cur[e][1])
      BY <1>4, <1>11 DEF Keeping
    <2>2. Keeping(s, e)'
      BY <1>2, <1>5, <1>6, <1>11, <2>1 DEF Keeping
    <2> QED
      BY <1>11, <2>2 DEF Looking, RemovePC
  <1> USE DEF RemovePC, Unlinked
  <1>12. CASE RemoveHeadFound(e)
    <2>1. /\ epc[e] = "remHead" /\ epc'[e] = "remHeadSet" /\ headOfRequests # NULL
          /\ matchesRequest(headOfRequests, cur[e]) /\ cur' = cur
          /\ eptr'[e] = headOfRequests /\ nxt'[e] = node[headOfRequests].next
      BY <1>1, <1>12 DEF RemoveHeadFound, EStep, ElevatorType, ride
    <2>2. s # <<>> /\ 1 \in DOMAIN s /\ headOfRequests = s[1]
      BY <1>3, <1>4, <2>1 DEF Chain
    <2>3. cur[e] \in Nodes
      BY <1>4, <2>1 DEF Keeping
    <2>4. s[1] = cur[e]
      BY <1>1, <1>3, <2>1, <2>2, <2>3, OneRequest DEF matchesRequest
    <2>5. Removing(s, e)'
      BY <1>2, <2>1, <2>2, <2>4 DEF Removing
    <2> QED
      BY <1>11, <2>1, <2>5 DEF AtWork
  <1>13. CASE RemoveOther(e)
    <2>1. CASE headOfRequests = NULL
      <3>1. epc'[e] = "check"
        BY <1>1, <1>13, <2>1 DEF RemoveOther, EStep, ElevatorType
      <3> QED
        BY <3>1 DEF AtWork, Looking, Keeping, Removing, Serving, RidePC
    <2>2. CASE headOfRequests # NULL
      <3>1. /\ epc[e] = "remHead" /\ epc'[e] = "remWalk" /\ cur' = cur
            /\ ~matchesRequest(headOfRequests, cur[e])
            /\ eptr'[e] = headOfRequests /\ prev'[e] = headOfRequests
        BY <1>1, <1>13, <2>2 DEF RemoveOther, EStep, ElevatorType, ride
      <3>2. 1 \in DOMAIN s /\ headOfRequests = s[1]
        BY <1>3, <1>4, <2>2 DEF Chain
      <3>3. PICK j \in DOMAIN s : s[j] = cur[e]
        BY <1>4, <3>1 DEF Keeping
      <3>4. 1 < j
        <4>1. j # 1
          BY <3>1, <3>2, <3>3 DEF matchesRequest
        <4> QED
          BY <1>3, <4>1
      <3>5. Removing(s, e)'
        BY <3>1, <3>2, <3>3, <3>4 DEF Removing
      <3> QED
        BY <1>11, <3>1, <3>5 DEF AtWork
    <2> QED
      BY <2>1, <2>2
  <1>14. CASE RemoveWalk(e)
    <2>1. epc[e] = "remWalk"
      BY <1>14 DEF RemoveWalk, EStep
    <2>2. PICK i, j \in DOMAIN s : i < j /\ s[j] = cur[e] /\ prev[e] = s[i] /\ eptr[e] = s[i]
      BY <1>4, <2>1 DEF Removing
    <2>3. i + 1 \in DOMAIN s /\ i # Len(s)
      BY <1>3, <2>2
    <2>4. node[eptr[e]].next = s[i + 1] /\ s[i + 1] # NULL
      BY <1>3, <1>4, <2>2, <2>3 DEF Chain
    <2>5. epc'[e] = "remMatch" /\ cur' = cur /\ eptr'[e] = s[i + 1] /\ prev' = prev
      BY <1>1, <1>14, <2>4 DEF RemoveWalk, EStep, ElevatorType, ride
    <2>6. Removing(s, e)'
      BY <2>2, <2>5 DEF Removing
    <2> QED
      BY <1>11, <2>1, <2>5, <2>6 DEF AtWork
  <1>15. CASE RemoveFound(e)
    <2>1. /\ epc[e] = "remMatch" /\ epc'[e] = "remSet" /\ matchesRequest(eptr[e], cur[e])
          /\ cur' = cur /\ eptr' = eptr /\ prev' = prev /\ nxt'[e] = node[eptr[e]].next
      BY <1>1, <1>15 DEF RemoveFound, EStep, ElevatorType, ride
    <2>2. PICK i, j \in DOMAIN s :
            i < j /\ s[j] = cur[e] /\ prev[e] = s[i] /\ eptr[e] = s[i + 1]
      BY <1>4, <2>1 DEF Removing
    <2>3. i + 1 \in DOMAIN s
      BY <1>3, <2>2
    <2>4. s[i + 1] = s[j]
      BY <1>1, <1>3, <2>1, <2>2, <2>3, OneRequest DEF matchesRequest
    <2>5. j = i + 1
      BY <1>4, <2>3, <2>4 DEF Chain
    <2>6. Removing(s, e)'
      BY <1>2, <2>1, <2>2, <2>4, <2>5 DEF Removing
    <2> QED
      BY <1>11, <2>1, <2>6 DEF AtWork
  <1>16. CASE RemoveSkip(e)
    <2>1. CASE epc[e] = "remMatch"
      <3>1. /\ epc'[e] = "remSkip" /\ ~matchesRequest(eptr[e], cur[e])
            /\ cur' = cur /\ eptr' = eptr /\ prev' = prev
        BY <1>1, <1>16, <2>1 DEF RemoveSkip, EStep, ElevatorType, ride
      <3>2. PICK i, j \in DOMAIN s :
              i < j /\ s[j] = cur[e] /\ prev[e] = s[i] /\ eptr[e] = s[i + 1]
        BY <1>4, <2>1 DEF Removing
      <3>3. j # i + 1
        BY <3>1, <3>2 DEF matchesRequest
      <3>4. Removing(s, e)'
        BY <3>1, <3>2, <3>3 DEF Removing
      <3> QED
        BY <1>11, <2>1, <3>1, <3>4 DEF AtWork
    <2>2. CASE epc[e] # "remMatch"
      <3>1. /\ epc[e] = "remSkip" /\ epc'[e] = "remWalk"
            /\ cur' = cur /\ eptr' = eptr /\ prev'[e] = node[prev[e]].next
        BY <1>1, <1>16, <2>2 DEF RemoveSkip, EStep, ElevatorType, ride
      <3>2. PICK i, j \in DOMAIN s :
              i < j /\ s[j] = cur[e] /\ prev[e] = s[i] /\ eptr[e] = s[i + 1] /\ j # i + 1
        BY <1>4, <3>1 DEF Removing
      <3>3. i + 1 \in DOMAIN s /\ i # Len(s) /\ i + 1 < j
        BY <1>3, <3>2
      <3>4. prev'[e] = s[i + 1]
        BY <1>4, <3>1, <3>2, <3>3 DEF Chain
      <3>5. Removing(s, e)'
        BY <3>1, <3>2, <3>3, <3>4 DEF Removing
      <3> QED
        BY <1>11, <3>1, <3>5 DEF AtWork
    <2> QED
      BY <2>1, <2>2
  <1>17. CASE /\ UNCHANGED <<headOfRequests, node, cur, eptr, prev, nxt>>
              /\ epc'[e] = epc[e]
    <2>1. Keeping(s, e)'
      <3>1. CASE Serving(e) \/ epc[e] \in RemovePC
        <4>1. cur[e][1] \in Passengers
          BY <1>4, <1>6, <3>1 DEF Keeping
        <4> QED
          BY <1>4, <1>5, <1>17, <3>1, <4>1 DEF Keeping
      <3> QED
        BY <1>17, <3>1 DEF Keeping, Serving
    <2> QED
      BY <1>4, <1>17, <2>1 DEF AtWork, Looking, Removing
  <1>18. CASE epc'[e] \in {"loop", "grab", "peek", "last", "end"}
    BY <1>18 DEF AtWork, Looking, Keeping, Removing, Serving, RidePC
  <1>19. CASE /\ UNCHANGED <<headOfRequests, node, cur, eptr, prev, nxt>>
              /\ Serving(e) /\ epc'[e] \in RidePC \cup {"remove"}
    <2>1. epc[e] \notin Unlinked /\ epc'[e] \notin RemovePC \cup {"walk", "take"}
      BY <1>19 DEF Serving, RidePC
    <2>2. Keeping(s, e)'
      BY <1>4, <1>19, <2>1 DEF Keeping
    <2> QED
      BY <2>1, <2>2 DEF AtWork, Looking, Removing
  <1> QED
    BY <1>1, <1>7, <1>8, <1>9, <1>10, <1>12, <1>13, <1>14, <1>15, <1>16, <1>17,
       <1>18, <1>19, EActions

\* Where the i-th place comes from when k to m are cut out.
Place(i, k, m) == IF i < k THEN i ELSE i + (m + 1 - k)

\* t is s without its places k to m.
IsCut(t, s, k, m) ==
  /\ Len(t) = Len(s) - (m + 1 - k)
  /\ \A i \in DOMAIN t : Place(i, k, m) \in DOMAIN s /\ t[i] = s[Place(i, k, m)]
  /\ \A i \in DOMAIN t : \A j \in k .. m : t[i] # s[j]
  /\ \A i \in DOMAIN s : i \notin k .. m => \E j \in DOMAIN t : t[j] = s[i]
  /\ \A i, j \in DOMAIN t : t[i] = t[j] => i = j

\* Any part of the list can be cut out of it.
LEMMA Cut ==
  ASSUME NEW s \in Lists, \A i, j \in DOMAIN s : s[i] = s[j] => i = j,
         NEW k \in DOMAIN s, NEW m \in DOMAIN s, k <= m
  PROVE  \E t \in Lists : IsCut(t, s, k, m)
  <1> DEFINE gap == m + 1 - k
             t == [i \in 1 .. Len(s) - gap |-> s[Place(i, k, m)]]
  <1>1. /\ Len(s) \in Nat /\ DOMAIN s = 1 .. Len(s) /\ k \in 1 .. Len(s) /\ m \in 1 .. Len(s)
        /\ \A i \in DOMAIN s : s[i] \in Nodes
    BY ListFacts
  <1>2. gap \in Nat /\ Len(s) - gap \in Nat
    BY <1>1
  <1>3. ASSUME NEW i \in 1 .. Len(s) - gap
        PROVE  Place(i, k, m) \in DOMAIN s /\ Place(i, k, m) \notin k .. m
    BY <1>1 DEF Place
  <1>4. t \in [1 .. Len(s) - gap -> Nodes]
    BY <1>1, <1>3
  <1>5. /\ t \in Seq(Nodes) /\ Len(t) = Len(s) - gap /\ DOMAIN t = 1 .. Len(s) - gap
        /\ \A i \in DOMAIN t : t[i] = s[Place(i, k, m)]
    <2>1. \A i \in 1 .. Len(s) - gap : t[i] = s[Place(i, k, m)]
      OBVIOUS
    <2> HIDE DEF t
    <2> QED
      BY <1>2, <1>4, <2>1
  <1> HIDE DEF t
  <1>6. ASSUME NEW i \in DOMAIN t, NEW j \in k .. m PROVE t[i] # s[j]
    <2>1. j \in DOMAIN s
      BY <1>1
    <2> QED
      BY <1>3, <1>5, <2>1
  <1>7. ASSUME NEW i \in DOMAIN s, i \notin k .. m PROVE \E j \in DOMAIN t : t[j] = s[i]
    <2>1. CASE i < k
      <3>1. i \in 1 .. Len(s) - gap /\ Place(i, k, m) = i
        BY <1>1, <2>1 DEF Place
      <3> QED
        BY <1>5, <3>1
    <2>2. CASE ~(i < k)
      <3>1. i - gap \in 1 .. Len(s) - gap /\ Place(i - gap, k, m) = i
        BY <1>1, <1>7, <2>2 DEF Place
      <3> QED
        BY <1>5, <3>1
    <2> QED
      BY <2>1, <2>2
  <1>8. ASSUME NEW i \in DOMAIN t, NEW j \in DOMAIN t, t[i] = t[j] PROVE i = j
    <2>1. Place(i, k, m) = Place(j, k, m)
      BY <1>3, <1>5, <1>8
    <2> QED
      BY <1>1, <1>5, <2>1 DEF Place
  <1>9. t \in Lists
    BY <1>5, <1>8, ListBound
  <1> QED
    BY <1>3, <1>5, <1>6, <1>7, <1>8, <1>9 DEF IsCut

\* Whoever stands in front of k is made to point behind m.
LEMMA Unlink ==
  ASSUME NEW s \in Lists, Chain(s),
         NEW k \in DOMAIN s, NEW m \in DOMAIN s, k <= m,
         NEW after, after = IF m = Len(s) THEN NULL ELSE s[m + 1],
         headOfRequests' = IF k = 1 THEN after ELSE headOfRequests,
         \A n \in Nodes :
           /\ node'[n].status = node[n].status
           /\ node'[n].next = IF k # 1 /\ n = s[k - 1] THEN after ELSE node[n].next
  PROVE  \E t \in Lists : IsCut(t, s, k, m) /\ Chain(t)'
  <1>1. \A i, j \in DOMAIN s : s[i] = s[j] => i = j
    BY DEF Chain
  <1>2. PICK t \in Lists : IsCut(t, s, k, m)
    BY <1>1, Cut
  <1>3. /\ Len(t) = Len(s) - (m + 1 - k)
        /\ \A i \in DOMAIN t : Place(i, k, m) \in DOMAIN s /\ t[i] = s[Place(i, k, m)]
        /\ \A i, j \in DOMAIN t : t[i] = t[j] => i = j
    BY <1>2 DEF IsCut
  <1>4. /\ Len(s) \in Nat /\ DOMAIN s = 1 .. Len(s) /\ (s = <<>> <=> Len(s) = 0)
        /\ k \in 1 .. Len(s) /\ m \in 1 .. Len(s)
        /\ \A i \in DOMAIN s : s[i] \in Nodes
    BY ListFacts
  <1>5. Len(t) \in Nat /\ DOMAIN t = 1 .. Len(t) /\ (t = <<>> <=> Len(t) = 0)
    BY ListFacts
  <1>6. headOfRequests' = IF t = <<>> THEN NULL ELSE t[1]
    <2>1. CASE k = 1 /\ m = Len(s)
      BY <1>3, <1>4, <1>5, <2>1
    <2>2. CASE k = 1 /\ m # Len(s)
      <3>1. 1 \in DOMAIN t /\ t # <<>> /\ Place(1, k, m) = m + 1
        BY <1>3, <1>4, <1>5, <2>2 DEF Place
      <3> QED
        BY <1>3, <2>2, <3>1
    <2>3. CASE k # 1
      <3>1. 1 \in DOMAIN t /\ t # <<>> /\ s # <<>> /\ Place(1, k, m) = 1
        BY <1>3, <1>4, <1>5, <2>3 DEF Place
      <3>2. headOfRequests' = s[1]
        BY <2>3, <3>1 DEF Chain
      <3>3. t[1] = s[1]
        BY <1>3, <3>1
      <3> QED
        BY <3>1, <3>2, <3>3
    <2> QED
      BY <2>1, <2>2, <2>3
  <1>7. ASSUME NEW i \in DOMAIN t
        PROVE  /\ node'[t[i]].status = "live"
               /\ node'[t[i]].next = IF i = Len(t) THEN NULL ELSE t[i + 1]
    <2> DEFINE x == Place(i, k, m)
    <2>1. x \in DOMAIN s /\ t[i] = s[x] /\ s[x] \in Nodes
      BY <1>3, <1>4
    <2>2. node[s[x]].status = "live" /\ node[s[x]].next = IF x = Len(s) THEN NULL ELSE s[x + 1]
      BY <2>1 DEF Chain
    <2>3. CASE i = k - 1
      <3>1. k # 1 /\ x = k - 1
        BY <1>4, <1>5, <2>3 DEF Place
      <3>2. node'[t[i]].next = after
        BY <2>1, <3>1
      <3>3. i = Len(t) <=> m = Len(s)
        BY <1>3, <1>4, <2>3
      <3>4. i # Len(t) => i + 1 \in DOMAIN t /\ Place(i + 1, k, m) = m + 1
        BY <1>4, <1>5, <2>3 DEF Place
      <3>5. i # Len(t) => t[i + 1] = s[m + 1]
        BY <1>3, <3>4
      <3> HIDE DEF x
      <3> QED
        BY <2>1, <2>2, <3>2, <3>3, <3>5
    <2>4. CASE i # k - 1
      <3>1. k # 1 => k - 1 \in DOMAIN s /\ x # k - 1
        BY <1>3, <1>4, <1>5, <2>4 DEF Place
      <3>2. node'[t[i]].next = node[s[x]].next
        <4> HIDE DEF x
        <4>1. k # 1 => s[x] # s[k - 1]
          BY <2>1, <3>1 DEF Chain
        <4> QED
          BY <2>1, <4>1
      <3>3. i = Len(t) <=> x = Len(s)
        BY <1>3, <1>4, <1>5, <2>4 DEF Place
      <3>4. i # Len(t) => i + 1 \in DOMAIN t
        BY <1>5
      <3>5. Place(i + 1, k, m) = x + 1
        <4>1. i \in Int /\ k \in Int /\ m \in Int /\ (i < k <=> i + 1 < k)
          BY <1>4, <1>5, <2>4
        <4> QED
          BY <4>1 DEF Place
      <3>6. i # Len(t) => t[i + 1] = s[x + 1]
        BY <1>3, <3>4, <3>5
      <3> HIDE DEF x
      <3> QED
        BY <2>1, <2>2, <3>2, <3>3, <3>6
    <2> QED
      BY <2>3, <2>4
  <1>8. Chain(t)'
    BY <1>3, <1>6, <1>7 DEF Chain
  <1> QED
    BY <1>2, <1>8
\* An elevator's step keeps the requests of those who still need them.
LEMMA EMembers ==
  ASSUME OneTrip, TypeOK, NEW s \in Lists, Members(s), NEW e \in Elevators, ENext(e),
         NEW t \in Lists,
         \A i \in DOMAIN s : Delivered(s[i][1]) \/ \E j \in DOMAIN t : t[j] = s[i],
         \A j \in DOMAIN t : \E i \in DOMAIN s : t[j] = s[i]
  PROVE  Members(t)'
  <1>1. UNCHANGED <<ppc, trip>>
    BY EKeepsPassengers DEF pvars
  <1>2. \A p \in Passengers : (Filed(p)' <=> Filed(p)) /\ (Delivered(p)' <=> Delivered(p))
                                /\ Req(p)' = Req(p)
    BY <1>1 DEF Delivered, Filed, Req
  <1>3. ASSUME NEW j \in DOMAIN t PROVE Filed(t[j][1])'
    <2>1. PICK i \in DOMAIN s : t[j] = s[i]
      OBVIOUS
    <2>2. Filed(s[i][1]) /\ s[i][1] \in Passengers
      BY ListFacts, OneRequest DEF Members
    <2> QED
      BY <1>2, <2>1, <2>2
  <1>4. ASSUME NEW p \in Passengers, Filed(p)', ~Delivered(p)'
        PROVE  \E j \in DOMAIN t : t[j] = Req(p)'
    <2>1. Filed(p) /\ ~Delivered(p)
      BY <1>2, <1>4
    <2>2. PICK i \in DOMAIN s : s[i] = Req(p)
      BY <2>1 DEF Members
    <2>3. s[i][1] = p
      BY <2>2 DEF Req
    <2> QED
      BY <1>2, <2>1, <2>2, <2>3
  <1> QED
    BY <1>3, <1>4 DEF Members

\* Claiming is in order, and the first claim of the node.
LEMMA ETakes ==
  ASSUME OneTrip, IInv, Opening, NEW s \in Lists, ListAt(s),
         NEW e \in Elevators, ENext(e), Take(e)
  PROVE  Chain(s)' /\ Members(s)' /\ Order(s)' /\ AtWork(s, e)'
  <1>1. TypeOK /\ ElevatorType /\ ListType
    BY DEF IInv, TypeOK
  <1>2. /\ epc[e] = "take" /\ epc'[e] = "pickup" /\ cur'[e] = eptr[e]
        /\ headOfRequests' = headOfRequests
        /\ node' = [node EXCEPT ![eptr[e]].elevatorId = e]
    BY <1>1 DEF Take, EStep, ElevatorType
  <1>3. PICK i \in DOMAIN s :
          /\ eptr[e] = s[i]
          /\ \A j \in 1 .. i - 1 : node[s[j]].elevatorId # NoElevator
    BY <1>2 DEF ListAt, AtWork, Looking
  <1>4. /\ Len(s) \in Nat /\ DOMAIN s = 1 .. Len(s) /\ \A j \in DOMAIN s : s[j] \in Nodes
    BY ListFacts
  <1>5. \A n \in Nodes :
          /\ node'[n].status = node[n].status /\ node'[n].next = node[n].next
          /\ node'[n].elevatorId = IF n = eptr[e] THEN e ELSE node[n].elevatorId
    BY <1>1, <1>2 DEF ListType, NodeState
  <1>6. Chain(s)'
    BY <1>2, <1>4, <1>5 DEF ListAt, Chain
  <1>7. Order(s)'
    <2>1. SUFFICES ASSUME NEW k \in DOMAIN s, NEW j \in DOMAIN s, k < j,
                          node'[s[j]].elevatorId # NoElevator
                   PROVE  node'[s[k]].elevatorId # NoElevator
      BY DEF Order
    <2>2. node[s[k]].elevatorId # NoElevator
      <3>1. CASE node[s[j]].elevatorId # NoElevator
        BY <2>1, <3>1 DEF ListAt, Order
      <3>2. CASE node[s[j]].elevatorId = NoElevator
        <4>1. s[j] = s[i]
          BY <1>3, <1>4, <1>5, <2>1, <3>2
        <4>2. j = i
          BY <4>1 DEF ListAt, Chain
        <4>3. k \in 1 .. i - 1
          BY <1>4, <2>1, <4>2
        <4> QED
          BY <1>3, <4>3
      <3> QED
        BY <3>1, <3>2
    <2> QED
      BY <1>4, <1>5, <2>2, BuildingAssumption
  <1>8. Members(s)'
    BY <1>1, EMembers DEF ListAt
  <1>9. Keeping(s, e)'
    BY <1>2, <1>3, <1>4, <1>5 DEF Keeping, RemovePC, Unlinked
  <1>10. AtWork(s, e)'
    BY <1>2, <1>9 DEF AtWork, Looking, Removing
  <1> QED
    BY <1>6, <1>7, <1>8, <1>10

\* What is cleared and freed has been unlinked.
LEMMA EFrees ==
  ASSUME OneTrip, IInv, Opening, NEW s \in Lists, ListAt(s),
         NEW e \in Elevators, ENext(e), RemoveClear(e) \/ RemoveFree(e)
  PROVE  Chain(s)' /\ Members(s)' /\ Order(s)' /\ AtWork(s, e)'
  <1>1. TypeOK /\ ElevatorType /\ ListType
    BY DEF IInv, TypeOK
  <1>2. /\ epc[e] \in Unlinked /\ headOfRequests' = headOfRequests
        /\ cur' = cur /\ eptr' = eptr
        /\ \A n \in Nodes : n # eptr[e] => node'[n] = node[n]
    BY <1>1 DEF RemoveClear, RemoveFree, EStep, Unlinked, ListType, ride, walk
  <1>3. /\ cur[e] \in Nodes /\ node[cur[e]].elevatorId = e /\ eptr[e] = cur[e]
        /\ node[cur[e]].status = "live" /\ Delivered(cur[e][1])
        /\ \A i \in DOMAIN s : s[i] # cur[e]
    BY <1>2 DEF ListAt, AtWork, Keeping, RemovePC, Unlinked
  <1>4. /\ DOMAIN s = 1 .. Len(s) /\ Len(s) \in Nat /\ \A i \in DOMAIN s : s[i] \in Nodes
    BY ListFacts
  <1>5. \A i \in DOMAIN s : node'[s[i]] = node[s[i]]
    BY <1>2, <1>3, <1>4
  <1>6. Chain(s)' /\ Order(s)'
    BY <1>2, <1>4, <1>5 DEF ListAt, Chain, Order
  <1>7. Members(s)'
    BY <1>1, EMembers DEF ListAt
  <1>8. AtWork(s, e)'
    <2>1. CASE RemoveFree(e)
      <3>1. epc'[e] = "check"
        BY <1>1, <2>1 DEF RemoveFree, EStep, ElevatorType
      <3> QED
        BY <3>1 DEF AtWork, Looking, Keeping, Removing, Serving, RidePC, RemovePC
    <2>2. CASE RemoveClear(e)
      <3>1. epc'[e] = "remFree" /\ node' = [node EXCEPT ![eptr[e]].next = NULL]
        BY <1>1, <2>2 DEF RemoveClear, EStep, ElevatorType
      <3>2. node'[cur[e]].status = "live" /\ node'[cur[e]].elevatorId = e
        BY <1>1, <1>3, <3>1 DEF ListType, NodeState
      <3>3. Delivered(cur[e][1])'
        <4>1. ppc' = ppc /\ trip' = trip
          BY EKeepsPassengers DEF pvars
        <4> QED
          BY <1>2, <1>3, <4>1 DEF Delivered, Filed
      <3>4. Keeping(s, e)'
        BY <1>2, <1>3, <3>1, <3>2, <3>3 DEF Keeping, Unlinked
      <3> QED
        BY <3>1, <3>4 DEF AtWork, Looking, Removing
    <2> QED
      BY <2>1, <2>2
  <1> QED
    BY <1>6, <1>7, <1>8

\* Unlinking an inner node or the head takes it, and it alone, out of the list.
LEMMA EUnlinks ==
  ASSUME OneTrip, IInv, Opening, NEW s \in Lists, ListAt(s),
         NEW e \in Elevators, ENext(e), RemoveHeadSet(e) \/ RemoveSet(e)
  PROVE  \E t \in Lists :
           /\ Chain(t)' /\ Members(t)' /\ Order(t)' /\ AtWork(t, e)'
           /\ \A i \in DOMAIN s : s[i] # cur[e] => \E j \in DOMAIN t : t[j] = s[i]
  <1>1. TypeOK /\ ElevatorType /\ ListType
    BY DEF IInv, TypeOK
  <1>2. Chain(s) /\ Order(s) /\ Members(s) /\ Keeping(s, e) /\ Removing(s, e)
    BY DEF ListAt, AtWork
  <1>3. /\ Len(s) \in Nat /\ DOMAIN s = 1 .. Len(s) /\ (s = <<>> <=> Len(s) = 0)
        /\ \A i \in DOMAIN s : s[i] \in Nodes
    BY ListFacts
  <1>4. /\ epc[e] \in {"remHeadSet", "remSet"}
        /\ epc'[e] = IF epc[e] = "remHeadSet" THEN "remClear" ELSE "remFree"
        /\ cur' = cur /\ eptr' = eptr /\ prev' = prev /\ nxt' = nxt
        /\ IF epc[e] = "remHeadSet"
           THEN headOfRequests' = nxt[e] /\ node' = node
           ELSE headOfRequests' = headOfRequests /\ node' = [node EXCEPT ![prev[e]].next = nxt[e]]
    BY <1>1 DEF RemoveHeadSet, RemoveSet, EStep, ElevatorType, ride, walk
  <1>5. cur[e] \in Nodes /\ node[cur[e]].elevatorId = e /\ Delivered(cur[e][1])
    BY <1>2, <1>4 DEF Keeping, RemovePC
  \* k is the place of the request; in front of it is the head or prev.
  <1>6. PICK k \in DOMAIN s :
          /\ s[k] = cur[e] /\ eptr[e] = cur[e] /\ nxt[e] = node[cur[e]].next
          /\ epc[e] = "remHeadSet" => k = 1
          /\ epc[e] = "remSet" => k - 1 \in DOMAIN s /\ prev[e] = s[k - 1]
    <2>1. CASE epc[e] = "remHeadSet"
      <3>1. s # <<>> /\ s[1] = cur[e] /\ eptr[e] = cur[e] /\ nxt[e] = node[cur[e]].next
        BY <1>2, <2>1 DEF Removing
      <3>2. 1 \in DOMAIN s
        BY <1>3, <3>1
      <3> QED
        BY <2>1, <3>1, <3>2
    <2>2. CASE epc[e] = "remSet"
      <3>1. PICK i, j \in DOMAIN s :
              /\ i < j /\ s[j] = cur[e] /\ prev[e] = s[i] /\ eptr[e] = s[i + 1]
              /\ j = i + 1 /\ nxt[e] = node[cur[e]].next
        BY <1>2, <2>2 DEF Removing
      <3>2. j - 1 = i
        BY <1>3, <3>1
      <3> QED
        BY <2>2, <3>1, <3>2
    <2> QED
      BY <1>4, <2>1, <2>2
  <1>7. \A n \in Nodes : /\ node'[n].status = node[n].status
                         /\ node'[n].elevatorId = node[n].elevatorId
                         /\ node'[n].next = IF epc[e] = "remSet" /\ n = s[k - 1]
                                            THEN nxt[e] ELSE node[n].next
    BY <1>1, <1>4, <1>6 DEF ListType, NodeState
  <1>8. PICK t \in Lists : IsCut(t, s, k, k) /\ Chain(t)'
    <2> DEFINE after == IF k = Len(s) THEN NULL ELSE s[k + 1]
    <2>1. nxt[e] = after
      BY <1>2, <1>6 DEF Chain
    <2>2. k # 1 <=> epc[e] = "remSet"
      BY <1>3, <1>4, <1>6
    <2>3. headOfRequests' = IF k = 1 THEN after ELSE headOfRequests
      BY <1>4, <2>1, <2>2
    <2>4. \A n \in Nodes :
            /\ node'[n].status = node[n].status
            /\ node'[n].next = IF k # 1 /\ n = s[k - 1] THEN after ELSE node[n].next
      BY <1>7, <2>1, <2>2
    <2>5. k <= k
      BY <1>3
    <2> HIDE DEF after
    <2>6. after = IF k = Len(s) THEN NULL ELSE s[k + 1]
      BY DEF after
    <2> QED
      BY <1>2, <2>3, <2>4, <2>5, <2>6, Unlink
  <1>9. /\ Len(t) = Len(s) - 1
        /\ \A i \in DOMAIN t : /\ Place(i, k, k) \in DOMAIN s /\ t[i] = s[Place(i, k, k)]
                               /\ t[i] # s[k]
        /\ \A i \in DOMAIN s : i # k => \E j \in DOMAIN t : t[j] = s[i]
    BY <1>3, <1>8 DEF IsCut
  <1>10. /\ Len(t) \in Nat /\ DOMAIN t = 1 .. Len(t) /\ \A i \in DOMAIN t : t[i] \in Nodes
    BY ListFacts
  <1>11. Order(t)'
    <2>1. SUFFICES ASSUME NEW i \in DOMAIN t, NEW j \in DOMAIN t, i < j,
                          node'[t[j]].elevatorId # NoElevator
                   PROVE  node'[t[i]].elevatorId # NoElevator
      BY DEF Order
    <2> DEFINE x == Place(i, k, k)
               y == Place(j, k, k)
    <2>2. x \in DOMAIN s /\ y \in DOMAIN s /\ t[i] = s[x] /\ t[j] = s[y]
      BY <1>9
    <2>3. x < y
      BY <1>3, <1>10, <2>1 DEF Place
    <2> HIDE DEF x, y
    <2>4. node[s[y]].elevatorId # NoElevator
      BY <1>7, <1>10, <2>1, <2>2
    <2>5. node[s[x]].elevatorId # NoElevator
      BY <1>2, <2>2, <2>3, <2>4 DEF Order
    <2> QED
      BY <1>7, <1>10, <2>2, <2>5
  <1>12. Members(t)'
    <2>1. \A i \in DOMAIN s : Delivered(s[i][1]) \/ \E j \in DOMAIN t : t[j] = s[i]
      BY <1>5, <1>6, <1>9
    <2>2. \A j \in DOMAIN t : \E i \in DOMAIN s : t[j] = s[i]
      BY <1>9
    <2> QED
      BY <1>1, <1>2, <2>1, <2>2, EMembers
  <1>13. AtWork(t, e)'
    <2>1. ppc' = ppc /\ trip' = trip
      BY EKeepsPassengers DEF pvars
    <2>2. Delivered(cur[e][1])'
      BY <1>4, <1>5, <2>1 DEF Delivered, Filed
    <2>3. node[cur[e]].status = "live"
      BY <1>2, <1>6 DEF Chain
    <2>4. /\ eptr'[e] = cur'[e] /\ cur'[e] \in Nodes
          /\ node'[cur'[e]].status = "live" /\ node'[cur'[e]].elevatorId = e
          /\ \A i \in DOMAIN t : t[i] # cur'[e]
      BY <1>4, <1>5, <1>6, <1>7, <1>9, <2>3
    <2>5. epc'[e] \in Unlinked /\ epc'[e] \in {"remClear", "remFree"}
      BY <1>4 DEF Unlinked
    <2>6. Keeping(t, e)'
      BY <2>2, <2>4, <2>5 DEF Keeping
    <2> QED
      BY <2>5, <2>6 DEF AtWork, Looking, Removing
  <1>14. \A i \in DOMAIN s : s[i] # cur[e] => \E j \in DOMAIN t : t[j] = s[i]
    BY <1>6, <1>9
  <1> QED
    BY <1>8, <1>11, <1>12, <1>13, <1>14

\* An elevator's step leaves the list a list.
LEMMA EListAt ==
  ASSUME OneTrip, IInv, Opening, NEW s \in Lists, ListAt(s),
         NEW e \in Elevators, ENext(e)
  PROVE  \E t \in Lists : ListAt(t)'
  <1>1. TypeOK
    BY DEF IInv
  <1>2. CASE Take(e) \/ RemoveClear(e) \/ RemoveFree(e)
    <2>1. epc[e] \in ElevatorCS
      BY <1>2 DEF Take, RemoveClear, RemoveFree, EStep, ElevatorCS
    <2>2. Chain(s)' /\ Members(s)' /\ Order(s)' /\ AtWork(s, e)'
      BY <1>2, ETakes, EFrees
    <2>3. \A d \in Elevators \ {e} : AtWork(s, d)'
      BY <2>1, EOthers
    <2>4. Appending(s)'
      BY <2>1, EKeepsAppending
    <2> QED
      BY <2>2, <2>3, <2>4 DEF ListAt
  <1>3. CASE RemoveHeadSet(e) \/ RemoveSet(e)
    <2>1. epc[e] \in ElevatorCS /\ epc[e] \in RemovePC
      BY <1>3 DEF RemoveHeadSet, RemoveSet, EStep, ElevatorCS, RemovePC
    <2>2. PICK t \in Lists :
            /\ Chain(t)' /\ Members(t)' /\ Order(t)' /\ AtWork(t, e)'
            /\ \A i \in DOMAIN s : s[i] # cur[e] => \E j \in DOMAIN t : t[j] = s[i]
      BY <1>3, EUnlinks
    <2>3. node[cur[e]].elevatorId = e
      BY <2>1 DEF ListAt, AtWork, Keeping
    <2>4. \A d \in Elevators \ {e} : AtWork(t, d)'
      BY <2>1, <2>2, <2>3, EOthers
    <2>5. Appending(t)'
      BY <2>1, EKeepsAppending
    <2> QED
      BY <2>2, <2>4, <2>5 DEF ListAt
  <1>4. CASE ~Take(e) /\ ~RemoveHeadSet(e) /\ ~RemoveClear(e) /\ ~RemoveSet(e) /\ ~RemoveFree(e)
    <2>1. headOfRequests' = headOfRequests /\ node' = node
      BY <1>4, EList DEF listVars
    <2>2. AtWork(s, e)'
      BY <1>4, EWalking
    <2>3. \A d \in Elevators \ {e} : AtWork(s, d)'
      BY <2>1, EOthers
    <2>4. Appending(s)'
      BY <2>1, EKeepsAppending
    <2>5. Chain(s)' /\ Order(s)'
      BY <2>1 DEF ListAt, Chain, Order
    <2>6. Members(s)'
      BY <1>1, EMembers DEF ListAt
    <2> QED
      BY <2>2, <2>3, <2>4, <2>5, <2>6 DEF ListAt
  <1> QED
    BY <1>2, <1>3, <1>4

-----------------------------------------------------------------------------
(* The invariant, and what follows from it.                                 *)

\* The empty list.
LEMMA EmptyList == \E s \in Lists : s = <<>> /\ DOMAIN s = {}
  <1> DEFINE s == [i \in 1 .. 0 |-> NULL]
  <1>1. s \in [1 .. 0 -> Nodes] /\ DOMAIN s = {}
    OBVIOUS
  <1>2. 0 \in 0 .. Cardinality(Nodes)
    BY NodesFinite
  <1>3. s \in Lists
    BY <1>1, <1>2 DEF Lists
  <1> HIDE DEF s
  <1>4. s = <<>>
    BY <1>1, <1>3, ListFacts
  <1> QED
    BY <1>1, <1>3, <1>4

\* The list is empty at the start.
LEMMA ListInit == Init => ListInv
  <1>1. SUFFICES ASSUME Init PROVE ListInv
    OBVIOUS
  <1>2. PICK s \in Lists : s = <<>> /\ DOMAIN s = {}
    BY EmptyList
  <1>3. /\ \A p \in Passengers : ppc[p] = "idle" /\ trip[p] = 0
        /\ \A e \in Elevators : epc[e] = "loop"
        /\ headOfRequests = NULL
    BY <1>1 DEF Init
  <1>4. Chain(s) /\ Members(s) /\ Order(s) /\ Appending(s)
    BY <1>2, <1>3 DEF Chain, Members, Order, Appending, Filed, Adding
  <1>5. \A e \in Elevators : AtWork(s, e)
    BY <1>3 DEF AtWork, Looking, Keeping, Removing, Serving, RidePC, RemovePC
  <1>6. ListAt(s)
    BY <1>4, <1>5 DEF ListAt
  <1> QED
    BY <1>1, <1>2, <1>6, StaticInit DEF ListInv

\* Every step keeps the list a list.
LEMMA ListStep == OneTrip /\ IInv /\ ListInv /\ [Next]_vars => ListInv'
  <1>1. SUFFICES ASSUME OneTrip, IInv, ListInv, [Next]_vars PROVE ListInv'
    OBVIOUS
  <1>2. TypeOK /\ Started /\ Mutex /\ Turns /\ Opening /\ Exited
    BY <1>1 DEF IInv, ListInv
  <1>3. PICK s \in Lists : ListAt(s)
    BY <1>1 DEF ListInv
  <1>4. ASSUME NEW p \in Passengers, PNext(p) PROVE ListInv'
    BY <1>1, <1>2, <1>3, <1>4, PTurns, POpening, PExited, PListAt DEF ListInv
  <1>5. ASSUME NEW e \in Elevators, ENext(e) PROVE ListInv'
    BY <1>1, <1>2, <1>3, <1>5, EStatic, EListAt DEF ListInv
  <1>6. CASE Stop \/ UNCHANGED vars
    <2>1. UNCHANGED <<headOfRequests, node, passengers, lock_for_request_s, waiting,
                      ppc, pptr, trip, epc, cur, eptr, prev, nxt>>
      BY <1>6 DEF Stop, vars, bvars, listVars, locks, gates, pvars, ride, walk
    <2>2. Turns' /\ Opening' /\ Exited'
      BY <1>2, <2>1 DEF Turns, Opening, Exited, Arrived, Delivered, Filed
    <2>3. Chain(s)' /\ Members(s)' /\ Order(s)' /\ Appending(s)'
      BY <1>3, <2>1 DEF ListAt, Chain, Members, Order, Appending, Delivered, Filed, Req
    <2>4. \A e \in Elevators : AtWork(s, e)'
      <3>1. SUFFICES ASSUME NEW e \in Elevators PROVE AtWork(s, e)'
        OBVIOUS
      <3>2. Looking(s, e) /\ Keeping(s, e) /\ Removing(s, e)
        BY <1>3 DEF ListAt, AtWork
      <3>3. Looking(s, e)' /\ Removing(s, e)'
        BY <2>1, <3>2 DEF Looking, Removing
      <3>4. Keeping(s, e)'
        BY <2>1, <3>2 DEF Keeping, Serving, Delivered, Filed
      <3> QED
        BY <3>3, <3>4 DEF AtWork
    <2> QED
      BY <2>2, <2>3, <2>4 DEF ListInv, ListAt
  <1> QED
    BY <1>1, <1>4, <1>5, <1>6 DEF Next, Halted

\* The list is well-formed at all times, whatever the threads do.
THEOREM ListWellFormed == OneTrip => (Spec => []ListInv)
  <1>1. SUFFICES ASSUME OneTrip PROVE Spec => []ListInv
    OBVIOUS
  <1>2. IInv /\ ListInv /\ [Next]_vars => ListInv'
    BY <1>1, ListStep
  <1> QED
    BY <1>2, ListInit, Invariance, PTL DEF Spec

\* No passenger's step touches NULL or freed memory.
LEMMA PTouchesLive ==
  ASSUME OneTrip, IInv, ListInv, NEW p \in Passengers
  PROVE  \A n \in PTouches(p) : n # NULL /\ node[n].status # "freed"
  <1>1. TypeOK /\ Started
    BY DEF IInv
  <1>2. PICK s \in Lists : ListAt(s)
    BY DEF ListInv
  <1>3. /\ Len(s) \in Nat /\ DOMAIN s = 1 .. Len(s) /\ (s = <<>> <=> Len(s) = 0)
        /\ \A i \in DOMAIN s : s[i] # NULL /\ node[s[i]].status = "live"
    BY <1>2, ListFacts, NodesFinite DEF ListAt, Chain
  <1>4. CASE ppc[p] \in {"addWalk", "addStep", "addLink"}
    <2>1. \E i \in DOMAIN s : pptr[p] = s[i]
      <3>1. s # <<>>
        BY <1>2, <1>4 DEF ListAt, Appending, Adding
      <3>2. Len(s) \in DOMAIN s
        BY <1>3, <3>1
      <3> QED
        BY <1>2, <1>4, <3>2 DEF ListAt, Appending
    <2> QED
      BY <1>3, <1>4, <2>1 DEF PTouches
  <1>5. CASE ppc[p] = "spin"
    <2>1. trip[p] = 1
      BY <1>1, <1>5, OneRequest DEF Started
    <2>2. Filed(p) /\ ~Delivered(p)
      BY <1>5, <2>1 DEF Filed, Delivered, Adding
    <2>3. \E i \in DOMAIN s : s[i] = Req(p)
      BY <1>2, <2>2 DEF ListAt, Members
    <2> QED
      BY <1>3, <1>5, <2>3 DEF PTouches
  <1>6. CASE ppc[p] \notin {"addWalk", "addStep", "addLink", "spin"}
    BY <1>6 DEF PTouches
  <1> QED
    BY <1>4, <1>5, <1>6

\* No elevator's step does either, but for the peek at an empty list, when
\* everyone has been delivered.
LEMMA ETouchesLive ==
  ASSUME OneTrip, IInv, ListInv, NEW e \in Elevators
  PROVE  \/ \A n \in ETouches(e) : n # NULL /\ node[n].status # "freed"
         \/ /\ ETouches(e) = {NULL}
            /\ \A p \in Passengers : passengers[p].state = "EXITED"
  <1>1. TypeOK /\ Opening /\ Exited
    BY DEF IInv, ListInv
  <1>2. PICK s \in Lists : ListAt(s)
    BY DEF ListInv
  <1>3. /\ Len(s) \in Nat /\ DOMAIN s = 1 .. Len(s) /\ (s = <<>> <=> Len(s) = 0)
        /\ \A i \in DOMAIN s : s[i] # NULL /\ node[s[i]].status = "live"
    BY <1>2, ListFacts, NodesFinite DEF ListAt, Chain
  <1>4. Chain(s) /\ Members(s) /\ Looking(s, e) /\ Keeping(s, e) /\ Removing(s, e)
    BY <1>2 DEF ListAt, AtWork
  <1>5. headOfRequests # NULL => \E i \in DOMAIN s : s[i] = headOfRequests
    BY <1>3, <1>4 DEF Chain
  <1>6. CASE epc[e] = "peek"
    <2>1. CASE headOfRequests # NULL
      BY <1>3, <1>5, <1>6, <2>1 DEF ETouches
    <2>2. CASE headOfRequests = NULL
      <3>1. DOMAIN s = {}
        BY <1>3, <1>4, <2>2 DEF Chain
      <3>2. \A p \in Passengers : Filed(p)
        BY <1>1, <1>6, EAlone DEF ElevatorCS, Arrived
      <3>3. \A p \in Passengers : Delivered(p)
        BY <1>4, <3>1, <3>2 DEF Members
      <3>4. \A p \in Passengers : passengers[p].state = "EXITED"
        BY <1>1, <3>3 DEF Exited
      <3> QED
        BY <1>6, <2>2, <3>4 DEF ETouches
    <2> QED
      BY <2>1, <2>2
  <1>7. CASE epc[e] \in {"walk", "take"}
    <2>1. eptr[e] = NULL \/ \E i \in DOMAIN s : eptr[e] = s[i]
      BY <1>4, <1>7 DEF Looking
    <2>2. epc[e] = "take" => \E i \in DOMAIN s : eptr[e] = s[i]
      BY <1>4 DEF Looking
    <2> QED
      BY <1>3, <1>7, <2>1, <2>2 DEF ETouches
  <1>8. CASE epc[e] \in {"plan", "remHead"}
    <2>1. \E i \in DOMAIN s : s[i] = cur[e]
      BY <1>4, <1>8 DEF Keeping, Serving, RidePC, RemovePC, Unlinked
    <2> QED
      BY <1>3, <1>5, <1>8, <2>1 DEF ETouches
  <1>9. CASE epc[e] = "remClear"
    <2>1. eptr[e] = cur[e] /\ cur[e] \in Nodes /\ node[cur[e]].status = "live"
      BY <1>4, <1>9 DEF Keeping, RemovePC, Unlinked
    <2> QED
      BY <1>9, <2>1, NodesFinite DEF ETouches
  <1>10. CASE epc[e] \in {"remWalk", "remMatch", "remSet", "remSkip"}
    <2>1. \E i \in DOMAIN s : prev[e] = s[i]
      BY <1>4, <1>10 DEF Removing
    <2>2. \E i \in DOMAIN s : eptr[e] = s[i]
      <3>1. CASE epc[e] = "remWalk"
        BY <1>4, <3>1 DEF Removing
      <3>2. CASE epc[e] # "remWalk"
        <4>1. PICK i, j \in DOMAIN s : i < j /\ eptr[e] = s[i + 1]
          BY <1>4, <1>10, <3>2 DEF Removing
        <4>2. i + 1 \in DOMAIN s
          BY <1>3, <4>1
        <4> QED
          BY <4>1, <4>2
      <3> QED
        BY <3>1, <3>2
    <2> QED
      BY <1>3, <1>10, <2>1, <2>2 DEF ETouches
  <1>11. CASE epc[e] \notin {"peek", "walk", "take", "plan", "remHead", "remClear",
                             "remWalk", "remMatch", "remSet", "remSkip"}
    BY <1>11 DEF ETouches
  <1> QED
    BY <1>6, <1>7, <1>8, <1>9, <1>10, <1>11

\* A dead process stays as it died.
LEMMA DeadStays ==
  ASSUME [Next]_vars, fault # "none"
  PROVE  fault' = fault /\ passengers' = passengers
  <1>1. ASSUME NEW p \in Passengers PROVE ~PNext(p)
    BY DEF PNext, StartTrip, EndPassenger, AddRequest, AddFirst, AddBehind,
       AddHead, AddWalk, AddStep, AddLink, Barrier, PassBarrier, WaitToBoard,
       LearnElevator, PassengerCheck, EnterElevator, ReportOn, WaitToUnload,
       ExitElevator, ReportOff, Return, PStep, Abort
  <1>2. ASSUME NEW e \in Elevators PROVE ~ENext(e)
    BY DEF ENext, Loop, Grab, PeekLast, PeekMore, WalkOff, WalkPast, WalkFound,
       Take, LastRemoved, WaitReady, Plan, ElevatorCheck, Move, Open,
       SignalPassenger, AwaitPassenger, CloseBoarded, CloseDelivered,
       LockToRemove, RemoveHeadFound, RemoveHeadSet, RemoveClear, RemoveOther,
       RemoveWalk, RemoveFound, RemoveSet, RemoveSkip, RemoveFree, CheckEmpty,
       EStep, Abort
  <1> QED
    BY <1>1, <1>2 DEF Next, Stop, Halted, vars, bvars, proc

\* A process that dies of a pointer dies late.
LEMMA LateStep == OneTrip /\ IInv /\ ListInv /\ OnlyLateCrash /\ [Next]_vars => OnlyLateCrash'
  <1>1. SUFFICES ASSUME OneTrip, IInv, ListInv, OnlyLateCrash, [Next]_vars
                 PROVE  OnlyLateCrash'
    OBVIOUS
  <1>2. CASE fault # "none"
    BY <1>1, <1>2, DeadStays DEF OnlyLateCrash
  <1>3. CASE fault = "none"
    <2>1. ASSUME NEW p \in Passengers, PNext(p) PROVE OnlyLateCrash'
      <3>1. PVerdict(p) \notin {"null", "uaf"}
        BY <1>1, PTouchesLive DEF PVerdict, Verdict
      <3> QED
        BY <1>3, <2>1, <3>1, PFault DEF OnlyLateCrash
    <2>2. ASSUME NEW e \in Elevators, ENext(e) PROVE OnlyLateCrash'
      <3>1. /\ EVerdict(e) # "uaf"
            /\ EVerdict(e) = "null" => \A p \in Passengers : passengers[p].state = "EXITED"
        <4>1. CASE \A n \in ETouches(e) : n # NULL /\ node[n].status # "freed"
          BY <4>1 DEF EVerdict, Verdict
        <4>2. CASE /\ ETouches(e) = {NULL}
                   /\ \A p \in Passengers : passengers[p].state = "EXITED"
          BY <4>2 DEF EVerdict, Verdict
        <4> QED
          BY <1>1, <4>1, <4>2, ETouchesLive
      <3>2. passengers' = passengers
        BY <2>2, ERecord
      <3> QED
        BY <1>3, <2>2, <3>1, <3>2, EFault DEF OnlyLateCrash
    <2>3. CASE Stop \/ UNCHANGED vars
      BY <1>3, <2>3 DEF Stop, vars, proc, OnlyLateCrash
    <2> QED
      BY <1>1, <2>1, <2>2, <2>3 DEF Next, Halted
  <1> QED
    BY <1>2, <1>3

\* Freed memory is never touched, and NULL only when everyone has been
\* delivered (hw5.c:297).
THEOREM CrashesLate == OneTrip => (Spec => []OnlyLateCrash)
  <1>1. SUFFICES ASSUME OneTrip PROVE Spec => []OnlyLateCrash
    OBVIOUS
  <1>2. Init => OnlyLateCrash
    BY DEF Init, OnlyLateCrash
  <1>3. IInv /\ ListInv /\ OnlyLateCrash /\ [Next]_vars => OnlyLateCrash'
    BY <1>1, LateStep
  <1>4. Spec => []ListInv
    BY <1>1, ListWellFormed
  <1> QED
    BY <1>2, <1>3, <1>4, Invariance, PTL DEF Spec

\* A request that has been appended is in the list until its passenger is
\* delivered.
LEMMA FiledIsListed ==
  ASSUME ListInv, NEW p \in Passengers, Filed(p), ~Delivered(p)
  PROVE  Req(p) \in Listed
  <1>1. PICK s \in Lists : ListAt(s)
    BY DEF ListInv
  <1>2. \E i \in DOMAIN s : s[i] = Req(p)
    BY <1>1 DEF ListAt, Members
  <1> QED
    BY <1>1, <1>2, ListedIs DEF ListAt

\* From the barrier on, claimed or not.
BehindBarrier ==
  \A p \in Passengers : ppc[p] \in {"barrier", "pass", "board"} => Req(p) \in Listed

\* A request that has passed addRequest is listed while it is waited for.
LEMMA BehindBarrierListed ==
  ASSUME OneTrip, IInv, ListInv
  PROVE  BehindBarrier
  <1>1. SUFFICES ASSUME NEW p \in Passengers, ppc[p] \in {"barrier", "pass", "board"}
                 PROVE  Req(p) \in Listed
    BY DEF BehindBarrier
  <1>2. trip[p] = 1
    BY <1>1, OneRequest DEF IInv, Started
  <1>3. Filed(p) /\ ~Delivered(p)
    BY <1>1, <1>2 DEF Filed, Delivered, Adding
  <1> QED
    BY <1>3, FiledIsListed

\* No appended request is ever lost.
THEOREM NothingLost == OneTrip => (Spec => []NoLostRequest)
  <1>1. SUFFICES ASSUME OneTrip PROVE Spec => []NoLostRequest
    OBVIOUS
  <1>2. IInv /\ ListInv => NoLostRequest
    BY <1>1, BehindBarrierListed DEF BehindBarrier, NoLostRequest
  <1>3. Spec => []ListInv
    BY <1>1, ListWellFormed
  <1> QED
    BY <1>2, <1>3, Invariance, PTL

\* addRequest leaves its request in the list.
THEOREM Appends == OneTrip => (Spec => AppendsToList)
  <1>1. SUFFICES ASSUME OneTrip PROVE Spec => AppendsToList
    OBVIOUS
  <1>2. IInv /\ ListInv => BehindBarrier
    BY <1>1, BehindBarrierListed
  <1>3. BehindBarrier' => [\A p \in Passengers :
          ppc[p] # "barrier" /\ ppc'[p] = "barrier" => (Req(p) \in Listed)']_vars
    BY DEF BehindBarrier
  <1>4. Spec => []ListInv
    BY <1>1, ListWellFormed
  <1> QED
    BY <1>2, <1>3, <1>4, Invariance, PTL DEF AppendsToList

\* Requests are claimed first come, first served.
THEOREM InOrder == OneTrip => (Spec => []ClaimedInOrder)
  <1>1. SUFFICES ASSUME OneTrip PROVE Spec => []ClaimedInOrder
    OBVIOUS
  <1>2. ASSUME ListInv PROVE ClaimedInOrder
    <2>1. PICK s \in Lists : ListAt(s)
      BY <1>2 DEF ListInv
    <2>2. Listed = {s[i] : i \in DOMAIN s}
      BY <2>1, ListedIs DEF ListAt
    <2>3. SUFFICES ASSUME NEW i \in DOMAIN s, NEW n \in Listed, node[s[i]].next = n,
                          node[n].elevatorId # NoElevator
                   PROVE  node[s[i]].elevatorId # NoElevator
      BY <2>2 DEF ClaimedInOrder
    <2>4. /\ Len(s) \in Nat /\ DOMAIN s = 1 .. Len(s)
          /\ \A j \in DOMAIN s : s[j] # NULL
      BY ListFacts, NodesFinite
    <2>5. i # Len(s) /\ n = s[i + 1] /\ i + 1 \in DOMAIN s /\ i < i + 1
      BY <2>1, <2>2, <2>3, <2>4 DEF ListAt, Chain
    <2> QED
      BY <2>1, <2>3, <2>5 DEF ListAt, Order
  <1>3. Spec => []ListInv
    BY <1>1, ListWellFormed
  <1> QED
    BY <1>2, <1>3, PTL
=============================================================================
