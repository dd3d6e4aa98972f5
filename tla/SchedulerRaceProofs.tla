------------------------ MODULE SchedulerRaceProofs ------------------------
(***************************************************************************)
(* The list of Scheduler when passengers return and appending meets        *)
(* removing: requests get lost, but the list the elevators see is at all   *)
(* times a sequence of live nodes, and the requests they serve are in it,  *)
(* as long as no two requests are equal.                                   *)
(***************************************************************************)
EXTENDS SchedulerListProofs

-----------------------------------------------------------------------------
(* Equal requests.                                                          *)

\* A passenger on a trip has a request.
LEMMA HasRequest ==
  ASSUME TypeOK, Started, NEW p \in Passengers, ppc[p] \notin {"idle", "end"}
  PROVE  Req(p) \in Nodes
  BY DEF TypeOK, PassengerType, Started, Req, Nodes

\* The request addRequest is about to fill in is blank.
LEMMA BlankRequest ==
  ASSUME IInv, NEW p \in Passengers, AddRequest(p)
  PROVE  Req(p) \in Nodes /\ node[Req(p)] = Unallocated
  <1>1. ppc[p] = "request" /\ TypeOK /\ Started /\ Pointers
    BY DEF IInv, AddRequest, PStep
  <1>2. Req(p) \in Nodes
    BY <1>1, HasRequest
  <1>3. ~Made(Req(p))
    BY <1>1 DEF Made, Req, TypeOK, PassengerType
  <1> QED
    BY <1>1, <1>2, <1>3 DEF Pointers

\* removeRequest finds the request it looks for, and no other.
LEMMA SameRequest ==
  ASSUME LiveDiffer, NEW m \in Nodes, NEW n \in Nodes, matchesRequest(m, n),
         node[m].status = "live", node[n].status = "live"
  PROVE  m = n
  BY DEF LiveDiffer, Differ, Contents, matchesRequest

\* A request that was made keeps its contents.
LEMMA ContentsStay ==
  ASSUME IInv, [Next]_vars, NEW n \in Nodes, node[n].status # "none"
  PROVE  /\ node'[n].status # "none"
         /\ node'[n].from_floor = node[n].from_floor
         /\ node'[n].to_floor = node[n].to_floor
  <1>1. TypeOK /\ ListType /\ ElevatorType
    BY DEF IInv, TypeOK
  <1>2. ASSUME NEW p \in Passengers, PNext(p)
        PROVE  /\ node'[n].status # "none"
               /\ node'[n].from_floor = node[n].from_floor
               /\ node'[n].to_floor = node[n].to_floor
    <2>1. ~(AddRequest(p) /\ n = Req(p))
      BY BlankRequest DEF Unallocated
    <2> QED
      BY <1>1, <1>2, <2>1, PKeepsNodes
  <1>3. ASSUME NEW e \in Elevators, ENext(e)
        PROVE  /\ node'[n].status # "none"
               /\ node'[n].from_floor = node[n].from_floor
               /\ node'[n].to_floor = node[n].to_floor
    <2>1. node'[n].status = node[n].status \/ node'[n].status = "freed"
      <3>1. CASE Take(e)
        BY <1>1, <3>1 DEF Take, ListType, NodeState
      <3>2. CASE RemoveClear(e)
        BY <1>1, <3>2 DEF RemoveClear, ListType, NodeState
      <3>3. CASE RemoveSet(e)
        BY <1>1, <3>3 DEF RemoveSet, ListType, NodeState
      <3>4. CASE RemoveFree(e)
        BY <1>1, <3>4 DEF RemoveFree, ListType, NodeState
      <3>5. CASE RemoveHeadSet(e) \/ UNCHANGED listVars
        BY <3>5 DEF RemoveHeadSet, listVars
      <3> QED
        BY <1>3, <3>1, <3>2, <3>3, <3>4, <3>5, EList
    <2> QED
      BY <1>1, <1>3, <2>1, EKeepsNodes
  <1>4. CASE Stop \/ UNCHANGED vars
    BY <1>4 DEF Stop, vars, listVars
  <1> QED
    BY <1>2, <1>3, <1>4 DEF Next, Halted

\* So requests that differ now have differed all along.
LEMMA DifferedBefore ==
  ASSUME IInv, [Next]_vars, AllDiffer'
  PROVE  AllDiffer
  <1>1. SUFFICES ASSUME NEW m \in Nodes, NEW n \in Nodes,
                        node[m].status # "none", node[n].status # "none",
                        Contents(m) = Contents(n)
                 PROVE  m = n
    BY DEF AllDiffer, Differ
  <1>2. /\ node'[m].status # "none" /\ node'[n].status # "none"
        /\ Contents(m)' = Contents(m) /\ Contents(n)' = Contents(n)
    BY <1>1, ContentsStay DEF Contents
  <1> QED
    BY <1>1, <1>2 DEF AllDiffer, Differ

-----------------------------------------------------------------------------
(* Passengers and the list.                                                 *)

\* Only addRequest's own steps touch what the list is made of.
LEMMA RFrame ==
  ASSUME IInv, NEW s \in Lists, RaceAt(s),
         NEW p \in Passengers, PNext(p), ~AddFirst(p), ~AddLink(p)
  PROVE  /\ \A n \in Nodes : node'[n] = node[n] \/ (AddRequest(p) /\ n = Req(p))
         /\ Chain(s)' /\ \A e \in Elevators : OnList(s, e)'
  <1>1. TypeOK /\ ListType
    BY DEF IInv, TypeOK
  <1>2. UNCHANGED <<epc, cur, eptr, prev, nxt>>
    BY PKeepsElevators DEF ride, walk
  <1>3. /\ headOfRequests' = headOfRequests
        /\ \A n \in Nodes : node'[n] = node[n] \/ (AddRequest(p) /\ n = Req(p))
    <2>1. CASE AddRequest(p)
      BY <1>1, <2>1 DEF AddRequest, ListType
    <2>2. CASE UNCHANGED listVars
      BY <2>2 DEF listVars
    <2> QED
      BY <2>1, <2>2, PList
  <1>4. AddRequest(p) => /\ Req(p) \in Nodes /\ node[Req(p)].status = "none"
                         /\ node[Req(p)].elevatorId = NoElevator
    BY BlankRequest DEF Unallocated
  <1>5. DOMAIN s = 1 .. Len(s) /\ Len(s) \in Nat /\ \A i \in DOMAIN s : s[i] \in Nodes
    BY ListFacts
  <1>6. Chain(s)
    BY DEF RaceAt
  <1>7. \A i \in DOMAIN s : node'[s[i]] = node[s[i]]
    BY <1>3, <1>4, <1>5, <1>6 DEF Chain
  <1>8. Chain(s)'
    BY <1>3, <1>6, <1>7 DEF Chain
  <1>9. ASSUME NEW e \in Elevators PROVE OnList(s, e)'
    <2>1. Seeking(s, e) /\ Holding(s, e) /\ Leaving(s, e)
      BY DEF RaceAt, OnList
    <2>2. Seeking(s, e)'
      BY <1>2, <2>1 DEF Seeking
    <2>3. Serving(e) \/ epc[e] \in RemovePC => cur[e] \in Nodes /\ node'[cur[e]] = node[cur[e]]
      BY <1>3, <1>4, <2>1, BuildingAssumption DEF Holding
    <2>4. Holding(s, e)'
      BY <1>2, <2>1, <2>3 DEF Holding, Serving
    <2>5. \A j \in DOMAIN s : HasNext(s, j, e) => HasNext(s, j, e)'
      BY <1>2, <1>7 DEF HasNext
    <2>6. Leaving(s, e)'
      <3>1. epc'[e] = "remHeadSet" => s # <<>> /\ 1 \in DOMAIN s
        BY <1>2, <1>5, <2>1, ListFacts DEF Leaving
      <3> QED
        BY <1>2, <2>1, <2>5, <3>1 DEF Leaving
    <2> QED
      BY <2>2, <2>4, <2>6 DEF OnList
  <1> QED
    BY <1>3, <1>8, <1>9

\* The passenger in addRequest keeps its place, and its request to itself.
LEMMA RJoining ==
  ASSUME IInv, Turns, NEW s \in Lists, RaceAt(s),
         NEW p \in Passengers, PNext(p), ~AddFirst(p), ~AddLink(p)
  PROVE  Joining(s)'
  <1> DEFINE Apart(q) ==
        /\ node[Req(q)].status = "live" /\ node[Req(q)].next = NULL
        /\ node[Req(q)].elevatorId = NoElevator
        /\ \A i \in DOMAIN s : s[i] # Req(q)
  <1>1. TypeOK /\ PassengerType /\ ListType /\ Started
    BY DEF IInv, TypeOK
  <1>2. \A n \in Nodes : node'[n] = node[n] \/ (AddRequest(p) /\ n = Req(p))
    BY RFrame
  <1>3. DOMAIN s = 1 .. Len(s) /\ Len(s) \in Nat /\ \A i \in DOMAIN s : s[i] \in Nodes
    BY ListFacts
  <1>4. Chain(s) /\ Joining(s)
    BY DEF RaceAt
  <1>5. \A q \in Passengers \ {p} : ppc'[q] = ppc[q] /\ trip'[q] = trip[q] /\ pptr'[q] = pptr[q]
    BY <1>1, PMoves, PLocals DEF AddHead, AddStep, PassengerType
  <1>6. SUFFICES ASSUME NEW q \in Passengers, ppc'[q] \in Adding
                 PROVE  /\ Apart(q)'
                        /\ ppc'[q] = "addLink" => \A i \in DOMAIN s : pptr'[q] = s[i] => i = Len(s)
    BY DEF Joining, Adding
  <1>7. CASE ppc[q] \notin Adding
    <2>1. q = p
      BY <1>5, <1>6, <1>7
    <2>2. AddRequest(p)
      <3>1. ppc[p] = "request" /\ ppc'[p] = "addTest"
        BY <1>1, <1>6, <1>7, <2>1, PMoves DEF PFlow, Adding
      <3> QED
        BY <1>1, <3>1, PRequest
    <2>3. Req(p) \in Nodes /\ node[Req(p)].status = "none" /\ Req(p)' = Req(p)
          /\ ppc'[p] = "addTest"
      <3>1. Req(p) \in Nodes /\ node[Req(p)].status = "none"
        BY <2>2, BlankRequest DEF Unallocated
      <3>2. trip' = trip /\ ppc'[p] = "addTest"
        BY <1>1, <2>2 DEF AddRequest, PStep, PassengerType
      <3> QED
        BY <3>1, <3>2 DEF Req
    <2>4. node'[Req(p)].status = "live" /\ node'[Req(p)].next = NULL
          /\ node'[Req(p)].elevatorId = NoElevator
      BY <1>1, <2>2, <2>3 DEF AddRequest, ListType
    <2>5. \A i \in DOMAIN s : s[i] # Req(p)
      BY <1>4, <2>3 DEF Chain
    <2> QED
      BY <2>1, <2>3, <2>4, <2>5
  <1>8. CASE ppc[q] \in Adding
    <2>1. Apart(q) /\ Req(q) \in Nodes
      BY <1>1, <1>4, <1>8, HasRequest DEF Joining, Adding
    <2>2. ~AddRequest(p)
      <3>1. lock_for_request_s = 0
        BY <1>8 DEF Turns
      <3> QED
        BY <3>1 DEF AddRequest
    <2>3. trip'[q] = trip[q]
      <3>1. CASE q = p
        BY <1>1, <1>6, <1>8, <3>1, PMoves DEF Adding
      <3> QED
        BY <1>5, <3>1
    <2>4. Req(q)' = Req(q) /\ node'[Req(q)] = node[Req(q)]
      BY <1>2, <2>1, <2>2, <2>3 DEF Req
    <2>5. Apart(q)'
      BY <2>1, <2>4
    <2>6. ASSUME ppc'[q] = "addLink", NEW i \in DOMAIN s, pptr'[q] = s[i]
          PROVE  i = Len(s)
      <3>1. CASE ppc[q] = "addLink"
        <4>1. pptr'[q] = pptr[q]
          <5>1. CASE q = p
            BY <1>1, <3>1, <5>1, PLocals DEF AddHead, AddStep, PStep
          <5> QED
            BY <1>5, <5>1
        <4> QED
          BY <1>4, <2>6, <3>1, <4>1 DEF Joining
      <3>2. CASE ppc[q] # "addLink"
        <4>1. q = p
          BY <1>5, <2>6, <3>2
        <4>2. ppc[p] = "addWalk"
          BY <1>1, <2>6, <3>2, <4>1, PMoves DEF PFlow
        <4>3. AddWalk(p)
          BY <1>1, <2>6, <4>1, <4>2, PAdds
        <4>4. node[pptr[p]].next = NULL /\ pptr' = pptr
          BY <1>1, <2>6, <4>1, <4>3 DEF AddWalk, PStep, PassengerType
        <4>5. node[s[i]].next = NULL
          BY <2>6, <4>1, <4>4
        <4>6. i # Len(s) => i + 1 \in DOMAIN s /\ s[i + 1] # NULL
          BY <1>3, NodesFinite
        <4> QED
          BY <1>4, <4>5, <4>6 DEF Chain
      <3> QED
        BY <3>1, <3>2
    <2> QED
      BY <2>5, <2>6
  <1> QED
    BY <1>7, <1>8

\* Behind addRequest nobody is in it.
LEMMA RLeft ==
  ASSUME TypeOK, Turns, NEW p \in Passengers, PNext(p), AddFirst(p) \/ AddLink(p)
  PROVE  /\ ppc[p] \in {"addTest", "addLink"} /\ \A t : Joining(t)'
  <1>1. PassengerType
    BY DEF TypeOK
  <1>2. ppc[p] \in {"addTest", "addLink"} /\ ppc'[p] = "barrier"
    BY <1>1 DEF AddFirst, AddLink, PStep, PassengerType
  <1>3. \A q \in Passengers \ {p} : ppc'[q] = ppc[q]
    BY PMoves
  <1>4. \A q \in Passengers : ppc'[q] \notin Adding
    BY <1>2, <1>3 DEF Turns, Adding
  <1> QED
    BY <1>2, <1>4 DEF Joining, Adding

\* An empty list gets its first node.
LEMMA RFirst ==
  ASSUME IInv, Turns, NEW s \in Lists, RaceAt(s),
         NEW p \in Passengers, PNext(p), AddFirst(p)
  PROVE  \E t \in Lists : RaceAt(t)'
  <1>1. TypeOK /\ Started /\ Chain(s) /\ Joining(s) /\ ppc[p] \in Adding
    BY RLeft DEF IInv, RaceAt, Adding
  <1>2. headOfRequests = NULL /\ headOfRequests' = Req(p) /\ node' = node
    BY DEF AddFirst
  <1>3. UNCHANGED <<epc, cur, eptr, prev, nxt>>
    BY PKeepsElevators DEF ride, walk
  <1>4. DOMAIN s = {} /\ s = <<>>
    BY <1>1, <1>2, ListFacts, NodesFinite DEF Chain
  <1>5. PICK n \in Nodes : /\ n = Req(p) /\ node[n].status = "live" /\ node[n].next = NULL
                           /\ node[n].elevatorId = NoElevator
    BY <1>1, HasRequest DEF Joining, Adding
  <1>6. PICK t \in Lists : DOMAIN t = {1} /\ Len(t) = 1 /\ t[1] = n /\ t # <<>>
    <2> DEFINE u == <<n>>
    <2>1. u \in Seq(Nodes) /\ DOMAIN u = {1} /\ Len(u) = 1 /\ u[1] = n /\ u # <<>>
      BY <1>5
    <2> HIDE DEF u
    <2>2. u \in Lists
      BY <2>1, ListBound
    <2> QED
      BY <2>1, <2>2
  <1>7. Chain(t)' /\ Joining(t)'
    BY <1>1, <1>2, <1>5, <1>6, RLeft DEF Chain
  <1>8. ASSUME NEW e \in Elevators PROVE OnList(t, e)'
    <2>1. Seeking(s, e) /\ Holding(s, e) /\ Leaving(s, e)
      BY DEF RaceAt, OnList
    <2>2. Seeking(t, e)' /\ Leaving(t, e)'
      BY <1>3, <1>4, <2>1 DEF Seeking, Leaving
    <2>3. Holding(t, e)'
      BY <1>2, <1>3, <1>4, <1>5, <1>6, <2>1, BuildingAssumption DEF Holding, Serving
    <2> QED
      BY <2>2, <2>3 DEF OnList
  <1> QED
    BY <1>7, <1>8 DEF RaceAt

\* What addRequest writes when it links a request.
LEMMA RLinks ==
  ASSUME IInv, NEW s \in Lists, RaceAt(s),
         NEW p \in Passengers, PNext(p), AddLink(p)
  PROVE  /\ pptr[p] \in Nodes /\ Req(p) \in Nodes
         /\ headOfRequests' = headOfRequests
         /\ node[Req(p)].status = "live" /\ node[Req(p)].next = NULL
         /\ node[Req(p)].elevatorId = NoElevator
         /\ \A i \in DOMAIN s : s[i] # Req(p) /\ (pptr[p] = s[i] => i = Len(s))
         /\ \A n \in Nodes :
              /\ node'[n].status = node[n].status
              /\ node'[n].elevatorId = node[n].elevatorId
              /\ node'[n].next = IF n = pptr[p] THEN Req(p) ELSE node[n].next
  <1>1. TypeOK /\ PassengerType /\ ListType /\ Started
    BY DEF IInv, TypeOK
  <1>2. ppc[p] = "addLink" /\ headOfRequests' = headOfRequests
        /\ node' = [node EXCEPT ![pptr[p]].next = Req(p)]
    BY DEF AddLink, PStep
  <1>3. pptr[p] \in Nodes
    BY <1>1, <1>2 DEF AddLink, PStep, PVerdict, Verdict, PTouches, PassengerType
  <1>4. Req(p) \in Nodes
    BY <1>1, <1>2, HasRequest
  <1>5. /\ node[Req(p)].status = "live" /\ node[Req(p)].next = NULL
        /\ node[Req(p)].elevatorId = NoElevator
        /\ \A i \in DOMAIN s : s[i] # Req(p) /\ (pptr[p] = s[i] => i = Len(s))
    BY <1>2 DEF RaceAt, Joining, Adding
  <1>6. \A n \in Nodes :
          /\ node'[n].status = node[n].status
          /\ node'[n].elevatorId = node[n].elevatorId
          /\ node'[n].next = IF n = pptr[p] THEN Req(p) ELSE node[n].next
    BY <1>1, <1>2, <1>3 DEF ListType, NodeState
  <1> QED
    BY <1>2, <1>3, <1>4, <1>5, <1>6

\* No elevator notices that the list got longer.
LEMMA RLonger ==
  ASSUME IInv, NEW s \in Lists, RaceAt(s),
         NEW p \in Passengers, PNext(p), AddLink(p), NEW t \in Lists,
         \A i \in DOMAIN s : i \in DOMAIN t /\ t[i] = s[i],
         \A j \in DOMAIN t : j \in DOMAIN s \/ t[j] = Req(p)
  PROVE  \A e \in Elevators : OnList(t, e)'
  <1>1. SUFFICES ASSUME NEW e \in Elevators PROVE OnList(t, e)'
    OBVIOUS
  <1>2. UNCHANGED <<epc, cur, eptr, prev, nxt>>
    BY PKeepsElevators DEF ride, walk
  <1>3. /\ DOMAIN s = 1 .. Len(s) /\ Len(s) \in Nat /\ (s = <<>> <=> Len(s) = 0)
        /\ \A i \in DOMAIN s : s[i] \in Nodes
        /\ (t = <<>> <=> Len(t) = 0) /\ DOMAIN t = 1 .. Len(t)
    BY ListFacts
  <1>4. Chain(s) /\ Seeking(s, e) /\ Holding(s, e) /\ Leaving(s, e)
    BY DEF RaceAt, OnList
  <1>5. /\ Req(p) \in Nodes /\ node[Req(p)].elevatorId = NoElevator
        /\ \A n \in Nodes :
             /\ node'[n].status = node[n].status
             /\ node'[n].elevatorId = node[n].elevatorId
        /\ \A i \in DOMAIN s : node[s[i]].next # NULL => node'[s[i]].next = node[s[i]].next
    <2>1. \A i \in DOMAIN s : pptr[p] = s[i] => node[s[i]].next = NULL
      BY <1>4, RLinks DEF Chain
    <2> QED
      BY <1>3, <2>1, RLinks
  <1>6. Seeking(t, e)'
    BY <1>2, <1>4 DEF Seeking
  <1>7. Holding(t, e)'
    <2>1. SUFFICES ASSUME Serving(e) \/ epc[e] \in RemovePC
                   PROVE  Holding(t, e)'
      BY <1>2 DEF Holding, Serving
    <2>2. cur[e] \in Nodes /\ node'[cur[e]].elevatorId = e /\ cur[e] # Req(p)
      BY <1>4, <1>5, <2>1, BuildingAssumption DEF Holding
    <2>3. epc[e] \notin Unlinked => \E i \in DOMAIN t : t[i] = cur[e]
      BY <1>4, <2>1 DEF Holding
    <2>4. epc[e] \in Unlinked => /\ eptr[e] = cur[e] /\ node'[cur[e]].status = "live"
                                 /\ \A i \in DOMAIN t : t[i] # cur[e]
      BY <1>4, <1>5, <2>1, <2>2 DEF Holding
    <2> QED
      BY <1>2, <2>2, <2>3, <2>4 DEF Holding
  <1>8. ASSUME NEW j \in DOMAIN s, HasNext(s, j, e) PROVE HasNext(t, j, e)'
    <2>1. CASE nxt[e] = NULL
      <3>1. \A k \in DOMAIN t : k > j => node'[t[k]].elevatorId = NoElevator
        BY <1>3, <1>5, <1>8, <2>1 DEF HasNext
      <3> QED
        BY <1>2, <2>1, <3>1 DEF HasNext
    <2>2. CASE nxt[e] # NULL
      BY <1>2, <1>5, <1>8, <2>2 DEF HasNext
    <2> QED
      BY <2>1, <2>2
  <1>9. Leaving(t, e)'
    <2>1. CASE epc[e] = "remHeadSet"
      <3>1. s # <<>> /\ s[1] = cur[e] /\ eptr[e] = cur[e] /\ HasNext(s, 1, e)
        BY <1>4, <2>1 DEF Leaving
      <3>2. 1 \in DOMAIN s
        BY <1>3, <3>1
      <3>3. t # <<>> /\ t[1] = cur[e] /\ HasNext(t, 1, e)'
        BY <1>3, <1>8, <3>1, <3>2
      <3> QED
        BY <1>2, <2>1, <3>1, <3>3 DEF Leaving
    <2>2. CASE epc[e] = "remWalk"
      <3>1. PICK i, j \in DOMAIN s : i < j /\ s[j] = cur[e] /\ prev[e] = s[i] /\ eptr[e] = s[i]
        BY <1>4, <2>2 DEF Leaving
      <3>2. i \in DOMAIN t /\ j \in DOMAIN t /\ t[i] = s[i] /\ t[j] = s[j]
        OBVIOUS
      <3> QED
        BY <1>2, <2>2, <3>1, <3>2 DEF Leaving
    <2>3. CASE epc[e] \in {"remMatch", "remSkip", "remSet"}
      <3>1. PICK i, j \in DOMAIN s :
              /\ i < j /\ s[j] = cur[e] /\ prev[e] = s[i] /\ eptr[e] = s[i + 1]
              /\ epc[e] = "remSkip" => j # i + 1
              /\ epc[e] = "remSet" => j = i + 1 /\ HasNext(s, j, e)
        BY <1>4, <2>3 DEF Leaving
      <3>2. i + 1 \in DOMAIN s
        BY <1>3, <3>1
      <3>3. i \in DOMAIN t /\ j \in DOMAIN t /\ t[i] = s[i] /\ t[j] = s[j] /\ t[i + 1] = s[i + 1]
        BY <3>2
      <3>4. epc[e] = "remSet" => HasNext(t, j, e)'
        BY <1>8, <3>1
      <3> QED
        BY <1>2, <2>3, <3>1, <3>3, <3>4 DEF Leaving
    <2>4. CASE epc[e] \notin {"remHeadSet", "remWalk", "remMatch", "remSkip", "remSet"}
      BY <1>2, <2>4 DEF Leaving
    <2> QED
      BY <2>1, <2>2, <2>3, <2>4
  <1> QED
    BY <1>6, <1>7, <1>9 DEF OnList

\* A request is linked behind the last node, or behind one that has gone.
LEMMA RLink ==
  ASSUME IInv, Turns, NEW s \in Lists, RaceAt(s),
         NEW p \in Passengers, PNext(p), AddLink(p)
  PROVE  \E t \in Lists : RaceAt(t)'
  <1>1. TypeOK /\ Chain(s)
    BY DEF IInv, RaceAt
  <1>2. /\ DOMAIN s = 1 .. Len(s) /\ Len(s) \in Nat
        /\ \A i \in DOMAIN s : s[i] \in Nodes
    BY ListFacts
  <1>3. PICK n \in Nodes : n = Req(p)
    BY RLinks
  <1>4. CASE \E i \in DOMAIN s : pptr[p] = s[i]
    <2>1. s # <<>> /\ pptr[p] = s[Len(s)]
      BY <1>4, RLinks
    <2>2. PICK t \in Lists : IsLonger(t, s, n) /\ Chain(t)'
      <3>1. /\ \A i \in DOMAIN s : s[i] # n
            /\ node[n].status = "live" /\ node[n].next = NULL
            /\ headOfRequests' = headOfRequests
            /\ \A m \in Nodes :
                 /\ node'[m].status = node[m].status
                 /\ node'[m].next = IF m = s[Len(s)] THEN n ELSE node[m].next
        BY <1>3, <2>1, RLinks
      <3> QED
        BY <1>1, <2>1, <3>1, Link
    <2>3. \A e \in Elevators : OnList(t, e)'
      <3>1. /\ \A i \in DOMAIN s : i \in DOMAIN t /\ t[i] = s[i]
            /\ \A j \in DOMAIN t : j \in DOMAIN s \/ t[j] = Req(p)
        BY <1>3, <2>2 DEF IsLonger
      <3> QED
        BY <3>1, RLonger
    <2> QED
      BY <1>1, <2>2, <2>3, RLeft DEF RaceAt
  <1>5. CASE \A i \in DOMAIN s : pptr[p] # s[i]
    <2>1. Chain(s)'
      <3>1. \A i \in DOMAIN s : /\ node'[s[i]].status = node[s[i]].status
                                /\ node'[s[i]].next = node[s[i]].next
        BY <1>2, <1>5, RLinks
      <3> QED
        BY <1>1, <3>1, RLinks DEF Chain
    <2>2. \A e \in Elevators : OnList(s, e)'
      BY RLonger
    <2> QED
      BY <1>1, <2>1, <2>2, RLeft DEF RaceAt
  <1> QED
    BY <1>4, <1>5

\* A passenger's step leaves the list a list.
LEMMA RPassenger ==
  ASSUME IInv, Turns, NEW s \in Lists, RaceAt(s), NEW p \in Passengers, PNext(p)
  PROVE  \E t \in Lists : RaceAt(t)'
  <1>1. CASE AddFirst(p)
    BY <1>1, RFirst
  <1>2. CASE AddLink(p)
    BY <1>2, RLink
  <1>3. CASE ~AddFirst(p) /\ ~AddLink(p)
    BY <1>3, RFrame, RJoining DEF RaceAt
  <1> QED
    BY <1>1, <1>2, <1>3

-----------------------------------------------------------------------------
(* Elevators and the list.                                                  *)

\* The other elevators do not notice, as long as their requests stay listed.
LEMMA ROthers ==
  ASSUME IInv, NEW s \in Lists, RaceAt(s),
         NEW e \in Elevators, ENext(e), NEW t \in Lists,
         \/ UNCHANGED node /\ t = s
         \/ /\ epc[e] \in ElevatorCS
            /\ \A i \in DOMAIN s : node[s[i]].elevatorId \in Elevators \ {e} =>
                 \E j \in DOMAIN t : t[j] = s[i]
  PROVE  \A d \in Elevators \ {e} : OnList(t, d)'
  <1>1. TypeOK /\ ElevatorType /\ Pointers /\ Mutex
    BY DEF IInv, TypeOK
  <1>2. SUFFICES ASSUME NEW d \in Elevators \ {e} PROVE OnList(t, d)'
    OBVIOUS
  <1>3. /\ epc'[d] = epc[d] /\ cur'[d] = cur[d]
        /\ eptr'[d] = eptr[d] /\ prev'[d] = prev[d] /\ nxt'[d] = nxt[d]
    BY <1>1, EMoves, EOwn, EWalk
  <1>4. Seeking(s, d) /\ Holding(s, d) /\ Leaving(s, d)
    BY DEF RaceAt, OnList
  <1>5. CASE UNCHANGED node /\ t = s
    <2>1. Seeking(t, d)' /\ Holding(t, d)'
      BY <1>3, <1>4, <1>5 DEF Seeking, Holding, Serving
    <2>2. \A j \in DOMAIN t : HasNext(s, j, d) => HasNext(t, j, d)'
      BY <1>3, <1>5 DEF HasNext
    <2>3. s # <<>> => 1 \in DOMAIN t
      BY <1>5, ListFacts
    <2>4. Leaving(t, d)'
      BY <1>3, <1>4, <1>5, <2>2, <2>3 DEF Leaving
    <2> QED
      BY <2>1, <2>4 DEF OnList
  <1>6. CASE epc[e] \in ElevatorCS
             /\ \A i \in DOMAIN s : node[s[i]].elevatorId \in Elevators \ {e} =>
                  \E j \in DOMAIN t : t[j] = s[i]
    <2>1. epc'[d] \notin ElevatorCS
      BY <1>1, <1>3, <1>6 DEF Mutex
    <2>2. Seeking(t, d)' /\ Leaving(t, d)'
      BY <2>1 DEF Seeking, Leaving, ElevatorCS
    <2>3. Holding(t, d)'
      <3>1. epc'[d] \notin RemovePC /\ epc'[d] \notin Unlinked
        BY <2>1 DEF ElevatorCS, RemovePC, Unlinked
      <3>2. CASE Serving(d)
        <4>1. cur[d] \in Nodes /\ node[cur[d]].elevatorId = d
              /\ \E i \in DOMAIN s : s[i] = cur[d]
          BY <1>3, <1>4, <3>1, <3>2 DEF Holding
        <4>2. \E j \in DOMAIN t : t[j] = cur[d]
          BY <1>6, <4>1
        <4>3. node'[cur[d]].elevatorId = d
          <5>1. ~Take(e) \/ cur[d] # eptr[e]
            BY <1>1, <4>1, BuildingAssumption DEF Pointers, Take, EStep
          <5> QED
            BY <1>1, <4>1, <5>1, EKeepsNodes
        <4> QED
          BY <1>3, <3>1, <4>1, <4>2, <4>3 DEF Holding
      <3> QED
        BY <1>3, <3>1, <3>2 DEF Holding, Serving
    <2> QED
      BY <2>2, <2>3 DEF OnList
  <1> QED
    BY <1>5, <1>6

\* The passenger in addRequest does not notice either: its request is not in
\* the list and nobody's, and the end of the list stays the end.
LEMMA RKeepsJoining ==
  ASSUME IInv, NEW s \in Lists, RaceAt(s),
         NEW e \in Elevators, ENext(e), NEW t \in Lists,
         \A j \in DOMAIN t : \E i \in DOMAIN s : t[j] = s[i] /\ (i = Len(s) => j = Len(t)),
         \A n \in Nodes : \/ node'[n] = node[n]
                          \/ node[n].elevatorId # NoElevator
                          \/ \E i \in DOMAIN s : s[i] = n
  PROVE  Joining(t)'
  <1>1. UNCHANGED <<ppc, pptr, trip>>
    BY EKeepsPassengers DEF pvars
  <1>2. TypeOK /\ Started /\ Joining(s)
    BY DEF IInv, RaceAt
  <1>3. SUFFICES ASSUME NEW q \in Passengers, ppc[q] \in Adding
                 PROVE  /\ node'[Req(q)].status = "live" /\ node'[Req(q)].next = NULL
                        /\ node'[Req(q)].elevatorId = NoElevator
                        /\ \A j \in DOMAIN t : t[j] # Req(q)
                        /\ ppc[q] = "addLink" =>
                             \A j \in DOMAIN t : pptr[q] = t[j] => j = Len(t)
    BY <1>1 DEF Joining, Req, Adding
  <1>4. /\ node[Req(q)].status = "live" /\ node[Req(q)].next = NULL
        /\ node[Req(q)].elevatorId = NoElevator
        /\ \A i \in DOMAIN s : s[i] # Req(q)
        /\ ppc[q] = "addLink" => \A i \in DOMAIN s : pptr[q] = s[i] => i = Len(s)
    BY <1>2, <1>3 DEF Joining
  <1>5. Req(q) \in Nodes
    BY <1>2, <1>3, HasRequest DEF Adding
  <1>6. node'[Req(q)] = node[Req(q)]
    BY <1>4, <1>5
  <1> QED
    BY <1>4, <1>6

\* An elevator walks the list without changing it.
LEMMA RWalking ==
  ASSUME IInv, LiveDiffer, NEW s \in Lists, RaceAt(s),
         NEW e \in Elevators, ENext(e),
         ~Take(e), ~RemoveHeadSet(e), ~RemoveClear(e), ~RemoveSet(e), ~RemoveFree(e)
  PROVE  OnList(s, e)'
  <1>1. TypeOK /\ ElevatorType /\ ListType
    BY DEF IInv, TypeOK
  <1>2. headOfRequests' = headOfRequests /\ node' = node
    BY EList DEF listVars
  <1>3. /\ Len(s) \in Nat /\ DOMAIN s = 1 .. Len(s) /\ (s = <<>> <=> Len(s) = 0)
        /\ \A i \in DOMAIN s : s[i] \in Nodes /\ s[i] # NULL
    BY ListFacts, NodesFinite
  <1>4. Chain(s) /\ Seeking(s, e) /\ Holding(s, e) /\ Leaving(s, e)
    BY DEF RaceAt, OnList
  <1>5. \A i \in DOMAIN s : node[s[i]].status = "live"
    BY <1>4 DEF Chain
  <1>6. epc[e] \in RemovePC => cur[e] \in Nodes /\ node[cur[e]].status = "live"
    BY <1>4, <1>5 DEF Holding
  <1>7. CASE PeekMore(e)
    <2>1. epc'[e] = "walk" /\ eptr'[e] = headOfRequests /\ headOfRequests # NULL
      BY <1>1, <1>7 DEF PeekMore, EStep, ElevatorType, EVerdict, Verdict, ETouches
    <2>2. 1 \in DOMAIN s /\ headOfRequests = s[1]
      BY <1>3, <1>4, <2>1 DEF Chain
    <2>3. Seeking(s, e)'
      BY <2>1, <2>2 DEF Seeking
    <2> QED
      BY <2>1, <2>3 DEF OnList, Holding, Leaving, Serving, RidePC, RemovePC
  <1>8. CASE WalkPast(e)
    <2>1. /\ epc[e] = "walk" /\ epc'[e] = "walk" /\ eptr[e] # NULL
          /\ eptr'[e] = node[eptr[e]].next
      BY <1>1, <1>8 DEF WalkPast, EStep, ElevatorType
    <2>2. PICK i \in DOMAIN s : eptr[e] = s[i]
      BY <1>4, <2>1 DEF Seeking
    <2>3. i # Len(s) => i + 1 \in DOMAIN s
      BY <1>3
    <2>4. eptr'[e] = NULL \/ (i + 1 \in DOMAIN s /\ eptr'[e] = s[i + 1])
      BY <1>4, <2>1, <2>2, <2>3 DEF Chain
    <2>5. Seeking(s, e)'
      BY <2>1, <2>4 DEF Seeking
    <2> QED
      BY <2>1, <2>5 DEF OnList, Holding, Leaving, Serving, RidePC, RemovePC
  <1>9. CASE WalkFound(e)
    <2>1. epc[e] = "walk" /\ epc'[e] = "take" /\ eptr[e] # NULL /\ eptr' = eptr
      BY <1>1, <1>9 DEF WalkFound, EStep, ElevatorType, walk
    <2>2. Seeking(s, e)'
      BY <1>4, <2>1 DEF Seeking
    <2> QED
      BY <2>1, <2>2 DEF OnList, Holding, Leaving, Serving, RidePC, RemovePC
  <1>10. ASSUME epc[e] \in (RemovePC \ Unlinked) \cup {"remove"},
                epc'[e] \in RemovePC \ Unlinked, cur' = cur
         PROVE  Holding(s, e)' /\ Seeking(s, e)'
    <2>1. /\ cur[e] \in Nodes /\ node[cur[e]].elevatorId = e
          /\ \E i \in DOMAIN s : s[i] = cur[e]
      BY <1>4, <1>10 DEF Holding, Serving, Unlinked
    <2>2. Holding(s, e)'
      BY <1>2, <1>10, <2>1 DEF Holding
    <2> QED
      BY <1>10, <2>2 DEF Seeking, RemovePC
  <1> USE DEF RemovePC, Unlinked
  <1>11. CASE LockToRemove(e)
    <2>1. epc[e] = "remove" /\ epc'[e] = "remHead" /\ cur' = cur
      BY <1>1, <1>11 DEF LockToRemove, Lock, EStep, ElevatorType, ride
    <2> QED
      BY <1>10, <2>1 DEF OnList, Leaving
  <1>12. CASE RemoveHeadFound(e)
    <2>1. /\ epc[e] = "remHead" /\ epc'[e] = "remHeadSet" /\ headOfRequests # NULL
          /\ matchesRequest(headOfRequests, cur[e]) /\ cur' = cur
          /\ eptr'[e] = headOfRequests /\ nxt'[e] = node[headOfRequests].next
      BY <1>1, <1>12 DEF RemoveHeadFound, EStep, ElevatorType, ride
    <2>2. s # <<>> /\ 1 \in DOMAIN s /\ headOfRequests = s[1]
      BY <1>3, <1>4, <2>1 DEF Chain
    <2>3. s[1] = cur[e]
      BY <1>3, <1>5, <1>6, <2>1, <2>2, SameRequest
    <2>4. HasNext(s, 1, e)'
      <3>1. CASE Len(s) = 1
        BY <1>2, <1>3, <2>1, <2>2, <3>1 DEF HasNext
      <3>2. CASE Len(s) # 1
        <4>1. 1 + 1 \in DOMAIN s
          BY <1>3, <2>2, <3>2
        <4>2. nxt'[e] # NULL
          BY <1>3, <1>4, <2>1, <2>2, <3>2, <4>1 DEF Chain
        <4> QED
          BY <1>2, <2>1, <2>2, <4>2 DEF HasNext
      <3> QED
        BY <3>1, <3>2
    <2>5. Leaving(s, e)'
      BY <2>1, <2>2, <2>3, <2>4 DEF Leaving
    <2> QED
      BY <1>10, <2>1, <2>5 DEF OnList
  <1>13. CASE RemoveOther(e)
    <2>1. CASE headOfRequests = NULL
      <3>1. epc'[e] = "check"
        BY <1>1, <1>13, <2>1 DEF RemoveOther, EStep, ElevatorType
      <3> QED
        BY <3>1 DEF OnList, Seeking, Holding, Leaving, Serving, RidePC
    <2>2. CASE headOfRequests # NULL
      <3>1. /\ epc[e] = "remHead" /\ epc'[e] = "remWalk" /\ cur' = cur
            /\ ~matchesRequest(headOfRequests, cur[e])
            /\ eptr'[e] = headOfRequests /\ prev'[e] = headOfRequests
        BY <1>1, <1>13, <2>2 DEF RemoveOther, EStep, ElevatorType, ride
      <3>2. 1 \in DOMAIN s /\ headOfRequests = s[1]
        BY <1>3, <1>4, <2>2 DEF Chain
      <3>3. PICK j \in DOMAIN s : s[j] = cur[e]
        BY <1>4, <3>1 DEF Holding
      <3>4. j # 1
        BY <3>1, <3>2, <3>3 DEF matchesRequest
      <3>5. 1 < j
        BY <1>3, <3>4
      <3>6. Leaving(s, e)'
        BY <3>1, <3>2, <3>3, <3>5 DEF Leaving
      <3> QED
        BY <1>10, <3>1, <3>6 DEF OnList
    <2> QED
      BY <2>1, <2>2
  <1>14. CASE RemoveWalk(e)
    <2>1. epc[e] = "remWalk"
      BY <1>14 DEF RemoveWalk, EStep
    <2>2. PICK i, j \in DOMAIN s : i < j /\ s[j] = cur[e] /\ prev[e] = s[i] /\ eptr[e] = s[i]
      BY <1>4, <2>1 DEF Leaving
    <2>3. i + 1 \in DOMAIN s /\ i # Len(s)
      BY <1>3, <2>2
    <2>4. node[eptr[e]].next = s[i + 1] /\ s[i + 1] # NULL
      BY <1>3, <1>4, <2>2, <2>3 DEF Chain
    <2>5. epc'[e] = "remMatch" /\ cur' = cur /\ eptr'[e] = s[i + 1] /\ prev' = prev
      BY <1>1, <1>14, <2>4 DEF RemoveWalk, EStep, ElevatorType, ride
    <2>6. Leaving(s, e)'
      BY <2>2, <2>5 DEF Leaving
    <2> QED
      BY <1>10, <2>1, <2>5, <2>6 DEF OnList
  <1>15. CASE RemoveFound(e)
    <2>1. /\ epc[e] = "remMatch" /\ epc'[e] = "remSet" /\ matchesRequest(eptr[e], cur[e])
          /\ cur' = cur /\ eptr' = eptr /\ prev' = prev /\ nxt'[e] = node[eptr[e]].next
      BY <1>1, <1>15 DEF RemoveFound, EStep, ElevatorType, ride
    <2>2. PICK i, j \in DOMAIN s :
            i < j /\ s[j] = cur[e] /\ prev[e] = s[i] /\ eptr[e] = s[i + 1]
      BY <1>4, <2>1 DEF Leaving
    <2>3. i + 1 \in DOMAIN s
      BY <1>3, <2>2
    <2>4. s[i + 1] = s[j]
      BY <1>3, <1>5, <1>6, <2>1, <2>2, <2>3, SameRequest
    <2>5. j = i + 1
      BY <1>4, <2>3, <2>4 DEF Chain
    <2>6. HasNext(s, j, e)'
      <3>1. CASE j = Len(s)
        <4>1. \A k \in DOMAIN s : ~(k > j)
          BY <1>3, <3>1
        <4>2. nxt'[e] = node'[s[j]].next
          BY <1>2, <2>1, <2>2, <2>4
        <4> QED
          BY <4>1, <4>2 DEF HasNext
      <3>2. CASE j # Len(s)
        <4>1. j + 1 \in DOMAIN s
          BY <1>3, <3>2
        <4>2. nxt'[e] = node'[s[j]].next /\ nxt'[e] # NULL
          BY <1>2, <1>3, <1>4, <2>1, <2>2, <2>4, <3>2, <4>1 DEF Chain
        <4> QED
          BY <4>2 DEF HasNext
      <3> QED
        BY <3>1, <3>2
    <2>7. Leaving(s, e)'
      BY <2>1, <2>2, <2>5, <2>6 DEF Leaving
    <2> QED
      BY <1>10, <2>1, <2>7 DEF OnList
  <1>16. CASE RemoveSkip(e)
    <2>1. CASE epc[e] = "remMatch"
      <3>1. /\ epc'[e] = "remSkip" /\ ~matchesRequest(eptr[e], cur[e])
            /\ cur' = cur /\ eptr' = eptr /\ prev' = prev
        BY <1>1, <1>16, <2>1 DEF RemoveSkip, EStep, ElevatorType, ride
      <3>2. PICK i, j \in DOMAIN s :
              i < j /\ s[j] = cur[e] /\ prev[e] = s[i] /\ eptr[e] = s[i + 1]
        BY <1>4, <2>1 DEF Leaving
      <3>3. j # i + 1
        BY <3>1, <3>2 DEF matchesRequest
      <3>4. Leaving(s, e)'
        BY <3>1, <3>2, <3>3 DEF Leaving
      <3> QED
        BY <1>10, <2>1, <3>1, <3>4 DEF OnList
    <2>2. CASE epc[e] # "remMatch"
      <3>1. /\ epc[e] = "remSkip" /\ epc'[e] = "remWalk"
            /\ cur' = cur /\ eptr' = eptr /\ prev'[e] = node[prev[e]].next
        BY <1>1, <1>16, <2>2 DEF RemoveSkip, EStep, ElevatorType, ride
      <3>2. PICK i, j \in DOMAIN s :
              i < j /\ s[j] = cur[e] /\ prev[e] = s[i] /\ eptr[e] = s[i + 1] /\ j # i + 1
        BY <1>4, <3>1 DEF Leaving
      <3>3. i + 1 \in DOMAIN s /\ i # Len(s) /\ i + 1 < j
        BY <1>3, <3>2
      <3>4. prev'[e] = s[i + 1]
        BY <1>4, <3>1, <3>2, <3>3 DEF Chain
      <3>5. Leaving(s, e)'
        BY <3>1, <3>2, <3>3, <3>4 DEF Leaving
      <3> QED
        BY <1>10, <3>1, <3>5 DEF OnList
    <2> QED
      BY <2>1, <2>2
  <1>17. CASE /\ UNCHANGED <<headOfRequests, node, cur, eptr, prev, nxt>>
              /\ epc'[e] = epc[e]
    <2>1. Seeking(s, e)' /\ Holding(s, e)'
      BY <1>4, <1>17 DEF Seeking, Holding, Serving
    <2>2. \A j \in DOMAIN s : HasNext(s, j, e) => HasNext(s, j, e)'
      BY <1>17 DEF HasNext
    <2>3. s # <<>> => 1 \in DOMAIN s
      BY <1>3
    <2>4. Leaving(s, e)'
      BY <1>4, <1>17, <2>2, <2>3 DEF Leaving
    <2> QED
      BY <2>1, <2>4 DEF OnList
  <1>18. CASE epc'[e] \in {"loop", "grab", "peek", "last", "end"}
    BY <1>18 DEF OnList, Seeking, Holding, Leaving, Serving, RidePC
  <1>19. CASE /\ UNCHANGED <<headOfRequests, node, cur, eptr, prev, nxt>>
              /\ Serving(e) /\ epc'[e] \in RidePC \cup {"remove"}
    <2>1. epc[e] \notin Unlinked /\ epc'[e] \notin RemovePC \cup {"walk", "take"}
      BY <1>19 DEF Serving, RidePC
    <2>2. Holding(s, e)'
      BY <1>4, <1>19, <2>1 DEF Holding
    <2> QED
      BY <2>1, <2>2 DEF OnList, Seeking, Leaving
  <1> QED
    BY <1>1, <1>7, <1>8, <1>9, <1>11, <1>12, <1>13, <1>14, <1>15, <1>16, <1>17,
       <1>18, <1>19, EActions

\* The request that is claimed is in the list, and stays.
LEMMA RTakes ==
  ASSUME IInv, NEW s \in Lists, RaceAt(s), NEW e \in Elevators, ENext(e), Take(e)
  PROVE  /\ Chain(s)' /\ OnList(s, e)'
         /\ \A n \in Nodes : node'[n] = node[n] \/ \E i \in DOMAIN s : s[i] = n
  <1>1. TypeOK /\ ElevatorType /\ ListType
    BY DEF IInv, TypeOK
  <1>2. /\ epc[e] = "take" /\ epc'[e] = "pickup" /\ cur'[e] = eptr[e]
        /\ headOfRequests' = headOfRequests
        /\ node' = [node EXCEPT ![eptr[e]].elevatorId = e]
    BY <1>1 DEF Take, EStep, ElevatorType
  <1>3. PICK i \in DOMAIN s : eptr[e] = s[i]
    BY <1>2 DEF RaceAt, OnList, Seeking
  <1>4. /\ Len(s) \in Nat /\ DOMAIN s = 1 .. Len(s) /\ \A j \in DOMAIN s : s[j] \in Nodes
    BY ListFacts
  <1>5. \A n \in Nodes :
          /\ node'[n].status = node[n].status /\ node'[n].next = node[n].next
          /\ node'[n].elevatorId = IF n = eptr[e] THEN e ELSE node[n].elevatorId
          /\ n # eptr[e] => node'[n] = node[n]
    BY <1>1, <1>2 DEF ListType, NodeState
  <1>6. Chain(s)'
    BY <1>2, <1>4, <1>5 DEF RaceAt, Chain
  <1>7. Holding(s, e)'
    BY <1>2, <1>3, <1>4, <1>5 DEF Holding, RemovePC, Unlinked
  <1>8. OnList(s, e)'
    BY <1>2, <1>7 DEF OnList, Seeking, Leaving
  <1> QED
    BY <1>3, <1>5, <1>6, <1>8

\* What is cleared and freed has been unlinked.
LEMMA RFrees ==
  ASSUME IInv, NEW s \in Lists, RaceAt(s), NEW e \in Elevators, ENext(e),
         RemoveClear(e) \/ RemoveFree(e)
  PROVE  /\ Chain(s)' /\ OnList(s, e)'
         /\ \A n \in Nodes : node'[n] = node[n] \/ node[n].elevatorId # NoElevator
  <1>1. TypeOK /\ ElevatorType /\ ListType
    BY DEF IInv, TypeOK
  <1>2. /\ epc[e] \in Unlinked /\ headOfRequests' = headOfRequests
        /\ cur' = cur /\ eptr' = eptr
        /\ \A n \in Nodes : n # eptr[e] => node'[n] = node[n]
    BY <1>1 DEF RemoveClear, RemoveFree, EStep, Unlinked, ListType, ride, walk
  <1>3. /\ cur[e] \in Nodes /\ node[cur[e]].elevatorId = e /\ eptr[e] = cur[e]
        /\ node[cur[e]].status = "live"
        /\ \A i \in DOMAIN s : s[i] # cur[e]
    BY <1>2 DEF RaceAt, OnList, Holding, RemovePC, Unlinked
  <1>4. /\ DOMAIN s = 1 .. Len(s) /\ Len(s) \in Nat /\ \A i \in DOMAIN s : s[i] \in Nodes
    BY ListFacts
  <1>5. \A i \in DOMAIN s : node'[s[i]] = node[s[i]]
    BY <1>2, <1>3, <1>4
  <1>6. Chain(s)'
    BY <1>2, <1>4, <1>5 DEF RaceAt, Chain
  <1>7. OnList(s, e)'
    <2>1. CASE RemoveFree(e)
      <3>1. epc'[e] = "check"
        BY <1>1, <2>1 DEF RemoveFree, EStep, ElevatorType
      <3> QED
        BY <3>1 DEF OnList, Seeking, Holding, Leaving, Serving, RidePC, RemovePC
    <2>2. CASE RemoveClear(e)
      <3>1. epc'[e] = "remFree" /\ node' = [node EXCEPT ![eptr[e]].next = NULL]
        BY <1>1, <2>2 DEF RemoveClear, EStep, ElevatorType
      <3>2. node'[cur[e]].status = "live" /\ node'[cur[e]].elevatorId = e
        BY <1>1, <1>3, <3>1 DEF ListType, NodeState
      <3>3. Holding(s, e)'
        BY <1>2, <1>3, <3>1, <3>2 DEF Holding, Unlinked
      <3> QED
        BY <3>1, <3>3 DEF OnList, Seeking, Leaving
    <2> QED
      BY <2>1, <2>2
  <1> QED
    BY <1>2, <1>3, <1>6, <1>7, BuildingAssumption

\* Where removeRequest is when it is about to unlink the request at k.
LEMMA RPlace ==
  ASSUME IInv, NEW s \in Lists, RaceAt(s), NEW e \in Elevators,
         epc[e] \in {"remHeadSet", "remSet"}
  PROVE  \E k \in DOMAIN s :
           /\ s[k] = cur[e] /\ eptr[e] = cur[e] /\ HasNext(s, k, e)
           /\ epc[e] = "remHeadSet" => k = 1
           /\ epc[e] = "remSet" => k # 1 /\ k - 1 \in DOMAIN s /\ prev[e] = s[k - 1]
  <1>1. Leaving(s, e)
    BY DEF RaceAt, OnList
  <1>2. Len(s) \in Nat /\ DOMAIN s = 1 .. Len(s) /\ (s = <<>> <=> Len(s) = 0)
    BY ListFacts
  <1>3. CASE epc[e] = "remHeadSet"
    <2>1. s # <<>> /\ s[1] = cur[e] /\ eptr[e] = cur[e] /\ HasNext(s, 1, e)
      BY <1>1, <1>3 DEF Leaving
    <2>2. 1 \in DOMAIN s
      BY <1>2, <2>1
    <2> QED
      BY <1>3, <2>1, <2>2
  <1>4. CASE epc[e] = "remSet"
    <2>1. PICK i, j \in DOMAIN s :
            /\ i < j /\ s[j] = cur[e] /\ prev[e] = s[i] /\ eptr[e] = s[i + 1]
            /\ j = i + 1 /\ HasNext(s, j, e)
      BY <1>1, <1>4 DEF Leaving
    <2>2. j - 1 = i /\ j # 1
      BY <1>2, <2>1
    <2> QED
      BY <1>4, <2>1, <2>2
  <1> QED
    BY <1>3, <1>4

\* s without t: the request at e's place, and perhaps what no one has claimed.
IsRest(t, s, e) ==
  /\ \A j \in DOMAIN t : \E i \in DOMAIN s : t[j] = s[i] /\ (i = Len(s) => j = Len(t))
  /\ \A j \in DOMAIN t : t[j] # cur[e]
  /\ \A i \in DOMAIN s : node[s[i]].elevatorId \in Elevators \ {e} =>
       \E j \in DOMAIN t : t[j] = s[i]

\* Unlinking takes a request out of the list; if the next field was read before
\* an append, whatever was appended goes with it.
LEMMA RUnlinks ==
  ASSUME IInv, NEW s \in Lists, RaceAt(s), NEW e \in Elevators, ENext(e),
         RemoveHeadSet(e) \/ RemoveSet(e)
  PROVE  /\ \E t \in Lists : Chain(t)' /\ OnList(t, e)' /\ IsRest(t, s, e)
         /\ \A n \in Nodes : node'[n] = node[n] \/ \E i \in DOMAIN s : s[i] = n
  <1>1. TypeOK /\ ElevatorType /\ ListType
    BY DEF IInv, TypeOK
  <1>2. Chain(s) /\ Holding(s, e)
    BY DEF RaceAt, OnList
  <1>3. /\ Len(s) \in Nat /\ DOMAIN s = 1 .. Len(s)
        /\ \A i \in DOMAIN s : s[i] \in Nodes /\ s[i] # NULL
    BY ListFacts, NodesFinite
  <1>4. /\ epc[e] \in {"remHeadSet", "remSet"}
        /\ epc'[e] = IF epc[e] = "remHeadSet" THEN "remClear" ELSE "remFree"
        /\ cur' = cur /\ eptr' = eptr
        /\ IF epc[e] = "remHeadSet"
           THEN headOfRequests' = nxt[e] /\ node' = node
           ELSE headOfRequests' = headOfRequests /\ node' = [node EXCEPT ![prev[e]].next = nxt[e]]
    BY <1>1 DEF RemoveHeadSet, RemoveSet, EStep, ElevatorType, ride, walk
  <1>5. PICK k \in DOMAIN s :
          /\ s[k] = cur[e] /\ eptr[e] = cur[e] /\ HasNext(s, k, e)
          /\ epc[e] = "remHeadSet" => k = 1
          /\ epc[e] = "remSet" => k # 1 /\ k - 1 \in DOMAIN s /\ prev[e] = s[k - 1]
    BY <1>4, RPlace
  <1>6. cur[e] \in Nodes /\ node[cur[e]].elevatorId = e /\ node[cur[e]].status = "live"
    BY <1>2, <1>4, <1>5 DEF Holding, RemovePC, Chain
  <1>7. /\ \A n \in Nodes :
             /\ node'[n].status = node[n].status
             /\ node'[n].elevatorId = node[n].elevatorId
             /\ node'[n].next = IF k # 1 /\ n = s[k - 1] THEN nxt[e] ELSE node[n].next
        /\ \A n \in Nodes : node'[n] = node[n] \/ \E i \in DOMAIN s : s[i] = n
        /\ headOfRequests' = IF k = 1 THEN nxt[e] ELSE headOfRequests
    BY <1>1, <1>3, <1>4, <1>5 DEF ListType, NodeState
  \* What goes is what is at k .. m.
  <1>8. PICK m \in DOMAIN s :
          /\ k <= m /\ nxt[e] = IF m = Len(s) THEN NULL ELSE s[m + 1]
          /\ \A i \in DOMAIN s : node[s[i]].elevatorId \in Elevators \ {e} => i \notin k .. m
    <2>1. \A i \in DOMAIN s : node[s[i]].elevatorId \in Elevators \ {e} => i # k
      BY <1>5, <1>6
    <2>2. CASE nxt[e] = NULL
      <3>1. \A i \in DOMAIN s : i > k => node[s[i]].elevatorId = NoElevator
        BY <1>5, <2>2 DEF HasNext
      <3>2. Len(s) \in DOMAIN s /\ k <= Len(s)
        BY <1>3
      <3>3. ASSUME NEW i \in DOMAIN s, node[s[i]].elevatorId \in Elevators \ {e}
            PROVE  i \notin k .. Len(s)
        <4>1. i # k /\ ~(i > k)
          BY <2>1, <3>1, <3>3, BuildingAssumption
        <4> QED
          BY <1>3, <4>1
      <3> QED
        BY <2>2, <3>2, <3>3
    <2>3. CASE nxt[e] # NULL
      <3>1. nxt[e] = node[s[k]].next
        BY <1>5, <2>3 DEF HasNext
      <3>2. k # Len(s) /\ nxt[e] = s[k + 1]
        BY <1>2, <2>3, <3>1 DEF Chain
      <3>3. \A i \in DOMAIN s : i # k => i \notin k .. k
        BY <1>3
      <3>4. k <= k
        BY <1>3
      <3> QED
        BY <2>1, <3>2, <3>3, <3>4
    <2> QED
      BY <2>2, <2>3
  <1>9. PICK t \in Lists : IsCut(t, s, k, m) /\ Chain(t)'
    <2>1. \A n \in Nodes :
            /\ node'[n].status = node[n].status
            /\ node'[n].next = IF k # 1 /\ n = s[k - 1] THEN nxt[e] ELSE node[n].next
      BY <1>7
    <2> QED
      BY <1>2, <1>7, <1>8, <2>1, Unlink
  <1>10. /\ Len(t) = Len(s) - (m + 1 - k)
         /\ \A i \in DOMAIN t : Place(i, k, m) \in DOMAIN s /\ t[i] = s[Place(i, k, m)]
         /\ \A i \in DOMAIN t : \A j \in k .. m : t[i] # s[j]
         /\ \A i \in DOMAIN s : i \notin k .. m => \E j \in DOMAIN t : t[j] = s[i]
    BY <1>9 DEF IsCut
  <1>11. Len(t) \in Nat /\ DOMAIN t = 1 .. Len(t)
    BY ListFacts
  <1>12. \A j \in DOMAIN t : t[j] # cur[e]
    <2>1. k \in k .. m
      BY <1>3, <1>8
    <2> QED
      BY <1>5, <1>10, <2>1
  <1>13. IsRest(t, s, e)
    <2>1. ASSUME NEW j \in DOMAIN t
          PROVE  \E i \in DOMAIN s : t[j] = s[i] /\ (i = Len(s) => j = Len(t))
      <3>1. Place(j, k, m) = Len(s) => j = Len(t)
        BY <1>3, <1>8, <1>10, <1>11 DEF Place
      <3> QED
        BY <1>10, <3>1
    <2> QED
      BY <1>8, <1>10, <1>12, <2>1 DEF IsRest
  <1>14. OnList(t, e)'
    <2>1. /\ eptr'[e] = cur'[e] /\ cur'[e] \in Nodes
          /\ node'[cur'[e]].status = "live" /\ node'[cur'[e]].elevatorId = e
          /\ \A i \in DOMAIN t : t[i] # cur'[e]
      BY <1>4, <1>5, <1>6, <1>7, <1>12
    <2>2. epc'[e] \in {"remClear", "remFree"}
      BY <1>4
    <2>3. Holding(t, e)'
      BY <2>1, <2>2 DEF Holding, Unlinked
    <2> QED
      BY <2>2, <2>3 DEF OnList, Seeking, Leaving
  <1> QED
    BY <1>7, <1>9, <1>13, <1>14

\* An elevator's step leaves the list a list.
LEMMA RElevator ==
  ASSUME IInv, LiveDiffer, NEW s \in Lists, RaceAt(s), NEW e \in Elevators, ENext(e)
  PROVE  ListSound'
  <1>1. \A j \in DOMAIN s : \E i \in DOMAIN s : s[j] = s[i] /\ (i = Len(s) => j = Len(s))
    OBVIOUS
  <1>2. CASE Take(e) \/ RemoveClear(e) \/ RemoveFree(e)
    <2>1. epc[e] \in ElevatorCS
      BY <1>2 DEF Take, RemoveClear, RemoveFree, EStep, ElevatorCS
    <2>2. /\ Chain(s)' /\ OnList(s, e)'
          /\ \A n \in Nodes : \/ node'[n] = node[n]
                              \/ node[n].elevatorId # NoElevator
                              \/ \E i \in DOMAIN s : s[i] = n
      BY <1>2, RTakes, RFrees
    <2>3. \A d \in Elevators \ {e} : OnList(s, d)'
      BY <2>1, ROthers
    <2>4. Joining(s)'
      BY <1>1, <2>2, RKeepsJoining
    <2> QED
      BY <2>2, <2>3, <2>4 DEF RaceAt, ListSound
  <1>3. CASE RemoveHeadSet(e) \/ RemoveSet(e)
    <2>1. epc[e] \in ElevatorCS
      BY <1>3 DEF RemoveHeadSet, RemoveSet, EStep, ElevatorCS
    <2>2. PICK t \in Lists : Chain(t)' /\ OnList(t, e)' /\ IsRest(t, s, e)
      BY <1>3, RUnlinks
    <2>3. \A n \in Nodes : node'[n] = node[n] \/ \E i \in DOMAIN s : s[i] = n
      BY <1>3, RUnlinks
    <2>4. \A d \in Elevators \ {e} : OnList(t, d)'
      BY <2>1, <2>2, ROthers DEF IsRest
    <2>5. Joining(t)'
      BY <2>2, <2>3, RKeepsJoining DEF IsRest
    <2> QED
      BY <2>2, <2>4, <2>5 DEF RaceAt, ListSound
  <1>4. CASE ~Take(e) /\ ~RemoveHeadSet(e) /\ ~RemoveClear(e) /\ ~RemoveSet(e) /\ ~RemoveFree(e)
    <2>1. headOfRequests' = headOfRequests /\ node' = node
      BY <1>4, EList DEF listVars
    <2>2. OnList(s, e)'
      BY <1>4, RWalking
    <2>3. \A d \in Elevators \ {e} : OnList(s, d)'
      BY <2>1, ROthers
    <2>4. Joining(s)'
      BY <1>1, <2>1, RKeepsJoining
    <2>5. Chain(s)'
      BY <2>1 DEF RaceAt, Chain
    <2> QED
      BY <2>2, <2>3, <2>4, <2>5 DEF RaceAt, ListSound
  <1> QED
    BY <1>2, <1>3, <1>4

-----------------------------------------------------------------------------
(* The invariant, and what follows from it.                                 *)

\* The list is empty at the start.
LEMMA RaceInit == Init => RaceInv
  <1>1. SUFFICES ASSUME Init PROVE RaceInv
    OBVIOUS
  <1>2. PICK s \in Lists : s = <<>> /\ DOMAIN s = {}
    BY EmptyList
  <1>3. /\ \A p \in Passengers : ppc[p] = "idle"
        /\ \A e \in Elevators : epc[e] = "loop"
        /\ headOfRequests = NULL
    BY <1>1 DEF Init
  <1>4. Chain(s) /\ Joining(s)
    BY <1>2, <1>3 DEF Chain, Joining, Adding
  <1>5. \A e \in Elevators : OnList(s, e)
    BY <1>3 DEF OnList, Seeking, Holding, Leaving, Serving, RidePC, RemovePC
  <1> QED
    BY <1>1, <1>4, <1>5, StaticInit DEF RaceInv, ListSound, RaceAt

\* addRequest's lock does its work whatever becomes of the list.
LEMMA TurnsStep == IInv /\ Turns /\ [Next]_vars => Turns'
  <1>1. SUFFICES ASSUME IInv, Turns, [Next]_vars PROVE Turns'
    OBVIOUS
  <1>2. ASSUME NEW p \in Passengers, PNext(p) PROVE Turns'
    BY <1>1, <1>2, PTurns DEF IInv
  <1>3. ASSUME NEW e \in Elevators, ENext(e) PROVE Turns'
    BY <1>1, <1>3, EKeepsPassengers DEF Turns, pvars
  <1>4. CASE Stop \/ UNCHANGED vars
    BY <1>1, <1>4 DEF Stop, vars, locks, pvars, Turns
  <1> QED
    BY <1>1, <1>2, <1>3, <1>4 DEF Next, Halted

\* A step keeps the list a list, when no two nodes in memory are equal.
LEMMA SoundStep == IInv /\ Turns /\ ListSound /\ LiveDiffer /\ [Next]_vars => ListSound'
  <1>1. SUFFICES ASSUME IInv, Turns, ListSound, LiveDiffer, [Next]_vars PROVE ListSound'
    OBVIOUS
  <1>2. PICK s \in Lists : RaceAt(s)
    BY <1>1 DEF ListSound
  <1>3. ASSUME NEW p \in Passengers, PNext(p) PROVE ListSound'
    BY <1>1, <1>2, <1>3, RPassenger DEF ListSound
  <1>4. ASSUME NEW e \in Elevators, ENext(e) PROVE ListSound'
    BY <1>1, <1>2, <1>4, RElevator
  <1>5. CASE Stop \/ UNCHANGED vars
    <2>1. UNCHANGED <<headOfRequests, node, ppc, pptr, trip, epc, cur, eptr, prev, nxt>>
      BY <1>5 DEF Stop, vars, listVars, pvars, ride, walk
    <2>2. Chain(s)' /\ Joining(s)'
      BY <1>2, <2>1 DEF RaceAt, Chain, Joining, Req
    <2>3. \A e \in Elevators : OnList(s, e)'
      <3>1. SUFFICES ASSUME NEW e \in Elevators PROVE OnList(s, e)'
        OBVIOUS
      <3>2. Seeking(s, e) /\ Holding(s, e) /\ Leaving(s, e)
        BY <1>2 DEF RaceAt, OnList
      <3>3. Seeking(s, e)' /\ Holding(s, e)' /\ Leaving(s, e)'
        BY <2>1, <3>2 DEF Seeking, Holding, Leaving, HasNext, Serving
      <3> QED
        BY <3>3 DEF OnList
    <2> QED
      BY <2>2, <2>3 DEF RaceAt, ListSound
  <1> QED
    BY <1>1, <1>3, <1>4, <1>5 DEF Next, Halted

\* What differs from everything that was ever made differs from what is left.
LEMMA AllAreLive == AllDiffer => LiveDiffer
  BY DEF AllDiffer, LiveDiffer, Differ

\* Every step keeps the invariant.
LEMMA RaceStep == IInv /\ RaceInv /\ [Next]_vars => RaceInv'
  BY TurnsStep, SoundStep, DifferedBefore, AllAreLive DEF RaceInv

\* As long as no two requests are equal, the elevators see a list of live
\* nodes, and the requests they serve are in it.
THEOREM RaceWellFormed == Spec => []RaceInv
  BY RaceInit, RaceStep, Invariance, PTL DEF Spec

\* The request an elevator serves stays in the list.
LEMMA SoundServed == ListSound => ServedListed
  <1>1. SUFFICES ASSUME ListSound, NEW e \in Elevators, Serving(e)
                 PROVE  cur[e] \in Listed /\ node[cur[e]].status = "live"
    BY DEF ServedListed
  <1>2. PICK s \in Lists : RaceAt(s)
    BY <1>1 DEF ListSound
  <1>3. \E i \in DOMAIN s : s[i] = cur[e]
    BY <1>1, <1>2 DEF RaceAt, OnList, Holding, Serving, RidePC, Unlinked
  <1> QED
    BY <1>2, <1>3, ListedIs DEF RaceAt, Chain

\* Elevators follow pointers into the list, and the one they have unlinked.
LEMMA SoundTouched == ListSound => TouchedLive
  <1>1. SUFFICES ASSUME ListSound, NEW e \in Elevators, NEW n \in ETouches(e)
                 PROVE  IF n = NULL THEN epc[e] = "peek" ELSE node[n].status # "freed"
    BY DEF TouchedLive
  <1>2. PICK s \in Lists : RaceAt(s)
    BY <1>1 DEF ListSound
  <1>3. /\ Len(s) \in Nat /\ DOMAIN s = 1 .. Len(s) /\ (s = <<>> <=> Len(s) = 0)
        /\ \A i \in DOMAIN s : s[i] # NULL /\ node[s[i]].status = "live"
    BY <1>2, ListFacts, NodesFinite DEF RaceAt, Chain
  <1>4. Chain(s) /\ Seeking(s, e) /\ Holding(s, e) /\ Leaving(s, e)
    BY <1>2 DEF RaceAt, OnList
  <1>5. headOfRequests # NULL => \E i \in DOMAIN s : s[i] = headOfRequests
    BY <1>3, <1>4 DEF Chain
  <1>6. CASE epc[e] = "peek"
    BY <1>1, <1>3, <1>5, <1>6 DEF ETouches
  <1>7. CASE epc[e] \in {"walk", "take"}
    <2>1. (eptr[e] = NULL /\ epc[e] = "walk") \/ \E i \in DOMAIN s : eptr[e] = s[i]
      BY <1>4, <1>7 DEF Seeking
    <2> QED
      BY <1>1, <1>3, <1>7, <2>1 DEF ETouches
  <1>8. CASE epc[e] \in {"plan", "remHead"}
    <2>1. \E i \in DOMAIN s : s[i] = cur[e]
      BY <1>4, <1>8 DEF Holding, Serving, RidePC, RemovePC, Unlinked
    <2> QED
      BY <1>1, <1>3, <1>5, <1>8, <2>1 DEF ETouches
  <1>9. CASE epc[e] = "remClear"
    <2>1. eptr[e] = cur[e] /\ cur[e] \in Nodes /\ node[cur[e]].status = "live"
      BY <1>4, <1>9 DEF Holding, RemovePC, Unlinked
    <2> QED
      BY <1>1, <1>9, <2>1, NodesFinite DEF ETouches
  <1>10. CASE epc[e] \in {"remWalk", "remMatch", "remSet", "remSkip"}
    <2>1. \E i \in DOMAIN s : prev[e] = s[i]
      BY <1>4, <1>10 DEF Leaving
    <2>2. \E i \in DOMAIN s : eptr[e] = s[i]
      <3>1. CASE epc[e] = "remWalk"
        BY <1>4, <3>1 DEF Leaving
      <3>2. CASE epc[e] # "remWalk"
        <4>1. PICK i, j \in DOMAIN s : i < j /\ eptr[e] = s[i + 1]
          BY <1>4, <1>10, <3>2 DEF Leaving
        <4>2. i + 1 \in DOMAIN s
          BY <1>3, <4>1
        <4> QED
          BY <4>1, <4>2
      <3> QED
        BY <3>1, <3>2
    <2> QED
      BY <1>1, <1>3, <1>10, <2>1, <2>2 DEF ETouches
  <1>11. CASE epc[e] \notin {"peek", "walk", "take", "plan", "remHead", "remClear",
                             "remWalk", "remMatch", "remSet", "remSkip"}
    BY <1>1, <1>11 DEF ETouches
  <1> QED
    BY <1>6, <1>7, <1>8, <1>9, <1>10, <1>11

\* The request an elevator serves stays in the list, allocated.
THEOREM ServedStays == Spec => []ServedStaysListed
  <1>1. RaceInv => ServedStaysListed
    BY SoundServed DEF RaceInv, ServedStaysListed
  <1> QED
    BY <1>1, RaceWellFormed, PTL

\* No elevator touches NULL, but for the head of an empty list, or a freed node.
THEOREM TouchLive == Spec => []ElevatorsTouchLive
  <1>1. RaceInv => ElevatorsTouchLive
    BY SoundTouched DEF RaceInv, ElevatorsTouchLive
  <1> QED
    BY <1>1, RaceWellFormed, PTL

\* A passenger may repeat a trip, if the node of the earlier one has been freed:
\* it is enough that no two nodes in memory are equal (hw5.c:164-170).
THEOREM LiveDifferSuffices == Spec /\ []LiveDiffer => [](ServedListed /\ TouchedLive)
  <1>1. Init => Turns /\ ListSound
    <2>1. Init => AllDiffer
      BY DEF Init, AllDiffer, Differ, Unallocated
    <2> QED
      BY <2>1, RaceInit DEF RaceInv
  <1>2. IInv /\ Turns /\ ListSound /\ LiveDiffer /\ [Next]_vars => (Turns /\ ListSound)'
    BY TurnsStep, SoundStep
  <1>3. ListSound => ServedListed /\ TouchedLive
    BY SoundServed, SoundTouched
  <1> QED
    BY <1>1, <1>2, <1>3, Invariance, PTL DEF Spec
=============================================================================
