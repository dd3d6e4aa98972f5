-------------------------- MODULE EventServerProofs --------------------------
(***************************************************************************)
(* Theorems about EventServer, for any clients, probes, descriptors and    *)
(* sizes of files.  Whatever an uninitialised fd holds, every lookup by    *)
(* descriptor finds its struct (LoopInv, the last section).  When it is no *)
(* descriptor's number (Harmless) the server keeps its books and its       *)
(* counters, whatever indices the structs get; as long as, besides, no     *)
(* index is given twice, it answers as WebService promises; and with few   *)
(* clients none is given twice.                                            *)
(***************************************************************************)
EXTENDS EventServerInv, SequenceTheorems, FiniteSetTheorems, WellFoundedInduction, TLAPS

-----------------------------------------------------------------------------
(* Numbers and sequences.                                                  *)

\* A set of numbers has a least one.
LEMMA LeastFacts ==
  ASSUME NEW S, S \subseteq Nat, S # {}
  PROVE  \E m \in S : \A n \in S : m <= n
<1>1. PICK m \in S : \A n \in S : <<n, m>> \notin OpToRel(<, Nat)
  BY NatLessThanWellFounded, WFMin, Zenon
<1>2. \A n \in S : ~(n < m)
  BY <1>1, Zenon DEF OpToRel
<1>3. \A n \in S : m <= n
  BY <1>2
<1> QED BY <1>3

LEMMA MinFacts ==
  ASSUME NEW S, S \subseteq Nat, S # {}
  PROVE  Min(S) \in S /\ \A n \in S : Min(S) <= n
BY LeastFacts DEF Min

\* The descriptor the kernel hands out is a free one.
LEMMA FreeFacts ==
  ASSUME FreeFds # {}
  PROVE  LowestFree \in Fds /\ desc[LowestFree].kind = "free"
<1>1. FreeFds \subseteq Nat
  BY ServerAssumption DEF FreeFds, Fds
<1> QED BY <1>1, LeastFacts DEF LowestFree, FreeFds

\* The first struct of a descriptor, by its position.
LEMMA WithFdFacts ==
  ASSUME NEW list, Len(list) \in Nat, NEW f
  PROVE  /\ WithFd(list, f) = 0 => \A i \in 1 .. Len(list) : list[i].fd # f
         /\ WithFd(list, f) # 0 =>
              WithFd(list, f) \in 1 .. Len(list) /\ list[WithFd(list, f)].fd = f
<1> DEFINE I == {i \in 1 .. Len(list) : list[i].fd = f}
<1>1. WithFd(list, f) = IF I # {} THEN Min(I) ELSE 0
  BY DEF WithFd, SelectInSeq
<1>2. I \subseteq Nat
  OBVIOUS
<1>3. CASE I = {}
  BY <1>1, <1>3
<1>4. CASE I # {}
  <2>1. Min(I) \in I
    BY <1>2, <1>4, MinFacts
  <2> QED BY <1>1, <1>4, <2>1
<1> QED BY <1>3, <1>4

\* What is looked up by an index that is in the list is the first struct with it.
LEMMA WithIndexFacts ==
  ASSUME NEW list, Len(list) \in Nat, NEW n,
         \E i \in 1 .. Len(list) : list[i].index = n
  PROVE  LET k == WithIndex(list, n) IN
         /\ k \in 1 .. Len(list) /\ list[k].index = n
         /\ \A j \in 1 .. Len(list) : list[j].index = n => k <= j
<1> DEFINE I == {j \in 1 .. Len(list) : list[j].index = n}
<1>1. I # {} /\ I \subseteq Nat
  OBVIOUS
<1>2. Min(I) \in I /\ \A j \in I : Min(I) <= j
  BY <1>1, MinFacts
<1>3. SelectInSeq(list, LAMBDA r : r.index = n) = Min(I)
  BY <1>1 DEF SelectInSeq
<1>4. WithIndex(list, n) = Min(I)
  BY <1>2, <1>3 DEF WithIndex
<1> HIDE DEF WithIndex
<1> QED BY <1>2, <1>4

\* The first struct with its index is the one found by it, and the one taken
\* out of the list by it.
LEMMA FirstIndexFacts ==
  ASSUME NEW list, Len(list) \in Nat, NEW i \in 1 .. Len(list),
         \A j \in 1 .. i - 1 : list[j].index # list[i].index
  PROVE  /\ WithIndex(list, list[i].index) = i
         /\ removeRequest(list, list[i].index) = RemoveAt(list, i)
<1> DEFINE n == list[i].index
           I == {j \in 1 .. Len(list) : list[j].index = n}
<1>1. i \in I /\ I \subseteq Nat
  OBVIOUS
<1>2. Min(I) \in I /\ Min(I) <= i
  BY <1>1, MinFacts
<1>3. Min(I) = i
  BY <1>2
<1>4. SelectInSeq(list, LAMBDA r : r.index = n) = i
  BY <1>1, <1>3 DEF SelectInSeq
<1> QED BY <1>4 DEF WithIndex, removeRequest

LEMMA RemoveAtFacts ==
  ASSUME NEW S, NEW s \in Seq(S), NEW i \in 1 .. Len(s)
  PROVE  /\ RemoveAt(s, i) \in Seq(S)
         /\ Len(RemoveAt(s, i)) = Len(s) - 1
         /\ \A j \in 1 .. Len(s) - 1 :
              RemoveAt(s, i)[j] = IF j < i THEN s[j] ELSE s[j + 1]
<1> DEFINE a == SubSeq(s, 1, i - 1)
           b == SubSeq(s, i + 1, Len(s))
<1>1. Len(s) \in Nat /\ i \in Nat /\ \A j \in 1 .. Len(s) : s[j] \in S
  BY LenProperties, ElementOfSeq
<1>2. a \in Seq(S) /\ Len(a) = i - 1 /\ \A j \in 1 .. i - 1 : a[j] = s[j]
  <2>1. \A j \in 1 .. i - 1 : s[j] \in S
    BY <1>1
  <2>2. /\ a \in Seq(S)
        /\ Len(a) = IF 1 <= i - 1 THEN i - 1 - 1 + 1 ELSE 0
        /\ \A j \in 1 .. i - 1 - 1 + 1 : a[j] = s[1 + j - 1]
    BY <1>1, <2>1, SubSeqProperties
  <2> QED BY <1>1, <2>2
<1>3. b \in Seq(S) /\ Len(b) = Len(s) - i /\ \A j \in 1 .. Len(s) - i : b[j] = s[i + j]
  <2>1. \A j \in i + 1 .. Len(s) : s[j] \in S
    BY <1>1
  <2>2. /\ b \in Seq(S)
        /\ Len(b) = IF i + 1 <= Len(s) THEN Len(s) - (i + 1) + 1 ELSE 0
        /\ \A j \in 1 .. Len(s) - (i + 1) + 1 : b[j] = s[i + 1 + j - 1]
    BY <1>1, <2>1, SubSeqProperties
  <2> QED BY <1>1, <2>2
<1>4. RemoveAt(s, i) = a \o b
  BY DEF RemoveAt
<1>5. /\ a \o b \in Seq(S) /\ Len(a \o b) = Len(a) + Len(b)
      /\ \A j \in 1 .. Len(a) + Len(b) :
           (a \o b)[j] = IF j <= Len(a) THEN a[j] ELSE b[j - Len(a)]
  BY <1>2, <1>3, ConcatProperties
<1> HIDE DEF a, b
<1>6. ASSUME NEW j \in 1 .. Len(s) - 1
      PROVE  (a \o b)[j] = IF j < i THEN s[j] ELSE s[j + 1]
  <2>1. CASE j < i
    BY <1>1, <1>2, <1>3, <1>5, <2>1
  <2>2. CASE ~(j < i)
    <3>1. j - (i - 1) \in 1 .. Len(s) - i /\ i + (j - (i - 1)) = j + 1
      BY <1>1, <2>2
    <3>2. (a \o b)[j] = b[j - (i - 1)]
      BY <1>1, <1>2, <1>3, <1>5, <2>2
    <3> QED BY <1>3, <2>2, <3>1, <3>2
  <2> QED BY <2>1, <2>2
<1> QED BY <1>1, <1>2, <1>3, <1>4, <1>5, <1>6

\* Taking the last struct out again leaves the list as it was.
LEMMA RemoveLast ==
  ASSUME NEW S, NEW s \in Seq(S), NEW t \in Seq(S), Len(t) = Len(s) + 1,
         \A j \in 1 .. Len(s) : t[j] = s[j]
  PROVE  RemoveAt(t, Len(t)) = s
<1> DEFINE u == RemoveAt(t, Len(t))
<1>1. Len(s) \in Nat /\ Len(t) \in 1 .. Len(t)
  BY LenProperties
<1>2. /\ u \in Seq(S) /\ Len(u) = Len(t) - 1
      /\ \A j \in 1 .. Len(t) - 1 : u[j] = IF j < Len(t) THEN t[j] ELSE t[j + 1]
  <2>1. Len(t) \in 1 .. Len(t)
    BY <1>1
  <2> QED BY <2>1, RemoveAtFacts
<1> HIDE DEF u
<1>3. u = s
  BY <1>1, <1>2, SeqEqual
<1> QED BY <1>3 DEF u

-----------------------------------------------------------------------------
(* The statistics, as sets to count.                                       *)

OkClients == {c \in Clients : told[c] # <<>> /\ told[c][1].status = 200}
ErrorClients == {c \in Clients : told[c] # <<>> /\ told[c][1].status \in {400, 404, 413}}
BodyClients == {c \in OkClients : told[c][1].body \notin {<<"file">>, <<>>}}
Chunks == {k \in Clients \X (2 .. CHUNKS + 1) : k[2] <= Len(told[k[1]])}
OpenClients ==
  {c \in Clients : told[c] # <<>> /\ told[c][1].status = 400 /\ Asks \cap Unfinished # {}}

\* The counters are those of the clients, twice of whom had a header counted that
\* was an error's.
Booked(twice) ==
  /\ stats1.requests = Cardinality(OkClients)
  /\ stats1.headers = Cardinality(OkClients) + twice
  /\ stats1.bodies = Cardinality(BodyClients) + Cardinality(Chunks)
  /\ stats1.errors = Cardinality(ErrorClients)
  /\ stats1.errorHeaders = Cardinality(ErrorClients)

\* WebService counts with a Cardinality of its own.
LEMMA SameCount ==
  ASSUME NEW S
  PROVE  Promise!Cardinality(S) = Cardinality(S)
BY DEF Promise!Cardinality, Cardinality

TallyOf(twice) ==
  <<Cardinality(OkClients), Cardinality(OkClients) + twice,
    Cardinality(BodyClients) + Cardinality(Chunks),
    Cardinality(ErrorClients), Cardinality(ErrorClients)>>

LEMMA TalliesAre ==
  Promise!Tallies = {TallyOf(twice) : twice \in 0 .. Cardinality(OpenClients)}
<1>1. Promise!Answered(Promise!Ok) = OkClients
  BY DEF Promise!Answered, Promise!Ok, OkClients
<1>2. Promise!Answered(Promise!Failed) = ErrorClients
  BY DEF Promise!Answered, Promise!Failed, ErrorClients
<1>3. Promise!ChunksTold = Cardinality(Chunks)
  <2>1. {k \in Clients \X (2 .. CHUNKS + 1) :
            k[2] <= Len([c \in Clients |-> told[c]][k[1]])} = Chunks
    BY DEF Chunks
  <2> QED BY <2>1, SameCount, Zenon DEF Promise!ChunksTold
<1>4. {c \in Promise!Answered(Promise!Ok) :
          [d \in Clients |-> told[d]][c][1].body \notin Promise!Bodiless} = BodyClients
  BY <1>1 DEF BodyClients, OkClients, Promise!Bodiless
<1>5. Promise!Doubtful = OpenClients
  BY DEF Promise!Doubtful, Promise!Answered, Promise!Unfinished, Unfinished, OpenClients
<1> QED BY <1>1, <1>2, <1>3, <1>4, <1>5, SameCount, Zenon DEF Promise!Tallies, TallyOf

LEMMA TalliesNext ==
  Promise!Tallies' = {TallyOf(twice)' : twice \in 0 .. Cardinality(OpenClients')}
<1>1. Promise!Answered(Promise!Ok)' = OkClients'
  BY DEF Promise!Answered, Promise!Ok, OkClients
<1>2. Promise!Answered(Promise!Failed)' = ErrorClients'
  BY DEF Promise!Answered, Promise!Failed, ErrorClients
<1>3. (Promise!ChunksTold = Cardinality(Chunks))'
  <2>1. ({k \in Clients \X (2 .. CHUNKS + 1) :
            k[2] <= Len([c \in Clients |-> told[c]][k[1]])} = Chunks)'
    BY DEF Chunks
  <2> QED BY <2>1, SameCount, Zenon DEF Promise!ChunksTold
<1>4. ({c \in Promise!Answered(Promise!Ok) :
          [d \in Clients |-> told[d]][c][1].body \notin Promise!Bodiless} = BodyClients)'
  BY <1>1 DEF BodyClients, OkClients, Promise!Bodiless
<1>5. Promise!Doubtful' = OpenClients'
  BY DEF Promise!Doubtful, Promise!Answered, Promise!Unfinished, Unfinished, OpenClients
<1> QED BY <1>1, <1>2, <1>3, <1>4, <1>5, SameCount, Zenon DEF Promise!Tallies, TallyOf

LEMMA StatisticsAre ==
  /\ Statistics <=> \E twice \in 0 .. Cardinality(OpenClients) : Booked(twice)
  /\ Statistics' <=> \E twice \in 0 .. Cardinality(OpenClients') : Booked(twice)'
<1>1. ASSUME NEW twice PROVE Report = TallyOf(twice) <=> Booked(twice)
  BY DEF Report, TallyOf, Booked
<1>2. ASSUME NEW twice PROVE Report' = TallyOf(twice)' <=> Booked(twice)'
  BY DEF Report, TallyOf, Booked
<1>3. Statistics <=> \E twice \in 0 .. Cardinality(OpenClients) : Report = TallyOf(twice)
  BY TalliesAre, Zenon DEF Statistics
<1>4. Statistics' <=> \E twice \in 0 .. Cardinality(OpenClients') : Report' = TallyOf(twice)'
  BY TalliesNext, Zenon DEF Statistics
<1> QED BY <1>1, <1>2, <1>3, <1>4, Zenon

LEMMA CountFinite ==
  /\ IsFiniteSet(OkClients) /\ IsFiniteSet(ErrorClients) /\ IsFiniteSet(BodyClients)
  /\ IsFiniteSet(Chunks) /\ IsFiniteSet(OpenClients)
<1>1. IsFiniteSet(Clients)
  BY ServerAssumption
<1>2. IsFiniteSet(Clients \X (2 .. CHUNKS + 1))
  <2>1. IsFiniteSet(2 .. CHUNKS + 1)
    BY ServerAssumption, FS_Interval
  <2> QED BY <1>1, <2>1, FS_Product
<1>3. /\ OkClients \in SUBSET Clients /\ ErrorClients \in SUBSET Clients
      /\ BodyClients \in SUBSET Clients /\ Chunks \in SUBSET (Clients \X (2 .. CHUNKS + 1))
      /\ OpenClients \in SUBSET Clients
  BY DEF OkClients, ErrorClients, BodyClients, Chunks, OpenClients
<1> QED BY <1>1, <1>2, <1>3, FS_Subset

-----------------------------------------------------------------------------
(* What a part depends on.                                                 *)

LEMMA StatisticsFrame ==
  ASSUME Statistics, UNCHANGED <<told, stats1>>
  PROVE  Statistics'
<1>1. \A twice : Booked(twice)' <=> Booked(twice)
  BY DEF Booked, OkClients, ErrorClients, BodyClients, Chunks
<1>2. OpenClients' = OpenClients
  BY DEF OpenClients
<1> QED BY <1>1, <1>2, StatisticsAre

LEMMA ListFrame ==
  ASSUME Filed, OneEach, Complete, UNCHANGED <<headOfArray, interest, asked, desc, told>>
  PROVE  Filed' /\ OneEach' /\ Complete'
BY DEF Filed, OneEach, Complete

\* A step in which the server is not brought down by a lookup keeps NeverLost.
LEMMA LostFrame ==
  ASSUME NeverLost, reset \subseteq reset',
         \/ down' # "segv"
         \/ down' = down /\ told' = told
  PROVE  NeverLost'
BY DEF NeverLost

-----------------------------------------------------------------------------
(* What the invariant says of a struct and of a socket.                    *)

LEMMA SocketFacts ==
  ASSUME KeptInv, NEW f \in Fds, IsSocket(f)
  PROVE  /\ desc[f].client \in Connections
         /\ interest[f] \in {"in", "out"}
         /\ interest[f] = "in" <=> told[desc[f].client] = <<>>
         /\ \A g \in Fds : g # f => desc[g].client # desc[f].client
BY DEF KeptInv, Types, TypeOK, Descriptors, Places, IsSocket

LEMMA ListFacts ==
  ASSUME KeptInv
  PROVE  /\ Len(headOfArray) \in Nat
         /\ DOMAIN headOfArray = 1 .. Len(headOfArray)
         /\ \A i \in 1 .. Len(headOfArray) :
              LET r == headOfArray[i] IN
              /\ r \in Struct /\ r.fd \in Fds
              /\ IsSocket(r.fd) /\ interest[r.fd] = "out"
              /\ desc[r.fd].client \in Clients
              /\ told[desc[r.fd].client] # <<>>
<1>1. headOfArray \in Seq(Struct)
  BY DEF KeptInv, Types, TypeOK
<1>2. /\ Len(headOfArray) \in Nat
      /\ DOMAIN headOfArray = 1 .. Len(headOfArray)
      /\ \A i \in 1 .. Len(headOfArray) : headOfArray[i] \in Struct
  BY <1>1, LenProperties, ElementOfSeq
<1>3. ASSUME NEW i \in 1 .. Len(headOfArray)
      PROVE  LET r == headOfArray[i] IN
             /\ r.fd \in Fds /\ IsSocket(r.fd) /\ interest[r.fd] = "out"
             /\ desc[r.fd].client \in Clients /\ told[desc[r.fd].client] # <<>>
  <2>1. headOfArray[i].fd \in Fds /\ interest[headOfArray[i].fd] = "out"
    BY <1>2 DEF KeptInv, Filed, Struct
  <2>2. IsSocket(headOfArray[i].fd)
    BY <2>1 DEF KeptInv, Descriptors
  <2>3. /\ desc[headOfArray[i].fd].client \in Connections
        /\ told[desc[headOfArray[i].fd].client] # <<>>
    BY <2>1, <2>2, SocketFacts
  <2> QED BY <2>1, <2>2, <2>3 DEF KeptInv, Conversations
<1> QED BY <1>2, <1>3

-----------------------------------------------------------------------------
(* The clients' steps.                                                     *)

LEMMA InitKept == Init => KeptInv
<1> SUFFICES ASSUME Init PROVE KeptInv
  OBVIOUS
<1>1. Types
  <2>1. TypeOK
    <3>1. <<>> \in Seq(Connections) /\ <<>> \in Seq(Struct)
      BY EmptySeq
    <3>2. 0 \in 0 .. CHUNKS
      BY ServerAssumption
    <3> QED BY <3>1, <3>2 DEF Init, TypeOK, Free, Connections
  <2>2. told = [c \in Connections |-> told[c]]
    BY DEF Init
  <2>3. \A c \in Connections : InOrder(told[c])
    BY DEF Init, InOrder
  <2>4. savedArray \in Clients \cup {"<empty>", "junk"}
    BY DEF Init
  <2> QED BY <2>1, <2>2, <2>3, <2>4 DEF Types
<1>2. Descriptors
  BY DEF Init, Descriptors, IsSocket, Free
<1>3. Places
  BY DEF Init, Places, IsSocket, Free
<1>4. Conversations
  BY DEF Init, Conversations
<1>5. Events
  BY DEF Init, Events
<1>6. Filed /\ OneEach /\ Complete
  BY DEF Init, Filed, OneEach, Complete, Free
<1>7. Statistics
  <2>1. /\ OkClients = {} /\ ErrorClients = {} /\ BodyClients = {} /\ Chunks = {}
        /\ OpenClients = {}
    BY DEF Init, OkClients, ErrorClients, BodyClients, Chunks, OpenClients, Connections
  <2>2. Booked(0) /\ 0 \in 0 .. Cardinality(OpenClients)
    BY <2>1, FS_EmptySet DEF Booked, Init
  <2> QED BY <2>2, StatisticsAre
<1>8. NeverLost
  BY DEF Init, NeverLost
<1> QED BY <1>1, <1>2, <1>3, <1>4, <1>5, <1>6, <1>7, <1>8 DEF KeptInv

LEMMA ConnectKept ==
  ASSUME KeptInv, NEW c \in Connections, Connect(c)
  PROVE  KeptInv'
<1> USE DEF Connect, kernelVars, serverVars
<1>1. /\ Len(backlog) \in Nat /\ backlog' \in Seq(Connections)
      /\ Len(backlog') = Len(backlog) + 1 /\ backlog'[Len(backlog) + 1] = c
      /\ backlog' # <<>>
      /\ \A i \in 1 .. Len(backlog) : backlog'[i] = backlog[i] /\ backlog[i] \in Connections
  <2>1. backlog \in Seq(Connections)
    BY DEF KeptInv, Types, TypeOK
  <2>2. Len(backlog) \in Nat /\ \A i \in 1 .. Len(backlog) : backlog[i] \in Connections
    BY <2>1, LenProperties, ElementOfSeq
  <2> QED BY <2>1, <2>2, AppendProperties
<1>2. Types'
  BY <1>1 DEF KeptInv, Types, TypeOK
<1>3. Descriptors'
  BY DEF KeptInv, Descriptors, IsSocket
<1>4. Places'
  <2>1. /\ \A i \in 1 .. Len(backlog) : backlog[i] # c
        /\ \A f \in Fds : desc[f].client # c
        /\ told[c] = <<>> /\ inbox'[c] # "new"
        /\ \A d \in Connections : inbox[d] # "new" => inbox'[d] # "new"
    <3>1. \A i \in 1 .. Len(backlog) : backlog[i] # c
      BY DEF KeptInv, Places
    <3>2. ASSUME NEW f \in Fds PROVE desc[f].client # c
      <4>1. CASE IsSocket(f)
        BY <4>1 DEF KeptInv, Places
      <4>2. CASE ~IsSocket(f)
        BY <4>2, ServerAssumption DEF KeptInv, Descriptors, Connections
      <4> QED BY <4>1, <4>2
    <3>3. told[c] = <<>>
      BY DEF KeptInv, Conversations
    <3>4. inbox'[c] # "new" /\ \A d \in Connections : inbox[d] # "new" => inbox'[d] # "new"
      BY DEF KeptInv, Types, TypeOK
    <3> QED BY <3>1, <3>2, <3>3, <3>4
  <2>2. \A i, j \in 1 .. Len(backlog') : backlog'[i] = backlog'[j] => i = j
    BY <1>1, <2>1 DEF KeptInv, Places
  <2>3. \A i \in 1 .. Len(backlog') :
          /\ \A f \in Fds : desc[f].client # backlog'[i]
          /\ inbox'[backlog'[i]] # "new" /\ told[backlog'[i]] = <<>>
    BY <1>1, <2>1 DEF KeptInv, Places
  <2>4. \A f \in Fds : IsSocket(f) => inbox'[desc[f].client] # "new"
    BY <2>1, SocketFacts DEF KeptInv, Places
  <2> QED BY <2>2, <2>3, <2>4 DEF KeptInv, Places, IsSocket
<1>5. Conversations'
  BY DEF KeptInv, Conversations, Types, TypeOK
<1>6. Events'
  BY <1>1 DEF KeptInv, Events, IsSocket, Types, TypeOK
<1>7. Filed' /\ OneEach' /\ Complete' /\ Statistics' /\ NeverLost'
  BY ListFrame, StatisticsFrame, LostFrame DEF KeptInv
<1> QED BY <1>2, <1>3, <1>4, <1>5, <1>6, <1>7 DEF KeptInv

LEMMA AskKept ==
  ASSUME KeptInv, NEW c \in Connections, Ask(c)
  PROVE  KeptInv'
<1> USE DEF Ask, kernelVars, serverVars
<1>1. PICK k \in Asks : asked' = [asked EXCEPT ![c] = [kind |-> k, by |-> c]]
  OBVIOUS
<1>2. told[c] = <<>> /\ c \in Clients /\ asked'[c] # NoRequest
  BY <1>1, ServerAssumption DEF KeptInv, Conversations, Types, TypeOK
<1>3. Types'
  BY <1>1, <1>2 DEF KeptInv, Types, TypeOK
<1>4. Descriptors'
  BY DEF KeptInv, Descriptors, IsSocket
<1>5. Places'
  BY DEF KeptInv, Places, IsSocket, Types, TypeOK
<1>6. Conversations'
  BY <1>1, <1>2 DEF KeptInv, Conversations, Types, TypeOK
<1>7. Events'
  BY DEF KeptInv, Events, IsSocket, Types, TypeOK
<1>8. Filed' /\ OneEach' /\ Complete'
  <2>1. \A i \in 1 .. Len(headOfArray) : desc[headOfArray[i].fd].client # c
    BY <1>2, ListFacts
  <2>2. \A d \in Connections : d # c => asked'[d] = asked[d]
    BY <1>1 DEF KeptInv, Types, TypeOK
  <2>3. \A i \in 1 .. Len(headOfArray) :
          asked'[desc[headOfArray[i].fd].client] = asked[desc[headOfArray[i].fd].client]
    BY <2>1, <2>2, ListFacts
  <2>4. Filed'
    BY <2>3 DEF KeptInv, Filed
  <2>5. OneEach' /\ Complete'
    BY DEF KeptInv, OneEach, Complete
  <2> QED BY <2>4, <2>5
<1>9. Statistics'
  BY StatisticsFrame DEF KeptInv
<1>10. NeverLost'
  BY LostFrame DEF KeptInv
<1> QED BY <1>3, <1>4, <1>5, <1>6, <1>7, <1>8, <1>9, <1>10 DEF KeptInv

LEMMA LeaveKept ==
  ASSUME KeptInv, NEW c \in Connections, Leave(c)
  PROVE  KeptInv'
<1> USE DEF Leave, kernelVars, serverVars
<1>1. Types'
  BY DEF KeptInv, Types, TypeOK
<1>2. Descriptors'
  BY DEF KeptInv, Descriptors, IsSocket
<1>3. Places'
  BY DEF KeptInv, Places, IsSocket, Types, TypeOK
<1>4. Conversations'
  BY DEF KeptInv, Conversations, Types, TypeOK
<1>5. Events'
  BY DEF KeptInv, Events, IsSocket, Types, TypeOK
<1>6. Filed' /\ OneEach' /\ Complete' /\ Statistics' /\ NeverLost'
  BY ListFrame, StatisticsFrame, LostFrame DEF KeptInv
<1> QED BY <1>1, <1>2, <1>3, <1>4, <1>5, <1>6 DEF KeptInv

LEMMA ResetKept ==
  ASSUME KeptInv, NEW c \in Connections, Reset(c)
  PROVE  KeptInv'
<1> USE DEF Reset, kernelVars, serverVars
<1>1. Types'
  BY DEF KeptInv, Types, TypeOK
<1>2. Descriptors'
  BY DEF KeptInv, Descriptors, IsSocket
<1>3. Places'
  BY DEF KeptInv, Places, IsSocket
<1>4. Conversations'
  BY DEF KeptInv, Conversations
<1>5. Events'
  BY DEF KeptInv, Events, IsSocket
<1>6. Filed' /\ OneEach' /\ Complete' /\ Statistics' /\ NeverLost'
  BY ListFrame, StatisticsFrame, LostFrame DEF KeptInv
<1> QED BY <1>1, <1>2, <1>3, <1>4, <1>5, <1>6 DEF KeptInv

LEMMA StutterKept ==
  ASSUME KeptInv, UNCHANGED vars
  PROVE  KeptInv'
<1> USE DEF vars, clientVars, kernelVars, serverVars
<1>1. Types'
  BY DEF KeptInv, Types, TypeOK
<1>2. Descriptors' /\ Places' /\ Conversations' /\ Events'
  BY DEF KeptInv, Descriptors, Places, Conversations, Events, IsSocket
<1>3. Filed' /\ OneEach' /\ Complete' /\ Statistics' /\ NeverLost'
  BY ListFrame, StatisticsFrame, LostFrame DEF KeptInv
<1> QED BY <1>1, <1>2, <1>3 DEF KeptInv

LEMMA DrainKept ==
  ASSUME KeptInv, NEW f \in Fds, Drain(f)
  PROVE  KeptInv'
<1> USE DEF Drain, clientVars, serverVars
<1>1. Types'
  BY DEF KeptInv, Types, TypeOK
<1>2. Descriptors' /\ Places' /\ Conversations' /\ Events'
  BY DEF KeptInv, Descriptors, Places, Conversations, Events, IsSocket
<1>3. Filed' /\ OneEach' /\ Complete' /\ Statistics' /\ NeverLost'
  BY ListFrame, StatisticsFrame, LostFrame DEF KeptInv
<1> QED BY <1>1, <1>2, <1>3 DEF KeptInv

-----------------------------------------------------------------------------
(* Steps of the loop that leave the list alone.                            *)

LEMMA EpollWaitKept ==
  ASSUME KeptInv, EpollWait
  PROVE  KeptInv'
<1> USE DEF EpollWait, clientVars, kernelVars, serverVars
<1> DEFINE Fits(e) ==
             /\ e \in [fd : Fds \cup {ListenFd}, events : {"in", "out", "hup"}]
             /\ IF e.fd = ListenFd THEN e = Event(ListenFd, "in") /\ backlog # <<>>
                ELSE /\ e.fd \in Fds /\ e = Event(e.fd, e.events)
                     /\ interest[e.fd] # "none"
                     /\ e.events = "in" => /\ interest[e.fd] = "in"
                                           /\ inbox[desc[e.fd].client] # "nothing"
                                           /\ desc[e.fd].client \notin reset
                     /\ e.events = "out" => /\ interest[e.fd] = "out"
                                            /\ desc[e.fd].client \notin reset
                     /\ e.events = "hup" => desc[e.fd].client \in reset
<1>batch. batch' \subseteq Ready
  BY DEF kSubset
<1>1. ASSUME NEW e \in Ready
      PROVE  Fits(e)
  <2>1. ListenFd \notin Fds
    BY DEF ListenFd, Fds
  <2>2. CASE e = Event(ListenFd, "in") /\ 1 \in 1 .. Len(backlog)
    <3>1. backlog # <<>>
      BY <2>2, EmptySeq
    <3> QED BY <2>2, <3>1 DEF Event
  <2>3. ASSUME NEW f \in Fds, e = Event(f, "in"), interest[f] = "in",
               inbox[desc[f].client] # "nothing", desc[f].client \notin reset
        PROVE  Fits(e)
    BY <2>1, <2>3 DEF Event
  <2>4. ASSUME NEW f \in Fds, e = Event(f, "out"), interest[f] = "out",
               desc[f].client \notin reset
        PROVE  Fits(e)
    BY <2>1, <2>4 DEF Event
  <2>5. ASSUME NEW f \in Fds, e = Event(f, "hup"), interest[f] # "none",
               desc[f].client \in reset
        PROVE  Fits(e)
    BY <2>1, <2>5 DEF Event
  <2> QED BY <2>2, <2>3, <2>4, <2>5 DEF Ready
<1>2. Types'
  BY <1>1, <1>batch DEF KeptInv, Types, TypeOK
<1>3. Descriptors' /\ Places' /\ Conversations'
  BY DEF KeptInv, Descriptors, Places, Conversations, IsSocket
<1>4. Events'
  <2>1. ASSUME NEW e1 \in Ready, NEW e2 \in Ready, e1.fd = e2.fd
        PROVE  e1 = e2
    BY <1>1, <2>1
  <2>2. ASSUME NEW e \in Ready, e.fd # ListenFd
        PROVE  /\ IsSocket(e.fd)
               /\ e.events = "in" =>
                    interest[e.fd] = "in" /\ inbox[desc[e.fd].client] \in {"request", "eof"}
               /\ e.events = "out" => interest[e.fd] = "out"
               /\ e.events = "hup" => desc[e.fd].client \in reset
    <3>1. e.fd \in Fds /\ IsSocket(e.fd)
      BY <1>1, <2>2 DEF KeptInv, Descriptors
    <3>2. inbox[desc[e.fd].client] \in {"nothing", "request", "eof"}
      BY <3>1, SocketFacts DEF KeptInv, Places, Types, TypeOK
    <3> QED BY <1>1, <2>2, <3>1, <3>2
  <2>3. ASSUME NEW e \in Ready, e.fd = ListenFd
        PROVE  e.events = "in" /\ backlog # <<>>
    BY <1>1, <2>3 DEF Event
  <2> QED BY <1>batch, <2>1, <2>2, <2>3 DEF Events, IsSocket
<1>5. Filed' /\ OneEach' /\ Complete' /\ Statistics' /\ NeverLost'
  BY ListFrame, StatisticsFrame, LostFrame DEF KeptInv
<1> QED BY <1>2, <1>3, <1>4, <1>5 DEF KeptInv

\* An event that is taken leaves the others, which are of other descriptors.
LEMMA TakeFacts ==
  ASSUME KeptInv, NEW e \in batch, Take(e)
  PROVE  /\ down = "no" /\ batch' \subseteq batch
         /\ \A d \in batch' : d.fd # e.fd
         /\ e.fd # ListenFd => e.fd \in Fds /\ IsSocket(e.fd)
         /\ e.events \in {"in", "out", "hup"}
BY DEF Take, KeptInv, Events, Types, TypeOK

\* The events that are left still fit their descriptors.
LEMMA EventsFrame ==
  ASSUME Events, batch' \subseteq batch, UNCHANGED <<backlog, reset>>,
         \A d \in batch' : d.fd # ListenFd =>
           /\ IsSocket(d.fd) => IsSocket(d.fd)' /\ desc'[d.fd].client = desc[d.fd].client
           /\ interest'[d.fd] = interest[d.fd]
           /\ inbox'[desc[d.fd].client] = inbox[desc[d.fd].client]
  PROVE  Events'
BY DEF Events

LEMMA AcceptKept ==
  ASSUME KeptInv, NEW e \in batch, Accept(e)
  PROVE  KeptInv'
<1> USE DEF Accept, serverVars
<1> DEFINE f == LowestFree
           c == Head(backlog)
<1>1. f \in Fds /\ desc[f].kind = "free" /\ interest[f] = "none" /\ desc[f].client = NoClient
  BY FreeFacts DEF KeptInv, Descriptors, IsSocket, Types, TypeOK
<1>2. /\ Len(backlog) \in Nat /\ Len(backlog) >= 1
      /\ \A i \in 1 .. Len(backlog) : backlog[i] \in Connections
      /\ c = backlog[1] /\ c \in Connections
      /\ backlog' \in Seq(Connections) /\ Len(backlog') = Len(backlog) - 1
      /\ \A i \in 1 .. Len(backlog') : backlog'[i] = backlog[i + 1]
  <2>1. backlog # <<>> /\ backlog \in Seq(Connections)
    BY DEF KeptInv, Events, Types, TypeOK, Take
  <2>2. /\ Len(backlog) \in Nat /\ Len(backlog) >= 1
        /\ \A i \in 1 .. Len(backlog) : backlog[i] \in Connections
    BY <2>1, LenProperties, EmptySeq, ElementOfSeq
  <2>3. c = backlog[1]
    BY <2>1
  <2> QED BY <2>1, <2>2, <2>3, HeadTailProperties
<1>3. /\ told[c] = <<>> /\ inbox[c] # "new" /\ ~closed[c]
      /\ \A g \in Fds : desc[g].client # c
      /\ \A i \in 1 .. Len(backlog') : backlog'[i] # c
  <2>1. told[c] = <<>> /\ inbox[c] # "new" /\ \A g \in Fds : desc[g].client # c
    BY <1>2 DEF KeptInv, Places
  <2>2. ~closed[c]
    BY <1>2, <2>1 DEF KeptInv, Conversations
  <2>3. \A i \in 1 .. Len(backlog') : backlog'[i] # c
    BY <1>2 DEF KeptInv, Places
  <2> QED BY <2>1, <2>2, <2>3
<1> HIDE DEF f, c
<1>4. /\ desc' = [desc EXCEPT ![f] = Socket(c)]
      /\ interest' = [interest EXCEPT ![f] = "in"]
  BY DEF f, c
<1>5. /\ desc'[f].kind = "socket" /\ desc'[f].client = c
      /\ interest'[f] = "in" /\ \A g \in Fds \ {f} : desc'[g] = desc[g] /\ interest'[g] = interest[g]
  BY <1>1, <1>4 DEF KeptInv, Types, TypeOK, Socket
<1>6. Types'
  <2>1. Socket(c) \in [kind : {"free", "socket", "file", "directory"},
                       client : Connections \cup {NoClient}, offset : 0 .. CHUNKS]
    BY <1>2, ServerAssumption DEF Socket
  <2>2. batch' \subseteq batch
    BY TakeFacts
  <2> QED BY <1>1, <1>2, <1>4, <2>1, <2>2 DEF KeptInv, Types, TypeOK
<1>7. Descriptors'
  <2>1. c # NoClient
    BY <1>2, ServerAssumption DEF Connections
  <2> QED BY <1>5, <2>1 DEF KeptInv, Descriptors, IsSocket
<1>8. Places'
  <2>1. \A g, h \in Fds : IsSocket(g)' /\ desc'[g].client = desc'[h].client => g = h
    BY <1>3, <1>5 DEF KeptInv, Places, IsSocket
  <2>2. \A i, j \in 1 .. Len(backlog') : backlog'[i] = backlog'[j] => i = j
    BY <1>2 DEF KeptInv, Places
  <2>3. \A i \in 1 .. Len(backlog') :
          /\ \A g \in Fds : desc'[g].client # backlog'[i]
          /\ inbox[backlog'[i]] # "new" /\ told[backlog'[i]] = <<>>
    BY <1>2, <1>3, <1>5 DEF KeptInv, Places
  <2>4. \A g \in Fds : IsSocket(g)' =>
          /\ inbox[desc'[g].client] # "new" /\ ~closed[desc'[g].client]
          /\ interest'[g] = "in" <=> told[desc'[g].client] = <<>>
    BY <1>3, <1>5 DEF KeptInv, Places, IsSocket
  <2> QED BY <2>1, <2>2, <2>3, <2>4 DEF Places
<1>9. Conversations'
  BY DEF KeptInv, Conversations
<1>10. Events'
  <2>1. batch' \subseteq batch /\ \A d \in batch' : d.fd # ListenFd
    BY TakeFacts
  <2>2. ASSUME NEW d \in batch'
        PROVE  /\ IsSocket(d.fd) /\ d.fd \in Fds \ {f}
               /\ d.events = "in" =>
                    interest[d.fd] = "in" /\ inbox[desc[d.fd].client] \in {"request", "eof"}
               /\ d.events = "out" => interest[d.fd] = "out"
               /\ d.events = "hup" => desc[d.fd].client \in reset
    BY <1>1, <2>1 DEF KeptInv, Events, IsSocket, Types, TypeOK
  <2> QED BY <1>5, <2>1, <2>2 DEF KeptInv, Events, IsSocket
<1>11. Filed' /\ OneEach' /\ Complete'
  <2>1. \A i \in 1 .. Len(headOfArray) :
          /\ headOfArray[i].fd \in Fds \ {f}
          /\ headOfArray[i].fileopen # f
    BY <1>1, ListFacts DEF KeptInv, Filed
  <2>2. \A i \in 1 .. Len(headOfArray) :
          /\ desc'[headOfArray[i].fd] = desc[headOfArray[i].fd]
          /\ interest'[headOfArray[i].fd] = interest[headOfArray[i].fd]
          /\ headOfArray[i].fileopen \in Fds =>
               desc'[headOfArray[i].fileopen] = desc[headOfArray[i].fileopen]
    BY <1>5, <2>1
  <2>3. Filed'
    BY <2>2 DEF KeptInv, Filed
  <2>4. OneEach'
    BY DEF KeptInv, OneEach
  <2>5. Complete'
    BY <1>5 DEF KeptInv, Complete
  <2> QED BY <2>3, <2>4, <2>5
<1>12. Statistics' /\ NeverLost'
  BY StatisticsFrame, LostFrame DEF KeptInv
<1> QED BY <1>6, <1>7, <1>8, <1>9, <1>10, <1>11, <1>12 DEF KeptInv

LEMMA AcceptFailsKept ==
  ASSUME KeptInv, NEW e \in batch, AcceptFails(e)
  PROVE  KeptInv'
<1> USE DEF AcceptFails, clientVars, kernelVars, serverVars
<1>1. Types'
  BY TakeFacts DEF KeptInv, Types, TypeOK
<1>2. Descriptors' /\ Places' /\ Conversations'
  BY DEF KeptInv, Descriptors, Places, Conversations, IsSocket
<1>3. Events'
  BY TakeFacts DEF KeptInv, Events, IsSocket
<1>4. Filed' /\ OneEach' /\ Complete' /\ Statistics' /\ NeverLost'
  BY ListFrame, StatisticsFrame, LostFrame DEF KeptInv
<1> QED BY <1>1, <1>2, <1>3, <1>4 DEF KeptInv

LEMMA RecvNothingKept ==
  ASSUME KeptInv, NEW e \in batch, RecvNothing(e)
  PROVE  KeptInv'
<1> USE DEF RecvNothing, clientVars, kernelVars, serverVars
<1>1. Types'
  BY TakeFacts DEF KeptInv, Types, TypeOK
<1>2. Descriptors' /\ Places' /\ Conversations'
  BY DEF KeptInv, Descriptors, Places, Conversations, IsSocket
<1>3. Events'
  BY TakeFacts DEF KeptInv, Events, IsSocket
<1>4. Filed' /\ OneEach' /\ Complete' /\ Statistics' /\ NeverLost'
  BY ListFrame, StatisticsFrame, LostFrame DEF KeptInv
<1> QED BY <1>1, <1>2, <1>3, <1>4 DEF KeptInv

LEMMA FailsKept ==
  ASSUME KeptInv, NEW e \in batch, Fails(e)
  PROVE  KeptInv'
<1> USE DEF Fails, Transfer, Finished, clientVars, kernelVars, serverVars
<1>1. Types'
  BY TakeFacts DEF KeptInv, Types, TypeOK
<1>2. Descriptors' /\ Places' /\ Conversations'
  BY DEF KeptInv, Descriptors, Places, Conversations, IsSocket
<1>3. Events'
  BY TakeFacts DEF KeptInv, Events, IsSocket
<1>4. Filed' /\ OneEach' /\ Complete' /\ Statistics' /\ NeverLost'
  BY ListFrame, StatisticsFrame, LostFrame DEF KeptInv
<1> QED BY <1>1, <1>2, <1>3, <1>4 DEF KeptInv

LEMMA ServeWildKept ==
  ASSUME KeptInv, NEW e \in batch, ServeWild(e)
  PROVE  KeptInv'
<1> USE DEF ServeWild, Receives, clientVars, kernelVars, serverVars
<1>1. Types'
  BY TakeFacts DEF KeptInv, Types, TypeOK
<1>2. Descriptors' /\ Places' /\ Conversations'
  BY DEF KeptInv, Descriptors, Places, Conversations, IsSocket
<1>3. Events'
  BY TakeFacts DEF KeptInv, Events, IsSocket
<1>4. Filed' /\ OneEach' /\ Complete' /\ Statistics' /\ NeverLost'
  BY ListFrame, StatisticsFrame, LostFrame DEF KeptInv
<1> QED BY <1>1, <1>2, <1>3, <1>4 DEF KeptInv

\* The one lookup that finds nothing is that of a connection reset before it
\* asked.
LEMMA SendWithoutStructKept ==
  ASSUME KeptInv, NEW e \in batch, SendWithoutStruct(e)
  PROVE  KeptInv'
<1> USE DEF SendWithoutStruct, clientVars, kernelVars, serverVars
<1>1. Types'
  BY TakeFacts DEF KeptInv, Types, TypeOK
<1>2. Descriptors' /\ Places' /\ Conversations'
  BY DEF KeptInv, Descriptors, Places, Conversations, IsSocket
<1>3. Events'
  BY TakeFacts DEF KeptInv, Events, IsSocket
<1>4. Filed' /\ OneEach' /\ Complete' /\ Statistics'
  BY ListFrame, StatisticsFrame DEF KeptInv
<1>5. NeverLost'
  <2>1. e.fd # ListenFd /\ e.fd \in Fds /\ IsSocket(e.fd) /\ e.events \in {"out", "hup"}
    BY TakeFacts DEF KeptInv, Events
  <2>2. interest[e.fd] # "out"
    <3>1. \A i \in 1 .. Len(headOfArray) : headOfArray[i].fd # e.fd
      BY ListFacts, WithFdFacts DEF Pointer
    <3> QED BY <2>1, <3>1 DEF KeptInv, Complete
  <2>3. desc[e.fd].client \in reset
    BY <2>1, <2>2 DEF KeptInv, Events
  <2>4. told[desc[e.fd].client] = <<>>
    BY <2>1, <2>2, SocketFacts
  <2> QED BY <2>3, <2>4 DEF NeverLost
<1> QED BY <1>1, <1>2, <1>3, <1>4, <1>5 DEF KeptInv

-----------------------------------------------------------------------------
(* What a client has been told, and what is told next.                     *)

LEMMA ToldSeq ==
  ASSUME NEW s, InOrder(s)
  PROVE  s \in Seq({s[1]} \cup Nat) /\ (s # <<>> <=> Len(s) # 0)
<1>1. Len(s) \in Nat /\ s = [i \in 1 .. Len(s) |-> IF i = 1 THEN s[1] ELSE i - 1]
  BY DEF InOrder
<1>2. \A i \in 1 .. Len(s) : (IF i = 1 THEN s[1] ELSE i - 1) \in {s[1]} \cup Nat
  BY <1>1
<1>3. s \in [1 .. Len(s) -> {s[1]} \cup Nat]
  BY <1>1, <1>2
<1>4. s \in Seq({s[1]} \cup Nat)
  BY <1>1, <1>3, SeqDef
<1> QED BY <1>4, EmptySeq

LEMMA FirstTold ==
  ASSUME NEW a, a.status \in {200, 400, 404, 413}
  PROVE  LET t == Append(<<>>, a) IN
         InOrder(t) /\ t # <<>> /\ Len(t) = 1 /\ t[1] = a /\ t = <<a>>
<1> DEFINE t == Append(<<>>, a)
<1>1. <<>> \in Seq({a} \cup Nat) /\ Len(<<>>) = 0
  BY EmptySeq
<1>2. t \in Seq({a} \cup Nat) /\ t # <<>> /\ Len(t) = 1 /\ t[1] = a
  BY <1>1, AppendProperties
<1>3. t \in [1 .. 1 -> {a} \cup Nat]
  BY <1>2, LenProperties
<1>4. t = <<a>>
  OBVIOUS
<1> HIDE DEF t
<1>5. t = [i \in 1 .. 1 |-> IF i = 1 THEN t[1] ELSE i - 1]
  BY <1>2, <1>3
<1> QED BY <1>2, <1>4, <1>5 DEF InOrder, t

LEMMA NextTold ==
  ASSUME NEW s, InOrder(s), s # <<>>
  PROVE  LET t == Append(s, Len(s)) IN
         InOrder(t) /\ t # <<>> /\ Len(t) = Len(s) + 1 /\ t[1] = s[1]
<1> DEFINE S == {s[1]} \cup Nat
           t == Append(s, Len(s))
<1>1. s \in Seq(S) /\ Len(s) \in Nat /\ Len(s) >= 1
  BY ToldSeq DEF InOrder
<1>2. /\ t \in Seq(S) /\ t # <<>> /\ Len(t) = Len(s) + 1
      /\ \A i \in 1 .. Len(s) : t[i] = s[i]
      /\ t[Len(s) + 1] = Len(s)
  BY <1>1, AppendProperties
<1>3. DOMAIN t = 1 .. Len(t) /\ t = [i \in 1 .. Len(t) |-> t[i]]
  BY <1>2, LenProperties
<1> HIDE DEF t, S
<1>4. \A i \in 1 .. Len(s) : s[i] = IF i = 1 THEN s[1] ELSE i - 1
  BY DEF InOrder
<1>5. t[1] = s[1]
  BY <1>1, <1>2
<1>6. \A i \in 1 .. Len(t) : t[i] = IF i = 1 THEN t[1] ELSE i - 1
  BY <1>1, <1>2, <1>4, <1>5
<1>7. t = [i \in 1 .. Len(t) |-> IF i = 1 THEN t[1] ELSE i - 1]
  BY <1>3, <1>6
<1>8. t[1].status \in {200, 400, 404, 413}
  BY <1>5 DEF InOrder
<1> QED BY <1>1, <1>2, <1>5, <1>7, <1>8 DEF InOrder, t

-----------------------------------------------------------------------------
(* The steps of a transfer.                                                *)

\* The struct a transfer's event finds; once it is marked it is also the one
\* that is removed by its index.
LEMMA PointerFacts ==
  ASSUME KeptInv, NEW f \in Fds, Pointer(f) # 0
  PROVE  LET i == Pointer(f) IN
         /\ i \in 1 .. Len(headOfArray) /\ headOfArray[i].fd = f
         /\ interest[f] = "out" /\ IsSocket(f) /\ desc[f].client \in Clients
         /\ told[desc[f].client] # <<>>
         /\ headOfArray[i].fileopen # f
         /\ headOfArray[i].fileopen \in Fds =>
              /\ desc[headOfArray[i].fileopen].kind = "file"
              /\ Len(told[desc[f].client]) = desc[headOfArray[i].fileopen].offset + 1
         /\ headOfArray[i].fileopen \notin Fds => Len(told[desc[f].client]) = 1
         /\ IsFile(told[desc[f].client][1]) <=> headOfArray[i].fileopen \in Fds
         /\ headOfArray[i].allSent =>
              removeRequest(headOfArray, headOfArray[i].index) = RemoveAt(headOfArray, i)
<1> DEFINE i == Pointer(f)
<1>1. Len(headOfArray) \in Nat
  BY ListFacts
<1>2. i \in 1 .. Len(headOfArray) /\ headOfArray[i].fd = f
  BY <1>1, WithFdFacts DEF Pointer
<1> HIDE DEF i
<1>3. /\ interest[f] = "out" /\ IsSocket(f) /\ desc[f].client \in Clients
      /\ told[desc[f].client] # <<>>
  BY <1>2, ListFacts
<1>4. /\ headOfArray[i].fileopen \in Fds =>
           /\ desc[headOfArray[i].fileopen].kind = "file"
           /\ Len(told[desc[f].client]) = desc[headOfArray[i].fileopen].offset + 1
      /\ headOfArray[i].fileopen \notin Fds => Len(told[desc[f].client]) = 1
      /\ IsFile(told[desc[f].client][1]) <=> headOfArray[i].fileopen \in Fds
  BY <1>2 DEF KeptInv, Filed
<1>5. headOfArray[i].fileopen # f
  BY <1>3, <1>4 DEF IsSocket
<1>6. headOfArray[i].allSent =>
        removeRequest(headOfArray, headOfArray[i].index) = RemoveAt(headOfArray, i)
  <2> SUFFICES ASSUME headOfArray[i].allSent
               PROVE  removeRequest(headOfArray, headOfArray[i].index) = RemoveAt(headOfArray, i)
    OBVIOUS
  <2>1. \A j \in 1 .. i - 1 : headOfArray[j].index # headOfArray[i].index
    BY <1>2 DEF KeptInv, Filed
  <2> QED BY <1>1, <1>2, <2>1, FirstIndexFacts
<1> QED BY <1>2, <1>3, <1>4, <1>5, <1>6 DEF i

\* A struct's file is a file: nobody is sent what is read from a connection.
LEMMA NoText ==
  ASSUME KeptInv, NEW e \in batch, SendText(e)
  PROVE  FALSE
<1>1. e.fd \in Fds /\ Pointer(e.fd) # 0
  BY TakeFacts DEF SendText, Transfer, KeptInv, Events
<1>2. Source(e.fd) \in Fds /\ IsSocket(Source(e.fd))
  BY DEF SendText, HasText, Overhears, Sendable
<1>3. desc[Source(e.fd)].kind = "file"
  BY <1>1, <1>2, PointerFacts DEF Source
<1> QED BY <1>2, <1>3 DEF IsSocket

LEMMA SendChunkKept ==
  ASSUME KeptInv, NEW e \in batch, SendChunk(e)
  PROVE  KeptInv'
<1> DEFINE f == e.fd
           i == Pointer(f)
           g == headOfArray[i].fileopen
           c == desc[f].client
<1>1. f \in Fds /\ Pointer(f) # 0 /\ down = "no" /\ batch' \subseteq batch
  BY TakeFacts DEF SendChunk, Transfer, KeptInv, Events
<1>2. /\ i \in 1 .. Len(headOfArray) /\ headOfArray[i].fd = f
      /\ interest[f] = "out" /\ IsSocket(f) /\ c \in Clients /\ told[c] # <<>>
      /\ g \in Fds \ {f} /\ desc[g].kind = "file"
      /\ Len(told[c]) = desc[g].offset + 1
  <2>1. g \in Fds
    BY DEF SendChunk, HasChunk, Source
  <2> QED BY <1>1, <2>1, PointerFacts
<1>3. /\ desc[g].offset < CHUNKS /\ ~headOfArray[i].allSent
      /\ full' \in {full, full \cup {f}}
      /\ UNCHANGED <<asked, inbox, reset, backlog, closed, interest, headOfArray, savedArray, down>>
  BY DEF SendChunk, Transfer, HasChunk, Source, clientVars
<1>offset. desc[g].offset \in 0 .. CHUNKS /\ desc[g].offset + 1 \in 0 .. CHUNKS
  <2>1. desc[g].offset \in 0 .. CHUNKS
    BY <1>2 DEF KeptInv, Types, TypeOK
  <2> QED BY <1>3, <2>1, ServerAssumption
<1>told. told' = [told EXCEPT ![c] = Append(@, Len(@))]
  BY <1>2 DEF SendChunk, Source, Peer
<1>desc. desc' = [desc EXCEPT ![g].offset = @ + 1]
  BY DEF SendChunk, Source
<1>stats. stats1' = [stats1 EXCEPT !.bodies = @ + 1]
  BY DEF SendChunk
<1> HIDE DEF f, i, g, c
<1>4. /\ InOrder(told'[c]) /\ told'[c] # <<>> /\ Len(told'[c]) = Len(told[c]) + 1
      /\ told'[c][1] = told[c][1] /\ told' = [d \in Connections |-> told'[d]]
      /\ \A d \in Connections \ {c} : told'[d] = told[d]
      /\ c \in Connections
  <2>1. c \in Connections /\ told = [d \in Connections |-> told[d]] /\ InOrder(told[c])
    BY <1>2 DEF KeptInv, Types, Connections
  <2>2. told'[c] = Append(told[c], Len(told[c]))
    BY <1>told, <2>1
  <2>3. told' = [d \in Connections |-> told'[d]] /\ \A d \in Connections \ {c} : told'[d] = told[d]
    BY <1>told, <2>1
  <2> QED BY <1>2, <2>1, <2>2, <2>3, NextTold
<1>5. /\ desc'[g].kind = "file" /\ desc'[g].client = desc[g].client
      /\ desc'[g].offset = desc[g].offset + 1
      /\ \A h \in Fds \ {g} : desc'[h] = desc[h]
      /\ \A h \in Fds : desc'[h].kind = desc[h].kind /\ desc'[h].client = desc[h].client
  BY <1>2, <1>desc DEF KeptInv, Types, TypeOK
<1>6. Types'
  <2>1. desc' \in [Fds -> [kind : {"free", "socket", "file", "directory"},
                           client : Connections \cup {NoClient}, offset : 0 .. CHUNKS]]
    <3> DEFINE D == [kind : {"free", "socket", "file", "directory"},
                     client : Connections \cup {NoClient}, offset : 0 .. CHUNKS]
    <3>1. desc \in [Fds -> D]
      BY DEF KeptInv, Types, TypeOK
    <3>2. [desc[g] EXCEPT !.offset = @ + 1] \in D
      BY <1>2, <1>offset, <3>1
    <3> QED BY <1>2, <1>desc, <3>1, <3>2
  <2>2. \A d \in Connections : InOrder(told'[d])
    BY <1>4 DEF KeptInv, Types
  <2>3. stats1' \in [requests : Nat, headers : Nat, bodies : Nat, errors : Nat,
                     errorHeaders : Nat]
    <3>1. stats1 \in [requests : Nat, headers : Nat, bodies : Nat, errors : Nat,
                      errorHeaders : Nat]
      BY DEF KeptInv, Types, TypeOK
    <3> QED BY <1>stats, <3>1
  <2> QED BY <1>1, <1>3, <1>4, <2>1, <2>2, <2>3 DEF KeptInv, Types, TypeOK
<1>7. Descriptors'
  BY <1>3, <1>5 DEF KeptInv, Descriptors, IsSocket
<1>8. Places'
  <2>1. \A d \in Connections : told'[d] = <<>> <=> told[d] = <<>>
    BY <1>2, <1>4
  <2>2. \A j \in 1 .. Len(backlog) : backlog[j] \in Connections
    BY ElementOfSeq DEF KeptInv, Types, TypeOK
  <2>3. \A h \in Fds : IsSocket(h) => desc[h].client \in Connections
    BY SocketFacts
  <2> QED BY <1>3, <1>5, <2>1, <2>2, <2>3 DEF KeptInv, Places, IsSocket
<1>9. Conversations'
  BY <1>2, <1>3, <1>4 DEF KeptInv, Conversations
<1>10. Events'
  <2>1. \A d \in batch' : d.fd # ListenFd => d.fd \in Fds
    BY <1>1, TakeFacts DEF KeptInv, Types, TypeOK
  <2> QED BY <1>1, <1>3, <1>5, <2>1, EventsFrame DEF KeptInv, IsSocket
<1>11. Filed'
  <2> SUFFICES ASSUME NEW j \in 1 .. Len(headOfArray)
               PROVE  LET r == headOfArray[j]
                          d == desc'[r.fd].client IN
                      /\ interest[r.fd] = "out"
                      /\ r.request = asked[d]
                      /\ r.fileopen \in Fds => desc'[r.fileopen].kind = "file"
                      /\ Len(told'[d]) = IF r.fileopen \in Fds
                                         THEN desc'[r.fileopen].offset + 1 ELSE 1
                      /\ IsFile(told'[d][1]) <=> r.fileopen \in Fds
                      /\ r.allSent => \A k \in 1 .. j - 1 : headOfArray[k].index # r.index
    BY <1>3 DEF Filed
  <2>1. CASE j = i
    <3>1. desc'[headOfArray[j].fd].client = c /\ headOfArray[j].fileopen = g
      BY <1>1, <1>2, <1>5, <2>1 DEF c, g
    <3>2. Len(told'[c]) = desc'[g].offset + 1
      BY <1>2, <1>4, <1>5
    <3>3. /\ headOfArray[j].request = asked[c] /\ interest[headOfArray[j].fd] = "out"
          /\ IsFile(told[c][1]) <=> g \in Fds
      BY <1>2, <2>1 DEF KeptInv, Filed, c, g
    <3> QED BY <1>2, <1>3, <1>4, <1>5, <2>1, <3>1, <3>2, <3>3
  <2>2. CASE j # i
    <3>1. headOfArray[j].fd # f /\ headOfArray[j].fileopen # g
      BY <1>2, <2>2 DEF KeptInv, OneEach, g
    <3>2. desc[headOfArray[j].fd].client # c /\ desc[headOfArray[j].fd].client \in Connections
      BY <1>2, <3>1, ListFacts, SocketFacts DEF c
    <3>3. /\ desc'[headOfArray[j].fd].client = desc[headOfArray[j].fd].client
          /\ told'[desc[headOfArray[j].fd].client] = told[desc[headOfArray[j].fd].client]
      BY <1>4, <1>5, <3>2, ListFacts
    <3>4. headOfArray[j].fileopen \in Fds =>
            desc'[headOfArray[j].fileopen] = desc[headOfArray[j].fileopen]
      BY <1>5, <3>1
    <3> QED BY <3>3, <3>4 DEF KeptInv, Filed
  <2> QED BY <2>1, <2>2
<1>12. OneEach' /\ Complete'
  BY <1>3, <1>5 DEF KeptInv, OneEach, Complete
<1>13. Statistics'
  <2>1. \A d \in Clients : /\ told'[d] # <<>> <=> told[d] # <<>>
                           /\ told[d] # <<>> => told'[d][1] = told[d][1]
    BY <1>2, <1>4 DEF Connections
  <2>2. OkClients' = OkClients /\ ErrorClients' = ErrorClients /\ OpenClients' = OpenClients
    BY <2>1 DEF OkClients, ErrorClients, OpenClients
  <2>3. BodyClients' = BodyClients
    BY <2>1, <2>2 DEF BodyClients, OkClients
  <2>4. Chunks' = Chunks \cup {<<c, Len(told[c]) + 1>>} /\ <<c, Len(told[c]) + 1>> \notin Chunks
    <3>1. Len(told[c]) + 1 \in 2 .. CHUNKS + 1 /\ Len(told[c]) \in Nat
      BY <1>2, <1>3, <1>offset, ServerAssumption
    <3>2. \A d \in Clients, n \in Nat :
            n <= Len(told'[d]) <=> n <= Len(told[d]) \/ <<d, n>> = <<c, Len(told[c]) + 1>>
      <4> SUFFICES ASSUME NEW d \in Clients, NEW n \in Nat
                   PROVE  n <= Len(told'[d]) <=>
                            n <= Len(told[d]) \/ <<d, n>> = <<c, Len(told[c]) + 1>>
        OBVIOUS
      <4>1. CASE d = c
        BY <1>4, <3>1, <4>1
      <4>2. CASE d # c
        BY <1>4, <4>2 DEF Connections
      <4> QED BY <4>1, <4>2
    <3>3. ASSUME NEW k \in Clients \X (2 .. CHUNKS + 1)
          PROVE  k[2] <= Len(told'[k[1]]) <=>
                   k[2] <= Len(told[k[1]]) \/ k = <<c, Len(told[c]) + 1>>
      BY <3>2, ServerAssumption
    <3> QED BY <1>2, <3>1, <3>3 DEF Chunks
  <2>5. /\ Cardinality(Chunks') = Cardinality(Chunks) + 1
        /\ Cardinality(Chunks) \in Nat /\ Cardinality(BodyClients) \in Nat
    BY <2>4, CountFinite, FS_AddElement, FS_CardinalityType
  <2>6. PICK twice \in 0 .. Cardinality(OpenClients) : Booked(twice)
    BY StatisticsAre DEF KeptInv
  <2>7. /\ stats1'.requests = stats1.requests /\ stats1'.headers = stats1.headers
        /\ stats1'.bodies = stats1.bodies + 1
        /\ stats1'.errors = stats1.errors /\ stats1'.errorHeaders = stats1.errorHeaders
    BY <1>stats DEF KeptInv, Types, TypeOK
  <2>8. Booked(twice)'
    BY <2>2, <2>3, <2>5, <2>6, <2>7 DEF Booked
  <2> QED BY <2>2, <2>6, <2>8, StatisticsAre
<1>14. NeverLost'
  BY <1>1, <1>3, LostFrame DEF KeptInv
<1> QED BY <1>6, <1>7, <1>8, <1>9, <1>10, <1>11, <1>12, <1>13, <1>14 DEF KeptInv

\* What read's end changes: the mark of the first struct with the index, which
\* may be another's.
LEMMA SendEndFacts ==
  ASSUME KeptInv, NEW e \in batch, SendEnd(e)
  PROVE  LET i == Pointer(e.fd) IN
         /\ e.fd \in Fds /\ down = "no" /\ batch' \subseteq batch
         /\ i \in 1 .. Len(headOfArray) /\ ~HasChunk(e.fd)
         /\ UNCHANGED <<asked, told, closed, inbox, reset, backlog, desc, interest, full,
                        savedArray, stats1, down>>
         /\ headOfArray' \in Seq(Struct) /\ Len(headOfArray') = Len(headOfArray)
         /\ \E k \in 1 .. Len(headOfArray) :
              /\ headOfArray[k].index = headOfArray[i].index
              /\ \A j \in 1 .. k - 1 : headOfArray[j].index # headOfArray[k].index
              /\ \A j \in 1 .. Len(headOfArray) :
                   headOfArray'[j] = IF j = k THEN [headOfArray[j] EXCEPT !.allSent = TRUE]
                                     ELSE headOfArray[j]
<1> USE DEF SendEnd, clientVars, kernelVars
<1> DEFINE i == Pointer(e.fd)
           k == WithIndex(headOfArray, headOfArray[i].index)
           x == [headOfArray[k] EXCEPT !.allSent = TRUE]
<1>1. e.fd \in Fds /\ Pointer(e.fd) # 0 /\ down = "no" /\ batch' \subseteq batch
  BY TakeFacts DEF Transfer, KeptInv, Events
<1>2. i \in 1 .. Len(headOfArray) /\ Len(headOfArray) \in Nat /\ headOfArray \in Seq(Struct)
  BY <1>1, PointerFacts, ListFacts DEF KeptInv, Types, TypeOK
<1>3. /\ ~HasChunk(e.fd)
      /\ headOfArray' = [headOfArray EXCEPT ![k].allSent = TRUE]
      /\ UNCHANGED <<asked, told, closed, inbox, reset, backlog, desc, interest, full,
                     savedArray, stats1, down>>
  OBVIOUS
<1> HIDE DEF i, SendEnd
<1>4. /\ k \in 1 .. Len(headOfArray) /\ headOfArray[k].index = headOfArray[i].index
      /\ \A j \in 1 .. Len(headOfArray) : headOfArray[j].index = headOfArray[i].index => k <= j
  BY <1>2, WithIndexFacts
<1> HIDE DEF k
<1>5. \A j \in 1 .. k - 1 : headOfArray[j].index # headOfArray[k].index
  BY <1>2, <1>4
<1>6. x \in Struct
  BY <1>4, ListFacts DEF Struct
<1>7. headOfArray' = [headOfArray EXCEPT ![k] = x]
  BY <1>3
<1> HIDE DEF x
<1>8. /\ headOfArray' \in Seq(Struct) /\ Len(headOfArray') = Len(headOfArray)
      /\ \A j \in 1 .. Len(headOfArray) : headOfArray'[j] = IF j = k THEN x ELSE headOfArray[j]
  BY <1>2, <1>4, <1>6, <1>7, ExceptSeq
<1>9. \A j \in 1 .. Len(headOfArray) :
        headOfArray'[j] = IF j = k THEN [headOfArray[j] EXCEPT !.allSent = TRUE]
                          ELSE headOfArray[j]
  BY <1>8 DEF x
<1> QED BY <1>1, <1>2, <1>3, <1>4, <1>5, <1>8, <1>9 DEF i

LEMMA SendEndKept ==
  ASSUME KeptInv, NEW e \in batch, SendEnd(e)
  PROVE  KeptInv'
<1> DEFINE f == e.fd
           i == Pointer(f)
<1>1. /\ f \in Fds /\ down = "no" /\ batch' \subseteq batch
      /\ UNCHANGED <<asked, told, closed, inbox, reset, backlog, desc, interest, full,
                     savedArray, stats1, down>>
      /\ headOfArray' \in Seq(Struct) /\ Len(headOfArray') = Len(headOfArray)
  BY SendEndFacts
<1>2. PICK k \in 1 .. Len(headOfArray) :
        /\ \A j \in 1 .. k - 1 : headOfArray[j].index # headOfArray[k].index
        /\ \A j \in 1 .. Len(headOfArray) :
             headOfArray'[j] = IF j = k THEN [headOfArray[j] EXCEPT !.allSent = TRUE]
                               ELSE headOfArray[j]
  BY SendEndFacts
<1> HIDE DEF f, i
<1>3. \A j \in 1 .. Len(headOfArray) :
        /\ headOfArray'[j].fd = headOfArray[j].fd
        /\ headOfArray'[j].request = headOfArray[j].request
        /\ headOfArray'[j].index = headOfArray[j].index
        /\ headOfArray'[j].fileopen = headOfArray[j].fileopen
        /\ headOfArray'[j].allSent => headOfArray[j].allSent \/ j = k
  BY <1>2, ListFacts DEF Struct
<1>4. Types'
  BY <1>1 DEF KeptInv, Types, TypeOK
<1>5. Descriptors' /\ Places' /\ Conversations'
  BY <1>1 DEF KeptInv, Descriptors, Places, Conversations, IsSocket
<1>6. Events'
  BY <1>1, EventsFrame DEF KeptInv, IsSocket
<1>7. Filed'
  <2> SUFFICES ASSUME NEW j \in 1 .. Len(headOfArray)
               PROVE  LET r == headOfArray'[j]
                          d == desc[r.fd].client IN
                      /\ interest[r.fd] = "out"
                      /\ r.request = asked[d]
                      /\ r.fileopen \in Fds => desc[r.fileopen].kind = "file"
                      /\ Len(told[d]) = IF r.fileopen \in Fds
                                        THEN desc[r.fileopen].offset + 1 ELSE 1
                      /\ IsFile(told[d][1]) <=> r.fileopen \in Fds
                      /\ r.allSent => \A m \in 1 .. j - 1 : headOfArray'[m].index # r.index
    BY <1>1 DEF Filed
  <2>1. headOfArray'[j].allSent => \A m \in 1 .. j - 1 : headOfArray[m].index # headOfArray[j].index
    BY <1>2, <1>3 DEF KeptInv, Filed
  <2>2. \A m \in 1 .. j - 1 : m \in 1 .. Len(headOfArray)
    BY ListFacts
  <2>3. headOfArray'[j].allSent =>
          \A m \in 1 .. j - 1 : headOfArray'[m].index # headOfArray'[j].index
    BY <1>3, <2>1, <2>2
  <2>4. LET r == headOfArray[j]
            d == desc[r.fd].client IN
        /\ interest[r.fd] = "out"
        /\ r.request = asked[d]
        /\ r.fileopen \in Fds => desc[r.fileopen].kind = "file"
        /\ Len(told[d]) = IF r.fileopen \in Fds THEN desc[r.fileopen].offset + 1 ELSE 1
        /\ IsFile(told[d][1]) <=> r.fileopen \in Fds
    BY DEF KeptInv, Filed
  <2> QED BY <1>3, <2>3, <2>4
<1>8. OneEach'
  BY <1>1, <1>3 DEF KeptInv, OneEach
<1>9. Complete'
  BY <1>1, <1>3 DEF KeptInv, Complete
<1>10. Statistics' /\ NeverLost'
  BY <1>1, StatisticsFrame, LostFrame DEF KeptInv
<1> QED BY <1>4, <1>5, <1>6, <1>7, <1>8, <1>9, <1>10 DEF KeptInv

\* What Finish does: it takes the transfer's struct out of the list and closes
\* the connection and the file.
LEMMA FinishFacts ==
  ASSUME KeptInv, NEW e \in batch, Finish(e)
  PROVE  LET f == e.fd
             i == Pointer(f)
             g == headOfArray[i].fileopen
             at(n) == IF n < i THEN n ELSE n + 1
         IN
         /\ f \in Fds /\ Pointer(f) # 0 /\ headOfArray[i].allSent
         /\ i \in 1 .. Len(headOfArray)
         /\ headOfArray' = RemoveAt(headOfArray, i)
         /\ headOfArray' \in Seq(Struct) /\ Len(headOfArray') = Len(headOfArray) - 1
         /\ \A j \in 1 .. Len(headOfArray') :
              /\ at(j) \in 1 .. Len(headOfArray) /\ at(j) # i
              /\ headOfArray'[j] = headOfArray[at(j)]
         /\ \A j, m \in 1 .. Len(headOfArray') : at(m) = at(j) => m = j
         /\ desc' = [h \in Fds |-> IF h \in {f, g} THEN Free ELSE desc[h]]
         /\ interest' = [interest EXCEPT ![f] = "none"]
         /\ closed' = [closed EXCEPT ![desc[f].client] = TRUE]
         /\ full' \subseteq full
         /\ UNCHANGED <<asked, told, inbox, reset, backlog, savedArray, stats1, down>>
<1> DEFINE f == e.fd
           i == Pointer(f)
           g == headOfArray[i].fileopen
           c == desc[f].client
<1>1. f \in Fds /\ Pointer(f) # 0 /\ headOfArray[i].allSent
  BY TakeFacts DEF Finish, Finished, KeptInv, Events
<1>2. /\ i \in 1 .. Len(headOfArray) /\ IsSocket(f) /\ c \in Connections
      /\ g # f /\ (g \in Fds => desc[g].kind = "file")
      /\ headOfArray' = RemoveAt(headOfArray, i)
  BY <1>1, PointerFacts DEF Finish, Connections
<1>3. /\ Close({f, g} \cap Fds)
      /\ UNCHANGED <<asked, told, inbox, reset, backlog, savedArray, stats1, down>>
  BY DEF Finish, clientVars
<1> HIDE DEF f, i, g, c
<1>4. Len(headOfArray) \in Nat /\ headOfArray \in Seq(Struct)
  BY ListFacts DEF KeptInv, Types, TypeOK
<1>5. /\ headOfArray' \in Seq(Struct) /\ Len(headOfArray') = Len(headOfArray) - 1
      /\ \A j \in 1 .. Len(headOfArray) - 1 :
           headOfArray'[j] = IF j < i THEN headOfArray[j] ELSE headOfArray[j + 1]
  BY <1>2, <1>4, RemoveAtFacts
<1>6. desc' = [h \in Fds |-> IF h \in {f, g} THEN Free ELSE desc[h]] /\ full' \subseteq full
  BY <1>3 DEF Close
<1>7. interest' = [interest EXCEPT ![f] = "none"]
  <2>1. interest = [h \in Fds |-> interest[h]] /\ (g \in Fds => interest[g] = "none")
    BY <1>2 DEF KeptInv, Types, TypeOK, Descriptors, IsSocket
  <2>2. interest' = [h \in Fds |-> IF h \in {f, g} \cap Fds THEN "none" ELSE interest[h]]
    BY <1>3 DEF Close
  <2> QED BY <1>1, <2>1, <2>2
<1>8. closed' = [closed EXCEPT ![c] = TRUE]
  <2>1. closed = [d \in Connections |-> closed[d]] /\ \A d \in Connections : closed[d] \in BOOLEAN
    BY DEF KeptInv, Types, TypeOK
  <2>2. \A h \in {f, g} \cap Fds : h = f \/ Peer(h) = NoClient
    BY <1>2 DEF Peer, KeptInv, Descriptors, IsSocket
  <2>3. Peer(f) = c /\ NoClient \notin Connections
    BY ServerAssumption DEF Peer, c, Connections
  <2>4. \A d \in Connections : (\E h \in {f, g} \cap Fds : Peer(h) = d) <=> d = c
    BY <1>1, <2>2, <2>3
  <2>5. closed' = [d \in Connections |-> closed[d] \/ \E h \in {f, g} \cap Fds : Peer(h) = d]
    BY <1>3 DEF Close
  <2>6. \A d \in Connections : closed'[d] = IF d = c THEN TRUE ELSE closed[d]
    BY <2>1, <2>4, <2>5
  <2> QED BY <1>2, <2>1, <2>5, <2>6
<1> QED BY <1>1, <1>2, <1>3, <1>4, <1>5, <1>6, <1>7, <1>8 DEF f, i, g, c

LEMMA FinishKept ==
  ASSUME KeptInv, NEW e \in batch, Finish(e)
  PROVE  KeptInv'
<1> DEFINE f == e.fd
           i == Pointer(f)
           g == headOfArray[i].fileopen
           c == desc[f].client
<1>1. f \in Fds /\ Pointer(f) # 0 /\ down = "no" /\ batch' \subseteq batch
  BY TakeFacts DEF Finish, Finished, KeptInv, Events
<1>2. /\ i \in 1 .. Len(headOfArray) /\ headOfArray[i].fd = f
      /\ IsSocket(f) /\ c \in Clients /\ told[c] # <<>>
      /\ g # f /\ (g \in Fds => desc[g].kind = "file")
  BY <1>1, PointerFacts
<1>3. /\ UNCHANGED <<asked, told, inbox, reset, backlog, savedArray, stats1, down>>
      /\ full' \subseteq full
  BY FinishFacts
<1>desc. desc' = [h \in Fds |-> IF h \in {f, g} THEN Free ELSE desc[h]]
  BY FinishFacts
<1>interest. interest' = [interest EXCEPT ![f] = "none"]
  BY FinishFacts
<1>closed. closed' = [closed EXCEPT ![c] = TRUE]
  BY FinishFacts
<1>list. headOfArray' = RemoveAt(headOfArray, i)
  BY FinishFacts
<1> HIDE DEF f, i, g, c
<1>4. /\ headOfArray' \in Seq(Struct) /\ Len(headOfArray') = Len(headOfArray) - 1
      /\ \A j \in 1 .. Len(headOfArray') :
           headOfArray'[j] = IF j < i THEN headOfArray[j] ELSE headOfArray[j + 1]
  <2>1. headOfArray \in Seq(Struct)
    BY DEF KeptInv, Types, TypeOK
  <2>2. i \in 1 .. Len(headOfArray)
    BY <1>2
  <2>3. /\ headOfArray' \in Seq(Struct) /\ Len(headOfArray') = Len(headOfArray) - 1
        /\ \A j \in 1 .. Len(headOfArray) - 1 :
             headOfArray'[j] = IF j < i THEN headOfArray[j] ELSE headOfArray[j + 1]
    BY <1>list, <2>1, <2>2, RemoveAtFacts
  <2> QED BY <2>3
<1>5. Len(headOfArray) \in Nat /\ i \in Nat
  BY <1>2, ListFacts
\* The structs that stay are those of the other transfers.
<1>6. \A j \in 1 .. Len(headOfArray') :
        \E k \in 1 .. Len(headOfArray) : k # i /\ headOfArray'[j] = headOfArray[k]
  <2> SUFFICES ASSUME NEW j \in 1 .. Len(headOfArray')
               PROVE  \E k \in 1 .. Len(headOfArray) : k # i /\ headOfArray'[j] = headOfArray[k]
    OBVIOUS
  <2>1. CASE j < i
    <3>1. j \in 1 .. Len(headOfArray) /\ j # i /\ headOfArray'[j] = headOfArray[j]
      BY <1>4, <1>5, <2>1
    <3> QED BY <3>1
  <2>2. CASE ~(j < i)
    <3>1. j + 1 \in 1 .. Len(headOfArray) /\ j + 1 # i /\ headOfArray'[j] = headOfArray[j + 1]
      BY <1>4, <1>5, <2>2
    <3> QED BY <3>1
  <2> QED BY <2>1, <2>2
<1>7. \A k \in 1 .. Len(headOfArray) : k # i =>
        \E j \in 1 .. Len(headOfArray') : headOfArray'[j] = headOfArray[k]
  <2> SUFFICES ASSUME NEW k \in 1 .. Len(headOfArray), k # i
               PROVE  \E j \in 1 .. Len(headOfArray') : headOfArray'[j] = headOfArray[k]
    OBVIOUS
  <2>1. CASE k < i
    <3>1. k \in 1 .. Len(headOfArray') /\ headOfArray'[k] = headOfArray[k]
      BY <1>2, <1>4, <1>5, <2>1
    <3> QED BY <3>1
  <2>2. CASE ~(k < i)
    <3>1. /\ k - 1 \in 1 .. Len(headOfArray') /\ ~(k - 1 < i) /\ (k - 1) + 1 = k
      BY <1>2, <1>4, <1>5, <2>2
    <3>2. headOfArray'[k - 1] = headOfArray[k]
      BY <1>4, <3>1
    <3> QED BY <3>1, <3>2
  <2> QED BY <2>1, <2>2
<1>8. \A k \in 1 .. Len(headOfArray) : k # i =>
        /\ headOfArray[k].fd \in Fds \ {f, g}
        /\ headOfArray[k].fileopen \in Fds => headOfArray[k].fileopen \notin {f, g}
        /\ desc[headOfArray[k].fd].client \in Connections \ {c}
  <2> SUFFICES ASSUME NEW k \in 1 .. Len(headOfArray), k # i
               PROVE  /\ headOfArray[k].fd \in Fds \ {f, g}
                      /\ headOfArray[k].fileopen \in Fds => headOfArray[k].fileopen \notin {f, g}
                      /\ desc[headOfArray[k].fd].client \in Connections \ {c}
    OBVIOUS
  <2>1. headOfArray[k].fd # f /\ (headOfArray[k].fileopen \in Fds => headOfArray[k].fileopen # g)
    BY <1>2 DEF KeptInv, OneEach, g
  <2>2. headOfArray[k].fd \in Fds /\ IsSocket(headOfArray[k].fd)
    BY ListFacts
  <2>3. headOfArray[k].fileopen \in Fds => desc[headOfArray[k].fileopen].kind = "file"
    BY DEF KeptInv, Filed
  <2>4. desc[headOfArray[k].fd].client \in Connections \ {c}
    BY <1>1, <1>2, <2>1, <2>2, SocketFacts DEF c
  <2> QED BY <1>2, <2>1, <2>2, <2>3, <2>4 DEF IsSocket
<1>9. /\ desc'[f] = Free /\ (g \in Fds => desc'[g] = Free)
      /\ \A h \in Fds \ {f, g} : desc'[h] = desc[h]
      /\ interest'[f] = "none" /\ (g \in Fds => interest[g] = "none")
      /\ \A h \in Fds \ {f} : interest'[h] = interest[h]
  BY <1>1, <1>2, <1>desc, <1>interest DEF KeptInv, Types, TypeOK, Descriptors, IsSocket
<1>10. Types'
  <2>1. Free \in [kind : {"free", "socket", "file", "directory"},
                  client : Connections \cup {NoClient}, offset : 0 .. CHUNKS]
    BY ServerAssumption DEF Free
  <2>2. desc' \in [Fds -> [kind : {"free", "socket", "file", "directory"},
                           client : Connections \cup {NoClient}, offset : 0 .. CHUNKS]]
    BY <1>desc, <2>1 DEF KeptInv, Types, TypeOK
  <2>3. interest' \in [Fds -> {"none", "in", "out"}] /\ closed' \in [Connections -> BOOLEAN]
    BY <1>interest, <1>closed DEF KeptInv, Types, TypeOK
  <2> QED BY <1>1, <1>3, <1>4, <2>2, <2>3 DEF KeptInv, Types, TypeOK
<1>11. Descriptors'
  BY <1>9 DEF KeptInv, Descriptors, IsSocket, Free
<1>12. Places'
  <2>1. \A h \in Fds : IsSocket(h)' => h \in Fds \ {f, g}
    BY <1>9 DEF IsSocket, Free
  <2>2. \A h, k \in Fds : IsSocket(h)' /\ desc'[h].client = desc'[k].client => h = k
    <3>1. \A h \in Fds : IsSocket(h)' => IsSocket(h) /\ desc'[h] = desc[h] /\ desc[h].client # NoClient
      BY <1>9, <2>1 DEF IsSocket, KeptInv, Descriptors
    <3> QED BY <1>9, <3>1 DEF KeptInv, Places, IsSocket, Free
  <2>3. \A j \in 1 .. Len(backlog) : \A h \in Fds : desc'[h].client # backlog[j]
    <3>1. \A j \in 1 .. Len(backlog) : backlog[j] \in Connections
      BY ElementOfSeq DEF KeptInv, Types, TypeOK
    <3> QED BY <1>9, <3>1, ServerAssumption DEF KeptInv, Places, Free, Connections
  <2>4. \A h \in Fds : IsSocket(h)' => closed'[desc'[h].client] = closed[desc[h].client]
    <3> SUFFICES ASSUME NEW h \in Fds, IsSocket(h)'
                 PROVE  closed'[desc'[h].client] = closed[desc[h].client]
      OBVIOUS
    <3>1. h \in Fds \ {f, g} /\ IsSocket(h) /\ desc'[h] = desc[h]
      BY <1>9, <2>1 DEF IsSocket
    <3>2. desc[h].client \in Connections /\ desc[h].client # c
      BY <1>1, <1>2, <3>1, SocketFacts DEF c
    <3> QED BY <1>closed, <3>1, <3>2 DEF KeptInv, Types, TypeOK
  <2> QED BY <1>3, <1>9, <2>1, <2>2, <2>3, <2>4 DEF KeptInv, Places, IsSocket
<1>13. Conversations'
  BY <1>2, <1>3, <1>closed DEF KeptInv, Conversations, Types, TypeOK
<1>14. Events'
  <2>1. \A d \in batch' : d.fd # ListenFd => d.fd \in Fds \ {f, g}
    <3>1. \A d \in batch' : d.fd # f
      BY TakeFacts DEF Finish, Finished, f
    <3>2. \A d \in batch' : d.fd # ListenFd => d.fd \in Fds /\ IsSocket(d.fd)
      BY <1>1 DEF KeptInv, Types, TypeOK, Events
    <3> QED BY <1>2, <3>1, <3>2 DEF IsSocket
  <2> QED BY <1>1, <1>3, <1>9, <2>1, EventsFrame DEF KeptInv, IsSocket
\* Where the structs that stay were before.
<1> DEFINE at(n) == IF n < i THEN n ELSE n + 1
<1>at. \A j \in 1 .. Len(headOfArray') :
         /\ at(j) \in 1 .. Len(headOfArray) /\ at(j) # i
         /\ headOfArray'[j] = headOfArray[at(j)]
         /\ \A m \in 1 .. j - 1 : m \in 1 .. Len(headOfArray') /\ at(m) \in 1 .. at(j) - 1
         /\ \A m \in 1 .. Len(headOfArray') : at(m) = at(j) => m = j
  <2> TAKE j \in 1 .. Len(headOfArray')
  <2>1. /\ at(j) \in 1 .. Len(headOfArray) /\ at(j) # i
        /\ headOfArray'[j] = headOfArray[at(j)]
    BY <1>2, <1>4, <1>5
  <2>2. \A m \in 1 .. j - 1 : m \in 1 .. Len(headOfArray') /\ at(m) \in 1 .. at(j) - 1
    BY <1>2, <1>4, <1>5
  <2>3. \A m \in 1 .. Len(headOfArray') : at(m) = at(j) => m = j
    BY <1>4, <1>5
  <2> QED BY <2>1, <2>2, <2>3
<1> HIDE DEF at
<1>15. Filed'
  <2> SUFFICES ASSUME NEW j \in 1 .. Len(headOfArray')
               PROVE  LET r == headOfArray'[j]
                          d == desc'[r.fd].client IN
                      /\ interest'[r.fd] = "out"
                      /\ r.request = asked[d]
                      /\ r.fileopen \in Fds => desc'[r.fileopen].kind = "file"
                      /\ Len(told[d]) = IF r.fileopen \in Fds
                                        THEN desc'[r.fileopen].offset + 1 ELSE 1
                      /\ IsFile(told[d][1]) <=> r.fileopen \in Fds
                      /\ r.allSent => \A m \in 1 .. j - 1 : headOfArray'[m].index # r.index
    BY <1>3 DEF Filed
  <2>1. PICK k \in 1 .. Len(headOfArray) : k = at(j) /\ k # i /\ headOfArray'[j] = headOfArray[k]
    BY <1>at
  <2>2. /\ interest'[headOfArray[k].fd] = interest[headOfArray[k].fd]
        /\ desc'[headOfArray[k].fd] = desc[headOfArray[k].fd]
        /\ headOfArray[k].fileopen \in Fds =>
             desc'[headOfArray[k].fileopen] = desc[headOfArray[k].fileopen]
    BY <1>8, <1>9, <2>1
  <2>3. LET r == headOfArray[k]
            d == desc[r.fd].client IN
        /\ interest[r.fd] = "out"
        /\ r.request = asked[d]
        /\ r.fileopen \in Fds => desc[r.fileopen].kind = "file"
        /\ Len(told[d]) = IF r.fileopen \in Fds THEN desc[r.fileopen].offset + 1 ELSE 1
        /\ IsFile(told[d][1]) <=> r.fileopen \in Fds
        /\ r.allSent => \A m \in 1 .. k - 1 : headOfArray[m].index # r.index
    BY DEF KeptInv, Filed
  <2>4. ASSUME headOfArray'[j].allSent, NEW m \in 1 .. j - 1
        PROVE  headOfArray'[m].index # headOfArray'[j].index
    <3>1. at(m) \in 1 .. k - 1 /\ headOfArray'[m] = headOfArray[at(m)]
      BY <1>at, <2>1
    <3> QED BY <2>1, <2>3, <2>4, <3>1
  <2> QED BY <2>1, <2>2, <2>3, <2>4
<1>16. OneEach'
  <2> SUFFICES ASSUME NEW j \in 1 .. Len(headOfArray'), NEW k \in 1 .. Len(headOfArray'),
                      \/ headOfArray'[j].fd = headOfArray'[k].fd
                      \/ /\ headOfArray'[j].fileopen \in Fds
                         /\ headOfArray'[j].fileopen = headOfArray'[k].fileopen
               PROVE  j = k
    BY DEF OneEach
  <2>1. /\ at(j) \in 1 .. Len(headOfArray) /\ headOfArray'[j] = headOfArray[at(j)]
        /\ at(k) \in 1 .. Len(headOfArray) /\ headOfArray'[k] = headOfArray[at(k)]
    BY <1>at
  <2>2. at(j) = at(k)
    BY <2>1 DEF KeptInv, OneEach
  <2> QED BY <1>at, <2>2
<1>17. Complete'
  <2>1. ASSUME NEW h \in Fds, interest'[h] = "out"
        PROVE  \E j \in 1 .. Len(headOfArray') : headOfArray'[j].fd = h
    <3>1. h # f /\ interest[h] = "out"
      BY <1>9, <2>1
    <3>2. PICK k \in 1 .. Len(headOfArray) : headOfArray[k].fd = h
      BY <3>1 DEF KeptInv, Complete
    <3> QED BY <1>2, <1>7, <3>1, <3>2
  <2>2. ASSUME NEW h \in Fds, desc'[h].kind = "file"
        PROVE  \E j \in 1 .. Len(headOfArray') : headOfArray'[j].fileopen = h
    <3>1. h # g /\ desc[h].kind = "file"
      BY <1>9, <2>2 DEF Free
    <3>2. PICK k \in 1 .. Len(headOfArray) : headOfArray[k].fileopen = h
      BY <3>1 DEF KeptInv, Complete
    <3>3. k # i
      BY <3>1, <3>2 DEF g
    <3> QED BY <1>7, <3>2, <3>3
  <2> QED BY <2>1, <2>2 DEF Complete
<1>18. Statistics' /\ NeverLost'
  BY <1>3, StatisticsFrame, LostFrame DEF KeptInv
<1> QED BY <1>10, <1>11, <1>12, <1>13, <1>14, <1>15, <1>16, <1>17, <1>18 DEF KeptInv

-----------------------------------------------------------------------------
(* A request is answered.                                                  *)

\* A file is sent exactly to who asked for one while a descriptor is free.
Sent(r) == r.kind = "file" /\ FreeFds # {}

LEMMA AnswerFacts ==
  ASSUME savedArray \in Clients \cup {"<empty>", "junk"}, NEW r \in [kind : Asks, by : Clients]
  PROVE  /\ Response(r).status \in {200, 400, 404, 413}
         /\ IsFile(Response(r)) <=> Sent(r)
         /\ Sent(r) => Response(r).status = 200
         /\ r.kind \in Unfinished => Response(r).status = 400
         /\ Written(r) \in Clients \cup {"<empty>", "junk"}
<1> USE DEF IsFile, Unfinished
<1>1. "file" \notin Clients /\ savedArray # "file" /\ r.by # "file"
  BY ServerAssumption
<1>2. Written(r) \in Clients \cup {"<empty>", "junk"}
  BY DEF Written
<1>3. Report # <<"file">> /\ <<>> # <<"file">>
  BY DEF Report
<1>4. CASE r.kind \in {"ping", "echo", "write", "read", "half"}
  <2>1. /\ Response(r).status = 200
        /\ \E x : x # "file" /\ Response(r).body = <<x>>
    BY <1>1, <1>4 DEF Response
  <2> QED BY <1>2, <1>4, <2>1 DEF Sent
<1>5. CASE r.kind \in {"stats", "other"}
  BY <1>2, <1>3, <1>5 DEF Response, Sent
<1>6. CASE Sent(r)
  <2>1. Response(r) = [status |-> 200, body |-> <<"file">>] /\ r.kind = "file"
    BY <1>6 DEF Response, Sent
  <2> QED BY <1>2, <1>6, <2>1
<1>7. CASE r.kind \notin {"ping", "echo", "write", "read", "half", "stats", "other"} /\ ~Sent(r)
  <2>1. Response(r).status \in {400, 404, 413} /\ Response(r).body = <<>>
    BY <1>7 DEF Response, Sent
  <2>2. r.kind \in Unfinished => Response(r).status = 400
    BY DEF Response
  <2> QED BY <1>2, <1>3, <1>7, <2>1, <2>2
<1> QED BY <1>4, <1>5, <1>6, <1>7

LEMMA ResponseFacts ==
  ASSUME Types, NEW r \in [kind : Asks, by : Clients]
  PROVE  /\ Response(r).status \in {200, 400, 404, 413}
         /\ IsFile(Response(r)) <=> Sent(r)
         /\ Sent(r) => Response(r).status = 200
         /\ r.kind \in Unfinished => Response(r).status = 400
         /\ Written(r) \in Clients \cup {"<empty>", "junk"}
BY AnswerFacts DEF Types

\* What is left behind an answer, when an uninitialised fd is no descriptor: a
\* file to be sent, or a cut request's connection left open with no file.
LEMMA OutcomeFacts ==
  ASSUME Harmless, Types, NEW r \in [kind : Asks, by : Clients], NEW out \in Outcomes(r)
  PROVE  /\ out.open \in BOOLEAN
         /\ Sent(r) => out.open
         /\ out.open /\ ~Sent(r) => r.kind \in Unfinished
         /\ out.file = IF Sent(r) THEN LowestFree ELSE NoFile
<1>1. CASE Sent(r)
  <2>1. out = [open |-> TRUE, file |-> LowestFree]
    BY <1>1, ResponseFacts DEF Outcomes
  <2> QED BY <1>1, <2>1
<1>2. CASE ~Sent(r)
  <2>1. \/ out = [open |-> FALSE, file |-> NoFile]
        \/ \E g \in Garbage : out = [open |-> TRUE, file |-> g] /\ r.kind \in Unfinished
    BY <1>2, ResponseFacts DEF Outcomes
  <2>2. \A g \in Garbage : g = NoFile
    BY ServerAssumption DEF Harmless, Fds, NoFile
  <2>3. CASE out = [open |-> FALSE, file |-> NoFile]
    <3>1. out.open = FALSE /\ out.file = NoFile
      BY <2>3
    <3> QED BY <1>2, <3>1
  <2>4. CASE out = [open |-> TRUE, file |-> NoFile] /\ r.kind \in Unfinished
    <3>1. out.open = TRUE /\ out.file = NoFile
      BY <2>4
    <3> QED BY <1>2, <2>4, <3>1
  <2> QED BY <2>1, <2>2, <2>3, <2>4
<1> QED BY <1>1, <1>2

\* What the descriptor table is after open of the file a request names.
Opened(r) ==
  IF r.kind \in {"file", "directory"} /\ FreeFds # {}
  THEN [desc EXCEPT ![LowestFree] = OpenFile(r.kind)] ELSE desc

\* What answering does to the state when the struct at r is the one whose request
\* is answered, and open is whether the connection is left open.
AnsweredFrom(f, r, open) ==
  LET c == desc[f].client
      n == Len(headOfArray)
      q == IF r = n + 1 THEN asked[c] ELSE headOfArray[r].request
      done == r = n + 1 /\ ~open
  IN
  /\ q \in [kind : Asks, by : Clients]
  /\ Sent(q) => open
  /\ open /\ ~Sent(q) => q.kind \in Unfinished
  /\ r # n + 1 => headOfArray[r].index = n
  /\ \A j \in 1 .. r - 1 : headOfArray[j].index # n
  /\ told' = [told EXCEPT ![c] = Append(@, Response(q))]
  /\ stats1' = Counted(Response(q), open)
  /\ savedArray' = Written(q)
  /\ interest' = [interest EXCEPT ![f] = IF done THEN "none" ELSE "out"]
  /\ closed' = [closed EXCEPT ![c] = done]
  /\ desc' = IF done THEN [Opened(q) EXCEPT ![f] = Free] ELSE Opened(q)
  /\ done => headOfArray' = headOfArray
  /\ ~done =>
       /\ headOfArray' \in Seq(Struct) /\ Len(headOfArray') = n + 1
       /\ headOfArray'[n + 1] =
            [fd |-> f, request |-> asked[c], index |-> n, allSent |-> FALSE,
             fileopen |-> IF Sent(q) THEN LowestFree ELSE NoFile]
       /\ \A i \in 1 .. n :
            headOfArray'[i] = IF i = r THEN [headOfArray[i] EXCEPT !.allSent = ~open]
                              ELSE headOfArray[i]

\* Who is answered has asked and has not been told anything.
LEMMA ReceiveFacts ==
  ASSUME KeptInv, NEW e \in batch, Receives(e)
  PROVE  LET c == desc[e.fd].client IN
         /\ e.fd \in Fds /\ IsSocket(e.fd) /\ interest[e.fd] = "in" /\ inbox[c] = "request"
         /\ c \in Clients /\ asked[c] \in [kind : Asks, by : Clients] /\ asked[c].by = c
         /\ told[c] = <<>>
<1> DEFINE c == desc[e.fd].client
<1>1. /\ e.fd \in Fds /\ IsSocket(e.fd) /\ interest[e.fd] = "in" /\ inbox[c] = "request"
      /\ c \in Connections
  BY TakeFacts, SocketFacts DEF Receives, Peer, KeptInv, Events
<1>2. /\ c \in Clients /\ asked[c] \in [kind : Asks, by : Clients] /\ asked[c].by = c
      /\ told[c] = <<>>
  BY <1>1 DEF KeptInv, Conversations, Types, TypeOK
<1> QED BY <1>1, <1>2

\* What Serve does: the new struct, at the end, is the one found by descriptor;
\* the request answered is that of the first struct with its index.  The new
\* struct leaves at once when it is its own request and the connection is not
\* left open.
LEMMA ServeFacts ==
  ASSUME Harmless, KeptInv, NEW e \in batch, Serve(e)
  PROVE  LET f == e.fd
             c == desc[f].client
             n == Len(headOfArray)
         IN
         /\ f \in Fds /\ IsSocket(f) /\ interest[f] = "in" /\ inbox[c] = "request"
         /\ c \in Clients /\ asked[c] \in [kind : Asks, by : Clients] /\ asked[c].by = c
         /\ told[c] = <<>>
         /\ inbox' = [inbox EXCEPT ![c] = "nothing"]
         /\ UNCHANGED <<asked, backlog, reset, down>> /\ full' \subseteq full
         /\ \E r \in 1 .. n + 1, open \in BOOLEAN : AnsweredFrom(f, r, open)
<1> DEFINE f == e.fd
           c == desc[f].client
           n == Len(headOfArray)
           y == [fd |-> f, request |-> asked[c], index |-> n, allSent |-> FALSE, fileopen |-> NoFile]
           list == addRequest(f, asked[c])
<1>1. /\ f \in Fds /\ IsSocket(f) /\ interest[f] = "in" /\ inbox[c] = "request"
      /\ c \in Connections
  BY ReceiveFacts DEF Serve, Connections
<1>2. /\ c \in Clients /\ asked[c] \in [kind : Asks, by : Clients] /\ asked[c].by = c
      /\ told[c] = <<>>
  BY ReceiveFacts DEF Serve
<1>3. /\ n \in Nat /\ headOfArray \in Seq(Struct)
      /\ \A i \in 1 .. n : headOfArray[i].fd # f /\ headOfArray[i] \in Struct
  BY <1>1, ListFacts DEF KeptInv, Types, TypeOK
<1>4. list = Append(headOfArray, y) /\ y \in Struct
  BY <1>1, <1>2, <1>3 DEF addRequest, Struct
<1>5. /\ list \in Seq(Struct) /\ Len(list) = n + 1 /\ DOMAIN list = 1 .. n + 1
      /\ \A i \in 1 .. n : list[i] = headOfArray[i]
      /\ list[n + 1] = y
  BY <1>3, <1>4, AppendProperties, LenProperties
<1>6. PICK p \in DOMAIN list, r \in DOMAIN list :
        /\ p = WithFd(list, f) /\ r = WithIndex(list, list[p].index)
        /\ \E out \in Outcomes(list[r].request) : Respond(f, list, p, r, out)
  BY DEF Serve, Peer, Looked
<1> DEFINE q == IF r = n + 1 THEN asked[c] ELSE headOfArray[r].request
<1> HIDE DEF list, y
<1>7. p = n + 1
  <2>1. list[p].fd = f
    BY <1>3, <1>5, <1>6, WithFdFacts
  <2> QED BY <1>3, <1>5, <2>1
<1>8. /\ r \in 1 .. n + 1 /\ list[p].index = n /\ list[r].index = n
      /\ \A j \in 1 .. n + 1 : list[j].index = n => r <= j
  <2>1. list[p].index = n /\ Len(list) \in Nat /\ p \in 1 .. Len(list)
    BY <1>3, <1>5, <1>7 DEF y
  <2> QED BY <1>5, <1>6, <2>1, WithIndexFacts
<1>9. /\ r # n + 1 => headOfArray[r].index = n
      /\ \A j \in 1 .. r - 1 : headOfArray[j].index # n /\ list[j].index # n
  <2>1. \A j \in 1 .. n : j \in 1 .. n + 1 /\ list[j].index = headOfArray[j].index
    BY <1>3, <1>5
  <2>2. \A j \in 1 .. r - 1 : j \in 1 .. n /\ ~(r <= j)
    BY <1>3, <1>8
  <2>3. r # n + 1 => r \in 1 .. n
    BY <1>3, <1>8
  <2> QED BY <1>8, <2>1, <2>2, <2>3
<1>10. list[r].request = q /\ q \in [kind : Asks, by : Clients]
  <2>1. CASE r = n + 1
    BY <1>2, <1>5, <2>1 DEF y
  <2>2. CASE r # n + 1
    <3>1. r \in 1 .. n
      BY <1>3, <1>8, <2>2
    <3> QED BY <1>3, <1>5, <2>2, <3>1 DEF Struct
  <2> QED BY <2>1, <2>2
<1> HIDE DEF q
<1>out. PICK out \in Outcomes(q) : Respond(f, list, n + 1, r, out)
  BY <1>6, <1>7, <1>10
<1> DEFINE a == Response(q)
           sent == Sent(q)
           open == out.open
           file == IF sent THEN LowestFree ELSE NoFile
           done == r = n + 1 /\ ~open
           z == [fd |-> f, request |-> asked[c], index |-> n, allSent |-> done, fileopen |-> file]
           u == [list[r] EXCEPT !.allSent = ~open]
           first == [list EXCEPT ![r] = u]
           after == [first EXCEPT ![n + 1].fileopen = file]
<1>11. /\ open \in BOOLEAN /\ (sent => open) /\ (open /\ ~sent => q.kind \in Unfinished)
       /\ out.file = file
  BY <1>10, OutcomeFacts DEF KeptInv
<1>12. file \in Fds \cup {NoFile} /\ done \in BOOLEAN /\ done = (r = n + 1 /\ ~open)
  BY <1>11, FreeFacts DEF Sent
<1>13. /\ told' = [told EXCEPT ![c] = Append(@, a)]
       /\ stats1' = Counted(a, open)
       /\ savedArray' = Written(q)
       /\ headOfArray' = IF after[n + 1].allSent THEN removeRequest(after, n) ELSE after
       /\ desc' = IF after[n + 1].allSent THEN [Opened(q) EXCEPT ![f] = Free] ELSE Opened(q)
       /\ interest' = [interest EXCEPT ![f] = IF after[n + 1].allSent THEN "none" ELSE "out"]
       /\ closed' = [closed EXCEPT ![c] = after[n + 1].allSent]
       /\ full' \subseteq full
  <2>1. Respond(f, list, n + 1, r, out)
    BY <1>out
  <2>2. after = [[list EXCEPT ![r].allSent = ~out.open] EXCEPT ![n + 1].fileopen = out.file]
    BY <1>11
  <2> HIDE DEF after, sent
  <2> QED BY <1>7, <1>8, <1>10, <2>1, <2>2 DEF Respond, Opened, Peer
<1>14. z \in Struct
  <2> HIDE DEF file, done, sent
  <2> QED BY <1>1, <1>2, <1>3, <1>12 DEF Struct
<1> HIDE DEF sent, open, file, a
<1>15. /\ u \in Struct
       /\ r = n + 1 => u = [y EXCEPT !.allSent = ~open]
       /\ r # n + 1 => u = [headOfArray[r] EXCEPT !.allSent = ~open]
  <2>1. list[r] \in Struct
    BY <1>5, <1>8, ElementOfSeq
  <2>2. u \in Struct
    BY <1>11, <2>1 DEF Struct
  <2>3. r # n + 1 => r \in 1 .. n
    BY <1>3, <1>8
  <2> QED BY <1>5, <2>2, <2>3
<1>16. /\ first \in Seq(Struct) /\ Len(first) = n + 1
       /\ \A j \in 1 .. n + 1 : first[j] = IF j = r THEN u ELSE list[j]
  <2> HIDE DEF u
  <2> QED BY <1>5, <1>8, <1>15, ExceptSeq
<1> HIDE DEF first
<1>17. [first[n + 1] EXCEPT !.fileopen = file] = z
  <2> DEFINE mark == IF r = n + 1 THEN ~open ELSE FALSE
  <2>1. first[n + 1] = [fd |-> f, request |-> asked[c], index |-> n, allSent |-> mark,
                        fileopen |-> NoFile]
    <3>1. CASE r = n + 1
      <4>1. first[n + 1] = [y EXCEPT !.allSent = ~open]
        BY <1>3, <1>15, <1>16, <3>1
      <4>2. mark = ~open
        BY <3>1
      <4> HIDE DEF f, c, n, mark
      <4> QED BY <4>1, <4>2 DEF y
    <3>2. CASE r # n + 1
      <4>1. first[n + 1] = y
        BY <1>3, <1>5, <1>16, <3>2
      <4>2. mark = FALSE
        BY <3>2
      <4> HIDE DEF f, c, n, mark
      <4> QED BY <4>1, <4>2 DEF y
    <3> QED BY <3>1, <3>2
  <2>2. mark = done
    BY <1>12
  <2> HIDE DEF f, c, n, mark, done
  <2> QED BY <2>1, <2>2
<1>18. /\ after \in Seq(Struct) /\ Len(after) = n + 1 /\ after[n + 1] = z
       /\ \A i \in 1 .. n :
            after[i] = IF i = r THEN [headOfArray[i] EXCEPT !.allSent = ~open]
                       ELSE headOfArray[i]
  <2>1. after = [first EXCEPT ![n + 1] = z]
    BY <1>17
  <2> HIDE DEF after, z, u
  <2>2. /\ after \in Seq(Struct) /\ Len(after) = n + 1
        /\ \A j \in 1 .. n + 1 : after[j] = IF j = n + 1 THEN z ELSE first[j]
    <3>1. n + 1 \in 1 .. Len(first)
      BY <1>3, <1>16
    <3> QED BY <1>14, <1>16, <2>1, <3>1, ExceptSeq
  <2>3. \A i \in 1 .. n : i \in 1 .. n + 1 /\ i # n + 1
    BY <1>3
  <2>4. \A i \in 1 .. n : after[i] = IF i = r THEN u ELSE headOfArray[i]
    BY <1>5, <1>16, <2>2, <2>3
  <2>5. \A i \in 1 .. n : i = r => u = [headOfArray[i] EXCEPT !.allSent = ~open]
    BY <1>15, <2>3
  <2>6. after[n + 1] = z
    BY <1>3, <2>2
  <2> QED BY <2>2, <2>4, <2>5, <2>6
<1> HIDE DEF after
<1>19. after[n + 1].allSent = done
  BY <1>18
<1>20. done => headOfArray' = headOfArray
  <2> SUFFICES ASSUME done PROVE headOfArray' = headOfArray
    OBVIOUS
  <2>1. r = n + 1
    OBVIOUS
  <2>2. after[n + 1].index = n /\ n + 1 \in 1 .. Len(after) /\ Len(after) \in Nat
    BY <1>3, <1>18
  <2>3. \A i \in 1 .. n : after[i] = headOfArray[i]
    <3>1. \A i \in 1 .. n : i # r
      BY <1>3, <2>1
    <3> QED BY <1>18, <3>1
  <2>4. \A j \in 1 .. (n + 1) - 1 : after[j].index # after[n + 1].index
    BY <1>3, <1>9, <2>1, <2>2, <2>3
  <2>5. removeRequest(after, n) = RemoveAt(after, n + 1)
    BY <2>2, <2>4, FirstIndexFacts
  <2>6. RemoveAt(after, n + 1) = headOfArray
    BY <1>3, <1>18, <2>3, RemoveLast
  <2> QED BY <1>13, <1>19, <2>5, <2>6
<1>21. ~done =>
         /\ headOfArray' \in Seq(Struct) /\ Len(headOfArray') = n + 1
         /\ headOfArray'[n + 1] =
              [fd |-> f, request |-> asked[c], index |-> n, allSent |-> FALSE,
               fileopen |-> IF sent THEN LowestFree ELSE NoFile]
         /\ \A i \in 1 .. n :
              headOfArray'[i] = IF i = r THEN [headOfArray[i] EXCEPT !.allSent = ~open]
                                ELSE headOfArray[i]
  <2> SUFFICES ASSUME ~done
               PROVE  /\ headOfArray' \in Seq(Struct) /\ Len(headOfArray') = n + 1
                      /\ headOfArray'[n + 1] =
                           [fd |-> f, request |-> asked[c], index |-> n, allSent |-> FALSE,
                            fileopen |-> IF sent THEN LowestFree ELSE NoFile]
                      /\ \A i \in 1 .. n :
                           headOfArray'[i] = IF i = r
                                             THEN [headOfArray[i] EXCEPT !.allSent = ~open]
                                             ELSE headOfArray[i]
    OBVIOUS
  <2>1. done = FALSE /\ headOfArray' = after
    BY <1>12, <1>13, <1>19
  <2>2. z = [fd |-> f, request |-> asked[c], index |-> n, allSent |-> FALSE,
             fileopen |-> IF sent THEN LowestFree ELSE NoFile]
    BY <2>1 DEF file
  <2> HIDE DEF z, done
  <2> QED BY <1>18, <2>1, <2>2
<1>22. /\ told' = [told EXCEPT ![c] = Append(@, Response(q))]
       /\ stats1' = Counted(Response(q), open)
       /\ savedArray' = Written(q)
       /\ interest' = [interest EXCEPT ![f] = IF done THEN "none" ELSE "out"]
       /\ closed' = [closed EXCEPT ![c] = done]
       /\ desc' = IF done THEN [Opened(q) EXCEPT ![f] = Free] ELSE Opened(q)
  <2> HIDE DEF done
  <2> QED BY <1>13, <1>19 DEF a
<1>23. /\ UNCHANGED <<asked, backlog, reset, down>> /\ full' \subseteq full
       /\ inbox' = [inbox EXCEPT ![c] = "nothing"]
  BY <1>13 DEF Serve, Peer
<1> HIDE DEF f, c, n, z, u
<1>24. AnsweredFrom(f, r, open)
  <2> HIDE DEF open, done
  <2>1. /\ Sent(q) => open
        /\ open /\ ~Sent(q) => q.kind \in Unfinished
    BY <1>11 DEF sent
  <2>2. /\ r # n + 1 => headOfArray[r].index = n
        /\ \A j \in 1 .. r - 1 : headOfArray[j].index # n
        /\ q \in [kind : Asks, by : Clients]
    BY <1>9, <1>10
  <2> QED BY <1>20, <1>21, <1>22, <2>1, <2>2, Zenon DEF AnsweredFrom, q, sent, done, f, c, n
<1>25. r \in 1 .. n + 1 /\ open \in BOOLEAN
  BY <1>8, <1>11
<1> QED BY <1>1, <1>2, <1>23, <1>24, <1>25 DEF f, c, n

\* An answer, and whether the connection is left open behind it.
IsAnswer(a, open) ==
  /\ a.status \in {200, 400, 404, 413} /\ open \in BOOLEAN
  /\ IsFile(a) => a.status = 200
  /\ open /\ ~IsFile(a) => a.status = 400 /\ Asks \cap Unfinished # {}

HasBody(a) == a.status = 200 /\ a.body \notin {<<"file">>, <<>>}

\* An answer is counted once, as what it is, but for a header more when an error's
\* connection is left open.
LEMMA AnswerCounted ==
  ASSUME KeptInv, NEW c \in Clients, NEW a, NEW open, told[c] = <<>>,
         IsAnswer(a, open),
         told' = [told EXCEPT ![c] = Append(@, a)], stats1' = Counted(a, open)
  PROVE  /\ Statistics'
         /\ InOrder(told'[c]) /\ told'[c] # <<>> /\ Len(told'[c]) = 1
         /\ told'[c][1] = a /\ told'[c] = <<a>>
         /\ told' = [d \in Connections |-> told'[d]]
         /\ \A d \in Connections \ {c} : told'[d] = told[d]
         /\ stats1' \in [requests : Nat, headers : Nat, bodies : Nat, errors : Nat,
                         errorHeaders : Nat]
<1> USE DEF Connections
<1>1. /\ a.status \in {200, 400, 404, 413} /\ open \in BOOLEAN
      /\ open /\ a.status # 200 => a.status = 400 /\ Asks \cap Unfinished # {}
  BY DEF IsAnswer
<1>2. told'[c] = Append(<<>>, a) /\ told' = [d \in Connections |-> told'[d]]
      /\ \A d \in Connections \ {c} : told'[d] = told[d]
  BY DEF KeptInv, Types
<1>3. /\ InOrder(told'[c]) /\ told'[c] # <<>> /\ Len(told'[c]) = 1 /\ told'[c][1] = a
      /\ told'[c] = <<a>>
  BY <1>1, <1>2, FirstTold
<1>4. stats1 \in [requests : Nat, headers : Nat, bodies : Nat, errors : Nat, errorHeaders : Nat]
  BY DEF KeptInv, Types, TypeOK
<1>5. c \notin OkClients /\ c \notin ErrorClients /\ c \notin BodyClients /\ c \notin OpenClients
  BY DEF OkClients, ErrorClients, BodyClients, OpenClients
<1>6. OkClients' = IF a.status = 200 THEN OkClients \cup {c} ELSE OkClients
  BY <1>2, <1>3 DEF OkClients
<1>7. ErrorClients' = IF a.status = 200 THEN ErrorClients ELSE ErrorClients \cup {c}
  BY <1>1, <1>2, <1>3 DEF ErrorClients
<1>8. BodyClients' = IF HasBody(a) THEN BodyClients \cup {c} ELSE BodyClients
  <2>1. ASSUME NEW d \in Clients
        PROVE  d \in BodyClients' <=> d \in BodyClients \/ (d = c /\ HasBody(a))
    <3>1. CASE d = c
      BY <1>3, <1>5, <1>6, <3>1 DEF BodyClients, HasBody
    <3>2. CASE d # c
      BY <1>2, <1>6, <3>2 DEF BodyClients, OkClients
    <3> QED BY <3>1, <3>2
  <2>2. BodyClients \subseteq Clients /\ BodyClients' \subseteq Clients
    BY DEF BodyClients, OkClients
  <2>3. CASE HasBody(a)
    <3>1. BodyClients' = BodyClients \cup {c}
      BY <2>1, <2>2, <2>3, Zenon
    <3> QED BY <2>3, <3>1
  <2>4. CASE ~HasBody(a)
    <3>1. \A d \in Clients : d \in BodyClients' <=> d \in BodyClients
      BY <2>1, <2>4
    <3>2. BodyClients' = BodyClients
      BY <2>2, <3>1, Zenon
    <3> QED BY <2>4, <3>2
  <2> QED BY <2>3, <2>4
<1>open. OpenClients' = IF a.status = 400 /\ Asks \cap Unfinished # {} THEN OpenClients \cup {c}
                        ELSE OpenClients
  BY <1>2, <1>3 DEF OpenClients
<1>9. Chunks' = Chunks
  <2>1. ASSUME NEW k \in Clients \X (2 .. CHUNKS + 1)
        PROVE  k[2] <= Len(told'[k[1]]) <=> k[2] <= Len(told[k[1]])
    <3>1. k[1] \in Clients /\ k[2] \in Nat /\ k[2] >= 2
      BY ServerAssumption
    <3>2. CASE k[1] = c
      <4>1. Len(told[c]) = 0
        BY EmptySeq
      <4> QED BY <1>3, <3>1, <3>2, <4>1
    <3>3. CASE k[1] # c
      BY <1>2, <3>1, <3>3
    <3> QED BY <3>2, <3>3
  <2> QED BY <2>1 DEF Chunks
<1>10. /\ Cardinality(OkClients) \in Nat /\ Cardinality(ErrorClients) \in Nat
       /\ Cardinality(BodyClients) \in Nat /\ Cardinality(Chunks) \in Nat
       /\ Cardinality(OkClients \cup {c}) = Cardinality(OkClients) + 1
       /\ Cardinality(ErrorClients \cup {c}) = Cardinality(ErrorClients) + 1
       /\ Cardinality(BodyClients \cup {c}) = Cardinality(BodyClients) + 1
       /\ Cardinality(OpenClients) \in Nat
       /\ Cardinality(OpenClients \cup {c}) = Cardinality(OpenClients) + 1
  BY <1>5, CountFinite, FS_CardinalityType, FS_AddElement
<1>11. PICK twice \in 0 .. Cardinality(OpenClients) : Booked(twice)
  BY StatisticsAre DEF KeptInv
<1> DEFINE more == IF open /\ a.status # 200 THEN twice + 1 ELSE twice
<1>more. more \in 0 .. Cardinality(OpenClients')
  BY <1>1, <1>10, <1>open
<1>12. CASE a.status = 200
  <2>1. stats1' = [stats1 EXCEPT !.requests = @ + 1, !.headers = @ + 1,
                                 !.bodies = IF HasBody(a) THEN @ + 1 ELSE @]
    BY <1>12 DEF Counted, HasBody
  <2>2. stats1' = [requests |-> stats1.requests + 1, headers |-> stats1.headers + 1,
                   bodies |-> IF HasBody(a) THEN stats1.bodies + 1 ELSE stats1.bodies,
                   errors |-> stats1.errors, errorHeaders |-> stats1.errorHeaders]
    BY <1>4, <2>1
  <2>3. Booked(more)'
    <3>1. /\ stats1'.requests = stats1.requests + 1 /\ stats1'.headers = stats1.headers + 1
          /\ stats1'.bodies = IF HasBody(a) THEN stats1.bodies + 1 ELSE stats1.bodies
          /\ stats1'.errors = stats1.errors /\ stats1'.errorHeaders = stats1.errorHeaders
      BY <2>2
    <3>2. more = twice /\ more' = more
      BY <1>12
    <3>3. stats1'.bodies = Cardinality(BodyClients') + Cardinality(Chunks')
      BY <1>8, <1>9, <1>10, <1>11, <3>1 DEF Booked
    <3> HIDE DEF more
    <3> QED BY <1>6, <1>7, <1>10, <1>11, <1>12, <3>1, <3>2, <3>3 DEF Booked
  <2>4. Statistics'
    BY <1>more, <2>3, StatisticsAre
  <2> QED BY <1>2, <1>3, <1>4, <2>2, <2>4
<1>13. CASE a.status # 200
  <2>1. stats1' = [stats1 EXCEPT !.errors = @ + 1, !.errorHeaders = @ + 1,
                                 !.headers = IF open THEN @ + 1 ELSE @]
    BY <1>13 DEF Counted
  <2>2. stats1' = [requests |-> stats1.requests,
                   headers |-> IF open THEN stats1.headers + 1 ELSE stats1.headers,
                   bodies |-> stats1.bodies,
                   errors |-> stats1.errors + 1, errorHeaders |-> stats1.errorHeaders + 1]
    <3>1. CASE open
      BY <1>4, <2>1, <3>1
    <3>2. CASE ~open
      BY <1>4, <2>1, <3>2
    <3> QED BY <3>1, <3>2
  <2>3. ~HasBody(a)
    BY <1>13 DEF HasBody
  <2>4. Booked(more)'
    <3>1. /\ stats1'.requests = stats1.requests
          /\ stats1'.headers = IF open THEN stats1.headers + 1 ELSE stats1.headers
          /\ stats1'.bodies = stats1.bodies
          /\ stats1'.errors = stats1.errors + 1
          /\ stats1'.errorHeaders = stats1.errorHeaders + 1
      BY <2>2
    <3>2. stats1'.headers = Cardinality(OkClients) + more
      BY <1>10, <1>11, <1>13, <3>1 DEF Booked
    <3>3. more' = more
      OBVIOUS
    <3> HIDE DEF more
    <3> QED BY <1>6, <1>7, <1>8, <1>9, <1>10, <1>11, <1>13, <2>3, <3>1, <3>2, <3>3 DEF Booked
  <2>5. Statistics'
    BY <1>more, <2>4, StatisticsAre
  <2> QED BY <1>2, <1>3, <1>4, <2>2, <2>5
<1> QED BY <1>12, <1>13

LEMMA ServeKept ==
  ASSUME Harmless, KeptInv, NEW e \in batch, Serve(e)
  PROVE  KeptInv'
<1> DEFINE f == e.fd
           c == desc[f].client
           n == Len(headOfArray)
           g == LowestFree
<1>1. /\ f \in Fds /\ IsSocket(f) /\ interest[f] = "in" /\ inbox[c] = "request"
      /\ c \in Clients /\ asked[c] \in [kind : Asks, by : Clients] /\ told[c] = <<>>
  BY ServeFacts
<1>2. /\ UNCHANGED <<asked, backlog, reset, down>> /\ full' \subseteq full
      /\ down = "no" /\ batch' \subseteq batch /\ \A d \in batch' : d.fd # f
  BY ServeFacts, TakeFacts DEF Serve, Receives
<1>inbox. inbox' = [inbox EXCEPT ![c] = "nothing"]
  BY ServeFacts
<1>r. PICK r \in 1 .. n + 1, open \in BOOLEAN : AnsweredFrom(f, r, open)
  BY ServeFacts
<1> DEFINE q == IF r = n + 1 THEN asked[c] ELSE headOfArray[r].request
           sent == Sent(q)
           done == r = n + 1 /\ ~open
           a == Response(q)
           file == IF sent THEN g ELSE NoFile
           x == [fd |-> f, request |-> asked[c], index |-> n, allSent |-> FALSE, fileopen |-> file]
<1>first. \A j \in 1 .. r - 1 : headOfArray[j].index # n
  BY <1>r DEF AnsweredFrom
<1>index. r # n + 1 => headOfArray[r].index = n
  BY <1>r DEF AnsweredFrom
<1>told. told' = [told EXCEPT ![c] = Append(@, a)] /\ stats1' = Counted(a, open)
  BY <1>r DEF AnsweredFrom
<1>answer. /\ IsAnswer(a, open) /\ (IsFile(a) <=> sent)
           /\ savedArray' \in Clients \cup {"<empty>", "junk"}
  <2>1. /\ savedArray' = Written(q) /\ q \in [kind : Asks, by : Clients]
        /\ open /\ ~Sent(q) => q.kind \in Unfinished
    BY <1>r DEF AnsweredFrom
  <2> HIDE DEF q
  <2>2. open /\ ~Sent(q) => Asks \cap Unfinished # {}
    BY <2>1
  <2> QED BY <2>1, <2>2, ResponseFacts DEF KeptInv, IsAnswer
<1>interest. interest' = [interest EXCEPT ![f] = IF done THEN "none" ELSE "out"]
  BY <1>r DEF AnsweredFrom
<1>closed. closed' = [closed EXCEPT ![c] = done]
  BY <1>r DEF AnsweredFrom
<1>desc. desc' = IF done THEN [Opened(q) EXCEPT ![f] = Free] ELSE Opened(q)
  BY <1>r DEF AnsweredFrom
<1>same. done => headOfArray' = headOfArray
  BY <1>r DEF AnsweredFrom
<1>list. ~done => /\ headOfArray' \in Seq(Struct) /\ Len(headOfArray') = n + 1
                  /\ headOfArray'[n + 1] = x
                  /\ \A i \in 1 .. n :
                       headOfArray'[i] = IF i = r THEN [headOfArray[i] EXCEPT !.allSent = ~open]
                                         ELSE headOfArray[i]
  BY <1>r DEF AnsweredFrom
<1>free. FreeFds # {} => g \in Fds /\ desc[g].kind = "free"
  BY FreeFacts
<1>sent. sent => ~done /\ FreeFds # {} /\ q.kind = "file"
  BY <1>r DEF AnsweredFrom, Sent
<1>bool. done \in BOOLEAN
  OBVIOUS
<1>opened. /\ sent => Opened(q) = [desc EXCEPT ![g] = OpenFile("file")]
           /\ ~sent => \/ Opened(q) = desc
                       \/ FreeFds # {} /\ Opened(q) = [desc EXCEPT ![g] = OpenFile("directory")]
  BY DEF Sent, Opened
<1>n. n \in Nat /\ r \in Nat /\ r >= 1 /\ r <= n + 1
  BY ListFacts
<1> HIDE DEF f, c, a, n, g, q, sent, done
<1>3. /\ Statistics'
      /\ InOrder(told'[c]) /\ told'[c] # <<>> /\ Len(told'[c]) = 1 /\ told'[c][1] = a
      /\ told' = [d \in Connections |-> told'[d]]
      /\ \A d \in Connections \ {c} : told'[d] = told[d]
      /\ stats1' \in [requests : Nat, headers : Nat, bodies : Nat, errors : Nat,
                      errorHeaders : Nat]
  BY <1>1, <1>told, <1>answer, AnswerCounted
<1>4. c \in Connections /\ \A d \in Connections \ {c} : /\ inbox'[d] = inbox[d]
                                                         /\ closed'[d] = closed[d]
  BY <1>1, <1>inbox, <1>closed DEF KeptInv, Types, TypeOK, Connections
<1>5. /\ inbox'[c] = "nothing" /\ closed'[c] = done
      /\ interest'[f] = (IF done THEN "none" ELSE "out")
      /\ \A h \in Fds \ {f} : interest'[h] = interest[h]
  BY <1>1, <1>4, <1>inbox, <1>closed, <1>interest DEF KeptInv, Types, TypeOK
\* What becomes of each descriptor.
<1>6. /\ desc'[f] = IF done THEN Free ELSE desc[f]
      /\ \A h \in Fds \ {f} :
           \/ desc'[h] = desc[h] /\ (sent => h # g)
           \/ desc[h].kind = "free" /\ sent /\ h = g /\ desc'[h] = OpenFile("file")
           \/ desc[h].kind = "free" /\ ~sent /\ desc'[h] = OpenFile("directory")
  <2>1. desc[f].kind = "socket" /\ desc = [h \in Fds |-> desc[h]]
    BY <1>1 DEF IsSocket, KeptInv, Types, TypeOK
  <2>2. CASE sent
    <3>1. desc' = [desc EXCEPT ![g] = OpenFile("file")] /\ ~done /\ g \in Fds /\ desc[g].kind = "free"
      BY <1>desc, <1>sent, <1>opened, <1>free, <2>2
    <3> QED BY <1>1, <2>1, <2>2, <3>1
  <2>3. CASE ~sent
    <3>1. /\ Opened(q)[f] = desc[f]
          /\ \A h \in Fds \ {f} :
               \/ Opened(q)[h] = desc[h]
               \/ desc[h].kind = "free" /\ Opened(q)[h] = OpenFile("directory")
          /\ Opened(q) = [h \in Fds |-> Opened(q)[h]]
      BY <1>1, <1>opened, <1>free, <2>1, <2>3
    <3>2. CASE done
      BY <1>1, <1>desc, <2>3, <3>1, <3>2
    <3>3. CASE ~done
      BY <1>1, <1>desc, <2>3, <3>1, <3>3
    <3> QED BY <3>2, <3>3
  <2> QED BY <2>2, <2>3
<1>7. /\ \A h \in Fds : IsSocket(h)' => IsSocket(h) /\ desc'[h] = desc[h] /\ (h = f => ~done)
      /\ \A h \in Fds \ {f} : IsSocket(h) => desc'[h] = desc[h]
      /\ \A h \in Fds : desc[h].kind = "file" => desc'[h] = desc[h]
  BY <1>1, <1>6 DEF IsSocket, OpenFile, Free
<1>8. \A h \in Fds \ {f} : desc[h].client # c
  BY <1>1, SocketFacts DEF c
<1>9. Types'
  <2>1. desc' \in [Fds -> [kind : {"free", "socket", "file", "directory"},
                           client : Connections \cup {NoClient}, offset : 0 .. CHUNKS]]
    <3> DEFINE D == [kind : {"free", "socket", "file", "directory"},
                     client : Connections \cup {NoClient}, offset : 0 .. CHUNKS]
    <3>1. Free \in D /\ OpenFile("file") \in D /\ OpenFile("directory") \in D
      BY ServerAssumption DEF Free, OpenFile
    <3>2. desc \in [Fds -> D]
      BY DEF KeptInv, Types, TypeOK
    <3> HIDE DEF D
    <3>3. Opened(q) \in [Fds -> D]
      BY <1>opened, <3>1, <3>2
    <3> QED BY <1>desc, <3>1, <3>3 DEF D
  <2>2. headOfArray' \in Seq(Struct)
    <3>1. headOfArray \in Seq(Struct)
      BY DEF KeptInv, Types, TypeOK
    <3> QED BY <1>same, <1>list, <3>1
  <2>3. inbox' \in [Connections -> {"new", "nothing", "request", "eof"}]
    BY <1>inbox DEF KeptInv, Types, TypeOK
  <2>4. interest' \in [Fds -> {"none", "in", "out"}]
    BY <1>interest DEF KeptInv, Types, TypeOK
  <2>5. closed' \in [Connections -> BOOLEAN]
    BY <1>closed, <1>bool DEF KeptInv, Types, TypeOK
  <2>6. \A d \in Connections : InOrder(told'[d])
    BY <1>3 DEF KeptInv, Types
  <2> QED BY <1>2, <1>3, <1>answer, <2>1, <2>2, <2>3, <2>4, <2>5, <2>6 DEF KeptInv, Types, TypeOK
<1>10. Descriptors'
  <2> SUFFICES ASSUME NEW h \in Fds
               PROVE  /\ IsSocket(h)' <=> interest'[h] # "none"
                      /\ IsSocket(h)' <=> desc'[h].client # NoClient
    BY DEF Descriptors
  <2>1. CASE h = f
    BY <1>1, <1>5, <1>6, <2>1 DEF KeptInv, Descriptors, IsSocket, Free
  <2>2. CASE h # f
    BY <1>5, <1>6, <2>2 DEF KeptInv, Descriptors, IsSocket, OpenFile
  <2> QED BY <2>1, <2>2
<1>11. Places'
  <2>1. \A h, k \in Fds : IsSocket(h)' /\ desc'[h].client = desc'[k].client => h = k
    <3> SUFFICES ASSUME NEW h \in Fds, NEW k \in Fds, IsSocket(h)', desc'[h].client = desc'[k].client
                 PROVE  h = k
      OBVIOUS
    <3>1. IsSocket(h) /\ desc'[h] = desc[h] /\ desc[h].client # NoClient
      BY <1>7 DEF KeptInv, Descriptors
    <3>2. desc'[k] = desc[k]
      BY <1>6, <3>1 DEF OpenFile, Free
    <3> QED BY <3>1, <3>2 DEF KeptInv, Places
  <2>2. \A j \in 1 .. Len(backlog) :
          /\ backlog[j] \in Connections \ {c}
          /\ \A h \in Fds : desc'[h].client # backlog[j]
    <3> SUFFICES ASSUME NEW j \in 1 .. Len(backlog)
                 PROVE  /\ backlog[j] \in Connections \ {c}
                        /\ \A h \in Fds : desc'[h].client # backlog[j]
      OBVIOUS
    <3>1. backlog[j] \in Connections
      BY ElementOfSeq DEF KeptInv, Types, TypeOK
    <3>2. \A h \in Fds : desc[h].client # backlog[j]
      BY DEF KeptInv, Places
    <3>3. NoClient # backlog[j]
      BY <3>1, ServerAssumption DEF Connections
    <3>4. backlog[j] # c
      BY <1>1, <3>2 DEF c
    <3> QED BY <1>6, <3>1, <3>2, <3>3, <3>4 DEF OpenFile, Free
  <2>3. \A h \in Fds : IsSocket(h)' =>
          /\ inbox'[desc'[h].client] # "new" /\ ~closed'[desc'[h].client]
          /\ interest'[h] = "in" <=> told'[desc'[h].client] = <<>>
    <3> SUFFICES ASSUME NEW h \in Fds, IsSocket(h)'
                 PROVE  /\ inbox'[desc'[h].client] # "new" /\ ~closed'[desc'[h].client]
                        /\ interest'[h] = "in" <=> told'[desc'[h].client] = <<>>
      OBVIOUS
    <3>1. IsSocket(h) /\ desc'[h] = desc[h] /\ (h = f => ~done)
      BY <1>7
    <3>2. CASE h = f
      BY <1>3, <1>5, <3>1, <3>2 DEF c
    <3>3. CASE h # f
      <4>1. desc[h].client \in Connections \ {c}
        BY <1>8, <3>1, <3>3, SocketFacts
      <4> QED BY <1>3, <1>4, <1>5, <3>1, <3>3, <4>1 DEF KeptInv, Places
    <3> QED BY <3>2, <3>3
  <2>4. \A j \in 1 .. Len(backlog) : inbox'[backlog[j]] # "new" /\ told'[backlog[j]] = <<>>
    BY <1>3, <1>4, <2>2 DEF KeptInv, Places
  <2> QED BY <1>2, <2>1, <2>2, <2>3, <2>4 DEF KeptInv, Places
<1>12. Conversations'
  <2> SUFFICES ASSUME NEW d \in Connections
               PROVE  /\ inbox'[d] = "new" => told'[d] = <<>>
                      /\ inbox'[d] = "request" => asked[d] # NoRequest /\ told'[d] = <<>>
                      /\ inbox'[d] = "eof" => d \in Probes
                      /\ asked[d] # NoRequest => d \in Clients /\ asked[d].by = d
                      /\ told'[d] # <<>> => asked[d] # NoRequest
                      /\ closed'[d] => told'[d] # <<>>
    BY <1>2 DEF Conversations
  <2>1. CASE d = c
    BY <1>1, <1>3, <1>5, <2>1 DEF KeptInv, Conversations
  <2>2. CASE d # c
    BY <1>3, <1>4, <2>2 DEF KeptInv, Conversations
  <2> QED BY <2>1, <2>2
<1>13. Events'
  <2> SUFFICES ASSUME NEW d \in batch', d.fd # ListenFd
               PROVE  /\ IsSocket(d.fd) => IsSocket(d.fd)' /\ desc'[d.fd].client = desc[d.fd].client
                      /\ interest'[d.fd] = interest[d.fd]
                      /\ inbox'[desc[d.fd].client] = inbox[desc[d.fd].client]
    BY <1>2, EventsFrame DEF KeptInv
  <2>1. d.fd \in Fds \ {f} /\ IsSocket(d.fd)
    BY <1>2 DEF KeptInv, Types, TypeOK, Events
  <2>2. desc[d.fd].client \in Connections \ {c} /\ desc'[d.fd] = desc[d.fd]
    BY <1>7, <1>8, <2>1, SocketFacts
  <2> QED BY <1>4, <1>5, <2>1, <2>2 DEF IsSocket
\* The structs that were there stay as they are, but for a mark.
<1>14. ASSUME NEW i \in 1 .. n
       PROVE  LET r1 == headOfArray[i]
                  d == desc'[r1.fd].client IN
              /\ r1.fd \in Fds \ {f} /\ interest'[r1.fd] = "out"
              /\ r1.request = asked[d]
              /\ r1.fileopen \in Fds =>
                   desc'[r1.fileopen].kind = "file" /\ desc[r1.fileopen].kind = "file"
              /\ Len(told'[d]) = IF r1.fileopen \in Fds THEN desc'[r1.fileopen].offset + 1 ELSE 1
              /\ IsFile(told'[d][1]) <=> r1.fileopen \in Fds
  <2>1. headOfArray[i].fd \in Fds \ {f} /\ IsSocket(headOfArray[i].fd)
    BY <1>1, ListFacts DEF n
  <2>2. headOfArray[i].fileopen \in Fds => desc[headOfArray[i].fileopen].kind = "file"
    BY DEF KeptInv, Filed, n
  <2>3. /\ desc'[headOfArray[i].fd] = desc[headOfArray[i].fd]
        /\ headOfArray[i].fileopen \in Fds =>
             desc'[headOfArray[i].fileopen] = desc[headOfArray[i].fileopen]
        /\ interest'[headOfArray[i].fd] = interest[headOfArray[i].fd]
    BY <1>5, <1>7, <2>1, <2>2
  <2>4. desc[headOfArray[i].fd].client \in Connections \ {c}
    BY <1>8, <2>1, SocketFacts
  <2>5. told'[desc[headOfArray[i].fd].client] = told[desc[headOfArray[i].fd].client]
    BY <1>3, <2>4
  <2>6. /\ interest[headOfArray[i].fd] = "out"
        /\ headOfArray[i].request = asked[desc[headOfArray[i].fd].client]
        /\ Len(told[desc[headOfArray[i].fd].client]) =
             IF headOfArray[i].fileopen \in Fds
             THEN desc[headOfArray[i].fileopen].offset + 1 ELSE 1
        /\ IsFile(told[desc[headOfArray[i].fd].client][1]) <=> headOfArray[i].fileopen \in Fds
    BY DEF KeptInv, Filed, n
  <2> QED BY <2>1, <2>2, <2>3, <2>5, <2>6
<1>15. Filed' /\ OneEach' /\ Complete'
  <2>1. CASE done
    <3>1. headOfArray' = headOfArray /\ ~sent
      BY <1>same, <1>sent, <2>1
    <3>2. Filed'
      <4>1. \A i \in 1 .. n : headOfArray[i].allSent =>
              \A j \in 1 .. i - 1 : headOfArray[j].index # headOfArray[i].index
        BY DEF KeptInv, Filed, n
      <4> QED BY <1>2, <1>14, <3>1, <4>1 DEF Filed, n
    <3>3. OneEach'
      BY <3>1 DEF KeptInv, OneEach
    <3>4. Complete'
      <4>1. \A h \in Fds : interest'[h] = "out" => interest[h] = "out"
        BY <1>5, <2>1
      <4>2. \A h \in Fds : desc'[h].kind = "file" => desc[h].kind = "file"
        BY <1>6, <2>1, <3>1 DEF OpenFile, Free
      <4> QED BY <3>1, <4>1, <4>2 DEF KeptInv, Complete
    <3> QED BY <3>2, <3>3, <3>4
  <2>2. CASE ~done
    <3>1. /\ Len(headOfArray') = n + 1 /\ headOfArray'[n + 1] = x
          /\ \A i \in 1 .. n :
               /\ headOfArray'[i].fd = headOfArray[i].fd
               /\ headOfArray'[i].request = headOfArray[i].request
               /\ headOfArray'[i].index = headOfArray[i].index
               /\ headOfArray'[i].fileopen = headOfArray[i].fileopen
               /\ headOfArray'[i].allSent => headOfArray[i].allSent \/ i = r
      <4>1. \A i \in 1 .. n : headOfArray[i] \in Struct
        BY ListFacts DEF n
      <4> QED BY <1>list, <2>2, <4>1 DEF Struct
    <3>2. /\ x.fd = f /\ x.request = asked[c] /\ x.index = n /\ ~x.allSent
          /\ x.fileopen = file /\ (x.fileopen \in Fds <=> sent) /\ (sent => x.fileopen = g)
      <4>1. file \in Fds <=> sent
        BY <1>free, <1>sent, ServerAssumption DEF NoFile, Fds
      <4> QED BY <4>1
    <3>3. /\ desc'[f] = desc[f] /\ desc[f].client = c
          /\ sent => g \in Fds \ {f} /\ desc[g].kind = "free" /\ desc'[g] = OpenFile("file")
      BY <1>1, <1>5, <1>6, <1>free, <1>sent, <2>2 DEF IsSocket, c
    <3> HIDE DEF x
    <3>4. Filed'
      <4> SUFFICES ASSUME NEW i \in 1 .. n + 1
                   PROVE  LET r1 == headOfArray'[i]
                              d == desc'[r1.fd].client IN
                          /\ interest'[r1.fd] = "out"
                          /\ r1.request = asked[d]
                          /\ r1.fileopen \in Fds => desc'[r1.fileopen].kind = "file"
                          /\ Len(told'[d]) = IF r1.fileopen \in Fds
                                             THEN desc'[r1.fileopen].offset + 1 ELSE 1
                          /\ IsFile(told'[d][1]) <=> r1.fileopen \in Fds
                          /\ r1.allSent => \A j \in 1 .. i - 1 : headOfArray'[j].index # r1.index
        BY <1>2, <3>1 DEF Filed
      <4>1. CASE i = n + 1
        <5>1. interest'[f] = "out" /\ Len(told'[c]) = 1
          BY <1>3, <1>5, <2>2
        <5>2. sent => desc'[g].kind = "file" /\ desc'[g].offset = 0
          BY <3>3 DEF OpenFile
        <5> HIDE DEF file
        <5>3. headOfArray'[i] = x /\ desc'[x.fd].client = c
          BY <3>1, <3>2, <3>3, <4>1
        <5>4. Len(told'[c]) = IF x.fileopen \in Fds THEN desc'[x.fileopen].offset + 1 ELSE 1
          BY <3>2, <5>1, <5>2
        <5>5. IsFile(told'[c][1]) <=> x.fileopen \in Fds
          BY <1>3, <1>answer, <3>2
        <5> QED BY <3>2, <5>1, <5>2, <5>3, <5>4, <5>5
      <4>2. CASE i # n + 1
        <5>1. i \in 1 .. n /\ \A j \in 1 .. i - 1 : j \in 1 .. n
          BY <1>n, <4>2
        <5>2. headOfArray[i].allSent => \A j \in 1 .. i - 1 : headOfArray[j].index # headOfArray[i].index
          BY <5>1 DEF KeptInv, Filed, n
        <5>3. i = r => \A j \in 1 .. i - 1 : headOfArray[j].index # headOfArray[i].index
          BY <1>first, <1>index, <4>2
        <5>4. headOfArray'[i].allSent =>
                \A j \in 1 .. i - 1 : headOfArray'[j].index # headOfArray'[i].index
          BY <3>1, <5>1, <5>2, <5>3
        <5> QED BY <1>14, <3>1, <5>1, <5>4
      <4> QED BY <4>1, <4>2
    <3>5. OneEach'
      <4>1. \A i \in 1 .. n : /\ headOfArray[i].fd # f
                              /\ x.fileopen \in Fds => headOfArray[i].fileopen # x.fileopen
        <5>1. ASSUME NEW i \in 1 .. n, x.fileopen \in Fds
              PROVE  headOfArray[i].fileopen # x.fileopen
          <6>1. x.fileopen = g /\ desc[g].kind = "free" /\ g \in Fds
            BY <3>2, <3>3, <5>1
          <6> QED BY <1>14, <6>1
        <5> QED BY <1>14, <5>1
      <4>2. ASSUME NEW i \in 1 .. n + 1, NEW j \in 1 .. n + 1,
                   \/ headOfArray'[i].fd = headOfArray'[j].fd
                   \/ /\ headOfArray'[i].fileopen \in Fds
                      /\ headOfArray'[i].fileopen = headOfArray'[j].fileopen
            PROVE  i = j
        <5>1. CASE i \in 1 .. n /\ j \in 1 .. n
          BY <3>1, <4>2, <5>1 DEF KeptInv, OneEach, n
        <5>2. CASE i \in 1 .. n /\ j = n + 1
          BY <3>1, <3>2, <4>1, <4>2, <5>2
        <5>3. CASE i = n + 1 /\ j \in 1 .. n
          BY <3>1, <3>2, <4>1, <4>2, <5>3
        <5>4. CASE i = n + 1 /\ j = n + 1
          BY <5>4
        <5> QED BY <1>n, <5>1, <5>2, <5>3, <5>4
      <4> QED BY <3>1, <4>2 DEF OneEach
    <3>6. Complete'
      <4>1. n + 1 \in 1 .. n + 1 /\ \A i \in 1 .. n : i \in 1 .. n + 1
        BY <1>n
      <4>2. ASSUME NEW h \in Fds, interest'[h] = "out"
            PROVE  \E i \in 1 .. n + 1 : headOfArray'[i].fd = h
        <5>1. CASE h = f
          BY <3>1, <3>2, <4>1, <5>1
        <5>2. CASE h # f
          <6>1. PICK i \in 1 .. n : headOfArray[i].fd = h
            BY <1>5, <4>2, <5>2 DEF KeptInv, Complete, n
          <6> QED BY <3>1, <4>1, <6>1
        <5> QED BY <5>1, <5>2
      <4>3. ASSUME NEW h \in Fds, desc'[h].kind = "file"
            PROVE  \E i \in 1 .. n + 1 : headOfArray'[i].fileopen = h
        <5>1. CASE sent /\ h = g
          BY <3>1, <3>2, <4>1, <5>1
        <5>2. CASE ~(sent /\ h = g)
          <6>1. desc[h].kind = "file"
            BY <1>1, <1>6, <2>2, <4>3, <5>2 DEF OpenFile
          <6>2. PICK i \in 1 .. n : headOfArray[i].fileopen = h
            BY <6>1 DEF KeptInv, Complete, n
          <6> QED BY <3>1, <4>1, <6>2
        <5> QED BY <5>1, <5>2
      <4> QED BY <3>1, <4>2, <4>3 DEF Complete
    <3> QED BY <3>4, <3>5, <3>6
  <2> QED BY <2>1, <2>2
<1>16. NeverLost'
  BY <1>2, LostFrame DEF KeptInv
<1> QED BY <1>3, <1>9, <1>10, <1>11, <1>12, <1>13, <1>15, <1>16 DEF KeptInv

-----------------------------------------------------------------------------
(* What holds whatever index a struct gets.                                *)

LEMMA StepKept ==
  ASSUME Harmless, KeptInv, Next
  PROVE  KeptInv'
<1>1. ASSUME NEW c \in Connections, Connect(c) \/ Ask(c) \/ Leave(c) \/ Reset(c)
      PROVE  KeptInv'
  BY <1>1, ConnectKept, AskKept, LeaveKept, ResetKept
<1>2. ASSUME NEW f \in Fds, Drain(f)
      PROVE  KeptInv'
  BY <1>2, DrainKept
<1>3. CASE EpollWait
  BY <1>3, EpollWaitKept
<1>4. ASSUME NEW e \in batch, Handle(e)
      PROVE  KeptInv'
  <2>1. CASE Accept(e) \/ AcceptFails(e) \/ RecvNothing(e)
    BY <2>1, AcceptKept, AcceptFailsKept, RecvNothingKept
  <2>2. CASE Serve(e)
    BY <2>2, ServeKept
  <2>3. CASE \/ ServeWild(e) \/ SendWithoutStruct(e) \/ SendChunk(e) \/ SendText(e)
             \/ SendEnd(e) \/ Fails(e) \/ Finish(e)
    BY <2>3, ServeWildKept, SendWithoutStructKept, SendChunkKept, NoText, SendEndKept,
       FailsKept, FinishKept
  <2> QED BY <1>4, <2>1, <2>2, <2>3 DEF Handle
<1>5. CASE Asleep
  BY <1>5, StutterKept DEF Asleep
<1> QED BY <1>1, <1>2, <1>3, <1>4, <1>5 DEF Next, Server

\* The list, the descriptors, the counters and the clients' conversations fit
\* together in every run of the server (hw4.c:593-705), with any number of
\* clients, and also after two structs have got the same index, as long as what
\* an uninitialised fd holds (hw4.c:250, 503) is no descriptor of the server's.
THEOREM Spec_KeptInv == ASSUME Harmless PROVE Spec => []KeptInv
<1>1. Init => KeptInv
  BY InitKept
<1>2. KeptInv /\ [Next]_vars => KeptInv'
  BY StepKept, StutterKept
<1> QED BY <1>1, <1>2, PTL DEF Spec

LEMMA BooksKept == KeptInv => Bookkeeping
<1> SUFFICES ASSUME KeptInv PROVE Bookkeeping
  OBVIOUS
<1> USE ListFacts
<1>1. \A f \in Fds : interest[f] = "out" <=> \E i \in DOMAIN headOfArray : headOfArray[i].fd = f
  BY DEF KeptInv, Complete
<1>2. \A i, j \in DOMAIN headOfArray : i # j =>
        /\ headOfArray[i].fd # headOfArray[j].fd
        /\ headOfArray[i].fileopen # headOfArray[j].fileopen \/ headOfArray[i].fileopen = NoFile
  <2>1. \A i \in 1 .. Len(headOfArray) : headOfArray[i].fileopen \in Fds \cup {NoFile}
    BY DEF Struct
  <2> QED BY <2>1 DEF KeptInv, OneEach
<1>3. \A f \in Fds :
        /\ desc[f].kind = "socket" <=> interest[f] # "none"
        /\ desc[f].kind = "socket" => ~closed[desc[f].client]
  BY DEF KeptInv, Descriptors, Places, IsSocket
<1>4. \A f \in Fds : desc[f].kind = "file" <=> \E i \in DOMAIN headOfArray : headOfArray[i].fileopen = f
  BY DEF KeptInv, Complete, Filed
<1> QED BY <1>1, <1>2, <1>3, <1>4 DEF Bookkeeping

\* The list and the descriptor table agree (hw4.c:603-702) in every run in which
\* an uninitialised fd is no descriptor: each connection to be sent to has its
\* struct, each open file too, and no file is forgotten.
THEOREM Spec_Bookkeeping == ASSUME Harmless PROVE Spec => []Bookkeeping
BY BooksKept, Spec_KeptInv, PTL

\* The counters of /stats (hw4.c:180, 447-499) add up over all clients, also when
\* one was answered another's request, but for a header more for each cut
\* request that was left open.
THEOREM Spec_StatsAddUp == ASSUME Harmless PROVE Spec => []StatsAddUp
<1>1. KeptInv => StatsAddUp
  BY DEF KeptInv, Statistics, StatsAddUp
<1> QED BY <1>1, Spec_KeptInv, PTL

-----------------------------------------------------------------------------
(* What holds as long as no index is given twice.                          *)

\* The files and the marks of the structs stay what they were.
LEMMA OwnFrame ==
  ASSUME KeptInv, Transfers, Apart, headOfArray' = headOfArray,
         \A f \in Fds : desc[f].kind = "file" => desc'[f] = desc[f]
  PROVE  Transfers' /\ Apart'
<1>1. \A i \in 1 .. Len(headOfArray) : headOfArray[i].fileopen \in Fds =>
        desc'[headOfArray[i].fileopen] = desc[headOfArray[i].fileopen]
  BY DEF KeptInv, Filed
<1> QED BY <1>1 DEF Transfers, Apart

\* The index a new struct gets is the length of the list.
LEMMA NewIndex ==
  ASSUME KeptInv, NEW e \in batch, Serve(e)
  PROVE  LET list == addRequest(e.fd, asked[Peer(e.fd)]) IN
         /\ Len(headOfArray) \in Nat /\ Len(list) = Len(headOfArray) + 1
         /\ \A i \in 1 .. Len(headOfArray) : list[i] = headOfArray[i]
         /\ list[Len(list)].index = Len(headOfArray)
<1> DEFINE n == Len(headOfArray)
           y == [fd |-> e.fd, request |-> asked[Peer(e.fd)], index |-> n,
                 allSent |-> FALSE, fileopen |-> NoFile]
           list == addRequest(e.fd, asked[Peer(e.fd)])
<1>1. n \in Nat /\ headOfArray \in Seq(Struct)
  BY ListFacts DEF KeptInv, Types, TypeOK
<1>2. y \in Struct
  BY <1>1, ReceiveFacts DEF Serve, Peer, Struct
<1>3. list = Append(headOfArray, y) /\ y.index = n
  BY DEF addRequest
<1> HIDE DEF y, list
<1>4. Len(list) = n + 1 /\ list[n + 1] = y /\ \A i \in 1 .. n : list[i] = headOfArray[i]
  BY <1>1, <1>2, <1>3, AppendProperties
<1> QED BY <1>1, <1>3, <1>4 DEF list

LEMMA ReuseFacts ==
  ASSUME KeptInv, NoReuse, NEW e \in batch, Serve(e)
  PROVE  \A i \in 1 .. Len(headOfArray) : headOfArray[i].index # Len(headOfArray)
<1> DEFINE list == addRequest(e.fd, asked[Peer(e.fd)])
<1>1. \A i \in 1 .. Len(list) - 1 : list[i].index # list[Len(list)].index
  BY DEF NoReuse
<1>2. /\ Len(headOfArray) \in Nat /\ Len(list) = Len(headOfArray) + 1
      /\ \A i \in 1 .. Len(headOfArray) : list[i] = headOfArray[i]
      /\ list[Len(list)].index = Len(headOfArray)
  BY NewIndex
<1> HIDE DEF list
<1> QED BY <1>1, <1>2

\* With an index of its own the new struct is also the one that is answered; it
\* stays if a file is sent, or the connection is left open.
LEMMA FreshServeFacts ==
  ASSUME Harmless, KeptInv, NoReuse, NEW e \in batch, Serve(e)
  PROVE  LET f == e.fd
             c == desc[f].client
             n == Len(headOfArray)
             sent == Sent(asked[c])
         IN
         /\ told' = [told EXCEPT ![c] = Append(@, Response(asked[c]))]
         /\ savedArray' = Written(asked[c])
         /\ sent => desc' = [desc EXCEPT ![LowestFree] = OpenFile("file")]
         /\ \A h \in Fds : desc[h].kind = "file" => desc'[h] = desc[h]
         /\ \E open \in BOOLEAN :
              /\ sent => open
              /\ open /\ ~sent => asked[c].kind \in Unfinished
              /\ stats1' = Counted(Response(asked[c]), open)
              /\ closed' = [closed EXCEPT ![c] = ~open]
              /\ ~open => headOfArray' = headOfArray
              /\ open =>
                   /\ headOfArray' \in Seq(Struct) /\ Len(headOfArray') = n + 1
                   /\ headOfArray'[n + 1] =
                        [fd |-> f, request |-> asked[c], index |-> n, allSent |-> FALSE,
                         fileopen |-> IF sent THEN LowestFree ELSE NoFile]
                   /\ \A i \in 1 .. n : headOfArray'[i] = headOfArray[i] /\ headOfArray[i].index # n
<1> DEFINE f == e.fd
           c == desc[f].client
           n == Len(headOfArray)
           sent == Sent(asked[c])
<1>1. n \in Nat /\ \A i \in 1 .. n : headOfArray[i].index # n
  BY ListFacts, ReuseFacts
<1>2. PICK r \in 1 .. n + 1, open \in BOOLEAN : AnsweredFrom(f, r, open)
  BY ServeFacts
<1>3. r = n + 1 /\ \A i \in 1 .. n : i # r
  <2>1. r \in 1 .. n + 1 /\ (r # n + 1 => headOfArray[r].index = n)
    BY <1>2 DEF AnsweredFrom
  <2>2. r \notin 1 .. n
    BY <1>1, <2>1
  <2> QED BY <1>1, <2>1, <2>2
<1>4. /\ sent => open
      /\ open /\ ~sent => asked[c].kind \in Unfinished
      /\ told' = [told EXCEPT ![c] = Append(@, Response(asked[c]))]
      /\ stats1' = Counted(Response(asked[c]), open)
      /\ savedArray' = Written(asked[c])
      /\ closed' = [closed EXCEPT ![c] = ~open]
      /\ desc' = IF ~open THEN [Opened(asked[c]) EXCEPT ![f] = Free] ELSE Opened(asked[c])
      /\ ~open => headOfArray' = headOfArray
      /\ open => /\ headOfArray' \in Seq(Struct) /\ Len(headOfArray') = n + 1
                 /\ headOfArray'[n + 1] =
                      [fd |-> f, request |-> asked[c], index |-> n, allSent |-> FALSE,
                       fileopen |-> IF sent THEN LowestFree ELSE NoFile]
                 /\ \A i \in 1 .. n : headOfArray'[i] = headOfArray[i]
  BY <1>2, <1>3 DEF AnsweredFrom
<1>5. sent => desc' = [desc EXCEPT ![LowestFree] = OpenFile("file")]
  BY <1>4 DEF Opened, Sent
<1>6. \A h \in Fds : desc[h].kind = "file" => desc'[h] = desc[h]
  <2> SUFFICES ASSUME NEW h \in Fds, desc[h].kind = "file"
               PROVE  desc'[h] = desc[h]
    OBVIOUS
  <2>1. h # f /\ f \in Fds /\ desc = [g \in Fds |-> desc[g]]
    BY ServeFacts DEF IsSocket, KeptInv, Types, TypeOK
  <2>2. Opened(asked[c]) = [g \in Fds |-> Opened(asked[c])[g]] /\ Opened(asked[c])[h] = desc[h]
    BY <2>1, FreeFacts DEF Opened
  <2>3. desc' = [Opened(asked[c]) EXCEPT ![f] = Free] \/ desc' = Opened(asked[c])
    BY <1>4
  <2> HIDE DEF c, f
  <2> QED BY <2>1, <2>2, <2>3
<1> HIDE DEF f, c, n, sent
<1>7. \E open1 \in BOOLEAN :
        /\ sent => open1
        /\ open1 /\ ~sent => asked[c].kind \in Unfinished
        /\ stats1' = Counted(Response(asked[c]), open1)
        /\ closed' = [closed EXCEPT ![c] = ~open1]
        /\ ~open1 => headOfArray' = headOfArray
        /\ open1 =>
             /\ headOfArray' \in Seq(Struct) /\ Len(headOfArray') = n + 1
             /\ headOfArray'[n + 1] =
                  [fd |-> f, request |-> asked[c], index |-> n, allSent |-> FALSE,
                   fileopen |-> IF sent THEN LowestFree ELSE NoFile]
             /\ \A i \in 1 .. n : headOfArray'[i] = headOfArray[i] /\ headOfArray[i].index # n
  <2> WITNESS open \in BOOLEAN
  <2> QED BY <1>1, <1>4, Zenon
<1> QED BY <1>4, <1>5, <1>6, <1>7 DEF f, c, n, sent

LEMMA ServeOwn ==
  ASSUME Harmless, KeptInv, Transfers, Apart, NoReuse, NEW e \in batch, Serve(e)
  PROVE  Transfers' /\ Apart'
<1> DEFINE c == desc[e.fd].client
           n == Len(headOfArray)
           sent == Sent(asked[c])
           file == IF sent THEN LowestFree ELSE NoFile
           x == [fd |-> e.fd, request |-> asked[c], index |-> n, allSent |-> FALSE, fileopen |-> file]
<1>1. PICK open \in BOOLEAN :
        /\ sent => open
        /\ open /\ ~sent => asked[c].kind \in Unfinished
        /\ ~open => headOfArray' = headOfArray
        /\ open =>
             /\ Len(headOfArray') = n + 1 /\ headOfArray'[n + 1] = x
             /\ \A i \in 1 .. n : headOfArray'[i] = headOfArray[i] /\ headOfArray[i].index # n
  BY FreshServeFacts
<1>2. n \in Nat /\ \A h \in Fds : desc[h].kind = "file" => desc'[h] = desc[h]
  BY FreshServeFacts, ListFacts
<1>3. CASE ~open
  BY <1>1, <1>2, <1>3, OwnFrame
<1>4. CASE open
  <2>1. IF file \in Fds THEN asked[c].kind = "file" ELSE asked[c].kind \in Unfinished
    <3>1. NoFile \notin Fds
      BY ServerAssumption DEF NoFile, Fds
    <3> QED BY <1>1, <1>4, <3>1, FreeFacts DEF Sent
  <2>2. x.request = asked[c] /\ x.index = n /\ ~x.allSent /\ x.fileopen = file
    OBVIOUS
  <2>3. /\ Len(headOfArray') = n + 1 /\ headOfArray'[n + 1] = x
        /\ \A i \in 1 .. n : headOfArray'[i] = headOfArray[i] /\ headOfArray[i].index # n
    BY <1>1, <1>4
  <2> HIDE DEF x, c, n, sent, file
  <2>4. Transfers'
    <3> SUFFICES ASSUME NEW i \in 1 .. n + 1
                 PROVE  LET r == headOfArray'[i] IN
                        /\ IF r.fileopen \in Fds THEN r.request.kind = "file"
                           ELSE r.request.kind \in Unfinished
                        /\ r.allSent /\ r.fileopen \in Fds => desc'[r.fileopen].offset = CHUNKS
      BY <2>3 DEF Transfers
    <3>1. CASE i = n + 1
      BY <2>1, <2>2, <2>3, <3>1
    <3>2. CASE i # n + 1
      <4>1. i \in 1 .. n
        BY <1>2, <3>2
      <4>2. LET r == headOfArray[i] IN
            /\ IF r.fileopen \in Fds THEN r.request.kind = "file"
               ELSE r.request.kind \in Unfinished
            /\ r.allSent /\ r.fileopen \in Fds => desc[r.fileopen].offset = CHUNKS
            /\ r.fileopen \in Fds => desc[r.fileopen].kind = "file"
        BY <4>1 DEF Transfers, KeptInv, Filed, n
      <4> QED BY <1>2, <2>3, <4>1, <4>2
    <3> QED BY <3>1, <3>2
  <2>5. Apart'
    <3>1. ASSUME NEW i \in 1 .. n + 1, NEW j \in 1 .. n + 1,
                 headOfArray'[i].index = headOfArray'[j].index
          PROVE  i = j
      <4>1. CASE i \in 1 .. n /\ j \in 1 .. n
        BY <2>3, <3>1, <4>1 DEF Apart, n
      <4>2. CASE i \in 1 .. n /\ j = n + 1
        BY <2>2, <2>3, <3>1, <4>2
      <4>3. CASE i = n + 1 /\ j \in 1 .. n
        BY <2>2, <2>3, <3>1, <4>3
      <4>4. CASE i = n + 1 /\ j = n + 1
        BY <4>4
      <4> QED BY <1>2, <4>1, <4>2, <4>3, <4>4
    <3> QED BY <2>3, <3>1 DEF Apart
  <2> QED BY <2>4, <2>5
<1> QED BY <1>3, <1>4

LEMMA SendChunkOwn ==
  ASSUME KeptInv, Transfers, Apart, NEW e \in batch, SendChunk(e)
  PROVE  Transfers' /\ Apart'
<1> DEFINE i == Pointer(e.fd)
           g == headOfArray[i].fileopen
<1>1. i \in 1 .. Len(headOfArray) /\ ~headOfArray[i].allSent
  <2>1. e.fd \in Fds /\ Pointer(e.fd) # 0
    BY TakeFacts DEF SendChunk, Transfer, KeptInv, Events
  <2> QED BY <2>1, PointerFacts DEF SendChunk, Transfer
<1>2. headOfArray' = headOfArray /\ desc' = [desc EXCEPT ![g].offset = @ + 1]
  BY DEF SendChunk, Source
<1> HIDE DEF i
<1>3. ASSUME NEW j \in 1 .. Len(headOfArray), headOfArray[j].allSent,
             headOfArray[j].fileopen \in Fds
      PROVE  desc'[headOfArray[j].fileopen].offset = CHUNKS
  <2>1. headOfArray[j].fileopen \in Fds /\ desc[headOfArray[j].fileopen].offset = CHUNKS
    BY <1>3 DEF Transfers
  <2>2. headOfArray[j].fileopen # g
    BY <1>1, <1>3, <2>1 DEF KeptInv, OneEach
  <2> HIDE DEF g
  <2> QED BY <1>2, <2>1, <2>2 DEF KeptInv, Types, TypeOK
<1>4. Transfers'
  BY <1>2, <1>3 DEF Transfers
<1> QED BY <1>2, <1>4 DEF Apart

\* With an index of its own it is the ended transfer's struct that is marked.
LEMMA SendEndOwn ==
  ASSUME KeptInv, Transfers, Apart, NEW e \in batch, SendEnd(e)
  PROVE  Transfers' /\ Apart'
<1> DEFINE i == Pointer(e.fd)
<1>1. /\ i \in 1 .. Len(headOfArray) /\ ~HasChunk(e.fd)
      /\ desc' = desc /\ Len(headOfArray') = Len(headOfArray)
  BY SendEndFacts
<1>2. PICK k \in 1 .. Len(headOfArray) :
        /\ headOfArray[k].index = headOfArray[i].index
        /\ \A j \in 1 .. Len(headOfArray) :
             headOfArray'[j] = IF j = k THEN [headOfArray[j] EXCEPT !.allSent = TRUE]
                               ELSE headOfArray[j]
  BY SendEndFacts
<1>3. k = i
  BY <1>1, <1>2 DEF Apart
<1>4. ASSUME headOfArray[i].fileopen \in Fds
      PROVE  desc[headOfArray[i].fileopen].offset = CHUNKS
  <2>1. headOfArray[i].fileopen \in Fds /\ desc[headOfArray[i].fileopen].kind = "file"
    BY <1>1, <1>4 DEF KeptInv, Filed
  <2>2. desc[headOfArray[i].fileopen].offset \in 0 .. CHUNKS
    BY <2>1 DEF KeptInv, Types, TypeOK
  <2> QED BY <1>1, <2>1, <2>2, ServerAssumption DEF HasChunk, Source
<1> HIDE DEF i
<1>5. \A j \in 1 .. Len(headOfArray) :
        /\ headOfArray'[j].request = headOfArray[j].request
        /\ headOfArray'[j].index = headOfArray[j].index
        /\ headOfArray'[j].fileopen = headOfArray[j].fileopen
        /\ headOfArray'[j].allSent => headOfArray[j].allSent \/ j = i
  BY <1>2, <1>3, ListFacts DEF Struct
<1>6. Transfers'
  BY <1>1, <1>4, <1>5 DEF Transfers
<1>7. Apart'
  BY <1>1, <1>5 DEF Apart
<1> QED BY <1>6, <1>7

LEMMA FinishOwn ==
  ASSUME KeptInv, Transfers, Apart, NEW e \in batch, Finish(e)
  PROVE  Transfers' /\ Apart'
<1> DEFINE i == Pointer(e.fd)
           at(n) == IF n < i THEN n ELSE n + 1
<1>1. /\ i \in 1 .. Len(headOfArray) /\ e.fd \in Fds
      /\ \A j \in 1 .. Len(headOfArray') :
           /\ at(j) \in 1 .. Len(headOfArray) /\ at(j) # i
           /\ headOfArray'[j] = headOfArray[at(j)]
      /\ \A j, m \in 1 .. Len(headOfArray') : at(m) = at(j) => m = j
      /\ desc' = [g \in Fds |-> IF g \in {e.fd, headOfArray[i].fileopen} THEN Free ELSE desc[g]]
  BY FinishFacts
<1>2. IsSocket(e.fd)
  BY TakeFacts DEF Finish, Finished, KeptInv, Events
<1> HIDE DEF i, at
<1>3. Transfers'
  <2> SUFFICES ASSUME NEW j \in 1 .. Len(headOfArray')
               PROVE  LET r == headOfArray'[j] IN
                      /\ IF r.fileopen \in Fds THEN r.request.kind = "file"
                         ELSE r.request.kind \in Unfinished
                      /\ r.allSent /\ r.fileopen \in Fds => desc'[r.fileopen].offset = CHUNKS
    BY DEF Transfers
  <2>1. PICK k \in 1 .. Len(headOfArray) : k # i /\ headOfArray'[j] = headOfArray[k]
    BY <1>1
  <2>2. headOfArray[k].fileopen \in Fds =>
          /\ desc[headOfArray[k].fileopen].kind = "file"
          /\ headOfArray[k].fileopen # headOfArray[i].fileopen
    BY <1>1, <2>1 DEF KeptInv, Filed, OneEach
  <2>3. headOfArray[k].fileopen \in Fds =>
          desc'[headOfArray[k].fileopen] = desc[headOfArray[k].fileopen]
    BY <1>1, <1>2, <2>2 DEF IsSocket
  <2> QED BY <2>1, <2>3 DEF Transfers
<1>4. Apart'
  <2> SUFFICES ASSUME NEW j \in 1 .. Len(headOfArray'), NEW k \in 1 .. Len(headOfArray'),
                      headOfArray'[j].index = headOfArray'[k].index
               PROVE  j = k
    BY DEF Apart
  <2>1. /\ at(j) \in 1 .. Len(headOfArray) /\ headOfArray'[j] = headOfArray[at(j)]
        /\ at(k) \in 1 .. Len(headOfArray) /\ headOfArray'[k] = headOfArray[at(k)]
    BY <1>1
  <2>2. at(j) = at(k)
    BY <2>1 DEF Apart
  <2> QED BY <1>1, <2>2
<1> QED BY <1>3, <1>4

LEMMA StepOwn ==
  ASSUME Harmless, KeptInv, Transfers, Apart, Next, NoReuse
  PROVE  Transfers' /\ Apart'
<1> USE DEF clientVars, kernelVars, serverVars
<1>1. ASSUME UNCHANGED <<headOfArray, desc>>
      PROVE  Transfers' /\ Apart'
  BY <1>1, OwnFrame
<1>2. ASSUME NEW c \in Connections, Connect(c) \/ Ask(c) \/ Leave(c) \/ Reset(c)
      PROVE  Transfers' /\ Apart'
  BY <1>1, <1>2 DEF Connect, Ask, Leave, Reset
<1>3. ASSUME NEW f \in Fds, Drain(f)
      PROVE  Transfers' /\ Apart'
  BY <1>1, <1>3 DEF Drain
<1>4. CASE EpollWait
  BY <1>1, <1>4 DEF EpollWait
<1>5. ASSUME NEW e \in batch, Handle(e)
      PROVE  Transfers' /\ Apart'
  <2>1. CASE Accept(e)
    <3>1. headOfArray' = headOfArray /\ desc' = [desc EXCEPT ![LowestFree] = Socket(Head(backlog))]
      BY <2>1 DEF Accept
    <3>2. LowestFree \in Fds /\ desc[LowestFree].kind = "free"
      BY <2>1, FreeFacts DEF Accept
    <3>3. \A f \in Fds : desc[f].kind = "file" => desc'[f] = desc[f]
      BY <3>1, <3>2 DEF KeptInv, Types, TypeOK
    <3> QED BY <3>1, <3>3, OwnFrame
  <2>2. CASE AcceptFails(e) \/ RecvNothing(e) \/ ServeWild(e) \/ SendWithoutStruct(e) \/ Fails(e)
    BY <1>1, <2>2 DEF AcceptFails, RecvNothing, ServeWild, SendWithoutStruct, Fails
  <2>3. CASE Serve(e)
    BY <2>3, ServeOwn
  <2>4. CASE SendChunk(e) \/ SendText(e) \/ SendEnd(e) \/ Finish(e)
    BY <2>4, SendChunkOwn, NoText, SendEndOwn, FinishOwn
  <2> QED BY <1>5, <2>1, <2>2, <2>3, <2>4 DEF Handle
<1>6. CASE Asleep
  BY <1>1, <1>6 DEF Asleep, vars
<1> QED BY <1>2, <1>3, <1>4, <1>5, <1>6 DEF Next, Server

\* As long as no index is given twice and no uninitialised fd is a descriptor,
\* each struct is found by its index, and is that of a file its own client asked
\* for, or of a cut request left open, for any number of clients.
THEOREM Careful_ServerInv == ASSUME Harmless PROVE Spec /\ IndicesFresh => []ServerInv
<1>1. Init => ServerInv
  BY InitKept DEF ServerInv, Init, Transfers, Apart
<1>2. ServerInv /\ [Next]_vars /\ [NoReuse]_vars => ServerInv'
  <2>1. ASSUME ServerInv, UNCHANGED vars
        PROVE  ServerInv'
    BY <2>1, StutterKept, OwnFrame DEF ServerInv, vars, kernelVars, serverVars
  <2>2. ASSUME ServerInv, Next, NoReuse
        PROVE  ServerInv'
    BY <2>2, StepKept, StepOwn DEF ServerInv
  <2> QED BY <2>1, <2>2
<1> QED BY <1>1, <1>2, PTL DEF Spec, IndicesFresh

-----------------------------------------------------------------------------
(* The server implements the service.                                      *)

PromiseVars ==
  <<[c \in Clients |-> asked[c]], [c \in Clients |-> told[c]],
    [c \in Clients |-> closed[c]], savedArray>>

\* The mapped state as the steps of WebService see it.
LEMMA Mapped ==
  /\ \A c \in Clients :
       /\ [d \in Clients |-> asked[d]][c] = asked[c]
       /\ [d \in Clients |-> told[d]][c] = told[c]
       /\ [d \in Clients |-> closed[d]][c] = closed[c]
  /\ Promise!wvars = PromiseVars
  /\ Promise!wvars' = PromiseVars'
BY DEF Promise!wvars, PromiseVars

LEMMA InitPromise == Init => Promise!Init
BY DEF Init, Promise!Init, Connections

LEMMA AskPromise ==
  ASSUME KeptInv, NEW c \in Connections, Ask(c)
  PROVE  Promise!Ask(c) /\ c \in Clients
<1>1. c \in Clients /\ asked[c] = NoRequest
  BY DEF Ask
<1>2. PICK k \in Asks : asked' = [asked EXCEPT ![c] = [kind |-> k, by |-> c]]
  BY DEF Ask
<1>3. [d \in Clients |-> asked'[d]]
        = [[d \in Clients |-> asked[d]] EXCEPT ![c] = [kind |-> k, by |-> c]]
  BY <1>1, <1>2 DEF KeptInv, Types, TypeOK, Connections
<1>4. told' = told /\ closed' = closed /\ savedArray' = savedArray
  BY DEF Ask, serverVars
<1> QED BY <1>1, <1>3, <1>4 DEF Promise!Ask

\* The response is one that fits the request.
LEMMA ResponseFits ==
  ASSUME KeptInv, NEW r \in [kind : Asks, by : Clients]
  PROVE  Response(r) \in Promise!Fitting(r)
<1>1. Report \in Promise!Tallies
  BY DEF KeptInv, Statistics
<1>2. CASE r.kind \in {"ping", "echo", "write", "read", "half"}
  BY <1>2 DEF Response, Promise!Fitting, Promise!Says
<1>3. CASE r.kind = "stats"
  <2>1. Response(r) = [status |-> 200, body |-> Report]
    BY <1>3 DEF Response
  <2>2. Promise!Fitting(r) = {[status |-> 200, body |-> tally] : tally \in Promise!Tallies}
    BY <1>3 DEF Promise!Fitting, Promise!Says
  <2> QED BY <1>1, <2>1, <2>2
<1>4. CASE r.kind = "file"
  <2>1. Response(r) \in {[status |-> 200, body |-> <<"file">>], [status |-> 404, body |-> <<>>]}
    BY <1>4 DEF Response
  <2>2. Promise!Fitting(r)
          = {[status |-> 200, body |-> <<"file">>], [status |-> 404, body |-> <<>>]}
    BY <1>4 DEF Promise!Fitting, Promise!Says
  <2> QED BY <2>1, <2>2
<1>5. CASE r.kind \in {"missing", "directory", "big", "other"}
  BY <1>5 DEF Response, Promise!Fitting, Promise!Says
<1>6. CASE r.kind \notin {"ping", "echo", "write", "read", "half", "stats", "file",
                          "missing", "directory", "big", "other"}
  BY <1>6 DEF Response, Promise!Fitting, Promise!Says
<1> QED BY <1>2, <1>3, <1>4, <1>5, <1>6

LEMMA ServePromise ==
  ASSUME Harmless, KeptInv, NoReuse, NEW e \in batch, Serve(e)
  PROVE  \E c \in Clients : Promise!Answer(c)
<1> DEFINE c == desc[e.fd].client
           a == Response(asked[c])
<1>1. /\ c \in Clients /\ asked[c] \in [kind : Asks, by : Clients] /\ asked[c].by = c
      /\ told[c] = <<>> /\ asked' = asked
  BY ServeFacts
<1>2. told' = [told EXCEPT ![c] = Append(@, a)] /\ savedArray' = Written(asked[c])
  BY FreshServeFacts
<1>3. PICK open \in BOOLEAN :
        /\ Sent(asked[c]) => open
        /\ open /\ ~Sent(asked[c]) => asked[c].kind \in Unfinished
        /\ stats1' = Counted(a, open)
        /\ closed' = [closed EXCEPT ![c] = ~open]
  BY FreshServeFacts
<1> HIDE DEF c
<1>4. asked[c] # NoRequest
  BY <1>1, ServerAssumption
<1>5. /\ told'[c] = <<a>>
      /\ \A d \in Connections \ {c} : told'[d] = told[d]
  <2>1. IsAnswer(a, open)
    BY <1>1, <1>3, ResponseFacts DEF KeptInv, IsAnswer
  <2> HIDE DEF a
  <2> QED BY <1>1, <1>2, <1>3, <2>1, AnswerCounted
<1>6. /\ a \in Promise!Fitting(asked[c])
      /\ ~open \/ a.body = <<"file">> \/ asked[c].kind \in Promise!Unfinished
      /\ a.body = <<"file">> => open
  BY <1>1, <1>3, ResponseFits, ResponseFacts DEF KeptInv, IsFile, Unfinished, Promise!Unfinished
<1> HIDE DEF a
<1>7. [d \in Clients |-> told'[d]] = [[d \in Clients |-> told[d]] EXCEPT ![c] = <<a>>]
  BY <1>1, <1>5 DEF Connections
<1>8. [d \in Clients |-> closed'[d]] = [[d \in Clients |-> closed[d]] EXCEPT ![c] = ~open]
  <2>1. closed \in [Connections -> BOOLEAN]
    BY DEF KeptInv, Types, TypeOK
  <2>2. closed'[c] = ~open
    BY <1>1, <1>3, <2>1 DEF Connections
  <2>3. \A d \in Clients \ {c} : closed'[d] = closed[d]
    BY <1>3, <2>1 DEF Connections
  <2> QED BY <1>1, <2>2, <2>3
<1>9. savedArray' = IF asked[c].kind = "write" THEN c
                    ELSE IF asked[c].kind = "half" THEN "junk" ELSE savedArray
  BY <1>1, <1>2 DEF Written
<1>10. Promise!Fitting([d \in Clients |-> asked[d]][c]) = Promise!Fitting(asked[c])
  BY <1>1
<1>11. PICK d \in Clients : d = c
  BY <1>1
<1>12. Promise!Answer(d)
  BY <1>1, <1>4, <1>6, <1>7, <1>8, <1>9, <1>11 DEF Promise!Answer
<1> QED BY <1>12

LEMMA SendChunkPromise ==
  ASSUME KeptInv, NEW e \in batch, SendChunk(e)
  PROVE  \E c \in Clients : Promise!Chunk(c)
<1> DEFINE f == e.fd
           g == headOfArray[Pointer(f)].fileopen
           c == desc[f].client
<1>1. f \in Fds /\ Pointer(f) # 0
  BY TakeFacts DEF SendChunk, Transfer, KeptInv, Events
<1>2. /\ IsSocket(f) /\ c \in Clients /\ told[c] # <<>> /\ g \in Fds
      /\ Len(told[c]) = desc[g].offset + 1 /\ IsFile(told[c][1])
  <2>1. g \in Fds
    BY DEF SendChunk, HasChunk, Source
  <2> QED BY <1>1, <2>1, PointerFacts
<1>3. desc[g].offset \in 0 .. CHUNKS /\ desc[g].offset < CHUNKS
  BY <1>2 DEF SendChunk, HasChunk, Source, KeptInv, Types, TypeOK
<1>4. told' = [told EXCEPT ![c] = Append(@, Len(@))]
  BY <1>2 DEF SendChunk, Source, Peer
<1>5. asked' = asked /\ closed' = closed /\ savedArray' = savedArray
  BY DEF SendChunk, clientVars
<1>6. ~closed[c]
  BY <1>1, <1>2 DEF KeptInv, Places
<1>7. Len(told[c]) < Promise!Whole(told[c][1])
  BY <1>2, <1>3, ServerAssumption DEF Promise!Whole, IsFile
<1> HIDE DEF c, g, f
<1>8. [d \in Clients |-> told'[d]]
        = [[d \in Clients |-> told[d]] EXCEPT ![c] = Append(@, Len(@))]
  BY <1>2, <1>4 DEF KeptInv, Types, Connections
<1>9. PICK d \in Clients : d = c
  BY <1>2
<1>10. Promise!Chunk(d)
  BY <1>2, <1>5, <1>6, <1>7, <1>8, <1>9 DEF Promise!Chunk
<1> QED BY <1>10

LEMMA FinishPromise ==
  ASSUME KeptInv, Transfers, NEW e \in batch, Finish(e)
  PROVE  \E c \in Clients : Promise!HangUp(c)
<1> DEFINE f == e.fd
           i == Pointer(f)
           c == desc[f].client
<1>1. f \in Fds /\ Pointer(f) # 0 /\ headOfArray[i].allSent /\ i \in 1 .. Len(headOfArray)
  BY FinishFacts
<1>2. IsSocket(f) /\ c \in Clients /\ told[c] # <<>>
  BY <1>1, PointerFacts
<1>3. Len(told[c]) = Promise!Whole(told[c][1])
  <2>1. headOfArray[i].fileopen \in Fds => desc[headOfArray[i].fileopen].offset = CHUNKS
    BY <1>1 DEF Transfers
  <2>2. /\ headOfArray[i].fileopen \in Fds =>
             Len(told[c]) = desc[headOfArray[i].fileopen].offset + 1
        /\ headOfArray[i].fileopen \notin Fds => Len(told[c]) = 1
        /\ IsFile(told[c][1]) <=> headOfArray[i].fileopen \in Fds
    BY <1>1, PointerFacts
  <2> QED BY <2>1, <2>2 DEF Promise!Whole, IsFile
<1>4. ~closed[c]
  BY <1>1, <1>2 DEF KeptInv, Places
<1>5. closed' = [closed EXCEPT ![c] = TRUE] /\ UNCHANGED <<asked, told, savedArray>>
  BY FinishFacts
<1> HIDE DEF c, i, f
<1>6. [d \in Clients |-> closed'[d]] = [[d \in Clients |-> closed[d]] EXCEPT ![c] = TRUE]
  BY <1>2, <1>5 DEF KeptInv, Types, TypeOK, Connections
<1>7. PICK d \in Clients : d = c
  BY <1>2
<1>8. Promise!HangUp(d)
  BY <1>2, <1>3, <1>4, <1>5, <1>6, <1>7 DEF Promise!HangUp
<1> QED BY <1>8

\* Every other step leaves a client where it was.
LEMMA StepPromise ==
  ASSUME Harmless, KeptInv, Transfers, Next, NoReuse
  PROVE  [Promise!Next]_(Promise!wvars)
<1>1. ASSUME UNCHANGED <<asked, told, closed, savedArray>>
      PROVE  UNCHANGED Promise!wvars
  BY <1>1, Mapped DEF PromiseVars
<1>2. ASSUME NEW c \in Connections, Connect(c) \/ Leave(c) \/ Reset(c)
      PROVE  UNCHANGED Promise!wvars
  BY <1>1, <1>2 DEF Connect, Leave, Reset, serverVars
<1>3. ASSUME NEW c \in Connections, Ask(c)
      PROVE  Promise!Next
  BY <1>3, AskPromise DEF Promise!Next
<1>4. ASSUME NEW f \in Fds, Drain(f)
      PROVE  UNCHANGED Promise!wvars
  BY <1>1, <1>4 DEF Drain, clientVars, serverVars
<1>5. CASE EpollWait
  BY <1>1, <1>5 DEF EpollWait, clientVars, serverVars
<1>6. ASSUME NEW e \in batch, Handle(e)
      PROVE  Promise!Next \/ UNCHANGED Promise!wvars
  <2>1. CASE Accept(e) \/ AcceptFails(e) \/ RecvNothing(e) \/ ServeWild(e)
             \/ SendWithoutStruct(e) \/ SendEnd(e) \/ Fails(e)
    BY <1>1, <2>1 DEF Accept, AcceptFails, RecvNothing, ServeWild, SendWithoutStruct, SendEnd,
                      Fails, clientVars, serverVars
  <2>2. CASE Serve(e)
    BY <2>2, ServePromise DEF Promise!Next
  <2>3. CASE SendChunk(e) \/ SendText(e)
    BY <2>3, SendChunkPromise, NoText DEF Promise!Next
  <2>4. CASE Finish(e)
    BY <2>4, FinishPromise DEF Promise!Next
  <2> QED BY <1>6, <2>1, <2>2, <2>3, <2>4 DEF Handle
<1>7. CASE Asleep
  BY <1>1, <1>7 DEF Asleep, vars, clientVars, serverVars
<1> QED BY <1>2, <1>3, <1>4, <1>5, <1>6, <1>7 DEF Next, Server

LEMMA StutterPromise == UNCHANGED vars => UNCHANGED Promise!wvars
BY Mapped DEF vars, clientVars, serverVars, PromiseVars

\* As long as no index is given twice and no uninitialised fd is a descriptor,
\* every client is told what WebService promises it, whatever the number of
\* clients, of descriptors and of the file's chunks.
THEOREM Careful_AnswersAsPromised ==
  ASSUME Harmless
  PROVE  Spec /\ IndicesFresh => AnswersAsPromised
<1>1. Init => Promise!Init
  BY InitPromise
<1>2. ServerInv /\ [Next]_vars /\ [NoReuse]_vars => [Promise!Next]_(Promise!wvars)
  BY StepPromise, StutterPromise DEF ServerInv
<1> QED BY <1>1, <1>2, Careful_ServerInv, PTL
    DEF Spec, IndicesFresh, AnswersAsPromised, Promise!Spec

-----------------------------------------------------------------------------
(* Few clients: at most two, or at most one that fetches files and nobody  *)
(* whose request is cut.                                                   *)

AtMostTwo == \E a, b \in Clients : Clients = {a, b}
OneFetches == Asks \cap Unfinished = {} /\ \A a, b \in FileClients : a = b
FewClients == AtMostTwo \/ OneFetches

FilesAsked ==
  \A c \in Clients : asked[c] # NoRequest /\ asked[c].kind = "file" => c \in FileClients

LEMMA StepFilesAsked ==
  ASSUME KeptInv, FilesAsked, Next
  PROVE  FilesAsked'
<1>1. ASSUME asked' = asked
      PROVE  FilesAsked'
  BY <1>1 DEF FilesAsked
<1>2. ASSUME NEW c \in Connections, Ask(c)
      PROVE  FilesAsked'
  <2>1. PICK k \in Asks : /\ k = "file" => c \in FileClients
                          /\ asked' = [asked EXCEPT ![c] = [kind |-> k, by |-> c]]
    BY <1>2 DEF Ask
  <2>2. ASSUME NEW d \in Clients
        PROVE  asked'[d] = IF d = c THEN [kind |-> k, by |-> c] ELSE asked[d]
    BY <2>1 DEF KeptInv, Types, TypeOK, Connections
  <2> QED BY <2>1, <2>2 DEF FilesAsked
<1>3. ASSUME NEW c \in Connections, Connect(c) \/ Leave(c) \/ Reset(c)
      PROVE  FilesAsked'
  BY <1>1, <1>3 DEF Connect, Leave, Reset
<1>4. ASSUME NEW f \in Fds, Drain(f)
      PROVE  FilesAsked'
  BY <1>1, <1>4 DEF Drain, clientVars
<1>5. ASSUME NEW e \in batch, Handle(e)
      PROVE  FilesAsked'
  <2> QED BY <1>1, <1>5 DEF Handle, Accept, AcceptFails, RecvNothing, Serve, ServeWild,
                            SendWithoutStruct, SendChunk, SendText, SendEnd, Fails, Finish,
                            clientVars
<1>6. CASE EpollWait \/ Asleep
  BY <1>1, <1>6 DEF EpollWait, Asleep, vars, clientVars
<1> QED BY <1>2, <1>3, <1>4, <1>5, <1>6 DEF Next, Server

\* The list is empty, or holds one struct with index 0, when a request comes in.
LEMMA FreshIndex == KeptInv /\ LastAlone => NoReuse
<1> SUFFICES ASSUME KeptInv, LastAlone, NEW e \in batch, Serve(e)
             PROVE  LET list == addRequest(e.fd, asked[Peer(e.fd)]) IN
                    \A i \in 1 .. Len(list) - 1 : list[i].index # list[Len(list)].index
  BY DEF NoReuse
<1> DEFINE list == addRequest(e.fd, asked[Peer(e.fd)])
<1>1. desc[e.fd].client \in Clients /\ told[desc[e.fd].client] = <<>>
  BY ReceiveFacts DEF Serve
<1>2. \A i \in 1 .. Len(headOfArray) : i = 1 /\ headOfArray[i].index = 0
  BY <1>1 DEF LastAlone
<1>3. /\ Len(headOfArray) \in Nat /\ Len(list) = Len(headOfArray) + 1
      /\ \A i \in 1 .. Len(headOfArray) : list[i] = headOfArray[i]
      /\ list[Len(list)].index = Len(headOfArray)
  BY NewIndex
<1> HIDE DEF list
<1>4. ASSUME NEW i \in 1 .. Len(list) - 1
      PROVE  list[i].index # list[Len(list)].index
  <2>1. i \in 1 .. Len(headOfArray) /\ Len(headOfArray) >= 1
    BY <1>3, <1>4
  <2> QED BY <1>2, <1>3, <2>1
<1> QED BY <1>4 DEF list

LEMMA StepAlone ==
  ASSUME Harmless, FewClients, KeptInv, Transfers, FilesAsked, LastAlone, Next
  PROVE  LastAlone'
<1>1. Len(headOfArray) \in Nat
  BY ListFacts
<1>2. ASSUME UNCHANGED <<told, headOfArray>>
      PROVE  LastAlone'
  BY <1>2 DEF LastAlone
<1>3. ASSUME NEW c \in Connections, Connect(c) \/ Ask(c) \/ Leave(c) \/ Reset(c)
      PROVE  LastAlone'
  BY <1>2, <1>3 DEF Connect, Ask, Leave, Reset, serverVars
<1>4. ASSUME NEW f \in Fds, Drain(f)
      PROVE  LastAlone'
  BY <1>2, <1>4 DEF Drain, serverVars
<1>5. CASE EpollWait
  BY <1>2, <1>5 DEF EpollWait, serverVars
<1>6. ASSUME NEW e \in batch, Handle(e)
      PROVE  LastAlone'
  <2>1. CASE \/ Accept(e) \/ AcceptFails(e) \/ RecvNothing(e) \/ ServeWild(e)
             \/ SendWithoutStruct(e) \/ Fails(e)
    BY <1>2, <2>1 DEF Accept, AcceptFails, RecvNothing, ServeWild, SendWithoutStruct, Fails,
                      serverVars
  <2>2. CASE Serve(e)
    <3> DEFINE c == desc[e.fd].client
               n == Len(headOfArray)
    <3>1. NoReuse
      BY FreshIndex
    <3>2. /\ e.fd \in Fds /\ IsSocket(e.fd) /\ interest[e.fd] = "in"
          /\ c \in Clients /\ asked[c] \in [kind : Asks, by : Clients] /\ told[c] = <<>>
      BY <2>2, ReceiveFacts DEF Serve
    <3>3. /\ told' = [told EXCEPT ![c] = Append(@, Response(asked[c]))]
          /\ told = [d \in Connections |-> told[d]]
      BY <2>2, <3>1, FreshServeFacts DEF KeptInv, Types
    <3>4. PICK open \in BOOLEAN :
            /\ open => Sent(asked[c]) \/ asked[c].kind \in Unfinished
            /\ ~open => headOfArray' = headOfArray
            /\ open => Len(headOfArray') = n + 1 /\ headOfArray'[n + 1].index = n
      <4>1. PICK open \in BOOLEAN :
              /\ open /\ ~Sent(asked[c]) => asked[c].kind \in Unfinished
              /\ ~open => headOfArray' = headOfArray
              /\ open => /\ Len(headOfArray') = n + 1
                         /\ headOfArray'[n + 1] =
                              [fd |-> e.fd, request |-> asked[c], index |-> n, allSent |-> FALSE,
                               fileopen |-> IF Sent(asked[c]) THEN LowestFree ELSE NoFile]
        BY <2>2, <3>1, FreshServeFacts
      <4>2. open => headOfArray'[n + 1].index = n
        BY <4>1
      <4> QED BY <4>1, <4>2
    <3> HIDE DEF c, n
    <3>5. told'[c] # <<>> /\ \A d \in Connections \ {c} : told'[d] = told[d]
      <4>1. told'[c] = Append(<<>>, Response(asked[c]))
        BY <3>2, <3>3 DEF Connections
      <4> QED BY <3>3, <4>1
    <3>6. ASSUME NEW d \in Clients, told'[d] = <<>>
          PROVE  d # c /\ told[d] = <<>>
      BY <3>5, <3>6 DEF Connections
    <3>7. ASSUME open, NEW d \in Clients, told'[d] = <<>>,
                 NEW i \in 1 .. Len(headOfArray)
          PROVE  FALSE
      <4> DEFINE b == desc[headOfArray[i].fd].client
      <4>1. b \in Clients /\ b \notin {c, d}
        BY <3>2, <3>6, <3>7, ListFacts
      <4>2. CASE AtMostTwo
        <5>1. Clients = {c, d}
          BY <3>2, <3>6, <3>7, <4>2 DEF AtMostTwo
        <5> QED BY <4>1, <5>1
      <4>3. CASE OneFetches
        <5>1. headOfArray[i].request = asked[b] /\ headOfArray[i].request \in [kind : Asks, by : Clients]
          BY <3>7, ListFacts DEF KeptInv, Filed, Struct
        <5>2. headOfArray[i].request.kind \notin Unfinished /\ asked[c].kind \notin Unfinished
          BY <3>2, <4>3, <5>1 DEF OneFetches
        <5>3. headOfArray[i].request.kind = "file"
          BY <3>7, <5>2 DEF Transfers
        <5>4. asked[b].kind = "file" /\ asked[c].kind = "file"
          BY <3>4, <3>7, <5>1, <5>2, <5>3 DEF Sent
        <5>5. asked[b] # NoRequest /\ asked[c] # NoRequest
          BY <3>2, <5>1, ServerAssumption
        <5> QED BY <3>2, <4>1, <4>3, <5>4, <5>5 DEF FilesAsked, OneFetches
      <4> QED BY <4>2, <4>3 DEF FewClients
    <3>8. ASSUME open, NEW d \in Clients, told'[d] = <<>>,
                 NEW i \in 1 .. Len(headOfArray')
          PROVE  i = 1 /\ headOfArray'[i].index = 0
      <4>1. Len(headOfArray) = 0
        <5>1. Len(headOfArray) >= 1 => 1 \in 1 .. Len(headOfArray)
          BY <1>1
        <5> QED BY <1>1, <3>7, <3>8, <5>1
      <4>2. n = 0
        BY <4>1 DEF n
      <4>3. n + 1 = 1
        BY <4>2
      <4>4. Len(headOfArray') = 1 /\ headOfArray'[1].index = n
        BY <3>4, <3>8, <4>3
      <4> QED BY <3>8, <4>2, <4>4
    <3>9. CASE ~open
      BY <3>4, <3>6, <3>9 DEF LastAlone
    <3> QED BY <3>8, <3>9 DEF LastAlone
  <2>3. CASE SendChunk(e)
    <3>2. headOfArray' = headOfArray
      BY <2>3 DEF SendChunk
    <3>3. ASSUME NEW d \in Clients, told'[d] = <<>>
          PROVE  told[d] = <<>>
      <4> DEFINE c == desc[e.fd].client
      <4>1. told' = [told EXCEPT ![c] = Append(@, desc[headOfArray[Pointer(e.fd)].fileopen].offset + 1)]
        BY <2>3 DEF SendChunk, Source, Peer
      <4>2. c \in Clients /\ told[c] # <<>> /\ Len(told[c]) = desc[headOfArray[Pointer(e.fd)].fileopen].offset + 1
        <5>1. e.fd \in Fds /\ Pointer(e.fd) # 0
          BY <2>3, TakeFacts DEF SendChunk, Transfer, KeptInv, Events
        <5>2. headOfArray[Pointer(e.fd)].fileopen \in Fds
          BY <2>3 DEF SendChunk, HasChunk, Source
        <5> QED BY <5>1, <5>2, PointerFacts
      <4> HIDE DEF c
      <4>3. InOrder(told[c]) /\ told = [b \in Connections |-> told[b]]
        BY <4>2 DEF KeptInv, Types, Connections
      <4>4. told'[c] = Append(told[c], Len(told[c]))
        BY <4>1, <4>2, <4>3 DEF Connections
      <4>5. told'[c] # <<>>
        BY <4>2, <4>3, <4>4, NextTold
      <4> QED BY <3>3, <4>1, <4>3, <4>5 DEF Connections
    <3> QED BY <3>2, <3>3 DEF LastAlone
  <2>4. CASE SendEnd(e)
    <3>1. told' = told /\ Len(headOfArray') = Len(headOfArray)
      BY <2>4, SendEndFacts
    <3>2. \A j \in 1 .. Len(headOfArray) : headOfArray'[j].index = headOfArray[j].index
      <4>1. PICK k \in 1 .. Len(headOfArray) : \A j \in 1 .. Len(headOfArray) :
              headOfArray'[j] = IF j = k THEN [headOfArray[j] EXCEPT !.allSent = TRUE]
                                ELSE headOfArray[j]
        BY <2>4, SendEndFacts
      <4> QED BY <4>1, ListFacts DEF Struct
    <3> QED BY <3>1, <3>2 DEF LastAlone
  <2>5. CASE Finish(e)
    <3> DEFINE i == Pointer(e.fd)
    <3>1. /\ i \in 1 .. Len(headOfArray) /\ told' = told
          /\ Len(headOfArray') = Len(headOfArray) - 1
      BY <2>5, FinishFacts DEF Finish
    <3>2. ASSUME NEW c \in Clients, told'[c] = <<>>
          PROVE  Len(headOfArray') = 0
      <4>1. \A j \in 1 .. Len(headOfArray) : j = 1
        BY <3>1, <3>2 DEF LastAlone
      <4>2. Len(headOfArray) \in 1 .. Len(headOfArray)
        BY <1>1, <3>1
      <4>3. Len(headOfArray) = 1
        BY <4>1, <4>2
      <4> QED BY <3>1, <4>3
    <3> QED BY <3>2 DEF LastAlone
  <2>6. CASE SendText(e)
    BY <2>6, NoText
  <2> QED BY <1>6, <2>1, <2>2, <2>3, <2>4, <2>5, <2>6 DEF Handle
<1>7. CASE Asleep
  BY <1>2, <1>7 DEF Asleep, vars, serverVars
<1> QED BY <1>3, <1>4, <1>5, <1>6, <1>7 DEF Next, Server

\* Two clients never make the server give an index twice (hw4.c:66, 87), nor do
\* any number of which one fetches files and none is cut, whatever the probes,
\* descriptors and chunks, and whoever is cut off.
THEOREM FewClients_IndicesFresh ==
  ASSUME Harmless, FewClients
  PROVE  Spec => IndicesFresh
<1> DEFINE I == ServerInv /\ FilesAsked /\ LastAlone
<1>1. Init => I
  BY InitKept DEF Init, ServerInv, Transfers, Apart, LastAlone, FilesAsked, Connections
<1>2. I /\ [Next]_vars => I'
  <2>1. ASSUME I, UNCHANGED vars
        PROVE  I'
    <3>1. ServerInv'
      BY <2>1, StutterKept, OwnFrame DEF ServerInv, vars, kernelVars, serverVars
    <3> QED BY <2>1, <3>1 DEF LastAlone, FilesAsked, vars, serverVars, clientVars
  <2>2. ASSUME I, Next
        PROVE  I'
    <3>1. NoReuse
      BY <2>2, FreshIndex DEF ServerInv
    <3> QED BY <2>2, <3>1, StepKept, StepOwn, StepAlone, StepFilesAsked DEF ServerInv
  <2> QED BY <2>1, <2>2
<1>3. I => NoReuse
  BY FreshIndex DEF ServerInv
<1> HIDE DEF I
<1> QED BY <1>1, <1>2, <1>3, PTL DEF Spec, IndicesFresh

\* With few clients each struct is found by its index (hw4.c:190, 640) in every
\* run, and no index is shared.
THEOREM FewClients_ServerInv ==
  ASSUME Harmless, FewClients
  PROVE  Spec => []ServerInv
BY FewClients_IndicesFresh, Careful_ServerInv, PTL

\* Few clients are always told what WebService promises them, as long as an
\* uninitialised fd (hw4.c:250, 503) is no descriptor's number.
THEOREM FewClients_AnswersAsPromised ==
  ASSUME Harmless, FewClients
  PROVE  Spec => AnswersAsPromised
BY FewClients_IndicesFresh, Careful_AnswersAsPromised, PTL

-----------------------------------------------------------------------------
(* What the loop keeps whatever an uninitialised fd holds.                 *)

Marked(list) ==
  \A i \in 1 .. Len(list) : list[i].allSent =>
    \A j \in 1 .. i - 1 : list[j].index # list[i].index

OfFd(list, f) == \E i \in 1 .. Len(list) : list[i].fd = f

\* A marked struct taken out by its index is that struct and no other.
LEMMA RemoveMarked ==
  ASSUME NEW s \in Seq(Struct), Marked(s), NEW i \in 1 .. Len(s), s[i].allSent
  PROVE  LET t == removeRequest(s, s[i].index) IN
         /\ t \in Seq(Struct) /\ Marked(t)
         /\ \A g : g # s[i].fd /\ OfFd(s, g) => OfFd(t, g)
<1> DEFINE t == RemoveAt(s, i)
<1>1. Len(s) \in Nat /\ \A j \in 1 .. i - 1 : s[j].index # s[i].index
  BY LenProperties DEF Marked
<1>2. removeRequest(s, s[i].index) = t
  BY <1>1, FirstIndexFacts
<1>3. /\ t \in Seq(Struct) /\ Len(t) = Len(s) - 1
      /\ \A j \in 1 .. Len(s) - 1 : t[j] = IF j < i THEN s[j] ELSE s[j + 1]
  BY RemoveAtFacts
<1> HIDE DEF t
<1>4. Marked(t)
  <2> DEFINE at(n) == IF n < i THEN n ELSE n + 1
  <2>1. \A j \in 1 .. Len(t) : at(j) \in 1 .. Len(s) /\ t[j] = s[at(j)]
    BY <1>1, <1>3
  <2>2. \A j \in 1 .. Len(t) : \A k \in 1 .. j - 1 : k \in 1 .. Len(t) /\ at(k) \in 1 .. at(j) - 1
    BY <1>1, <1>3
  <2> HIDE DEF at
  <2> SUFFICES ASSUME NEW j \in 1 .. Len(t), t[j].allSent, NEW k \in 1 .. j - 1
               PROVE  t[k].index # t[j].index
    BY DEF Marked
  <2>3. /\ at(j) \in 1 .. Len(s) /\ s[at(j)].allSent /\ t[j] = s[at(j)]
        /\ at(k) \in 1 .. at(j) - 1 /\ t[k] = s[at(k)]
    BY <2>1, <2>2
  <2> QED BY <2>3 DEF Marked
<1>5. ASSUME NEW g, g # s[i].fd, OfFd(s, g)
      PROVE  OfFd(t, g)
  <2>1. PICK j \in 1 .. Len(s) : s[j].fd = g
    BY <1>5 DEF OfFd
  <2>2. j # i
    BY <1>5, <2>1
  <2>3. CASE j < i
    <3>1. j \in 1 .. Len(t) /\ t[j] = s[j]
      BY <1>1, <1>3, <2>3
    <3> QED BY <2>1, <3>1 DEF OfFd
  <2>4. CASE j > i
    <3>1. j - 1 \in 1 .. Len(t) /\ t[j - 1] = s[j]
      BY <1>1, <1>3, <2>4
    <3> QED BY <2>1, <3>1 DEF OfFd
  <2> QED BY <1>1, <2>2, <2>3, <2>4
<1> QED BY <1>2, <1>3, <1>4, <1>5

\* The struct whose mark is changed is the first with its index.
LEMMA MarkFirst ==
  ASSUME NEW s, Len(s) \in Nat, Marked(s), NEW k \in 1 .. Len(s),
         \A j \in 1 .. k - 1 : s[j].index # s[k].index,
         NEW t, Len(t) = Len(s), \A j \in 1 .. Len(s) : t[j].index = s[j].index,
         \A j \in 1 .. Len(s) : j # k => t[j].allSent = s[j].allSent
  PROVE  Marked(t)
<1> SUFFICES ASSUME NEW j \in 1 .. Len(s), t[j].allSent, NEW m \in 1 .. j - 1
             PROVE  s[m].index # s[j].index
  BY DEF Marked
<1> QED BY DEF Marked

\* The list, its first struct of f answered, what is left of it, and whether the
\* struct of f is gone.
Answered(list, f, out) ==
  LET p == WithFd(list, f)
      r == WithIndex(list, list[p].index) IN
  [[list EXCEPT ![r].allSent = ~out.open] EXCEPT ![p].fileopen = out.file]

AllSaid(list, f, out) == Answered(list, f, out)[WithFd(list, f)].allSent

Remaining(list, f, out) ==
  IF AllSaid(list, f, out)
  THEN removeRequest(Answered(list, f, out), list[WithFd(list, f)].index)
  ELSE Answered(list, f, out)

\* What handle_request leaves of the list: of a descriptor that stays open there
\* is a struct, and one goes only with its descriptor.
LEMMA AnsweredList ==
  ASSUME NEW s \in Seq(Struct), Marked(s), NEW y \in Struct, ~y.allSent,
         NEW f, y.fd = f, NEW out, out.open \in BOOLEAN, out.file \in Fds \cup {NoFile}
  PROVE  /\ AllSaid(Append(s, y), f, out) \in BOOLEAN
         /\ Remaining(Append(s, y), f, out) \in Seq(Struct)
         /\ Marked(Remaining(Append(s, y), f, out))
         /\ \A g : g # f /\ OfFd(s, g) => OfFd(Remaining(Append(s, y), f, out), g)
         /\ ~AllSaid(Append(s, y), f, out) => OfFd(Remaining(Append(s, y), f, out), f)
<1> DEFINE list  == Append(s, y)
           p     == WithFd(list, f)
           r     == WithIndex(list, list[p].index)
           mark  == ~out.open
           first == [list EXCEPT ![r].allSent = mark]
           after == [first EXCEPT ![p].fileopen = out.file]
           done  == after[p].allSent
           new   == IF done THEN removeRequest(after, list[p].index) ELSE after
<1>0. done = AllSaid(Append(s, y), f, out) /\ new = Remaining(Append(s, y), f, out)
  BY DEF AllSaid, Remaining, Answered
<1>1. Len(s) \in Nat
  BY LenProperties
<1>2. /\ list \in Seq(Struct) /\ Len(list) = Len(s) + 1 /\ DOMAIN list = 1 .. Len(list)
      /\ \A i \in 1 .. Len(s) : list[i] = s[i]
      /\ list[Len(s) + 1] = y
  BY <1>1, AppendProperties, LenProperties
<1> HIDE DEF list
<1>3. p \in 1 .. Len(list) /\ list[p].fd = f
  <2>1. Len(s) + 1 \in 1 .. Len(list) /\ Len(list) \in Nat
    BY <1>1, <1>2
  <2>2. WithFd(list, f) # 0
    BY <1>2, <2>1, WithFdFacts
  <2> QED BY <2>1, <2>2, WithFdFacts
<1> HIDE DEF p
<1>4. Marked(list)
  <2> SUFFICES ASSUME NEW i \in 1 .. Len(list), list[i].allSent, NEW j \in 1 .. i - 1
               PROVE  list[j].index # list[i].index
    BY DEF Marked
  <2>1. i \in 1 .. Len(s)
    BY <1>1, <1>2
  <2>2. j \in 1 .. Len(s)
    BY <1>1, <2>1
  <2> QED BY <1>2, <2>1, <2>2 DEF Marked
<1>mark. mark \in BOOLEAN
  <2>1. CASE out.open = TRUE
    BY <2>1
  <2>2. CASE out.open = FALSE
    BY <2>2
  <2> QED BY <2>1, <2>2
<1> HIDE DEF mark
<1>5. /\ r \in 1 .. Len(list)
      /\ first \in Seq(Struct) /\ Marked(first) /\ Len(first) = Len(list)
      /\ \A j \in 1 .. Len(list) : first[j].fd = list[j].fd /\ first[j].index = list[j].index
  <2> DEFINE z == [list[r] EXCEPT !.allSent = mark]
  <2>1. first = [list EXCEPT ![r] = z] /\ Len(list) \in Nat
    BY <1>1, <1>2
  <2>2. /\ r \in 1 .. Len(list)
        /\ \A j \in 1 .. Len(list) : list[j].index = list[r].index => r <= j
    BY <1>3, <2>1, WithIndexFacts
  <2> HIDE DEF r, first
  <2>3. list[r] \in Struct
    BY <1>2, <2>2, ElementOfSeq
  <2>4. z \in Struct /\ z.fd = list[r].fd /\ z.index = list[r].index
    BY <1>mark, <2>3 DEF Struct
  <2> HIDE DEF z
  <2>5. /\ first \in Seq(Struct) /\ Len(first) = Len(list)
        /\ \A j \in 1 .. Len(list) : first[j] = IF j = r THEN z ELSE list[j]
    BY <1>2, <2>1, <2>2, <2>4, ExceptSeq
  <2>6. \A j \in 1 .. r - 1 : list[j].index # list[r].index
    BY <2>1, <2>2
  <2>7. Marked(first)
    <3>1. /\ Len(list) \in Nat /\ Len(first) = Len(list)
          /\ \A j \in 1 .. Len(list) : first[j].index = list[j].index
          /\ \A j \in 1 .. Len(list) : j # r => first[j].allSent = list[j].allSent
      BY <2>1, <2>4, <2>5
    <3> QED BY <1>4, <2>2, <2>6, <3>1, MarkFirst
  <2> QED BY <2>2, <2>4, <2>5, <2>7
<1> HIDE DEF r, first
<1> DEFINE x == [first[p] EXCEPT !.fileopen = out.file]
<1>6. /\ first[p] \in Struct /\ x \in Struct
      /\ x.fd = first[p].fd /\ x.index = first[p].index /\ x.allSent = first[p].allSent
  <2>1. first[p] \in Struct
    BY <1>3, <1>5, ElementOfSeq
  <2> QED BY <2>1 DEF Struct
<1>7. after = [first EXCEPT ![p] = x]
  OBVIOUS
<1> HIDE DEF after, x
<1>8. /\ after \in Seq(Struct) /\ Len(after) = Len(list)
      /\ \A j \in 1 .. Len(list) : after[j] = IF j = p THEN x ELSE first[j]
  BY <1>3, <1>5, <1>6, <1>7, ExceptSeq
<1>9. \A j \in 1 .. Len(list) :
        /\ after[j].fd = list[j].fd /\ after[j].index = list[j].index
        /\ after[j].allSent = first[j].allSent
  BY <1>5, <1>6, <1>8
<1>10. Len(list) \in Nat /\ \A i \in 1 .. Len(list) : \A j \in 1 .. i - 1 : j \in 1 .. Len(list)
  BY <1>1, <1>2
<1>11. Marked(after)
  <2> SUFFICES ASSUME NEW i \in 1 .. Len(list), after[i].allSent, NEW j \in 1 .. i - 1
               PROVE  after[j].index # after[i].index
    BY <1>8 DEF Marked
  <2>1. first[i].allSent /\ first[j].index # first[i].index
    BY <1>5, <1>9 DEF Marked
  <2> QED BY <1>5, <1>9, <1>10, <2>1
<1>12. \A g : OfFd(s, g) => OfFd(after, g)
  <2> SUFFICES ASSUME NEW g, OfFd(s, g) PROVE OfFd(after, g)
    OBVIOUS
  <2>1. PICK i \in 1 .. Len(s) : s[i].fd = g
    BY DEF OfFd
  <2>2. i \in 1 .. Len(list)
    BY <1>1, <1>2
  <2> QED BY <1>2, <1>8, <1>9, <2>1, <2>2 DEF OfFd
<1>13. OfFd(after, f) /\ after[p].fd = f /\ after[p].index = list[p].index /\ done \in BOOLEAN
  <2>1. after[p].allSent \in BOOLEAN
    BY <1>3, <1>6, <1>8 DEF Struct
  <2> QED BY <1>3, <1>8, <1>9, <2>1 DEF OfFd
<1>14. CASE done
  <2>1. new = removeRequest(after, after[p].index)
    BY <1>13, <1>14
  <2> HIDE DEF new
  <2>2. /\ new \in Seq(Struct) /\ Marked(new)
        /\ \A g : g # after[p].fd /\ OfFd(after, g) => OfFd(new, g)
    BY <1>3, <1>8, <1>11, <1>14, <2>1, RemoveMarked
  <2>3. /\ new \in Seq(Struct) /\ Marked(new)
        /\ \A g : g # f /\ OfFd(s, g) => OfFd(new, g)
    BY <1>12, <1>13, <2>2
  <2> HIDE DEF done
  <2> QED BY <1>0, <1>13, <1>14, <2>3
<1>15. CASE ~done
  <2>1. new = after
    BY <1>15
  <2> HIDE DEF new
  <2>2. /\ new \in Seq(Struct) /\ Marked(new) /\ OfFd(new, f)
        /\ \A g : g # f /\ OfFd(s, g) => OfFd(new, g)
    BY <1>8, <1>11, <1>12, <1>13, <2>1
  <2> HIDE DEF done
  <2> QED BY <1>0, <1>13, <1>15, <2>2
<1> QED BY <1>14, <1>15

LEMMA LoopList ==
  ASSUME LoopInv
  PROVE  /\ headOfArray \in Seq(Struct) /\ Len(headOfArray) \in Nat
         /\ \A i \in 1 .. Len(headOfArray) : headOfArray[i] \in Struct
         /\ FirstMarked <=> Marked(headOfArray)
         /\ \A f : HasStruct(f) <=> OfFd(headOfArray, f)
         /\ \A f : Pointer(f) = 0 => ~HasStruct(f)
         /\ \A f : Pointer(f) # 0 => /\ Pointer(f) \in 1 .. Len(headOfArray)
                                     /\ headOfArray[Pointer(f)].fd = f /\ HasStruct(f)
<1>1. headOfArray \in Seq(Struct)
  BY DEF LoopInv, TypeOK
<1>2. Len(headOfArray) \in Nat /\ \A i \in 1 .. Len(headOfArray) : headOfArray[i] \in Struct
  BY <1>1, LenProperties, ElementOfSeq
<1>3. FirstMarked <=> Marked(headOfArray)
  BY DEF FirstMarked, Marked
<1>4. \A f : HasStruct(f) <=> OfFd(headOfArray, f)
  BY DEF HasStruct, OfFd
<1>5. \A f : /\ Pointer(f) = 0 => \A i \in 1 .. Len(headOfArray) : headOfArray[i].fd # f
             /\ Pointer(f) # 0 => /\ Pointer(f) \in 1 .. Len(headOfArray)
                                  /\ headOfArray[Pointer(f)].fd = f
  BY <1>2, WithFdFacts DEF Pointer
<1> QED BY <1>1, <1>2, <1>3, <1>4, <1>5 DEF HasStruct

\* What a connection is to the loop: a socket, watched, that nobody else has.
LEMMA LoopSocket ==
  ASSUME LoopInv, NEW f \in Fds, IsSocket(f)
  PROVE  /\ Peer(f) \in Connections /\ interest[f] \in {"in", "out"}
         /\ inbox[Peer(f)] # "new"
         /\ \A g \in Fds : g # f => Peer(g) # Peer(f)
         /\ \A i \in 1 .. Len(backlog) : backlog[i] # Peer(f)
<1>1. Peer(f) \in Connections /\ interest[f] \in {"in", "out"}
  BY DEF LoopInv, TypeOK, Descriptors, IsSocket, Peer
<1>2. /\ inbox[Peer(f)] # "new"
      /\ \A g \in Fds : g # f => Peer(g) # Peer(f)
      /\ \A i \in 1 .. Len(backlog) : backlog[i] # Peer(f)
  BY DEF LoopInv, Owners, Descriptors, Peer
<1> QED BY <1>1, <1>2

LEMMA LoopTake ==
  ASSUME LoopInv, NEW e \in batch, Take(e)
  PROVE  /\ down = "no" /\ batch' \subseteq batch
         /\ \A d \in batch' : d.fd # e.fd
         /\ e.fd # ListenFd => e.fd \in Fds
         /\ e.events # "in" => e.fd \in Fds
         /\ e.events \in {"in", "out", "hup"}
<1>1. e.fd \in Fds \cup {ListenFd} /\ e.events \in {"in", "out", "hup"}
  BY DEF LoopInv, TypeOK
<1>2. e.fd = ListenFd => e.events = "in"
  BY DEF LoopInv, Found
<1>3. down = "no" /\ batch' \subseteq batch
  BY DEF Take
<1>4. \A d \in batch' : d.fd # e.fd
  BY DEF Take, LoopInv, Found
<1> QED BY <1>1, <1>2, <1>3, <1>4

\* What the server's step for one descriptor may do and keep LoopInv: close
\* descriptors, tell the peer of this one anything, and take only structs of
\* this one out of the list, or add some.
LEMMA LoopFrame ==
  ASSUME LoopInv, TypeOK', Texts', NEW e \in batch, Take(e), e.fd \in Fds,
         UNCHANGED <<asked, reset, backlog, down>>,
         \A c \in Connections : /\ inbox'[c] = "new" <=> inbox[c] = "new"
                                /\ inbox'[c] = "request" => inbox[c] = "request",
         \A c \in Connections : c # Peer(e.fd) \/ ~IsSocket(e.fd) => told'[c] = told[c],
         \A g \in Fds :
           IF IsSocket(g)'
           THEN /\ IsSocket(g) /\ desc'[g].client = desc[g].client
                /\ interest'[g] # "none"
                /\ g # e.fd => interest'[g] = interest[g]
           ELSE desc'[g].client = NoClient /\ interest'[g] = "none",
         \A g \in Fds : g # e.fd /\ HasStruct(g) => HasStruct(g)',
         IsSocket(e.fd)' /\ (interest'[e.fd] = "out" \/ told'[Peer(e.fd)] # <<>>)
           => HasStruct(e.fd)',
         FirstMarked'
  PROVE  LoopInv'
<1> DEFINE f == e.fd
<1>1. Descriptors'
  <2> SUFFICES ASSUME NEW g \in Fds
               PROVE  /\ IsSocket(g)' <=> interest'[g] # "none"
                      /\ IsSocket(g)' <=> desc'[g].client # NoClient
    BY DEF Descriptors, IsSocket
  <2>1. IsSocket(g) => desc[g].client # NoClient
    BY DEF LoopInv, Descriptors
  <2> QED BY <2>1
<1>2. /\ \A g \in Fds : desc'[g].client # NoClient => desc'[g].client = desc[g].client /\ IsSocket(g)
      /\ NoClient \notin Connections
  BY ServerAssumption DEF Connections
<1>3. \A i \in 1 .. Len(backlog) : backlog[i] \in Connections /\ told'[backlog[i]] = told[backlog[i]]
  <2> SUFFICES ASSUME NEW i \in 1 .. Len(backlog)
               PROVE  backlog[i] \in Connections /\ told'[backlog[i]] = told[backlog[i]]
    OBVIOUS
  <2>1. backlog[i] \in Connections
    BY ElementOfSeq DEF LoopInv, TypeOK
  <2>2. IsSocket(f) => Peer(f) # backlog[i]
    BY LoopSocket
  <2> QED BY <2>1, <2>2
<1>4. Owners'
  <2>1. \A g, h \in Fds : IsSocket(g)' /\ Peer(g)' = Peer(h)' => g = h
    <3> SUFFICES ASSUME NEW g \in Fds, NEW h \in Fds, IsSocket(g)', Peer(g)' = Peer(h)'
                 PROVE  g = h
      OBVIOUS
    <3>1. IsSocket(g) /\ Peer(g)' = Peer(g) /\ Peer(g) \in Connections
      BY LoopSocket DEF Peer
    <3>2. Peer(h)' \in Connections
      BY <3>1
    <3>3. Peer(h)' = Peer(h) /\ IsSocket(h)
      <4>1. desc'[h].client \in Connections
        BY <3>2 DEF Peer
      <4>2. desc'[h].client = desc[h].client /\ IsSocket(h)
        BY <1>2, <4>1
      <4> QED BY <4>2 DEF Peer
    <3>4. Peer(g) = Peer(h)
      BY <3>1, <3>3
    <3>5. \A k \in Fds : k # g => Peer(k) # Peer(g)
      BY <3>1, LoopSocket
    <3> QED BY <3>4, <3>5
  <2>2. \A i \in 1 .. Len(backlog) :
          /\ \A g \in Fds : Peer(g)' # backlog[i]
          /\ inbox'[backlog[i]] # "new" /\ told'[backlog[i]] = <<>>
    BY <1>2, <1>3 DEF LoopInv, Owners, Peer
  <2>3. \A g \in Fds : IsSocket(g)' => inbox'[Peer(g)'] # "new"
    BY LoopSocket DEF Peer
  <2>4. \A c \in Connections :
          /\ inbox'[c] = "new" => told'[c] = <<>> /\ c \notin reset
          /\ inbox'[c] = "request" => asked[c] # NoRequest
          /\ asked[c] # NoRequest => c \in Clients
    <3>1. IsSocket(f) => inbox[Peer(f)] # "new"
      BY LoopSocket
    <3> QED BY <3>1 DEF LoopInv, Owners
  <2>5. \A i, j \in 1 .. Len(backlog) : backlog[i] = backlog[j] => i = j
    BY DEF LoopInv, Owners
  <2> QED BY <2>1, <2>2, <2>3, <2>4, <2>5 DEF Owners
<1>5. Listed'
  <2> SUFFICES ASSUME NEW g \in Fds, IsSocket(g)',
                      interest'[g] = "out" \/ told'[Peer(g)'] # <<>>
               PROVE  HasStruct(g)'
    BY DEF Listed
  <2>1. IsSocket(g) /\ Peer(g)' = Peer(g) /\ Peer(g) \in Connections
    BY LoopSocket DEF Peer
  <2>2. CASE g = f
    BY <2>1, <2>2
  <2>3. CASE g # f
    <3>1. interest'[g] = interest[g]
      BY <2>3
    <3>2. IsSocket(f) => Peer(f) # Peer(g)
      BY <2>1, <2>3, LoopSocket
    <3>3. told'[Peer(g)] = told[Peer(g)]
      BY <2>1, <3>2
    <3>4. HasStruct(g)
      BY <2>1, <3>1, <3>3 DEF LoopInv, Listed
    <3> QED BY <2>3, <3>4
  <2> QED BY <2>2, <2>3
<1>6. Found'
  <2>1. batch' \subseteq batch /\ \A d \in batch' : d.fd # f
    BY LoopTake
  <2>2. ASSUME NEW d \in batch'
        PROVE  /\ d.fd = ListenFd => d.events = "in" /\ backlog' # <<>>
               /\ d.events = "out" => HasStruct(d.fd)'
               /\ d.events = "hup" =>
                    \/ HasStruct(d.fd)'
                    \/ \E c \in reset' :
                         /\ told'[c] = <<>>
                         /\ \A g \in Fds \ {d.fd} : Peer(g)' # c
                         /\ \A i \in 1 .. Len(backlog') : backlog'[i] # c
    <3>1. /\ d \in batch /\ d.fd # f
          /\ d.fd = ListenFd => d.events = "in" /\ backlog # <<>>
      BY <2>1 DEF LoopInv, Found
    <3>2. d.fd \in Fds /\ HasStruct(d.fd) => HasStruct(d.fd)'
      BY <3>1
    <3>3. d.fd \in Fds \cup {ListenFd}
      BY <3>1 DEF LoopInv, TypeOK
    <3>4. d.events = "out" => HasStruct(d.fd)
      BY <3>1 DEF LoopInv, Found
    <3>5. ASSUME d.events = "hup", ~HasStruct(d.fd)
          PROVE  \E c \in reset' : /\ told'[c] = <<>>
                                   /\ \A g \in Fds \ {d.fd} : Peer(g)' # c
                                   /\ \A i \in 1 .. Len(backlog') : backlog'[i] # c
      <4>1. PICK c \in reset : /\ told[c] = <<>>
                               /\ \A g \in Fds \ {d.fd} : Peer(g) # c
                               /\ \A i \in 1 .. Len(backlog) : backlog[i] # c
        BY <3>1, <3>5 DEF LoopInv, Found
      <4>2. c \in Connections
        BY ServerAssumption DEF LoopInv, TypeOK, Connections
      <4>3. told'[c] = <<>>
        BY <3>1, <4>1, <4>2
      <4>4. \A g \in Fds \ {d.fd} : Peer(g)' # c
        BY <1>2, <4>1, <4>2 DEF Peer
      <4> QED BY <4>1, <4>3, <4>4
    <3> QED BY <3>1, <3>2, <3>3, <3>4, <3>5
  <2>3. \A e1, e2 \in batch' : e1.fd = e2.fd => e1 = e2
    BY <2>1 DEF LoopInv, Found
  <2> QED BY <2>2, <2>3 DEF Found
<1>7. NeverLost'
  BY LoopTake DEF NeverLost
<1> QED BY <1>1, <1>4, <1>5, <1>6, <1>7 DEF LoopInv

\* The steps that leave the connections and the list alone.
LEMMA QuietFrame ==
  ASSUME LoopInv, batch' \subseteq batch, reset \subseteq reset',
         UNCHANGED <<told, backlog, desc, interest, headOfArray>>,
         \A c \in Connections :
           /\ inbox'[c] = "new" => inbox[c] = "new" /\ c \notin reset'
           /\ inbox'[c] = "request" => asked'[c] # NoRequest
           /\ asked'[c] # NoRequest => c \in Clients
  PROVE  Descriptors' /\ Owners' /\ Listed' /\ FirstMarked' /\ Found'
<1>1. Descriptors' /\ Listed' /\ FirstMarked'
  BY DEF LoopInv, Descriptors, Listed, FirstMarked, HasStruct, IsSocket, Peer
<1>2. Owners'
  <2>1. \A i \in 1 .. Len(backlog) : backlog[i] \in Connections /\ inbox'[backlog[i]] # "new"
    BY ElementOfSeq DEF LoopInv, TypeOK, Owners
  <2>2. \A f \in Fds : IsSocket(f) => inbox'[Peer(f)] # "new"
    BY LoopSocket
  <2> QED BY <2>1, <2>2 DEF LoopInv, Owners, IsSocket, Peer
<1>3. Found'
  BY DEF LoopInv, Found, HasStruct, Peer
<1> QED BY <1>1, <1>2, <1>3

LEMMA ConnectLoop ==
  ASSUME LoopInv, NEW c \in Connections, Connect(c)
  PROVE  LoopInv'
<1> USE DEF Connect, kernelVars, serverVars
<1>1. /\ Len(backlog) \in Nat /\ backlog' \in Seq(Connections)
      /\ Len(backlog') = Len(backlog) + 1 /\ backlog'[Len(backlog) + 1] = c
      /\ backlog' # <<>>
      /\ \A i \in 1 .. Len(backlog) : backlog'[i] = backlog[i] /\ backlog[i] \in Connections
  <2>1. backlog \in Seq(Connections)
    BY DEF LoopInv, TypeOK
  <2>2. Len(backlog) \in Nat /\ \A i \in 1 .. Len(backlog) : backlog[i] \in Connections
    BY <2>1, LenProperties, ElementOfSeq
  <2> QED BY <2>1, <2>2, AppendProperties
<1>2. /\ \A i \in 1 .. Len(backlog) : backlog[i] # c
      /\ \A f \in Fds : Peer(f) # c
      /\ told[c] = <<>> /\ inbox'[c] # "new" /\ c \notin reset
      /\ \A d \in Connections \ {c} : inbox'[d] = inbox[d]
  <2>1. \A i \in 1 .. Len(backlog) : backlog[i] # c
    BY DEF LoopInv, Owners
  <2>2. \A f \in Fds : Peer(f) # c
    BY LoopSocket, ServerAssumption DEF LoopInv, Descriptors, Peer, Connections
  <2>3. told[c] = <<>> /\ c \notin reset
    BY DEF LoopInv, Owners
  <2>4. inbox'[c] # "new" /\ \A d \in Connections \ {c} : inbox'[d] = inbox[d]
    BY DEF LoopInv, TypeOK
  <2> QED BY <2>1, <2>2, <2>3, <2>4
<1>3. TypeOK' /\ Texts'
  BY <1>1 DEF LoopInv, TypeOK, Texts
<1>4. Descriptors' /\ Listed' /\ FirstMarked'
  BY DEF LoopInv, Descriptors, Listed, FirstMarked, HasStruct, IsSocket, Peer
<1>5. Owners'
  <2>1. \A f \in Fds : IsSocket(f) => inbox'[Peer(f)] # "new"
    BY <1>2, LoopSocket
  <2>2. \A i, j \in 1 .. Len(backlog') : backlog'[i] = backlog'[j] => i = j
    BY <1>1, <1>2 DEF LoopInv, Owners
  <2>3. \A i \in 1 .. Len(backlog') :
          /\ \A f \in Fds : Peer(f) # backlog'[i]
          /\ inbox'[backlog'[i]] # "new" /\ told[backlog'[i]] = <<>>
    BY <1>1, <1>2 DEF LoopInv, Owners
  <2>4. \A d \in Connections :
          /\ inbox'[d] = "new" => told[d] = <<>> /\ d \notin reset
          /\ inbox'[d] = "request" => asked[d] # NoRequest
          /\ asked[d] # NoRequest => d \in Clients
    BY <1>2 DEF LoopInv, Owners, TypeOK
  <2>5. \A f, g \in Fds : IsSocket(f) /\ Peer(f) = Peer(g) => f = g
    BY DEF LoopInv, Owners
  <2> QED BY <2>1, <2>2, <2>3, <2>4, <2>5 DEF Owners, IsSocket, Peer
<1>6. Found'
  BY <1>1, <1>2 DEF LoopInv, Found, HasStruct, Peer
<1>7. NeverLost'
  BY DEF LoopInv, NeverLost
<1> QED BY <1>3, <1>4, <1>5, <1>6, <1>7 DEF LoopInv

LEMMA ClientLoop ==
  ASSUME LoopInv, NEW c \in Connections, Ask(c) \/ Leave(c) \/ Reset(c)
  PROVE  LoopInv'
<1> USE DEF kernelVars, serverVars
<1>1. /\ UNCHANGED <<told, closed, backlog, kernelVars, batch, serverVars, down>>
      /\ reset \subseteq reset'
  BY DEF Ask, Leave, Reset
<1>2. /\ TypeOK' /\ Texts'
      /\ \A d \in Connections :
           /\ inbox'[d] = "new" => inbox[d] = "new" /\ d \notin reset'
           /\ inbox'[d] = "request" => asked'[d] # NoRequest
           /\ asked'[d] # NoRequest => d \in Clients
  <2>1. CASE Ask(c)
    <3>1. PICK k \in Asks : asked' = [asked EXCEPT ![c] = [kind |-> k, by |-> c]]
      BY <2>1 DEF Ask
    <3>2. c \in Clients /\ [kind |-> k, by |-> c] # NoRequest
      BY <2>1, ServerAssumption DEF Ask
    <3> QED BY <2>1, <3>1, <3>2 DEF Ask, LoopInv, TypeOK, Texts, Owners
  <2>2. CASE Leave(c)
    BY <2>2 DEF Leave, LoopInv, TypeOK, Texts, Owners
  <2>3. CASE Reset(c)
    BY <2>3 DEF Reset, LoopInv, TypeOK, Texts, Owners
  <2> QED BY <2>1, <2>2, <2>3
<1>3. NeverLost'
  BY <1>1 DEF LoopInv, NeverLost
<1> QED BY <1>1, <1>2, <1>3, QuietFrame DEF LoopInv

LEMMA QuietLoop ==
  ASSUME LoopInv, UNCHANGED vars \/ \E f \in Fds : Drain(f)
  PROVE  LoopInv'
<1> USE DEF vars, clientVars, kernelVars, serverVars, Drain
<1>1. TypeOK' /\ Texts'
  BY DEF LoopInv, TypeOK, Texts
<1>2. NeverLost'
  BY DEF LoopInv, NeverLost
<1>3. Descriptors' /\ Owners' /\ Listed' /\ FirstMarked' /\ Found'
  BY QuietFrame DEF LoopInv, Owners
<1> QED BY <1>1, <1>2, <1>3 DEF LoopInv

\* The server goes down, or does nothing.  A lookup that finds no struct is that
\* of a connection reset before it asked.
LEMMA DownLoop ==
  ASSUME LoopInv, NEW e \in batch,
         \/ AcceptFails(e) \/ RecvNothing(e) \/ ServeWild(e) \/ SendWithoutStruct(e) \/ Fails(e)
  PROVE  LoopInv'
<1> USE DEF clientVars, kernelVars, serverVars
<1>1. /\ UNCHANGED <<clientVars, told, closed, kernelVars, serverVars>> /\ Take(e)
      /\ down' \in {"no", "exit", "segv", "wild"}
      /\ down' = "segv" => SendWithoutStruct(e)
  BY DEF AcceptFails, RecvNothing, ServeWild, Receives, SendWithoutStruct, Fails, Transfer,
         Finished, Take
<1>2. batch' \subseteq batch
  BY <1>1 DEF Take
<1>3. TypeOK' /\ Texts'
  BY <1>1, <1>2 DEF LoopInv, TypeOK, Texts
<1>4. NeverLost'
  <2> SUFFICES ASSUME SendWithoutStruct(e) PROVE \E c \in reset : told[c] = <<>>
    BY <1>1 DEF NeverLost
  <2>1. e.events \in {"out", "hup"} /\ ~HasStruct(e.fd)
    BY LoopTake, LoopList DEF SendWithoutStruct
  <2> QED BY <2>1 DEF LoopInv, Found
<1>5. Descriptors' /\ Owners' /\ Listed' /\ FirstMarked' /\ Found'
  BY <1>1, <1>2, QuietFrame DEF LoopInv, Owners
<1> QED BY <1>3, <1>4, <1>5 DEF LoopInv

LEMMA EpollWaitLoop ==
  ASSUME LoopInv, EpollWait
  PROVE  LoopInv'
<1> USE DEF EpollWait, clientVars, kernelVars, serverVars
<1> DEFINE Fits(e) ==
             /\ e \in [fd : Fds \cup {ListenFd}, events : {"in", "out", "hup"}]
             /\ e = Event(e.fd, e.events)
             /\ IF e.fd = ListenFd THEN e.events = "in" /\ backlog # <<>>
                ELSE /\ e.fd \in Fds /\ interest[e.fd] # "none"
                     /\ e.events = "in" => interest[e.fd] = "in" /\ Peer(e.fd) \notin reset
                     /\ e.events = "out" => interest[e.fd] = "out" /\ Peer(e.fd) \notin reset
                     /\ e.events = "hup" => Peer(e.fd) \in reset
<1>1. batch' \subseteq Ready
  BY DEF kSubset
<1>2. ASSUME NEW e \in Ready
      PROVE  Fits(e)
  <2>1. ListenFd \notin Fds
    BY DEF ListenFd, Fds
  <2>2. CASE e = Event(ListenFd, "in") /\ 1 \in 1 .. Len(backlog)
    <3>1. backlog # <<>>
      BY <2>2, EmptySeq
    <3> QED BY <2>2, <3>1 DEF Event
  <2>3. ASSUME NEW f \in Fds, e = Event(f, "in"), interest[f] = "in", desc[f].client \notin reset
        PROVE  Fits(e)
    BY <2>1, <2>3 DEF Event, Peer
  <2>4. ASSUME NEW f \in Fds, e = Event(f, "out"), interest[f] = "out", desc[f].client \notin reset
        PROVE  Fits(e)
    BY <2>1, <2>4 DEF Event, Peer
  <2>5. ASSUME NEW f \in Fds, e = Event(f, "hup"), interest[f] # "none", desc[f].client \in reset
        PROVE  Fits(e)
    BY <2>1, <2>5 DEF Event, Peer
  <2> QED BY <2>2, <2>3, <2>4, <2>5 DEF Ready
<1>3. TypeOK' /\ Texts'
  BY <1>1, <1>2 DEF LoopInv, TypeOK, Texts
<1>4. Descriptors' /\ Owners' /\ Listed' /\ FirstMarked' /\ NeverLost'
  BY DEF LoopInv, Descriptors, Owners, Listed, FirstMarked, NeverLost, HasStruct, IsSocket, Peer
<1>5. ASSUME NEW e1 \in Ready, NEW e2 \in Ready, e1.fd = e2.fd
      PROVE  e1 = e2
  <2>1. Fits(e1) /\ Fits(e2)
    BY <1>2
  <2>2. e1.events = e2.events
    BY <1>5, <2>1
  <2> QED BY <1>5, <2>1, <2>2
<1>6. ASSUME NEW e \in Ready, e.fd # ListenFd
      PROVE  /\ e.fd \in Fds /\ IsSocket(e.fd)
             /\ e.events = "out" => HasStruct(e.fd)
             /\ e.events = "hup" =>
                  \/ HasStruct(e.fd)
                  \/ \E c \in reset : /\ told[c] = <<>>
                                      /\ \A g \in Fds \ {e.fd} : Peer(g) # c
                                      /\ \A i \in 1 .. Len(backlog) : backlog[i] # c
  <2>1. /\ e.fd \in Fds /\ interest[e.fd] # "none"
        /\ e.events = "out" => interest[e.fd] = "out"
        /\ e.events = "hup" => Peer(e.fd) \in reset
    BY <1>2, <1>6
  <2>2. IsSocket(e.fd)
    BY <2>1 DEF LoopInv, Descriptors
  <2>3. e.events = "out" => HasStruct(e.fd)
    BY <2>1, <2>2 DEF LoopInv, Listed
  <2>4. CASE told[Peer(e.fd)] # <<>>
    BY <2>1, <2>2, <2>3, <2>4 DEF LoopInv, Listed
  <2>5. CASE told[Peer(e.fd)] = <<>>
    <3>1. /\ \A g \in Fds \ {e.fd} : Peer(g) # Peer(e.fd)
          /\ \A i \in 1 .. Len(backlog) : backlog[i] # Peer(e.fd)
      BY <2>1, <2>2, LoopSocket
    <3> QED BY <2>1, <2>2, <2>3, <2>5, <3>1
  <2> QED BY <2>4, <2>5
<1>7. \A e \in Ready : e.fd = ListenFd => e.events = "in" /\ backlog # <<>>
  BY <1>2
<1>8. Found'
  <2> HIDE DEF Fits
  <2>1. /\ \A e1, e2 \in batch' : e1.fd = e2.fd => e1 = e2
        /\ \A e \in batch' : e.fd = ListenFd => e.events = "in" /\ backlog # <<>>
    BY <1>1, <1>5, <1>7
  <2>2. \A e \in batch' :
          /\ e.events = "out" => HasStruct(e.fd)
          /\ e.events = "hup" =>
               \/ HasStruct(e.fd)
               \/ \E c \in reset : /\ told[c] = <<>>
                                   /\ \A g \in Fds \ {e.fd} : Peer(g) # c
                                   /\ \A i \in 1 .. Len(backlog) : backlog[i] # c
    BY <1>1, <1>6, <1>7
  <2> QED BY <2>1, <2>2 DEF Found, HasStruct, Peer
<1> QED BY <1>3, <1>4, <1>8 DEF LoopInv

LEMMA AcceptLoop ==
  ASSUME LoopInv, NEW e \in batch, Accept(e)
  PROVE  LoopInv'
<1> USE DEF Accept, serverVars
<1> DEFINE f == LowestFree
           c == Head(backlog)
<1>1. f \in Fds /\ desc[f].kind = "free" /\ interest[f] = "none" /\ desc[f].client = NoClient
  BY FreeFacts DEF LoopInv, Descriptors, IsSocket, TypeOK
<1>2. /\ Len(backlog) \in Nat /\ Len(backlog) >= 1
      /\ \A i \in 1 .. Len(backlog) : backlog[i] \in Connections
      /\ c = backlog[1] /\ c \in Connections
      /\ backlog' \in Seq(Connections) /\ Len(backlog') = Len(backlog) - 1
      /\ \A i \in 1 .. Len(backlog') : backlog'[i] = backlog[i + 1]
  <2>1. backlog # <<>> /\ backlog \in Seq(Connections)
    BY DEF LoopInv, Found, TypeOK, Take
  <2>2. /\ Len(backlog) \in Nat /\ Len(backlog) >= 1
        /\ \A i \in 1 .. Len(backlog) : backlog[i] \in Connections
    BY <2>1, LenProperties, EmptySeq, ElementOfSeq
  <2>3. c = backlog[1]
    BY <2>1
  <2> QED BY <2>1, <2>2, <2>3, HeadTailProperties
<1>waiting. \A i \in 1 .. Len(backlog) :
              /\ \A g \in Fds : desc[g].client # backlog[i]
              /\ inbox[backlog[i]] # "new" /\ told[backlog[i]] = <<>>
  BY DEF LoopInv, Owners, Peer
<1>3. /\ told[c] = <<>> /\ inbox[c] # "new"
      /\ \A g \in Fds : desc[g].client # c
      /\ \A i \in 1 .. Len(backlog') : backlog'[i] # c
      /\ c # NoClient
  <2>1. told[c] = <<>> /\ inbox[c] # "new" /\ \A g \in Fds : desc[g].client # c
    BY <1>2, <1>waiting
  <2>2. \A i \in 1 .. Len(backlog') : backlog'[i] # c
    BY <1>2 DEF LoopInv, Owners
  <2> QED BY <1>2, <2>1, <2>2, ServerAssumption DEF Connections
<1> HIDE DEF f, c
<1>4. /\ desc' = [desc EXCEPT ![f] = Socket(c)]
      /\ interest' = [interest EXCEPT ![f] = "in"]
  BY DEF f, c
<1>5. /\ desc'[f].kind = "socket" /\ desc'[f].client = c
      /\ interest'[f] = "in" /\ \A g \in Fds \ {f} : desc'[g] = desc[g] /\ interest'[g] = interest[g]
  BY <1>1, <1>4 DEF LoopInv, TypeOK, Socket
<1>6. TypeOK' /\ Texts'
  <2>1. Socket(c) \in [kind : {"free", "socket", "file", "directory"},
                       client : Connections \cup {NoClient}, offset : 0 .. CHUNKS]
    BY <1>2, ServerAssumption DEF Socket
  <2>2. batch' \subseteq batch
    BY DEF Take
  <2> QED BY <1>1, <1>2, <1>4, <2>1, <2>2 DEF LoopInv, TypeOK, Texts
<1>7. Descriptors'
  BY <1>3, <1>5 DEF LoopInv, Descriptors, IsSocket
<1>8. Owners'
  <2>1. \A g, h \in Fds : IsSocket(g)' /\ desc'[g].client = desc'[h].client => g = h
    BY <1>3, <1>5 DEF LoopInv, Owners, IsSocket, Peer
  <2>2. \A i, j \in 1 .. Len(backlog') : backlog'[i] = backlog'[j] => i = j
    BY <1>2 DEF LoopInv, Owners
  <2>3. \A i \in 1 .. Len(backlog') :
          /\ \A g \in Fds : desc'[g].client # backlog'[i]
          /\ inbox[backlog'[i]] # "new" /\ told[backlog'[i]] = <<>>
    <3> SUFFICES ASSUME NEW i \in 1 .. Len(backlog')
                 PROVE  /\ \A g \in Fds : desc'[g].client # backlog'[i]
                        /\ inbox[backlog'[i]] # "new" /\ told[backlog'[i]] = <<>>
      OBVIOUS
    <3>1. i + 1 \in 1 .. Len(backlog) /\ backlog'[i] = backlog[i + 1]
      BY <1>2
    <3>2. backlog'[i] # c
      BY <1>3
    <3> QED BY <1>5, <1>waiting, <3>1, <3>2
  <2>4. \A g \in Fds : IsSocket(g)' => inbox[desc'[g].client] # "new"
    BY <1>3, <1>5 DEF LoopInv, Owners, IsSocket, Peer
  <2> QED BY <2>1, <2>2, <2>3, <2>4 DEF LoopInv, Owners, Peer
<1>9. Listed' /\ FirstMarked'
  BY <1>3, <1>5 DEF LoopInv, Listed, FirstMarked, HasStruct, IsSocket, Peer
<1>10. Found'
  <2>1. batch' \subseteq batch /\ \A d \in batch' : d.fd # ListenFd
    BY LoopTake
  <2>2. ASSUME NEW d \in batch', d.events = "hup", ~HasStruct(d.fd)
        PROVE  \E a \in reset : /\ told[a] = <<>>
                                /\ \A g \in Fds \ {d.fd} : desc'[g].client # a
                                /\ \A i \in 1 .. Len(backlog') : backlog'[i] # a
    <3>1. PICK a \in reset : /\ told[a] = <<>>
                             /\ \A g \in Fds \ {d.fd} : Peer(g) # a
                             /\ \A i \in 1 .. Len(backlog) : backlog[i] # a
      BY <2>1, <2>2 DEF LoopInv, Found
    <3>2. a # c
      BY <1>2, <3>1
    <3>3. \A g \in Fds \ {d.fd} : desc'[g].client # a
      BY <1>5, <3>1, <3>2 DEF Peer
    <3>4. \A i \in 1 .. Len(backlog') : backlog'[i] # a
      BY <1>2, <3>1
    <3> QED BY <3>1, <3>3, <3>4
  <2>3. \A d \in batch' : d.events = "out" => HasStruct(d.fd)
    BY <2>1 DEF LoopInv, Found
  <2>4. \A e1, e2 \in batch' : e1.fd = e2.fd => e1 = e2
    BY <2>1 DEF LoopInv, Found
  <2> QED BY <2>1, <2>2, <2>3, <2>4 DEF Found, HasStruct, Peer
<1>11. NeverLost'
  BY DEF LoopInv, NeverLost
<1> QED BY <1>6, <1>7, <1>8, <1>9, <1>10, <1>11 DEF LoopInv

LEMMA SendChunkLoop ==
  ASSUME LoopInv, NEW e \in batch, SendChunk(e)
  PROVE  LoopInv'
<1> DEFINE f == e.fd
           file == Source(f)
<1>1. /\ Take(e) /\ f \in Fds /\ Pointer(f) # 0 /\ IsSocket(f)
      /\ file \in Fds /\ desc[file].kind = "file" /\ desc[file].offset < CHUNKS
      /\ batch' \subseteq batch
  BY LoopTake DEF SendChunk, Transfer, HasChunk, Sendable
<1>2. /\ desc' = [desc EXCEPT ![file].offset = @ + 1]
      /\ told' = [told EXCEPT ![Peer(f)] = Append(@, desc[file].offset + 1)]
      /\ stats1' = [stats1 EXCEPT !.bodies = @ + 1]
      /\ full' \in {full, full \cup {f}}
      /\ UNCHANGED <<asked, inbox, reset, backlog, closed, interest, headOfArray, savedArray, down>>
  BY DEF SendChunk, clientVars
<1> DEFINE x == [desc[file] EXCEPT !.offset = @ + 1]
           D == [kind : {"free", "socket", "file", "directory"},
                 client : Connections \cup {NoClient}, offset : 0 .. CHUNKS]
<1>3. x \in D /\ x.kind = "file" /\ x.client = desc[file].client
  <2>1. desc[file] \in D
    BY <1>1 DEF LoopInv, TypeOK
  <2>2. desc[file].offset + 1 \in 0 .. CHUNKS
    BY <1>1, <2>1, ServerAssumption
  <2> QED BY <1>1, <2>1, <2>2
<1>4. desc' = [desc EXCEPT ![file] = x] /\ desc \in [Fds -> D]
  BY <1>2 DEF LoopInv, TypeOK
<1> HIDE DEF x, D, file
<1>5. desc' \in [Fds -> D] /\ \A g \in Fds : desc'[g].kind = desc[g].kind /\ desc'[g].client = desc[g].client
  BY <1>1, <1>3, <1>4
<1>6. TypeOK'
  <2>1. stats1' \in [requests : Nat, headers : Nat, bodies : Nat, errors : Nat,
                     errorHeaders : Nat]
    <3>1. stats1 \in [requests : Nat, headers : Nat, bodies : Nat, errors : Nat,
                      errorHeaders : Nat]
      BY DEF LoopInv, TypeOK
    <3>2. stats1' = [stats1 EXCEPT !.bodies = @ + 1]
      BY <1>2
    <3> QED BY <3>1, <3>2
  <2>2. full' \subseteq Fds
    BY <1>1, <1>2 DEF LoopInv, TypeOK
  <2> HIDE DEF f
  <2> QED BY <1>1, <1>2, <1>5, <2>1, <2>2 DEF LoopInv, TypeOK, D
<1>7. \A g \in Fds : IsSocket(g)' = IsSocket(g)
  BY <1>5 DEF IsSocket
<1>8. \A g \in Fds : ~IsSocket(g) => desc[g].client = NoClient /\ interest[g] = "none"
  BY DEF LoopInv, Descriptors
<1>9. \A g \in Fds : IsSocket(g) => interest[g] # "none"
  BY DEF LoopInv, Descriptors
<1>10. FirstMarked' /\ \A g \in Fds : HasStruct(g) => HasStruct(g)'
  BY <1>2 DEF LoopInv, FirstMarked, HasStruct
<1>11. HasStruct(f)
  BY <1>1, LoopList
<1>12. Texts' /\ \A c \in Connections : c # Peer(f) => told'[c] = told[c]
  BY <1>2 DEF LoopInv, Texts
<1> QED BY <1>1, <1>2, <1>5, <1>6, <1>7, <1>8, <1>9, <1>10, <1>11, <1>12, LoopFrame

LEMMA SendTextLoop ==
  ASSUME LoopInv, NEW e \in batch, SendText(e)
  PROVE  LoopInv'
<1> DEFINE f == e.fd
           c == Peer(Source(f))
<1>1. /\ Take(e) /\ f \in Fds /\ Pointer(f) # 0 /\ IsSocket(f) /\ inbox[c] = "request"
      /\ batch' \subseteq batch
  BY LoopTake DEF SendText, Transfer, HasText, Overhears, Sendable
<1>2. /\ inbox' = [inbox EXCEPT ![c] = "nothing"]
      /\ told' = [told EXCEPT ![Peer(f)] = Append(@, asked[c])]
      /\ stats1' = [stats1 EXCEPT !.bodies = @ + 1]
      /\ full' \in {full, full \cup {f}}
      /\ UNCHANGED <<asked, reset, backlog, closed, desc, interest, headOfArray, savedArray, down>>
  BY DEF SendText
<1>3. TypeOK'
  <2>1. stats1' \in [requests : Nat, headers : Nat, bodies : Nat, errors : Nat,
                     errorHeaders : Nat]
    <3>1. stats1 \in [requests : Nat, headers : Nat, bodies : Nat, errors : Nat,
                      errorHeaders : Nat]
      BY DEF LoopInv, TypeOK
    <3>2. stats1' = [stats1 EXCEPT !.bodies = @ + 1]
      BY <1>2
    <3> QED BY <3>1, <3>2
  <2>2. inbox' \in [Connections -> {"new", "nothing", "request", "eof"}]
    BY <1>2 DEF LoopInv, TypeOK
  <2> QED BY <1>1, <1>2, <2>1, <2>2 DEF LoopInv, TypeOK
<1>4. \A d \in Connections : /\ inbox'[d] = "new" <=> inbox[d] = "new"
                             /\ inbox'[d] = "request" => inbox[d] = "request"
  BY <1>1, <1>2 DEF LoopInv, TypeOK
<1>5. \A g \in Fds : IsSocket(g)' = IsSocket(g)
  BY <1>2 DEF IsSocket
<1>6. \A g \in Fds : IF IsSocket(g) THEN interest[g] # "none"
                     ELSE desc[g].client = NoClient /\ interest[g] = "none"
  BY DEF LoopInv, Descriptors
<1>7. FirstMarked' /\ \A g \in Fds : HasStruct(g) => HasStruct(g)'
  BY <1>2 DEF LoopInv, FirstMarked, HasStruct
<1>8. HasStruct(f)
  BY <1>1, LoopList
<1> HIDE DEF c
<1>9. Texts' /\ \A d \in Connections : d # Peer(f) => told'[d] = told[d]
  BY <1>2 DEF LoopInv, Texts
<1> QED BY <1>1, <1>2, <1>3, <1>4, <1>5, <1>6, <1>7, <1>8, <1>9, LoopFrame

LEMMA SendEndLoop ==
  ASSUME LoopInv, NEW e \in batch, SendEnd(e)
  PROVE  LoopInv'
<1> DEFINE f == e.fd
           s == headOfArray
           k == WithIndex(s, s[Pointer(f)].index)
           x == [s[k] EXCEPT !.allSent = TRUE]
<1>1. Take(e) /\ f \in Fds /\ Pointer(f) # 0 /\ batch' \subseteq batch
  BY LoopTake DEF SendEnd, Transfer
<1>2. /\ headOfArray' = [s EXCEPT ![k] = x]
      /\ UNCHANGED <<asked, told, closed, inbox, reset, backlog, desc, interest, full, savedArray,
                     stats1, down>>
  BY DEF SendEnd, clientVars, kernelVars
<1>3. /\ s \in Seq(Struct) /\ Len(s) \in Nat /\ Pointer(f) \in 1 .. Len(s)
      /\ Marked(s) /\ HasStruct(f)
  BY <1>1, LoopList DEF LoopInv
<1>4. /\ k \in 1 .. Len(s) /\ s[k].index = s[Pointer(f)].index
      /\ \A j \in 1 .. Len(s) : s[j].index = s[Pointer(f)].index => k <= j
  BY <1>3, WithIndexFacts
<1> HIDE DEF k
<1>5. x \in Struct /\ x.fd = s[k].fd /\ x.index = s[k].index
  <2>1. s[k] \in Struct
    BY <1>3, <1>4, ElementOfSeq
  <2> QED BY <2>1 DEF Struct
<1> HIDE DEF x
<1>6. /\ headOfArray' \in Seq(Struct) /\ Len(headOfArray') = Len(s)
      /\ \A j \in 1 .. Len(s) : headOfArray'[j] = IF j = k THEN x ELSE s[j]
  BY <1>2, <1>3, <1>4, <1>5, ExceptSeq
<1>7. FirstMarked'
  <2>1. \A j \in 1 .. k - 1 : s[j].index # s[k].index
    BY <1>3, <1>4
  <2> HIDE DEF s
  <2>2. Marked(headOfArray')
    BY <1>3, <1>4, <1>5, <1>6, <2>1, MarkFirst
  <2> QED BY <2>2 DEF FirstMarked, Marked
<1>8. TypeOK'
  BY <1>1, <1>2, <1>6 DEF LoopInv, TypeOK
<1>9. \A g \in Fds : HasStruct(g) => HasStruct(g)'
  <2>1. \A j \in 1 .. Len(s) : headOfArray'[j].fd = s[j].fd
    BY <1>5, <1>6
  <2> QED BY <1>6, <2>1 DEF HasStruct
<1>10. \A g \in Fds : IsSocket(g)' = IsSocket(g)
  BY <1>2 DEF IsSocket
<1>11. \A g \in Fds : IF IsSocket(g) THEN interest[g] # "none"
                      ELSE desc[g].client = NoClient /\ interest[g] = "none"
  BY DEF LoopInv, Descriptors
<1>12. Texts'
  BY <1>2 DEF LoopInv, Texts
<1> QED BY <1>1, <1>2, <1>3, <1>7, <1>8, <1>9, <1>10, <1>11, <1>12, LoopFrame

\* A marked struct is taken out with its own descriptor, whatever else its
\* fileopen closes.
LEMMA FinishLoop ==
  ASSUME LoopInv, NEW e \in batch, Finish(e)
  PROVE  LoopInv'
<1> DEFINE f == e.fd
           s == headOfArray
           i == Pointer(f)
           fds == {f, s[i].fileopen} \cap Fds
<1>1. /\ Take(e) /\ f \in Fds /\ i # 0 /\ s[i].allSent /\ batch' \subseteq batch
  BY LoopTake DEF Finish, Finished
<1>2. /\ Close(fds) /\ headOfArray' = removeRequest(s, s[i].index)
      /\ UNCHANGED <<asked, inbox, reset, backlog, told, savedArray, stats1, down>>
  BY DEF Finish, clientVars
<1>3. s \in Seq(Struct) /\ i \in 1 .. Len(s) /\ s[i].fd = f /\ Marked(s)
  BY <1>1, LoopList DEF LoopInv
<1>4. /\ headOfArray' \in Seq(Struct) /\ Marked(headOfArray')
      /\ \A g : g # f /\ OfFd(s, g) => OfFd(headOfArray', g)
  BY <1>1, <1>2, <1>3, RemoveMarked
<1>5. f \in fds /\ fds \subseteq Fds
  BY <1>1
<1> HIDE DEF i, fds
<1>6. /\ desc' = [g \in Fds |-> IF g \in fds THEN Free ELSE desc[g]]
      /\ interest' = [g \in Fds |-> IF g \in fds THEN "none" ELSE interest[g]]
      /\ full' \subseteq full
      /\ closed' = [c \in Connections |-> closed[c] \/ \E g \in fds : Peer(g) = c]
  BY <1>2 DEF Close
<1>7. TypeOK'
  <2>1. Free \in [kind : {"free", "socket", "file", "directory"},
                  client : Connections \cup {NoClient}, offset : 0 .. CHUNKS]
    BY ServerAssumption DEF Free
  <2>2. desc' \in [Fds -> [kind : {"free", "socket", "file", "directory"},
                           client : Connections \cup {NoClient}, offset : 0 .. CHUNKS]]
    BY <1>6, <2>1 DEF LoopInv, TypeOK
  <2>3. closed' \in [Connections -> BOOLEAN] /\ interest' \in [Fds -> {"none", "in", "out"}]
    BY <1>6 DEF LoopInv, TypeOK
  <2> QED BY <1>1, <1>2, <1>4, <1>6, <2>2, <2>3 DEF LoopInv, TypeOK
<1>8. /\ FirstMarked' /\ \A g \in Fds : g # f /\ HasStruct(g) => HasStruct(g)'
  BY <1>4 DEF FirstMarked, Marked, HasStruct, OfFd
<1>9. \A g \in Fds : IF IsSocket(g) THEN interest[g] # "none"
                     ELSE desc[g].client = NoClient /\ interest[g] = "none"
  BY DEF LoopInv, Descriptors
<1>10. \A g \in Fds : /\ g \in fds => /\ ~IsSocket(g)' /\ desc'[g].client = NoClient
                                      /\ interest'[g] = "none"
                      /\ g \notin fds => /\ IsSocket(g)' = IsSocket(g)
                                         /\ desc'[g] = desc[g] /\ interest'[g] = interest[g]
  BY <1>6 DEF IsSocket, Free
<1>11. Texts'
  BY <1>2 DEF LoopInv, Texts
<1> QED BY <1>1, <1>2, <1>5, <1>7, <1>8, <1>9, <1>10, <1>11, LoopFrame

\* An uninitialised fd is a descriptor, or none: the struct keeps its type.
LEMMA OutcomeTypes ==
  ASSUME LoopInv, NEW r \in [kind : Asks, by : Clients], NEW out \in Outcomes(r)
  PROVE  /\ out.open \in BOOLEAN /\ out.file \in Fds \cup {NoFile}
         /\ Written(r) \in Clients \cup {"<empty>", "junk"}
<1>1. Garbage \subseteq Fds \cup {NoFile}
  BY ServerAssumption DEF Fds, NoFile
<1>2. Written(r) \in Clients \cup {"<empty>", "junk"} /\ (IsFile(Response(r)) <=> Sent(r))
  BY AnswerFacts DEF LoopInv, Texts
<1>3. CASE Sent(r)
  <2>1. out = [open |-> TRUE, file |-> LowestFree]
    BY <1>2, <1>3 DEF Outcomes
  <2>2. out.open = TRUE /\ out.file = LowestFree
    BY <2>1
  <2> QED BY <1>2, <1>3, <2>2, FreeFacts DEF Sent
<1>4. CASE ~Sent(r)
  <2>1. \/ out = [open |-> FALSE, file |-> NoFile]
        \/ \E g \in Garbage : out = [open |-> TRUE, file |-> g]
    BY <1>2, <1>4 DEF Outcomes
  <2>2. CASE out = [open |-> FALSE, file |-> NoFile]
    <3>1. out.open = FALSE /\ out.file = NoFile
      BY <2>2
    <3> QED BY <1>2, <3>1
  <2>3. CASE \E g \in Garbage : out = [open |-> TRUE, file |-> g]
    <3>1. PICK g \in Garbage : out = [open |-> TRUE, file |-> g]
      BY <2>3
    <3>2. out.open = TRUE /\ out.file = g
      BY <3>1
    <3> QED BY <1>1, <1>2, <3>2
  <2> QED BY <2>1, <2>2, <2>3
<1> QED BY <1>3, <1>4

LEMMA CountedTypes ==
  ASSUME LoopInv, NEW a, NEW open
  PROVE  Counted(a, open) \in [requests : Nat, headers : Nat, bodies : Nat, errors : Nat,
                               errorHeaders : Nat]
<1> DEFINE t == [requests : Nat, headers : Nat, bodies : Nat, errors : Nat, errorHeaders : Nat]
<1> SUFFICES ASSUME NEW y, y = Counted(a, open) PROVE y \in t
  OBVIOUS
<1>1. stats1 \in t
  BY DEF LoopInv, TypeOK
<1>2. /\ stats1.requests \in Nat /\ stats1.headers \in Nat /\ stats1.bodies \in Nat
      /\ stats1.errors \in Nat /\ stats1.errorHeaders \in Nat
  BY <1>1
<1>3. CASE a.status = 200
  <2>1. CASE a.body \in {<<"file">>, <<>>}
    <3>1. y = [stats1 EXCEPT !.requests = @ + 1, !.headers = @ + 1, !.bodies = @]
      BY <1>3, <2>1 DEF Counted
    <3>2. y = [requests |-> stats1.requests + 1, headers |-> stats1.headers + 1,
             bodies |-> stats1.bodies, errors |-> stats1.errors,
             errorHeaders |-> stats1.errorHeaders]
      BY <1>1, <3>1
    <3> QED BY <1>2, <3>2
  <2>2. CASE a.body \notin {<<"file">>, <<>>}
    <3>1. y = [stats1 EXCEPT !.requests = @ + 1, !.headers = @ + 1, !.bodies = @ + 1]
      BY <1>3, <2>2 DEF Counted
    <3>2. y = [requests |-> stats1.requests + 1, headers |-> stats1.headers + 1,
             bodies |-> stats1.bodies + 1, errors |-> stats1.errors,
             errorHeaders |-> stats1.errorHeaders]
      BY <1>1, <3>1
    <3> QED BY <1>2, <3>2
  <2> QED BY <2>1, <2>2
<1>4. CASE a.status # 200
  <2>1. CASE open
    <3>1. y = [stats1 EXCEPT !.errors = @ + 1, !.errorHeaders = @ + 1, !.headers = @ + 1]
      BY <1>4, <2>1 DEF Counted
    <3>2. y = [requests |-> stats1.requests, headers |-> stats1.headers + 1,
             bodies |-> stats1.bodies, errors |-> stats1.errors + 1,
             errorHeaders |-> stats1.errorHeaders + 1]
      BY <1>1, <3>1
    <3> QED BY <1>2, <3>2
  <2>2. CASE ~open
    <3>1. y = [stats1 EXCEPT !.errors = @ + 1, !.errorHeaders = @ + 1, !.headers = @]
      BY <1>4, <2>2 DEF Counted
    <3>2. y = [requests |-> stats1.requests, headers |-> stats1.headers,
             bodies |-> stats1.bodies, errors |-> stats1.errors + 1,
             errorHeaders |-> stats1.errorHeaders + 1]
      BY <1>1, <3>1
    <3> QED BY <1>2, <3>2
  <2> QED BY <2>1, <2>2
<1> QED BY <1>3, <1>4

\* The lookups of a descriptor that was just given a struct find one.
LEMMA LookedFacts ==
  ASSUME NEW s \in Seq(Struct), NEW y \in Struct, NEW f, y.fd = f
  PROVE  LET list == Append(s, y)
             r    == WithIndex(list, list[WithFd(list, f)].index)
         IN  list[r] \in Struct
<1> DEFINE list == Append(s, y)
           p == WithFd(list, f)
           r == WithIndex(list, list[p].index)
<1>1. Len(s) \in Nat
  BY LenProperties
<1>2. /\ list \in Seq(Struct) /\ Len(list) = Len(s) + 1
      /\ list[Len(s) + 1] = y
  BY <1>1, AppendProperties
<1> HIDE DEF list
<1>3. p \in 1 .. Len(list)
  <2>1. Len(s) + 1 \in 1 .. Len(list) /\ Len(list) \in Nat
    BY <1>1, <1>2
  <2>2. WithFd(list, f) # 0
    BY <1>2, <2>1, WithFdFacts
  <2> QED BY <2>1, <2>2, WithFdFacts
<1> HIDE DEF p
<1>4. r \in 1 .. Len(list)
  BY <1>1, <1>2, <1>3, WithIndexFacts
<1> HIDE DEF r
<1>5. list[r] \in Struct
  BY <1>2, <1>4, ElementOfSeq
<1> QED BY <1>5 DEF r, p, list

LEMMA ServeLoop ==
  ASSUME LoopInv, NEW e \in batch, Serve(e)
  PROVE  LoopInv'
<1> DEFINE f == e.fd
           c == Peer(f)
           y == [fd |-> f, request |-> asked[c], index |-> Len(headOfArray),
                 allSent |-> FALSE, fileopen |-> NoFile]
           list == Append(headOfArray, y)
           p == WithFd(list, f)
           r == WithIndex(list, list[p].index)
           q == list[r].request
<1>1. /\ Take(e) /\ f \in Fds /\ IsSocket(f) /\ inbox[c] = "request" /\ batch' \subseteq batch
      /\ c \in Connections
  BY LoopTake, LoopSocket DEF Serve, Receives, Sendable
<1>2. asked[c] \in [kind : Asks, by : Clients]
  BY <1>1 DEF LoopInv, TypeOK, Owners
<1>3. /\ headOfArray \in Seq(Struct) /\ Len(headOfArray) \in Nat /\ Marked(headOfArray)
      /\ y \in Struct /\ y.fd = f /\ ~y.allSent
  BY <1>1, <1>2, LoopList DEF LoopInv, Struct
<1>4. /\ list \in Seq(Struct) /\ DOMAIN list = 1 .. Len(list)
      /\ addRequest(f, asked[c]) = list
  BY <1>3, AppendProperties, LenProperties DEF addRequest
<1>5. PICK out \in Outcomes(q) : Respond(f, list, p, r, out)
  BY <1>4 DEF Serve, Looked
<1> DEFINE table == IF q.kind \in {"file", "directory"} /\ FreeFds # {}
                    THEN [desc EXCEPT ![LowestFree] = OpenFile(q.kind)] ELSE desc
           after == [[list EXCEPT ![r].allSent = ~out.open] EXCEPT ![p].fileopen = out.file]
           done == after[p].allSent
<1>6. /\ inbox' = [inbox EXCEPT ![c] = "nothing"]
      /\ UNCHANGED <<asked, backlog, reset, down>>
      /\ told' = [told EXCEPT ![c] = Append(@, Response(q))]
      /\ stats1' = Counted(Response(q), out.open)
      /\ savedArray' = Written(q)
      /\ headOfArray' = IF done THEN removeRequest(after, list[p].index) ELSE after
      /\ desc' = IF done THEN [table EXCEPT ![f] = Free] ELSE table
      /\ interest' = [interest EXCEPT ![f] = IF done THEN "none" ELSE "out"]
      /\ full' = IF done THEN full \ {f} ELSE full
      /\ closed' = [closed EXCEPT ![c] = done]
  BY <1>5 DEF Respond, Serve
<1>7. q \in [kind : Asks, by : Clients]
  <2>1. list[r] \in Struct
    BY <1>3, LookedFacts
  <2> HIDE DEF r, list
  <2> QED BY <2>1 DEF Struct
<1>8. out.open \in BOOLEAN /\ out.file \in Fds \cup {NoFile}
      /\ savedArray' \in Clients \cup {"<empty>", "junk"}
  BY <1>6, <1>7, OutcomeTypes
<1>9. /\ done \in BOOLEAN
      /\ headOfArray' \in Seq(Struct) /\ Marked(headOfArray')
      /\ \A g : g # f /\ OfFd(headOfArray, g) => OfFd(headOfArray', g)
      /\ ~done => OfFd(headOfArray', f)
  <2>1. headOfArray' = Remaining(list, f, out) /\ done = AllSaid(list, f, out)
    BY <1>6 DEF Remaining, AllSaid, Answered
  <2> HIDE DEF y, done
  <2> QED BY <1>3, <1>8, <2>1, AnsweredList
<1> HIDE DEF y, list, p, r, after, done
<1>10. stats1' \in [requests : Nat, headers : Nat, bodies : Nat, errors : Nat, errorHeaders : Nat]
  BY <1>6, CountedTypes
<1> DEFINE entry == [kind : {"free", "socket", "file", "directory"},
                     client : Connections \cup {NoClient}, offset : 0 .. CHUNKS]
<1>11. /\ table \in [Fds -> entry] /\ table[f] = desc[f]
       /\ \A g \in Fds : /\ table[g].kind = "socket" <=> IsSocket(g)
                         /\ table[g].client = desc[g].client
  <2>1. CASE ~(q.kind \in {"file", "directory"} /\ FreeFds # {})
    BY <2>1 DEF LoopInv, TypeOK, IsSocket
  <2>2. CASE q.kind \in {"file", "directory"} /\ FreeFds # {}
    <3>1. /\ LowestFree \in Fds /\ ~IsSocket(LowestFree)
          /\ desc[LowestFree].client = NoClient /\ LowestFree # f
      BY <1>1, <2>2, FreeFacts DEF LoopInv, Descriptors, IsSocket, FreeFds
    <3>2. /\ OpenFile(q.kind) \in entry /\ OpenFile(q.kind).client = NoClient
          /\ OpenFile(q.kind).kind # "socket"
      BY <2>2, ServerAssumption DEF OpenFile
    <3>3. table = [desc EXCEPT ![LowestFree] = OpenFile(q.kind)]
      BY <2>2
    <3> HIDE DEF q, table
    <3>4. desc \in [Fds -> entry]
      BY DEF LoopInv, TypeOK
    <3> HIDE DEF entry
    <3> QED BY <1>1, <3>1, <3>2, <3>3, <3>4 DEF IsSocket
  <2> QED BY <2>1, <2>2
<1> HIDE DEF table, q
<1>12. /\ desc' \in [Fds -> entry]
       /\ \A g \in Fds :
            /\ g # f => desc'[g] = table[g] /\ interest'[g] = interest[g]
            /\ done => /\ desc'[f] = Free /\ interest'[f] = "none"
            /\ ~done => /\ desc'[f] = table[f] /\ interest'[f] = "out"
       /\ interest' \in [Fds -> {"none", "in", "out"}]
  <2>1. Free \in entry
    BY ServerAssumption DEF Free
  <2>2. interest \in [Fds -> {"none", "in", "out"}]
    BY DEF LoopInv, TypeOK
  <2> HIDE DEF entry
  <2>3. CASE done
    BY <1>1, <1>6, <1>11, <2>1, <2>2, <2>3
  <2>4. CASE ~done
    BY <1>1, <1>6, <1>11, <2>2, <2>4
  <2> QED BY <2>3, <2>4
<1>13. TypeOK'
  <2>1. inbox' \in [Connections -> {"new", "nothing", "request", "eof"}]
    BY <1>6 DEF LoopInv, TypeOK
  <2>2. closed' \in [Connections -> BOOLEAN]
    BY <1>6, <1>9 DEF LoopInv, TypeOK
  <2>3. full' \subseteq Fds
    BY <1>6 DEF LoopInv, TypeOK
  <2> QED BY <1>1, <1>6, <1>9, <1>10, <1>12, <2>1, <2>2, <2>3 DEF LoopInv, TypeOK
<1>14. /\ Texts'
       /\ \A d \in Connections : /\ inbox'[d] = "new" <=> inbox[d] = "new"
                                 /\ inbox'[d] = "request" => inbox[d] = "request"
       /\ \A d \in Connections : d # c => told'[d] = told[d]
  <2>1. told = [d \in Connections |-> told[d]]
    BY DEF LoopInv, Texts
  <2>2. told' = [d \in Connections |-> told'[d]] /\ \A d \in Connections : d # c => told'[d] = told[d]
    BY <1>6, <2>1
  <2>3. \A d \in Connections : /\ inbox'[d] = "new" <=> inbox[d] = "new"
                               /\ inbox'[d] = "request" => inbox[d] = "request"
    BY <1>1, <1>6 DEF LoopInv, TypeOK
  <2> QED BY <1>8, <2>2, <2>3 DEF Texts
<1>15. \A g \in Fds :
         IF IsSocket(g)'
         THEN /\ IsSocket(g) /\ desc'[g].client = desc[g].client
              /\ interest'[g] # "none"
              /\ g # f => interest'[g] = interest[g]
         ELSE desc'[g].client = NoClient /\ interest'[g] = "none"
  <2> SUFFICES ASSUME NEW g \in Fds
               PROVE  IF IsSocket(g)'
                      THEN /\ IsSocket(g) /\ desc'[g].client = desc[g].client
                           /\ interest'[g] # "none"
                           /\ g # f => interest'[g] = interest[g]
                      ELSE desc'[g].client = NoClient /\ interest'[g] = "none"
    OBVIOUS
  <2>1. /\ IsSocket(g) <=> interest[g] # "none"
        /\ IsSocket(g) <=> desc[g].client # NoClient
    BY DEF LoopInv, Descriptors
  <2>2. CASE g # f
    BY <1>11, <1>12, <2>1, <2>2 DEF IsSocket
  <2>3. CASE g = f /\ done
    BY <1>12, <2>3 DEF IsSocket, Free
  <2>4. CASE g = f /\ ~done
    BY <1>1, <1>11, <1>12, <2>4 DEF IsSocket
  <2> QED BY <2>2, <2>3, <2>4
<1>16. IsSocket(f)' => HasStruct(f)'
  <2>1. IsSocket(f)' => ~done
    BY <1>1, <1>12 DEF IsSocket, Free
  <2> QED BY <1>9, <2>1 DEF HasStruct, OfFd
<1>17. FirstMarked' /\ \A g \in Fds : g # f /\ HasStruct(g) => HasStruct(g)'
  BY <1>9 DEF FirstMarked, Marked, HasStruct, OfFd
<1> QED BY <1>1, <1>6, <1>13, <1>14, <1>15, <1>16, <1>17, LoopFrame

LEMMA InitLoop == Init => LoopInv
<1> SUFFICES ASSUME Init PROVE LoopInv
  OBVIOUS
<1>1. TypeOK /\ Texts
  <2>1. Free \in [kind : {"free", "socket", "file", "directory"},
                  client : Connections \cup {NoClient}, offset : 0 .. CHUNKS]
    BY ServerAssumption DEF Free
  <2>2. headOfArray \in Seq(Struct) /\ backlog \in Seq(Connections)
    BY DEF Init
  <2> QED BY <2>1, <2>2 DEF Init, TypeOK, Texts
<1>2. Descriptors
  BY DEF Init, Descriptors, IsSocket, Free
<1>3. Owners
  <2>1. Len(backlog) = 0 /\ \A f \in Fds : ~IsSocket(f)
    BY DEF Init, IsSocket, Free
  <2> QED BY <2>1 DEF Init, Owners
<1>4. Listed /\ FirstMarked /\ Found /\ NeverLost
  <2>1. Len(headOfArray) = 0 /\ \A f \in Fds : ~IsSocket(f)
    BY DEF Init, IsSocket, Free
  <2> QED BY <2>1 DEF Init, Listed, FirstMarked, Found, NeverLost
<1> QED BY <1>1, <1>2, <1>3, <1>4 DEF LoopInv

LEMMA StepLoop == LoopInv /\ [Next]_vars => LoopInv'
<1> SUFFICES ASSUME LoopInv, [Next]_vars PROVE LoopInv'
  OBVIOUS
<1>1. ASSUME NEW c \in Connections, Connect(c) PROVE LoopInv'
  BY <1>1, ConnectLoop
<1>2. ASSUME NEW c \in Connections, Ask(c) \/ Leave(c) \/ Reset(c) PROVE LoopInv'
  BY <1>2, ClientLoop
<1>3. ASSUME NEW f \in Fds, Drain(f) PROVE LoopInv'
  BY <1>3, QuietLoop
<1>4. CASE EpollWait
  BY <1>4, EpollWaitLoop
<1>5. ASSUME NEW e \in batch, Handle(e) PROVE LoopInv'
  <2>1. CASE Accept(e)
    BY <2>1, AcceptLoop
  <2>2. CASE \/ AcceptFails(e) \/ RecvNothing(e) \/ ServeWild(e) \/ SendWithoutStruct(e)
             \/ Fails(e)
    BY <2>2, DownLoop
  <2>3. CASE Serve(e)
    BY <2>3, ServeLoop
  <2>4. CASE SendChunk(e)
    BY <2>4, SendChunkLoop
  <2>5. CASE SendText(e)
    BY <2>5, SendTextLoop
  <2>6. CASE SendEnd(e)
    BY <2>6, SendEndLoop
  <2>7. CASE Finish(e)
    BY <2>7, FinishLoop
  <2> QED BY <1>5, <2>1, <2>2, <2>3, <2>4, <2>5, <2>6, <2>7 DEF Handle
<1>6. CASE UNCHANGED vars
  BY <1>6, QuietLoop
<1> QED BY <1>1, <1>2, <1>3, <1>4, <1>5, <1>6 DEF Next, Server, Asleep

\* Whatever fd holds uninitialised (hw4.c:250, 275, 503), and whatever is read
\* and closed by way of it, the loop (hw4.c:593-705) keeps a struct for whoever
\* is sent to, and looks for none in vain but a reset connection's.
THEOREM Spec_LoopInv == Spec => []LoopInv
<1>1. Init => LoopInv
  BY InitLoop
<1>2. LoopInv /\ [Next]_vars => LoopInv'
  BY StepLoop
<1> QED BY <1>1, <1>2, PTL DEF Spec

\* The types hold whatever fd holds uninitialised: no file is read past its end
\* (hw4.c:178), a struct's fileopen is a descriptor or none (hw4.c:648), and no
\* counter of /stats drops.
THEOREM Spec_TypeOK == Spec => []TypeOK
<1>1. LoopInv => TypeOK
  BY DEF LoopInv
<1> QED BY <1>1, Spec_LoopInv, PTL

\* The server follows the NULL of its lookup (hw4.c:672-682) only for a
\* connection that was reset before it asked.
THEOREM Spec_NeverLost == Spec => []NeverLost
<1>1. LoopInv => NeverLost
  BY DEF LoopInv
<1> QED BY <1>1, Spec_LoopInv, PTL
=============================================================================
