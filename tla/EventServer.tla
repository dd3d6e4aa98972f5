---------------------------- MODULE EventServer ----------------------------
(***************************************************************************)
(* The web server of hw4/hw4.c: one thread around epoll_wait.  A client's  *)
(* request is received, kept as a struct Req1 in a linked list, answered;  *)
(* a file follows in chunks, one per EPOLLOUT event, so that transfers     *)
(* interleave with each other and with everyone else's requests.           *)
(*                                                                         *)
(* One event of event_list[] is one step: nothing else runs in the server  *)
(* meanwhile, and what clients do meanwhile is not looked at before the    *)
(* next event.  The structs are looked up by descriptor, and again by      *)
(* their index field, which addRequest sets to the length of the list.     *)
(*                                                                         *)
(* A request is its kind and the client whose text it carries; it arrives  *)
(* in one piece.  One recv is all the server takes: of a request cut in two *)
(* it answers the first piece, which is of kind "cut" when its header has   *)
(* no end, or "half" when it is the head of a /write whose text comes later. *)
(* For "cut", and for "blank" (no method at all), handle_request jumps over *)
(* the initialisers of needMultipleSends and fd (hw4.c:221-225, 250-253,   *)
(* 268-275) and then uses both: their values are a choice, see Outcomes.   *)
(*                                                                         *)
(* A body and a header count as one unit in the statistics.  The client    *)
(* side and the kernel (descriptor table, epoll) are modelled from their   *)
(* use.                                                                    *)
(***************************************************************************)
EXTENDS Naturals, Sequences, FiniteSets, FiniteSetsExt, SequencesExt

CONSTANTS
  Clients,      \* connections that make a request
  Probes,       \* connections closed without one (nc -z in runtests.sh)
  FileClients,  \* the clients that may ask for a file
  Droppers,     \* connections that may be reset
  Asks,         \* the kinds of request clients make
  NoRequest,
  NoClient,
  CHUNKS,       \* read(file, 1024) returns data this many times
  OPEN_MAX,     \* descriptors left to the server after port.txt, the
                \* listening socket and epoll (ulimit -n)
  EVENTS,       \* the length of event_list[], 16 in the code
  Garbage       \* what an uninitialised fd may hold: descriptors, or
                \* OPEN_MAX + 1 for any number that is none

ASSUME ServerAssumption ==
  /\ FileClients \subseteq Clients /\ Droppers \subseteq Clients \cup Probes
  /\ Clients \cap Probes = {}
  /\ NoClient \notin Clients \cup Probes
  /\ IsFiniteSet(Clients)
  /\ "file" \notin Clients   \* nobody's text is taken for a file
  /\ NoRequest \notin [kind : Asks, by : Clients]
  /\ CHUNKS \in Nat /\ OPEN_MAX \in Nat /\ EVENTS \in Nat \ {0}
  /\ Garbage \subseteq 1 .. OPEN_MAX + 1

VARIABLES
  asked, told, closed,   \* per connection: as in WebService
  inbox,                 \* what recv would find: nothing, request or eof
  reset,                 \* connections the peer has reset
  backlog,               \* connections waiting for accept
  desc,                  \* the descriptor table
  interest,              \* epoll: the events a descriptor is registered for
  full,                  \* descriptors whose client has to read first
  batch,                 \* events of event_list[] not yet handled
  headOfArray,           \* the list of struct Req1
  savedArray,            \* the text of the last /write
  stats1,                \* the counters of /stats
  down                   \* why the process died

clientVars == <<asked, inbox, reset, backlog>>
kernelVars == <<desc, interest, full>>
serverVars == <<headOfArray, savedArray, stats1>>
vars == <<clientVars, told, closed, kernelVars, batch, serverVars, down>>

Connections == Clients \cup Probes
Fds == 1 .. OPEN_MAX
ListenFd == 0
NoFile == OPEN_MAX + 1               \* fileopen = -1, or no descriptor's number

\* The requests that are answered with variables left uninitialised.
Unfinished == {"cut", "blank"}

Free == [kind |-> "free", client |-> NoClient, offset |-> 0]
Socket(c) == [kind |-> "socket", client |-> c, offset |-> 0]
OpenFile(k) == [kind |-> k, client |-> NoClient, offset |-> 0]

IsSocket(f) == desc[f].kind = "socket"
Peer(f) == desc[f].client

Init ==
  /\ asked = [c \in Connections |-> NoRequest]
  /\ told = [c \in Connections |-> <<>>]
  /\ closed = [c \in Connections |-> FALSE]
  /\ inbox = [c \in Connections |-> "new"]
  /\ reset = {}
  /\ backlog = <<>>
  /\ desc = [f \in Fds |-> Free]
  /\ interest = [f \in Fds |-> "none"]
  /\ full = {}
  /\ batch = {}
  /\ headOfArray = <<>>
  /\ savedArray = "<empty>"
  /\ stats1 = [requests |-> 0, headers |-> 0, bodies |-> 0,
               errors |-> 0, errorHeaders |-> 0]
  /\ down = "no"

-----------------------------------------------------------------------------
(* The clients.                                                            *)

Connect(c) ==
  /\ inbox[c] = "new"
  /\ inbox' = [inbox EXCEPT ![c] = "nothing"]
  /\ backlog' = Append(backlog, c)
  /\ UNCHANGED <<asked, reset, told, closed, kernelVars, batch, serverVars, down>>

Ask(c) ==
  /\ c \in Clients /\ inbox[c] = "nothing" /\ asked[c] = NoRequest
  /\ \E k \in Asks :
       /\ k = "file" => c \in FileClients
       /\ asked' = [asked EXCEPT ![c] = [kind |-> k, by |-> c]]
  /\ inbox' = [inbox EXCEPT ![c] = "request"]
  /\ UNCHANGED <<backlog, reset, told, closed, kernelVars, batch, serverVars, down>>

Leave(c) ==
  /\ c \in Probes /\ inbox[c] = "nothing"
  /\ inbox' = [inbox EXCEPT ![c] = "eof"]
  /\ UNCHANGED <<asked, backlog, reset, told, closed, kernelVars, batch, serverVars, down>>

\* The peer resets an accepted connection before it has been answered in full.
Reset(c) ==
  /\ c \in Droppers \ reset
  /\ \E f \in Fds : desc[f].client = c
  /\ inbox[c] \in {"nothing", "request"}
  /\ reset' = reset \cup {c}
  /\ UNCHANGED <<asked, inbox, backlog, told, closed, kernelVars, batch, serverVars, down>>

\* The client reads, and its socket takes data again.
Drain(f) ==
  /\ f \in full
  /\ full' = full \ {f}
  /\ UNCHANGED <<clientVars, told, closed, desc, interest, batch, serverVars, down>>

-----------------------------------------------------------------------------
(* The list of requests.                                                   *)

\* The first struct of a descriptor, 0 if there is none.
WithFd(list, f) == SelectInSeq(list, LAMBDA r : r.fd = f)

\* handle_request and send_chunk: the first struct with an index, or the last.
WithIndex(list, index) ==
  LET i == SelectInSeq(list, LAMBDA r : r.index = index)
  IN  IF i = 0 THEN Len(list) ELSE i

\* Slip: every struct is given index 0.
addRequestZero(f, request) ==
  Append(headOfArray, [fd |-> f, request |-> request, index |-> 0,
                       allSent |-> FALSE, fileopen |-> NoFile])

addRequest(f, request) ==
  Append(headOfArray, [fd |-> f, request |-> request, index |-> Len(headOfArray),
                       allSent |-> FALSE, fileopen |-> NoFile])

\* Slip: whatever the index, the head is removed.
removeRequestHead(list, index) == Tail(list)

removeRequest(list, index) ==
  LET i == SelectInSeq(list, LAMBDA r : r.index = index)
  IN  IF i = 0 THEN list ELSE RemoveAt(list, i)

-----------------------------------------------------------------------------
(* The event loop.                                                         *)

Event(f, ev) == [fd |-> f, events |-> ev]

\* Of a reset connection epoll also reports EPOLLERR and EPOLLHUP, so that its
\* events are not EPOLLIN any more.
Ready ==
  {Event(ListenFd, "in") : x \in {1} \cap 1 .. Len(backlog)}
    \cup {Event(f, "in") : f \in {g \in Fds : interest[g] = "in"
             /\ inbox[desc[g].client] # "nothing" /\ desc[g].client \notin reset}}
    \cup {Event(f, "out") : f \in {g \in Fds \ full : interest[g] = "out"
             /\ desc[g].client \notin reset}}
    \cup {Event(f, "hup") : f \in {g \in Fds : interest[g] # "none"
             /\ desc[g].client \in reset}}

\* event_list[] takes EVENTS of the events that are ready, whichever.
EpollWait ==
  /\ down = "no" /\ batch = {} /\ Ready # {}
  /\ IF Cardinality(Ready) <= EVENTS THEN batch' = Ready
     ELSE batch' \in kSubset(EVENTS, Ready)
  /\ UNCHANGED <<clientVars, told, closed, kernelVars, serverVars, down>>

Take(event) == down = "no" /\ event \in batch /\ batch' = batch \ {event}

FreeFds == {f \in Fds : desc[f].kind = "free"}
LowestFree == CHOOSE f \in FreeFds : \A g \in FreeFds : f <= g

Accept(event) ==
  /\ Take(event) /\ event.fd = ListenFd
  /\ FreeFds # {}
  /\ desc' = [desc EXCEPT ![LowestFree] = Socket(Head(backlog))]
  /\ interest' = [interest EXCEPT ![LowestFree] = "in"]
  /\ backlog' = Tail(backlog)
  /\ UNCHANGED <<asked, inbox, reset, told, closed, full, serverVars, down>>

\* Accept: exit(1) when accept has no descriptor to return.
AcceptFails(event) ==
  /\ Take(event) /\ event.fd = ListenFd
  /\ FreeFds = {}
  /\ down' = "exit"
  /\ UNCHANGED <<clientVars, told, closed, kernelVars, serverVars>>

\* RSIZE == 0: "do nothing".  The descriptor stays open and stays ready.
RecvNothing(event) ==
  /\ Take(event) /\ event.fd # ListenFd /\ event.events = "in"
  /\ IsSocket(event.fd) /\ inbox[Peer(event.fd)] = "eof"
  /\ UNCHANGED <<clientVars, told, closed, kernelVars, serverVars, down>>

Report == <<stats1.requests, stats1.headers, stats1.bodies, stats1.errors,
            stats1.errorHeaders>>

\* handle_request's response to the request of one struct.
Response(r) ==
  CASE r.kind = "ping"               -> [status |-> 200, body |-> <<"pong">>]
    [] r.kind \in {"echo", "write"}  -> [status |-> 200, body |-> <<r.by>>]
    [] r.kind = "read"               -> [status |-> 200, body |-> <<savedArray>>]
    [] r.kind = "half"               -> [status |-> 200, body |-> <<"junk">>]
    [] r.kind = "stats"              -> [status |-> 200, body |-> Report]
    [] r.kind = "other"              -> [status |-> 200, body |-> <<>>]
    [] r.kind = "file" /\ FreeFds # {} -> [status |-> 200, body |-> <<"file">>]
    [] \/ r.kind = "file" /\ FreeFds = {}
       \/ r.kind \in {"missing", "directory"}
                                     -> [status |-> 404, body |-> <<>>]
    [] r.kind = "big"                -> [status |-> 413, body |-> <<>>]
    [] OTHER                         -> [status |-> 400, body |-> <<>>]

IsFile(answer) == answer.body = <<"file">>

\* What handle_request leaves behind an answer: whether the connection stays
\* open (needMultipleSends) and the descriptor to be read for it (fd).  After
\* the goto both are what the stack happens to hold.
Outcomes(r) ==
  IF IsFile(Response(r)) THEN {[open |-> TRUE, file |-> LowestFree]}
  ELSE {[open |-> FALSE, file |-> NoFile]}
         \cup {[open |-> TRUE, file |-> g] : g \in {h \in Garbage : r.kind \in Unfinished}}

\* Slip: a file's header is counted with a body, as every other answer's is.
CountedWithBody(answer, open) ==
  IF answer.status = 200
  THEN [stats1 EXCEPT !.requests = @ + 1, !.headers = @ + 1, !.bodies = @ + 1]
  ELSE [stats1 EXCEPT !.errors = @ + 1, !.errorHeaders = @ + 1,
                      !.headers = IF open THEN @ + 1 ELSE @]

\* The header of a connection that stays open is counted whatever its status.
Counted(answer, open) ==
  IF answer.status = 200
  THEN [stats1 EXCEPT !.requests = @ + 1,
                      !.headers = @ + 1,
                      !.bodies = IF answer.body \in {<<"file">>, <<>>} THEN @ ELSE @ + 1]
  ELSE [stats1 EXCEPT !.errors = @ + 1, !.errorHeaders = @ + 1,
                      !.headers = IF open THEN @ + 1 ELSE @]

\* /write keeps Content-Length bytes of what stands behind the header: those
\* of the stack when nothing has come yet.
Written(r) ==
  IF r.kind = "write" THEN r.by ELSE IF r.kind = "half" THEN "junk" ELSE savedArray

\* The struct at position r of the list is answered; the one at position p,
\* which belongs to the descriptor, gets the file.
Respond(f, list, p, r, out) ==
  LET c      == Peer(f)
      req    == list[r].request
      after  == [[list EXCEPT ![r].allSent = ~out.open] EXCEPT ![p].fileopen = out.file]
      table  == IF req.kind \in {"file", "directory"} /\ FreeFds # {}
                THEN [desc EXCEPT ![LowestFree] = OpenFile(req.kind)] ELSE desc
      done   == after[p].allSent
  IN
  /\ told' = [told EXCEPT ![c] = Append(@, Response(req))]
  /\ stats1' = Counted(Response(req), out.open)
  /\ savedArray' = Written(req)
  /\ headOfArray' = IF done THEN removeRequest(after, list[p].index) ELSE after
  /\ desc' = IF done THEN [table EXCEPT ![f] = Free] ELSE table
  /\ interest' = [interest EXCEPT ![f] = IF done THEN "none" ELSE "out"]
  /\ full' = IF done THEN full \ {f} ELSE full
  /\ closed' = [closed EXCEPT ![c] = done]

\* The socket still is one, and its peer is there to be sent to.
Sendable(f) == IsSocket(f) /\ Peer(f) \notin reset

\* recv finds a request.
Receives(event) ==
  /\ Take(event) /\ event.fd # ListenFd /\ event.events = "in"
  /\ Sendable(event.fd) /\ inbox[Peer(event.fd)] = "request"

\* The struct whose request is answered: it is looked up by descriptor, then
\* handle_request looks up what it found by index.
Looked(f, list) == WithIndex(list, list[WithFd(list, f)].index)

\* A request is received, filed and answered.
Serve(event) ==
  LET f    == event.fd
      c    == Peer(f)
      list == addRequest(f, asked[c])
  IN
  /\ Receives(event)
  /\ inbox' = [inbox EXCEPT ![c] = "nothing"]
  /\ \E p, r \in DOMAIN list :
       /\ p = WithFd(list, f) /\ r = Looked(f, list)
       /\ \E out \in Outcomes(list[r].request) : Respond(f, list, p, r, out)
  /\ UNCHANGED <<asked, backlog, reset, down>>

\* strcat(response, version) where no method was found: the jump also skips
\* version, and what it holds need not be the address of anything.
ServeWild(event) ==
  LET list == addRequest(event.fd, asked[Peer(event.fd)]) IN
  /\ Receives(event)
  /\ list[Looked(event.fd, list)].request.kind = "blank"
  /\ down' = "wild"
  /\ UNCHANGED <<clientVars, told, closed, kernelVars, serverVars>>

Pointer(f) == WithFd(headOfArray, f)

\* The lookup by descriptor ends with NULL, and pointer->allSent is read.
SendWithoutStruct(event) ==
  /\ Take(event) /\ event.events # "in"
  /\ Pointer(event.fd) = 0
  /\ down' = "segv"
  /\ UNCHANGED <<clientVars, told, closed, kernelVars, serverVars>>

\* The descriptor read for a connection.
Source(f) == headOfArray[Pointer(f)].fileopen

\* Slip: read's result is not looked at.
HasChunkAlways(f) == Source(f) \in Fds /\ desc[Source(f)].kind = "file"

HasChunk(f) ==
  Source(f) \in Fds /\ desc[Source(f)].kind = "file" /\ desc[Source(f)].offset < CHUNKS

\* Read from a stray fd that is somebody's connection: its request, or silence,
\* for which read waits.
Overhears(f, what) ==
  Source(f) \in Fds /\ Sendable(Source(f)) /\ inbox[Peer(Source(f))] = what

HasText(f) == Overhears(f, "request")
IsSilent(f) == Overhears(f, "nothing")

Transfer(event) ==
  /\ Take(event) /\ event.events # "in"
  /\ Pointer(event.fd) # 0 /\ ~headOfArray[Pointer(event.fd)].allSent

\* send_chunk: the next chunk of the file, which may fill the socket.
SendChunk(event) ==
  LET f == event.fd
      file == Source(f) IN
  /\ Transfer(event) /\ HasChunk(f) /\ Sendable(f)
  /\ desc' = [desc EXCEPT ![file].offset = @ + 1]
  /\ told' = [told EXCEPT ![Peer(f)] = Append(@, desc[file].offset + 1)]
  /\ stats1' = [stats1 EXCEPT !.bodies = @ + 1]
  /\ full' \in {full, full \cup {f}}
  /\ UNCHANGED <<clientVars, closed, interest, headOfArray, savedArray, down>>

\* send_chunk, reading a stray fd: one client is sent what another asked.
SendText(event) ==
  LET f == event.fd
      c == Peer(Source(f)) IN
  /\ Transfer(event) /\ HasText(f) /\ Sendable(f)
  /\ inbox' = [inbox EXCEPT ![c] = "nothing"]
  /\ told' = [told EXCEPT ![Peer(f)] = Append(@, asked[c])]
  /\ stats1' = [stats1 EXCEPT !.bodies = @ + 1]
  /\ full' \in {full, full \cup {f}}
  /\ UNCHANGED <<asked, reset, backlog, closed, desc, interest, headOfArray, savedArray, down>>

\* Slip: the end of the file is not recorded.
SendEndQuiet(event) ==
  LET f == event.fd IN
  /\ Transfer(event) /\ ~HasChunk(f) /\ ~HasText(f) /\ ~IsSilent(f)
  /\ UNCHANGED <<clientVars, told, closed, kernelVars, serverVars, down>>

\* send_chunk: read returns 0, or fails.
SendEnd(event) ==
  LET f == event.fd
      r == headOfArray[Pointer(f)] IN
  /\ Transfer(event) /\ ~HasChunk(f) /\ ~HasText(f) /\ ~IsSilent(f)
  /\ headOfArray' = [headOfArray EXCEPT ![WithIndex(headOfArray, r.index)].allSent = TRUE]
  /\ UNCHANGED <<clientVars, told, closed, kernelVars, savedArray, stats1, down>>

Finished(event) ==
  /\ Take(event) /\ event.events # "in"
  /\ Pointer(event.fd) # 0 /\ headOfArray[Pointer(event.fd)].allSent

\* Recv, Send, Epoll_Ctl: exit(1), or SIGPIPE, when the connection is gone.
Fails(event) ==
  /\ \/ Take(event) /\ event.events = "in" /\ event.fd # ListenFd /\ ~Sendable(event.fd)
     \/ Transfer(event) /\ (HasChunk(event.fd) \/ HasText(event.fd)) /\ ~Sendable(event.fd)
     \/ Finished(event) /\ ~IsSocket(event.fd)
  /\ down' = "exit"
  /\ UNCHANGED <<clientVars, told, closed, kernelVars, serverVars>>

\* close of some descriptors: epoll forgets them, their peers are hung up on.
Close(fds) ==
  /\ desc' = [g \in Fds |-> IF g \in fds THEN Free ELSE desc[g]]
  /\ interest' = [g \in Fds |-> IF g \in fds THEN "none" ELSE interest[g]]
  /\ full' = full \ fds
  /\ closed' = [c \in Connections |-> closed[c] \/ \E g \in fds : Peer(g) = c]

\* Slip: the file is not closed.
FinishLeaking(event) ==
  LET r == headOfArray[Pointer(event.fd)] IN
  /\ Finished(event) /\ IsSocket(event.fd)
  /\ Close({event.fd})
  /\ headOfArray' = removeRequest(headOfArray, r.index)
  /\ UNCHANGED <<clientVars, told, savedArray, stats1, down>>

Finish(event) ==
  LET r == headOfArray[Pointer(event.fd)] IN
  /\ Finished(event) /\ IsSocket(event.fd)
  /\ Close({event.fd, r.fileopen} \cap Fds)
  /\ headOfArray' = removeRequest(headOfArray, r.index)
  /\ UNCHANGED <<clientVars, told, savedArray, stats1, down>>

Handle(event) ==
  \/ Accept(event) \/ AcceptFails(event) \/ RecvNothing(event) \/ Serve(event)
  \/ ServeWild(event) \/ SendWithoutStruct(event) \/ SendChunk(event) \/ SendText(event)
  \/ SendEnd(event) \/ Fails(event) \/ Finish(event)

Server == EpollWait \/ \E event \in batch : Handle(event)

\* read or recv waits for a connection that says nothing: its request went
\* elsewhere, or it was closed under the server and its number taken anew.
Waits(event) ==
  \/ /\ event.fd # ListenFd /\ event.events = "in"
     /\ Sendable(event.fd) /\ inbox[Peer(event.fd)] = "nothing"
  \/ Pointer(event.fd) # 0 /\ ~headOfArray[Pointer(event.fd)].allSent /\ IsSilent(event.fd)

\* Nothing to do: the server is down, sleeps in epoll_wait, or waits for one
\* client.
Asleep ==
  /\ \/ down # "no"
     \/ batch = {} /\ Ready = {}
     \/ \E event \in batch : Waits(event)
  /\ UNCHANGED vars

Next ==
  \/ \E c \in Connections : Connect(c) \/ Ask(c) \/ Leave(c) \/ Reset(c)
  \/ \E f \in Fds : Drain(f)
  \/ Server
  \/ Asleep

Spec == Init /\ [][Next]_vars

\* The kernel runs the server whenever an event is ready, and clients read
\* what they are sent; that they ask is up to them.
Fairness ==
  /\ WF_vars(Server)
  /\ WF_vars(\E f \in Fds : Drain(f))

FairSpec == Spec /\ Fairness

-----------------------------------------------------------------------------
(* Correctness.                                                            *)

Struct ==
  [fd : Fds, request : [kind : Asks, by : Clients], index : Nat,
   allSent : BOOLEAN, fileopen : Fds \cup {NoFile}]

\* Every variable keeps its type, whatever an uninitialised fd holds: descriptors
\* stay in the table, files within their length, and counters never drop.
TypeOK ==
  /\ asked \in [Connections -> [kind : Asks, by : Clients] \cup {NoRequest}]
  /\ closed \in [Connections -> BOOLEAN]
  /\ inbox \in [Connections -> {"new", "nothing", "request", "eof"}]
  /\ reset \subseteq Droppers
  /\ backlog \in Seq(Connections)
  /\ desc \in [Fds -> [kind : {"free", "socket", "file", "directory"},
                       client : Connections \cup {NoClient}, offset : 0 .. CHUNKS]]
  /\ interest \in [Fds -> {"none", "in", "out"}]
  /\ full \subseteq Fds
  /\ batch \subseteq [fd : Fds \cup {ListenFd}, events : {"in", "out", "hup"}]
  /\ headOfArray \in Seq(Struct)
  /\ stats1 \in [requests : Nat, headers : Nat, bodies : Nat, errors : Nat,
                 errorHeaders : Nat]
  /\ down \in {"no", "exit", "segv", "wild"}

\* The list and the descriptor table agree whatever index a struct got: there is
\* a struct for each connection that is sent to and no other, found by its
\* descriptor (hw4.c:672); each open file is that of one struct and no file is
\* forgotten.
Bookkeeping ==
  LET list == headOfArray IN
  /\ \A f \in Fds : interest[f] = "out" <=> \E i \in DOMAIN list : list[i].fd = f
  /\ \A i, j \in DOMAIN list : i # j =>
       /\ list[i].fd # list[j].fd
       /\ list[i].fileopen # list[j].fileopen \/ list[i].fileopen = NoFile
  /\ \A f \in Fds :
       /\ desc[f].kind = "socket" <=> interest[f] # "none"
       /\ desc[f].kind = "socket" => ~closed[desc[f].client]
       /\ desc[f].kind = "file" <=> \E i \in DOMAIN list : list[i].fileopen = f

\* The loop follows the NULL its lookup ends with (hw4.c:672-682) only for a
\* connection that was reset before it asked: a struct in use is always found.
NeverLost == down = "segv" => \E c \in reset : told[c] = <<>>

\* A client that asks is answered and hung up on (hw4.c:603-702), though a
\* probe's descriptor is never closed and stays ready for ever, as long as there
\* are descriptors for everyone and nobody's request is blank.
Served ==
  \A c \in Clients : asked[c] # NoRequest ~> closed[c]

\* "find the struct = request" (hw4.c:190), "find correct request struct"
\* (hw4.c:640): a client is answered what it asked itself.
AnswersOwn ==
  \A c \in Clients : told[c] # <<>> =>
    /\ told[c][1].body = <<"file">> => asked[c].kind = "file"
    /\ asked[c].kind \in {"echo", "write"} => told[c][1].body = <<c>>

\* The server implements the service: the answer fits the client's own
\* request, reads see the last write, statistics add up over all clients, and
\* a transfer is whole before the server hangs up.
Promise == INSTANCE WebService WITH
  asked <- [c \in Clients |-> asked[c]],
  told <- [c \in Clients |-> told[c]],
  closed <- [c \in Clients |-> closed[c]],
  saved <- savedArray

AnswersAsPromised == Promise!Spec

\* What /stats would report is what the clients have been told, one header and
\* at most one body each and the chunks (hw4.c:180, 447-499), also when one of
\* them was answered another's request.
StatsAddUp == Report \in Promise!Tallies
=============================================================================
