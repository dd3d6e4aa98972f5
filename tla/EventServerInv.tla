--------------------------- MODULE EventServerInv ---------------------------
(***************************************************************************)
(* How the list, the descriptor table, epoll and each client's side of the *)
(* conversation agree in every state of EventServer.  LoopInv holds        *)
(* whatever happens; KeptInv as long as an uninitialised fd (hw4.c:250,    *)
(* 503) is no descriptor's number, whatever indices the structs get;       *)
(* ServerInv as long as, besides, no struct is given the index of another. *)
(* The loop of hw4/hw4.c checks none of this; every lookup of it relies on *)
(* it.                                                                     *)
(***************************************************************************)
EXTENDS EventServer

\* What an uninitialised fd holds is never the number of a descriptor.
Harmless == Garbage \cap Fds = {}

\* What a client has been told: an answer, then the chunks 1, 2, ...
InOrder(s) ==
  /\ Len(s) \in Nat
  /\ s = [i \in 1 .. Len(s) |-> IF i = 1 THEN s[1] ELSE i - 1]
  /\ s # <<>> => s[1].status \in {200, 400, 404, 413}

Types ==
  /\ TypeOK
  /\ told = [c \in Connections |-> told[c]]
  /\ \A c \in Connections : InOrder(told[c])
  /\ savedArray \in Clients \cup {"<empty>", "junk"}

\* epoll watches the sockets, which belong to a connection.
Descriptors ==
  \A f \in Fds :
    /\ IsSocket(f) <=> interest[f] # "none"
    /\ IsSocket(f) <=> desc[f].client # NoClient

\* A connection waits in the backlog, or has one socket, or none any more; it
\* is watched for input until it is answered, then for output.
Places ==
  /\ \A f, g \in Fds : IsSocket(f) /\ desc[f].client = desc[g].client => f = g
  /\ \A i, j \in 1 .. Len(backlog) : backlog[i] = backlog[j] => i = j
  /\ \A i \in 1 .. Len(backlog) :
       /\ \A f \in Fds : desc[f].client # backlog[i]
       /\ inbox[backlog[i]] # "new" /\ told[backlog[i]] = <<>>
  /\ \A f \in Fds : IsSocket(f) =>
       /\ inbox[desc[f].client] # "new" /\ ~closed[desc[f].client]
       /\ interest[f] = "in" <=> told[desc[f].client] = <<>>

\* How far a client is: it asks once, is answered once, then hung up on.
Conversations ==
  \A c \in Connections :
    /\ inbox[c] = "new" => told[c] = <<>>
    /\ inbox[c] = "request" => asked[c] # NoRequest /\ told[c] = <<>>
    /\ inbox[c] = "eof" => c \in Probes
    /\ asked[c] # NoRequest => c \in Clients /\ asked[c].by = c
    /\ told[c] # <<>> => asked[c] # NoRequest
    /\ closed[c] => told[c] # <<>>

\* An event of the batch still fits its descriptor when its turn comes.
Events ==
  /\ \A e1, e2 \in batch : e1.fd = e2.fd => e1 = e2
  /\ \A e \in batch :
       IF e.fd = ListenFd THEN e.events = "in" /\ backlog # <<>>
       ELSE /\ IsSocket(e.fd)
            /\ e.events = "in" =>
                 interest[e.fd] = "in" /\ inbox[desc[e.fd].client] \in {"request", "eof"}
            /\ e.events = "out" => interest[e.fd] = "out"
            /\ e.events = "hup" => desc[e.fd].client \in reset

\* A struct of the list belongs to a connection: its client has been told an
\* answer and as many chunks as the file of the struct has been read.  Of the
\* structs with one index only the first is ever marked allSent, since
\* handle_request and send_chunk look for the first.
Filed ==
  \A i \in 1 .. Len(headOfArray) :
    LET r == headOfArray[i]
        c == desc[r.fd].client IN
    /\ interest[r.fd] = "out"
    /\ r.request = asked[c]
    /\ r.fileopen \in Fds => desc[r.fileopen].kind = "file"
    /\ Len(told[c]) = IF r.fileopen \in Fds THEN desc[r.fileopen].offset + 1 ELSE 1
    /\ IsFile(told[c][1]) <=> r.fileopen \in Fds
    /\ r.allSent => \A j \in 1 .. i - 1 : headOfArray[j].index # r.index

OneEach ==
  \A i, j \in 1 .. Len(headOfArray) :
    \/ headOfArray[i].fd = headOfArray[j].fd
    \/ headOfArray[i].fileopen \in Fds /\ headOfArray[i].fileopen = headOfArray[j].fileopen
    => i = j

\* No transfer and no file is without its struct.
Complete ==
  \A f \in Fds :
    /\ interest[f] = "out" => \E i \in 1 .. Len(headOfArray) : headOfArray[i].fd = f
    /\ desc[f].kind = "file" =>
         \E i \in 1 .. Len(headOfArray) : headOfArray[i].fileopen = f

Statistics == Report \in Promise!Tallies

\* What the loop (hw4.c:593-705) keeps whatever index a struct gets.
KeptInv ==
  /\ Types /\ Descriptors /\ Places /\ Conversations /\ Events
  /\ Filed /\ OneEach /\ Complete /\ Statistics /\ NeverLost

\* Nobody's text is taken for a file.
Texts ==
  /\ told = [c \in Connections |-> told[c]]
  /\ savedArray \in Clients \cup {"<empty>", "junk"}

\* Connections are told apart: one is in the backlog, or has one socket, or
\* neither.
Owners ==
  /\ \A f, g \in Fds : IsSocket(f) /\ Peer(f) = Peer(g) => f = g
  /\ \A i, j \in 1 .. Len(backlog) : backlog[i] = backlog[j] => i = j
  /\ \A i \in 1 .. Len(backlog) :
       /\ \A f \in Fds : Peer(f) # backlog[i]
       /\ inbox[backlog[i]] # "new" /\ told[backlog[i]] = <<>>
  /\ \A f \in Fds : IsSocket(f) => inbox[Peer(f)] # "new"
  /\ \A c \in Connections :
       /\ inbox[c] = "new" => told[c] = <<>> /\ c \notin reset
       /\ inbox[c] = "request" => asked[c] # NoRequest
       /\ asked[c] # NoRequest => c \in Clients

HasStruct(f) == \E i \in 1 .. Len(headOfArray) : headOfArray[i].fd = f

\* Who has been told anything, or is to be sent to, has a struct with its
\* descriptor.
Listed ==
  \A f \in Fds : IsSocket(f) /\ (interest[f] = "out" \/ told[Peer(f)] # <<>>) => HasStruct(f)

\* Of the structs with one index only the first is ever marked.
FirstMarked ==
  \A i \in 1 .. Len(headOfArray) : headOfArray[i].allSent =>
    \A j \in 1 .. i - 1 : headOfArray[j].index # headOfArray[i].index

\* An event of output finds its struct, even after its descriptor was closed by
\* way of another struct and given to somebody else; a reset connection may
\* have none.
Found ==
  /\ \A e1, e2 \in batch : e1.fd = e2.fd => e1 = e2
  /\ \A e \in batch :
       /\ e.fd = ListenFd => e.events = "in" /\ backlog # <<>>
       /\ e.events = "out" => HasStruct(e.fd)
       /\ e.events = "hup" =>
            \/ HasStruct(e.fd)
            \/ \E c \in reset :
                 /\ told[c] = <<>>
                 /\ \A f \in Fds \ {e.fd} : Peer(f) # c
                 /\ \A i \in 1 .. Len(backlog) : backlog[i] # c

\* What the loop keeps even when an uninitialised fd is another's descriptor, so
\* that files and connections are read and closed that belong to others: no
\* lookup by descriptor ends with NULL but for a reset connection.
LoopInv ==
  /\ TypeOK /\ Texts /\ Descriptors /\ Owners
  /\ Listed /\ FirstMarked /\ Found /\ NeverLost

\* With an index of its own, a struct is that of a file's transfer, and marked
\* when the file is at its end, or of a cut request left open, with no file.
Transfers ==
  \A i \in 1 .. Len(headOfArray) :
    LET r == headOfArray[i] IN
    /\ IF r.fileopen \in Fds THEN r.request.kind = "file" ELSE r.request.kind \in Unfinished
    /\ r.allSent /\ r.fileopen \in Fds => desc[r.fileopen].offset = CHUNKS

Apart ==
  \A i, j \in 1 .. Len(headOfArray) :
    headOfArray[i].index = headOfArray[j].index => i = j

ServerInv == KeptInv /\ Transfers /\ Apart

\* No request is filed under an index still in use.  addRequest (hw4.c:87)
\* takes the length of the list, which a struct that outlived an older one may
\* have as its index.
NoReuse ==
  \A event \in batch : Serve(event) =>
    LET list == addRequest(event.fd, asked[Peer(event.fd)]) IN
    \A i \in 1 .. Len(list) - 1 : list[i].index # list[Len(list)].index

\* The same as a property of the steps: true with two clients, not with three.
IndicesFresh == [][NoReuse]_vars

\* The index is never in use when only two clients ask.
LastAlone ==
  \A c \in Clients : told[c] = <<>> =>
    \A i \in 1 .. Len(headOfArray) : i = 1 /\ headOfArray[i].index = 0
=============================================================================
