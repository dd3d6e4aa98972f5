----------------------------- MODULE WebService -----------------------------
(***************************************************************************)
(* What the requests of hw4/hw4.c promise a client, with no sockets, no    *)
(* descriptors and no list: a client asks once, is told one answer that    *)
(* fits what IT asked, for a file then every chunk of it in order, and is  *)
(* hung up on when it has been told everything, not before.  A client whose *)
(* request was cut short or blank may be kept waiting for that, and cost a *)
(* header in the statistics beside its error.                              *)
(***************************************************************************)
EXTENDS Naturals, Sequences, FiniteSets

CONSTANTS
  Clients,
  Asks,         \* the kinds of request clients make
  NoRequest,
  CHUNKS        \* how many chunks a file takes

VARIABLES
  asked,        \* what a client asked: [kind, by], or NoRequest
  told,         \* what it was told: an answer, then chunk numbers
  closed,       \* whether the service has hung up
  saved         \* the text the last /write left, junk if it came too late

wvars == <<asked, told, closed, saved>>

\* Requests whose answer may be left open.
Unfinished == {"cut", "blank"}

\* Chunks told to any client.
ChunksTold == Cardinality({chunk \in Clients \X (2 .. CHUNKS + 1) :
                             chunk[2] <= Len(told[chunk[1]])})

Answered(statuses) ==
  {c \in Clients : told[c] # <<>> /\ told[c][1].status \in statuses}

Ok == {200}
Failed == {400, 404, 413}

\* Answers with no body of their own: a file's follows, OTHER has none.
Bodiless == {<<"file">>, <<>>}

\* The clients whose error may have been counted as a header, too.
Doubtful == IF Asks \cap Unfinished = {} THEN {} ELSE Answered({400})

\* What /stats may say: answers and bodies before this one, of every client.
Tallies ==
  LET ok     == Cardinality(Answered(Ok))
      errors == Cardinality(Answered(Failed))
      bodies == Cardinality({c \in Answered(Ok) : told[c][1].body \notin Bodiless}) + ChunksTold
  IN  {<<ok, ok + twice, bodies, errors, errors>> : twice \in 0 .. Cardinality(Doubtful)}

Says(status, body) == [status |-> status, body |-> body]

\* The answers that fit a request.  A file may also be missing because the
\* service has run out of descriptors.
Fitting(r) ==
  CASE r.kind = "ping"               -> {Says(200, <<"pong">>)}
    [] r.kind \in {"echo", "write"}  -> {Says(200, <<r.by>>)}
    [] r.kind = "read"               -> {Says(200, <<saved>>)}
    [] r.kind = "half"               -> {Says(200, <<"junk">>)}
    [] r.kind = "stats"              -> {Says(200, tally) : tally \in Tallies}
    [] r.kind = "other"              -> {Says(200, <<>>)}
    [] r.kind = "file"               -> {Says(200, <<"file">>), Says(404, <<>>)}
    [] r.kind \in {"missing", "directory"} -> {Says(404, <<>>)}
    [] r.kind = "big"                -> {Says(413, <<>>)}
    [] OTHER                         -> {Says(400, <<>>)}

Init ==
  /\ asked = [c \in Clients |-> NoRequest]
  /\ told = [c \in Clients |-> <<>>]
  /\ closed = [c \in Clients |-> FALSE]
  /\ saved = "<empty>"

Ask(c) ==
  /\ asked[c] = NoRequest
  /\ \E k \in Asks : asked' = [asked EXCEPT ![c] = [kind |-> k, by |-> c]]
  /\ UNCHANGED <<told, closed, saved>>

\* An answer; all but a file's is the whole story, and the end of it.
Answer(c) ==
  /\ asked[c] # NoRequest /\ told[c] = <<>>
  /\ \E a \in Fitting(asked[c]) :
       /\ told' = [told EXCEPT ![c] = <<a>>]
       /\ \E hangUp \in BOOLEAN :
            /\ hangUp \/ a.body = <<"file">> \/ asked[c].kind \in Unfinished
            /\ a.body = <<"file">> => ~hangUp
            /\ closed' = [closed EXCEPT ![c] = hangUp]
  /\ saved' = IF asked[c].kind = "write" THEN c
              ELSE IF asked[c].kind = "half" THEN "junk" ELSE saved
  /\ UNCHANGED asked

\* How much there is to tell after an answer, with it.
Whole(answer) == IF answer.body = <<"file">> THEN CHUNKS + 1 ELSE 1

Chunk(c) ==
  /\ told[c] # <<>> /\ ~closed[c] /\ Len(told[c]) < Whole(told[c][1])
  /\ told' = [told EXCEPT ![c] = Append(@, Len(@))]
  /\ UNCHANGED <<asked, closed, saved>>

HangUp(c) ==
  /\ told[c] # <<>> /\ ~closed[c] /\ Len(told[c]) = Whole(told[c][1])
  /\ closed' = [closed EXCEPT ![c] = TRUE]
  /\ UNCHANGED <<asked, told, saved>>

Next == \E c \in Clients : Ask(c) \/ Answer(c) \/ Chunk(c) \/ HangUp(c)

Spec == Init /\ [][Next]_wvars
=============================================================================
