--------------------------- MODULE EventServerMC ---------------------------
(* A bound for the run of EventServer with three clients.                   *)
EXTENDS EventServerInv

\* The probes have come and gone, and their sockets stay ready for ever, before
\* the first client connects.
ProbedNext ==
  /\ Next
  /\ \A c \in Clients : inbox[c] = "new" /\ inbox'[c] # "new" =>
       \A x \in Probes : inbox[x] = "eof" /\ \E f \in Fds : desc[f].client = x

ProbedSpec == Init /\ [][ProbedNext]_vars /\ Fairness
=============================================================================
