\* Three clients; an uninitialised fd may be anybody's descriptor, and event_list[]
\* does not take every event that is ready.
CONSTANTS
  Clients = {c1, c2, c3}
  Probes = {}
  FileClients = {c1, c2}
  Droppers = {c2}
  Asks = {"file", "blank"}
  NoRequest = NoRequest
  NoClient = NoClient
  CHUNKS = 1
  OPEN_MAX = 3
  EVENTS = 2
  Garbage = {1, 2, 3, 4}
SPECIFICATION Spec
INVARIANT LoopInv
