\* Three clients, two of which may fetch files, beside a probe whose socket stays
\* ready for ever: structs get the index of others, clients are answered each
\* other's requests, cut ones are kept open, and still everyone is served.
CONSTANTS
  Clients = {c1, c2, c3}
  Probes = {x1}
  FileClients = {c1, c2}
  Droppers = {}
  Asks = {"file", "cut"}
  NoRequest = NoRequest
  NoClient = NoClient
  CHUNKS = 1
  OPEN_MAX = 6
  EVENTS = 16
  Garbage = {7}
SPECIFICATION ProbedSpec
INVARIANTS KeptInv StatsAddUp
PROPERTY Served
