\* Two transfers and a third request: two structs get the same index.
CONSTANTS
  Clients = {c1, c2, c3}
  Probes = {}
  FileClients = {c1, c2}
  Droppers = {}
  Asks = {"echo", "file"}
  NoRequest = NoRequest
  NoClient = NoClient
  CHUNKS = 2
  OPEN_MAX = 6
  EVENTS = 16
  Garbage = {7}
SPECIFICATION Spec
INVARIANT AnswersOwn
