\* Two clients may ask anything, cut requests included, one of them may be cut
\* off, and a probe leaves its socket ready for ever.  An uninitialised fd is no
\* descriptor's number.
CONSTANTS
  Clients = {c1, c2}
  Probes = {x1}
  FileClients = {c1, c2}
  Droppers = {c2}
  Asks = {"echo", "write", "read", "stats", "file", "directory", "bad", "half", "cut", "other"}
  NoRequest = NoRequest
  NoClient = NoClient
  CHUNKS = 2
  OPEN_MAX = 4
  EVENTS = 16
  Garbage = {5}
SPECIFICATION Spec
INVARIANTS TypeOK Bookkeeping NeverLost ServerInv
PROPERTIES AnswersAsPromised IndicesFresh
