\* Three lines out of eleven, on a descriptor table with room for four copies.
CONSTANTS
  Creatable <- Names
  Direct <- Scripts
  Path <- Directories
  Installed <- Programs
  NARGV = 4
  Lines <- TheLines
  Existing <- Files
  OPEN_MAX = 10
  MAX_LINES = 3
SPECIFICATION FairSpec
INVARIANT TypeOK
PROPERTIES RunsAsAsked KeepsStreams SearchIsRight ShownByAll LineEnds
