\* Two passengers, one elevator with room for both, two trips each: the list
\* loses and corrupts requests, so the system may hang.  The ride stays safe.
CONSTANTS
  Passengers = {p1, p2}
  Elevators = {e1}
  NoElevator = NoElevator
  NULL = NULL
  FLOORS = 2
  MAX_CAPACITY = 2
  TRIPS_PER_PASSENGER = 2
SPECIFICATION Spec
SYMMETRY ThreadSymmetry
CHECK_DEADLOCK FALSE
INVARIANT IInv
PROPERTY DeliversAsPromised
