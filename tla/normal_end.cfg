\* One passenger, one elevator: the elevator dies on the empty list.
CONSTANTS
  Passengers = {p1}
  Elevators = {e1}
  NoElevator = NoElevator
  NULL = NULL
  FLOORS = 2
  MAX_CAPACITY = 1
  TRIPS_PER_PASSENGER = 1
SPECIFICATION Spec
INVARIANT TerminatesNormally
