\* One passenger, three trips, three floors, three elevators that are slow to
\* remove: the list holds all three requests at once, and two may be equal.
CONSTANTS
  Passengers = {p1}
  Elevators = {e1, e2, e3}
  NoElevator = NoElevator
  NULL = NULL
  FLOORS = 3
  MAX_CAPACITY = 1
  TRIPS_PER_PASSENGER = 3
SPECIFICATION Spec
SYMMETRY ThreadSymmetry
CONSTRAINT RoundOrToAndFro
CHECK_DEADLOCK FALSE
INVARIANTS NoViolation SoleCarrier ServedStaysListed RaceInv ElevatorsTouchLive
