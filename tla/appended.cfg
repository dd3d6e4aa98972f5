\* Two passengers, two trips: a request linked behind a node just unlinked.
CONSTANTS
  Passengers = {p1, p2}
  Elevators = {e1}
  NoElevator = NoElevator
  NULL = NULL
  FLOORS = 2
  MAX_CAPACITY = 1
  TRIPS_PER_PASSENGER = 2
SPECIFICATION FairSpec
CHECK_DEADLOCK FALSE
PROPERTY AppendsToList
