\* Two passengers and two elevators: everyone is served, and all threads end or
\* the process dies.
CONSTANTS
  Passengers = {p1, p2}
  Elevators = {e1, e2}
  NoElevator = NoElevator
  NULL = NULL
  FLOORS = 2
  MAX_CAPACITY = 1
  TRIPS_PER_PASSENGER = 1
SPECIFICATION FairSpec
PROPERTY Ends
