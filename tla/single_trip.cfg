\* Three passengers and two elevators, one trip each: the list is long enough for
\* a request to be linked, claimed and unlinked in its middle.
CONSTANTS
  Passengers = {p1, p2, p3}
  Elevators = {e1, e2}
  NoElevator = NoElevator
  NULL = NULL
  FLOORS = 2
  MAX_CAPACITY = 1
  TRIPS_PER_PASSENGER = 1
SPECIFICATION Spec
SYMMETRY ThreadSymmetry
INVARIANTS TypeOK ChecksStillHold NoLostRequest ClaimedInOrder OnlyLateCrash ListInv
PROPERTIES DeliversAsPromised AppendsToList
