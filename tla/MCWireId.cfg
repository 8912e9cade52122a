\* The bounds on the ids end a behaviour.
CHECK_DEADLOCK FALSE
CONSTANTS
  ClientId <- MCClientId
  MaxSent = 130
  MaxPending = 1
SPECIFICATION Spec
INVARIANTS SmallIdsClear NearbyIdsDistinct
