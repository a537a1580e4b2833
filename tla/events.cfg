\* Two runtimes of a driver that sends until it is answered, a turn, and either
\* a blocked input, an event lost or late, or a lost claim.
\* Nothing need happen once the bounds are used up.
CHECK_DEADLOCK FALSE
SPECIFICATION Spec
CONSTANTS
  Retries = TRUE
  MaxRuntimes = 2
  MaxTurns = 1
  MaxTroubles = 1
INVARIANTS ReadinessIsTheOwners
PROPERTIES SettledIsShown
