\* One runtime of a driver that sends an event once, and one turn.
\* Nothing need happen once the bounds are used up.
CHECK_DEADLOCK FALSE
SPECIFICATION Spec
CONSTANTS
  Retries = FALSE
  MaxRuntimes = 1
  MaxTurns = 1
  MaxTroubles = 1
PROPERTY SettledIsShown
