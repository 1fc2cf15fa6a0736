\* A guard that was moved from may be moved from again.
CONSTANTS
  Callbacks = {c1}
  MaxGuards = 3
  MoveAgain = TRUE
SPECIFICATION Spec
CHECK_DEADLOCK FALSE
INVARIANT
  MovedFromGuardDoesNotRun
