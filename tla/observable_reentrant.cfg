\* Three listeners; callbacks call back into it.  A
\* walk over freed memory has no next step, hence no deadlock check.
CONSTANTS
  Listeners = {1, 2, 3}
  Reentrant = TRUE
CHECK_DEADLOCK FALSE
SPECIFICATION Spec
INVARIANTS
  SortedWithoutDuplicates
  IndInv
