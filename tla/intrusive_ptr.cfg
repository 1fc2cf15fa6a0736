\* Three objects, each with a pointer of its own, and two pointers of the client:
\* lists, shared tails, and cycles of every length up to three.
CONSTANTS
  Objects = {o1, o2, o3}
  Roots = {r1, r2}
  nullptr = nullptr
  Aliasing = FALSE
  Reentrant = TRUE
SPECIFICATION Spec
INVARIANTS
  CountsPointers
  NoUseAfterDestroy
  OnlyCyclesLeak
PROPERTY
  OperationsComplete
