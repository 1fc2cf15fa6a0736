\* a = std::move(a->next) is allowed: the source is in the object a lets go of.
\* After the walk over a destroyed object nothing is defined, so no deadlock check.
CONSTANTS
  Objects = {o1, o2}
  Roots = {r1, r2}
  nullptr = nullptr
  Aliasing = TRUE
  Reentrant = FALSE
SPECIFICATION Spec
CHECK_DEADLOCK FALSE
INVARIANT
  SourceGivesUpItsReference
