\* Three threads ask for two types; the third id is the invalid one.
CONSTANTS
  Threads = {t1, t2, t3}
  Types = {A, B}
  ReprSize = 3
SPECIFICATION Spec
INVARIANTS
  OwnStableId
PROPERTY
  CallsReturn
