\* Three callbacks and four guards; two delegates, a free function, a class with
\* two methods and two objects, and a functor; calls nested up to four deep;
\* pointers to members of two classes; and packs of three types that decay to one
\* of two; and loops over up to six pairs of indices, sizes whose product does not
\* fit, and calls that take up to five ticks, two to a period.
CONSTANTS
  Callbacks = {c1, c2, c3}
  MaxGuards = 4
  get = get
  set = set
  call = call
  first = first
  second = second
  functor = functor
  Delegates = {d1, d2}
  Functions = {"fn"}
  Methods = {get, set, call}
  Objects = {first, second, functor}
  ClassOf <- MCClassOf
  nullptr = nullptr
  MaxInvocations = 2
  Messages = {"a", "b"}
  unknown = unknown
  MaxCalls = 4
  Classes = {C1, C2}
  void = void
  Decayed = {"int", "float"}
  MaxPack = 3
  Results = {"x", "y"}
  thrown = thrown
  none = none
  SizeT = 8
  MaxSize = 3
  MaxArgs = 3
  Period = 2
  MaxTicks = 5
SPECIFICATION Spec
CHECK_DEADLOCK FALSE
INVARIANTS
  ThunkMatchesInstance
  PrintsEveryLevel
  CallsAsAsked
PROPERTIES
  GuardsUndoOnce
  HoldsOneTarget
  TypesReadBack
