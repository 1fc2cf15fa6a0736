\* Four listeners, so the vector grows three times; callbacks leave it alone.
CONSTANTS
  Listeners = {1, 2, 3, 4}
  Reentrant = FALSE
SPECIFICATION Spec
INVARIANTS
  NotifiedExactlyOnce
PROPERTY
  ImplementsSubscriberSet
