\* Three threads share the mocks; two devices.
SPECIFICATION Spec
CONSTANTS
  Threads = {t1, t2, t3}
  BusIds = {b1, b2}
  Nobody = Nobody
SYMMETRY Interchangeable
INVARIANTS BoundOnce RoutesFollowServing EventsExplainDevices SomeCallGoesOn
