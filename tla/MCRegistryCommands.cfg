\* What commands do to the registry: one handle, no reader, so that devices,
\* sessions and descriptors can be two each.
SPECIFICATION Spec
CONSTANTS
  BusIds = {b1, b2}
  SessionIds = {s1, s2}
  Descriptors = {d1, d2}
  Handles = {h1}
  Readers = {}
  Capacity = 1
  NoCommand = NoCommand
SYMMETRY Interchangeable
INVARIANTS IndexMatchesTable
PROPERTIES DeviceNotSwappedUnderSession ImplementsDeviceTable
