\* What readers see: one device and one session, two readers.
SPECIFICATION Spec
CONSTANTS
  BusIds = {b1}
  SessionIds = {s1}
  Descriptors = {d1}
  Handles = {h1}
  Readers = {r1, r2}
  Capacity = 1
  NoCommand = NoCommand
SYMMETRY Interchangeable
INVARIANTS TypeOK IndexMatchesTable PublishedIsCurrent NoLostWakeup
