\* Expected violation: a reader that subscribes late waits on an old snapshot.
SPECIFICATION Spec
CONSTANTS
  BusIds = {b1, b2}
  SessionIds = {s1}
  Descriptors = {d1}
  Handles = {h1}
  Readers = {r1}
  Capacity = 1
  NoCommand = NoCommand
INVARIANTS WaitingReaderSeesEveryDevice
