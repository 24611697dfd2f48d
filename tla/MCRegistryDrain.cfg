\* Expected violation: the task stops with commands still queued.
SPECIFICATION Spec
CONSTANTS
  BusIds = {b1}
  SessionIds = {s1}
  Descriptors = {d1}
  Handles = {h1}
  Readers = {}
  Capacity = 1
  NoCommand = NoCommand
PROPERTIES ShutdownDrainsQueue
