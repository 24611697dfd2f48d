\* Progress of senders, of the task and of a reader: two handles compete for
\* one slot.
SPECIFICATION FairSpec
CONSTANTS
  BusIds = {b1}
  SessionIds = {}
  Descriptors = {d1}
  Handles = {h1, h2}
  Readers = {r1}
  Capacity = 1
  NoCommand = NoCommand
PROPERTIES SendReturns StopsWhenTold ReaderCatchesUp WaitersLearnOfClose
