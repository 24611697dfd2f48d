\* One import_device call: three attempts, as in the code, field of two bytes.
SPECIFICATION FairSpec
CONSTANTS
  MaxRetries = 3
  WireBytes = 2
  Busids <- MCBusids
INVARIANTS TypeOK OneConnection ImportAgreed RefusalIsFinal NothingElseAwaited
PROPERTIES ImportReturns AcceptLoopGoesOn
