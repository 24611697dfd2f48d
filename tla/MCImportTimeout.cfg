\* Expected violation: silence is reported as exhausted retries.
SPECIFICATION Spec
CONSTANTS
  MaxRetries = 3
  WireBytes = 2
  Busids <- MCBusids
INVARIANTS SilenceIsTimeout
