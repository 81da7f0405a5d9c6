CONSTANTS
  NONE = NONE
  ui = ui
  worker = worker
  Callers = {ui, worker}
  Commands <- MCCommands
  Capacity = 3
  ReadMax = 2
  Handles <- MCHandles
  MaxKinds = 1
  Faults = {"pipe", "spawn", "overlap", "threads"}
SPECIFICATION Spec
INVARIANT TypeOK
INVARIANT OwnAnswer
INVARIANT NoLeak
INVARIANT OthersUntouched
PROPERTY CallsEnd
