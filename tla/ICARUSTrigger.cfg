SPECIFICATION Spec
CONSTANTS
  GateTypes = {"BNB"}
  n_init_retries = 2
  MaxGates = 2
  MaxTriggers = 2
  MaxPending = 2
  Garbage = {7}
INVARIANTS Inv
PROPERTIES TriggersDelivered StopReturns
CHECK_DEADLOCK FALSE
