SPECIFICATION Spec
CONSTANTS
  Reader = {r1, r2}
  FEMBs = 3
  EnabledFEMBs = {1, 3}
  configuration_tries = 2
  ScanTries = 2
  DetectTries = 2
  MaxProcesses = 2
INVARIANTS Inv ConfiguredWhenReady
PROPERTIES ConstructorReturns
CHECK_DEADLOCK FALSE
