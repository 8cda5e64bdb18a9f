SPECIFICATION DriverSpec
CONSTANTS
  NULL = NULL
  DriverArgs <- AllArgs
  Outcomes = {"ok", "fail", "signal", "noexec"}
  Interrupts = TRUE
  RETRY_LIMIT = 2
INVARIANTS
  SuccessIsWhole
  FailedLinkKeepsObjectsMade
  NoPartialButKept
  InputsUntouched
PROPERTIES
  DriverEnds
