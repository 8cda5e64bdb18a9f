SPECIFICATION Spec
CONSTANTS
  k1 = k1
  k2 = k2
  k3 = k3
  k4 = k4
  Keys = {k1, k2, k3, k4}
  NULL = NULL
  MaxErrors = 3
  MaxRequests = 4
  Requests <- MCRequests
INVARIANTS
  CyclingIsOnStack
  ResolvedInOneStep
  LeadsToFinalName
  EachCycleReportedOnce
PROPERTY RenamingTerminates
