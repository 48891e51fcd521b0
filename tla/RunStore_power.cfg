\* Every interruption together, and both kinds of caller.
SPECIFICATION Spec
CONSTANTS
  Roles = {suite, policy}
  NoFile = NoFile
  NoRole = NoRole
  MaxFaults = 2
  MaxCrashes = 2
  MaxLosses = 2
  Callers = {TRUE, FALSE}
SYMMETRY RoleSymmetry
INVARIANTS
  TypeOK
  CommittedBytesSurvive
  CompleteIsReadable
  RecoverySettlesInputs
  AckedInputsDurable
  MemoryMatchesDisk
  DurableCompleteHasSummary
  DurableCompleteOpens
PROPERTIES
  TerminalIsFinal
  RefinesCustody
