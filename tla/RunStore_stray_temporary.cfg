\* A process dies while it copies an input.
SPECIFICATION Spec
CONSTANTS
  Roles = {suite}
  NoFile = NoFile
  NoRole = NoRole
  MaxFaults = 0
  MaxCrashes = 1
  MaxLosses = 0
  Callers = {TRUE}
INVARIANT RecoveryCompletesOrDiscards
