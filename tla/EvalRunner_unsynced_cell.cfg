\* A process dies between the write and the sync of the last cell.
SPECIFICATION Spec
CONSTANTS
  N = 2
  Contents = {answer}
  ErrorReport = ErrorReport
  NoArtifact = NoArtifact
  Arms = {"flat"}
  MaxFaults = 0
  MaxInterrupts = 1
  MaxLosses = 0
INVARIANT CompleteIsDurable
