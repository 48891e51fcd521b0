\* A process dies before it syncs the directory of a new journal.
SPECIFICATION Spec
CONSTANTS
  N = 2
  Contents = {answer}
  ErrorReport = ErrorReport
  NoArtifact = NoArtifact
  Arms = {"flat"}
  MaxFaults = 0
  MaxInterrupts = 1
  MaxLosses = 0
INVARIANT AppendIsDurable
