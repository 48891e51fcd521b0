\* Arms that damage the evidence of the run.
SPECIFICATION ProcessSpec
CONSTANTS
  N = 4
  Contents = {answer}
  ErrorReport = ErrorReport
  NoArtifact = NoArtifact
  Arms = {"flat", "error", "invalid", "rewrite", "spoil"}
  MaxFaults = 1
  MaxInterrupts = 2
  MaxLosses = 0
INVARIANTS
  JournalInOrder
  CompleteIsWhole
