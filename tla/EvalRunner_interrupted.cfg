\* Honest arms; cancellations, process deaths and failing system calls.
SPECIFICATION ProcessSpec
CONSTANTS
  N = 4
  Contents = {answer}
  ErrorReport = ErrorReport
  NoArtifact = NoArtifact
  Arms = {"flat", "nested", "error", "deadline"}
  MaxFaults = 2
  MaxInterrupts = 2
  MaxLosses = 0
INVARIANT TypeOK
PROPERTY RefinesLog
