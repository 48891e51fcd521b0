\* Honest arms that write their artifact directly; every interruption, two failing calls.
SPECIFICATION FairSpec
CONSTANTS
  N = 4
  Contents = {answer}
  ErrorReport = ErrorReport
  NoArtifact = NoArtifact
  Arms = {"flat", "error", "deadline"}
  MaxFaults = 2
  MaxInterrupts = 2
  MaxLosses = 2
INVARIANTS
  CellsBackedByArtifacts
  InterruptionNeverFails
  AckedCellsDurable
  DurableCompleteIsWhole
PROPERTY EventuallyEnds
