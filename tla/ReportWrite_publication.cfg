\* Two outputs, two calls, every interruption.
SPECIFICATION Spec
CONSTANTS
  N = 2
  Directories = {here, there}
  MaxWrites = 3
  MaxFaults = 2
  MaxInterrupts = 1
  MaxLosses = 1
SYMMETRY DirectorySymmetry
INVARIANTS
  TypeOK
  AllOrNothing
  AcknowledgedSurvives
  PublishedStays
