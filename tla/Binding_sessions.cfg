\* An author who edits while sessions prepare, bind, are interrupted and resumed.
SPECIFICATION Spec
CONSTANTS
  Bundles <- MCBundles
  Editions <- MCEditions
  Names = {"tool", "prompt", "index"}
  Contents = {1, 2, 3}
  Plans = {few, many}
  NoConfig = NoConfig
  NoDocument = NoDocument
  NoFile = NoFile
  MaxEdits = 2
  MaxInterrupts = 1
  MaxFaults = 1
SYMMETRY MCSymmetry
INVARIANTS
  BoundIsOneMoment
  ArmsDifferInOneAsset
  OneExperiment
  FailsOnlyForEdits
CHECK_DEADLOCK FALSE
