\* Queues are rebuilt, reviewers write, and the file is loaded while they do.
SPECIFICATION Spec
CONSTANTS
  MaxInt = 3
  Overflow = Overflow
  Protocols <- MCProtocols
  Lists <- MCLists
  Opinions <- MCOpinions
  Digest <- MCDigest
  Blank = Blank
  NoReport = NoReport
  MaxLines = 4
INVARIANTS
  Blinded
  CountedAsSeen
  NothingSkipped
  CountsAddUp
  VariantsAreAlike
  BetterNeverHurts
  DisagreementsAreTrue
CHECK_DEADLOCK FALSE
