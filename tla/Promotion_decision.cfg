SPECIFICATION Spec
CONSTANTS
  c1 = c1
  c2 = c2
  g = g
  unknown = unknown
  quality = quality
  safety = safety
  Nothing = Nothing
  Suite <- MCSuite
  GroupsOf <- MCGroupsOf
  Repeats = 2
  MaxInt = 3
  Overflow = Overflow
  Metrics <- MCMetrics
  OutcomesAt <- MCOutcomesAt
  Policies <- MCPolicies
INVARIANTS
  PassIsEarned
  PublishedPassIsEarned
  DecisionOfOneMoment
  MissingNeverHelps
  WorseNeverHelps
  CostsAreTrue
