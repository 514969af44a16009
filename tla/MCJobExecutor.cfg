CONSTANTS
  MaxSteps = 3
  Plans <- MCPlans
  LowerOf <- MCLowerOf
  NumberOf <- MCNumberOf
  Dictionary <- MCDictionary
SPECIFICATION Spec
INVARIANT TypeOK
INVARIANT ResultIsSteps
INVARIANT StepsFollowStatus
INVARIANT ConditionMeansTree
INVARIANT DeltasReachLaterSteps
INVARIANT ContainerRemoved
CHECK_DEADLOCK FALSE
