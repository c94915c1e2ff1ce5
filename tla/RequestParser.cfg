CONSTANTS
  FlagNames <- MCFlagNames
  FlagValues <- MCFlagValues
  TargetNames <- MCTargetNames
  Malformed = Malformed
  Bare = Bare
  W = "W"
  MaxFlags = 2
  MaxTokens = 4
SPECIFICATION Spec
INVARIANTS TypeOK ParsesAsDefined CanonicalIsStable ModesAgree
CHECK_DEADLOCK FALSE
