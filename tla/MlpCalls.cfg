SPECIFICATION Spec
CONSTANTS
  Lengths = {7, 13}
  Blocks = 2
  Options <- MCOptions
  Budgets = {5, 10, 15}
  HardFullLimit = 16
  CorrectnessCap = 12
  Alignment = 2
  Minimum = 5
  Margin = 2
  Candidates = {4, 8}
  MaxForwards = 5
INVARIANT ResultWhole
PROPERTY GrowthEarned
CHECK_DEADLOCK FALSE
