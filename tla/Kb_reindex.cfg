CONSTANTS
  Nil = Nil
  Bad = Bad
  Doc = {1, 2}
  KbOf <- MCKbOf
  Text = {0, 1, 2}
  Indexed <- MCIndexed
  Run = {r1, r2}
  MaxEdits = 1
  MaxFaults = 1
SPECIFICATION Spec
INVARIANTS ReadsAreWhole SortedRunsPass
PROPERTIES FreshRunSettles
