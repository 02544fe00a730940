SPECIFICATION Spec
CONSTANTS
  one = one
  other = other
  Procs <- TwoProcs
  HelpersOff = 1
  LastMonth = 2
  MaxAdds = 4
  MaxFaults = 1
CHECK_DEADLOCK FALSE
SYMMETRY Interchangeable
INVARIANTS
  TypeOK
  CountsItsMonth
  LostOnlyIfCrossed
  OvershootBounded
