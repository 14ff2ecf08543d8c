CONSTANTS
  NoProc = NoProc
  Procs = {p1, p2}
  Instances = {i1, i2, i3}
  MaxSlots = 2
  MaxCrashes = 1
SPECIFICATION Spec
SYMMETRY Symmetry
INVARIANT GrantedDistinct
