CONSTANTS
  NoProc = NoProc
  Procs = {p1, p2}
  Names = {n1, n2}
  MaxCrashes = 1
SPECIFICATION FairSpec
INVARIANTS
  NoLostUpdate
PROPERTIES
  ImplementsTable
  CallsEnd
