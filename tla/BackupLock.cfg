CONSTANTS
  NoProc = NoProc
  Procs = {b1, b2, q1}
  Backers = {b1, b2}
  Grace = 1
  MaxTime = 3
  MaxCrashes = 2
SPECIFICATION FairSpec
INVARIANTS
  MutualExclusion
  MetadataIsTheInsiders
PROPERTIES
  ImplementsMutex
  FalseOnlyByStaleRecord
  CallsEnd
