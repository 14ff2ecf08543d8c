SPECIFICATION Spec
CONSTANTS
  Procs = {p1, p2}
  NoProc = NoProc
  Names = {a, b}
  Given = {a}
  Cmds <- AllCmds
  LongBackups = FALSE
  Flaky = {"probe"}
  MaxDeaths = 1
SYMMETRY Symmetry
INVARIANTS
  LocksMatchControl
  AtLeastOneWorkspace
  RunningIsRegistered
  BackupSeesStoppedInstance
  NobodyWaits
CHECK_DEADLOCK FALSE
