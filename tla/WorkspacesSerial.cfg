SPECIFICATION Spec
CONSTANTS
  Procs = {p1}
  NoProc = NoProc
  Names = {a, b, c}
  Given = {a, b}
  Cmds <- AllCmds
  LongBackups = FALSE
  Flaky = {"down"}
  MaxDeaths = 1
INVARIANTS
  ListedTreesExist
  MountsAgree
  DestroyFreesSlot
CHECK_DEADLOCK FALSE
