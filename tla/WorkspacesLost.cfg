SPECIFICATION Spec
CONSTANTS
  Procs = {p1, p2}
  NoProc = NoProc
  Names = {a, b, c}
  Given = {a, b}
  Cmds = {"add", "remove"}
  LongBackups = FALSE
  Flaky = {}
  MaxDeaths = 0
SYMMETRY Symmetry
INVARIANTS
  ListedTreesExist
CHECK_DEADLOCK FALSE
