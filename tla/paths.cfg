CONSTANTS
  Procs = {p1, p2}
  Settings = {"unset", "set"}
SPECIFICATION Spec
INVARIANTS
  OneDaemonPerStore
