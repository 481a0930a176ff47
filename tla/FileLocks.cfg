CONSTANTS
  Session = {s1, s2}
  Host <- OneHost
  Fault = {"symlink", "open", "write", "hook", "crash"}
  Nil = Nil
SPECIFICATION Spec
INVARIANTS
  Exclusive
  NoBlindOverwrite
  NoLeak
SYMMETRY Perms
CHECK_DEADLOCK FALSE
