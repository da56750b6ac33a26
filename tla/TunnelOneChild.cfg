\* Two callers, two pids: how two children come to live at once.
SPECIFICATION Spec
CONSTANTS
  Callers = {c1, c2}
  Pids = {p1, p2}
  NoPid = NoPid
  Inodes = {i1, i2, i3}
  NoFile = NoFile
  Unix = TRUE
  Strangers = {}
  MaxBirths = 3
INVARIANTS
  OneChild
