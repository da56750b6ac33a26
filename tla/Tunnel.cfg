\* Two callers, two pids, three births.
SPECIFICATION Spec
CONSTANTS
  Callers = {c1, c2}
  Pids = {p1, p2}
  NoPid = NoPid
  Inodes = {i1, i2, i3}
  NoFile = NoFile
  Unix = TRUE
  Strangers = {"program"}
  MaxBirths = 3
SYMMETRY Symmetry
INVARIANTS
  NothingLost
  CommandsTell
