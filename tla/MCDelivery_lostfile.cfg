CONSTANTS
  PackVersions = {va, vb}
  Name <- FirstName
  Snapshots = {s1}
  FileSets = {f1}
  NoSnapshot = none
  Dirs = {d1, d2}
  NoDir = nowhere
  Kinds = {quest}
  Builders = {b1, b2}
  Faults = {}
SPECIFICATION Spec
INVARIANTS ReadyHasFile
CHECK_DEADLOCK FALSE
