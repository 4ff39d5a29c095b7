CONSTANTS
  PackVersions = {va}
  Name <- OwnName
  Snapshots = {s1, s2}
  FileSets = {f1}
  NoSnapshot = none
  Dirs = {d1, d2}
  NoDir = nowhere
  Kinds = {quest}
  Builders = {b1, b2, b3}
  Faults = {"stop", "database"}
SPECIFICATION Spec
INVARIANTS InputsExplainArtifacts ReadyHasFile FilesAreAccountedFor
SYMMETRY Symmetry
CHECK_DEADLOCK FALSE
