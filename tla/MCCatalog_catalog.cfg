CONSTANTS
  Mods = {jei}
  LocalMods = {}
  Minecraft = minecraft
  Versions = {v1, v2}
  GameVersions = {g1, g2}
  NoVersion = none
  KnownIssues <- MCNoIssues
  Requests = {q1}
  MaxInits = 1
  MaxParses = 1
SPECIFICATION Spec
INVARIANTS TypeOK ReadableIsCurrent CurrentHoldsInstalled SucceededIsBuilt
PROPERTIES RemovedComesBackByAdd
SYMMETRY Symmetry
VIEW View
CHECK_DEADLOCK FALSE
