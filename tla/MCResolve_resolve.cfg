CONSTANTS
  jei = jei
  jade = jade
  cure = cure
  Mods = {jei, jade, cure}
  LocalMods = {loc}
  Minecraft = minecraft
  Versions = {v1}
  GameVersions = {g1, g2}
  NoVersion = none
  KnownIssues <- MCIssues
  Needs <- MCNeeds
  Silent = {}
  Requests = {q1, q2}
  MaxInits = 0
SPECIFICATION ResolveSpec
SYMMETRY Symmetry
VIEW View
INVARIANTS LockedConflictsAreListed
CHECK_DEADLOCK FALSE
