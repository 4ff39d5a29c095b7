CONSTANTS
  Previews = {p1, p2}
  Archives = {p1, p2}
  DeclaredName = n1
  Name <- MCName
  Names = {n1, n2}
  Keys = {k1, k2}
  NoKey = nokey
  NoPreview = nopreview
  User = user
  Clients = {c1, c2, c3}
SPECIFICATION Spec
INVARIANTS OneTaskPerPreview AnswersAgree ConsumedHasTask StagedUntilImported SucceededImported
SYMMETRY Symmetry
CHECK_DEADLOCK FALSE
