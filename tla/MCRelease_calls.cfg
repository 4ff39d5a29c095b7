SPECIFICATION Spec

CONSTANTS
  Releases = {r1, l1, l2}
  Local = {l1, l2}
  Artifacts = {a1}
  NoArtifact = NoArtifact
  Calls = {c1, c2, c3}
  NoRelease = NoRelease
  NoId = NoId
  Env = {"abandon", "fileLost"}
  MaxUploads = 2
  MaxRetries <- MCMaxRetries
  c1 = c1
  c2 = c2
  c3 = c3

SYMMETRY NameSymmetry

INVARIANTS
  NoAutomaticRetry
  SucceededIsReal

PROPERTIES
  ImplementsPublication

CHECK_DEADLOCK FALSE
