CONSTANTS
  c1 = c1
  c2 = c2
  dig = dig
  hut = hut
  book = book
  mod = mod
  here = here
  there = there
  NoId = NoId
  Docs = {dig}
  KindOf <- MCKindOf
  Book = book
  Clients = {c1, c2}
  Payloads <- MCPayloads
  Drafts <- MCDrafts
  Refs = {mod}
  Pack = here
  OtherPacks = {there}
  MaxRevisions = 3
  MaxRuns = 1
  Probes <- MCProbes
  Probing = TRUE
SPECIFICATION MCSpec
INVARIANTS TypeOK ActiveIsApplied ActiveIsSound NoFailedActive AcceptedQuestsCompletable
PROPERTIES ImplementsHistory
SYMMETRY Symmetry
CHECK_DEADLOCK FALSE
