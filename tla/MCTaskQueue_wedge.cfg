SPECIFICATION Spec

CONSTANTS
  NumTasks = 1
  Workers = {w1}
  NoWorker = NoWorker
  Owners = {"server-worker"}
  NoOwner = NoOwner
  WorkerID <- ServerOwner
  Queues = {q1, q2}
  QueueOf <- ServerQueueOf
  UserQueue = q2
  Clients = {c1}
  Keys = {}
  NoKey = NoKey
  Payloads = {p1}
  NoPayload = NoPayload
  Kinds = {"build"}
  PublishKind = "publish"
  HandledKinds = {"build"}
  Budgets = {2}
  Env = {"cancel"}
  ProgressMarks = {50}
  LeaseTTL = 2
  Deadline = 4
  MaxRecovery = 3
  MaxBackoff = 2
  MaxTime = 5
  MaxLeases = 3
  w1 = w1
  w2 = w2
  q1 = q1
  q2 = q2

INVARIANTS
  NoWedgedConnection

CHECK_DEADLOCK FALSE
