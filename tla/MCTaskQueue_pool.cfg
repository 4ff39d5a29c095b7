SPECIFICATION Spec

CONSTANTS
  NumTasks = 2
  Workers = {w1, w2}
  NoWorker = NoWorker
  Owners = {"worker-a", "worker-b"}
  NoOwner = NoOwner
  WorkerID <- PoolOwner
  Queues = {q1, q2}
  QueueOf <- PoolQueueOf
  UserQueue = q2
  Clients = {}
  Keys = {k1, k2}
  NoKey = NoKey
  Payloads = {p1}
  NoPayload = NoPayload
  Kinds = {"build"}
  PublishKind = "publish"
  HandledKinds = {"build"}
  Budgets = {1}
  Env = {"heartbeat", "upgrade"}
  ProgressMarks = {50}
  LeaseTTL = 1
  Deadline = 4
  MaxRecovery = 2
  MaxBackoff = 2
  MaxTime = 2
  MaxLeases = 2
  w1 = w1
  w2 = w2
  q1 = q1
  q2 = q2

INVARIANTS
  FencingSound
  KeysLeadToOneTask

PROPERTIES
  KeyNeverRebinds

CHECK_DEADLOCK FALSE
