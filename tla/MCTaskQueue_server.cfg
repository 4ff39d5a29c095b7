SPECIFICATION FairSpec

CONSTANTS
  NumTasks = 1
  Workers = {w1}
  NoWorker = NoWorker
  Owners = {"server-worker"}
  NoOwner = NoOwner
  WorkerID <- ServerOwner
  Queues = {q1, q2}
  QueueOf <- ServerQueueOf
  UserQueue = q2
  Clients = {c1}
  Keys = {}
  NoKey = NoKey
  Payloads = {p1}
  NoPayload = NoPayload
  Kinds = {"build", "publish", "index"}
  PublishKind = "publish"
  HandledKinds = {"build", "publish"}
  Budgets = {1, 2}
  Env = {"cancel", "pause", "retry", "restart", "upgrade"}
  ProgressMarks = {50, 150}
  LeaseTTL = 2
  Deadline = 4
  MaxRecovery = 2
  MaxBackoff = 2
  MaxTime = 6
  MaxLeases = 3
  w1 = w1
  w2 = w2
  q1 = q1
  q2 = q2

INVARIANTS
  TypeOK
  RowConsistent
  AttemptsBounded
  EventsTellStatus

PROPERTIES
  LeaseReleased
  StaleWorkerNeverWrites
  ImplementsLifecycle

CHECK_DEADLOCK FALSE
