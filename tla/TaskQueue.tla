------------------------------ MODULE TaskQueue ------------------------------
(***************************************************************************)
(* The durable task queue of apps/server/internal/task: the rows of the    *)
(* tasks table, the leases that fence a worker's writes, the worker loop   *)
(* (Lease, Begin, handler, Succeed/Fail), recovery of expired leases, the  *)
(* user controls that reach the same rows over HTTP, and a restart of the  *)
(* process at any point.                                                   *)
(*                                                                         *)
(* One SQL transaction is one atomic step: store.Open gives the process a  *)
(* single connection.  Steps of one Go call that are separated by a commit *)
(* or by a read outside the transaction are separate actions.  The single  *)
(* connection itself is the variable connHolder, because Begin can keep it.*)
(***************************************************************************)
EXTENDS Integers, FiniteSets

CONSTANTS
  NumTasks,      \* rows that may be submitted; ids follow creation order
  Workers,       \* goroutines that run Worker.Run
  NoWorker,
  Owners,        \* values of lease_owner
  NoOwner,       \* lease_owner is NULL
  WorkerID,      \* WorkerID[w]: the lease owner name worker w uses
  Queues,        \* Queue objects; each has its own running map
  QueueOf,       \* QueueOf[w]: the Queue object worker w runs on
  UserQueue,     \* the Queue object behind task.HTTPAdapter
  Clients,       \* concurrent HTTP requests that control tasks
  Keys,          \* idempotency keys
  NoKey,         \* a submission without a key
  Payloads,      \* canonical payload hashes
  NoPayload,
  Kinds, PublishKind, HandledKinds,
  Budgets,       \* values of max_attempts
  Env,           \* which environment actions happen
  ProgressMarks, \* percentages a handler may report, valid or not
  LeaseTTL, Deadline, MaxRecovery, MaxBackoff,
  MaxTime,       \* bound: the clock stops here, and no lease runs past it
  MaxLeases      \* bound: leases ever granted per task

EnvActions == {"cancel", "pause", "retry", "restart", "upgrade", "heartbeat"}

ASSUME TaskQueueAssumptions ==
  /\ NumTasks \in Nat \ {0}
  /\ NoWorker \notin Workers
  /\ WorkerID \in [Workers -> Owners]
  /\ \A v, w \in Workers : WorkerID[v] = WorkerID[w] => v = w
  /\ NoOwner \notin Owners
  /\ QueueOf \in [Workers -> Queues]
  /\ UserQueue \in Queues
  /\ NoKey \notin Keys
  /\ NoPayload \notin Payloads
  /\ HandledKinds \subseteq Kinds
  /\ Budgets \subseteq 1..16
  /\ Env \subseteq EnvActions
  /\ ProgressMarks \subseteq Int
  /\ LeaseTTL \in Nat \ {0}
  /\ Deadline \in Nat \ {0}
  /\ MaxRecovery \in Nat \ {0}
  /\ MaxBackoff \in Nat \ {0}
  /\ MaxTime \in Nat
  /\ MaxLeases \in Nat

Tasks == 1..NumTasks
NoTask == 0
NoTime == -1
NoEpoch == 0     \* lease_epoch is NULL; COALESCE(lease_epoch, 0) reads it as 0

Active == {"leased", "running"}
Terminal == {"succeeded", "failed", "canceled"}
Statuses == {"absent", "queued", "paused"} \cup Active \cup Terminal

VARIABLES
  tasks,       \* tasks[t]: the row of task t
  lastEvent,   \* status recorded by the newest task_events row of t
  idem,        \* task_idem_keys: key -> payload hash and task
  now,         \* the wall clock
  connHolder,  \* worker blocked while it holds the only connection
  running,     \* running[q][t]: worker whose cancel function q.running maps t to
  ctxCanceled, \* workers whose handler context has been cancelled
  pc,          \* control point of each worker
  held,        \* the task and lease each worker believes it has
  clients,     \* HTTP requests between two of their steps
  leaseNo,     \* history: leases granted to t so far
  resumes      \* history: times t was resumed since its last fresh start

workerVars == <<running, ctxCanceled, pc, held>>
historyVars == <<leaseNo, resumes>>
vars == <<tasks, lastEvent, idem, now, connHolder, workerVars, clients, historyVars>>

ConnFree == connHolder = NoWorker

-----------------------------------------------------------------------------
(* Rows. *)

EmptyRow ==
  [status |-> "absent", kind |-> PublishKind, budget |-> 1, progress |-> 0,
   attempt |-> 0, recoverCount |-> 0, owner |-> NoOwner, epoch |-> NoEpoch,
   expiresAt |-> NoTime, updatedAt |-> 0, startedAt |-> NoTime, finished |-> FALSE]

NewRow(kind, budget) ==
  [EmptyRow EXCEPT !.status = "queued", !.kind = kind, !.budget = budget,
                   !.updatedAt = now]

Unleased(row) == [row EXCEPT !.owner = NoOwner, !.epoch = NoEpoch, !.expiresAt = NoTime]

ClaimedRow(row, id) ==
  [row EXCEPT !.status = "leased", !.owner = id, !.epoch = @ + 1,
              !.expiresAt = now + LeaseTTL, !.attempt = @ + 1, !.updatedAt = now]

BegunRow(row) ==
  [row EXCEPT !.status = "running", !.updatedAt = now,
              !.startedAt = IF @ = NoTime THEN now ELSE @]

(* Mutant: Progress does not check its argument. *)
AnyMark(mark) == TRUE

ValidMark(mark) == mark \in 0..100

ProgressRow(row, mark) == [row EXCEPT !.progress = mark, !.updatedAt = now]

HeartbeatRow(row) == [row EXCEPT !.expiresAt = now + LeaseTTL, !.updatedAt = now]

FinishedRow(row, status) ==
  [Unleased(row) EXCEPT !.status = status, !.updatedAt = now, !.finished = TRUE,
                        !.progress = IF status = "succeeded" THEN 100 ELSE 0]

Backoff(attempt) ==
  IF 2^(attempt - 1) > MaxBackoff THEN MaxBackoff ELSE 2^(attempt - 1)

FailedRow(row, retryable) ==
  IF retryable /\ row.attempt < row.budget
  THEN [Unleased(row) EXCEPT !.status = "queued", !.updatedAt = now + Backoff(row.attempt)]
  ELSE [Unleased(row) EXCEPT !.status = "failed", !.updatedAt = now, !.finished = TRUE]

CanceledRow(row) ==
  [Unleased(row) EXCEPT !.status = "canceled", !.updatedAt = now, !.finished = TRUE]

(* Mutant: the lease columns survive a pause. *)
PausedRowKeepsLease(row) == [row EXCEPT !.status = "paused", !.updatedAt = now]

PausedRow(row) == [Unleased(row) EXCEPT !.status = "paused", !.updatedAt = now]

ResumedRow(row) == [row EXCEPT !.status = "queued", !.updatedAt = now]

RetriedRow(row) ==
  [Unleased(row) EXCEPT !.status = "queued", !.progress = 0, !.attempt = 0,
                        !.recoverCount = 0, !.startedAt = NoTime,
                        !.finished = FALSE, !.updatedAt = now]

(* Mutant: a task whose worker died before Begin is overlooked. *)
ExpiredRunning(row) == row.status = "running" /\ row.expiresAt <= now

Expired(row) == row.status \in Active /\ row.expiresAt <= now

DeadlineExceeded(row) == row.startedAt # NoTime /\ now - row.startedAt >= Deadline

(* Mutant: the recovery budget is compared before it is charged. *)
RecoveredRowLate(row) ==
  LET freed == [Unleased(row) EXCEPT !.recoverCount = @ + 1, !.updatedAt = now]
  IN  IF row.recoverCount >= MaxRecovery \/ DeadlineExceeded(row)
      THEN [freed EXCEPT !.status = "failed", !.finished = TRUE]
      ELSE [freed EXCEPT !.status = "queued"]

RecoveredRow(row) ==
  LET count == row.recoverCount + 1
      freed == [Unleased(row) EXCEPT !.recoverCount = count, !.updatedAt = now]
  IN  IF count >= MaxRecovery \/ DeadlineExceeded(row)
      THEN [freed EXCEPT !.status = "failed", !.finished = TRUE]
      ELSE [freed EXCEPT !.status = "queued"]

(* The status recorded with a recovery; the mutant always records a requeue. *)
AlwaysRequeued(row) == "queued"

RecoveryEvent(row) == RecoveredRow(row).status

(* Mutant: the fence compares the epoch but not the owner. *)
LeaseValidAnyOwner(t, owner, epoch) ==
  /\ tasks[t].status \in Active
  /\ tasks[t].epoch = epoch
  /\ tasks[t].expiresAt > now

(* The lease condition of preflightLease and of every fenced UPDATE. *)
LeaseValid(t, owner, epoch) ==
  /\ tasks[t].status \in Active
  /\ tasks[t].owner = owner
  /\ tasks[t].epoch = epoch
  /\ tasks[t].expiresAt > now

(* Every fenced UPDATE also asks for the running status, except Begin's. *)
FencedRunning(t, owner, epoch) == LeaseValid(t, owner, epoch) /\ tasks[t].status = "running"

Holds(w) == FencedRunning(held[w].task, WorkerID[w], held[w].epoch)

-----------------------------------------------------------------------------
(* stopRunning on Queue object q for the tasks of S: the cancel functions   *)
(* found under those ids are called and forgotten.                          *)
StopRunning(q, S) ==
  /\ running' = [running EXCEPT ![q] =
       [t \in Tasks |-> IF t \in S THEN NoWorker ELSE running[q][t]]]
  /\ ctxCanceled' = ctxCanceled \cup {w \in Workers : \E t \in S : running[q][t] = w}

(* One row update and the event appended in the same transaction. *)
Write(t, row) ==
  /\ tasks' = [tasks EXCEPT ![t] = row]
  /\ lastEvent' = [lastEvent EXCEPT ![t] = row.status]

NoLease == [task |-> NoTask, epoch |-> NoEpoch, lease |-> 0]
IdleClient == [step |-> "idle", task |-> NoTask, owner |-> NoOwner, epoch |-> NoEpoch, lease |-> 0]
Stopping(t) == [step |-> "stopping", task |-> t, owner |-> NoOwner, epoch |-> NoEpoch, lease |-> 0]

Init ==
  /\ tasks = [t \in Tasks |-> EmptyRow]
  /\ lastEvent = [t \in Tasks |-> "absent"]
  /\ idem = [k \in Keys |-> [payload |-> NoPayload, task |-> NoTask]]
  /\ now = 0
  /\ connHolder = NoWorker
  /\ running = [q \in Queues |-> [t \in Tasks |-> NoWorker]]
  /\ ctxCanceled = {}
  /\ pc = [w \in Workers |-> "idle"]
  /\ held = [w \in Workers |-> NoLease]
  /\ clients = [c \in Clients |-> IdleClient]
  /\ leaseNo = [t \in Tasks |-> 0]
  /\ resumes = [t \in Tasks |-> 0]

-----------------------------------------------------------------------------
(* Submission. *)

(* Mutant: a generated id may collide with an existing row. *)
ReusableId(t) == \A u \in Tasks : u < t => tasks[u].status # "absent"

(* Ids are fresh, and rows are created in id order. *)
FreshId(t) ==
  /\ tasks[t].status = "absent"
  /\ \A u \in Tasks : u < t => tasks[u].status # "absent"

(* Mutant: a key whose task was removed may be bound again. *)
KeyUnbound(k) == idem[k].task = NoTask

KeyUnused(k) == idem[k].payload = NoPayload

(* A new row; with a key it is bound in the same transaction.  A known key   *)
(* answers with the bound task, a conflict or "consumed", and writes nothing.*)
Submit(t, k, payload, kind, budget) ==
  /\ ConnFree
  /\ FreshId(t)
  /\ \/ k = NoKey /\ UNCHANGED idem
     \/ /\ k \in Keys
        /\ KeyUnused(k)
        /\ idem' = [idem EXCEPT ![k] = [payload |-> payload, task |-> t]]
  /\ Write(t, NewRow(kind, budget))
  /\ UNCHANGED <<now, connHolder, workerVars, clients, historyVars>>

-----------------------------------------------------------------------------
(* The worker loop: Worker.Run calls RunOnce, which leases, begins, handles  *)
(* and reports one task.                                                     *)

Goto(w, step) == pc' = [pc EXCEPT ![w] = step]

(* Lease starts with Recover, a transaction of its own: every expired lease  *)
(* is taken back at once and its handler's context, if this Queue object     *)
(* tracks it, is cancelled.                                                  *)
Recover(w) ==
  /\ pc[w] = "idle"
  /\ ConnFree
  /\ LET lost == {t \in Tasks : Expired(tasks[t])}
     IN  /\ tasks' = [t \in Tasks |->
                        IF t \in lost THEN RecoveredRow(tasks[t]) ELSE tasks[t]]
         /\ lastEvent' = [t \in Tasks |->
                        IF t \in lost THEN RecoveryEvent(tasks[t]) ELSE lastEvent[t]]
         /\ StopRunning(QueueOf[w], lost)
  /\ Goto(w, "leasing")
  /\ UNCHANGED <<idem, now, connHolder, held, clients, historyVars>>

Ready == {t \in Tasks : tasks[t].status = "queued" /\ tasks[t].updatedAt <= now}

(* The oldest ready task is claimed; the lease epoch continues from the row. *)
Claim(w, t) ==
  /\ pc[w] = "leasing"
  /\ ConnFree
  /\ t \in Ready
  /\ \A u \in Ready : t <= u
  /\ leaseNo[t] < MaxLeases
  /\ now + LeaseTTL <= MaxTime
  /\ Write(t, ClaimedRow(tasks[t], WorkerID[w]))
  /\ leaseNo' = [leaseNo EXCEPT ![t] = @ + 1]
  /\ held' = [held EXCEPT ![w] = [task |-> t, epoch |-> NoEpoch, lease |-> leaseNo[t] + 1]]
  /\ Goto(w, "claimed")
  /\ UNCHANGED <<idem, now, connHolder, running, ctxCanceled, clients, resumes>>

(* ErrNoTaskAvailable: the loop sleeps and starts over. *)
NothingReady(w) ==
  /\ pc[w] = "leasing"
  /\ ConnFree
  /\ Ready = {}
  /\ Goto(w, "idle")
  /\ UNCHANGED <<tasks, lastEvent, idem, now, connHolder, running, ctxCanceled,
                 held, clients, historyVars>>

(* After the commit Lease reads the row again, outside the transaction; the  *)
(* epoch it finds is the one the worker will present.  Begin's preflight is  *)
(* the next read of the same row.                                            *)
Preflight(w) ==
  /\ pc[w] = "claimed"
  /\ ConnFree
  /\ LET t == held[w].task
         epoch == tasks[t].epoch
     IN  \/ /\ LeaseValid(t, WorkerID[w], epoch)
            /\ held' = [held EXCEPT ![w].epoch = epoch]
            /\ Goto(w, "preflighted")
         \/ /\ ~LeaseValid(t, WorkerID[w], epoch)
            /\ held' = [held EXCEPT ![w] = NoLease]
            /\ Goto(w, "idle")
  /\ UNCHANGED <<tasks, lastEvent, idem, now, connHolder, running, ctxCanceled,
                 clients, historyVars>>

BeginMatches(w) ==
  /\ LeaseValid(held[w].task, WorkerID[w], held[w].epoch)
  /\ tasks[held[w].task].status = "leased"

(* Begin's transaction.  When its UPDATE matches no row, fencedResult asks   *)
(* the pool for a connection while the transaction still has the only one.   *)
BeginTask(w) ==
  /\ pc[w] = "preflighted"
  /\ ConnFree
  /\ \/ /\ BeginMatches(w)
        /\ Write(held[w].task, BegunRow(tasks[held[w].task]))
        /\ Goto(w, "begun")
        /\ UNCHANGED connHolder
     \/ /\ ~BeginMatches(w)
        /\ connHolder' = w
        /\ Goto(w, "wedged")
        /\ UNCHANGED <<tasks, lastEvent>>
  /\ UNCHANGED <<idem, now, running, ctxCanceled, held, clients, historyVars>>

(* A kind with a handler: its context is created and tracked under the id. *)
StartHandler(w) ==
  /\ pc[w] = "begun"
  /\ tasks[held[w].task].kind \in HandledKinds
  /\ running' = [running EXCEPT ![QueueOf[w]][held[w].task] = w]
  /\ ctxCanceled' = ctxCanceled \ {w}
  /\ Goto(w, "handling")
  /\ UNCHANGED <<tasks, lastEvent, idem, now, connHolder, held, clients, historyVars>>

(* Mutant: the write is not fenced. *)
UnfencedWrite(w, row) == Write(held[w].task, row)

(* A fenced write by w: it changes the row only under a valid lease, and     *)
(* otherwise the call returns ErrLeaseLost and writes nothing.               *)
FencedWrite(w, row) ==
  \/ Holds(w) /\ Write(held[w].task, row)
  \/ ~Holds(w) /\ UNCHANGED <<tasks, lastEvent>>

(* No handler is registered for the kind: the task fails. *)
RejectKind(w) ==
  /\ pc[w] = "begun"
  /\ ConnFree
  /\ tasks[held[w].task].kind \notin HandledKinds
  /\ FencedWrite(w, FinishedRow(tasks[held[w].task], "failed"))
  /\ held' = [held EXCEPT ![w] = NoLease]
  /\ Goto(w, "idle")
  /\ UNCHANGED <<idem, now, connHolder, running, ctxCanceled, clients, historyVars>>

-----------------------------------------------------------------------------
(* While the handler runs.  Its calls carry the handler's context, so none   *)
(* of them reaches the database once that context is cancelled.              *)

HandlerCall(w) == pc[w] = "handling" /\ ConnFree /\ w \notin ctxCanceled

Progress(w, mark) ==
  /\ HandlerCall(w)
  /\ ValidMark(mark)
  /\ Holds(w)
  /\ Write(held[w].task, ProgressRow(tasks[held[w].task], mark))
  /\ UNCHANGED <<idem, now, connHolder, workerVars, clients, historyVars>>

(* Queue.Heartbeat appends no event.  No handler of the server calls it.     *)
Heartbeat(w) ==
  /\ "heartbeat" \in Env
  /\ HandlerCall(w)
  /\ LeaseValid(held[w].task, WorkerID[w], held[w].epoch)
  /\ now + LeaseTTL <= MaxTime
  /\ tasks' = [tasks EXCEPT ![held[w].task] = HeartbeatRow(@)]
  /\ UNCHANGED <<lastEvent, idem, now, connHolder, workerVars, clients, historyVars>>

(* A handler may report success itself before it returns. *)
SucceedInHandler(w) ==
  /\ HandlerCall(w)
  /\ Holds(w)
  /\ Write(held[w].task, FinishedRow(tasks[held[w].task], "succeeded"))
  /\ UNCHANGED <<idem, now, connHolder, workerVars, clients, historyVars>>

Leaves(w, step) ==
  /\ Goto(w, step)
  /\ UNCHANGED <<idem, now, connHolder, running, ctxCanceled, held, clients, historyVars>>

ReturnNil(w) ==
  /\ pc[w] = "handling"
  /\ ConnFree
  /\ FencedWrite(w, FinishedRow(tasks[held[w].task], "succeeded"))
  /\ Leaves(w, "unwinding")

(* A TaskError carries its own retryable flag; any other error counts as a   *)
(* retryable one.                                                            *)
ReturnError(w, retryable) ==
  /\ pc[w] = "handling"
  /\ ConnFree
  /\ FencedWrite(w, FailedRow(tasks[held[w].task], retryable))
  /\ Leaves(w, "unwinding")

(* An error that is not a TaskError, under a cancelled context: RunOnce      *)
(* looks whether the row is already canceled ...                             *)
ReturnCanceled(w) ==
  /\ pc[w] = "handling"
  /\ ConnFree
  /\ w \in ctxCanceled
  /\ Leaves(w, IF tasks[held[w].task].status = "canceled" THEN "unwinding" ELSE "canceling")
  /\ UNCHANGED <<tasks, lastEvent>>

(* Mutant: a task that succeeded can be cancelled. *)
CancellableAlways(t) == tasks[t].status # "absent"

Cancellable(t) == tasks[t].status \in {"queued", "paused"} \cup Active

(* ... and otherwise calls Queue.Cancel, a later transaction without a fence, *)
(* which on success stops whatever handler it finds tracked under the id.    *)
CancelOwnTask(w) ==
  LET t == held[w].task
  IN  /\ pc[w] = "canceling"
      /\ ConnFree
      /\ \/ /\ Cancellable(t)
            /\ Write(t, CanceledRow(tasks[t]))
            /\ StopRunning(QueueOf[w], {t})
         \/ /\ ~Cancellable(t)
            /\ UNCHANGED <<tasks, lastEvent, running, ctxCanceled>>
      /\ Goto(w, "unwinding")
      /\ UNCHANGED <<idem, now, connHolder, held, clients, historyVars>>

(* RunOnce's deferred stopRunning, by task id. *)
Unwind(w) ==
  /\ pc[w] = "unwinding"
  /\ StopRunning(QueueOf[w], {held[w].task})
  /\ held' = [held EXCEPT ![w] = NoLease]
  /\ Goto(w, "idle")
  /\ UNCHANGED <<tasks, lastEvent, idem, now, connHolder, clients, historyVars>>

WorkerStep(w) ==
  \/ Recover(w)
  \/ \E t \in Tasks : Claim(w, t)
  \/ NothingReady(w)
  \/ Preflight(w)
  \/ BeginTask(w)
  \/ StartHandler(w)
  \/ RejectKind(w)
  \/ ReturnNil(w)
  \/ \E retryable \in BOOLEAN : ReturnError(w, retryable)
  \/ ReturnCanceled(w)
  \/ CancelOwnTask(w)
  \/ Unwind(w)

HandlerStep(w) ==
  \/ \E mark \in ProgressMarks : Progress(w, mark)
  \/ Heartbeat(w)
  \/ SucceedInHandler(w)

-----------------------------------------------------------------------------
(* User controls, through the Queue object of task.HTTPAdapter. *)

UserMay(c, control) == control \in Env /\ clients[c].step = "idle" /\ ConnFree

(* Cancel commits first and stops the tracked handler afterwards. *)
UserCancel(c, t) ==
  /\ UserMay(c, "cancel")
  /\ Cancellable(t)
  /\ Write(t, CanceledRow(tasks[t]))
  /\ clients' = [clients EXCEPT ![c] = Stopping(t)]
  /\ UNCHANGED <<idem, now, connHolder, workerVars, historyVars>>

UserStop(c) ==
  /\ clients[c].step = "stopping"
  /\ StopRunning(UserQueue, {clients[c].task})
  /\ clients' = [clients EXCEPT ![c] = IdleClient]
  /\ UNCHANGED <<tasks, lastEvent, idem, now, connHolder, pc, held, historyVars>>

(* HTTPAdapter.Pause reads the owner and the epoch of a running task ... *)
ObservePause(c, t) ==
  /\ UserMay(c, "pause")
  /\ tasks[t].status = "running"
  /\ clients' = [clients EXCEPT ![c] =
       [step |-> "pausing", task |-> t, owner |-> tasks[t].owner,
        epoch |-> tasks[t].epoch, lease |-> leaseNo[t]]]
  /\ UNCHANGED <<tasks, lastEvent, idem, now, connHolder, workerVars, historyVars>>

PauseMatches(c) ==
  /\ tasks[clients[c].task].kind # PublishKind
  /\ FencedRunning(clients[c].task, clients[c].owner, clients[c].epoch)

(* ... and Queue.Pause presents them as its fence. *)
UserPause(c) ==
  /\ clients[c].step = "pausing"
  /\ ConnFree
  /\ LET t == clients[c].task
     IN  \/ /\ PauseMatches(c)
            /\ Write(t, PausedRow(tasks[t]))
            /\ clients' = [clients EXCEPT ![c] = Stopping(t)]
         \/ /\ ~PauseMatches(c)
            /\ clients' = [clients EXCEPT ![c] = IdleClient]
            /\ UNCHANGED <<tasks, lastEvent>>
  /\ UNCHANGED <<idem, now, connHolder, workerVars, historyVars>>

UserResume(c, t) ==
  /\ UserMay(c, "pause")
  /\ tasks[t].status = "paused"
  /\ Write(t, ResumedRow(tasks[t]))
  /\ resumes' = [resumes EXCEPT ![t] = @ + 1]
  /\ UNCHANGED <<idem, now, connHolder, workerVars, clients, leaseNo>>

UserRetry(c, t) ==
  /\ UserMay(c, "retry")
  /\ tasks[t].status \in {"failed", "canceled"}
  /\ Write(t, RetriedRow(tasks[t]))
  /\ resumes' = [resumes EXCEPT ![t] = 0]
  /\ UNCHANGED <<idem, now, connHolder, workerVars, clients, leaseNo>>

UserStep(c) ==
  \/ \E t \in Tasks : \/ UserCancel(c, t)
                      \/ ObservePause(c, t)
                      \/ UserResume(c, t)
                      \/ UserRetry(c, t)
  \/ UserStop(c)
  \/ UserPause(c)

-----------------------------------------------------------------------------
(* The process and the clock. *)

(* A kill or a shutdown loses every goroutine and the open transaction; the  *)
(* rows stay.                                                                *)
ProcessLost ==
  /\ connHolder' = NoWorker
  /\ running' = [q \in Queues |-> [t \in Tasks |-> NoWorker]]
  /\ ctxCanceled' = {}
  /\ pc' = [w \in Workers |-> "idle"]
  /\ held' = [w \in Workers |-> NoLease]
  /\ clients' = [c \in Clients |-> IdleClient]
  /\ UNCHANGED <<tasks, now, historyVars>>

Restart ==
  /\ "restart" \in Env
  /\ ProcessLost
  /\ UNCHANGED <<lastEvent, idem>>

(* A start of a newer binary whose migration rebuilds the tasks table: with  *)
(* foreign keys on, dropping the old table sets the task_id of every event   *)
(* and of every idempotency key to NULL.                                     *)
UpgradeRestart ==
  /\ "upgrade" \in Env
  /\ ProcessLost
  /\ lastEvent' = [t \in Tasks |-> "absent"]
  /\ idem' = [k \in Keys |-> [idem[k] EXCEPT !.task = NoTask]]

Tick ==
  /\ now < MaxTime
  /\ now' = now + 1
  /\ UNCHANGED <<tasks, lastEvent, idem, connHolder, workerVars, clients, historyVars>>

Next ==
  \/ \E t \in Tasks, k \in Keys \cup {NoKey}, payload \in Payloads,
        kind \in Kinds, budget \in Budgets : Submit(t, k, payload, kind, budget)
  \/ \E w \in Workers : WorkerStep(w) \/ HandlerStep(w)
  \/ \E c \in Clients : UserStep(c)
  \/ Restart
  \/ UpgradeRestart
  \/ Tick

Spec == Init /\ [][Next]_vars

(* The worker goroutine keeps running, its handlers return, and time passes; *)
(* nothing is assumed of users or of the process.                            *)
FairSpec == Spec /\ (\A w \in Workers : WF_vars(WorkerStep(w))) /\ WF_vars(Tick)

-----------------------------------------------------------------------------
(* Correctness. *)

Rows ==
  [status: Statuses, kind: Kinds \cup {PublishKind}, budget: 1..16, progress: 0..100,
   attempt: Nat, recoverCount: Nat, owner: Owners \cup {NoOwner}, epoch: Nat,
   expiresAt: Int, updatedAt: Int, startedAt: Int, finished: BOOLEAN]

Leases == [task: Tasks \cup {NoTask}, epoch: Nat, lease: Nat]

Requests ==
  [step: {"idle", "pausing", "stopping"}, task: Tasks \cup {NoTask},
   owner: Owners \cup {NoOwner}, epoch: Nat, lease: Nat]

Bindings == [payload: Payloads \cup {NoPayload}, task: Tasks \cup {NoTask}]

WorkerPoints ==
  {"idle", "leasing", "claimed", "preflighted", "wedged", "begun", "handling",
   "canceling", "unwinding"}

(* Points at which a worker has taken a task and not yet let go of it. *)
Holding == WorkerPoints \ {"idle", "leasing"}

TablesTyped ==
  /\ tasks \in [Tasks -> Rows]
  /\ lastEvent \in [Tasks -> Statuses]
  /\ resumes \in [Tasks -> Nat]

ControlTyped ==
  /\ idem \in [Keys -> Bindings]
  /\ now \in Nat
  /\ connHolder \in Workers \cup {NoWorker}
  /\ running \in [Queues -> [Tasks -> Workers \cup {NoWorker}]]
  /\ ctxCanceled \subseteq Workers
  /\ pc \in [Workers -> WorkerPoints]
  /\ held \in [Workers -> Leases]
  /\ clients \in [Clients -> Requests]
  /\ leaseNo \in [Tasks -> Nat]
  /\ \A w \in Workers : pc[w] \in Holding <=> held[w].task # NoTask
  /\ \A c \in Clients : clients[c].step # "idle" => clients[c].task # NoTask

(* Every variable has its type, a worker has a task exactly from its claim   *)
(* until it unwinds, and a request between two of its steps is about a task. *)
TypeOK == TablesTyped /\ ControlTyped

Consistent(t) ==
  /\ tasks[t].status \in Active <=> tasks[t].owner # NoOwner
  /\ tasks[t].status \in Active <=> tasks[t].epoch # NoEpoch
  /\ tasks[t].status \in Active <=> tasks[t].expiresAt # NoTime
  /\ tasks[t].status \in Terminal <=> tasks[t].finished
  /\ tasks[t].status = "running" => tasks[t].startedAt # NoTime

(* The row CHECK of the tasks table (lease columns are set exactly while a   *)
(* task is leased or running), and finished_at is set exactly in a terminal  *)
(* status: every UPDATE of every path keeps the columns in step.             *)
RowConsistent == \A t \in Tasks : Consistent(t)

(* Fencing: the owner and epoch a worker presents can match the row only     *)
(* while the row still carries the very lease that worker was granted,       *)
(* although epochs restart at 1 after every release.                         *)
FencingSound ==
  \A w \in Workers :
    pc[w] \in Holding /\ LeaseValid(held[w].task, WorkerID[w], held[w].epoch)
      => held[w].lease = leaseNo[held[w].task]

(* Across recoveries, retries after failures, pauses and resumes, a task is  *)
(* executed at most as often as max_attempts, its recoveries and its         *)
(* resumptions allow, until a user retry starts it afresh; and it never      *)
(* waits for execution with its recovery budget used up.                     *)
AttemptsBounded ==
  \A t \in Tasks :
    /\ tasks[t].attempt <= tasks[t].budget + tasks[t].recoverCount + resumes[t]
    /\ tasks[t].status \in Active \cup {"queued", "paused"} => tasks[t].recoverCount < MaxRecovery

(* The newest event of a task tells the status of its row (until a table     *)
(* rebuild detaches the events), whatever path changed it.                   *)
EventsTellStatus ==
  \A t \in Tasks : lastEvent[t] \in {tasks[t].status, "absent"}

(* An idempotency key leads to at most one task, and that task exists. *)
KeysLeadToOneTask ==
  /\ \A k, l \in Keys : k # l /\ idem[k].task # NoTask => idem[k].task # idem[l].task
  /\ \A k \in Keys : idem[k].task # NoTask => tasks[idem[k].task].status # "absent"

(* Once used, a key never binds another payload or another task; the most    *)
(* that happens to it is that its task is forgotten.                         *)
KeyNeverRebinds ==
  [][\A k \in Keys : idem[k].payload # NoPayload =>
       /\ idem'[k].payload = idem[k].payload
       /\ idem'[k].task \in {idem[k].task, NoTask}]_vars

(* What a worker writes when its handler has returned reaches the row only   *)
(* if the row still carries that worker's own, live lease: a worker that was *)
(* recovered, paused or cancelled in the meantime changes nothing.           *)
StaleWorkerNeverWrites ==
  [][\A w \in Workers :
       pc[w] \in {"handling", "canceling"} /\ pc'[w] = "unwinding" /\ tasks' # tasks =>
         /\ held[w].lease = leaseNo[held[w].task]
         /\ tasks[held[w].task].status = "running"]_vars

(* A lease does not outlive its worker: whether the handler returns, the     *)
(* process restarts or the user interferes, the task leaves leased/running,  *)
(* as long as no worker has wedged the only connection.                      *)
LeaseReleased ==
  [](connHolder = NoWorker) =>
    \A t \in Tasks : tasks[t].status \in Active ~> tasks[t].status \notin Active

(* The row of a task as its submitter sees it: leased and running are both   *)
(* executing.                                                                *)
Phase(t) ==
  CASE tasks[t].status = "absent" -> "none"
    [] tasks[t].status = "queued" -> "waiting"
    [] tasks[t].status \in Active -> "executing"
    [] OTHER -> tasks[t].status

Lifecycle ==
  INSTANCE TaskLifecycle
  WITH Allowances <- 1..16,
       phase <- [t \in Tasks |-> Phase(t)],
       attempt <- [t \in Tasks |-> tasks[t].attempt],
       allowance <- [t \in Tasks |-> tasks[t].budget + tasks[t].recoverCount + resumes[t]]

(* Leases, recovery, the worker loop and the user controls together          *)
(* implement the lifecycle of TaskLifecycle: success is final, only a user   *)
(* restarts a failed or canceled task, only an executing task gets a result, *)
(* and no execution is granted beyond the allowance.                         *)
ImplementsLifecycle == Lifecycle!Spec

(* A fencing failure of Begin is answered at once and leaves neither         *)
(* connection nor transaction waiting (ISSUE-P4-TASK-001 records it fixed).  *)
NoWedgedConnection == connHolder = NoWorker

=============================================================================
