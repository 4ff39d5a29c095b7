--------------------------- MODULE TaskQueueProofs ---------------------------
(***************************************************************************)
(* Proofs about TaskQueue, for every number of tasks, workers, queues,     *)
(* clients and keys and for every value of the time and budget constants.  *)
(*                                                                         *)
(* RowStep lists what one step of the system can do to one row.  That each *)
(* action is a RowStep for every row is proved once (RowSteps); typing,    *)
(* the row invariants and the refinement then argue about RowStep alone.   *)
(***************************************************************************)
EXTENDS TaskQueue, TLAPS

Same(t) == resumes'[t] = resumes[t] /\ leaseNo'[t] = leaseNo[t]

Unchanged(t) == tasks'[t] = tasks[t] /\ Same(t)

Rewritten(t, from, row) == tasks[t].status \in from /\ tasks'[t] = row /\ Same(t)

Claimed(t, w) ==
  /\ tasks[t].status = "queued"
  /\ tasks'[t] = ClaimedRow(tasks[t], WorkerID[w])
  /\ resumes'[t] = resumes[t]
  /\ leaseNo'[t] = leaseNo[t] + 1
  /\ held'[w].task = t /\ held'[w].lease = leaseNo'[t]

RowStep(t) ==
  \/ \E kind \in Kinds, budget \in Budgets : Rewritten(t, {"absent"}, NewRow(kind, budget))
  \/ \E w \in Workers : Claimed(t, w)
  \/ Rewritten(t, {"leased"}, BegunRow(tasks[t]))
  \/ \E mark \in 0..100 : Rewritten(t, {"running"}, ProgressRow(tasks[t], mark))
  \/ Rewritten(t, Active, HeartbeatRow(tasks[t]))
  \/ \E status \in {"succeeded", "failed"} :
       Rewritten(t, {"running"}, FinishedRow(tasks[t], status))
  \/ \E retryable \in BOOLEAN : Rewritten(t, {"running"}, FailedRow(tasks[t], retryable))
  \/ Rewritten(t, {"queued", "paused"} \cup Active, CanceledRow(tasks[t]))
  \/ Rewritten(t, {"running"}, PausedRow(tasks[t]))
  \/ /\ tasks[t].status = "paused"
     /\ tasks'[t] = ResumedRow(tasks[t])
     /\ resumes'[t] = resumes[t] + 1 /\ leaseNo'[t] = leaseNo[t]
  \/ /\ tasks[t].status \in {"failed", "canceled"}
     /\ tasks'[t] = RetriedRow(tasks[t])
     /\ resumes'[t] = 0 /\ leaseNo'[t] = leaseNo[t]

Recovered(t) == Expired(tasks[t]) /\ Rewritten(t, Active, RecoveredRow(tasks[t]))

(* One row changes, or some expired ones are recovered together. *)
RowsStep ==
  \/ \E t \in Tasks : RowStep(t) /\ \A u \in Tasks \ {t} : Unchanged(u)
  \/ \A t \in Tasks : Recovered(t) \/ Unchanged(t)

EventStep(t) ==
  \/ lastEvent'[t] = tasks'[t].status
  \/ lastEvent'[t] = "absent"
  \/ lastEvent'[t] = lastEvent[t] /\ tasks'[t].status = tasks[t].status

(* The part of AttemptsBounded that is inductive: a waiting task still has   *)
(* an attempt to spare, and a row that is not there yet has no history.      *)
Allowance(t) == tasks[t].budget + tasks[t].recoverCount + resumes[t]

Covered(t) ==
  /\ tasks[t].attempt <= Allowance(t)
  /\ tasks[t].status = "queued" => tasks[t].attempt < Allowance(t)
  /\ tasks[t].status \in Active => tasks[t].attempt >= 1
  /\ tasks[t].status \in Active \cup {"queued", "paused"} => tasks[t].recoverCount < MaxRecovery
  /\ tasks[t].status = "absent" => resumes[t] = 0

AttemptsCovered == \A t \in Tasks : Covered(t)

(* Why fencing works: as long as the row carries a worker's name at all, the *)
(* lease it carries is the last one granted, to that worker.  Epochs play no *)
(* part in it.                                                               *)
OwnLease ==
  \A w \in Workers :
    held[w].task # NoTask /\ tasks[held[w].task].owner = WorkerID[w]
      => held[w].lease = leaseNo[held[w].task]

USE TaskQueueAssumptions DEF TaskQueueAssumptions, Tasks, NoTask, NoTime, NoEpoch, Active, Terminal, Statuses

-----------------------------------------------------------------------------
(* Typing of the row operators. *)

(* A delay before the next attempt is a number. *)
LEMMA BackoffType == ASSUME NEW n \in Nat, n >= 1 PROVE Backoff(n) \in Int
<1>1. n - 1 \in Nat
  OBVIOUS
<1>2. 2^(n - 1) \in Int
  BY <1>1, SMT
<1> QED BY <1>2 DEF Backoff

(* A typed value in one field of a row leaves the row typed.  The row        *)
(* operators update several fields at once; their typing chains these facts. *)
LEMMA FieldsTyped ==
  /\ \A row \in Rows, v \in Statuses : [row EXCEPT !.status = v] \in Rows
  /\ \A row \in Rows, v \in Kinds : [row EXCEPT !.kind = v] \in Rows
  /\ \A row \in Rows, v \in 1..16 : [row EXCEPT !.budget = v] \in Rows
  /\ \A row \in Rows, v \in 0..100 : [row EXCEPT !.progress = v] \in Rows
  /\ \A row \in Rows, v \in Nat : [row EXCEPT !.attempt = v] \in Rows
  /\ \A row \in Rows, v \in Nat : [row EXCEPT !.recoverCount = v] \in Rows
  /\ \A row \in Rows, v \in Owners \cup {NoOwner} : [row EXCEPT !.owner = v] \in Rows
  /\ \A row \in Rows, v \in Nat : [row EXCEPT !.epoch = v] \in Rows
  /\ \A row \in Rows, v \in Int : [row EXCEPT !.expiresAt = v] \in Rows
  /\ \A row \in Rows, v \in Int : [row EXCEPT !.updatedAt = v] \in Rows
  /\ \A row \in Rows, v \in Int : [row EXCEPT !.startedAt = v] \in Rows
  /\ \A row \in Rows, v \in BOOLEAN : [row EXCEPT !.finished = v] \in Rows
<1>1. \A row \in Rows, v \in Statuses : [row EXCEPT !.status = v] \in Rows
  BY DEF Rows
<1>2. \A row \in Rows, v \in Kinds : [row EXCEPT !.kind = v] \in Rows
  BY DEF Rows
<1>3. \A row \in Rows, v \in 1..16 : [row EXCEPT !.budget = v] \in Rows
  BY DEF Rows
<1>4. \A row \in Rows, v \in 0..100 : [row EXCEPT !.progress = v] \in Rows
  BY DEF Rows
<1>5. \A row \in Rows, v \in Nat : [row EXCEPT !.attempt = v] \in Rows
  BY DEF Rows
<1>6. \A row \in Rows, v \in Nat : [row EXCEPT !.recoverCount = v] \in Rows
  BY DEF Rows
<1>7. \A row \in Rows, v \in Owners \cup {NoOwner} : [row EXCEPT !.owner = v] \in Rows
  BY DEF Rows
<1>8. \A row \in Rows, v \in Nat : [row EXCEPT !.epoch = v] \in Rows
  BY DEF Rows
<1>9. \A row \in Rows, v \in Int : [row EXCEPT !.expiresAt = v] \in Rows
  BY DEF Rows
<1>10. \A row \in Rows, v \in Int : [row EXCEPT !.updatedAt = v] \in Rows
  BY DEF Rows
<1>11. \A row \in Rows, v \in Int : [row EXCEPT !.startedAt = v] \in Rows
  BY DEF Rows
<1>12. \A row \in Rows, v \in BOOLEAN : [row EXCEPT !.finished = v] \in Rows
  BY DEF Rows
<1> QED BY <1>1, <1>2, <1>3, <1>4, <1>5, <1>6, <1>7, <1>8, <1>9, <1>10, <1>11, <1>12

(* Every row operator returns a row. *)
LEMMA RowOperatorsTyped ==
  ASSUME NEW row \in Rows, now \in Nat
  PROVE  /\ \A kind \in Kinds, budget \in Budgets : NewRow(kind, budget) \in Rows
         /\ \A w \in Workers : ClaimedRow(row, WorkerID[w]) \in Rows
         /\ BegunRow(row) \in Rows
         /\ \A mark \in 0..100 : ProgressRow(row, mark) \in Rows
         /\ HeartbeatRow(row) \in Rows
         /\ \A status \in {"succeeded", "failed"} : FinishedRow(row, status) \in Rows
         /\ CanceledRow(row) \in Rows
         /\ PausedRow(row) \in Rows
         /\ ResumedRow(row) \in Rows
         /\ RetriedRow(row) \in Rows
         /\ RecoveredRow(row) \in Rows
         /\ row.attempt >= 1 => \A retryable \in BOOLEAN : FailedRow(row, retryable) \in Rows
<1>a. /\ now \in Int /\ now + LeaseTTL \in Int /\ NoTime \in Int
      /\ 0 \in Nat /\ 0 \in 0..100 /\ 100 \in 0..100
  OBVIOUS
<1>b. /\ "queued" \in Statuses /\ "leased" \in Statuses /\ "running" \in Statuses
      /\ "paused" \in Statuses /\ "succeeded" \in Statuses /\ "failed" \in Statuses
      /\ "canceled" \in Statuses
  OBVIOUS
<1>c. /\ row.attempt \in Nat /\ row.attempt + 1 \in Nat
      /\ row.recoverCount + 1 \in Nat
      /\ row.epoch + 1 \in Nat
      /\ row.startedAt \in Int
  BY DEF Rows
<1>d. Unleased(row) \in Rows
  BY FieldsTyped, <1>a DEF Unleased
<1>1. \A kind \in Kinds, budget \in Budgets : NewRow(kind, budget) \in Rows
  <2>1. EmptyRow \in Rows
    BY DEF EmptyRow, Rows
  <2>2. Budgets \subseteq 1..16
    OBVIOUS
  <2> QED BY FieldsTyped, <1>a, <1>b, <2>1, <2>2 DEF NewRow
<1>2. \A w \in Workers : ClaimedRow(row, WorkerID[w]) \in Rows
  <2>1. \A w \in Workers : WorkerID[w] \in Owners \cup {NoOwner}
    OBVIOUS
  <2> QED BY FieldsTyped, <1>a, <1>b, <1>c, <2>1 DEF ClaimedRow
<1>3. BegunRow(row) \in Rows
  BY FieldsTyped, <1>a, <1>b, <1>c DEF BegunRow
<1>4. \A mark \in 0..100 : ProgressRow(row, mark) \in Rows
  BY FieldsTyped, <1>a DEF ProgressRow
<1>5. HeartbeatRow(row) \in Rows
  BY FieldsTyped, <1>a DEF HeartbeatRow
<1>6. \A status \in {"succeeded", "failed"} : FinishedRow(row, status) \in Rows
  BY FieldsTyped, <1>a, <1>b, <1>d DEF FinishedRow
<1>7. CanceledRow(row) \in Rows
  BY FieldsTyped, <1>a, <1>b, <1>d DEF CanceledRow
<1>8. PausedRow(row) \in Rows
  BY FieldsTyped, <1>a, <1>b, <1>d DEF PausedRow
<1>9. ResumedRow(row) \in Rows
  BY FieldsTyped, <1>a, <1>b DEF ResumedRow
<1>10. RetriedRow(row) \in Rows
  BY FieldsTyped, <1>a, <1>b, <1>d DEF RetriedRow
<1>11. RecoveredRow(row) \in Rows
  BY FieldsTyped, <1>a, <1>b, <1>c, <1>d DEF RecoveredRow
<1>12. ASSUME row.attempt >= 1, NEW retryable \in BOOLEAN
       PROVE  FailedRow(row, retryable) \in Rows
  <2>1. now + Backoff(row.attempt) \in Int
    BY <1>12, <1>c, BackoffType
  <2> QED BY FieldsTyped, <1>a, <1>b, <1>d, <2>1 DEF FailedRow
<1> QED BY <1>1, <1>2, <1>3, <1>4, <1>5, <1>6, <1>7, <1>8, <1>9, <1>10, <1>11, <1>12

-----------------------------------------------------------------------------
(* What each action does to the rows. *)

(* Write touches the row and the event of one task only. *)
LEMMA WriteOneRow ==
  ASSUME TypeOK, NEW t \in Tasks, NEW row, Write(t, row)
  PROVE  /\ tasks'[t] = row /\ lastEvent'[t] = row.status
         /\ \A u \in Tasks \ {t} : tasks'[u] = tasks[u] /\ lastEvent'[u] = lastEvent[u]
  BY DEF TypeOK, TablesTyped, ControlTyped, Write

(* A fenced write touches the task its worker holds, with the row given, and *)
(* only while that task is running; a refused one touches nothing.           *)
LEMMA FencedRow ==
  ASSUME TypeOK, NEW w \in Workers, held[w].task \in Tasks, NEW row, FencedWrite(w, row)
  PROVE  \/ /\ Holds(w) /\ tasks[held[w].task].status = "running"
            /\ Write(held[w].task, row)
         \/ UNCHANGED <<tasks, lastEvent>>
  BY DEF FencedWrite, Holds, FencedRunning

(* A worker past its claim holds an existing task. *)
LEMMA HeldTask ==
  ASSUME TypeOK, NEW w \in Workers, pc[w] \in Holding PROVE held[w].task \in Tasks
  BY DEF TypeOK, TablesTyped, ControlTyped, Leases

(* Every step is one of the listed transitions of one row, or a recovery. *)
LEMMA RowSteps ==
  ASSUME TypeOK, [Next]_vars
  PROVE  RowsStep /\ \A t \in Tasks : EventStep(t)
<1> DEFINE Goal == RowsStep /\ \A t \in Tasks : EventStep(t)
<1> USE DEF Unchanged, Rewritten, Same, EventStep
<1>1. ASSUME UNCHANGED <<tasks, lastEvent, resumes, leaseNo>> PROVE Goal
  BY <1>1 DEF RowsStep
<1>2. ASSUME NEW t \in Tasks, NEW row, Write(t, row), RowStep(t),
             \A u \in Tasks \ {t} : Same(u)
      PROVE  Goal
  BY <1>2, WriteOneRow DEF RowsStep
<1> USE DEF historyVars
<1>3. ASSUME NEW t \in Tasks, NEW k \in Keys \cup {NoKey}, NEW payload \in Payloads,
             NEW kind \in Kinds, NEW budget \in Budgets, Submit(t, k, payload, kind, budget)
      PROVE  Goal
  BY <1>2, <1>3, WriteOneRow DEF Submit, FreshId, RowStep
<1>4. ASSUME NEW w \in Workers, Recover(w) PROVE Goal
  BY <1>4 DEF Recover, RowsStep, Recovered, Expired, RecoveryEvent, TypeOK, TablesTyped, ControlTyped
<1>5. ASSUME NEW w \in Workers, NEW t \in Tasks, Claim(w, t) PROVE Goal
  <2>1. /\ leaseNo'[t] = leaseNo[t] + 1
        /\ \A u \in Tasks \ {t} : leaseNo'[u] = leaseNo[u]
        /\ held'[w].task = t /\ held'[w].lease = leaseNo[t] + 1
    BY <1>5 DEF Claim, TypeOK, ControlTyped
  <2> QED BY <1>2, <1>5, <2>1, WriteOneRow DEF Claim, Ready, RowStep, Claimed
<1>6. ASSUME NEW w \in Workers, BeginTask(w) PROVE Goal
  <2>1. held[w].task \in Tasks
    BY <1>6, HeldTask DEF BeginTask, Holding, WorkerPoints
  <2> QED BY <1>1, <1>2, <1>6, <2>1, WriteOneRow DEF BeginTask, BeginMatches, RowStep
<1>7. ASSUME NEW w \in Workers, RejectKind(w) PROVE Goal
  <2>1. held[w].task \in Tasks
    BY <1>7, HeldTask DEF RejectKind, Holding, WorkerPoints
  <2> QED BY <1>1, <1>2, <1>7, <2>1, FencedRow, WriteOneRow DEF RejectKind, RowStep
<1>8. ASSUME NEW w \in Workers, NEW mark \in ProgressMarks, Progress(w, mark) PROVE Goal
  <2>1. held[w].task \in Tasks
    BY <1>8, HeldTask DEF Progress, HandlerCall, Holding, WorkerPoints
  <2> QED BY <1>2, <1>8, <2>1, WriteOneRow
          DEF Progress, ValidMark, Holds, FencedRunning, RowStep
<1>9. ASSUME NEW w \in Workers, Heartbeat(w) PROVE Goal
  <2>1. held[w].task \in Tasks
    BY <1>9, HeldTask DEF Heartbeat, HandlerCall, Holding, WorkerPoints
  <2>2. tasks[held[w].task].status \in Active
    BY <1>9 DEF Heartbeat, LeaseValid
  <2>3. HeartbeatRow(tasks[held[w].task]).status = tasks[held[w].task].status
    BY <2>1 DEF HeartbeatRow, TypeOK, TablesTyped, ControlTyped, Rows
  <2> DEFINE u == held[w].task
  <2>4. tasks'[u] = HeartbeatRow(tasks[u]) /\ \A t \in Tasks \ {u} : tasks'[t] = tasks[t]
    BY <1>9, <2>1 DEF Heartbeat, TypeOK, TablesTyped, ControlTyped
  <2>5. UNCHANGED <<lastEvent, resumes, leaseNo>>
    BY <1>9 DEF Heartbeat
  <2>6. RowStep(u)
    BY <2>1, <2>2, <2>4, <2>5 DEF RowStep
  <2> HIDE DEF u
  <2> QED BY <2>1, <2>3, <2>4, <2>5, <2>6 DEF RowsStep, u
<1>10. ASSUME NEW w \in Workers, SucceedInHandler(w) PROVE Goal
  <2>1. held[w].task \in Tasks
    BY <1>10, HeldTask DEF SucceedInHandler, HandlerCall, Holding, WorkerPoints
  <2> QED BY <1>2, <1>10, <2>1, WriteOneRow DEF SucceedInHandler, Holds, FencedRunning, RowStep
<1>11. ASSUME NEW w \in Workers, ReturnNil(w) PROVE Goal
  <2>1. held[w].task \in Tasks
    BY <1>11, HeldTask DEF ReturnNil, Holding, WorkerPoints
  <2> QED BY <1>1, <1>2, <1>11, <2>1, FencedRow, WriteOneRow DEF ReturnNil, Leaves, RowStep
<1>12. ASSUME NEW w \in Workers, NEW retryable \in BOOLEAN, ReturnError(w, retryable) PROVE Goal
  <2>1. held[w].task \in Tasks
    BY <1>12, HeldTask DEF ReturnError, Holding, WorkerPoints
  <2> QED BY <1>1, <1>2, <1>12, <2>1, FencedRow, WriteOneRow DEF ReturnError, Leaves, RowStep
<1>13. ASSUME NEW w \in Workers, CancelOwnTask(w) PROVE Goal
  <2>1. held[w].task \in Tasks
    BY <1>13, HeldTask DEF CancelOwnTask, Holding, WorkerPoints
  <2> QED BY <1>1, <1>2, <1>13, <2>1, WriteOneRow
          DEF CancelOwnTask, Cancellable, RowStep
<1>14. ASSUME NEW c \in Clients, NEW t \in Tasks, UserCancel(c, t) PROVE Goal
  BY <1>2, <1>14, WriteOneRow DEF UserCancel, Cancellable, RowStep
<1>15. ASSUME NEW c \in Clients, UserPause(c) PROVE Goal
  <2>1. clients[c].task \in Tasks
    BY <1>15 DEF UserPause, TypeOK, ControlTyped, Requests
  <2> QED BY <1>1, <1>2, <1>15, <2>1, WriteOneRow
          DEF UserPause, PauseMatches, FencedRunning, RowStep
<1>16. ASSUME NEW c \in Clients, NEW t \in Tasks, UserResume(c, t) PROVE Goal
  <2>1. resumes'[t] = resumes[t] + 1 /\ \A u \in Tasks \ {t} : resumes'[u] = resumes[u]
    BY <1>16 DEF UserResume, TypeOK, TablesTyped, ControlTyped
  <2> QED BY <1>2, <1>16, <2>1, WriteOneRow DEF UserResume, RowStep
<1>17. ASSUME NEW c \in Clients, NEW t \in Tasks, UserRetry(c, t) PROVE Goal
  <2>1. resumes'[t] = 0 /\ \A u \in Tasks \ {t} : resumes'[u] = resumes[u]
    BY <1>17 DEF UserRetry, TypeOK, TablesTyped, ControlTyped
  <2> QED BY <1>2, <1>17, <2>1, WriteOneRow DEF UserRetry, RowStep
<1>18. ASSUME UpgradeRestart PROVE Goal
  BY <1>18 DEF UpgradeRestart, ProcessLost, RowsStep
<1>19. ASSUME NEW w \in Workers,
              \/ NothingReady(w) \/ Preflight(w) \/ StartHandler(w)
              \/ ReturnCanceled(w) \/ Unwind(w)
       PROVE  Goal
  BY <1>1, <1>19 DEF NothingReady, Preflight, StartHandler, ReturnCanceled, Unwind, Leaves
<1>20. ASSUME NEW c \in Clients, UserStop(c) \/ \E t \in Tasks : ObservePause(c, t) PROVE Goal
  BY <1>1, <1>20 DEF UserStop, ObservePause
<1>21. ASSUME Restart \/ Tick \/ UNCHANGED vars PROVE Goal
  BY <1>1, <1>21 DEF Restart, ProcessLost, Tick, vars
<1> HIDE DEF Goal
<1>22. Goal
  BY <1>3, <1>4, <1>5, <1>6, <1>7, <1>8, <1>9, <1>10, <1>11, <1>12, <1>13, <1>14, <1>15,
     <1>16, <1>17, <1>18, <1>19, <1>20, <1>21
     DEF Next, WorkerStep, HandlerStep, UserStep
<1> QED BY <1>22 DEF Goal

-----------------------------------------------------------------------------
(* Typing. *)

IsTable(f) == f = [t \in Tasks |-> f[t]]

(* Replacing one entry of a table leaves a table of all tasks. *)
LEMMA TableUpdated ==
  ASSUME NEW f, IsTable(f), NEW t \in Tasks, NEW v PROVE IsTable([f EXCEPT ![t] = v])
  BY DEF IsTable

(* No step adds a row to a table or takes one away. *)
LEMMA TablesStay ==
  ASSUME TypeOK, [Next]_vars PROVE IsTable(tasks') /\ IsTable(lastEvent') /\ IsTable(resumes')
<1> DEFINE Goal == IsTable(tasks') /\ IsTable(lastEvent') /\ IsTable(resumes')
<1>0. IsTable(tasks) /\ IsTable(lastEvent) /\ IsTable(resumes)
  BY DEF IsTable, TypeOK, TablesTyped
<1>1. ASSUME UNCHANGED <<tasks, lastEvent, resumes>> PROVE Goal
  BY <1>0, <1>1
<1>2. ASSUME NEW t \in Tasks, NEW row, Write(t, row), IsTable(resumes') PROVE Goal
  BY <1>0, <1>2, TableUpdated DEF Write
<1> HIDE DEF Goal
<1>3. ASSUME NEW t \in Tasks, NEW k \in Keys \cup {NoKey}, NEW payload \in Payloads,
             NEW kind \in Kinds, NEW budget \in Budgets, Submit(t, k, payload, kind, budget)
      PROVE  Goal
  BY <1>0, <1>2, <1>3 DEF Submit, historyVars
<1>4. ASSUME NEW w \in Workers, Recover(w) PROVE Goal
  <2>1. IsTable(tasks') /\ IsTable(lastEvent')
    BY <1>4 DEF Recover, IsTable
  <2> QED BY <1>0, <1>4, <2>1 DEF Recover, Goal, historyVars
<1>5. ASSUME NEW w \in Workers, pc[w] \in Holding, WorkerStep(w) \/ HandlerStep(w) PROVE Goal
  <2>1. held[w].task \in Tasks
    BY <1>5, HeldTask
  <2>2. ASSUME NEW row, FencedWrite(w, row), UNCHANGED resumes PROVE Goal
    BY <1>0, <1>1, <1>2, <2>1, <2>2 DEF FencedWrite
  <2>3. ASSUME Heartbeat(w) PROVE Goal
    BY <1>0, <2>1, <2>3, TableUpdated DEF Heartbeat, Goal, historyVars
  <2> QED
    BY <1>0, <1>1, <1>2, <1>5, <2>1, <2>2, <2>3
       DEF WorkerStep, HandlerStep, Recover, Claim, NothingReady, Preflight, BeginTask, StartHandler,
           RejectKind, ReturnNil, ReturnError, ReturnCanceled, CancelOwnTask,
           Unwind, Progress, SucceedInHandler, Leaves, Holding, historyVars
<1>6. ASSUME NEW w \in Workers, pc[w] \notin Holding, WorkerStep(w) \/ HandlerStep(w) PROVE Goal
  BY <1>0, <1>1, <1>2, <1>4, <1>6
     DEF WorkerStep, HandlerStep, Claim, NothingReady, Preflight, BeginTask, StartHandler,
         RejectKind, ReturnNil, ReturnError, ReturnCanceled, CancelOwnTask, Unwind, Progress,
         Heartbeat, SucceedInHandler, HandlerCall, Holding, WorkerPoints, historyVars
<1>7. ASSUME NEW c \in Clients, UserStep(c) PROVE Goal
  <2>1. \A t \in Tasks : \A n : IsTable([resumes EXCEPT ![t] = n])
    BY <1>0, TableUpdated
  <2>2. clients[c].step # "idle" => clients[c].task \in Tasks
    BY DEF TypeOK, TablesTyped, ControlTyped, Requests
  <2>3. ASSUME UserStop(c) \/ UserPause(c) PROVE Goal
    BY <1>0, <1>1, <1>2, <2>2, <2>3 DEF UserStop, UserPause, historyVars
  <2>4. ASSUME NEW t \in Tasks, UserCancel(c, t) \/ ObservePause(c, t) PROVE Goal
    BY <1>0, <1>1, <1>2, <2>4 DEF UserCancel, ObservePause, historyVars
  <2>5. ASSUME NEW t \in Tasks, UserResume(c, t) \/ UserRetry(c, t) PROVE Goal
    <3>1. CASE UserResume(c, t)
      <4>1. Write(t, ResumedRow(tasks[t])) /\ resumes' = [resumes EXCEPT ![t] = @ + 1]
        BY <3>1 DEF UserResume
      <4>2. IsTable(resumes')
        BY <2>1, <4>1
      <4> QED BY <1>2, <4>1, <4>2
    <3>2. CASE UserRetry(c, t)
      <4>1. Write(t, RetriedRow(tasks[t])) /\ resumes' = [resumes EXCEPT ![t] = 0]
        BY <3>2 DEF UserRetry
      <4>2. IsTable(resumes')
        BY <2>1, <4>1
      <4> QED BY <1>2, <4>1, <4>2
    <3> QED BY <2>5, <3>1, <3>2
  <2> QED BY <1>7, <2>3, <2>4, <2>5 DEF UserStep
<1>8. ASSUME UpgradeRestart PROVE Goal
  BY <1>0, <1>8 DEF UpgradeRestart, ProcessLost, Goal, IsTable, historyVars
<1>9. ASSUME Restart \/ Tick \/ UNCHANGED vars PROVE Goal
  BY <1>1, <1>9 DEF Restart, ProcessLost, Tick, vars, historyVars
<1> QED BY <1>3, <1>5, <1>6, <1>7, <1>8, <1>9 DEF Next, Goal

(* The listed transitions keep a row and its resumption count typed. *)
LEMMA RowStepTyped ==
  ASSUME TypeOK, AttemptsCovered, NEW t \in Tasks, RowStep(t) \/ Recovered(t) \/ Unchanged(t)
  PROVE  tasks'[t] \in Rows /\ resumes'[t] \in Nat
<1>1. tasks[t] \in Rows /\ resumes[t] \in Nat /\ now \in Nat
  BY DEF TypeOK, TablesTyped, ControlTyped
<1>2. tasks[t].status = "running" => tasks[t].attempt >= 1
  BY DEF AttemptsCovered, Covered
<1> QED BY <1>1, <1>2, RowOperatorsTyped DEF RowStep, Recovered, Unchanged, Rewritten, Claimed, Same

(* The tables keep their types. *)
LEMMA TablesTypedPreserved ==
  ASSUME TypeOK, AttemptsCovered, [Next]_vars PROVE TablesTyped'
<1>1. /\ RowsStep
      /\ \A t \in Tasks : EventStep(t)
  BY RowSteps
<1>2. \A t \in Tasks : RowStep(t) \/ Recovered(t) \/ Unchanged(t)
  BY <1>1 DEF RowsStep
<1>3. \A t \in Tasks : tasks'[t] \in Rows /\ resumes'[t] \in Nat
  BY <1>2, RowStepTyped
<1>4. \A t \in Tasks : lastEvent'[t] \in Statuses
  BY <1>1, <1>3 DEF EventStep, Rows, TypeOK, TablesTyped
<1> QED BY <1>3, <1>4, TablesStay DEF IsTable, TablesTyped

(* Every row operator keeps an execution covered and the columns in step. *)
LEMMA RowInvariantsPreserved ==
  ASSUME TypeOK, AttemptsCovered, RowConsistent, [Next]_vars
  PROVE  AttemptsCovered' /\ RowConsistent'
<1> DEFINE Goal(t) == Covered(t)' /\ Consistent(t)'
<1> SUFFICES ASSUME NEW t \in Tasks,
                    RowStep(t) \/ Recovered(t) \/ Unchanged(t)
             PROVE  Goal(t)
  BY RowSteps DEF AttemptsCovered, RowConsistent, RowsStep
<1>1. /\ tasks[t] \in Rows
      /\ resumes[t] \in Nat
      /\ now \in Nat
      /\ Covered(t) /\ Consistent(t)
  BY DEF TypeOK, TablesTyped, ControlTyped, AttemptsCovered, RowConsistent
<1> USE <1>1 DEF Rows, Covered, Consistent, Allowance, Rewritten, Same, Unleased
<1>2. CASE Unchanged(t)
  BY <1>2 DEF Unchanged
<1>3. CASE Recovered(t)
  BY <1>3 DEF Recovered, RecoveredRow
<1>4. ASSUME NEW kind \in Kinds, NEW budget \in Budgets,
             Rewritten(t, {"absent"}, NewRow(kind, budget))
      PROVE  Goal(t)
  BY <1>4 DEF NewRow, EmptyRow
<1>5. ASSUME NEW w \in Workers, Claimed(t, w)
      PROVE  Goal(t)
  BY <1>5 DEF Claimed, ClaimedRow
<1>6. CASE Rewritten(t, {"leased"}, BegunRow(tasks[t]))
  BY <1>6 DEF BegunRow
<1>7. ASSUME NEW mark \in 0..100, Rewritten(t, {"running"}, ProgressRow(tasks[t], mark))
      PROVE  Goal(t)
  BY <1>7 DEF ProgressRow
<1>8. CASE Rewritten(t, Active, HeartbeatRow(tasks[t]))
  BY <1>8 DEF HeartbeatRow
<1>9. ASSUME NEW status \in {"succeeded", "failed"},
             Rewritten(t, {"running"}, FinishedRow(tasks[t], status))
      PROVE  Goal(t)
  BY <1>9 DEF FinishedRow
<1>10. ASSUME NEW retryable \in BOOLEAN, Rewritten(t, {"running"}, FailedRow(tasks[t], retryable))
       PROVE  Goal(t)
  BY <1>10 DEF FailedRow
<1>11. CASE Rewritten(t, {"queued", "paused"} \cup Active, CanceledRow(tasks[t]))
  BY <1>11 DEF CanceledRow
<1>12. CASE Rewritten(t, {"running"}, PausedRow(tasks[t]))
  BY <1>12 DEF PausedRow
<1>13. CASE /\ tasks[t].status = "paused"
            /\ tasks'[t] = ResumedRow(tasks[t])
            /\ resumes'[t] = resumes[t] + 1
  BY <1>13 DEF ResumedRow
<1>14. CASE /\ tasks[t].status \in {"failed", "canceled"}
            /\ tasks'[t] = RetriedRow(tasks[t])
            /\ resumes'[t] = 0
  BY <1>14 DEF RetriedRow
<1> QED
  BY <1>2, <1>3, <1>4, <1>5, <1>6, <1>7, <1>8, <1>9, <1>10, <1>11, <1>12, <1>13, <1>14 DEF RowStep

(* What a step does to a worker's idea of its task: it keeps it, lets go of  *)
(* it, or has just been granted a lease.                                     *)
HeldStep(w) ==
  \/ held'[w].task = held[w].task /\ held'[w].lease = held[w].lease
  \/ held'[w].task = NoTask
  \/ held'[w].lease = leaseNo'[held'[w].task]

(* stopRunning keeps the running maps and the cancelled contexts typed. *)
LEMMA StopRunningTyped ==
  ASSUME ControlTyped, NEW q \in Queues, NEW S, StopRunning(q, S)
  PROVE  /\ running' \in [Queues -> [Tasks -> Workers \cup {NoWorker}]]
         /\ ctxCanceled' \subseteq Workers
<1>1. [t \in Tasks |-> IF t \in S THEN NoWorker ELSE running[q][t]]
        \in [Tasks -> Workers \cup {NoWorker}]
  BY DEF ControlTyped
<1> QED BY <1>1 DEF StopRunning, ControlTyped

(* The records the control actions build have their types. *)
LEMMA RecordsTyped ==
  /\ NoLease \in Leases /\ NoLease.task = NoTask
  /\ \A lease \in Leases, epoch \in Nat :
       LET l == [lease EXCEPT !.epoch = epoch]
       IN  l \in Leases /\ l.task = lease.task /\ l.lease = lease.lease
  /\ IdleClient \in Requests /\ IdleClient.step = "idle"
  /\ \A t \in Tasks : Stopping(t) \in Requests /\ Stopping(t).task = t
  /\ \A t \in Tasks, payload \in Payloads : [payload |-> payload, task |-> t] \in Bindings
  /\ \A binding \in Bindings : [binding EXCEPT !.task = NoTask] \in Bindings
<1>1. NoLease \in Leases /\ NoLease.task = NoTask
  BY DEF NoLease, Leases
<1>2. \A lease \in Leases, epoch \in Nat :
       LET l == [lease EXCEPT !.epoch = epoch]
       IN  l \in Leases /\ l.task = lease.task /\ l.lease = lease.lease
  BY DEF Leases
<1>3. IdleClient \in Requests /\ IdleClient.step = "idle"
  BY DEF IdleClient, Requests
<1>4. ASSUME NEW t \in Tasks PROVE Stopping(t) \in Requests /\ Stopping(t).task = t
  BY DEF Stopping, Requests
<1>5. \A t \in Tasks, payload \in Payloads : [payload |-> payload, task |-> t] \in Bindings
  BY DEF Bindings
<1>6. \A binding \in Bindings : [binding EXCEPT !.task = NoTask] \in Bindings
  BY DEF Bindings
<1> QED BY <1>1, <1>2, <1>3, <1>4, <1>5, <1>6

(* Control variables keep their types, and a worker's lease only moves on by a claim. *)
LEMMA ControlSteps ==
  ASSUME TypeOK, [Next]_vars PROVE ControlTyped' /\ \A w \in Workers : HeldStep(w)
<1> DEFINE Goal == ControlTyped' /\ \A w \in Workers : HeldStep(w)
<1> USE DEF HeldStep, workerVars, historyVars, Goto
<1>0. ControlTyped
  BY DEF TypeOK
<1>q. \A w \in Workers : QueueOf[w] \in Queues
  OBVIOUS
<1>1. ASSUME UNCHANGED <<idem, connHolder, workerVars, clients, leaseNo>>, now' \in Nat PROVE Goal
  BY <1>0, <1>1 DEF ControlTyped
<1>3. ASSUME NEW t \in Tasks, NEW k \in Keys \cup {NoKey}, NEW payload \in Payloads,
             NEW kind \in Kinds, NEW budget \in Budgets, Submit(t, k, payload, kind, budget)
      PROVE  Goal
  <2>1. [payload |-> payload, task |-> t] \in Bindings
    BY RecordsTyped
  <2>2. idem' \in [Keys -> Bindings]
    BY <1>0, <1>3, <2>1 DEF Submit, ControlTyped
  <2> QED BY <1>0, <1>3, <2>2 DEF Submit, ControlTyped
<1>4. ASSUME NEW w \in Workers, Recover(w) PROVE Goal
  BY <1>0, <1>4, <1>q, StopRunningTyped DEF Recover, ControlTyped, WorkerPoints, Holding
<1>5. ASSUME NEW w \in Workers, NEW t \in Tasks, Claim(w, t) PROVE Goal
  BY <1>0, <1>5 DEF Claim, ControlTyped, WorkerPoints, Holding, Leases
<1>6. ASSUME NEW w \in Workers, NothingReady(w) PROVE Goal
  BY <1>0, <1>6 DEF NothingReady, ControlTyped, WorkerPoints, Holding
<1>7. ASSUME NEW w \in Workers, Preflight(w) PROVE Goal
  <2>1. held[w] \in Leases /\ held[w].task \in Tasks
    BY <1>7, HeldTask DEF Preflight, TypeOK, ControlTyped, WorkerPoints, Holding
  <2>2. tasks[held[w].task].epoch \in Nat
    BY <2>1 DEF TypeOK, TablesTyped, Rows
  <2> DEFINE lease == [held[w] EXCEPT !.epoch = tasks[held[w].task].epoch]
  <2>3. lease \in Leases /\ lease.task = held[w].task /\ lease.lease = held[w].lease
    BY <2>1, <2>2, RecordsTyped
  <2> HIDE DEF lease
  <2>5. CASE held' = [held EXCEPT ![w] = lease] /\ pc' = [pc EXCEPT ![w] = "preflighted"]
    BY <1>0, <1>7, <2>1, <2>3, <2>5 DEF Preflight, ControlTyped, WorkerPoints, Holding
  <2>6. CASE held' = [held EXCEPT ![w] = NoLease] /\ pc' = [pc EXCEPT ![w] = "idle"]
    BY <1>0, <1>7, <2>1, <2>6, RecordsTyped DEF Preflight, ControlTyped, WorkerPoints, Holding
  <2> QED BY <1>7, <2>5, <2>6 DEF Preflight, lease
<1>8. ASSUME NEW w \in Workers, BeginTask(w) PROVE Goal
  BY <1>0, <1>8 DEF BeginTask, ControlTyped, WorkerPoints, Holding
<1>9. ASSUME NEW w \in Workers, StartHandler(w) PROVE Goal
  BY <1>0, <1>9, <1>q, HeldTask DEF StartHandler, ControlTyped, WorkerPoints, Holding
<1>10. ASSUME NEW w \in Workers, RejectKind(w) PROVE Goal
  BY <1>0, <1>10, RecordsTyped DEF RejectKind, ControlTyped, WorkerPoints, Holding
<1>11. ASSUME NEW w \in Workers,
              \/ ReturnNil(w) \/ ReturnCanceled(w)
              \/ \E retryable \in BOOLEAN : ReturnError(w, retryable)
       PROVE  Goal
  BY <1>0, <1>11 DEF ReturnNil, ReturnCanceled, ReturnError, Leaves,
                     ControlTyped, WorkerPoints, Holding
<1>12. ASSUME NEW w \in Workers, Unwind(w) \/ CancelOwnTask(w) PROVE Goal
  <2>1. CASE Unwind(w)
    BY <1>0, <2>1, <1>q, RecordsTyped, StopRunningTyped
       DEF Unwind, ControlTyped, WorkerPoints, Holding
  <2>2. CASE CancelOwnTask(w)
    <3>1. /\ running' \in [Queues -> [Tasks -> Workers \cup {NoWorker}]]
          /\ ctxCanceled' \subseteq Workers
      BY <1>0, <2>2, <1>q, StopRunningTyped DEF CancelOwnTask, ControlTyped
    <3> QED BY <1>0, <2>2, <3>1 DEF CancelOwnTask, ControlTyped, WorkerPoints, Holding
  <2> QED BY <1>12, <2>1, <2>2
<1>13. ASSUME NEW w \in Workers, HandlerStep(w) PROVE Goal
  BY <1>0, <1>1, <1>13 DEF HandlerStep, Progress, Heartbeat, SucceedInHandler, ControlTyped
<1>14. ASSUME NEW c \in Clients, NEW t \in Tasks, UserCancel(c, t) PROVE Goal
  BY <1>0, <1>14, RecordsTyped DEF UserCancel, ControlTyped
<1>15. ASSUME NEW c \in Clients, UserStop(c) PROVE Goal
  BY <1>0, <1>15, RecordsTyped, StopRunningTyped DEF UserStop, ControlTyped
<1>16. ASSUME NEW c \in Clients, NEW t \in Tasks, ObservePause(c, t) PROVE Goal
  <2> DEFINE request == [step |-> "pausing", task |-> t, owner |-> tasks[t].owner,
                         epoch |-> tasks[t].epoch, lease |-> leaseNo[t]]
  <2>1. request \in Requests /\ request.task = t
    BY DEF TypeOK, TablesTyped, ControlTyped, Rows, Requests
  <2> HIDE DEF request
  <2>2. clients' = [clients EXCEPT ![c] = request]
    BY <1>16 DEF ObservePause, request
  <2> QED BY <1>0, <1>16, <2>1, <2>2 DEF ObservePause, ControlTyped
<1>17. ASSUME NEW c \in Clients, UserPause(c) PROVE Goal
  <2>1. clients[c].task \in Tasks
    BY <1>17 DEF UserPause, TypeOK, ControlTyped, Requests
  <2>2. Stopping(clients[c].task) \in Requests /\ Stopping(clients[c].task).task # NoTask
    BY <2>1, RecordsTyped
  <2>3. \/ clients' = [clients EXCEPT ![c] = Stopping(clients[c].task)]
        \/ clients' = [clients EXCEPT ![c] = IdleClient]
    BY <1>17 DEF UserPause
  <2>4. UNCHANGED <<idem, now, connHolder, workerVars, historyVars>>
    BY <1>17 DEF UserPause
  <2>5. PICK request \in Requests :
          clients' = [clients EXCEPT ![c] = request] /\ (request.step # "idle" => request.task # NoTask)
    BY <2>2, <2>3, RecordsTyped
  <2> QED BY <1>0, <2>4, <2>5 DEF ControlTyped
<1>18. ASSUME NEW c \in Clients, NEW t \in Tasks, UserResume(c, t) \/ UserRetry(c, t) PROVE Goal
  BY <1>0, <1>1, <1>18 DEF UserResume, UserRetry, ControlTyped
<1>19. ASSUME Restart \/ UpgradeRestart PROVE Goal
  <2>1. ProcessLost
    BY <1>19 DEF Restart, UpgradeRestart
  <2>2. idem' \in [Keys -> Bindings]
    BY <1>0, <1>19, RecordsTyped DEF Restart, UpgradeRestart, ControlTyped
  <2> QED BY <1>0, <2>1, <2>2, RecordsTyped DEF ProcessLost, ControlTyped, WorkerPoints, Holding
<1>20. ASSUME Tick \/ UNCHANGED vars PROVE Goal
  BY <1>0, <1>1, <1>20 DEF Tick, vars, ControlTyped
<1> HIDE DEF Goal
<1>21. Goal
  BY <1>3, <1>4, <1>5, <1>6, <1>7, <1>8, <1>9, <1>10, <1>11, <1>12, <1>13, <1>14, <1>15,
     <1>16, <1>17, <1>18, <1>19, <1>20
     DEF Next, WorkerStep, UserStep
<1> QED BY <1>21 DEF Goal

-----------------------------------------------------------------------------
(* Fencing. *)

(* Only a claim writes a worker's name into a row. *)
LEMMA OwnerStep ==
  ASSUME TypeOK, NEW t \in Tasks, RowStep(t) \/ Recovered(t) \/ Unchanged(t)
  PROVE  \/ tasks'[t].owner \in {tasks[t].owner, NoOwner} /\ leaseNo'[t] = leaseNo[t]
         \/ \E v \in Workers : /\ tasks'[t].owner = WorkerID[v]
                              /\ held'[v].lease = leaseNo'[t]
<1> DEFINE Kept == tasks'[t].owner \in {tasks[t].owner, NoOwner} /\ leaseNo'[t] = leaseNo[t]
<1>1. tasks[t] \in Rows
  BY DEF TypeOK, TablesTyped
<1>2. ASSUME NEW w \in Workers, Claimed(t, w)
      PROVE  tasks'[t].owner = WorkerID[w] /\ held'[w].lease = leaseNo'[t]
  BY <1>1, <1>2 DEF Claimed, ClaimedRow, Rows
<1>3. ASSUME NEW row \in Rows
      PROVE  /\ \A kind, budget : NewRow(kind, budget).owner = NoOwner
             /\ BegunRow(row).owner = row.owner
             /\ \A mark : ProgressRow(row, mark).owner = row.owner
             /\ HeartbeatRow(row).owner = row.owner
             /\ \A status : FinishedRow(row, status).owner = NoOwner
             /\ \A retryable : FailedRow(row, retryable).owner = NoOwner
             /\ CanceledRow(row).owner = NoOwner
             /\ PausedRow(row).owner = NoOwner
             /\ ResumedRow(row).owner = row.owner
             /\ RetriedRow(row).owner = NoOwner
             /\ RecoveredRow(row).owner = NoOwner
  BY <1>3 DEF Rows, NewRow, EmptyRow, Unleased, BegunRow, ProgressRow, HeartbeatRow, FinishedRow,
              FailedRow, CanceledRow, PausedRow, ResumedRow, RetriedRow, RecoveredRow
<1>4. ASSUME NEW from, NEW row, Rewritten(t, from, row), row.owner \in {tasks[t].owner, NoOwner}
      PROVE  Kept
  BY <1>4 DEF Rewritten, Same
<1> HIDE DEF Kept
<1>5. CASE Recovered(t) \/ Unchanged(t)
  BY <1>1, <1>3, <1>5 DEF Recovered, Unchanged, Rewritten, Same
<1>6. CASE \E w \in Workers : Claimed(t, w)
  BY <1>2, <1>6
<1>7. ASSUME RowStep(t), ~ \E w \in Workers : Claimed(t, w) PROVE Kept
  <2>1. CASE \E kind \in Kinds, budget \in Budgets : Rewritten(t, {"absent"}, NewRow(kind, budget))
    BY <1>1, <1>3, <1>4, <2>1
  <2>2. CASE \E mark \in 0..100 : Rewritten(t, {"running"}, ProgressRow(tasks[t], mark))
    BY <1>1, <1>3, <1>4, <2>2
  <2>3. CASE \E status \in {"succeeded", "failed"} :
               Rewritten(t, {"running"}, FinishedRow(tasks[t], status))
    BY <1>1, <1>3, <1>4, <2>3
  <2>4. CASE \E retryable \in BOOLEAN : Rewritten(t, {"running"}, FailedRow(tasks[t], retryable))
    BY <1>1, <1>3, <1>4, <2>4
  <2>5. CASE \/ Rewritten(t, {"leased"}, BegunRow(tasks[t]))
             \/ Rewritten(t, Active, HeartbeatRow(tasks[t]))
             \/ Rewritten(t, {"queued", "paused"} \cup Active, CanceledRow(tasks[t]))
             \/ Rewritten(t, {"running"}, PausedRow(tasks[t]))
    BY <1>1, <1>3, <1>4, <2>5
  <2>6. CASE \/ tasks'[t] = ResumedRow(tasks[t]) /\ leaseNo'[t] = leaseNo[t]
             \/ tasks'[t] = RetriedRow(tasks[t]) /\ leaseNo'[t] = leaseNo[t]
    BY <1>1, <1>3, <2>6 DEF Kept
  <2> QED BY <1>7, <2>1, <2>2, <2>3, <2>4, <2>5, <2>6 DEF RowStep
<1> QED BY <1>5, <1>6, <1>7 DEF Kept

(* A worker's name stays on a row only with its last lease. *)
LEMMA OwnLeasePreserved == ASSUME TypeOK, OwnLease, [Next]_vars PROVE OwnLease'
<1> SUFFICES ASSUME NEW w \in Workers, held'[w].task # NoTask,
                    tasks'[held'[w].task].owner = WorkerID[w]
             PROVE  held'[w].lease = leaseNo'[held'[w].task]
  BY DEF OwnLease
<1> DEFINE t == held'[w].task
<1>1. ControlTyped' /\ HeldStep(w)
  BY ControlSteps
<1>2. t \in Tasks
  BY <1>1 DEF ControlTyped, Leases
<1>3. RowStep(t) \/ Recovered(t) \/ Unchanged(t)
  BY <1>2, RowSteps DEF RowsStep
<1> HIDE DEF t
<1>4. CASE held'[w].lease = leaseNo'[t]
  BY <1>4 DEF t
<1>5. CASE t = held[w].task /\ held'[w].lease = held[w].lease
  <2>1. WorkerID[w] # NoOwner
    OBVIOUS
  <2>2. CASE tasks'[t].owner \in {tasks[t].owner, NoOwner} /\ leaseNo'[t] = leaseNo[t]
    BY <1>2, <1>5, <2>1, <2>2 DEF OwnLease, t
  <2>3. ASSUME NEW v \in Workers, tasks'[t].owner = WorkerID[v], held'[v].lease = leaseNo'[t]
        PROVE  held'[w].lease = leaseNo'[t]
    <3>1. v = w
      BY <2>3 DEF t
    <3> QED BY <2>3, <3>1
  <2> QED BY <1>2, <1>3, <2>2, <2>3, OwnerStep DEF t
<1> QED BY <1>1, <1>4, <1>5 DEF HeldStep, t

-----------------------------------------------------------------------------
(* Events and idempotency keys. *)

(* Row and newest event change together. *)
LEMMA EventsPreserved == ASSUME TypeOK, EventsTellStatus, [Next]_vars PROVE EventsTellStatus'
  BY RowSteps DEF EventsTellStatus, EventStep

(* No step makes a row absent again. *)
LEMMA RowsPersist ==
  ASSUME TypeOK, [Next]_vars, NEW t \in Tasks, tasks[t].status # "absent"
  PROVE  tasks'[t].status # "absent"
<1>1. tasks[t] \in Rows
  BY DEF TypeOK, TablesTyped
<1>2. RowStep(t) \/ Recovered(t) \/ Unchanged(t)
  BY RowSteps DEF RowsStep
<1>3. ASSUME NEW row \in Rows, row.status # "absent"
      PROVE  /\ \A w : ClaimedRow(row, WorkerID[w]).status # "absent"
             /\ BegunRow(row).status # "absent"
             /\ \A mark : ProgressRow(row, mark).status # "absent"
             /\ HeartbeatRow(row).status # "absent"
             /\ \A status \in {"succeeded", "failed"} : FinishedRow(row, status).status # "absent"
             /\ \A retryable : FailedRow(row, retryable).status # "absent"
             /\ CanceledRow(row).status # "absent"
             /\ PausedRow(row).status # "absent"
             /\ ResumedRow(row).status # "absent"
             /\ RetriedRow(row).status # "absent"
             /\ RecoveredRow(row).status # "absent"
  BY <1>3 DEF Rows, Unleased, ClaimedRow, BegunRow, ProgressRow, HeartbeatRow, FinishedRow,
              FailedRow, CanceledRow, PausedRow, ResumedRow, RetriedRow, RecoveredRow
<1>4. CASE Recovered(t) \/ Unchanged(t)
  BY <1>1, <1>3, <1>4 DEF Recovered, Unchanged, Rewritten
<1>5. CASE RowStep(t)
  BY <1>1, <1>3, <1>5 DEF RowStep, Rewritten, Claimed
<1> QED BY <1>2, <1>4, <1>5

(* A step leaves the bindings alone, adds one for a new row under a key      *)
(* never used, or makes every key forget its task.                           *)
KeyStep ==
  \/ UNCHANGED idem
  \/ \E t \in Tasks, k \in Keys, payload \in Payloads :
       /\ KeyUnused(k) /\ tasks[t].status = "absent" /\ tasks'[t].status = "queued"
       /\ idem' = [idem EXCEPT ![k] = [payload |-> payload, task |-> t]]
  \/ idem' = [k \in Keys |-> [idem[k] EXCEPT !.task = NoTask]]

(* Every step treats the idempotency keys in one of the three ways. *)
LEMMA KeySteps == ASSUME TypeOK, [Next]_vars PROVE KeyStep
<1>1. ASSUME NEW t \in Tasks, NEW k \in Keys \cup {NoKey}, NEW payload \in Payloads,
             NEW kind \in Kinds, NEW budget \in Budgets, Submit(t, k, payload, kind, budget)
      PROVE  KeyStep
  <2>1. NewRow(kind, budget).status = "queued"
    BY DEF NewRow, EmptyRow
  <2> QED BY <1>1, <2>1, WriteOneRow DEF Submit, FreshId, KeyStep
<1>2. ASSUME NEW w \in Workers, WorkerStep(w) \/ HandlerStep(w) PROVE UNCHANGED idem
  BY <1>2 DEF WorkerStep, HandlerStep, Recover, Claim, NothingReady, Preflight, BeginTask, StartHandler,
              RejectKind, ReturnNil, ReturnError, ReturnCanceled, CancelOwnTask, Leaves, Unwind,
              Progress, Heartbeat, SucceedInHandler
<1>3. ASSUME NEW c \in Clients, UserStep(c) PROVE UNCHANGED idem
  BY <1>3 DEF UserStep, UserCancel, ObservePause, UserResume, UserRetry, UserStop, UserPause
<1>4. ASSUME Restart \/ Tick \/ UNCHANGED vars PROVE UNCHANGED idem
  BY <1>4 DEF Restart, Tick, vars
<1>5. ASSUME UpgradeRestart PROVE KeyStep
  BY <1>5 DEF UpgradeRestart, KeyStep
<1> QED BY <1>1, <1>2, <1>3, <1>4, <1>5 DEF Next, KeyStep

(* The binding a step leaves under a key: the old one, the old one without   *)
(* its task, or one for a fresh task under a key never used.                 *)
LEMMA BindingStep ==
  ASSUME TypeOK, KeyStep, NEW k \in Keys
  PROVE  \/ idem'[k] = idem[k]
         \/ idem'[k].payload = idem[k].payload /\ idem'[k].task = NoTask
         \/ /\ KeyUnused(k)
            /\ tasks[idem'[k].task].status = "absent" /\ tasks'[idem'[k].task].status = "queued"
            /\ \A l \in Keys : l # k => idem'[l] = idem[l]
  BY DEF KeyStep, KeyUnused, TypeOK, ControlTyped, Bindings

(* Two keys never come to share a task. *)
LEMMA KeysPreserved == ASSUME TypeOK, KeysLeadToOneTask, [Next]_vars PROVE KeysLeadToOneTask'
<1>1. KeyStep
  BY KeySteps
<1>2. \A k \in Keys : idem[k].task \in Tasks \cup {NoTask} /\ idem'[k].task \in Tasks \cup {NoTask}
  BY ControlSteps DEF TypeOK, ControlTyped, Bindings
<1>3. ASSUME NEW k \in Keys, idem'[k].task # NoTask PROVE tasks'[idem'[k].task].status # "absent"
  BY <1>1, <1>2, <1>3, BindingStep, RowsPersist DEF KeysLeadToOneTask
<1>4. ASSUME NEW k \in Keys, NEW l \in Keys, k # l, idem'[k].task # NoTask
      PROVE  idem'[k].task # idem'[l].task
  BY <1>1, <1>2, <1>4, BindingStep DEF KeysLeadToOneTask
<1> QED BY <1>3, <1>4 DEF KeysLeadToOneTask

-----------------------------------------------------------------------------
(* The inductive invariant and what follows from it. *)

IInv ==
  /\ TypeOK
  /\ AttemptsCovered
  /\ RowConsistent
  /\ OwnLease
  /\ EventsTellStatus
  /\ KeysLeadToOneTask

(* The invariant holds of an empty database. *)
LEMMA InitInvariant == Init => IInv
<1> SUFFICES ASSUME Init PROVE IInv
  OBVIOUS
<1>1. EmptyRow \in Rows
  BY DEF EmptyRow, Rows
<1>2. TablesTyped
  BY <1>1 DEF Init, TablesTyped
<1>3. \A k \in Keys : idem[k] \in Bindings /\ idem[k].task = NoTask
  BY DEF Init, Bindings
<1>4. ControlTyped
  BY <1>3, RecordsTyped DEF Init, ControlTyped, WorkerPoints, Holding
<1>5. AttemptsCovered /\ RowConsistent
  BY DEF Init, EmptyRow, AttemptsCovered, Covered, Allowance, RowConsistent, Consistent
<1>6. OwnLease
  BY RecordsTyped DEF Init, OwnLease
<1>7. EventsTellStatus
  BY DEF Init, EmptyRow, EventsTellStatus
<1>8. KeysLeadToOneTask
  BY <1>3 DEF KeysLeadToOneTask
<1> QED BY <1>2, <1>4, <1>5, <1>6, <1>7, <1>8 DEF IInv, TypeOK

(* Every step preserves the invariant. *)
LEMMA StepInvariant == IInv /\ [Next]_vars => IInv'
<1> SUFFICES ASSUME IInv, [Next]_vars PROVE IInv'
  OBVIOUS
<1>1. TypeOK /\ AttemptsCovered /\ RowConsistent /\ OwnLease /\ EventsTellStatus /\ KeysLeadToOneTask
  BY DEF IInv
<1>2. TypeOK'
  BY <1>1, TablesTypedPreserved, ControlSteps DEF TypeOK
<1>3. AttemptsCovered' /\ RowConsistent'
  BY <1>1, RowInvariantsPreserved
<1>4. OwnLease'
  BY <1>1, OwnLeasePreserved
<1>5. EventsTellStatus' /\ KeysLeadToOneTask'
  BY <1>1, EventsPreserved, KeysPreserved
<1> QED BY <1>2, <1>3, <1>4, <1>5 DEF IInv

(* IInv holds in every reachable state of every instance. *)
THEOREM Invariance == Spec => []IInv
  BY InitInvariant, StepInvariant, PTL DEF Spec

(* Every variable keeps its type, whatever workers, users, restarts and      *)
(* migrations do.                                                            *)
THEOREM Typing == Spec => []TypeOK
<1>1. IInv => TypeOK
  BY DEF IInv
<1> QED BY <1>1, Invariance, PTL

(* No path that changes a row of the tasks table breaks its row CHECK.       *)
THEOREM RowsStayConsistent == Spec => []RowConsistent
<1>1. IInv => RowConsistent
  BY DEF IInv
<1> QED BY <1>1, Invariance, PTL

(* max_attempts and the recovery budget bound the executions of a task.      *)
THEOREM ExecutionsBounded == Spec => []AttemptsBounded
<1>1. IInv => AttemptsBounded
  BY DEF IInv, AttemptsCovered, Covered, Allowance, AttemptsBounded
<1> QED BY <1>1, Invariance, PTL

(* Owner, epoch and expiry identify the lease a worker was granted, although *)
(* the epochs of different leases of a task are equal: with one owner name   *)
(* per worker the name alone does it.                                        *)
THEOREM Fencing == Spec => []FencingSound
<1>1. IInv => FencingSound
  BY DEF IInv, TypeOK, ControlTyped, OwnLease, FencingSound, LeaseValid
<1> QED BY <1>1, Invariance, PTL

(* The event log agrees with the rows.                                       *)
THEOREM EventsAgree == Spec => []EventsTellStatus
<1>1. IInv => EventsTellStatus
  BY DEF IInv
<1> QED BY <1>1, Invariance, PTL

(* Two keys never lead to one task, and no key to a missing one.             *)
THEOREM KeysSound == Spec => []KeysLeadToOneTask
<1>1. IInv => KeysLeadToOneTask
  BY DEF IInv
<1> QED BY <1>1, Invariance, PTL

(* Submitting under a used key never rebinds it, also across migrations.     *)
THEOREM KeysStable == Spec => KeyNeverRebinds
<1> DEFINE Stable == \A k \in Keys : idem[k].payload # NoPayload =>
                       /\ idem'[k].payload = idem[k].payload
                       /\ idem'[k].task \in {idem[k].task, NoTask}
<1>1. IInv /\ [Next]_vars => [Stable]_vars
  <2> SUFFICES ASSUME IInv, [Next]_vars PROVE Stable
    OBVIOUS
  <2> QED BY KeySteps, BindingStep DEF IInv, KeyUnused
<1> QED BY <1>1, Invariance, PTL DEF Spec, KeyNeverRebinds

-----------------------------------------------------------------------------
(* What a worker writes when its handler has returned, in the server as      *)
(* main.go assembles it.                                                     *)

(* main.go gives its worker one Queue object and NewHTTPAdapter makes        *)
(* another: no two of them share a running map.                              *)
QueuesApart ==
  /\ \A v, w \in Workers : QueueOf[v] = QueueOf[w] => v = w
  /\ \A w \in Workers : QueueOf[w] # UserQueue

(* A running map knows a worker only under the task it holds, and only from  *)
(* the start of the handler until RunOnce has unwound.                       *)
Tracked(q, t) ==
  running[q][t] # NoWorker =>
    /\ QueueOf[running[q][t]] = q
    /\ pc[running[q][t]] \in {"handling", "canceling", "unwinding"}
    /\ held[running[q][t]].task = t

HandlersTracked == \A q \in Queues, t \in Tasks : Tracked(q, t)

(* A handler's context is never cancelled, so RunOnce never takes the branch *)
(* that cancels its own task.                                                *)
HandlersUndisturbed ==
  \A w \in Workers : /\ pc[w] = "handling" => w \notin ctxCanceled
                     /\ pc[w] # "canceling"

(* The running maps name typed workers. *)
LEMMA RunningTyped ==
  ASSUME TypeOK
  PROVE  /\ \A q \in Queues, t \in Tasks : running[q][t] \in Workers \cup {NoWorker}
         /\ running \in [Queues -> [Tasks -> Workers \cup {NoWorker}]]
         /\ pc \in [Workers -> WorkerPoints]
         /\ held \in [Workers -> Leases]
  BY DEF TypeOK, ControlTyped

(* stopRunning forgets the tasks it is given and keeps the other entries; the *)
(* workers it cancels were found in the map under one of those tasks.         *)
LEMMA StopRunningForgets ==
  ASSUME TypeOK, NEW q \in Queues, NEW S, StopRunning(q, S)
  PROVE  /\ \A p \in Queues, t \in Tasks :
              running'[p][t] = IF p = q /\ t \in S THEN NoWorker ELSE running[p][t]
         /\ \A w \in Workers : w \in ctxCanceled' =>
              w \in ctxCanceled \/ \E t \in S : running[q][t] = w
  BY RunningTyped DEF StopRunning

(* A step of one worker moves no other worker. *)
LEMMA OneWorkerMoves ==
  ASSUME TypeOK, NEW w \in Workers, WorkerStep(w) \/ HandlerStep(w)
  PROVE  \A v \in Workers \ {w} : pc'[v] = pc[v] /\ held'[v] = held[v]
<1> USE RunningTyped DEF Goto, workerVars
<1>1. ASSUME HandlerStep(w) PROVE UNCHANGED <<pc, held>>
  BY <1>1 DEF HandlerStep, Progress, Heartbeat, SucceedInHandler
<1>2. ASSUME NEW t \in Tasks, Claim(w, t)
      PROVE  \A v \in Workers \ {w} : pc'[v] = pc[v] /\ held'[v] = held[v]
  BY <1>2 DEF Claim
<1> QED
  BY <1>1, <1>2
     DEF WorkerStep, Recover, NothingReady, Preflight, BeginTask, StartHandler, RejectKind,
         ReturnNil, ReturnError, ReturnCanceled, Leaves, CancelOwnTask, Unwind

(* Entering, moving and forgetting a worker keep the maps and the workers in *)
(* step, on any number of Queue objects.                                     *)
LEMMA TrackingPreserved == ASSUME TypeOK, HandlersTracked, [Next]_vars PROVE HandlersTracked'
<1> USE RunningTyped DEF Goto, workerVars, HandlersTracked, Tracked
<1> DEFINE Shrunk == \A p \in Queues, t \in Tasks :
                       running'[p][t] = running[p][t] \/ running'[p][t] = NoWorker
<1>0. ASSUME NEW q \in Queues, NEW S, StopRunning(q, S)
      PROVE  Shrunk /\ \A t \in S \cap Tasks : running'[q][t] = NoWorker
  BY <1>0, StopRunningForgets
<1>1. ASSUME UNCHANGED <<running, pc, held>> PROVE HandlersTracked'
  BY <1>1
<1>2. ASSUME NEW w \in Workers, WorkerStep(w), Shrunk,
             pc[w] \notin {"handling", "canceling", "unwinding"}
      PROVE  HandlersTracked'
  BY <1>2, OneWorkerMoves
<1>3. ASSUME NEW w \in Workers, Shrunk, UNCHANGED held,
             pc' = [pc EXCEPT ![w] = "unwinding"] \/ pc' = [pc EXCEPT ![w] = "canceling"]
      PROVE  HandlersTracked'
  <2>1. pc'[w] \in {"canceling", "unwinding"} /\ \A v \in Workers \ {w} : pc'[v] = pc[v]
    BY <1>3
  <2>2. ASSUME NEW q \in Queues, NEW t \in Tasks, running'[q][t] # NoWorker PROVE Tracked(q, t)'
    <3>1. running'[q][t] = running[q][t] /\ running[q][t] \in Workers /\ Tracked(q, t)
      BY <1>3, <2>2
    <3>2. pc'[running[q][t]] \in {"handling", "canceling", "unwinding"}
      BY <2>1, <2>2, <3>1
    <3> QED BY <1>3, <3>1, <3>2
  <2> QED BY <2>2
<1> HIDE DEF HandlersTracked, Tracked
<1>4. ASSUME NEW w \in Workers, StartHandler(w) PROVE HandlersTracked'
  <2>1. held[w].task \in Tasks
    BY <1>4, HeldTask DEF StartHandler, Holding, WorkerPoints
  <2>2. /\ pc'[w] = "handling" /\ UNCHANGED held
        /\ \A v \in Workers \ {w} : pc'[v] = pc[v]
    BY <1>4 DEF StartHandler
  <2>3. \A q \in Queues, t \in Tasks :
          running'[q][t] = IF q = QueueOf[w] /\ t = held[w].task THEN w ELSE running[q][t]
    BY <1>4, <2>1 DEF StartHandler
  <2> QED BY <2>1, <2>2, <2>3 DEF HandlersTracked, Tracked
<1>5. ASSUME NEW w \in Workers, NEW step \in {"canceling", "unwinding"}, Leaves(w, step)
      PROVE  HandlersTracked'
  BY <1>3, <1>5 DEF Leaves
<1>6. ASSUME NEW w \in Workers, CancelOwnTask(w) PROVE HandlersTracked'
  <2>1. UNCHANGED running \/ StopRunning(QueueOf[w], {held[w].task})
    BY <1>6 DEF CancelOwnTask
  <2>2. Shrunk
    BY <1>0, <2>1
  <2> QED BY <1>3, <1>6, <2>2 DEF CancelOwnTask
<1>7. ASSUME NEW w \in Workers, Unwind(w) PROVE HandlersTracked'
  <2>1. StopRunning(QueueOf[w], {held[w].task})
    BY <1>7 DEF Unwind
  <2>2. \A v \in Workers \ {w} : pc'[v] = pc[v] /\ held'[v] = held[v]
    BY <1>7, OneWorkerMoves DEF WorkerStep
  <2>3. held[w].task \in Tasks
    BY <1>7, HeldTask DEF Unwind, Holding, WorkerPoints
  <2>4. Shrunk /\ running'[QueueOf[w]][held[w].task] = NoWorker
    BY <1>0, <2>1, <2>3
  <2>5. ASSUME NEW q \in Queues, NEW t \in Tasks, running'[q][t] # NoWorker PROVE Tracked(q, t)'
    <3>1. running'[q][t] = running[q][t] /\ running[q][t] \in Workers /\ Tracked(q, t)
      BY <2>4, <2>5 DEF HandlersTracked
    <3>2. running[q][t] # w
      BY <2>4, <2>5, <3>1 DEF Tracked
    <3> QED BY <2>2, <3>1, <3>2 DEF Tracked
  <2> QED BY <2>5 DEF HandlersTracked, Tracked
<1>8. ASSUME NEW w \in Workers, WorkerStep(w) \/ HandlerStep(w) PROVE HandlersTracked'
  <2>1. ASSUME HandlerStep(w) PROVE HandlersTracked'
    BY <1>1, <2>1 DEF HandlerStep, Progress, Heartbeat, SucceedInHandler
  <2>2. ASSUME Recover(w) PROVE HandlersTracked'
    <3>1. pc[w] = "idle" /\ \E S : StopRunning(QueueOf[w], S)
      BY <2>2 DEF Recover
    <3> QED BY <1>0, <1>2, <2>2, <3>1 DEF WorkerStep
  <2>3. ASSUME NEW t \in Tasks, Claim(w, t) PROVE HandlersTracked'
    BY <1>2, <2>3 DEF Claim, WorkerStep
  <2>4. ASSUME NothingReady(w) \/ Preflight(w) \/ BeginTask(w) \/ RejectKind(w) PROVE HandlersTracked'
    BY <1>2, <2>4 DEF NothingReady, Preflight, BeginTask, RejectKind, WorkerStep
  <2>5. ASSUME ReturnNil(w) \/ (\E r \in BOOLEAN : ReturnError(w, r)) \/ ReturnCanceled(w)
        PROVE  HandlersTracked'
    BY <1>5, <2>5 DEF ReturnNil, ReturnError, ReturnCanceled
  <2> QED BY <1>4, <1>6, <1>7, <1>8, <2>1, <2>2, <2>3, <2>4, <2>5 DEF WorkerStep
<1>9. ASSUME NEW c \in Clients, UserStep(c) PROVE HandlersTracked'
  <2>1. ASSUME UserStop(c) PROVE HandlersTracked'
    <3>1. Shrunk /\ UNCHANGED <<pc, held>>
      BY <1>0, <2>1 DEF UserStop
    <3> QED BY <3>1 DEF HandlersTracked, Tracked
  <2>2. ASSUME ~UserStop(c) PROVE HandlersTracked'
    BY <1>1, <1>9, <2>2 DEF UserStep, UserCancel, ObservePause, UserPause, UserResume, UserRetry
  <2> QED BY <2>1, <2>2
<1>10. ASSUME Restart \/ UpgradeRestart PROVE HandlersTracked'
  BY <1>10 DEF Restart, UpgradeRestart, ProcessLost, HandlersTracked, Tracked
<1>11. ASSUME Tick \/ UNCHANGED vars PROVE HandlersTracked'
  BY <1>1, <1>11 DEF Tick, vars
<1>12. ASSUME NEW t \in Tasks, NEW k \in Keys \cup {NoKey}, NEW payload \in Payloads,
              NEW kind \in Kinds, NEW budget \in Budgets, Submit(t, k, payload, kind, budget)
       PROVE  HandlersTracked'
  BY <1>1, <1>12 DEF Submit
<1> QED BY <1>8, <1>9, <1>10, <1>11, <1>12 DEF Next

(* With the Queue objects apart, what is found and cancelled in a map is     *)
(* never the handler of another worker, and a worker itself is past its      *)
(* handler whenever it stops entries of its own map.                         *)
LEMMA UndisturbedPreserved ==
  ASSUME QueuesApart, TypeOK, HandlersTracked, HandlersUndisturbed, [Next]_vars
  PROVE  HandlersUndisturbed'
<1> USE RunningTyped DEF Goto, workerVars, HandlersUndisturbed
<1>1. ASSUME UNCHANGED <<ctxCanceled, pc>> PROVE HandlersUndisturbed'
  BY <1>1
<1>2. ASSUME NEW w \in Workers, NEW S, S \subseteq Tasks, StopRunning(QueueOf[w], S)
      PROVE  ctxCanceled' \subseteq ctxCanceled \cup {w}
  <2>1. \A t \in S, v \in Workers : running[QueueOf[w]][t] = v => v = w
    BY <1>2 DEF HandlersTracked, Tracked, QueuesApart
  <2> QED BY <1>2, <2>1, StopRunningForgets DEF StopRunning
<1>3. ASSUME NEW w \in Workers, WorkerStep(w) \/ HandlerStep(w) PROVE HandlersUndisturbed'
  <2>0. \A v \in Workers \ {w} : pc'[v] = pc[v]
    BY <1>3, OneWorkerMoves
  <2>1. ASSUME HandlerStep(w) PROVE HandlersUndisturbed'
    BY <1>1, <2>1 DEF HandlerStep, Progress, Heartbeat, SucceedInHandler
  <2>2. ASSUME Recover(w) PROVE HandlersUndisturbed'
    <3>1. /\ ctxCanceled' \subseteq ctxCanceled \cup {w}
          /\ pc'[w] = "leasing"
      BY <1>2, <2>2 DEF Recover
    <3> QED BY <2>0, <3>1
  <2>3. ASSUME NEW t \in Tasks, Claim(w, t) PROVE HandlersUndisturbed'
    BY <2>0, <2>3 DEF Claim
  <2>4. ASSUME NothingReady(w) \/ Preflight(w) \/ BeginTask(w) \/ RejectKind(w) PROVE HandlersUndisturbed'
    BY <2>0, <2>4 DEF NothingReady, Preflight, BeginTask, RejectKind
  <2>5. ASSUME StartHandler(w) PROVE HandlersUndisturbed'
    BY <2>0, <2>5 DEF StartHandler
  <2>6. ASSUME ReturnNil(w) \/ (\E r \in BOOLEAN : ReturnError(w, r)) PROVE HandlersUndisturbed'
    BY <2>0, <2>6 DEF ReturnNil, ReturnError, Leaves
  <2>7. ~ReturnCanceled(w) /\ ~CancelOwnTask(w)
    BY DEF ReturnCanceled, CancelOwnTask
  <2>8. ASSUME Unwind(w) PROVE HandlersUndisturbed'
    <3>1. held[w].task \in Tasks
      BY <2>8, HeldTask DEF Unwind, Holding, WorkerPoints
    <3>2. /\ ctxCanceled' \subseteq ctxCanceled \cup {w}
          /\ pc'[w] = "idle"
      BY <1>2, <2>8, <3>1 DEF Unwind
    <3> QED BY <2>0, <3>2
  <2> QED BY <1>3, <2>1, <2>2, <2>3, <2>4, <2>5, <2>6, <2>7, <2>8 DEF WorkerStep
<1>4. ASSUME NEW c \in Clients, UserStep(c) PROVE HandlersUndisturbed'
  <2>1. ASSUME UserStop(c) PROVE HandlersUndisturbed'
    <3>1. clients[c].task \in Tasks
      BY <2>1 DEF UserStop, TypeOK, ControlTyped, Requests
    <3>2. running[UserQueue][clients[c].task] \notin Workers
      BY <3>1 DEF HandlersTracked, Tracked, QueuesApart
    <3>3. ctxCanceled' \subseteq ctxCanceled /\ UNCHANGED pc
      BY <2>1, <3>2 DEF UserStop, StopRunning
    <3> QED BY <3>3
  <2>2. ASSUME ~UserStop(c) PROVE HandlersUndisturbed'
    BY <1>1, <1>4, <2>2 DEF UserStep, UserCancel, ObservePause, UserPause, UserResume, UserRetry
  <2> QED BY <2>1, <2>2
<1>5. ASSUME Restart \/ UpgradeRestart PROVE HandlersUndisturbed'
  BY <1>5 DEF Restart, UpgradeRestart, ProcessLost
<1>6. ASSUME Tick \/ UNCHANGED vars PROVE HandlersUndisturbed'
  BY <1>1, <1>6 DEF Tick, vars
<1>7. ASSUME NEW t \in Tasks, NEW k \in Keys \cup {NoKey}, NEW payload \in Payloads,
             NEW kind \in Kinds, NEW budget \in Budgets, Submit(t, k, payload, kind, budget)
      PROVE  HandlersUndisturbed'
  BY <1>1, <1>7 DEF Submit
<1> QED BY <1>3, <1>4, <1>5, <1>6, <1>7 DEF Next

(* The running maps and the workers agree, on whatever Queue objects they are. *)
THEOREM MapsTrackHandlers == Spec => []HandlersTracked
<1>1. Init => HandlersTracked
  BY DEF Init, HandlersTracked, Tracked
<1>2. TypeOK /\ HandlersTracked /\ [Next]_vars => HandlersTracked'
  BY TrackingPreserved
<1> QED BY <1>1, <1>2, Typing, PTL DEF Spec

(* In the server as assembled no user control, recovery or other worker ever *)
(* cancels the context of a running handler: a cancelled task's handler runs *)
(* to its end and is stopped by the fence alone.                             *)
THEOREM HandlersRunToTheirEnd == ASSUME QueuesApart PROVE Spec => []HandlersUndisturbed
<1>1. Init => HandlersUndisturbed
  BY DEF Init, HandlersUndisturbed
<1>2. TypeOK /\ HandlersTracked /\ HandlersUndisturbed /\ [Next]_vars => HandlersUndisturbed'
  BY UndisturbedPreserved
<1> QED BY <1>1, <1>2, Typing, MapsTrackHandlers, PTL DEF Spec

(* In the server as assembled, a worker whose task was recovered, paused,    *)
(* cancelled or leased again meanwhile changes no row when its handler       *)
(* returns: all it writes passes the fence, and the fence admits only the    *)
(* lease the row still carries.                                              *)
THEOREM StaleWorkersWriteNothing == ASSUME QueuesApart PROVE Spec => StaleWorkerNeverWrites
<1> DEFINE Rightful(w) == /\ held[w].lease = leaseNo[held[w].task]
                          /\ tasks[held[w].task].status = "running"
           Reports(w) == pc[w] \in {"handling", "canceling"} /\ pc'[w] = "unwinding" /\ tasks' # tasks
<1>1. ASSUME TypeOK, FencingSound, HandlersUndisturbed, [Next]_vars, NEW w \in Workers, Reports(w)
      PROVE  Rightful(w)
  <2> USE RunningTyped DEF Goto, workerVars
  <2>1. Holds(w) => Rightful(w)
    BY <1>1 DEF Holds, FencedRunning, FencingSound, Holding, WorkerPoints
  <2>2. pc' # pc /\ tasks' # tasks /\ pc'[w] # "idle"
    BY <1>1
  <2>3. PICK v \in Workers : WorkerStep(v) \/ HandlerStep(v)
    BY <1>1, <2>2 DEF Next, Submit, UserStep, UserCancel, UserStop, ObservePause, UserPause,
       UserResume, UserRetry, Restart, UpgradeRestart, ProcessLost, Tick, vars
  <2>4. v = w
    BY <1>1, <2>3, OneWorkerMoves
  <2>5. ~HandlerStep(w)
    BY <2>2 DEF HandlerStep, Progress, Heartbeat, SucceedInHandler
  <2>6. ReturnNil(w) \/ \E r \in BOOLEAN : ReturnError(w, r)
    <3>1. pc[w] = "handling" /\ w \notin ctxCanceled
      BY <1>1 DEF HandlersUndisturbed
    <3> QED
      BY <2>3, <2>4, <2>5, <3>1
         DEF WorkerStep, Recover, Claim, NothingReady, Preflight, BeginTask, StartHandler,
             RejectKind, ReturnCanceled, CancelOwnTask, Unwind
  <2>7. Holds(w)
    BY <2>2, <2>6 DEF ReturnNil, ReturnError, FencedWrite
  <2> QED BY <2>1, <2>7
<1>2. TypeOK /\ FencingSound /\ HandlersUndisturbed /\ [Next]_vars
        => [\A w \in Workers : Reports(w) => Rightful(w)]_vars
  BY <1>1
<1>3. Spec => []HandlersUndisturbed
  BY HandlersRunToTheirEnd
<1> QED BY <1>2, <1>3, Typing, Fencing, PTL DEF Spec, StaleWorkerNeverWrites

-----------------------------------------------------------------------------
(* Refinement of TaskLifecycle. *)

(* An empty database is the initial state of the lifecycle. *)
LEMMA LifecycleInit == Init => Lifecycle!Init
<1> SUFFICES ASSUME Init PROVE Lifecycle!Init
  OBVIOUS
<1>1. \A t \in Tasks : tasks[t] = EmptyRow /\ resumes[t] = 0
  BY DEF Init
<1>2. \A t \in Tasks : /\ Phase(t) = "none" /\ tasks[t].attempt = 0
                      /\ tasks[t].budget + tasks[t].recoverCount + resumes[t] = 1
  BY <1>1 DEF Phase, EmptyRow
<1> QED BY <1>2 DEF Lifecycle!Init

(* The effect of one row's step on what the submitter sees of it. *)
AbstractMove(t, from, to) == Phase(t) \in from /\ Phase(t)' = to

Kept(t) == tasks'[t].attempt = tasks[t].attempt /\ Allowance(t)' = Allowance(t)

AbstractStep(t) ==
  \/ Phase(t)' = Phase(t) /\ Kept(t)
  \/ /\ AbstractMove(t, {"none", "failed", "canceled"}, "waiting")
     /\ tasks'[t].attempt = 0 /\ Allowance(t)' \in 1..16
  \/ /\ AbstractMove(t, {"waiting"}, "executing")
     /\ tasks[t].attempt < Allowance(t) /\ Allowance(t)' = Allowance(t)
     /\ tasks'[t].attempt = tasks[t].attempt + 1
  \/ AbstractMove(t, {"executing"}, "succeeded") /\ Kept(t)
  \/ AbstractMove(t, {"executing"}, "failed") /\ Kept(t)
  \/ AbstractMove(t, {"executing"}, "waiting") /\ tasks[t].attempt < Allowance(t) /\ Kept(t)
  \/ AbstractMove(t, {"waiting", "executing", "paused"}, "canceled") /\ Kept(t)
  \/ AbstractMove(t, {"executing"}, "paused") /\ Kept(t)
  \/ /\ AbstractMove(t, {"paused"}, "waiting")
     /\ tasks'[t].attempt = tasks[t].attempt /\ Allowance(t)' = Allowance(t) + 1

(* What each listed transition does to phase, attempts and allowance. *)
LEMMA RowStepAbstract ==
  ASSUME IInv, NEW t \in Tasks, RowStep(t) PROVE AbstractStep(t)
<1>1. /\ tasks[t] \in Rows
      /\ resumes[t] \in Nat
      /\ now \in Nat
      /\ Covered(t)
  BY DEF IInv, TypeOK, TablesTyped, ControlTyped, AttemptsCovered
<1> USE <1>1 DEF Rows, Covered, Allowance, Phase, AbstractStep, AbstractMove, Kept, Rewritten, Same, Unleased
<1>4. ASSUME NEW kind \in Kinds, NEW budget \in Budgets,
             Rewritten(t, {"absent"}, NewRow(kind, budget))
      PROVE  AbstractStep(t)
  BY <1>4 DEF NewRow, EmptyRow
<1>5. ASSUME NEW w \in Workers, Claimed(t, w)
      PROVE  AbstractStep(t)
  BY <1>5 DEF Claimed, ClaimedRow
<1>6. CASE Rewritten(t, {"leased"}, BegunRow(tasks[t]))
  BY <1>6 DEF BegunRow
<1>7. ASSUME NEW mark \in 0..100, Rewritten(t, {"running"}, ProgressRow(tasks[t], mark))
      PROVE  AbstractStep(t)
  BY <1>7 DEF ProgressRow
<1>8. CASE Rewritten(t, Active, HeartbeatRow(tasks[t]))
  BY <1>8 DEF HeartbeatRow
<1>9. ASSUME NEW status \in {"succeeded", "failed"},
             Rewritten(t, {"running"}, FinishedRow(tasks[t], status))
      PROVE  AbstractStep(t)
  BY <1>9 DEF FinishedRow
<1>10. ASSUME NEW retryable \in BOOLEAN, Rewritten(t, {"running"}, FailedRow(tasks[t], retryable))
       PROVE  AbstractStep(t)
  BY <1>10 DEF FailedRow
<1>11. CASE Rewritten(t, {"queued", "paused"} \cup Active, CanceledRow(tasks[t]))
  BY <1>11 DEF CanceledRow
<1>12. CASE Rewritten(t, {"running"}, PausedRow(tasks[t]))
  BY <1>12 DEF PausedRow
<1>13. CASE /\ tasks[t].status = "paused"
            /\ tasks'[t] = ResumedRow(tasks[t])
            /\ resumes'[t] = resumes[t] + 1
  BY <1>13 DEF ResumedRow
<1>14. CASE /\ tasks[t].status \in {"failed", "canceled"}
            /\ tasks'[t] = RetriedRow(tasks[t])
            /\ resumes'[t] = 0
  BY <1>14 DEF RetriedRow
<1> QED
  BY <1>4, <1>5, <1>6, <1>7, <1>8, <1>9, <1>10, <1>11, <1>12, <1>13, <1>14 DEF RowStep

(* A step of one row is a step of its task's lifecycle, or a stutter.        *)
LEMMA OneRowImplements ==
  ASSUME IInv, NEW t \in Tasks, RowStep(t), \A u \in Tasks \ {t} : Unchanged(u)
  PROVE  [Lifecycle!Next]_(Lifecycle!lifecycleVars)
<1> DEFINE P == [u \in Tasks |-> Phase(u)]
           A == [u \in Tasks |-> tasks[u].attempt]
           L == [u \in Tasks |-> tasks[u].budget + tasks[u].recoverCount + resumes[u]]
<1>1. AbstractStep(t)
  BY RowStepAbstract
<1>2. \A u \in Tasks \ {t} : /\ Phase(u)' = Phase(u)
                             /\ tasks'[u].attempt = tasks[u].attempt
                             /\ Allowance(u)' = Allowance(u)
  BY DEF Unchanged, Same, Phase, Allowance
<1>3. /\ P' = [P EXCEPT ![t] = Phase(t)']
      /\ A' = [A EXCEPT ![t] = tasks'[t].attempt]
      /\ L' = [L EXCEPT ![t] = Allowance(t)']
  BY <1>2 DEF Allowance
<1>4. P[t] = Phase(t) /\ A[t] = tasks[t].attempt /\ L[t] = Allowance(t)
  BY DEF Allowance
<1>5. A = [A EXCEPT ![t] = A[t]] /\ L = [L EXCEPT ![t] = L[t]] /\ P = [P EXCEPT ![t] = P[t]]
  OBVIOUS
<1> HIDE DEF P, A, L
<1> USE <1>3, <1>4, <1>5 DEF AbstractMove, Kept
<1>6. CASE Phase(t)' = Phase(t) /\ Kept(t)
  BY <1>6 DEF Lifecycle!lifecycleVars, P, A, L
<1>7. CASE /\ AbstractMove(t, {"none", "failed", "canceled"}, "waiting")
           /\ tasks'[t].attempt = 0 /\ Allowance(t)' \in 1..16
  <2>1. Lifecycle!Start(t)
    BY <1>7 DEF Lifecycle!Start, Lifecycle!Move, P, A, L
  <2> QED BY <2>1 DEF Lifecycle!Next
<1>8. CASE /\ AbstractMove(t, {"waiting"}, "executing")
           /\ tasks[t].attempt < Allowance(t) /\ Allowance(t)' = Allowance(t)
           /\ tasks'[t].attempt = tasks[t].attempt + 1
  <2>1. Lifecycle!Grant(t)
    BY <1>8 DEF Lifecycle!Grant, Lifecycle!Move, P, A, L
  <2> QED BY <2>1 DEF Lifecycle!Next
<1>9. CASE /\ Kept(t)
           /\ \/ AbstractMove(t, {"executing"}, "succeeded")
              \/ AbstractMove(t, {"executing"}, "failed")
              \/ AbstractMove(t, {"executing"}, "waiting") /\ tasks[t].attempt < Allowance(t)
  <2>1. Lifecycle!Report(t)
    BY <1>9 DEF Lifecycle!Report, Lifecycle!Move, P, A, L
  <2> QED BY <2>1 DEF Lifecycle!Next
<1>10. CASE AbstractMove(t, {"waiting", "executing", "paused"}, "canceled") /\ Kept(t)
  <2>1. Lifecycle!Cancel(t)
    BY <1>10 DEF Lifecycle!Cancel, Lifecycle!Move, P, A, L
  <2> QED BY <2>1 DEF Lifecycle!Next
<1>11. CASE AbstractMove(t, {"executing"}, "paused") /\ Kept(t)
  <2>1. Lifecycle!Pause(t)
    BY <1>11 DEF Lifecycle!Pause, Lifecycle!Move, P, A, L
  <2> QED BY <2>1 DEF Lifecycle!Next
<1>12. CASE /\ AbstractMove(t, {"paused"}, "waiting")
            /\ tasks'[t].attempt = tasks[t].attempt /\ Allowance(t)' = Allowance(t) + 1
  <2>1. Lifecycle!Resume(t)
    BY <1>12 DEF Lifecycle!Resume, Lifecycle!Move, P, A, L
  <2> QED BY <2>1 DEF Lifecycle!Next
<1> QED BY <1>1, <1>6, <1>7, <1>8, <1>9, <1>10, <1>11, <1>12 DEF AbstractStep

(* Expired leases recovered together are executions taken back together.     *)
LEMMA RecoveryImplements ==
  ASSUME IInv, \A t \in Tasks : Recovered(t) \/ Unchanged(t)
  PROVE  [Lifecycle!Next]_(Lifecycle!lifecycleVars)
<1>1. ASSUME NEW t \in Tasks, Recovered(t)
      PROVE  /\ Phase(t) = "executing" /\ Phase(t)' \in {"waiting", "failed"}
             /\ tasks'[t].attempt = tasks[t].attempt
             /\ Allowance(t)' = Allowance(t) + 1
  <2>1. tasks[t] \in Rows /\ resumes[t] \in Nat
    BY DEF IInv, TypeOK, TablesTyped
  <2>2. /\ RecoveredRow(tasks[t]).status \in {"queued", "failed"}
        /\ RecoveredRow(tasks[t]).attempt = tasks[t].attempt
        /\ RecoveredRow(tasks[t]).budget = tasks[t].budget
        /\ RecoveredRow(tasks[t]).recoverCount = tasks[t].recoverCount + 1
    BY <2>1 DEF RecoveredRow, Unleased, Rows
  <2>3. Phase(t) = "executing" /\ Phase(t)' \in {"waiting", "failed"}
    BY <1>1, <2>2 DEF Recovered, Rewritten, Phase
  <2>4. Allowance(t)' = Allowance(t) + 1
    <3>1. /\ tasks'[t].budget = tasks[t].budget
          /\ tasks'[t].recoverCount = tasks[t].recoverCount + 1
          /\ resumes'[t] = resumes[t]
      BY <1>1, <2>2 DEF Recovered, Rewritten, Same
    <3>2. tasks[t].budget \in Int /\ tasks[t].recoverCount \in Int
      BY <2>1 DEF Rows
    <3> QED BY <2>1, <3>1, <3>2 DEF Allowance
  <2> QED BY <1>1, <2>2, <2>3, <2>4 DEF Recovered, Rewritten
<1>2. ASSUME NEW t \in Tasks, Unchanged(t)
      PROVE  /\ Phase(t)' = Phase(t)
             /\ tasks'[t].attempt = tasks[t].attempt
             /\ Allowance(t)' = Allowance(t)
  BY <1>2 DEF Unchanged, Same, Phase, Allowance
<1>3. PICK S \in SUBSET Tasks : \A t \in Tasks : IF t \in S THEN Recovered(t) ELSE Unchanged(t)
  <2>1. {t \in Tasks : Recovered(t)} \in SUBSET Tasks
    OBVIOUS
  <2> QED BY <2>1
<1>4. PICK again \in SUBSET S : \A t \in S : t \in again <=> Phase(t)' = "waiting"
  <2>1. {t \in S : Phase(t)' = "waiting"} \in SUBSET S
    OBVIOUS
  <2> QED BY <2>1
<1>5. \A t \in Tasks :
        /\ Phase(t)' = IF t \in again THEN "waiting" ELSE IF t \in S THEN "failed" ELSE Phase(t)
        /\ tasks'[t].attempt = tasks[t].attempt
        /\ Allowance(t)' = IF t \in S THEN Allowance(t) + 1 ELSE Allowance(t)
  BY <1>1, <1>2, <1>3, <1>4
<1>6. \A t \in S : Phase(t) = "executing"
  BY <1>1, <1>3
<1>7. Lifecycle!TakeBack(S)
  <2> USE DEF Allowance
  <2>1. [t \in Tasks |-> Phase(t)']
          = [t \in Tasks |-> IF t \in again THEN "waiting" ELSE IF t \in S THEN "failed" ELSE Phase(t)]
    BY <1>5
  <2>2. [t \in Tasks |-> tasks'[t].attempt] = [t \in Tasks |-> tasks[t].attempt]
    BY <1>5
  <2>3. [t \in Tasks |-> Allowance(t)']
          = [t \in Tasks |-> IF t \in S THEN Allowance(t) + 1 ELSE Allowance(t)]
    BY <1>5
  <2> QED BY <1>6, <2>1, <2>2, <2>3 DEF Lifecycle!TakeBack
<1> QED BY <1>7 DEF Lifecycle!Next

(* Whatever the workers, leases, restarts and users do, what a submitter     *)
(* sees of a task is the lifecycle of TaskLifecycle.                         *)
THEOREM Refinement == Spec => ImplementsLifecycle
<1>1. IInv /\ [Next]_vars => [Lifecycle!Next]_(Lifecycle!lifecycleVars)
  BY RowSteps, OneRowImplements, RecoveryImplements DEF IInv, RowsStep
<1> QED BY <1>1, LifecycleInit, Invariance, PTL DEF Spec, ImplementsLifecycle, Lifecycle!Spec

=============================================================================
