---------------------------- MODULE ImportsProofs ----------------------------
(***************************************************************************)
(* Proofs about Imports, for every set of previews, keys, names and        *)
(* clients.  Two invariants carry them.                                    *)
(*                                                                         *)
(* Tickets: the confirmation that used a preview up is the only one that   *)
(* may submit for it, and before it does the preview has no task.          *)
(*                                                                         *)
(* Landed: a job that is past the creation of its pack has one, whatever   *)
(* became of its task since.                                               *)
(***************************************************************************)
EXTENDS Imports, TLAPS

USE ImportAssumptions

(* Client c used up its preview and has not answered yet.                  *)
Holds(c) == confirm[c].step \in {"submit", "link"}
Exists(k) == task[k] # NoTask

Tickets ==
  /\ \A k \in Keys : Exists(k) => preview[task[k].preview].consumed
  /\ \A c \in Clients :
       /\ Holds(c) => preview[confirm[c].preview].consumed
       /\ At(c, "submit") => \A k \in Keys : task[k].preview # confirm[c].preview
       /\ At(c, "link") => task[confirm[c].key].preview = confirm[c].preview
  /\ \A c, d \in Clients : Holds(c) /\ Holds(d) /\ confirm[c].preview = confirm[d].preview => c = d
  /\ \A p \in Previews : preview[p].task # NoKey => task[preview[p].task].preview = p

Imported(k) == \E pack \in packs : pack.by = k
Landed ==
  /\ worker # NoJob => Exists(worker.key)
  /\ worker.step \in {"remove", "done"} => Imported(worker.key)

IInv ==
  /\ TypeOK /\ Tickets /\ Landed
  /\ OneTaskPerPreview /\ AnswersAgree /\ ConsumedHasTask
  /\ StagedUntilImported /\ SucceededImported

-----------------------------------------------------------------------------
(* Typing. *)

(* A confirmation that is under way has arguments.                         *)
LEMMA Arguments ==
  ASSUME TypeOK, NEW c \in Clients, ~At(c, "idle")
  PROVE  /\ confirm[c] \in [step : {"consume", "reread", "submit", "link"}, preview : Previews, key : Keys]
         /\ confirm[c].preview \in Previews /\ confirm[c].key \in Keys
<1>1. confirm[c] \in [step : {"consume", "reread", "submit", "link"}, preview : Previews, key : Keys]
  BY DEF TypeOK, At, NoConfirm
<1> QED BY <1>1

(* A step of a confirmation keeps its arguments.                           *)
LEMMA GoToTyped ==
  ASSUME TypeOK, NEW c \in Clients, ~At(c, "idle"), NEW step \in {"reread", "submit", "link"}, GoTo(c, step)
  PROVE  /\ confirm' \in [Clients -> [step : {"consume", "reread", "submit", "link"},
                                      preview : Previews, key : Keys] \cup {NoConfirm}]
         /\ confirm'[c].step = step
         /\ confirm'[c].preview = confirm[c].preview
         /\ confirm'[c].key = confirm[c].key
         /\ \A d \in Clients \ {c} : confirm'[d] = confirm[d]
<1>1. confirm[c] \in [step : {"consume", "reread", "submit", "link"}, preview : Previews, key : Keys]
  BY Arguments
<1>2. [confirm[c] EXCEPT !.step = step]
        \in [step : {"consume", "reread", "submit", "link"}, preview : Previews, key : Keys]
  BY <1>1
<1> QED BY <1>1, <1>2 DEF TypeOK, GoTo

(* A confirmation that returns is idle.                                    *)
LEMMA ReturnTyped ==
  ASSUME TypeOK, NEW c \in Clients, Return(c)
  PROVE  /\ confirm' \in [Clients -> [step : {"consume", "reread", "submit", "link"},
                                      preview : Previews, key : Keys] \cup {NoConfirm}]
         /\ confirm'[c].step = "idle"
         /\ \A d \in Clients \ {c} : confirm'[d] = confirm[d]
  BY DEF TypeOK, Return, NoConfirm

(* A task that exists has a preview; one that is absent has none.          *)
LEMMA Tasks ==
  ASSUME TypeOK, NEW k \in Keys
  PROVE  /\ Exists(k) => task[k].preview \in Previews /\ task[k].status \in Statuses
         /\ ~Exists(k) => task[k].preview = NoPreview /\ task[k].status = "absent"
  BY DEF TypeOK, Exists, NoTask

(* Setting the status of a task that exists changes nothing else.          *)
LEMMA SetTyped ==
  ASSUME TypeOK, NEW k \in Keys, Exists(k), NEW status \in Statuses, Set(k, status)
  PROVE  /\ task' \in [Keys -> [status : Statuses, preview : Previews] \cup {NoTask}]
         /\ \A l \in Keys : task'[l].preview = task[l].preview
         /\ \A l \in Keys \ {k} : task'[l] = task[l]
         /\ task'[k].status = status
<1>1. task[k] \in [status : Statuses, preview : Previews]
  BY DEF TypeOK, Exists
<1> QED BY <1>1 DEF TypeOK, Set

(* A job that is under way has a key.                                      *)
LEMMA Jobs ==
  ASSUME TypeOK, worker.step # "idle"
  PROVE  /\ worker \in [step : {"parse", "create", "remove", "done"}, key : Keys]
         /\ worker.key \in Keys /\ worker # NoJob
  BY DEF TypeOK, NoJob

(* A step of a job keeps its key.                                          *)
LEMMA ProceedTyped ==
  ASSUME TypeOK, worker.step # "idle", NEW step \in {"create", "remove", "done"}, Proceed(step)
  PROVE  /\ worker' \in [step : {"parse", "create", "remove", "done"}, key : Keys] \cup {NoJob}
         /\ worker'.step = step /\ worker'.key = worker.key
<1>1. worker \in [step : {"parse", "create", "remove", "done"}, key : Keys]
  BY Jobs
<1> QED BY <1>1 DEF Proceed

(* What a report, or a recovery, does to the tasks.                        *)
StatusStep ==
  /\ task' \in [Keys -> [status : Statuses, preview : Previews] \cup {NoTask}]
  /\ \A l \in Keys : task'[l].preview = task[l].preview

LEMMA ReportTyped ==
  ASSUME TypeOK, Landed, worker.step # "idle", NEW status \in Statuses, Report(status)
  PROVE  /\ StatusStep /\ worker' = NoJob
         /\ \A l \in Keys : task'[l] = task[l] \/ (l = worker.key /\ task'[l].status = status)
<1>1. worker.key \in Keys /\ Exists(worker.key)
  BY Jobs DEF Landed
<1>2. CASE Leased
  BY <1>1, <1>2, SetTyped DEF Report, StatusStep
<1>3. CASE ~Leased
  BY <1>3 DEF Report, StatusStep, TypeOK
<1> QED BY <1>2, <1>3

(* A lease that is recovered leaves the task queued or failed.             *)
LEMMA RecoverTyped ==
  ASSUME TypeOK, Landed, Recover
  PROVE  /\ StatusStep /\ worker' = NoJob
         /\ \A l \in Keys : task'[l] = task[l] \/ task'[l].status \in {"queued", "failed"}
<1>1. CASE worker # NoJob /\ Leased
  <2>1. worker.key \in Keys /\ Exists(worker.key)
    BY <1>1 DEF Landed, TypeOK
  <2>2. PICK status \in {"queued", "failed"} : Set(worker.key, status)
    BY <1>1 DEF Recover
  <2>3. status \in Statuses
    BY DEF Statuses
  <2> QED BY <2>1, <2>2, <2>3, SetTyped DEF Recover, StatusStep
<1>2. CASE ~(worker # NoJob /\ Leased)
  BY <1>2 DEF Recover, StatusStep, TypeOK
<1> QED BY <1>1, <1>2

(* What a step may do to the tasks.                                        *)
TaskStep(k) ==
  \/ task'[k] = task[k]
  \/ /\ Exists(k) /\ task'[k].preview = task[k].preview
     /\ task'[k].status = "succeeded" => worker.step = "done" /\ worker.key = k
  \/ /\ ~Exists(k) /\ task'[k].status = "queued"
     /\ \E c \in Clients : Submit(c) /\ GoTo(c, "link") /\ confirm[c].key = k
                           /\ task'[k].preview = confirm[c].preview

TaskType == task' \in [Keys -> [status : Statuses, preview : Previews] \cup {NoTask}]

LEMMA TaskSteps ==
  ASSUME TypeOK, Landed, [Next]_vars
  PROVE  TaskType /\ \A k \in Keys : TaskStep(k)
<1>0. \A status \in {"queued", "running", "succeeded", "failed", "canceled"} : status \in Statuses
  BY DEF Statuses
<1>1. CASE UNCHANGED task
  BY <1>1 DEF TypeOK, TaskType, TaskStep
<1>2. ASSUME NEW c \in Clients, Submit(c) PROVE TaskType /\ \A k \in Keys : TaskStep(k)
  <2>1. confirm[c].preview \in Previews /\ confirm[c].key \in Keys
    BY <1>2, Arguments DEF Submit, At
  <2>2. CASE UNCHANGED task
    BY <1>1, <2>2
  <2>3. CASE ~UNCHANGED task
    <3>1. /\ task[confirm[c].key] = NoTask /\ GoTo(c, "link")
          /\ task' = [task EXCEPT ![confirm[c].key] = [status |-> "queued", preview |-> confirm[c].preview]]
      BY <1>2, <2>3 DEF Submit
    <3>2. TaskType
      BY <1>0, <2>1, <3>1 DEF TypeOK, TaskType
    <3>3. ASSUME NEW k \in Keys PROVE TaskStep(k)
      <4>1. CASE k = confirm[c].key
        <5>1. ~Exists(k) /\ task'[k].status = "queued" /\ task'[k].preview = confirm[c].preview
          BY <2>1, <3>1, <4>1 DEF TypeOK, Exists
        <5> QED BY <1>2, <3>1, <4>1, <5>1 DEF TaskStep
      <4>2. CASE k # confirm[c].key
        BY <3>1, <4>2 DEF TypeOK, TaskStep
      <4> QED BY <4>1, <4>2
    <3> QED BY <3>2, <3>3
  <2> QED BY <2>2, <2>3
<1>3. ASSUME NEW k \in Keys, Exists(k), NEW status \in Statuses \ {"succeeded"}, Set(k, status)
      PROVE  TaskType /\ \A l \in Keys : TaskStep(l)
  BY <1>3, SetTyped DEF TaskType, TaskStep
<1>4. CASE StartTask
  BY <1>0, <1>3, <1>4, Tasks DEF StartTask
<1>5. ASSUME NEW status \in Statuses, worker.step # "idle", Report(status),
             status = "succeeded" => worker.step = "done"
      PROVE  TaskType /\ \A k \in Keys : TaskStep(k)
  BY <1>5, ReportTyped, Jobs DEF StatusStep, TaskType, TaskStep, Landed
<1>6. CASE ParsePackMetadata
  BY <1>0, <1>1, <1>5, <1>6 DEF ParsePackMetadata, Working
<1>7. CASE CreatePack
  BY <1>0, <1>1, <1>5, <1>7 DEF CreatePack, Working
<1>8. CASE Succeed
  BY <1>0, <1>5, <1>8 DEF Succeed, Working
<1>9. CASE Recover
  <2>1. /\ StatusStep
        /\ \A l \in Keys : task'[l] = task[l] \/ task'[l].status \in {"queued", "failed"}
    BY <1>9, RecoverTyped
  <2>2. ASSUME NEW l \in Keys, task'[l] # task[l] PROVE Exists(l)
    <3>1. worker # NoJob /\ \E status \in {"queued", "failed"} : Set(worker.key, status)
      BY <1>9, <2>2 DEF Recover
    <3>2. l = worker.key
      BY <2>2, <3>1 DEF Set, TypeOK
    <3> QED BY <3>1, <3>2 DEF Landed
  <2> QED BY <2>1, <2>2 DEF StatusStep, TaskType, TaskStep
<1>10. CASE StopTask
  BY <1>0, <1>3, <1>10, Tasks DEF StopTask
<1>11. CASE RetryTask
  BY <1>0, <1>3, <1>11, Tasks DEF RetryTask
<1> QED
  BY <1>1, <1>2, <1>4, <1>6, <1>7, <1>8, <1>9, <1>10, <1>11
  DEF Next, vars, workerVars, Inspect, Expire, GetImportPreview, ConsumeImportPreview, GetImportPreviewAgain,
      SetImportPreviewConsumedTask, Abandon, RemoveStaged, Lapse, Stop, UserCreatesPack, RenamePack

(* A task keeps its preview, and none disappears.                          *)
LEMMA TasksKept ==
  ASSUME TypeOK, Landed, [Next]_vars, NEW k \in Keys, Exists(k)
  PROVE  Exists(k)' /\ task'[k].preview = task[k].preview
<1>1. task'[k].preview = task[k].preview /\ task[k].preview \in Previews
  BY TaskSteps, Tasks DEF TaskStep
<1> QED BY <1>1 DEF Exists, NoTask

(* What a step may do to the previews.                                     *)
PreviewStep(p) ==
  /\ preview[p].consumed => preview'[p].consumed
  /\ preview'[p].consumed /\ ~preview[p].consumed =>
       \E c \in Clients : ConsumeImportPreview(c) /\ GoTo(c, "submit") /\ confirm[c].preview = p
  /\ \/ preview'[p].task = preview[p].task
     \/ \E c \in Clients : /\ SetImportPreviewConsumedTask(c)
                           /\ confirm[c].preview = p /\ preview'[p].task = confirm[c].key
  /\ preview'[p].state # "none" => preview[p].state # "none" \/ p \in staged'

PreviewType ==
  preview' \in [Previews -> [state : {"none", "open", "expired"}, consumed : BOOLEAN, task : Keys \cup {NoKey}]]

LEMMA PreviewSteps ==
  ASSUME TypeOK, [Next]_vars
  PROVE  PreviewType /\ \A p \in Previews : PreviewStep(p)
<1>0. \A p \in Previews :
        preview[p] \in [state : {"none", "open", "expired"}, consumed : BOOLEAN, task : Keys \cup {NoKey}]
  BY DEF TypeOK
<1>1. CASE UNCHANGED preview
  BY <1>1 DEF TypeOK, PreviewType, PreviewStep
<1>2. ASSUME NEW q \in Previews, Inspect(q) \/ Expire(q)
      PROVE  PreviewType /\ \A p \in Previews : PreviewStep(p)
  <2>1. PreviewType
    BY <1>0, <1>2 DEF Inspect, Expire, TypeOK, PreviewType
  <2>2. ASSUME NEW p \in Previews PROVE PreviewStep(p)
    BY <1>0, <1>2 DEF Inspect, Expire, TypeOK, PreviewStep
  <2> QED BY <2>1, <2>2
<1>3. ASSUME NEW c \in Clients, ConsumeImportPreview(c)
      PROVE  PreviewType /\ \A p \in Previews : PreviewStep(p)
  <2>1. CASE UNCHANGED preview
    BY <1>1, <2>1
  <2>2. CASE ~UNCHANGED preview
    <3>1. /\ preview' = [preview EXCEPT ![confirm[c].preview].consumed = TRUE] /\ GoTo(c, "submit")
      BY <1>3, <2>2 DEF ConsumeImportPreview
    <3>2. PreviewType
      BY <1>0, <3>1 DEF TypeOK, PreviewType
    <3>3. ASSUME NEW p \in Previews PROVE PreviewStep(p)
      BY <1>0, <1>3, <3>1 DEF TypeOK, PreviewStep
    <3> QED BY <3>2, <3>3
  <2> QED BY <2>1, <2>2
<1>4. ASSUME NEW c \in Clients, SetImportPreviewConsumedTask(c)
      PROVE  PreviewType /\ \A p \in Previews : PreviewStep(p)
  <2>1. confirm[c].preview \in Previews /\ confirm[c].key \in Keys
    BY <1>4, Arguments DEF SetImportPreviewConsumedTask, At
  <2>2. preview' = [preview EXCEPT ![confirm[c].preview].task = confirm[c].key]
    BY <1>4 DEF SetImportPreviewConsumedTask
  <2>3. PreviewType
    BY <1>0, <2>1, <2>2 DEF TypeOK, PreviewType
  <2>4. ASSUME NEW p \in Previews PROVE PreviewStep(p)
    BY <1>0, <1>4, <2>1, <2>2 DEF TypeOK, PreviewStep
  <2> QED BY <2>3, <2>4
<1> QED
  BY <1>1, <1>2, <1>3, <1>4
  DEF Next, vars, clientVars, GetImportPreview, GetImportPreviewAgain, Submit, Abandon,
      StartTask, ParsePackMetadata, CreatePack, RemoveStaged, Succeed, Lapse, Stop,
      StopTask, RetryTask, UserCreatesPack, RenamePack

(* What a step may do to a confirmation.                                   *)
ClientStep(c) ==
  \/ confirm'[c] = confirm[c]
  \/ ~Holds(c)' /\ (Holds(c) => \/ confirm[c].preview \in broken'
                               \/ SetImportPreviewConsumedTask(c))
  \/ /\ ConsumeImportPreview(c) /\ GoTo(c, "submit") /\ confirm'[c].step = "submit"
     /\ confirm'[c].preview = confirm[c].preview /\ confirm'[c].key = confirm[c].key
     /\ ~preview[confirm[c].preview].consumed /\ preview'[confirm[c].preview].consumed
  \/ /\ Submit(c) /\ GoTo(c, "link") /\ confirm'[c].step = "link"
     /\ confirm'[c].preview = confirm[c].preview /\ confirm'[c].key = confirm[c].key
     /\ task'[confirm[c].key].preview = confirm[c].preview

ConfirmType ==
  confirm' \in [Clients -> [step : {"consume", "reread", "submit", "link"},
                            preview : Previews, key : Keys] \cup {NoConfirm}]

LEMMA ClientSteps ==
  ASSUME TypeOK, [Next]_vars
  PROVE  ConfirmType /\ broken \subseteq broken' /\ \A c \in Clients : ClientStep(c)
<1> DEFINE Goal == ConfirmType /\ broken \subseteq broken' /\ \A d \in Clients : ClientStep(d)
<1>1. CASE UNCHANGED <<confirm, broken>>
  BY <1>1 DEF TypeOK, ConfirmType, ClientStep
<1>2. ASSUME NEW c \in Clients, ~Holds(c), Return(c), UNCHANGED broken PROVE Goal
  BY <1>2, ReturnTyped DEF ConfirmType, ClientStep, Holds
<1>3. ASSUME NEW c \in Clients, GetImportPreview(c) PROVE Goal
  <2>1. CASE Return(c)
    BY <1>2, <1>3, <2>1 DEF GetImportPreview, At, Holds
  <2>2. CASE ~Return(c)
    <3>1. PICK p \in Previews, k \in Keys :
            confirm' = [confirm EXCEPT ![c] = [step |-> "consume", preview |-> p, key |-> k]]
      BY <1>3, <2>2 DEF GetImportPreview, RequiredKey, Replay
    <3> QED BY <1>3, <3>1 DEF GetImportPreview, TypeOK, ConfirmType, ClientStep, Holds, At
  <2> QED BY <2>1, <2>2
<1>4. ASSUME NEW c \in Clients, ConsumeImportPreview(c) PROVE Goal
  <2>1. /\ ~At(c, "idle") /\ ~Holds(c) /\ UNCHANGED broken
        /\ confirm[c].preview \in Previews
    BY <1>4, Arguments DEF ConsumeImportPreview, At, Holds
  <2>2. CASE GoTo(c, "reread")
    BY <2>1, <2>2, GoToTyped DEF ConfirmType, ClientStep, Holds
  <2>3. CASE ~GoTo(c, "reread")
    <3>1. /\ GoTo(c, "submit") /\ ~preview[confirm[c].preview].consumed
          /\ preview' = [preview EXCEPT ![confirm[c].preview].consumed = TRUE]
      BY <1>4, <2>3 DEF ConsumeImportPreview
    <3>2. preview'[confirm[c].preview].consumed
      BY <2>1, <3>1 DEF TypeOK
    <3> QED BY <1>4, <2>1, <3>1, <3>2, GoToTyped DEF ConfirmType, ClientStep
  <2> QED BY <2>2, <2>3
<1>5. ASSUME NEW c \in Clients, GetImportPreviewAgain(c) PROVE Goal
  BY <1>2, <1>5 DEF GetImportPreviewAgain, Replay, At, Holds
<1>6. ASSUME NEW c \in Clients, Submit(c) PROVE Goal
  <2>1. ~At(c, "idle") /\ confirm[c].preview \in Previews /\ confirm[c].key \in Keys
    BY <1>6, Arguments DEF Submit, At
  <2>2. CASE GoTo(c, "link")
    <3>1. UNCHANGED broken \/ Return(c)
      BY <1>6 DEF Submit
    <3>2. UNCHANGED broken
      BY <2>1, <2>2, <3>1, GoToTyped, ReturnTyped
    <3>3. task'[confirm[c].key].preview = confirm[c].preview
      <4>1. task' = [task EXCEPT ![confirm[c].key] = [status |-> "queued", preview |-> confirm[c].preview]]
        BY <1>6, <2>1, <2>2, GoToTyped, ReturnTyped DEF Submit
      <4> QED BY <2>1, <4>1 DEF TypeOK
    <3> QED BY <1>6, <2>1, <2>2, <3>2, <3>3, GoToTyped DEF ConfirmType, ClientStep
  <2>3. CASE ~GoTo(c, "link")
    <3>1. Return(c) /\ broken' = broken \cup {confirm[c].preview}
      BY <1>6, <2>3 DEF Submit
    <3> QED BY <3>1, ReturnTyped DEF ConfirmType, ClientStep, Holds
  <2> QED BY <2>2, <2>3
<1>7. ASSUME NEW c \in Clients, SetImportPreviewConsumedTask(c) PROVE Goal
  <2>1. Return(c) /\ UNCHANGED broken
    BY <1>7 DEF SetImportPreviewConsumedTask
  <2> QED BY <1>7, <2>1, ReturnTyped DEF ConfirmType, ClientStep, Holds
<1>8. ASSUME NEW c \in Clients, Abandon(c) PROVE Goal
  <2>1. /\ Return(c)
        /\ broken' = IF Holds(c) THEN broken \cup {confirm[c].preview} ELSE broken
    BY <1>8 DEF Abandon, Holds
  <2> QED BY <2>1, ReturnTyped DEF ConfirmType, ClientStep, Holds
<1>9. CASE Stop
  <2>1. /\ confirm' = [c \in Clients |-> NoConfirm]
        /\ \A c \in Clients : Holds(c) => confirm[c].preview \in broken'
        /\ broken \subseteq broken'
    BY <1>9 DEF Stop, Holds
  <2>2. NoConfirm.step = "idle"
    BY DEF NoConfirm
  <2> QED BY <2>1, <2>2 DEF ConfirmType, ClientStep, Holds
<1> QED
  BY <1>1, <1>3, <1>4, <1>5, <1>6, <1>7, <1>8, <1>9
  DEF Next, vars, clientVars, Inspect, Expire, StartTask, ParsePackMetadata, CreatePack, RemoveStaged,
      Succeed, Lapse, StopTask, RetryTask, UserCreatesPack, RenamePack

(* What a step may do to the worker, the packs and the staged files.       *)
JobStep ==
  /\ worker' \in [step : {"parse", "create", "remove", "done"}, key : Keys] \cup {NoJob}
  /\ \A k \in Keys : Imported(k) => Imported(k)'
  /\ \/ worker' = worker
     \/ worker' = NoJob
     \/ worker'.step = "parse" /\ task[worker'.key].status = "queued"
     \/ worker.step # "idle" /\ worker'.key = worker.key
        /\ (worker'.step \in {"remove", "done"} => worker.step = "remove" \/ Imported(worker.key)')
  /\ staged' \subseteq Previews
  /\ \A p \in Previews :
       p \in staged => p \in staged' \/ (worker.step = "remove" /\ p = task[worker.key].preview)
  /\ packs' \subseteq [name : Names, by : Keys \cup {User}]

LEMMA JobSteps == ASSUME TypeOK, Landed, [Next]_vars PROVE JobStep
<1>0. NoJob.step = "idle"
  BY DEF NoJob
<1>1. CASE UNCHANGED <<staged, packs, worker>>
  BY <1>1 DEF JobStep, TypeOK, Imported
<1>2. CASE worker' = NoJob /\ UNCHANGED <<staged, packs>>
  BY <1>2 DEF JobStep, TypeOK, Imported
<1>3. CASE Recover /\ UNCHANGED <<staged, packs>>
  BY <1>2, <1>3 DEF Recover
<1>4. ASSUME NEW p \in Previews, Inspect(p) PROVE JobStep
  BY <1>4 DEF Inspect, JobStep, TypeOK, Imported
<1>5. CASE StartTask
  <2>1. PICK k \in Keys : task[k].status = "queued" /\ worker' = [step |-> "parse", key |-> k]
    BY <1>5 DEF StartTask
  <2> QED BY <1>5, <2>1 DEF StartTask, JobStep, TypeOK, Imported
<1>6. CASE ParsePackMetadata
  <2>1. worker.step = "parse" /\ UNCHANGED <<staged, packs>>
    BY <1>6 DEF ParsePackMetadata, Working
  <2>2. CASE Proceed("create")
    <3>1. worker'.step = "create" /\ worker'.key = worker.key
          /\ worker' \in [step : {"parse", "create", "remove", "done"}, key : Keys] \cup {NoJob}
      BY <2>1, <2>2, ProceedTyped
    <3> QED BY <2>1, <3>1 DEF JobStep, TypeOK, Imported
  <2>3. CASE ~Proceed("create")
    BY <1>2, <1>6, <2>1, <2>3 DEF ParsePackMetadata, Report
  <2> QED BY <2>2, <2>3
<1>7. CASE CreatePack
  <2>1. worker.step = "create" /\ UNCHANGED staged
    BY <1>7 DEF CreatePack, Working
  <2>2. worker.key \in Keys /\ task[worker.key].preview \in Previews
    BY <2>1, Jobs, Tasks DEF Landed
  <2>3. CASE UNCHANGED packs /\ worker' = NoJob
    BY <1>2, <2>1, <2>3
  <2>4. CASE ~(UNCHANGED packs /\ worker' = NoJob)
    <3>1. /\ packs' = packs \cup {[name |-> Name[task[worker.key].preview], by |-> worker.key]}
          /\ Proceed("remove")
      BY <1>7, <2>4 DEF CreatePack, Report
    <3>2. Imported(worker.key)' /\ \A k \in Keys : Imported(k) => Imported(k)'
      <4>1. worker'.key = worker.key
        BY <2>1, <3>1, ProceedTyped
      <4>2. \E pack \in packs' : pack.by = worker.key
        <5> DEFINE pack == [name |-> Name[task[worker.key].preview], by |-> worker.key]
        <5>1. pack \in packs' /\ pack.by = worker.key
          BY <3>1
        <5> QED BY <5>1
      <4> QED BY <3>1, <4>1, <4>2 DEF Imported
    <3>3. packs' \subseteq [name : Names, by : Keys \cup {User}]
      BY <2>2, <3>1 DEF TypeOK
    <3>4. /\ worker'.step = "remove" /\ worker'.key = worker.key
          /\ worker' \in [step : {"parse", "create", "remove", "done"}, key : Keys] \cup {NoJob}
      BY <2>1, <3>1, ProceedTyped
    <3> QED BY <2>1, <3>2, <3>3, <3>4 DEF JobStep, TypeOK
  <2> QED BY <2>3, <2>4
<1>8. CASE RemoveStaged
  <2>1. /\ worker.step = "remove" /\ UNCHANGED packs
        /\ staged' = staged \ {task[worker.key].preview} /\ Proceed("done")
    BY <1>8 DEF RemoveStaged, Working
  <2>2. /\ worker'.step = "done" /\ worker'.key = worker.key
        /\ worker' \in [step : {"parse", "create", "remove", "done"}, key : Keys] \cup {NoJob}
    BY <2>1, ProceedTyped
  <2> QED BY <2>1, <2>2 DEF JobStep, TypeOK, Imported
<1>9. CASE Succeed
  BY <1>2, <1>9 DEF Succeed, Report
<1>10. CASE UserCreatesPack \/ RenamePack
  <2>1. /\ packs' \subseteq [name : Names, by : Keys \cup {User}] /\ UNCHANGED <<staged, worker>>
    BY <1>10 DEF UserCreatesPack, RenamePack, TypeOK
  <2>2. \A k \in Keys : Imported(k) => Imported(k)'
    <3>1. CASE UserCreatesPack
      BY <3>1 DEF UserCreatesPack, Imported
    <3>2. CASE RenamePack
      <4>1. PICK k \in packs, n \in Names : packs' = (packs \ {k}) \cup {[k EXCEPT !.name = n]}
        BY <3>2 DEF RenamePack
      <4>2. k \in [name : Names, by : Keys \cup {User}]
        BY DEF TypeOK
      <4>3. [k EXCEPT !.name = n].by = k.by /\ [k EXCEPT !.name = n] \in packs'
        BY <4>1, <4>2
      <4> QED BY <4>1, <4>3 DEF Imported
    <3> QED BY <1>10, <3>1, <3>2
  <2> QED BY <2>1, <2>2 DEF JobStep, TypeOK
<1> QED
  BY <1>1, <1>3, <1>4, <1>5, <1>6, <1>7, <1>8, <1>9, <1>10
  DEF Next, vars, clientVars, workerVars, Expire, GetImportPreview, ConsumeImportPreview,
      GetImportPreviewAgain, Submit, SetImportPreviewConsumedTask, Abandon, Lapse, Stop,
      StopTask, RetryTask

(* What a step may add to the answers: the task the preview already has,   *)
(* or the one that it gets.                                                *)
AnswersType == answers' \in [Previews -> SUBSET Keys]
AnswerStep(p) ==
  \A k \in answers'[p] :
    \/ k \in answers[p]
    \/ k # NoKey /\ k = preview[p].task
    \/ \E c \in Clients : SetImportPreviewConsumedTask(c) /\ confirm[c].preview = p /\ confirm[c].key = k

LEMMA AnswerSteps ==
  ASSUME TypeOK, [Next]_vars
  PROVE  AnswersType /\ \A p \in Previews : AnswerStep(p)
<1>1. CASE UNCHANGED answers
  BY <1>1 DEF TypeOK, AnswersType, AnswerStep
<1>2. ASSUME NEW c \in Clients, NEW q \in Previews, Replay(c, q)
      PROVE  AnswersType /\ \A p \in Previews : AnswerStep(p)
  <2>1. preview[q].task \in Keys \cup {NoKey}
    BY DEF TypeOK
  <2> QED BY <1>2, <2>1 DEF Replay, TypeOK, AnswersType, AnswerStep
<1>3. ASSUME NEW c \in Clients, GetImportPreview(c)
      PROVE  AnswersType /\ \A p \in Previews : AnswerStep(p)
  BY <1>1, <1>2, <1>3 DEF GetImportPreview
<1>4. ASSUME NEW c \in Clients, GetImportPreviewAgain(c)
      PROVE  AnswersType /\ \A p \in Previews : AnswerStep(p)
  BY <1>2, <1>4, Arguments DEF GetImportPreviewAgain, At
<1>5. ASSUME NEW c \in Clients, SetImportPreviewConsumedTask(c)
      PROVE  AnswersType /\ \A p \in Previews : AnswerStep(p)
  <2>1. confirm[c].preview \in Previews /\ confirm[c].key \in Keys
    BY <1>5, Arguments DEF SetImportPreviewConsumedTask, At
  <2>2. answers' = [answers EXCEPT ![confirm[c].preview] = @ \cup {confirm[c].key}]
    BY <1>5 DEF SetImportPreviewConsumedTask
  <2> QED BY <1>5, <2>1, <2>2 DEF TypeOK, AnswersType, AnswerStep
<1> QED
  BY <1>1, <1>3, <1>4, <1>5
  DEF Next, vars, clientVars, Inspect, Expire, ConsumeImportPreview, Submit, Abandon, StartTask,
      ParsePackMetadata, CreatePack, RemoveStaged, Succeed, Lapse, Stop, StopTask, RetryTask,
      UserCreatesPack, RenamePack

(* The types are preserved by every step.                                  *)
LEMMA TypeStep == ASSUME TypeOK, Landed, [Next]_vars PROVE TypeOK'
<1>1. broken' \subseteq Previews
  <2>1. ASSUME NEW c \in Clients, Holds(c) PROVE confirm[c].preview \in Previews
    BY <2>1, Arguments DEF Holds, At
  <2>2. CASE UNCHANGED broken
    BY <2>2 DEF TypeOK
  <2>3. ASSUME NEW c \in Clients, Submit(c) \/ Abandon(c) PROVE broken' \subseteq Previews
    BY <2>1, <2>3 DEF Submit, Abandon, Holds, At, TypeOK
  <2>4. CASE Stop
    <3>1. \A c \in {d \in Clients : confirm[d].step \in {"submit", "link"}} : confirm[c].preview \in Previews
      BY <2>1 DEF Holds
    <3> QED BY <2>4, <3>1 DEF Stop, TypeOK
  <2> QED
    BY <2>2, <2>3, <2>4
    DEF Next, vars, clientVars, Inspect, Expire, GetImportPreview, ConsumeImportPreview,
        GetImportPreviewAgain, SetImportPreviewConsumedTask, StartTask, ParsePackMetadata, CreatePack,
        RemoveStaged, Succeed, Lapse, StopTask, RetryTask, UserCreatesPack, RenamePack
<1>2. TaskType /\ PreviewType /\ ConfirmType /\ AnswersType /\ JobStep
  BY TaskSteps, PreviewSteps, ClientSteps, AnswerSteps, JobSteps
<1> QED BY <1>1, <1>2 DEF TypeOK, TaskType, PreviewType, ConfirmType, AnswersType, JobStep

-----------------------------------------------------------------------------
(* Tickets and what follows from them. *)

(* The confirmation that makes the task of a preview held the preview.     *)
LEMMA NewTasks ==
  ASSUME TypeOK, Landed, Tickets, [Next]_vars, NEW k \in Keys, ~Exists(k), Exists(k)'
  PROVE  \E c \in Clients :
           /\ At(c, "submit") /\ Submit(c) /\ GoTo(c, "link") /\ confirm[c].key = k
           /\ task'[k].preview = confirm[c].preview /\ confirm[c].preview \in Previews
           /\ preview[confirm[c].preview].consumed
           /\ \A l \in Keys : task[l].preview # confirm[c].preview
<1>1. task'[k] # task[k]
  BY DEF Exists
<1>2. PICK c \in Clients : Submit(c) /\ GoTo(c, "link") /\ confirm[c].key = k
                           /\ task'[k].preview = confirm[c].preview
  BY <1>1, TaskSteps DEF TaskStep
<1>3. At(c, "submit") /\ Holds(c)
  BY <1>2 DEF Submit, At, Holds
<1>4. confirm[c].preview \in Previews
  BY <1>3, Arguments DEF At
<1> QED BY <1>2, <1>3, <1>4 DEF Tickets

(* Only one key: the second would have had to be submitted by a            *)
(* confirmation that held the same preview.                                *)
LEMMA OneTaskStep ==
  ASSUME TypeOK, Landed, Tickets, OneTaskPerPreview, [Next]_vars
  PROVE  OneTaskPerPreview'
<1> SUFFICES ASSUME NEW k \in Keys, NEW l \in Keys, Exists(k)', task'[k].preview = task'[l].preview
             PROVE  k = l
  BY DEF OneTaskPerPreview, Exists
<1>1. Exists(l)'
  <2>1. task'[k].preview \in Previews /\ TypeOK'
    BY TypeStep, Tasks DEF TypeOK, Exists
  <2> QED BY <2>1 DEF Exists, NoTask
<1>2. CASE Exists(k) /\ Exists(l)
  BY <1>2, TasksKept DEF OneTaskPerPreview, Exists
<1>3. CASE Exists(k) /\ ~Exists(l)
  BY <1>1, <1>3, TasksKept, NewTasks
<1>4. CASE ~Exists(k) /\ Exists(l)
  BY <1>4, TasksKept, NewTasks
<1>5. CASE ~Exists(k) /\ ~Exists(l)
  <2>1. PICK c \in Clients : At(c, "submit") /\ GoTo(c, "link") /\ confirm[c].key = k
    BY <1>5, NewTasks
  <2>2. PICK d \in Clients : At(d, "submit") /\ GoTo(d, "link") /\ confirm[d].key = l
    BY <1>1, <1>5, NewTasks
  <2>3. c = d
    BY <2>1, <2>2, GoToTyped DEF At
  <2> QED BY <2>1, <2>2, <2>3
<1> QED BY <1>2, <1>3, <1>4, <1>5

(* The tickets stay good.                                                  *)
LEMMA TicketsStep ==
  ASSUME TypeOK, Landed, Tickets, [Next]_vars
  PROVE  Tickets'
<1>p. ASSUME NEW c \in Clients, Holds(c) PROVE confirm[c].preview \in Previews /\ confirm[c].key \in Keys
  BY <1>p, Arguments DEF Holds, At
<1>1. ASSUME NEW k \in Keys, Exists(k)' PROVE preview'[task'[k].preview].consumed
  <2>1. task'[k].preview \in Previews /\ preview[task'[k].preview].consumed
    <3>1. CASE Exists(k)
      BY <3>1, TasksKept, Tasks DEF Tickets
    <3>2. CASE ~Exists(k)
      BY <1>1, <3>2, NewTasks
    <3> QED BY <3>1, <3>2
  <2> QED BY <2>1, PreviewSteps DEF PreviewStep
<1>2. ASSUME NEW c \in Clients, Holds(c)' PROVE preview'[confirm'[c].preview].consumed
  <2>1. CASE Holds(c) /\ confirm'[c].preview = confirm[c].preview
    BY <1>p, <2>1, PreviewSteps DEF PreviewStep, Tickets
  <2>2. CASE ConsumeImportPreview(c) /\ preview'[confirm[c].preview].consumed
             /\ confirm'[c].preview = confirm[c].preview
    BY <2>2
  <2> QED BY <1>2, <2>1, <2>2, ClientSteps DEF ClientStep, Submit, At, Holds
<1>3. ASSUME NEW c \in Clients, At(c, "submit")', NEW k \in Keys
      PROVE  task'[k].preview # confirm'[c].preview
  <2>1. CASE confirm'[c] = confirm[c]
    <3>1. At(c, "submit") /\ Holds(c)
      BY <1>3, <2>1 DEF At, Holds
    <3>2. task[k].preview # confirm[c].preview
      BY <3>1 DEF Tickets
    <3>3. CASE Exists(k)
      BY <2>1, <3>2, <3>3, TasksKept
    <3>4. CASE ~Exists(k) /\ Exists(k)'
      <4>1. PICK d \in Clients : /\ At(d, "submit") /\ GoTo(d, "link")
                                 /\ task'[k].preview = confirm[d].preview
        BY <3>4, NewTasks
      <4>2. d # c
        BY <1>3, <4>1, GoToTyped DEF At
      <4>3. Holds(d)
        BY <4>1 DEF At, Holds
      <4> QED BY <2>1, <3>1, <4>1, <4>2, <4>3 DEF Tickets
    <3>5. CASE ~Exists(k)'
      BY <1>p, <2>1, <3>1, <3>5 DEF Exists, NoTask
    <3> QED BY <3>3, <3>4, <3>5
  <2>2. CASE confirm'[c] # confirm[c]
    <3>1. /\ ConsumeImportPreview(c) /\ confirm'[c].preview = confirm[c].preview
          /\ ~preview[confirm[c].preview].consumed
      BY <1>3, <2>2, ClientSteps DEF ClientStep, At, Holds
    <3>2. task' = task /\ confirm[c].preview \in Previews
      BY <3>1, Arguments DEF ConsumeImportPreview, At
    <3>3. CASE Exists(k)
      BY <3>1, <3>2, <3>3 DEF Tickets
    <3>4. CASE ~Exists(k)
      BY <3>1, <3>2, <3>4 DEF Exists, NoTask
    <3> QED BY <3>3, <3>4
  <2> QED BY <2>1, <2>2
<1>4. ASSUME NEW c \in Clients, At(c, "link")' PROVE task'[confirm'[c].key].preview = confirm'[c].preview
  <2>1. CASE confirm'[c] = confirm[c]
    <3>1. At(c, "link") /\ Holds(c)
      BY <1>4, <2>1 DEF At, Holds
    <3>2. confirm[c].key \in Keys /\ task[confirm[c].key].preview = confirm[c].preview
      BY <1>p, <3>1 DEF Tickets
    <3>3. Exists(confirm[c].key)
      BY <1>p, <3>1, <3>2 DEF Exists, NoTask
    <3> QED BY <2>1, <3>2, <3>3, TasksKept
  <2>2. CASE confirm'[c] # confirm[c]
    BY <1>4, <2>2, ClientSteps DEF ClientStep, At, Holds
  <2> QED BY <2>1, <2>2
<1>5. ASSUME NEW c \in Clients, NEW d \in Clients, Holds(c)', Holds(d)',
             confirm'[c].preview = confirm'[d].preview
      PROVE  c = d
  <2>1. ASSUME NEW a \in Clients, Holds(a)', ~Holds(a)
        PROVE  /\ ~preview[confirm'[a].preview].consumed
               /\ \A b \in Clients \ {a} : confirm'[b] = confirm[b]
    <3>1. /\ ConsumeImportPreview(a) /\ GoTo(a, "submit")
          /\ ~preview[confirm[a].preview].consumed /\ confirm'[a].preview = confirm[a].preview
      BY <2>1, ClientSteps DEF ClientStep, Submit, At, Holds
    <3> QED BY <3>1, GoToTyped DEF ConsumeImportPreview, At
  <2>2. ASSUME NEW a \in Clients, Holds(a)', Holds(a)
        PROVE  confirm'[a].preview = confirm[a].preview /\ preview[confirm'[a].preview].consumed
    BY <2>2, ClientSteps DEF ClientStep, Tickets
  <2>3. CASE Holds(c) /\ Holds(d)
    BY <1>5, <2>2, <2>3 DEF Tickets
  <2>4. CASE Holds(c) /\ ~Holds(d)
    BY <1>5, <2>1, <2>2, <2>4
  <2>5. CASE ~Holds(c) /\ Holds(d)
    BY <1>5, <2>1, <2>2, <2>5
  <2>6. CASE ~Holds(c) /\ ~Holds(d) /\ c # d
    <3>1. confirm'[d] = confirm[d]
      BY <1>5, <2>1, <2>6
    <3> QED BY <1>5, <2>6, <3>1 DEF Holds
  <2> QED BY <2>3, <2>4, <2>5, <2>6
<1>6. ASSUME NEW p \in Previews, preview'[p].task # NoKey PROVE task'[preview'[p].task].preview = p
  <2>1. preview'[p].task \in Keys /\ task[preview'[p].task].preview = p
    <3>1. CASE preview'[p].task = preview[p].task
      BY <1>6, <3>1 DEF TypeOK, Tickets
    <3>2. ASSUME NEW c \in Clients, SetImportPreviewConsumedTask(c),
                 confirm[c].preview = p, preview'[p].task = confirm[c].key
          PROVE  preview'[p].task \in Keys /\ task[preview'[p].task].preview = p
      <4>1. At(c, "link") /\ Holds(c)
        BY <3>2 DEF SetImportPreviewConsumedTask, At, Holds
      <4> QED BY <1>p, <3>2, <4>1 DEF Tickets
    <3> QED BY <3>1, <3>2, PreviewSteps DEF PreviewStep
  <2>2. Exists(preview'[p].task)
    BY <2>1 DEF Exists, NoTask
  <2> QED BY <2>1, <2>2, TasksKept
<1> QED BY <1>1, <1>2, <1>3, <1>4, <1>5, <1>6 DEF Tickets

(* Whoever is answered is answered with the one task of the preview.       *)
LEMMA AgreeStep ==
  ASSUME TypeOK, Landed, Tickets, OneTaskPerPreview, AnswersAgree, [Next]_vars
  PROVE  AnswersAgree'
<1> SUFFICES ASSUME NEW p \in Previews, NEW k \in answers'[p]
             PROVE  k = preview'[p].task /\ task'[k].preview = p
  BY DEF AnswersAgree
<1>0. k \in Keys
  BY AnswerSteps DEF AnswersType
<1>l. ASSUME NEW c \in Clients, SetImportPreviewConsumedTask(c), confirm[c].preview = p
      PROVE  /\ confirm[c].key \in Keys /\ task[confirm[c].key].preview = p
             /\ preview'[p].task = confirm[c].key
  <2>1. At(c, "link") /\ confirm[c].key \in Keys
    BY <1>l, Arguments DEF SetImportPreviewConsumedTask, At
  <2>2. preview' = [preview EXCEPT ![p].task = confirm[c].key]
    BY <1>l DEF SetImportPreviewConsumedTask
  <2> QED BY <1>l, <2>1, <2>2 DEF Tickets, TypeOK
<1>1. task[k].preview = p
  <2>1. CASE k \in answers[p]
    BY <2>1 DEF AnswersAgree
  <2>2. CASE k # NoKey /\ k = preview[p].task
    BY <2>2 DEF Tickets
  <2> QED BY <2>1, <2>2, <1>l, AnswerSteps DEF AnswerStep
<1>2. Exists(k)
  BY <1>1 DEF Exists, NoTask
<1>3. k = preview'[p].task
  <2>1. CASE \E c \in Clients : SetImportPreviewConsumedTask(c) /\ confirm[c].preview = p
    BY <1>0, <1>1, <1>2, <1>l, <2>1 DEF OneTaskPerPreview, Exists
  <2>2. CASE ~\E c \in Clients : SetImportPreviewConsumedTask(c) /\ confirm[c].preview = p
    <3>1. preview'[p].task = preview[p].task
      BY <2>2, PreviewSteps DEF PreviewStep
    <3> QED BY <2>2, <3>1, AnswerSteps DEF AnswerStep, AnswersAgree
  <2> QED BY <2>1, <2>2
<1> QED BY <1>0, <1>1, <1>2, <1>3, TasksKept

(* A preview that is used up keeps its task, or who will give it one.      *)
LEMMA ConsumedStep ==
  ASSUME TypeOK, Landed, Tickets, ConsumedHasTask, [Next]_vars
  PROVE  ConsumedHasTask'
<1> SUFFICES ASSUME NEW p \in Previews, preview'[p].consumed
             PROVE  \/ preview'[p].task # NoKey
                    \/ p \in broken'
                    \/ \E c \in Clients : Holds(c)' /\ confirm'[c].preview = p
  BY DEF ConsumedHasTask, Holds
<1>0. /\ \A c \in Clients : ClientStep(c)
      /\ broken \subseteq broken'
  BY ClientSteps
<1>l. ASSUME NEW c \in Clients, SetImportPreviewConsumedTask(c), confirm[c].preview = p
      PROVE  preview'[p].task # NoKey
  <2>1. confirm[c].key \in Keys
    BY <1>l, Arguments DEF SetImportPreviewConsumedTask, At
  <2>2. preview' = [preview EXCEPT ![p].task = confirm[c].key]
    BY <1>l DEF SetImportPreviewConsumedTask
  <2> QED BY <2>1, <2>2 DEF TypeOK
<1>1. CASE ~preview[p].consumed
  <2>1. PICK c \in Clients : ConsumeImportPreview(c) /\ GoTo(c, "submit") /\ confirm[c].preview = p
    BY <1>1, PreviewSteps DEF PreviewStep
  <2>2. confirm'[c].step = "submit" /\ confirm'[c].preview = p
    BY <2>1, GoToTyped DEF ConsumeImportPreview, At
  <2> QED BY <2>2 DEF Holds
<1>2. CASE preview[p].task # NoKey
  <2>1. CASE preview'[p].task = preview[p].task
    BY <1>2, <2>1
  <2>2. CASE preview'[p].task # preview[p].task
    BY <1>l, <2>2, PreviewSteps DEF PreviewStep
  <2> QED BY <2>1, <2>2
<1>3. CASE p \in broken
  BY <1>0, <1>3
<1>4. ASSUME NEW c \in Clients, Holds(c), confirm[c].preview = p
      PROVE  \/ preview'[p].task # NoKey
             \/ p \in broken'
             \/ \E d \in Clients : Holds(d)' /\ confirm'[d].preview = p
  BY <1>0, <1>4, <1>l DEF ClientStep, Holds
<1> QED BY <1>1, <1>2, <1>3, <1>4 DEF ConsumedHasTask, Holds

-----------------------------------------------------------------------------
(* Landed and what follows from it. *)

(* A job keeps what it made.                                               *)
LEMMA LandedStep ==
  ASSUME TypeOK, Landed, [Next]_vars
  PROVE  Landed'
<1>0. JobStep /\ TypeOK'
  BY JobSteps, TypeStep
<1>1. NoJob.step = "idle"
  BY DEF NoJob
<1>2. ASSUME worker # NoJob PROVE worker.key \in Keys
  BY <1>2 DEF TypeOK
<1>k. \A k \in Keys : (Exists(k) => task'[k] # NoTask) /\ (Imported(k) => \E pack \in packs' : pack.by = k)
  BY <1>0, TasksKept DEF Exists, JobStep, Imported
<1>3. CASE worker' = worker
  <2>1. worker # NoJob => task'[worker.key] # NoTask
    BY <1>2, <1>k DEF Landed
  <2>2. worker.step \in {"remove", "done"} => \E pack \in packs' : pack.by = worker.key
    BY <1>1, <1>2, <1>k DEF Landed
  <2> QED BY <1>3, <2>1, <2>2 DEF Landed, Exists, Imported
<1>4. CASE worker' = NoJob
  BY <1>1, <1>4 DEF Landed
<1>5. CASE worker'.step = "parse" /\ task[worker'.key].status = "queued"
  <2>1. worker'.key \in Keys
    BY <1>0, <1>1, <1>5 DEF TypeOK
  <2>2. Exists(worker'.key)
    BY <1>5 DEF Exists, NoTask
  <2>3. task'[worker'.key] # NoTask
    BY <1>k, <2>1, <2>2
  <2> QED BY <1>5, <2>3 DEF Landed, Exists
<1>6. CASE worker.step # "idle" /\ worker'.key = worker.key
           /\ (worker'.step \in {"remove", "done"} => worker.step = "remove" \/ Imported(worker.key)')
  <2>1. task'[worker.key] # NoTask
    BY <1>1, <1>2, <1>6, <1>k DEF Landed
  <2>2. Imported(worker.key)' => \E pack \in packs' : pack.by = worker'.key
    BY DEF Imported
  <2>3. worker.step = "remove" => \E pack \in packs' : pack.by = worker.key
    <3>1. ASSUME worker.step = "remove" PROVE \E pack \in packs' : pack.by = worker.key
      <4>1. worker.key \in Keys /\ Imported(worker.key)
        BY <1>1, <1>2, <3>1 DEF Landed
      <4> QED BY <1>k, <4>1
    <3> QED BY <3>1
  <2> QED BY <1>6, <2>1, <2>2, <2>3 DEF Landed, Exists, Imported
<1> QED BY <1>0, <1>3, <1>4, <1>5, <1>6 DEF JobStep

(* Only the job that made the pack removes the file.                       *)
LEMMA StagedStep ==
  ASSUME TypeOK, Landed, StagedUntilImported, [Next]_vars
  PROVE  StagedUntilImported'
<1> SUFFICES ASSUME NEW p \in Previews, preview'[p].state # "none", p \notin staged'
             PROVE  \E k \in Keys : task'[k].preview = p /\ Imported(k)'
  BY DEF StagedUntilImported, Imported
<1>0. JobStep
  BY JobSteps
<1>1. \E k \in Keys : task[k].preview = p /\ Imported(k)
  <2>1. CASE p \in staged
    <3>1. worker.step = "remove" /\ p = task[worker.key].preview
      BY <1>0, <2>1 DEF JobStep
    <3>2. worker.key \in Keys /\ Imported(worker.key)
      BY <3>1, Jobs DEF Landed
    <3> QED BY <3>1, <3>2
  <2>2. CASE p \notin staged
    BY <2>2, PreviewSteps DEF PreviewStep, StagedUntilImported, Imported
  <2> QED BY <2>1, <2>2
<1>2. PICK k \in Keys : task[k].preview = p /\ Imported(k)
  BY <1>1
<1>3. Exists(k)
  BY <1>2 DEF Exists, NoTask
<1> QED BY <1>0, <1>2, <1>3, TasksKept DEF JobStep

(* Only the job that made the pack reports success.                        *)
LEMMA SucceededStep ==
  ASSUME TypeOK, Landed, SucceededImported, [Next]_vars
  PROVE  SucceededImported'
<1> SUFFICES ASSUME NEW k \in Keys, task'[k].status = "succeeded" PROVE Imported(k)'
  BY DEF SucceededImported, Imported
<1>1. Imported(k)
  BY TaskSteps DEF TaskStep, SucceededImported, Landed, Imported
<1> QED BY <1>1, JobSteps DEF JobStep

-----------------------------------------------------------------------------
(* The theorems. *)

(* The invariant holds before the first preview.                           *)
LEMMA InitInvariant == Init => IInv
<1> SUFFICES ASSUME Init PROVE IInv
  OBVIOUS
<1> USE DEF Init
<1>1. TypeOK
  BY DEF TypeOK, NoTask, NoConfirm, NoJob
<1>2. Tickets
  BY DEF Tickets, Exists, Holds, At, NoConfirm
<1>3. Landed
  BY DEF Landed, NoJob
<1>4. OneTaskPerPreview /\ AnswersAgree /\ ConsumedHasTask
  BY DEF OneTaskPerPreview, AnswersAgree, ConsumedHasTask
<1>5. StagedUntilImported /\ SucceededImported
  BY DEF StagedUntilImported, SucceededImported, NoTask
<1> QED BY <1>1, <1>2, <1>3, <1>4, <1>5 DEF IInv

(* The invariant is inductive.                                             *)
LEMMA StepInvariant == IInv /\ [Next]_vars => IInv'
  BY TypeStep, TicketsStep, LandedStep, OneTaskStep, AgreeStep, ConsumedStep, StagedStep, SucceededStep
  DEF IInv

(* IInv holds in every reachable state of every instance.                  *)
THEOREM Invariance == Spec => []IInv
  BY InitInvariant, StepInvariant, PTL DEF Spec

(* Every variable keeps its type.                                          *)
THEOREM Typing == Spec => []TypeOK
<1>1. IInv => TypeOK
  BY DEF IInv
<1> QED BY <1>1, Invariance, PTL

(* However many confirmations run at once, under whichever keys, a preview *)
(* is imported by one task.                                                *)
THEOREM PreviewUsedOnce == Spec => []OneTaskPerPreview
<1>1. IInv => OneTaskPerPreview
  BY DEF IInv
<1> QED BY <1>1, Invariance, PTL

(* A repeated confirmation is answered with the task of the first.         *)
THEOREM SameAnswer == Spec => []AnswersAgree
<1>1. IInv => AnswersAgree
  BY DEF IInv
<1> QED BY <1>1, Invariance, PTL

(* Only a confirmation that failed half way loses a preview.               *)
THEOREM PreviewNotLost == Spec => []ConsumedHasTask
<1>1. IInv => ConsumedHasTask
  BY DEF IInv
<1> QED BY <1>1, Invariance, PTL

(* No failure takes the staged archive away before its pack exists.        *)
THEOREM ArchiveKept == Spec => []StagedUntilImported
<1>1. IInv => StagedUntilImported
  BY DEF IInv
<1> QED BY <1>1, Invariance, PTL

(* A task that succeeded made a pack itself, whatever it was stopped and   *)
(* retried meanwhile.                                                      *)
THEOREM SuccessMadeAPack == Spec => []SucceededImported
<1>1. IInv => SucceededImported
  BY DEF IInv
<1> QED BY <1>1, Invariance, PTL
=============================================================================
