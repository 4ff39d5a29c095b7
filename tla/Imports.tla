------------------------------ MODULE Imports -------------------------------
(***************************************************************************)
(* The import of packs in two steps, a preview and its confirmation:       *)
(* service/import_service.go and store/import_repo.go, with confirmations  *)
(* at the same time, the task they submit, which one worker runs, and      *)
(* users who stop and retry tasks and create and rename packs meanwhile.   *)
(*                                                                         *)
(* A task is known by its idempotency key, to which Submit binds it.  Of   *)
(* the queue there is what the phases of TaskLifecycle tell; a paused task *)
(* is like one that was canceled, and whether attempts are left is open.   *)
(***************************************************************************)
EXTENDS FiniteSets

CONSTANTS
  Previews,
  Archives,      \* previews of a file that was uploaded; others staged a URL
  Name,          \* Name[p]: the pack name in the manifest of archive p
  Names,
  Keys, NoKey,   \* idempotency keys
  NoPreview, User,
  Clients        \* confirmations at the same time

ASSUME ImportAssumptions ==
  /\ Archives \subseteq Previews
  /\ Name \in [Previews -> Names]
  /\ NoKey \notin Keys
  /\ User \notin Keys
  /\ NoPreview \notin Previews

VARIABLES
  preview,  \* import_previews: used up (consumed_at), and for which task
  staged,   \* previews whose staged file is there
  task,     \* task[k]: the import task of key k
  packs,    \* names of packs, and the task that created each
  confirm,  \* confirm[c]: the step of a confirmation, and its arguments
  worker,   \* the import task that runs, and its step
  answers,  \* history: tasks that confirmations of a preview were answered with
  broken    \* history: previews that a confirmation used up and failed then

vars == <<preview, staged, task, packs, confirm, worker, answers, broken>>
clientVars == <<preview, confirm, answers, broken>>
workerVars == <<staged, packs, worker>>

NoTask == [status |-> "absent", preview |-> NoPreview]
NoConfirm == [step |-> "idle", preview |-> NoPreview, key |-> NoKey]
NoJob == [step |-> "idle", key |-> NoKey]

Set(k, status) == task' = [task EXCEPT ![k].status = status]
Named(n) == \E k \in packs : k.name = n

-----------------------------------------------------------------------------
(* Inspect stages the input and records the preview, for ten minutes.      *)
Inspect(p) ==
  /\ preview[p].state = "none"
  /\ preview' = [preview EXCEPT ![p].state = "open"]
  /\ staged' = staged \cup {p}
  /\ UNCHANGED <<task, packs, confirm, worker, answers, broken>>

Expire(p) ==
  /\ preview[p].state = "open"
  /\ preview' = [preview EXCEPT ![p].state = "expired"]
  /\ UNCHANGED <<staged, task, packs, confirm, worker, answers, broken>>

-----------------------------------------------------------------------------
(* Confirm *)

At(c, step) == confirm[c].step = step
GoTo(c, step) == confirm' = [confirm EXCEPT ![c].step = step]
Return(c) == confirm' = [confirm EXCEPT ![c] = NoConfirm]

(* The task of a preview that is used up is the answer again; without one  *)
(* the answer is import_preview_consumed.                                  *)
Replay(c, p) ==
  /\ answers' = [answers EXCEPT ![p] = @ \cup ({preview[p].task} \ {NoKey})]
  /\ Return(c)

RequiredKey == Keys

GetImportPreview(c) ==
  /\ At(c, "idle")
  /\ \E p \in Previews, k \in RequiredKey :
       /\ preview[p].state # "none"
       /\ IF preview[p].consumed THEN Replay(c, p)
          ELSE /\ preview[p].state = "open"
               /\ confirm' = [confirm EXCEPT ![c] = [step |-> "consume", preview |-> p, key |-> k]]
               /\ UNCHANGED answers
  /\ UNCHANGED <<preview, staged, task, packs, worker, broken>>

(* Mutants: whether another confirmation was first is not looked at again; *)
(* whether the preview expired is looked at when it is used up.            *)
ConsumeAgain(c) ==
  /\ At(c, "consume")
  /\ IF preview[confirm[c].preview].state = "open"
     THEN /\ preview' = [preview EXCEPT ![confirm[c].preview].consumed = TRUE]
          /\ GoTo(c, "submit")
     ELSE GoTo(c, "reread") /\ UNCHANGED preview
  /\ UNCHANGED <<staged, task, packs, worker, answers, broken>>
ConsumeExpired(c) ==
  /\ At(c, "consume")
  /\ preview' = [preview EXCEPT ![confirm[c].preview].consumed = TRUE]
  /\ GoTo(c, IF preview[confirm[c].preview].consumed \/ preview[confirm[c].preview].state # "open"
             THEN "reread" ELSE "submit")
  /\ UNCHANGED <<staged, task, packs, worker, answers, broken>>

ConsumeImportPreview(c) ==
  /\ At(c, "consume")
  /\ IF preview[confirm[c].preview].state = "open" /\ ~preview[confirm[c].preview].consumed
     THEN /\ preview' = [preview EXCEPT ![confirm[c].preview].consumed = TRUE]
          /\ GoTo(c, "submit")
     ELSE GoTo(c, "reread") /\ UNCHANGED preview
  /\ UNCHANGED <<staged, task, packs, worker, answers, broken>>

(* The confirmation that was first may not have its task yet.              *)
GetImportPreviewAgain(c) ==
  /\ At(c, "reread")
  /\ Replay(c, confirm[c].preview)
  /\ UNCHANGED <<preview, staged, task, packs, worker, broken>>

(* Mutant: the task of a known key is the answer, whatever it imports.     *)
SubmitByKey(c) ==
  /\ At(c, "submit")
  /\ task' = IF task[confirm[c].key] = NoTask
             THEN [task EXCEPT ![confirm[c].key] = [status |-> "queued", preview |-> confirm[c].preview]]
             ELSE task
  /\ GoTo(c, "link")
  /\ UNCHANGED <<preview, workerVars, answers, broken>>

(* A key that was used for another preview is ErrIdempotencyConflict.      *)
Submit(c) ==
  LET p == confirm[c].preview  k == confirm[c].key IN
  /\ At(c, "submit")
  /\ \/ /\ task[k] = NoTask
        /\ task' = [task EXCEPT ![k] = [status |-> "queued", preview |-> p]]
        /\ GoTo(c, "link")
        /\ UNCHANGED broken
     \/ /\ task[k] # NoTask /\ task[k].preview # p
        /\ Return(c)
        /\ broken' = broken \cup {p}
        /\ UNCHANGED task
  /\ UNCHANGED <<preview, workerVars, answers>>

SetImportPreviewConsumedTask(c) ==
  LET p == confirm[c].preview  k == confirm[c].key IN
  /\ At(c, "link")
  /\ preview' = [preview EXCEPT ![p].task = k]
  /\ answers' = [answers EXCEPT ![p] = @ \cup {k}]
  /\ Return(c)
  /\ UNCHANGED <<task, workerVars, broken>>

(* The client is gone, and its context with it, or the database fails.     *)
Abandon(c) ==
  /\ ~At(c, "idle")
  /\ Return(c)
  /\ broken' = IF confirm[c].step \in {"submit", "link"} THEN broken \cup {confirm[c].preview} ELSE broken
  /\ UNCHANGED <<preview, task, workerVars, answers>>

-----------------------------------------------------------------------------
(* handleImportTask *)

Working(step) == worker.step = step
Proceed(step) == worker' = [worker EXCEPT !.step = step]
Leased == task[worker.key].status = "running"

(* What the handler reports counts while the task is its own.              *)
Report(status) ==
  /\ worker' = NoJob
  /\ IF Leased THEN Set(worker.key, status) ELSE UNCHANGED task

StartTask ==
  /\ worker = NoJob
  /\ \E k \in Keys : /\ task[k].status = "queued"
                     /\ Set(k, "running")
                     /\ worker' = [step |-> "parse", key |-> k]
  /\ UNCHANGED <<clientVars, staged, packs>>

(* Mutant: the archive is removed once it was read.                        *)
ParseAndRemove ==
  /\ Working("parse")
  /\ staged' = staged \ {task[worker.key].preview}
  /\ IF task[worker.key].preview \in staged \cap Archives
     THEN Proceed("create") /\ UNCHANGED task
     ELSE Report("failed")
  /\ UNCHANGED <<clientVars, packs>>

(* An archive that is not there, or is none, is import_parse_failed, which *)
(* is final.                                                               *)
ParsePackMetadata ==
  /\ Working("parse")
  /\ IF task[worker.key].preview \in staged \cap Archives
     THEN Proceed("create") /\ UNCHANGED task
     ELSE Report("failed")
  /\ UNCHANGED <<clientVars, staged, packs>>

(* Mutant: the name that is taken is taken for the pack of an earlier run. *)
CreatePackOnce ==
  LET n == Name[task[worker.key].preview] IN
  /\ Working("create")
  /\ packs' = IF Named(n) THEN packs ELSE packs \cup {[name |-> n, by |-> worker.key]}
  /\ Proceed("remove")
  /\ UNCHANGED <<clientVars, staged, task>>

(* A name that is taken, by a user or by an earlier run of this task, is   *)
(* an error that is tried again while attempts are left.                   *)
CreatePack ==
  LET n == Name[task[worker.key].preview] IN
  /\ Working("create")
  /\ IF Named(n)
     THEN (\E status \in {"queued", "failed"} : Report(status)) /\ UNCHANGED packs
     ELSE /\ packs' = packs \cup {[name |-> n, by |-> worker.key]}
          /\ Proceed("remove")
          /\ UNCHANGED task
  /\ UNCHANGED <<clientVars, staged>>

RemoveStaged ==
  /\ Working("remove")
  /\ staged' = staged \ {task[worker.key].preview}
  /\ Proceed("done")
  /\ UNCHANGED <<clientVars, task, packs>>

Succeed ==
  /\ Working("done")
  /\ Report("succeeded")
  /\ UNCHANGED <<clientVars, staged, packs>>

(* A lease that lapsed, or was the process's, is recovered or given up.    *)
Recover ==
  /\ worker' = NoJob
  /\ IF worker # NoJob /\ Leased THEN \E status \in {"queued", "failed"} : Set(worker.key, status)
                                 ELSE UNCHANGED task

(* Progress, before the archive is read and at the end, is refused when    *)
(* the lease lapsed or the task is no longer the worker's.                 *)
Lapse ==
  /\ worker.step \in {"parse", "done"}
  /\ Recover
  /\ UNCHANGED <<clientVars, staged, packs>>

Stop ==
  /\ Recover
  /\ confirm' = [c \in Clients |-> NoConfirm]
  /\ broken' = broken \cup {confirm[c].preview : c \in {d \in Clients : confirm[d].step \in {"submit", "link"}}}
  /\ UNCHANGED <<preview, staged, packs, answers>>

-----------------------------------------------------------------------------
(* Users; nothing tells a handler that its task is no longer its own.      *)

StopTask ==
  /\ \E k \in Keys : task[k].status \in {"queued", "running"} /\ Set(k, "canceled")
  /\ UNCHANGED <<clientVars, workerVars>>

RetryTask ==
  /\ \E k \in Keys : task[k].status \in {"failed", "canceled"} /\ Set(k, "queued")
  /\ UNCHANGED <<clientVars, workerVars>>

UserCreatesPack ==
  /\ \E n \in Names : ~Named(n) /\ packs' = packs \cup {[name |-> n, by |-> User]}
  /\ UNCHANGED <<clientVars, staged, worker, task>>

RenamePack ==
  /\ \E k \in packs, n \in Names :
       ~Named(n) /\ packs' = (packs \ {k}) \cup {[k EXCEPT !.name = n]}
  /\ UNCHANGED <<clientVars, staged, worker, task>>

-----------------------------------------------------------------------------
Init ==
  /\ preview = [p \in Previews |-> [state |-> "none", consumed |-> FALSE, task |-> NoKey]]
  /\ staged = {}
  /\ task = [k \in Keys |-> NoTask]
  /\ packs = {}
  /\ confirm = [c \in Clients |-> NoConfirm]
  /\ worker = NoJob
  /\ answers = [p \in Previews |-> {}]
  /\ broken = {}

Next ==
  \/ \E p \in Previews : Inspect(p) \/ Expire(p)
  \/ \E c \in Clients :
       \/ GetImportPreview(c) \/ ConsumeImportPreview(c) \/ GetImportPreviewAgain(c)
       \/ Submit(c) \/ SetImportPreviewConsumedTask(c) \/ Abandon(c)
  \/ StartTask \/ ParsePackMetadata \/ CreatePack \/ RemoveStaged \/ Succeed
  \/ Lapse \/ Stop
  \/ StopTask \/ RetryTask \/ UserCreatesPack \/ RenamePack

Spec == Init /\ [][Next]_vars

-----------------------------------------------------------------------------
Statuses == {"queued", "running", "succeeded", "failed", "canceled"}

(* Every variable has its type.                                            *)
TypeOK ==
  /\ preview \in [Previews -> [state : {"none", "open", "expired"}, consumed : BOOLEAN,
                               task : Keys \cup {NoKey}]]
  /\ staged \subseteq Previews
  /\ task \in [Keys -> [status : Statuses, preview : Previews] \cup {NoTask}]
  /\ packs \subseteq [name : Names, by : Keys \cup {User}]
  /\ confirm \in [Clients -> [step : {"consume", "reread", "submit", "link"},
                              preview : Previews, key : Keys] \cup {NoConfirm}]
  /\ worker \in [step : {"parse", "create", "remove", "done"}, key : Keys] \cup {NoJob}
  /\ answers \in [Previews -> SUBSET Keys]
  /\ broken \subseteq Previews

(* A preview becomes at most one task, however many confirmations ran at   *)
(* once and under whichever keys: its token is for one use.                *)
OneTaskPerPreview ==
  \A k, l \in Keys : task[k] # NoTask /\ task[k].preview = task[l].preview => k = l

(* All confirmations of a preview that were answered with a task were      *)
(* answered with the same one, and it imports that preview (contract.md,   *)
(* import_preview_consumed: the original result is returned).              *)
AnswersAgree ==
  \A p \in Previews : \A k \in answers[p] : k = preview[p].task /\ task[k].preview = p

(* A preview that is used up has its task, or a confirmation is about to   *)
(* give it one; only a confirmation that failed on the way, or brought the *)
(* key of another import, leaves it without.                               *)
ConsumedHasTask ==
  \A p \in Previews :
    preview[p].consumed =>
      \/ preview[p].task # NoKey
      \/ p \in broken
      \/ \E c \in Clients : confirm[c].step \in {"submit", "link"} /\ confirm[c].preview = p

(* The staged archive outlives every failure until its pack exists, so a   *)
(* task that is run again can still import it.                             *)
StagedUntilImported ==
  \A p \in Previews :
    preview[p].state # "none" /\ p \notin staged =>
      \E k \in Keys : task[k].preview = p /\ \E pack \in packs : pack.by = k

(* An import that succeeded created a pack, and not one that a user or     *)
(* another import had created under its name.                              *)
SucceededImported ==
  \A k \in Keys : task[k].status = "succeeded" => \E pack \in packs : pack.by = k
=============================================================================
