# mPackStation: a verification project

TLA+ models of mPackStation, checked with TLC on small instances and, where
the statement is worth it, proved with TLAPS for all instances. All source
paths below are relative to `src/`; Go paths without a prefix are relative to
`apps/server/internal/`.

Contents: [the system](#the-system), [what is hard](#what-is-hard),
[modules](#modules), [runs](#runs), [disagreements](#disagreements-with-the-source),
[proofs](#proofs), [what is not modelled](#what-is-not-modelled),
[plan](#plan).

## The system

mPackStation is a single-user workbench for Minecraft modpacks: a Go server
with a SQLite database and a browser client, and a Rust launcher that the
server runs as a child process.

| Component | State | Operations | Works with |
|---|---|---|---|
| Task queue (`task/`) | tables `tasks`, `task_events`, `task_idem_keys`; in memory a map from task id to the cancel function of its handler | Submit, Lease (with Recover), Begin, Heartbeat, Progress, Succeed, Fail, Cancel, Pause, Resume, Retry; `Worker.Run` | every long operation is a handler on it; HTTP controls its rows |
| Release publication (`service/publish.go`, `store/publish_repo.go`) | table `releases`; the provider's uploads | PublishPack, RetryPublish, PollRelease | HTTP, the publish task, provider adapters, artifacts |
| Artifact build (`service/build.go`) | `pack_version_inputs`, `build_artifacts`, delivery checks, files of the export directories | delivery checks, build: compare with the lock, write, rename, register | build task, publication, dependency locks |
| Content and quest revisions (`service/content.go`, `store/content_repo.go`) | revisions (draft, applied, archived), each document's active one, validation results | save draft, validate, apply, roll back | HTTP editors, delivery checks, mod references |
| Pack import (`service/import_service.go`) | import previews, staged files | Inspect, Confirm (consume, submit, link), import handler | queue, packs |
| Packs and mod list (`service/api.go`, `service/mods.go`, triggers of `0013` and `0016`) | packs, `pack_mods`, source and configuration revisions | create, update, archive, delete; add with automatic cures, update, remove | parsing, catalog, locks |
| Dependency locks (`service/mods.go`, `store/mod_repo.go`) | locks, conflicts | resolve, judge a conflict | mod list, builds |
| Mod content parsing (`service/mod_content_task.go`) | parse runs by SHA-1, content rows, selections | parse handler | queue, catalog |
| Item catalog (`service/item_catalog*.go`, `store/catalog_generation_repo.go`) | build state, catalog, tag table, the pack's current generation | rebuild handler, reads | queue, parsing |
| Instance lock (`instlock/`) | one lock file with a pid | Acquire (with the removal of a stale lock), Release | process start |
| Process (`cmd/server/main.go`) | one database connection, one worker, two Queue objects | start, shutdown | everything |
| Launcher core (`launcherCore/`) | files of a Minecraft directory, partial downloads | install: download with racing sources, resume, checksum, rename | launcher task |
| HTTP API, web client, configuration, observability | none that matters here | routing, views, logging | |

Each component's correctness, in a sentence:

* **Queue**: a task is executed by at most one effective worker; a worker that
  lost its lease changes nothing; executions are bounded; rows, events and keys
  agree; nothing stays leased for ever; nothing blocks the only connection.
* **Publication**: no upload that nobody asked for; a recorded success is real
  and final.
* **Build**: a registered artifact has the file its row describes, made from
  the inputs on record for its version.
* **Revisions**: no edit is lost unnoticed; at most one revision is applied, it
  is the active one, and it has no blocking issue.
* **Import**: a confirmed preview is imported by one task, and an interrupted
  import loses nothing.
* **Mod list and catalog**: what is served is what a rebuild would make now; a
  removed mod does not come back by a late write.
* **Locks**: what a lock was made in spite of is shown to the user.
* **Instance lock**: at most one server at a time; a dead one does not keep
  others out.
* **Downloads**: when all downloads have succeeded, the files are whole; every
  download ends, and is given up only for a cause.

## What is hard

`store.Open` gives the process one connection (`store/store.go:62`), so each SQL
transaction is atomic against every other one. What remains is between
transactions:

* **Time.** A lease of 30 s fences the worker's writes by owner, epoch and
  expiry. Handlers run longer than a lease. The epoch is NULL between leases,
  so it repeats.
* **Interleaving.** A user cancels, pauses, resumes or retries a task while a
  handler works on it, through a Queue object that does not know that handler.
  Publications, polls and retries of one release overlap.
* **Reads before writes.** `Pause`, `PollRelease`, `ApplyContent`,
  `UpdatePackMod`, `ResolvePack`, `BuildPack` and the parse handler write what
  they read in an earlier transaction; `Begin` checks the lease before its own.
* **Crashes.** The process may end between any two transactions; an upgrade
  rebuilds the tasks table and detaches events and keys. Files are renamed and
  removed between transactions, and a killed server leaves its lock.
* **Lost answers.** An upload may have happened although its answer is an error.

`PROJECT.json` lists every hazard with its line and the properties that cover it.

## Modules

### TaskQueue

`task/task.go`, `task/worker.go`, `task/http_adapter.go`. One transaction is one
action; two transactions of one call, or a read outside the transaction, are two.

| Variable | Code |
|---|---|
| `tasks` | rows of `tasks` (message, title, payload, error texts left out) |
| `lastEvent` | status in the newest `task_events` row of a task |
| `idem` | `task_idem_keys`: payload hash and task of a key |
| `now` | the clock (`q.now`), in units the constants choose |
| `connHolder` | the only connection, when a goroutine keeps it while waiting for a second one |
| `running` | `Queue.running`, per Queue object |
| `ctxCanceled` | handler contexts that have been cancelled |
| `pc`, `held` | where a worker is in `RunOnce`, and the task and lease it has |
| `clients` | HTTP requests between two of their statements |
| `leaseNo`, `resumes` | history, read by properties only (and by the bound on leases) |

| Actions | Code |
|---|---|
| `Submit` | `Queue.Submit`: key and row in one transaction |
| `Recover`, `Claim`, `NothingReady` | `Queue.Lease`, whose first statement is `Recover` |
| `Preflight`, `BeginTask` | `Lease`'s trailing `Get` and `Begin`'s preflight, then `Begin`'s transaction with its error path |
| `StartHandler`, `RejectKind` | `RunOnce`: handler found, or unknown kind |
| `Progress`, `Heartbeat`, `SucceedInHandler` | what a handler may do through `Execution` and the queue |
| `ReturnNil`, `ReturnError`, `ReturnCanceled`, `CancelOwnTask`, `Unwind` | the ways out of `RunOnce`, with its deferred `stopRunning` |
| `UserCancel`, `UserStop`, `ObservePause`, `UserPause`, `UserResume`, `UserRetry` | `HTTPAdapter`; cancel and pause commit first and stop the handler afterwards |
| `Restart`, `UpgradeRestart` | the process ends and starts again; with `UpgradeRestart` migration `0014` rebuilds `tasks` |
| `Tick` | time passes |

Merged on purpose: the trailing `Get` of `Lease` with `Begin`'s preflight (they
read the same row, and the worker's name is its own); the preflight of a fenced
write with its transaction (a failure of either writes nothing), except in
`Begin`, where the difference matters; `Pause`'s preflight with its transaction.
The loss of the parent context is `Restart`.

### TaskLifecycle

What a submitter is promised, without leases and clocks: phases, and an
allowance that covers every execution. `TaskQueue` implements it under the
mapping `Phase` (leased and running are both *executing*), with the allowance
`max_attempts` + recoveries + resumptions. In its terms: success is final, only
a user restarts a failed or canceled task, only an executing task gets a
result, and nothing is granted beyond the allowance.

### Release

`service/publish.go`, `store/publish_repo.go`. Nothing here runs in a
transaction, so every statement of a call is an action, and `calls` holds the
values a call has read. A release row is identified with its provider and
idempotency key; `Local` are the rows of provider `local`. The provider is
external: `Upload` creates a publication whose answer arrives or is lost,
`Settle` finishes it later, `RemoteStatus` tells what it knows of an id.
`Abandon` is a client that hangs up, which cancels the statements still to
come, or the end of the process. `FileLost` removes an artifact's file.
Left out: `remote_state`, error codes, and the lookups of pack, version and
artifact that precede everything. `PublishPack`'s insertion and re-reading are
one step, since no other call can change a pending row that has just appeared
(polls and retries ask for other statuses, and a repeated key only reads).

### Publication

What those who ask for a publication are promised, without calls, rows, polls
and lost answers: a release is asked for (`Ask`, `AskAgain`), the provider gets
its artifact no more often than that (`Deliver`), finishes an upload in its own
time (`Settle`), and a release is recorded once and for all under an id that no
other release has (`Record`). `Release` implements it: a row asks once, every
admitted retry asks again, and a row is recorded when its status is succeeded.

### Revisions and RevisionRules

`service/content.go`, `store/content_repo.go`. `RevisionRules` holds the pure
part: which payloads are canonical, and the issues `validateContentSemantics`
and `validateQuest` find, with the queue that takes quests off the graph as a
fold. `QuestChecks` says what an accepted quest book promises, an order in which
its quests can be done, and puts drafts to the checks. `Revisions` is the state:
`rev` (the numbered revisions of every document
and of the book), `active`, `check` (the revision in the delivery check), `runs`
(validation results), `owners` (packs that select a mod), and `calls`, `seen`:
where a request is between its read and its write, and what its client was
shown. One repository transaction is one action; `ApplyContent`,
`SaveQuestDraft`, `ApplyQuest` and `RollbackQuest` read in one action and commit
in another. A payload is its fields and the numbers the rules look at.

### RevisionHistory

What the authors are promised, without requests, checks and states of rows: a
history per document that only grows (`Write` by an author who knows of all
there is, `Copy` by `RollbackContent`, which does not look), and an active
revision that is replaced by one that never was active (`Activate`). `Revisions`
implements it: a row's content, source and basis are its entry, and the numbers
in use are the rows that are no drafts any more.

### ModList, Catalog and Resolve

`ModList` is the pack and its list: the requests of `service/api.go` and
`service/mods.go`, the rows they write, and the triggers that every write sets
off. A request that reads first is several steps (`ChangeVersion`, then
`UpdatePackMod`), and adding a mod is followed by the nested scans of
`AutoFixCompat`, one pending set of cures for each. `source_revision` and
`config_revision` are compared for equality only; a counter is therefore the
set of those who hold its present value, and raising it empties the set.

`Catalog` adds the worker: the parse task (read the row, fetch the archive,
check its identity, save the selection, begin the run, replace the content, end)
and the rebuild task (snapshot, configuration, replace the catalog, publish the
generation), each statement or transaction an action, with `Crash` and lost
leases between any two. `Resolve` adds `ResolvePack`: members and conflicts read
in two queries, providers asked, one transaction at the end, for several
resolves at once. Both extend `ModList` and leave its requests as they are.

### CatalogTags

`catalogBuilder` of `service/item_catalog.go`: resources are read in any order
and number (`AddModel`, `AddRecipe`, `AddDefinition`), then `finish` lists the
edges of every tag (`BeginFinish`) and visits them depth first, with the memory
of finished tags and the cutting of cycles. The recursive closure `visit` is
unrolled: `stack` holds the visits under way, `mark` is the map `state`, and
each call, edge and return is an action (`VisitKey`, `VisitTag`, `FollowItem`,
`FollowTag`, `LeaveTag`), since what one visit writes another reads in between.
`tooDeep` is a history variable: the limit of 128 was met.

Reference definitions, which visit nothing, say what the table should be:
`Below` (what a tag depends on), `Circular` and `Endless` (tags on a cycle, tags
that lead to one), `Doomed` and `RestOn` (what cannot be trusted, and what could
be its reason; a greatest and a least solution), `GatheredBy` (what a row of
edges adds and does not take back).

### Delivery

`service/build.go` and its tables: versions, export directories, delivery
checks, and `BuildPack` step by step (checks on record, look up, record
the inputs, rename the file, hash it, register it, remove it if another build
was first). `artifact` is the table, `disk` the files; a file's path is the name
of the version, the input and the directory, as in the code. Faults: a stop of
the process and a failure of the database in a registration.

### Imports

`service/import_service.go`: a preview, `Confirm` in its five statements, for
several confirmations at once, and the handler (parse, create the pack, remove
the archive, succeed). The queue is reduced to the phases that `TaskLifecycle`
promises: a task is interrupted, stopped, retried or recovered between any two
steps of its handler. Users create and rename packs meanwhile.

### Download

`launcherCore/src/download/`: `download_file` for items at the same time. A
call goes through its attempts; each attempt spawns a task per source; the
sources are awaited in their order; the first that has what the checksum says
is renamed, and the others go on. A file is a sequence of chunks, and a task
keeps the file it has opened whatever the name has become, so `name` and `data`
are two variables. Servers refuse, cut a transfer, or send the whole file
although a part was asked for; they send no other content. Hashing and renaming
are atomic. `Batches` says which items are for download together and which of
them race, so that items of one destination can have the one mode that their
common URL gives them; the others are `Absent`.

### MC modules

They extend the modules with the values the configurations need, and with the
symmetry and views that reduce their state spaces; they redefine nothing.
`MCRevisions` composes `Revisions` with `QuestChecks`, whose step puts every
small quest draft to the checks.

## Runs

| Run | Expect | Checks | Instance |
|---|---|---|---|
| `server` | pass | `TypeOK`, `RowConsistent`, `AttemptsBounded`, `EventsTellStatus`, `StaleWorkerNeverWrites`, `ImplementsLifecycle`, `LeaseReleased` | the server as shipped: one worker, the HTTP adapter's own Queue object; one task, all user controls, restart, upgrade; an unknown kind and a publish task; fairness |
| `pool` | pass | `FencingSound`, `KeysLeadToOneTask`, `KeyNeverRebinds` | two workers on one Queue object, two tasks, two keys, heartbeats, upgrades |
| `wedge` | violation | `NoWedgedConnection` | a cancellation between Begin's preflight and its transaction |
| `calls` | pass | `NoAutomaticRetry`, `SucceededIsReal`, `ImplementsPublication` | three calls, a provider release and two local ones of one artifact, two uploads, two retries of the provider release and one of each local one |
| `revisions` | pass | `TypeOK`, `ActiveIsApplied`, `ActiveIsSound`, `NoFailedActive`, `ImplementsHistory`, `AcceptedQuestsCompletable` | two clients, an ore document and the quest book, three payloads (sound, unsound, with a foreign field), three drafts (a chain, a loop, a doubled edge), three revisions; every quest draft of three nodes and at most four edges, dangling ones included |
| `catalog` | pass | `TypeOK`, `ReadableIsCurrent`, `CurrentHoldsInstalled`, `SucceededIsBuilt`, `RemovedComesBackByAdd` | one mod with two versions, two versions of Minecraft, one request next to the worker, one queued task of each kind |
| `resolve` | pass | `LockedConflictsAreListed` | two requests at once; three provider mods with two clashes, each cured by the third mod, one dependency, one local mod |
| `tags` | pass | `TagsTyped`, `StatusTellsTrust`, `MembersAsDefined` | three tags, one item, all definitions of size three together |
| `delivery` | pass | `InputsExplainArtifacts`, `ReadyHasFile`, `FilesAreAccountedFor` | one version, two snapshots, two directories, three builds at once, a stop and a database failure |
| `lostfile` | violation | `ReadyHasFile` | two versions with one name, two builds |
| `imports` | pass | `OneTaskPerPreview`, `AnswersAgree`, `ConsumedHasTask`, `StagedUntilImported`, `SucceededImported` | two archives that declare the same pack name, three confirmations, two keys, one worker |
| `download` | pass | `TypeOK`, `InstalledIsWhole`, `FailsForCause`, `DownloadReturns` | one item whose two sources race, or two items of one file and one source; three chunks, two attempts, stops of the process; fairness |

**Bounds.**
* Queue: `MaxTime` stops the clock and keeps leases from running past it,
  `MaxLeases` bounds the leases of a task. In `server` time reaches 6 with a
  lease of 2, so one task can be leased three times: enough for an expiry, a
  recovery, a second lease, the exhaustion of `MaxRecovery = 2`, of the attempts
  (1 or 2) and of the deadline, and for a worker of the first lease to come back
  during the second or third. `pool` needs two leases per task for owner and
  epoch to repeat, so the lease lasts one unit. Only the order of durations
  matters, which is why 30 s can be 2 units.
* Releases: `MaxUploads`, and `MaxRetries` per release (late answers of earlier
  attempts exist only where there is a provider, so a local release gets one
  retry); three calls, because the races need a writer, a late poll and a retry.
* Revisions: `MaxRevisions = 3` gives one ledger a revision that is active, one
  that is newer and one being saved, and two ledgers their first ones; `MaxRuns`
  keeps one validation result, which may be of any revision.
* Catalog: `MaxInits` and `MaxParses` are what is queued, not what runs
  altogether: tasks come without end. One request in flight is enough to put a
  write between any two steps of the worker. The view forgets a catalog or a
  snapshot whose sources have changed, which no step reads again.
* Resolve: `MaxInits = 0`, since no rebuild matters to a lock; the view forgets
  the fields that nothing in this module reads (`MCResolve` lists them).
* Tags: size three has every cycle of three tags and every diamond of two. What
  is broken has size one; what replaces has size two, so that there is something
  left of size one for it to replace. The depth limit of 128 keeps its value and
  is out of reach. The view forgets what the visits do not use: of an item all
  but its existence, of the definitions, once finish has begun, all but the edges
  and which tags are broken.
* Delivery, Imports: finite by themselves, but for the clients.
* Download: `Attempts = 2` stands for 5 and has a last attempt and one before
  it; `MaxLength = 5` lets a file grow past its size of 3. Only the sources that
  race restart a transfer (`NoRange`), and a process stops while one download has
  begun (`MaxStopped = 1`), so that the second item of one file meets the leftover
  of the first one's earlier process; two that leave files behind together are not
  in the run.

`CHECK_DEADLOCK FALSE` stands in every configuration because the instances may
stop: the clock at `MaxTime`, requests and revisions used up, all builds of all
inputs registered, all previews expired, the tag table finished, a download
reported. Blocking that is the program's own is `NoWedgedConnection`.

Every property of a passing run is also checked against a plausible bug of the
code (`mutants` in `PROJECT.json`; the operators are next to the ones they
replace), which the run then finds.

**Fairness.** `TaskQueue!FairSpec` assumes weak fairness of each worker's steps
together, and of the clock. The first is the loop of `Worker.Run`, which calls
`RunOnce` again and again in a goroutine of its own, and handlers that return; a
worker that waits for a connection has no enabled step, which is why
`LeaseReleased` is conditional on nobody wedging it. Nothing is assumed of
users, restarts, or the progress calls of a handler. `Download!FairSpec` assumes
weak fairness of each call and of each spawned task: the runtime polls them, and
a request ends by itself after `DOWNLOAD_TIMEOUT` (`cache.rs:16`, set in
`build_client`). Neither assumes that a stop does not happen.

## Disagreements with the source

Two runs each check one statement made in a comment or an issue, and TLC finds a
behaviour of the code that breaks it; `findings` in `PROJECT.json` quotes them.

1. `wedge`: when `Begin`'s update matches no row it looks at the row through the
   pool while its own transaction has the only connection (`task/task.go:476`).
   All other fenced operations look inside the transaction.
2. `lostfile`: a build that lost the race to register an input removes its file
   although a version with the same name may have registered that very path
   (`service/build.go:383`).

Met while modelling, without a run of their own. The models follow the code in
all of them; the properties of the passing runs except by their wording what is
said here, and claim what remains:

* **Queue.** Owner and epoch repeat from lease to lease (`task/task.go:444`), so
  `Pause` may stop a later lease than the one it observed
  (`task/http_adapter.go:70-72,84`). `Progress` does not extend a lease
  (`task/task.go:517`), although handlers call it for that
  (`service/api.go:647-648,672-673`). The cancellation after a cancelled context
  has no fence (`task/task.go:784`); with one worker that is harmless, with two
  on one Queue object it ends somebody else's task.
* **Releases.** A reservation is told from the next by its status only
  (`store/publish_repo.go:322-324`). A poll writes back the id it read before
  the provider answered, which leaves a publishing row that cannot be polled
  (`service/publish.go:291-292,317`). A process that ends between reservation
  and result leaves one, too. A publish task that runs again reports success
  because the row is there (`service/publish_task.go:144`).
* **Revisions.** `ApplyContent` checks "only the latest revision can be applied"
  before its transaction (`service/content.go:249`), so an older one may become
  active. A save that is repeated after a lost answer conflicts with itself
  (`store/content_repo.go:163-164`). Which pack a mod reference belongs to is
  undetermined when several select the mod.
* **Mod list.** `UpdatePack` and `UpdatePackMod` write rows they read earlier,
  and lose updates in between. A pack cannot be deleted at all: a trigger
  (`migrations/0016:69`) refuses to delete its built-in member
  (`contract.md:508-520` promises deletion). Renaming a pack leaves its catalog
  pending with no task queued; so does a stop between the update and the
  submission. A change of the hash alone keeps the old selection.
* **Catalog.** Content is kept per member, runs per version: after a change of
  version and back, the run of the version says it is parsed while the content
  stored is another version's (`requirements.md:75`; `mod_content_repo.go`:
  "This guarantees that content and run status never diverge"). A forced parse
  does not extract again. Minecraft's version may change while its archive is
  fetched. `build_status` stays `running` when a stop coincides with the last
  recovery.
* **Locks.** The conflict kind `known_issue` (`service/mods.go:888`) is not in
  the CHECK of `migrations/0002:94`, so a known issue without its cure makes
  every resolve fail. Conflicts that are no longer found stay pending; local
  mods always yield "Provider unavailable"; `ResolveConflict` never answers 409
  (`contract.md:734`). Mods and members are read in two queries.
* **Builds.** Blocked checks on record count only if the request brings none
  (`service/build.go:305`; `contract.md:914`). A resolve after a build makes the
  version unbuildable. A stop between rename and registration leaves a stray
  file; a failed registration removes a file that may be registered (`:376`).
* **Imports.** The comment at `service/import_service.go:161-162` does not hold
  for a confirmation that fails half way, or whose key another preview has: the
  preview is used up and has no task. An import that is interrupted after the
  pack was created fails with `import_parse_failed` or `pack_name_duplicate`
  although the pack exists; after a rename of that pack it makes a second one.
  URL sources always fail to parse.
* **Tags.** Optional references on a cycle depend on the visiting order, and
  beyond a depth of 128 a finished tag can become invalid yet keep members.
* **Downloads.** Two items with one destination, such as two names of an asset
  index with one hash (`download/mod.rs:93-111` does not merge them), share the
  partial files that `cache.rs:105` wants to be distinct; a source that lost the
  race of one appends to the file that the other has verified and renamed. The
  module finds this within 22 steps for two calls of one path that both race, so
  `InstalledIsWhole` excepts such items in its wording. With one source each it
  holds (run `download`, theorem `TwinsInstalledWhole`), but only once both have
  reported success: until then one can truncate what the other has verified, and
  one can fail although no source let it down, which `FailsForCause` excepts. A
  partial file as long as the whole makes every retry fail, since
  the range is refused. Items without a checksum accept what a server that
  ignores ranges appended. Single-source partial files drop the extension, so
  `java.dll` and `java.exe` share one.
* **Instance lock** (not modelled yet). A lock file without a pid is judged
  stale (`instlock/instlock.go:73`), and a stale one is removed by its name
  (`:43`), so two starts at the same time can both succeed;
  `docs/reviews/database-dba-review.md:314` names the risk. A killed server's pid
  that is in use again refuses the start.

## Proofs

Eight modules hold the theorems; each states its inductive invariant, proves it
once as `Invariance` (`TagInvariance` for the tags), and derives the properties
from it. They hold for every value of the constants that satisfies the
assumptions of the modules: bounds such as `MaxTime` or `MaxRevisions` may be
any number.

| Module | Theorems | of |
|---|---|---|
| `TaskQueueProofs` | `Invariance`, `Typing`, `RowsStayConsistent`, `ExecutionsBounded`, `Fencing`, `EventsAgree`, `KeysSound`, `KeysStable`, `MapsTrackHandlers`, `HandlersRunToTheirEnd`, `StaleWorkersWriteNothing`, `Refinement` | `TaskQueue`; `Refinement` shows that it implements `TaskLifecycle` |
| `ReleaseProofs` | `Invariance`, `Typing`, `UploadsBounded`, `SuccessIsReal`, `SuccessIsFinal`, `KeepsPromise` | `Release`; `KeepsPromise` shows that it implements `Publication` |
| `RevisionsProofs` | `Invariance`, `Typing`, `OneIsApplied`, `ActiveSound`, `FailedIsInactive`, `NothingBuried`, `KeepsHistory`, `CycleToldExactly`, `QuestsCompletable`, `ActiveBookCompletable` | `Revisions`, `QuestChecks`; `KeepsHistory` shows that it implements `RevisionHistory` |
| `ModListProofs` | `ResolveInvariance`, `ResolveTyping`, `LockIsListed`, and the lemmas that `CatalogProofs` shares | `ModList`, `Resolve` |
| `CatalogProofs` | `Invariance`, `Typing`, `CatalogIsCurrent`, `GenerationHolds`, `SuccessIsBuilt`, `RemovedStays`, `TagInvariance`, `TagsTyping`, `TrustTold`, `MembersDefined` | `Catalog`, `CatalogTags` |
| `DeliveryProofs` | `Invariance`, `Typing`, `OneSnapshot`, `NoStrayFile`, `ArchivesStay` | `Delivery` |
| `ImportsProofs` | `Invariance`, `Typing`, `PreviewUsedOnce`, `SameAnswer`, `PreviewNotLost`, `ArchiveKept`, `SuccessMadeAPack` | `Imports` |
| `DownloadProofs` | `Typing`, `ItemsInstalledWhole`, `TwinsInstalledWhole`, `GivenUpForCause` | `Download` |

**Assumptions.** Those of the modules, all of them what the code fixes: workers
have distinct ids, budgets are 1..16 (the column's CHECK), the empty owner, key,
payload and id are none of the real ones, remote ids of the provider are not
artifact ids, members of different sorts are different, the references of a
draft are known. Drafts have finitely many nodes and edges, and the set of calls
of `Release` is finite. The definitions of tags have their type, and what
stands for an identifier that is none names no item and no tag. Six theorems
assume more, as a hypothesis of their own:

* `ArchivesStay`: `DistinctNames`, no two versions share the name of their
  files; `lostfile` shows that it is needed.
* `HandlersRunToTheirEnd`, `StaleWorkersWriteNothing`: `QueuesApart`, no two
  workers share a Queue object and none has the HTTP adapter's. `main.go` starts
  one worker, and `NewHTTPAdapter` makes a Queue of its own. With two workers on
  one object the action property is false (see the disagreements).
* `ItemsInstalledWhole`, `GivenUpForCause`: `ItemsApart`, no two items share
  their destination or the name their partial files are made from. Items of one
  version do not, but for the names of an asset index with one hash and the
  libraries that differ in their extension only, which are the cases of the
  disagreements. `GivenUpForCause` also needs a second attempt
  (`Attempts > 1`; `max_retries` is 5): with a single one, the leftover of an
  earlier process costs the only try.
* `TwinsInstalledWhole`: `AllTwins`, the items are one file with a SHA-1 and have
  one source each; the names of an index with one hash, without a mirror. That
  two items of one file both race is the case no theorem can have.

**The queue.** `RowStep` lists what one step can do to one row; `RowSteps` shows
once that every action is a `RowStep` for its row (or a recovery of some expired
rows) and leaves the others alone. Types, row consistency, the allowance and the
refinement then argue about `RowStep`. `AttemptsBounded` is not inductive: that
an execution may be granted needs a spare attempt in every waiting task
(`AttemptsCovered`). `FencingSound` is not either: two leases can have the same
epoch, so what carries the induction is `OwnLease`, namely that a row with the
name of a worker is on the lease that worker was granted last, as long as the
worker holds on to that task. That is why distinct worker ids are assumed, and
why the epoch contributes nothing.

`StaleWorkersWriteNothing` is about the one write of a worker that no fence
guards, the cancellation of its own task. `MapsTrackHandlers` says that a
running map knows a worker only under the task it holds and while it handles
it; with `QueuesApart` the maps that users reach are therefore empty, no
request ends a handler's context, and `RunOnce` never comes to that write. All
others are fenced, and `OwnLease` says that a fence holds only on the worker's
latest lease.

**Releases.** `Provenance` says of every remote id in a row or in a call's hands
that the provider made it for that release, and of every answer that it was not
ahead of the provider, which is what makes a late write harmless for
`SucceededIsReal`. `Charged` counts: uploads so far, plus calls that may still
upload, plus what a failed or pending row would let through, stay within one
plus the retries admitted; the bound on uploads alone is not inductive.
`KeepsPromise` goes through the actions once more: an upload is a `Deliver`
because `Charged` leaves room for one, a success is a `Record` because
`Provenance` finds the upload it names and the statements of the store refuse an
id that another release of the same provider has, and a late answer to a
recorded release is a stutter.

**Revisions.** A request applies what it checked in an earlier step. `Known`
says that the revision it checked exists and had no blocking issue, and `Kept`
that no step changes a payload, so the check is still good when it commits,
whatever was saved, applied or rolled back meanwhile. The refinement lists what
a step can do to the rows (`HistoryStep`): nothing, one more draft on top of all
rows (`AppendAdds`), or the promotion of a draft, which rewrites states only
(`PromotionMarks`). A quest rollback carries the number it read as any editor
carries its own, and the match inside the transaction makes that number the
latest one; that is why it is a `Write`, and `RollbackContent` a `Copy`.

The quest check takes nodes without open prerequisites off the graph until none
is left (`Unsorted`). It is measured against orders of all quests, which it
never builds, through a third notion: a *core* is a set of quests each of which
has a prerequisite in the set. What the queue leaves is a core
(`UnsortedIsCore`) and holds every other (`CoreOfStuck`), so nothing is left
exactly if no core but the empty one exists; an order leaves no core, since its
first member has no prerequisite in the core (`OrderedHasNoCore`); and without a
core there is an order (`NoCoreIsOrdered`). The two inductions are over finite
sets of quests, each made of a smallest counterexample with respect to strict
inclusion (`SmallestMember`), which the installed provers can do where they
cannot use the library's induction theorems. `ActiveBookCompletable` carries the
result over to the book that is active, by `ActiveSound`.

**Mod list, catalog, resolve.** `ListMove` describes what any request does to
rows, revisions and generations. `Versioned` and `Fetched` say that what an
installed row, a request or the worker carries has a version; `SourcesSound`
that whoever holds the source revision has the present sources in its hands, so
a catalog that is put in place is the one a rebuild would make. For locks, an
upsert lists everything the lock was made with (`UpsertLists`), and no request
takes a conflict off the list.

**Tags.** The code is a recursion that remembers, cuts and overwrites; the
claims are about a graph. `Visits` says of the stack that each visit is of a tag
below all the visits before it, so an edge back to an open tag closes a cycle,
which makes that tag `Circular` and the one that follows the edge `Endless`
(`CycleEndless`): only they are cut. `Told` says of every edge followed that its
target is finished, or is open and by then invalid, and that the status of the
tag shows what a required target lacks. A status may still fall after it was
read, but only that of an open tag that is cut, which is invalid before the one
who cut it goes on; finished ones keep theirs, as long as the limit of depth is
not met. `Grounded` forbids finished tags that are not invalid to require each
other in a circle: the last to finish would have been required while it was
open, hence be invalid. That makes all of `Doomed` invalid. `Excused` is the
converse, `Gathered` the members: what was taken from a finished tag is what
that tag has for good (`GatheredStays`). The edges of a tag are a recursive
function of its definitions; that it has a value, which is made of the entries
of plain definitions, is `EdgesSound`, by the least number for which it were
wrong (`LeastNumber`).

**Delivery.** A row is never written over. `Recorded` says that past the record
of inputs a build works on the recorded snapshot; `LosersOnly` that the build
which removes a file does not own the row, and that one about to register still
has its file.

**Imports.** `Tickets`: the confirmation that used a preview up is the only one
that may submit for it, and before it does the preview has no task. `Landed`: a
job past the creation of its pack has one, whatever became of its task.

**Downloads.** Files are reached by name but written by handle, so a loser of a
race can write into what has been installed. `Course` excludes it: an attempt
waits for all of its tasks that are to be taken before the next begins
(`OthersDone`, `LaterOff`), and whoever still writes does it to the file under
the partial name of its own source (`WritesByName`), which is not the one just
verified (`Checked`), since that has left its partial name. What a step leaves
alone in another call is one notion (`Untouched`), so that each action is argued
for its own call only. `Cause` follows a source that is not to blame: in its
first attempt it may resume an earlier process's file and fail, but then that
file is dropped, and from the second on its file is always a beginning of the
whole, written from nothing; so it ends in the whole, and the call succeeds. For
items of one file and one source `InTwins` says less of the files and more of the
calls: a task runs only while its call awaits it (`AwaitsTask`), so when all calls
are at rest nobody writes, and the last that found the file whole did so then.

**Only model-checked.** `LeaseReleased` and `DownloadReturns`: liveness under
fairness, and the `ENABLED` it rests on, is outside the prover. And the violation
runs. What holds of tags once the limit of depth has been met is left open by
the properties themselves.

## What is not modelled

* The instance lock: a module of its own, next in the plan.
* The composition of publish tasks with the queue: what the second execution of
  a publish task reports, and the request in `remote_state` that a repeated key
  is compared with.
* Contents: titles, messages, error texts, progress messages, icons, names and
  languages of items, the layout of archives.
* Storage errors other than the loss of the process, except where a module
  lists them among its faults or its failed steps.
* Clock jumps backwards.
* Three details without a property that depends on them. A handler that returns
  `context.Canceled` under a live context (`task/task.go:776`); no shipped one
  does. Two versions of a mod with one archive, which are stored once. Which of
  a mod's versions a provider offers and which issues it has (`Resolve` has the
  clashes and their cures).
* Reads: lists, views, searches, recommendations, the dashboard, the HTTP
  mapping of errors.
* The launcher's installation beyond its downloads: one per process under an
  operating-system lock, a sequence without state of its own. Launcher tasks are
  handlers like others to the queue.
* The blob store, the file browser, configuration, logging, the upgrade of
  legacy databases (runs once, alone), and the web client.

`PROJECT.json` lists every component with its status and reason.

## Plan

1. `InstanceLock`: two starters, a stale file, killed servers and reused pids.
2. `PublishTask`: `Release` composed with `TaskLifecycle`.
3. A run of its own for two items of one file that both race, to go with the
   disagreement; whole directories as the launcher installs them.
4. Proofs: `Imports` as the refinement of one hand-over of a preview.
