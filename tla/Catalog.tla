------------------------------- MODULE Catalog -------------------------------
(***************************************************************************)
(* How the content of a pack's members is extracted and served as the      *)
(* pack's catalog: the parse tasks of service/mod_content_task.go, the     *)
(* catalog_init tasks of item_catalog_task.go and item_catalog.go, and the *)
(* tables behind them, next to the requests of ModList that change the     *)
(* list meanwhile.                                                         *)
(*                                                                         *)
(* The server runs one worker, so tasks follow one another; requests come  *)
(* between any two steps of a task.                                        *)
(***************************************************************************)
EXTENDS ModList

CONSTANT MaxParses  \* bound: parse tasks queued

VARIABLES
  run,      \* run[m], mod_content_runs: the versions of m whose parse succeeded; nobody
            \* tells a run that failed or never ended from none
  content,  \* content[m], mod_content: the version whose content is stored for m
  catalog,  \* pack_catalog_*: the <<member, version>> whose content was indexed
  parses,   \* members with a parse task in the queue
  worker    \* the task that runs, its step, and what it has read

vars == <<pack, row, fresh, sameConfig, current, build, inits, req,
          run, content, catalog, parses, worker>>

catalogVars == <<run, content, catalog, parses, worker>>

Job(task, step, mod, copy, version, parts) ==
  [task |-> task, step |-> step, mod |-> mod, copy |-> copy, version |-> version, parts |-> parts]
NoJob == Job("none", "idle", Minecraft, Absent, NoVersion, {})

At(step) == worker.step = step
GoTo(step) == worker' = [worker EXCEPT !.step = step]
(* ... and is done with the row it read.                                   *)
Pass(step, version) == worker' = Job(worker.task, step, worker.mod, Absent, version, {})

Parseable(m, copy) == copy.status = "installed" \/ (m = Minecraft /\ copy.status # "removed")

(* What ListPackMembers, the runs of the members' versions and the content *)
(* rows amount to: installed members with a selection, whose version was   *)
(* parsed.                                                                 *)
Indexed == {m \in Members : /\ row[m].status = "installed"
                            /\ row[m].selection # NoVersion
                            /\ row[m].version \in run[m]}
Parts == {<<m, content[m]>> : m \in Indexed}

(* ReadCatalog, ReadCatalogIcon: a current generation, and a catalog that  *)
(* was built from the present sources.                                     *)
Readable == current # {} /\ "built" \in fresh

-----------------------------------------------------------------------------
(* A task begins and ends. *)

SubmitParseModContent(m) ==
  /\ Exists
  /\ Parseable(m, row[m])
  /\ \E force \in BOOLEAN : force \/ row[m].version \notin run[m]
  /\ parses' = parses \cup {m}
  /\ Cardinality(parses') <= MaxParses
  /\ UNCHANGED <<listVars, run, content, catalog, worker>>

StartParse ==
  /\ worker.task = "none"
  /\ \E m \in parses : /\ parses' = parses \ {m}
                       /\ worker' = Job("parse", "read", m, Absent, NoVersion, {})
  /\ UNCHANGED <<listVars, run, content, catalog>>

StartRebuild ==
  /\ worker.task = "none"
  /\ inits > 0 /\ inits' = inits - 1
  /\ build' = "running"
  /\ worker' = Job("rebuild", "read", Minecraft, Absent, NoVersion, {})
  /\ UNCHANGED <<pack, row, fresh, sameConfig, current, req,
                 run, content, catalog, parses>>

(* Waits in the queue again, or not, as attempts are left.                 *)
Requeue ==
  \/ worker.task = "rebuild" /\ inits < MaxInits /\ inits' = inits + 1 /\ UNCHANGED parses
  \/ /\ worker.task = "parse" /\ parses' = parses \cup {worker.mod}
     /\ Cardinality(parses') <= MaxParses
     /\ UNCHANGED inits
  \/ UNCHANGED <<inits, parses>>

(* The worker forgets what it read.                                        *)
Leave ==
  /\ worker' = NoJob
  /\ fresh' = fresh \ {"worker"}
  /\ sameConfig' = sameConfig \ {"worker"}

(* Other failures of a step leave what the step wrote; the build state is  *)
(* set afterwards, by the deferred call of HandleCatalogInitTask.          *)
Fail ==
  /\ Pass("failed", NoVersion)
  /\ UNCHANGED <<pack, sameConfig, current, inits, req, catalog, parses>>

EndFailed ==
  /\ At("failed")
  /\ build' = IF worker.task = "rebuild" THEN "failed" ELSE build
  /\ Leave
  /\ Requeue
  /\ UNCHANGED <<pack, row, current, req, run, content, catalog>>

(* The process stops: requests are gone, the task is recovered or given up *)
(* when the server starts again, and nothing that was deferred is done.    *)
Crash ==
  /\ worker.task # "none"
  /\ Leave
  /\ Requeue
  /\ req' = [q \in Requests |-> Done("idle")]
  /\ UNCHANGED <<pack, row, current, build, run, content, catalog>>

-----------------------------------------------------------------------------
(* parseAndPersistModContent *)

ReadRow ==
  LET copy == row[worker.mod] IN
  /\ At("read")
  /\ IF ~Parseable(worker.mod, copy) THEN Pass("failed", NoVersion)
     ELSE IF copy.version \in run[worker.mod] THEN Pass("parsed", NoVersion)
     ELSE worker' = [worker EXCEPT !.step = "fetch", !.copy = copy]
  /\ UNCHANGED <<listVars, run, content, catalog, parses>>

(* finishModContentRun(failed), under the version the row was read with.   *)
RecordFailure(v) ==
  /\ run' = [run EXCEPT ![worker.mod] = @ \ {v}]
  /\ Touch
  /\ UNCHANGED <<row, content>>

(* Minecraft is fetched at the version the pack has now, a mod at the      *)
(* version its row had; the archive must have the row's hash if it has     *)
(* one.  The bytes of a local mod are nowhere kept.                        *)
FetchArchive ==
  LET v == IF worker.mod = Minecraft THEN pack.mc ELSE worker.copy.version IN
  /\ At("fetch")
  /\ worker.mod \notin LocalMods
  /\ worker.copy.version \in {NoVersion, v}
  /\ worker' = [worker EXCEPT !.step = "save", !.version = v]
  /\ UNCHANGED <<listVars, run, content, catalog, parses>>

FetchFails == At("fetch") /\ RecordFailure(worker.copy.version) /\ Fail

(* An archive that declares another mod than the row's leaves no run.      *)
WrongIdentity ==
  /\ At("fetch") /\ worker.mod \in Mods
  /\ Fail
  /\ UNCHANGED <<row, fresh, build, run, content>>

(* Mutant: the row is written whatever became of it.                       *)
SaveSelectionAnyway ==
  /\ At("save")
  /\ row' = [row EXCEPT ![worker.mod] = NewRow("installed", worker.version, worker.version)]
  /\ Touch
  /\ Pass("recheck", worker.version)
  /\ UNCHANGED <<pack, sameConfig, current, inits, req, run, content, catalog, parses>>

(* The row that was read is written back as installed, and the selection   *)
(* moved to the archive, whatever requests did to the row since; only a    *)
(* row that was removed is not found.  The configuration is not touched.   *)
SaveSelection ==
  /\ At("save")
  /\ IF Present(worker.mod)
     THEN /\ row' = [row EXCEPT ![worker.mod] = NewRow("installed", worker.version, worker.version)]
          /\ Touch
          /\ Pass("recheck", worker.version)
     ELSE Pass("failed", NoVersion) /\ UNCHANGED <<row, fresh, build>>
  /\ UNCHANGED <<pack, sameConfig, current, inits, req, run, content, catalog, parses>>

BeginRun ==
  /\ At("recheck")
  /\ IF worker.version \in run[worker.mod]
     THEN Pass("parsed", NoVersion) /\ UNCHANGED <<fresh, build>>
     ELSE Touch /\ GoTo("replace")
  /\ UNCHANGED <<run, pack, row, sameConfig, current, inits, req, content, catalog, parses>>

(* PersistScopedParse, then ReplaceModContentAndFinishRun: the rows of the *)
(* member, of whatever version, give way to those of this one.             *)
ReplaceContent ==
  /\ At("replace")
  /\ content' = [content EXCEPT ![worker.mod] = worker.version]
  /\ run' = [run EXCEPT ![worker.mod] = @ \cup {worker.version}]
  /\ Touch
  /\ Pass("parsed", NoVersion)
  /\ UNCHANGED <<pack, row, sameConfig, current, inits, req, catalog, parses>>

PersistFails == At("replace") /\ RecordFailure(worker.version) /\ Fail

(* A parse task ends by asking for a rebuild, a rebuild goes on.           *)
EndParse ==
  /\ At("parsed") /\ worker.task = "parse"
  /\ \/ inits < MaxInits /\ inits' = inits + 1 /\ worker' = NoJob
     \/ UNCHANGED inits /\ Pass("failed", NoVersion)
  /\ UNCHANGED <<pack, row, fresh, sameConfig, current, build, req,
                 run, content, catalog, parses>>

-----------------------------------------------------------------------------
(* RebuildItemCatalog, once Minecraft is parsed *)

CatalogSourceSnapshot ==
  /\ At("parsed") /\ worker.task = "rebuild"
  /\ worker' = [worker EXCEPT !.step = "config", !.parts = Parts]
  /\ fresh' = fresh \cup {"worker"}
  /\ UNCHANGED <<pack, row, sameConfig, current, build, inits, req,
                 run, content, catalog, parses>>

GetPackConfigRevision ==
  /\ At("config")
  /\ GoTo("swap")
  /\ sameConfig' = sameConfig \cup {"worker"}
  /\ UNCHANGED <<pack, row, fresh, current, build, inits, req,
                 run, content, catalog, parses>>

(* Mutant: the revision the catalog was made from is not compared.         *)
ReplaceCatalogUnchecked ==
  /\ At("swap")
  /\ catalog' = worker.parts /\ fresh' = {"built"} /\ build' = "succeeded"
  /\ Pass("publish", NoVersion)
  /\ UNCHANGED <<pack, row, sameConfig, current, inits, req, run, content, parses>>

ReplaceCatalog ==
  /\ At("swap")
  /\ IF "worker" \in fresh
     THEN /\ catalog' = worker.parts
          /\ fresh' = {"built"}
          /\ build' = "succeeded"
          /\ Pass("publish", NoVersion)
     ELSE Pass("failed", NoVersion) /\ UNCHANGED <<catalog, fresh, build>>
  /\ UNCHANGED <<pack, row, sameConfig, current, inits, req, run, content, parses>>

(* Mutant: the generation that was current before is not superseded.       *)
PublishBeside ==
  /\ At("publish")
  /\ IF "worker" \in sameConfig
     THEN /\ current' = current \cup
               {{m \in Members : row[m].status = "installed" /\ row[m].selection # NoVersion}}
          /\ sameConfig' = {"current"}
          /\ worker' = NoJob
     ELSE Pass("failed", NoVersion) /\ UNCHANGED <<current, sameConfig>>
  /\ UNCHANGED <<pack, row, fresh, build, inits, req, run, content, catalog, parses>>

PublishCatalogGeneration ==
  /\ At("publish")
  /\ IF "worker" \in sameConfig
     THEN /\ current' = {{m \in Members : row[m].status = "installed" /\ row[m].selection # NoVersion}}
          /\ sameConfig' = {"current"}
          /\ worker' = NoJob
     ELSE Pass("failed", NoVersion) /\ UNCHANGED <<current, sameConfig>>
  /\ UNCHANGED <<pack, row, fresh, build, inits, req, run, content, catalog, parses>>

-----------------------------------------------------------------------------
Init ==
  /\ ListInit
  /\ run = [m \in Members |-> {}]
  /\ content = [m \in Members |-> NoVersion]
  /\ catalog = {}
  /\ parses = {}
  /\ worker = NoJob

Next ==
  \/ PackRequests /\ UNCHANGED catalogVars
  \/ ModRequests /\ UNCHANGED catalogVars
  \/ \E m \in Members : SubmitParseModContent(m)
  \/ StartParse \/ StartRebuild \/ EndFailed \/ Crash
  \/ ReadRow \/ FetchArchive \/ FetchFails \/ WrongIdentity \/ SaveSelection \/ BeginRun
  \/ ReplaceContent \/ PersistFails \/ EndParse
  \/ CatalogSourceSnapshot \/ GetPackConfigRevision \/ ReplaceCatalog \/ PublishCatalogGeneration

Spec == Init /\ [][Next]_vars

-----------------------------------------------------------------------------
(* Every variable has its type.                                            *)
TypeOK ==
  /\ ListTypeOK
  /\ fresh \subseteq {"worker", "built"}
  /\ sameConfig \subseteq {"worker", "current"}
  /\ run \in [Members -> SUBSET (Labels \ {NoVersion})]
  /\ content \in [Members -> Labels]
  /\ catalog \subseteq Members \X Labels
  /\ parses \subseteq Members

(* A catalog that is served (ReadCatalog, catalog_repo.go) is the one a    *)
(* rebuild would make of the list and the content there are now, whatever  *)
(* requests and parses ran while it was being built.                       *)
ReadableIsCurrent == Readable => catalog = Parts

(* The generation packs point to was published under the configuration the *)
(* pack still has, and every member it was made from is still installed.   *)
CurrentHoldsInstalled ==
  \A sources \in current :
    "current" \in sameConfig /\ \A m \in sources : row[m].status = "installed"

(* build_status says succeeded only of a catalog built from the present    *)
(* sources; whether its generation is published already is another matter. *)
SucceededIsBuilt == build = "succeeded" => "built" \in fresh

=============================================================================
