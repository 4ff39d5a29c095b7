---------------------------- MODULE CatalogProofs ----------------------------
(***************************************************************************)
(* The catalog that is served is current, for every list of mods and       *)
(* versions, any number of requests and any queue of tasks; and the tags   *)
(* in it are what their definitions say, for every graph of tags.          *)
(*                                                                         *)
(* The inductive invariant of the generations adds to the properties what  *)
(* the worker knows at each step: a snapshot it may still put in place is  *)
(* of the present sources, and an archive it has fetched has a version.    *)
(* That of the tags, in the second half, says of the visits under way how  *)
(* they lie below each other and what each followed edge has told.         *)
(***************************************************************************)
EXTENDS Catalog, CatalogTags, ModListProofs, WellFoundedInduction

USE ModListAssumptions

WorkSteps == {"idle", "read", "fetch", "save", "recheck", "replace", "parsed", "failed",
              "config", "swap", "publish"}
JobType ==
  [task : {"none", "parse", "rebuild"}, step : WorkSteps, mod : Members, copy : RowType,
   version : Labels, parts : SUBSET (Members \X Labels)]

Typed ==
  /\ ListTyped
  /\ \A q \in Requests : req[q].op \in ListOps
  /\ fresh \subseteq {"worker", "built"}
  /\ sameConfig \subseteq {"worker", "current"}
  /\ current = {} \/ \E sources \in SUBSET Members : current = {sources}
  /\ build \in {"pending", "running", "succeeded", "failed"}
  /\ inits \in 0..MaxInits
  /\ run \in [Members -> SUBSET (Labels \ {NoVersion})]
  /\ content \in [Members -> Labels]
  /\ catalog \subseteq Members \X Labels
  /\ parses \subseteq Members
  /\ worker \in JobType

(* Before the pack is created there is nothing to work on.                 *)
Blank ==
  pack.status = "absent" =>
    /\ current = {} /\ inits = 0 /\ parses = {} /\ worker.task = "none"
    /\ \A q \in Requests : req[q].op # "submit"

(* What was read and fetched has a version.                                *)
Fetched ==
  /\ worker.task = "none" => worker.step = "idle"
  /\ worker.step = "fetch" /\ worker.mod # Minecraft => worker.copy.version # NoVersion
  /\ worker.step \in {"save", "recheck", "replace"} => worker.version # NoVersion

(* What was built, and the snapshot that may yet be, is of the sources.    *)
SourcesSound ==
  /\ "built" \in fresh => catalog = Parts
  /\ "worker" \in fresh => worker.parts = Parts /\ worker.step \in {"config", "swap"}

IInv == Typed /\ Versioned /\ Blank /\ Fetched /\ SourcesSound /\ SucceededIsBuilt /\ CurrentHoldsInstalled

-----------------------------------------------------------------------------
(* Jobs. *)

LEMMA JobTyped ==
  ASSUME NEW task \in {"none", "parse", "rebuild"}, NEW step \in WorkSteps, NEW m \in Members,
         NEW copy \in RowType, NEW v \in Labels, NEW parts \in SUBSET (Members \X Labels)
  PROVE  /\ Job(task, step, m, copy, v, parts) \in JobType
         /\ Job(task, step, m, copy, v, parts).task = task
         /\ Job(task, step, m, copy, v, parts).step = step
         /\ Job(task, step, m, copy, v, parts).mod = m
         /\ Job(task, step, m, copy, v, parts).version = v
  BY DEF Job, JobType

LEMMA NoJobTyped == NoJob \in JobType /\ NoJob.task = "none" /\ NoJob.step = "idle"
<1>1. Minecraft \in Members /\ "idle" \in WorkSteps
  BY DEF Members, WorkSteps
<1> QED BY <1>1, JobTyped, AbsentTyped, LabelsHold DEF NoJob

(* A worker that passes on keeps its task and its member.                  *)
LEMMA PassTyped ==
  ASSUME worker \in JobType, NEW step \in WorkSteps, NEW v \in Labels, Pass(step, v)
  PROVE  /\ worker' \in JobType /\ worker'.task = worker.task /\ worker'.mod = worker.mod
         /\ worker'.step = step /\ worker'.version = v
<1>1. worker.task \in {"none", "parse", "rebuild"} /\ worker.mod \in Members
  BY DEF JobType
<1> QED BY <1>1, JobTyped, AbsentTyped DEF Pass

(* What is indexed are members, with the version of their content.         *)
LEMMA PartsTyped == ASSUME Typed PROVE Parts \subseteq Members \X Labels
  BY DEF Typed, Parts, Indexed

(* Parts of equal rows, runs and content are equal.                        *)
LEMMA PartsSame == UNCHANGED <<row, run, content>> => Parts' = Parts
  BY DEF Parts, Indexed

-----------------------------------------------------------------------------
(* Requests. *)

LEMMA RequestsKeep ==
  ASSUME IInv, PackRequests \/ ModRequests, UNCHANGED catalogVars
  PROVE  IInv'
<1>0. ListMove /\ Versioned'
  BY PackMoves, ModMoves, VersionsKept DEF IInv, Typed
<1>1. UNCHANGED <<run, content, catalog, parses, worker>>
  BY DEF catalogVars
<1>2. Typed'
  <2>1. \A q \in Requests : req'[q].op \in ListOps
    BY <1>0 DEF ListMove, OwnOps, IInv, Typed
  <2>2. /\ fresh' \subseteq {"worker", "built"}
        /\ build' \in {"pending", "running", "succeeded", "failed"}
    BY <1>0 DEF ListMove, SourcesMove, IInv, Typed
  <2>3. /\ sameConfig' \subseteq {"worker", "current"}
        /\ current' = {} \/ \E sources \in SUBSET Members : current' = {sources}
    BY <1>0 DEF ListMove, ConfigMove, IInv, Typed
  <2> QED BY <1>0, <1>1, <2>1, <2>2, <2>3 DEF ListMove, PackMove, IInv, Typed
<1>3. Blank'
  BY <1>0, <1>1 DEF ListMove, PackMove, ConfigMove, IInv, Blank
<1>4. Fetched'
  BY <1>1 DEF IInv, Fetched
<1>5. SourcesSound' /\ SucceededIsBuilt'
  <2>1. CASE fresh' = {}
    BY <1>0, <2>1 DEF ListMove, SourcesMove, IInv, SourcesSound, SucceededIsBuilt
  <2>2. CASE fresh' # {}
    BY <1>0, <1>1, <2>2, PartsSame DEF ListMove, SourcesMove, IInv, SourcesSound, SucceededIsBuilt
  <2> QED BY <2>1, <2>2
<1>6. CurrentHoldsInstalled'
  BY <1>0 DEF ListMove, ConfigMove, IInv, Blank, CurrentHoldsInstalled
<1> QED BY <1>0, <1>2, <1>3, <1>4, <1>5, <1>6 DEF IInv

-----------------------------------------------------------------------------
(* The tasks. *)

(* There is work only once there is a pack.                                *)
LEMMA WorkHasPack ==
  ASSUME IInv, worker.step # "idle" \/ worker.task # "none" \/ inits # 0 \/ parses # {} \/ current # {}
  PROVE  pack.status # "absent" /\ pack.mc \in GameVersions
  BY DEF IInv, Blank, Fetched, Versioned

(* A step that leaves the list, and what is read from it, alone.           *)
LEMMA QuietStep ==
  ASSUME IInv, UNCHANGED <<pack, row, current, run, content, catalog>>,
         req' = req \/ req' = [q \in Requests |-> Done("idle")],
         fresh' = fresh \/ fresh' = fresh \ {"worker"},
         sameConfig' \in {sameConfig, sameConfig \ {"worker"}, sameConfig \cup {"worker"}},
         build' \in {build, "running", "failed"},
         inits' \in 0..MaxInits, parses' \subseteq Members, worker' \in JobType, Fetched',
         pack.status # "absent",
         "worker" \in fresh' => worker'.parts = worker.parts /\ worker'.step \in {"config", "swap"}
  PROVE  IInv'
<1>1. /\ ListTyped' /\ Versioned' /\ \A q \in Requests : req'[q].op \in ListOps
  <2>1. Done("idle") \in Steps /\ Done("idle").op = "idle" /\ Scanning(Done("idle")) /\ "idle" \in ListOps
    BY DoneTyped DEF ListOps, Answers
  <2> QED BY <2>1 DEF IInv, Typed, ListTyped, Versioned, Scanning
<1>2. Typed'
  BY <1>1 DEF IInv, Typed
<1>3. Blank'
  BY DEF Blank
<1>4. SourcesSound'
  BY PartsSame DEF IInv, SourcesSound
<1>5. SucceededIsBuilt' /\ CurrentHoldsInstalled'
  BY DEF IInv, SucceededIsBuilt, CurrentHoldsInstalled
<1> QED BY <1>1, <1>2, <1>3, <1>4, <1>5 DEF IInv

(* A step that writes sources, and so raises their revision.               *)
LEMMA TouchStep ==
  ASSUME IInv, Touch, UNCHANGED <<pack, sameConfig, current, inits, req, catalog, parses>>,
         worker.task # "none", worker' \in JobType, worker'.task = worker.task, Fetched',
         run' \in [Members -> SUBSET (Labels \ {NoVersion})], content' \in [Members -> Labels],
         \/ row' = row
         \/ \E v \in Labels \ {NoVersion} : row' = [row EXCEPT ![worker.mod] = NewRow("installed", v, v)]
  PROVE  IInv'
<1>0. worker.mod \in Members
  BY DEF IInv, Typed, JobType
<1>1. ASSUME NEW v \in Labels \ {NoVersion}, row' = [row EXCEPT ![worker.mod] = NewRow("installed", v, v)]
      PROVE  row' \in [Members -> RowType] /\ \A m \in Mods \cup LocalMods : row'[m].status # "absent" => row'[m].version # NoVersion
  <2>1. /\ NewRow("installed", v, v) \in RowType /\ NewRow("installed", v, v).status = "installed"
        /\ NewRow("installed", v, v).version = v
    BY RowTyped DEF NewRow, Statuses
  <2> QED BY <1>0, <1>1, <2>1, RowVersioned DEF IInv, Typed, ListTyped
<1>2. ListTyped' /\ Versioned'
  BY <1>1 DEF IInv, Typed, ListTyped, Versioned, Scanning
<1>3. Typed'
  BY <1>2 DEF IInv, Typed, Touch
<1>4. Blank'
  BY DEF IInv, Blank
<1>5. SourcesSound' /\ SucceededIsBuilt'
  BY DEF Touch, SourcesSound, SucceededIsBuilt
<1>6. CurrentHoldsInstalled'
  <2>1. \A sources \in current : sources \subseteq Members
    BY DEF IInv, Typed
  <2>2. row \in [Members -> RowType]
    BY DEF IInv, Typed, ListTyped
  <2>3. \A m \in Members : row[m].status = "installed" => row'[m].status = "installed"
    <3>1. ASSUME NEW v, row' = [row EXCEPT ![worker.mod] = NewRow("installed", v, v)], NEW m \in Members,
                 row[m].status = "installed"
          PROVE  row'[m].status = "installed"
      <4>1. NewRow("installed", v, v).status = "installed"
        BY DEF NewRow
      <4>2. CASE m = worker.mod
        BY <2>2, <3>1, <4>1, <4>2
      <4>3. CASE m # worker.mod
        BY <2>2, <3>1, <4>3
      <4> QED BY <4>2, <4>3
    <3> QED BY <3>1
  <2> QED BY <2>1, <2>3 DEF IInv, CurrentHoldsInstalled
<1> QED BY <1>2, <1>3, <1>4, <1>5, <1>6 DEF IInv

(* Tasks begin and end.                                                    *)
LEMMA TasksKeep ==
  ASSUME IInv, (\E m \in Members : SubmitParseModContent(m)) \/ StartParse \/ StartRebuild \/ EndFailed \/ Crash
  PROVE  IInv'
<1>0. /\ inits \in Nat /\ inits <= MaxInits /\ worker \in JobType /\ worker.mod \in Members
      /\ parses \subseteq Members /\ MaxInits \in Nat
  <2>1. inits \in 0..MaxInits /\ worker \in JobType /\ parses \subseteq Members
    BY DEF IInv, Typed
  <2>2. worker.mod \in Members
    BY <2>1 DEF JobType
  <2> QED BY <2>1, <2>2
<1>r. ASSUME Requeue PROVE inits' \in 0..MaxInits /\ parses' \subseteq Members
  BY <1>0, <1>r DEF Requeue
<1>l. ASSUME Leave PROVE /\ worker' \in JobType /\ Fetched' /\ fresh' = fresh \ {"worker"}
                         /\ sameConfig' = sameConfig \ {"worker"}
  BY <1>l, NoJobTyped DEF Leave, Fetched
<1>s. "read" \in WorkSteps /\ Absent \in RowType /\ NoVersion \in Labels /\ Minecraft \in Members
  BY AbsentTyped, LabelsHold DEF WorkSteps, Members
<1>n. worker.task = "none" => "worker" \notin fresh
  BY DEF IInv, SourcesSound, Fetched
<1>1. ASSUME NEW m \in Members, SubmitParseModContent(m) PROVE IInv'
  <2>1. /\ UNCHANGED <<pack, row, fresh, sameConfig, current, build, inits, req, run, content, catalog, worker>>
        /\ parses' \subseteq Members /\ pack.status # "absent"
    BY <1>0, <1>1 DEF SubmitParseModContent, listVars, Exists
  <2>2. Fetched'
    BY <2>1 DEF IInv, Fetched
  <2> QED BY <1>0, <2>1, <2>2, QuietStep DEF IInv, SourcesSound
<1>2. CASE StartParse
  <2>1. PICK m \in parses : /\ parses' = parses \ {m}
                            /\ worker' = Job("parse", "read", m, Absent, NoVersion, {})
    BY <1>2 DEF StartParse
  <2>2. worker' \in JobType /\ worker'.step = "read" /\ worker'.task = "parse"
    BY <1>0, <1>s, <2>1, JobTyped
  <2>3. Fetched'
    BY <2>2 DEF Fetched
  <2>4. /\ UNCHANGED <<pack, row, fresh, sameConfig, current, build, inits, req, run, content, catalog>>
        /\ worker.task = "none"
    BY <1>2 DEF StartParse, listVars
  <2>5. pack.status # "absent"
    BY <2>1, WorkHasPack
  <2> QED BY <1>0, <1>n, <2>1, <2>2, <2>3, <2>4, <2>5, QuietStep
<1>3. CASE StartRebuild
  <2>1. worker' \in JobType /\ worker'.step = "read" /\ worker'.task = "rebuild"
    BY <1>3, <1>s, JobTyped DEF StartRebuild
  <2>2. Fetched'
    BY <2>1 DEF Fetched
  <2>3. /\ UNCHANGED <<pack, row, fresh, sameConfig, current, parses, req, run, content, catalog>>
        /\ worker.task = "none" /\ build' = "running" /\ inits > 0 /\ inits' = inits - 1
    BY <1>3 DEF StartRebuild
  <2>4. pack.status # "absent" /\ inits' \in 0..MaxInits
    BY <1>0, <2>3, WorkHasPack
  <2> QED BY <1>0, <1>n, <2>1, <2>2, <2>3, <2>4, QuietStep
<1>4. CASE EndFailed
  <2>1. /\ UNCHANGED <<pack, row, current, req, run, content, catalog>>
        /\ Leave /\ Requeue /\ build' \in {build, "failed"} /\ worker.step = "failed"
    BY <1>4 DEF EndFailed, At
  <2>2. pack.status # "absent"
    BY <2>1, WorkHasPack
  <2> QED BY <1>l, <1>r, <2>1, <2>2, QuietStep
<1>5. CASE Crash
  <2>1. /\ UNCHANGED <<pack, row, current, build, run, content, catalog>>
        /\ Leave /\ Requeue /\ req' = [q \in Requests |-> Done("idle")] /\ worker.task # "none"
    BY <1>5 DEF Crash
  <2>2. pack.status # "absent"
    BY <2>1, WorkHasPack
  <2> QED BY <1>l, <1>r, <2>1, <2>2, QuietStep
<1> QED BY <1>1, <1>2, <1>3, <1>4, <1>5

(* parseAndPersistModContent.                                              *)
LEMMA ParsesKeep ==
  ASSUME IInv, \/ ReadRow \/ FetchArchive \/ FetchFails \/ WrongIdentity \/ SaveSelection
               \/ BeginRun \/ ReplaceContent \/ PersistFails \/ EndParse
  PROVE  IInv'
<1>0. /\ inits \in 0..MaxInits /\ worker \in JobType /\ worker.mod \in Members
      /\ worker.task \in {"none", "parse", "rebuild"} /\ worker.copy \in RowType /\ worker.version \in Labels
      /\ parses \subseteq Members /\ row \in [Members -> RowType]
      /\ run \in [Members -> SUBSET (Labels \ {NoVersion})] /\ content \in [Members -> Labels]
      /\ NoVersion \in Labels
  BY LabelsHold DEF IInv, Typed, ListTyped, JobType
<1>t. worker.step # "idle" => worker.task # "none" /\ pack.status # "absent" /\ pack.mc \in GameVersions
  BY WorkHasPack DEF IInv, Fetched, Blank
<1>n. worker.step \notin {"config", "swap"} => "worker" \notin fresh
  BY DEF IInv, SourcesSound
<1>s. WorkSteps = {"idle", "read", "fetch", "save", "recheck", "replace", "parsed", "failed",
                   "config", "swap", "publish"}
  BY DEF WorkSteps
<1>p. ASSUME NEW step \in {"parsed", "failed"}, Pass(step, NoVersion), worker.task # "none"
      PROVE  worker' \in JobType /\ worker'.task = worker.task /\ Fetched'
  <2>1. /\ worker' \in JobType /\ worker'.task = worker.task /\ worker'.step = step
    BY <1>0, <1>p, <1>s, PassTyped
  <2> QED BY <1>p, <2>1 DEF Fetched
<1>q. ASSUME UNCHANGED listVars, UNCHANGED <<run, content, catalog, parses>>, worker' \in JobType, Fetched',
             worker.step \notin {"idle", "config", "swap"}
      PROVE  IInv'
  <2>1. UNCHANGED <<pack, row, fresh, sameConfig, current, build, inits, req>>
    BY <1>q DEF listVars
  <2> QED BY <1>0, <1>n, <1>q, <1>t, <2>1, QuietStep
<1>f. ASSUME NEW v, RecordFailure(v), Fail, worker.step \notin {"idle", "config", "swap"} PROVE IInv'
  <2>1. /\ worker' \in JobType /\ worker'.task = worker.task /\ Fetched'
    BY <1>f, <1>p, <1>t DEF Fail
  <2>2. /\ Touch /\ UNCHANGED <<pack, row, content, sameConfig, current, inits, req, catalog, parses>>
        /\ run' \in [Members -> SUBSET (Labels \ {NoVersion})]
    BY <1>0, <1>f DEF RecordFailure, Fail
  <2> QED BY <1>0, <1>f, <1>t, <2>1, <2>2, TouchStep
<1>1. CASE ReadRow
  <2>1. /\ UNCHANGED listVars /\ UNCHANGED <<run, content, catalog, parses>> /\ worker.step = "read"
    BY <1>1 DEF ReadRow, At
  <2>2. CASE Pass("failed", NoVersion) \/ Pass("parsed", NoVersion)
    BY <1>p, <1>q, <1>t, <2>1, <2>2
  <2>3. CASE /\ Parseable(worker.mod, row[worker.mod])
             /\ worker' = [worker EXCEPT !.step = "fetch", !.copy = row[worker.mod]]
    <3>1. worker' \in JobType /\ worker'.step = "fetch" /\ worker'.mod = worker.mod /\ worker'.task = worker.task
          /\ worker'.copy = row[worker.mod]
      BY <1>0, <1>s, <2>3 DEF JobType
    <3>2. worker.mod # Minecraft => row[worker.mod].version # NoVersion
      BY <1>0, <2>3 DEF Parseable, IInv, Versioned, Members
    <3>3. Fetched'
      BY <1>t, <2>1, <3>1, <3>2 DEF Fetched
    <3> QED BY <1>q, <2>1, <3>1, <3>3
  <2> QED BY <1>1, <2>2, <2>3 DEF ReadRow
<1>2. CASE FetchArchive
  <2> DEFINE v == IF worker.mod = Minecraft THEN pack.mc ELSE worker.copy.version
  <2>1. /\ UNCHANGED listVars /\ UNCHANGED <<run, content, catalog, parses>> /\ worker.step = "fetch"
        /\ worker' = [worker EXCEPT !.step = "save", !.version = v]
    BY <1>2 DEF FetchArchive, At
  <2>2. v \in Labels /\ v # NoVersion
    <3>1. pack.mc \in Labels /\ pack.mc # NoVersion
      BY <1>t, <2>1, LabelsHold
    <3>2. worker.copy.version \in Labels /\ (worker.mod # Minecraft => worker.copy.version # NoVersion)
      BY <1>0, <2>1 DEF IInv, Fetched, RowType
    <3> QED BY <3>1, <3>2
  <2>3. worker' \in JobType /\ worker'.step = "save" /\ worker'.version = v /\ worker'.task = worker.task
    BY <1>0, <1>s, <2>1, <2>2 DEF JobType
  <2>4. Fetched'
    BY <1>t, <2>1, <2>2, <2>3 DEF Fetched
  <2> QED BY <1>q, <2>1, <2>3, <2>4
<1>3. CASE FetchFails
  BY <1>3, <1>f DEF FetchFails, At
<1>4. CASE WrongIdentity
  <2>1. /\ UNCHANGED listVars /\ UNCHANGED <<run, content, catalog, parses>> /\ worker.step = "fetch"
        /\ Pass("failed", NoVersion)
    BY <1>4 DEF WrongIdentity, Fail, At, listVars
  <2> QED BY <1>p, <1>q, <1>t, <2>1
<1>5. CASE SaveSelection
  <2>1. /\ UNCHANGED <<pack, sameConfig, current, inits, req, run, content, catalog, parses>>
        /\ worker.step = "save" /\ worker.version # NoVersion
    BY <1>5 DEF SaveSelection, At, IInv, Fetched
  <2>2. CASE Present(worker.mod)
    <3>1. /\ row' = [row EXCEPT ![worker.mod] = NewRow("installed", worker.version, worker.version)]
          /\ Touch /\ Pass("recheck", worker.version)
      BY <1>5, <2>2 DEF SaveSelection
    <3>2. /\ worker' \in JobType /\ worker'.task = worker.task /\ worker'.step = "recheck"
          /\ worker'.version = worker.version
      BY <1>0, <1>s, <3>1, PassTyped
    <3>3. Fetched'
      BY <1>t, <2>1, <3>2 DEF Fetched
    <3> QED BY <1>0, <1>t, <2>1, <3>1, <3>2, <3>3, TouchStep
  <2>3. CASE ~Present(worker.mod)
    <3>1. UNCHANGED listVars /\ Pass("failed", NoVersion)
      BY <1>5, <2>3 DEF SaveSelection, listVars
    <3> QED BY <1>p, <1>q, <1>t, <2>1, <3>1
  <2> QED BY <2>2, <2>3
<1>6. CASE BeginRun
  <2>1. /\ UNCHANGED <<pack, row, sameConfig, current, inits, req, run, content, catalog, parses>>
        /\ worker.step = "recheck" /\ worker.version # NoVersion
    BY <1>6 DEF BeginRun, At, IInv, Fetched
  <2>2. CASE worker.version \in run[worker.mod]
    <3>1. UNCHANGED listVars /\ Pass("parsed", NoVersion)
      BY <1>6, <2>1, <2>2 DEF BeginRun, listVars
    <3> QED BY <1>p, <1>q, <1>t, <2>1, <3>1
  <2>3. CASE worker.version \notin run[worker.mod]
    <3>1. Touch /\ worker' = [worker EXCEPT !.step = "replace"]
      BY <1>6, <2>3 DEF BeginRun, GoTo
    <3>2. /\ worker' \in JobType /\ worker'.task = worker.task /\ worker'.step = "replace"
          /\ worker'.version = worker.version
      BY <1>0, <1>s, <3>1 DEF JobType
    <3>3. Fetched'
      BY <1>t, <2>1, <3>2 DEF Fetched
    <3> QED BY <1>0, <1>t, <2>1, <3>1, <3>2, <3>3, TouchStep
  <2> QED BY <2>2, <2>3
<1>7. CASE ReplaceContent
  <2>1. /\ Touch /\ Pass("parsed", NoVersion) /\ worker.step = "replace" /\ worker.version # NoVersion
        /\ UNCHANGED <<pack, row, sameConfig, current, inits, req, catalog, parses>>
    BY <1>7 DEF ReplaceContent, At, IInv, Fetched
  <2>2. run' \in [Members -> SUBSET (Labels \ {NoVersion})] /\ content' \in [Members -> Labels]
    BY <1>0, <1>7, <2>1 DEF ReplaceContent
  <2> QED BY <1>0, <1>p, <1>t, <2>1, <2>2, TouchStep
<1>8. CASE PersistFails
  BY <1>8, <1>f DEF PersistFails, At
<1>9. CASE EndParse
  <2>1. /\ UNCHANGED <<pack, row, fresh, sameConfig, current, build, req, run, content, catalog, parses>>
        /\ worker.step = "parsed"
        /\ \/ inits < MaxInits /\ inits' = inits + 1 /\ worker' = NoJob
           \/ UNCHANGED inits /\ Pass("failed", NoVersion)
    BY <1>9 DEF EndParse, At
  <2>2. worker' \in JobType /\ Fetched' /\ inits' \in 0..MaxInits
    <3>1. CASE worker' = NoJob /\ inits < MaxInits /\ inits' = inits + 1
      <4>1. worker' \in JobType /\ Fetched'
        BY <3>1, NoJobTyped DEF Fetched
      <4>2. MaxInits \in Nat /\ inits \in Nat
        BY <1>0
      <4> QED BY <3>1, <4>1, <4>2
    <3>2. CASE UNCHANGED inits /\ Pass("failed", NoVersion)
      BY <1>0, <1>p, <1>t, <2>1, <3>2
    <3> QED BY <2>1, <3>1, <3>2
  <2> QED BY <1>0, <1>n, <1>t, <2>1, <2>2, QuietStep
<1> QED BY <1>1, <1>2, <1>3, <1>4, <1>5, <1>6, <1>7, <1>8, <1>9

(* RebuildItemCatalog.                                                     *)
LEMMA RebuildsKeep ==
  ASSUME IInv, CatalogSourceSnapshot \/ GetPackConfigRevision \/ ReplaceCatalog \/ PublishCatalogGeneration
  PROVE  IInv'
<1>0. /\ inits \in 0..MaxInits /\ worker \in JobType /\ parses \subseteq Members
      /\ row \in [Members -> RowType] /\ NoVersion \in Labels
  BY LabelsHold DEF IInv, Typed, ListTyped
<1>t. worker.step # "idle" => worker.task # "none" /\ pack.status # "absent"
  BY WorkHasPack DEF IInv, Fetched
<1>s. WorkSteps = {"idle", "read", "fetch", "save", "recheck", "replace", "parsed", "failed",
                   "config", "swap", "publish"}
  BY DEF WorkSteps
<1>p. ASSUME NEW step \in {"failed", "publish"}, Pass(step, NoVersion), worker.task # "none"
      PROVE  worker' \in JobType /\ worker'.task = worker.task /\ Fetched'
  <2>1. /\ worker' \in JobType /\ worker'.task = worker.task /\ worker'.step = step
    BY <1>0, <1>p, <1>s, PassTyped
  <2> QED BY <1>p, <2>1 DEF Fetched
<1>1. CASE CatalogSourceSnapshot
  <2>1. /\ UNCHANGED <<pack, row, sameConfig, current, build, inits, req, run, content, catalog, parses>>
        /\ worker.step = "parsed" /\ fresh' = fresh \cup {"worker"}
        /\ worker' = [worker EXCEPT !.step = "config", !.parts = Parts]
    BY <1>1 DEF CatalogSourceSnapshot, At
  <2>2. Parts \in SUBSET (Members \X Labels)
    BY PartsTyped DEF IInv
  <2>3. /\ worker' \in JobType /\ worker'.task = worker.task /\ worker'.step = "config"
        /\ worker'.parts = Parts
    BY <1>0, <1>s, <2>1, <2>2 DEF JobType
  <2>4. Fetched' /\ Blank'
    BY <1>t, <2>1, <2>3 DEF Fetched, Blank
  <2>5. ListTyped' /\ Versioned'
    BY <2>1 DEF IInv, Typed, ListTyped, Versioned, Scanning
  <2>6. Typed'
    BY <2>1, <2>3, <2>5 DEF IInv, Typed
  <2>7. SourcesSound' /\ SucceededIsBuilt' /\ CurrentHoldsInstalled'
    BY <2>1, <2>3, PartsSame DEF IInv, SourcesSound, SucceededIsBuilt, CurrentHoldsInstalled
  <2> QED BY <2>4, <2>5, <2>6, <2>7 DEF IInv
<1>2. CASE GetPackConfigRevision
  <2>1. /\ UNCHANGED <<pack, row, fresh, current, build, inits, req, run, content, catalog, parses>>
        /\ worker.step = "config" /\ sameConfig' = sameConfig \cup {"worker"}
        /\ worker' = [worker EXCEPT !.step = "swap"]
    BY <1>2 DEF GetPackConfigRevision, GoTo, At
  <2>2. /\ worker' \in JobType /\ worker'.task = worker.task /\ worker'.step = "swap"
        /\ worker'.parts = worker.parts
    BY <1>0, <1>s, <2>1 DEF JobType
  <2>3. Fetched'
    BY <1>t, <2>1, <2>2 DEF Fetched
  <2> QED BY <1>0, <1>t, <2>1, <2>2, <2>3, QuietStep
<1>3. CASE ReplaceCatalog
  <2>1. /\ UNCHANGED <<pack, row, sameConfig, current, inits, req, run, content, parses>>
        /\ worker.step = "swap"
    BY <1>3 DEF ReplaceCatalog, At
  <2>2. CASE "worker" \in fresh
    <3>1. catalog' = worker.parts /\ fresh' = {"built"} /\ build' = "succeeded" /\ Pass("publish", NoVersion)
      BY <1>3, <2>2 DEF ReplaceCatalog
    <3>2. worker' \in JobType /\ worker'.task = worker.task /\ Fetched'
      BY <1>p, <1>t, <2>1, <3>1
    <3>3. ListTyped' /\ Versioned'
      BY <2>1 DEF IInv, Typed, ListTyped, Versioned, Scanning
    <3>4. catalog' = Parts /\ catalog' \subseteq Members \X Labels
      BY <2>2, <3>1, PartsTyped DEF IInv, SourcesSound
    <3>5. Typed'
      BY <2>1, <3>1, <3>2, <3>3, <3>4 DEF IInv, Typed
    <3>6. Blank'
      BY <1>t, <2>1 DEF Blank
    <3>7. SourcesSound' /\ SucceededIsBuilt' /\ CurrentHoldsInstalled'
      BY <2>1, <3>1, <3>4, PartsSame DEF IInv, SourcesSound, SucceededIsBuilt, CurrentHoldsInstalled
    <3> QED BY <3>2, <3>3, <3>5, <3>6, <3>7 DEF IInv
  <2>3. CASE "worker" \notin fresh
    <3>1. UNCHANGED <<catalog, fresh, build>> /\ Pass("failed", NoVersion)
      BY <1>3, <2>3 DEF ReplaceCatalog
    <3> QED BY <1>0, <1>p, <1>t, <2>1, <2>3, <3>1, QuietStep
  <2> QED BY <2>2, <2>3
<1>4. CASE PublishCatalogGeneration
  <2> DEFINE sources == {m \in Members : row[m].status = "installed" /\ row[m].selection # NoVersion}
  <2>1. /\ UNCHANGED <<pack, row, fresh, build, inits, req, run, content, catalog, parses>>
        /\ worker.step = "publish" /\ "worker" \notin fresh
    BY <1>4 DEF PublishCatalogGeneration, At, IInv, SourcesSound
  <2>2. CASE "worker" \in sameConfig
    <3>1. current' = {sources} /\ sameConfig' = {"current"} /\ worker' = NoJob
      BY <1>4, <2>2 DEF PublishCatalogGeneration
    <3>2. worker' \in JobType /\ Fetched'
      BY <3>1, NoJobTyped DEF Fetched
    <3>3. ListTyped' /\ Versioned'
      BY <2>1 DEF IInv, Typed, ListTyped, Versioned, Scanning
    <3>4. sources \in SUBSET Members
      OBVIOUS
    <3>5. Typed'
      BY <2>1, <3>1, <3>2, <3>3, <3>4 DEF IInv, Typed
    <3>6. Blank'
      BY <1>t, <2>1 DEF Blank
    <3>7. SourcesSound' /\ SucceededIsBuilt'
      BY <2>1, PartsSame DEF IInv, SourcesSound, SucceededIsBuilt
    <3>8. CurrentHoldsInstalled'
      BY <2>1, <3>1 DEF CurrentHoldsInstalled
    <3> QED BY <3>2, <3>3, <3>5, <3>6, <3>7, <3>8 DEF IInv
  <2>3. CASE "worker" \notin sameConfig
    <3>1. UNCHANGED <<current, sameConfig>> /\ Pass("failed", NoVersion)
      BY <1>4, <2>3 DEF PublishCatalogGeneration
    <3> QED BY <1>0, <1>p, <1>t, <2>1, <3>1, QuietStep
  <2> QED BY <2>2, <2>3
<1> QED BY <1>1, <1>2, <1>3, <1>4

-----------------------------------------------------------------------------
LEMMA InitEstablishes == Init => IInv
<1> SUFFICES ASSUME Init PROVE IInv
  OBVIOUS
<1>0. Done("idle") \in Steps /\ Done("idle").op = "idle" /\ Scanning(Done("idle")) /\ "idle" \in ListOps
  BY DoneTyped DEF ListOps, Answers
<1>1. /\ pack = [status |-> "absent", mc |-> NoVersion] /\ row = [m \in Members |-> Absent]
      /\ fresh = {} /\ sameConfig = {} /\ current = {} /\ build = "pending" /\ inits = 0
      /\ req = [q \in Requests |-> Done("idle")] /\ run = [m \in Members |-> {}]
      /\ content = [m \in Members |-> NoVersion] /\ catalog = {} /\ parses = {} /\ worker = NoJob
  BY DEF Init, ListInit
<1>2. ListTyped
  <2>1. pack \in PackType
    BY <1>1 DEF PackType
  <2> QED BY <1>0, <1>1, <2>1, AbsentTyped DEF ListTyped
<1>3. Typed
  <2>1. /\ inits \in 0..MaxInits /\ worker \in JobType
        /\ \A q \in Requests : req[q].op \in ListOps
    BY <1>0, <1>1, NoJobTyped
  <2>2. /\ run \in [Members -> SUBSET (Labels \ {NoVersion})]
        /\ content \in [Members -> Labels]
    BY <1>1, LabelsHold
  <2> QED BY <1>1, <1>2, <2>1, <2>2 DEF Typed
<1>4. Versioned
  BY <1>0, <1>1, AbsentTyped DEF Versioned, Members
<1>5. Blank /\ Fetched
  BY <1>0, <1>1, NoJobTyped DEF Blank, Fetched
<1>6. SourcesSound /\ SucceededIsBuilt /\ CurrentHoldsInstalled
  BY <1>1 DEF SourcesSound, SucceededIsBuilt, CurrentHoldsInstalled
<1> QED BY <1>3, <1>4, <1>5, <1>6 DEF IInv

LEMMA NextKeeps == IInv /\ [Next]_vars => IInv'
<1> SUFFICES ASSUME IInv, [Next]_vars PROVE IInv'
  OBVIOUS
<1>1. CASE UNCHANGED vars
  <2>1. UNCHANGED <<pack, row, fresh, sameConfig, current, build, inits, req,
                    run, content, catalog, parses, worker>>
    BY <1>1 DEF vars
  <2>2. Typed' /\ Versioned' /\ Blank' /\ Fetched'
    BY <2>1 DEF IInv, Typed, ListTyped, Scanning, Versioned, Blank, Fetched
  <2>3. SourcesSound' /\ SucceededIsBuilt' /\ CurrentHoldsInstalled'
    BY <2>1, PartsSame DEF IInv, SourcesSound, SucceededIsBuilt, CurrentHoldsInstalled
  <2> QED BY <2>2, <2>3 DEF IInv
<1> QED BY <1>1, RequestsKeep, TasksKeep, ParsesKeep, RebuildsKeep DEF Next

(* The inductive invariant holds in every state.                           *)
THEOREM Invariance == Spec => []IInv
BY InitEstablishes, NextKeeps, PTL DEF Spec

(* Every variable of the catalog keeps its type.                           *)
THEOREM Typing == Spec => []TypeOK
<1>1. IInv => TypeOK
  <2> SUFFICES ASSUME IInv PROVE TypeOK
    OBVIOUS
  <2>1. Cardinality(current) <= 1 /\ current \subseteq SUBSET Members
    <3>1. Cardinality({}) = 0
      BY FS_EmptySet
    <3>2. ASSUME NEW sources PROVE Cardinality({sources}) = 1
      BY FS_Singleton
    <3>3. CASE current = {}
      BY <3>1, <3>3
    <3>4. ASSUME NEW sources \in SUBSET Members, current = {sources}
          PROVE  Cardinality(current) <= 1 /\ current \subseteq SUBSET Members
      <4>1. Cardinality(current) = 1
        BY <3>2, <3>4
      <4>2. current \subseteq SUBSET Members
        BY <3>4
      <4> QED BY <4>1, <4>2
    <3> QED BY <3>3, <3>4 DEF IInv, Typed
  <2>2. ListTypeOK
    BY <2>1 DEF ListTypeOK, IInv, Typed, ListTyped, PackType, RowType, ListOps
  <2> QED BY <2>2 DEF TypeOK, IInv, Typed
<1> QED BY <1>1, Invariance, PTL

(* A catalog that is served (ReadCatalog, catalog_repo.go) is the one a    *)
(* rebuild would make of the list and the content there are now.           *)
THEOREM CatalogIsCurrent == Spec => []ReadableIsCurrent
<1>1. IInv => ReadableIsCurrent
  BY DEF IInv, SourcesSound, ReadableIsCurrent, Readable
<1> QED BY <1>1, Invariance, PTL

(* The generation a pack points to was published under its configuration,  *)
(* and every member it was made from is still installed.                   *)
THEOREM GenerationHolds == Spec => []CurrentHoldsInstalled
<1>1. IInv => CurrentHoldsInstalled
  BY DEF IInv
<1> QED BY <1>1, Invariance, PTL

(* build_status says succeeded only of a catalog of the present sources.   *)
THEOREM SuccessIsBuilt == Spec => []SucceededIsBuilt
<1>1. IInv => SucceededIsBuilt
  BY DEF IInv
<1> QED BY <1>1, Invariance, PTL

(* A mod that was removed comes back only by being added, whatever late    *)
(* write a request or a parse task makes of the row it read before.        *)
THEOREM RemovedStays == Spec => RemovedComesBackByAdd
<1> DEFINE Back == \A m \in Mods \cup LocalMods :
                     row[m].status = "removed" /\ row'[m].status # "removed"
                       => current' = {} /\ \E q \in Requests : req[q].op \in Answers \cup {"fix"}
<1>1. IInv /\ [Next]_vars => [Back]_listVars
  <2> SUFFICES ASSUME IInv, Next, row' # row PROVE Back
    BY DEF listVars, vars
  <2>1. CASE PackRequests \/ ModRequests
    <3>1. ListMove
      BY <2>1, PackMoves, ModMoves DEF IInv, Typed
    <3> QED BY <3>1 DEF ListMove, ComeBack
  <2>2. CASE SaveSelection
    BY <2>2 DEF SaveSelection, Present, IInv, Typed, ListTyped, Members
  <2>3. Next => PackRequests \/ ModRequests \/ SaveSelection \/ UNCHANGED row
    BY DEF Next, SubmitParseModContent, StartParse, StartRebuild, EndFailed, Crash, ReadRow, FetchArchive,
           FetchFails, WrongIdentity, BeginRun, ReplaceContent, PersistFails, EndParse, RecordFailure,
           CatalogSourceSnapshot, GetPackConfigRevision, ReplaceCatalog, PublishCatalogGeneration, listVars
  <2> QED BY <2>1, <2>2, <2>3
<1> QED BY <1>1, Invariance, PTL DEF Spec, RemovedComesBackByAdd

-----------------------------------------------------------------------------
(* Tags: the invariant of the visits, its lemmas, and what it says of the   *)
(* finished table.                                                         *)

(* Of some numbers one is the least.                                       *)
LEMMA LeastNumber ==
  ASSUME NEW B, B \subseteq Nat, B # {}
  PROVE  \E n \in B : \A m \in B : n <= m
<1>1. PICK n \in B : \A m \in B : <<m, n>> \notin OpToRel(<, Nat)
  BY NatLessThanWellFounded, WFMin, Zenon
<1>2. ASSUME NEW m \in B PROVE n <= m
  <2>1. <<m, n>> \notin {ss \in Nat \X Nat : ss[1] < ss[2]}
    BY <1>1 DEF OpToRel
  <2> QED BY <2>1
<1> QED BY <1>2

(* The entries of the definitions that count.                              *)
EntriesIn(ds) == UNION {ToSet(Read(ds[n])) : n \in {m \in DOMAIN ds : ds[m].form = "plain"}}

LEMMA ReadTyped ==
  ASSUME NEW d \in DefinitionType
  PROVE  /\ Read(d) \in Seq(ToSet(Read(d)))
         /\ ToSet(Read(d)) \subseteq EdgeType
         /\ \A e \in ToSet(Read(d)) : ~e.remove => \E j \in DOMAIN d.values : e.target = d.values[j].target
<1> DEFINE size == Len(d.values) + Len(d.removals)
<1>1. d.values \in Seq(Entries) /\ d.removals \in Seq(Entries) /\ size \in Nat
  BY DEF DefinitionType
<1>2. /\ DOMAIN Read(d) = 1..size
      /\ \A i \in 1..size : Read(d)[i] = IF i <= Len(d.values) THEN Edge(d.values[i], FALSE)
                                         ELSE Edge(d.removals[i - Len(d.values)], TRUE)
  BY DEF Read
<1>3. Read(d) \in [1..size -> ToSet(Read(d))]
  BY DEF Read, ToSet
<1>4. Read(d) \in Seq(ToSet(Read(d)))
  <2> HIDE DEF size
  <2> QED BY <1>1, <1>3
<1>5. ASSUME NEW i \in 1..size
      PROVE  /\ Read(d)[i] \in EdgeType
             /\ ~Read(d)[i].remove => \E j \in DOMAIN d.values : Read(d)[i].target = d.values[j].target
  <2>1. CASE i <= Len(d.values)
    <3>1. i \in DOMAIN d.values /\ d.values[i] \in Entries
      BY <1>1, <2>1
    <3>2. Read(d)[i] = Edge(d.values[i], FALSE)
      BY <1>2, <2>1
    <3> QED BY <3>1, <3>2 DEF Edge, EdgeType, Entries
  <2>2. CASE ~(i <= Len(d.values))
    <3>1. d.removals[i - Len(d.values)] \in Entries
      <4>1. Len(d.values) \in Nat /\ Len(d.removals) \in Nat
        BY <1>1
      <4>2. i - Len(d.values) \in 1..Len(d.removals)
        <5> DEFINE m == Len(d.values)
                   n == Len(d.removals)
        <5>1. i \in 1..(m + n) /\ ~(i <= m) /\ m \in Nat /\ n \in Nat
          BY <2>2, <4>1
        <5> HIDE DEF m, n
        <5>2. i - m \in 1..n
          BY <5>1
        <5> QED BY <5>2 DEF m, n
      <4> QED BY <1>1, <4>2
    <3>2. Read(d)[i] = Edge(d.removals[i - Len(d.values)], TRUE)
      BY <1>2, <2>2
    <3> QED BY <3>1, <3>2 DEF Edge, EdgeType, Entries
  <2> QED BY <2>1, <2>2
<1> QED BY <1>2, <1>4, <1>5 DEF ToSet

(* The edges of a tag are such entries: the recursion over its definitions *)
(* has a solution, built one definition at a time.                         *)
LEMMA EdgesSound ==
  ASSUME NEW ds \in Seq(DefinitionType)
  PROVE  Edges(ds) \in Seq(EntriesIn(ds))
<1> DEFINE S == EntriesIn(ds)
           size == Len(ds)
           Value(f, n) == IF n = 0 THEN <<>>
                          ELSE IF ds[n].form # "plain" THEN f[n - 1]
                          ELSE IF ds[n].replace THEN Read(ds[n])
                          ELSE f[n - 1] \o Read(ds[n])
           Solutions(k) == {f \in [0..k -> Seq(S)] : \A n \in 0..k : f[n] = Value(f, n)}
           found == CHOOSE f : f = [n \in 0..size |-> Value(f, n)]
<1>1. size \in Nat /\ DOMAIN ds = 1..size
  OBVIOUS
<1>2. ASSUME NEW n \in 1..size, ds[n].form = "plain" PROVE Read(ds[n]) \in Seq(S)
  <2>1. Read(ds[n]) \in Seq(ToSet(Read(ds[n])))
    BY ReadTyped
  <2>2. ToSet(Read(ds[n])) \subseteq S
    BY <1>1, <1>2 DEF EntriesIn
  <2> QED BY <2>1, <2>2, SeqMonotonic
<1> HIDE DEF S, size
<1>3. \A k \in 0..size : Solutions(k) # {}
  <2> DEFINE Unsolved == {k \in 0..size : Solutions(k) = {}}
  <2> SUFFICES ASSUME Unsolved # {} PROVE FALSE
    OBVIOUS
  <2>1. PICK k \in Unsolved : \A m \in Unsolved : k <= m
    <3>1. Unsolved \subseteq Nat
      BY <1>1
    <3> HIDE DEF Unsolved
    <3> QED BY <3>1, LeastNumber
  <2>2. CASE k = 0
    <3>1. [n \in 0..k |-> <<>>] \in Solutions(k)
      BY <2>2
    <3> QED BY <3>1
  <2>3. CASE k # 0
    <3>1. k \in 1..size /\ k - 1 \in 0..size /\ k - 1 \notin Unsolved
      <4>1. k \in 0..size
        OBVIOUS
      <4> HIDE DEF Unsolved
      <4> QED BY <1>1, <2>1, <2>3, <4>1
    <3>2. PICK f : f \in Solutions(k - 1)
      BY <3>1
    <3>3. f[k - 1] \in Seq(S) /\ Value(f, k) \in Seq(S)
      <4>1. f[k - 1] \in Seq(S)
        BY <3>1, <3>2
      <4>2. ds[k].form = "plain" => Read(ds[k]) \in Seq(S) /\ f[k - 1] \o Read(ds[k]) \in Seq(S)
        BY <1>2, <3>1, <4>1, ConcatProperties
      <4> QED BY <2>3, <4>1, <4>2
    <3> DEFINE g == [n \in 0..k |-> IF n = k THEN Value(f, k) ELSE f[n]]
    <3>4. ASSUME NEW n \in 0..k PROVE g[n] \in Seq(S) /\ g[n] = Value(g, n)
      <4>1. CASE n = k
        <5>1. g[n - 1] = f[n - 1]
          BY <1>1, <3>1, <4>1
        <5>2. g[n] = Value(f, n)
          BY <4>1
        <5> HIDE DEF g
        <5> QED BY <3>3, <4>1, <5>1, <5>2
      <4>2. CASE n # k
        <5>1. n \in 0..(k - 1) /\ g[n] = f[n] /\ (n # 0 => g[n - 1] = f[n - 1])
          BY <1>1, <3>1, <4>2
        <5>2. f[n] \in Seq(S) /\ f[n] = Value(f, n)
          BY <3>2, <5>1
        <5> HIDE DEF g
        <5> QED BY <5>1, <5>2
      <4> QED BY <4>1, <4>2
    <3>5. g \in Solutions(k)
      <4>1. g \in [0..k -> Seq(S)]
        BY <3>4
      <4> HIDE DEF g, Value
      <4> QED BY <3>4, <4>1
    <3> QED BY <3>5
  <2> QED BY <2>2, <2>3
<1>4. PICK f : f \in Solutions(size)
  <2>1. size \in 0..size
    BY <1>1
  <2> HIDE DEF Solutions
  <2> QED BY <1>3, <2>1
<1>5. f = [n \in 0..size |-> Value(f, n)]
  <2> HIDE DEF Value
  <2> QED BY <1>4
<1>6. found = [n \in 0..size |-> Value(found, n)]
  <2> HIDE DEF Value
  <2> QED BY <1>5
<1>7. \A n \in 0..size : found[n] = f[n]
  <2> DEFINE Wrong == {n \in 0..size : found[n] # f[n]}
  <2> HIDE DEF found
  <2> SUFFICES ASSUME Wrong # {} PROVE FALSE
    OBVIOUS
  <2>1. PICK n \in Wrong : \A m \in Wrong : n <= m
    <3>1. Wrong \subseteq Nat
      BY <1>1
    <3> HIDE DEF Wrong
    <3> QED BY <3>1, LeastNumber
  <2>2. found[n] = Value(found, n) /\ f[n] = Value(f, n)
    <3> HIDE DEF Value
    <3> QED BY <1>5, <1>6
  <2>3. n # 0 => found[n - 1] = f[n - 1]
    BY <1>1, <2>1
  <2> QED BY <2>1, <2>2, <2>3
<1>8. Edges(ds) = found[size]
  BY DEF Edges, size
<1>9. f[size] \in Seq(S) /\ found[size] = f[size]
  <2>1. size \in 0..size
    BY <1>1
  <2>2. f \in [0..size -> Seq(S)]
    BY <1>4
  <2> HIDE DEF found
  <2> QED BY <1>7, <2>1, <2>2
<1> QED BY <1>8, <1>9 DEF S

(* An edge of t has been followed.                                         *)
Followed(t, k) ==
  /\ k \in DOMAIN edges[t]
  /\ mark[t] = "done" \/ \E i \in DOMAIN stack : stack[i].tag = t /\ k < stack[i].next

(* The visits under way are of different tags, each below all before it.   *)
Visits ==
  /\ \A i \in DOMAIN stack : mark[stack[i].tag] = "open" /\ stack[i].next <= Len(edges[stack[i].tag]) + 1
  /\ \A i, j \in DOMAIN stack : i < j => stack[i].tag # stack[j].tag /\ stack[j].tag \in Below(stack[i].tag)
  /\ \A t \in Tags : mark[t] = "open" => \E i \in DOMAIN stack : stack[i].tag = t
  /\ \A t \in Tags : t < todo => mark[t] # "new"
  /\ Reading => stack = <<>> /\ mark = [t \in Tags |-> "new"]

(* What a plain definition adds exists.                                    *)
AddedKnown ==
  /\ \A t \in Tags : \A n \in DOMAIN defs[t] :
       defs[t][n].form = "plain" =>
         \A j \in DOMAIN defs[t][n].values : defs[t][n].values[j].target \in Items => defs[t][n].values[j].target \in Known
  /\ \A t \in Tags : \A k \in DOMAIN edges[t] :
       edges[t][k].target \in Items /\ ~edges[t][k].remove => edges[t][k].target \in Known

(* What was followed led to a finished tag, or to an invalid one on a cycle, *)
(* and its status shows.                                                    *)
Told ==
  /\ ~Reading => \A t \in Tags : OwnInvalid(t) => status[t] = "invalid"
  /\ ~tooDeep => \A t \in Tags : \A k \in DOMAIN edges[t] :
       Followed(t, k) /\ edges[t][k].target \in Tags =>
         LET u == edges[t][k].target
         IN /\ mark[u] # "new" /\ (mark[u] = "open" => status[u] = "invalid" /\ t \in Endless)
            /\ edges[t][k].required =>
                 /\ status[u] = "invalid" => status[t] = "invalid"
                 /\ status[u] # "resolved" => status[t] # "resolved"

(* Finished tags that are not invalid do not require each other in a circle. *)
Grounded ==
  ~tooDeep => \A T \in SUBSET Tags :
    T # {} /\ (\A t \in T : mark[t] = "done" /\ status[t] # "invalid") => \E t \in T : Requires(t) \cap T = {}

Excused ==
  ~tooDeep /\ ~Reading =>
    {t \in Tags : status[t] = "invalid"} \subseteq RestOn(Circular \cup {t \in Tags : OwnInvalid(t)})

(* Members are what the edges followed so far say.                          *)
Gathered ==
  ~tooDeep =>
    /\ \A i \in DOMAIN stack :
         stack[i].tag \notin Endless => stack[i].got = GatheredBy(stack[i].tag, stack[i].next - 1)
    /\ \A t \in Tags : mark[t] = "done" =>
         /\ status[t] = "invalid" => members[t] = {}
         /\ t \notin Endless =>
              members[t] = IF status[t] = "invalid" THEN {} ELSE GatheredBy(t, Len(edges[t]))

TagInv == TagsTyped /\ Visits /\ AddedKnown /\ Told /\ Grounded /\ Excused /\ Gathered

-----------------------------------------------------------------------------
(* What lies below, and what rests on what. *)

LEMMA BelowClosed ==
  ASSUME NEW t
  PROVE  /\ Below(t) \subseteq Tags
         /\ Asks(t) \subseteq Below(t)
         /\ \A u \in Below(t) : Asks(u) \subseteq Below(t)
<1>1. \A u : Asks(u) \subseteq Tags
  BY DEF Asks
<1> QED BY <1>1 DEF Below

(* One is below if it is asked for, or lies below one that is.             *)
LEMMA BelowSteps ==
  ASSUME NEW t, NEW s \in Below(t)
  PROVE  s \in Asks(t) \/ \E u \in Asks(t) : s \in Below(u)
<1> DEFINE Y == Asks(t) \cup UNION {Below(u) : u \in Asks(t)}
<1>1. Y \in SUBSET Tags /\ Asks(t) \subseteq Y
  BY BelowClosed DEF Asks
<1>2. \A u \in Y : Asks(u) \subseteq Y
  BY BelowClosed
<1>3. s \in Y
  BY <1>1, <1>2 DEF Below
<1> QED BY <1>3

(* Who asks for a tag that it lies below leads to a cycle.                 *)
LEMMA CycleEndless ==
  ASSUME NEW t \in Tags, NEW u \in Asks(t), t = u \/ t \in Below(u)
  PROVE  u \in Circular /\ t \in Endless
<1> DEFINE T == {s \in Tags : u \in Below(s)}
<1>1. u \in Tags /\ u \in Below(t)
  BY BelowClosed DEF Asks
<1>2. u \in Below(u)
  BY <1>1, BelowClosed
<1>3. ASSUME NEW s \in T PROVE Asks(s) \cap T # {}
  <2>1. u \in Asks(s) \/ \E v \in Asks(s) : u \in Below(v)
    BY BelowSteps
  <2>2. Asks(s) \subseteq Tags
    BY DEF Asks
  <2> QED BY <1>1, <1>2, <2>1, <2>2
<1>4. t \in T /\ T \in SUBSET Tags
  BY <1>1
<1>5. t \in Endless
  <2> HIDE DEF T
  <2> QED BY <1>3, <1>4 DEF Endless
<1> QED BY <1>1, <1>2, <1>5 DEF Circular

LEMMA RestOnClosed ==
  ASSUME NEW S, S \subseteq Tags
  PROVE  /\ S \subseteq RestOn(S)
         /\ \A t \in Tags : Requires(t) \cap RestOn(S) # {} => t \in RestOn(S)
BY DEF RestOn

(* An entry of a tag that names a tag.                                     *)
LEMMA EdgeAsks ==
  ASSUME NEW t, NEW k \in DOMAIN edges[t], edges[t][k].target \in Tags
  PROVE  /\ edges[t][k].target \in Asks(t)
         /\ edges[t][k].required => edges[t][k].target \in Requires(t)
BY DEF Asks, Requires, ToSet

LEMMA RequiresMeans ==
  ASSUME NEW t, NEW u \in Requires(t)
  PROVE  u \in Tags /\ \E k \in DOMAIN edges[t] : edges[t][k].target = u /\ edges[t][k].required
BY DEF Requires, ToSet

(* All this depends on the edges alone.                                    *)
LEMMA GraphStays ==
  ASSUME edges' = edges
  PROVE  /\ \A t : Asks(t)' = Asks(t) /\ Requires(t)' = Requires(t) /\ Below(t)' = Below(t)
         /\ \A S : RestOn(S)' = RestOn(S)
         /\ Circular' = Circular /\ Endless' = Endless
<1>1. \A t : Asks(t)' = Asks(t) /\ Requires(t)' = Requires(t)
  BY DEF Asks, Requires
<1>2. \A t : Below(t)' = Below(t)
  BY <1>1 DEF Below
<1>3. \A S : RestOn(S)' = RestOn(S)
  BY <1>1 DEF RestOn
<1> QED BY <1>1, <1>2, <1>3 DEF Circular, Endless

-----------------------------------------------------------------------------
(* What edges gather. *)

LEMMA GatherStep ==
  ASSUME NEW t, NEW n \in Nat
  PROVE  GatheredBy(t, n + 1) =
           LET found == {i \in Items : Names(edges[t][n + 1], i)}
           IN IF edges[t][n + 1].remove THEN GatheredBy(t, n) \ found ELSE GatheredBy(t, n) \cup found
<1> DEFINE e(k) == edges[t][k]
           By(i, m) == \E k \in 1..m : /\ ~e(k).remove /\ Names(e(k), i)
                                       /\ \A j \in (k + 1)..m : Names(e(j), i) => ~e(j).remove
<1>1. ASSUME NEW i \in Items
      PROVE  By(i, n + 1) <=> IF e(n + 1).remove THEN By(i, n) /\ ~Names(e(n + 1), i)
                              ELSE By(i, n) \/ Names(e(n + 1), i)
  <2>1. ASSUME By(i, n + 1)
        PROVE  IF e(n + 1).remove THEN By(i, n) /\ ~Names(e(n + 1), i)
               ELSE By(i, n) \/ Names(e(n + 1), i)
    <3>1. PICK k \in 1..(n + 1) : /\ ~e(k).remove /\ Names(e(k), i)
                                  /\ \A j \in (k + 1)..(n + 1) : Names(e(j), i) => ~e(j).remove
      BY <2>1
    <3>2. CASE k = n + 1
      BY <3>1, <3>2
    <3>3. CASE k # n + 1
      <4>1. k \in 1..n /\ n + 1 \in (k + 1)..(n + 1)
        BY <3>3
      <4>2. \A j \in (k + 1)..n : j \in (k + 1)..(n + 1)
        OBVIOUS
      <4> QED BY <3>1, <4>1, <4>2
    <3> QED BY <3>2, <3>3
  <2>2. ASSUME IF e(n + 1).remove THEN By(i, n) /\ ~Names(e(n + 1), i)
               ELSE By(i, n) \/ Names(e(n + 1), i)
        PROVE  By(i, n + 1)
    <3>1. CASE Names(e(n + 1), i) /\ ~e(n + 1).remove
      <4>1. n + 1 \in 1..(n + 1) /\ ((n + 1) + 1)..(n + 1) = {}
        OBVIOUS
      <4> QED BY <3>1, <4>1
    <3>2. CASE By(i, n) /\ ~(Names(e(n + 1), i) /\ e(n + 1).remove)
      <4>1. PICK k \in 1..n : /\ ~e(k).remove /\ Names(e(k), i)
                              /\ \A j \in (k + 1)..n : Names(e(j), i) => ~e(j).remove
        BY <3>2
      <4>2. k \in 1..(n + 1) /\ \A j \in (k + 1)..(n + 1) : j \in (k + 1)..n \/ j = n + 1
        OBVIOUS
      <4> QED BY <3>2, <4>1, <4>2
    <3> QED BY <2>2, <3>1, <3>2
  <2> QED BY <2>1, <2>2
<1>2. \A m : GatheredBy(t, m) = {i \in Items : By(i, m)}
  BY DEF GatheredBy
<1> HIDE DEF By, e
<1>3. GatheredBy(t, n + 1) = IF e(n + 1).remove THEN GatheredBy(t, n) \ {i \in Items : Names(e(n + 1), i)}
                             ELSE GatheredBy(t, n) \cup {i \in Items : Names(e(n + 1), i)}
  BY <1>1, <1>2
<1> QED BY <1>3 DEF e

LEMMA GatherNothing ==
  ASSUME NEW t
  PROVE  GatheredBy(t, 0) = {}
BY DEF GatheredBy

(* What has been gathered stays so while the tags it came from keep their   *)
(* members.                                                                *)
LEMMA GatheredStays ==
  ASSUME edges' = edges, NEW t, NEW n,
         \A k \in 1..n : edges[t][k].target \in Tags => members'[edges[t][k].target] = members[edges[t][k].target]
  PROVE  GatheredBy(t, n)' = GatheredBy(t, n)
<1>1. \A k \in 1..n : \A i : Names(edges[t][k], i)' <=> Names(edges[t][k], i)
  BY DEF Names
<1>2. \A k \in 1..n : \A j \in (k + 1)..n : j \in 1..n
  OBVIOUS
<1> QED BY <1>1, <1>2 DEF GatheredBy

-----------------------------------------------------------------------------
(* The visits under way. *)

Frames == [tag : Tags, next : Nat \ {0}, got : SUBSET Known]

LEMMA StackTyped ==
  ASSUME TagsTyped
  PROVE  /\ Len(stack) \in Nat /\ DOMAIN stack = 1..Len(stack)
         /\ stack \in Seq(Frames)
         /\ \A i \in DOMAIN stack : stack[i] \in Frames
         /\ \A t \in Tags : Len(edges[t]) \in Nat /\ DOMAIN edges[t] = 1..Len(edges[t])
         /\ \A t \in Tags : \A k \in DOMAIN edges[t] : edges[t][k] \in EdgeType
<1>1. stack \in Seq(Frames) /\ edges \in [Tags -> Seq(EdgeType)]
  BY DEF TagsTyped, Frames
<1> QED BY <1>1, LenProperties

LEMMA TopTyped ==
  ASSUME TagsTyped, stack # <<>>
  PROVE  /\ Len(stack) \in DOMAIN stack /\ Top \in Frames /\ Top.tag \in Tags
         /\ MoreEdges => Top.next \in DOMAIN edges[Top.tag] /\ NextEdge \in EdgeType
<1>1. Len(stack) \in DOMAIN stack /\ Top \in Frames
  BY StackTyped, EmptySeq DEF Top
<1>2. Top.tag \in Tags
  BY <1>1 DEF Frames
<1> QED BY <1>1, <1>2, StackTyped DEF MoreEdges, NextEdge

(* A visit begins: no edge is followed.                                    *)
LEMMA Entered ==
  ASSUME TagsTyped, Visits, NEW u \in Tags, mark[u] = "new", Enter(u), edges' = edges
  PROVE  /\ stack' \in Seq(Frames)
         /\ Len(stack') = Len(stack) + 1 /\ DOMAIN stack' = 1..(Len(stack) + 1)
         /\ \A i \in DOMAIN stack : stack'[i] = stack[i]
         /\ stack'[Len(stack) + 1] = Frame(u)
         /\ \A t \in Tags : \A k \in DOMAIN edges[t] : Followed(t, k)' <=> Followed(t, k)
<1>1. Frame(u) \in Frames
  BY DEF Frame, Frames
<1>2. /\ stack' \in Seq(Frames)
      /\ Len(stack') = Len(stack) + 1 /\ DOMAIN stack' = 1..(Len(stack) + 1)
      /\ \A i \in DOMAIN stack : stack'[i] = stack[i]
      /\ stack'[Len(stack) + 1] = Frame(u)
  BY <1>1, StackTyped, AppendProperties DEF Enter
<1>3. mark' = [mark EXCEPT ![u] = "open"] /\ mark \in [Tags -> {"new", "open", "done"}]
  BY DEF Enter, TagsTyped
<1>4. ASSUME NEW t \in Tags, NEW k \in DOMAIN edges[t]
      PROVE  Followed(t, k)' <=> Followed(t, k)
  <2>1. mark'[t] = "done" <=> mark[t] = "done"
    BY <1>3
  <2>2. (\E i \in DOMAIN stack' : stack'[i].tag = t /\ k < stack'[i].next)
          <=> (\E i \in DOMAIN stack : stack[i].tag = t /\ k < stack[i].next)
    <3>1. k \in Nat /\ ~(k < Frame(u).next)
      BY StackTyped DEF Frame
    <3>2. DOMAIN stack = 1..Len(stack) /\ Len(stack) \in Nat
      BY StackTyped
    <3>3. \A i \in DOMAIN stack' : i \in DOMAIN stack \/ i = Len(stack) + 1
      BY <1>2, <3>2
    <3>4. \A i \in DOMAIN stack : i \in DOMAIN stack'
      BY <1>2, <3>2
    <3> QED BY <1>2, <3>1, <3>3, <3>4, Zenon
  <2> QED BY <2>1, <2>2 DEF Followed
<1> QED BY <1>2, <1>4

(* An edge has been followed.                                              *)
LEMMA Collected ==
  ASSUME TagsTyped, Visits, MoreEdges, NEW out \in SUBSET Known, Collect(out), edges' = edges, mark' = mark
  PROVE  /\ stack' \in Seq(Frames)
         /\ Len(stack') = Len(stack) /\ DOMAIN stack' = DOMAIN stack
         /\ \A i \in DOMAIN stack : i # Len(stack) => stack'[i] = stack[i]
         /\ \A i \in DOMAIN stack : stack'[i].tag = stack[i].tag
         /\ stack'[Len(stack)] = [tag |-> Top.tag, next |-> Top.next + 1,
                                  got |-> IF NextEdge.remove THEN Top.got \ out ELSE Top.got \cup out]
         /\ \A t \in Tags : \A k \in DOMAIN edges[t] :
              Followed(t, k)' => Followed(t, k) \/ (t = Top.tag /\ k = Top.next)
<1> DEFINE top == [tag |-> Top.tag, next |-> Top.next + 1,
                   got |-> IF NextEdge.remove THEN Top.got \ out ELSE Top.got \cup out]
<1>1. stack # <<>>
  BY DEF MoreEdges
<1>2. Len(stack) \in DOMAIN stack /\ Top \in Frames /\ DOMAIN stack = 1..Len(stack) /\ Len(stack) \in Nat
  BY <1>1, TopTyped, StackTyped
<1>3. top \in Frames
  BY <1>2 DEF Frames
<1>4. stack' = [stack EXCEPT ![Len(stack)] = top]
  BY DEF Collect
<1> HIDE DEF top
<1>5. /\ stack' \in Seq(Frames)
      /\ Len(stack') = Len(stack) /\ DOMAIN stack' = DOMAIN stack
      /\ \A i \in DOMAIN stack : i # Len(stack) => stack'[i] = stack[i]
      /\ stack'[Len(stack)] = top
  BY <1>2, <1>3, <1>4, StackTyped, ExceptSeq
<1>6. top.tag = Top.tag /\ top.next = Top.next + 1
  BY DEF top
<1>7. \A i \in DOMAIN stack : stack'[i].tag = stack[i].tag
  BY <1>5, <1>6 DEF Top
<1>8. ASSUME NEW t \in Tags, NEW k \in DOMAIN edges[t], Followed(t, k)'
      PROVE  Followed(t, k) \/ (t = Top.tag /\ k = Top.next)
  <2>1. CASE mark[t] = "done"
    BY <2>1 DEF Followed
  <2>2. CASE \E i \in DOMAIN stack' : stack'[i].tag = t /\ k < stack'[i].next
    <3>1. PICK i \in DOMAIN stack : stack'[i].tag = t /\ k < stack'[i].next
      BY <1>5, <2>2
    <3>2. CASE i # Len(stack)
      BY <1>5, <3>1, <3>2 DEF Followed
    <3>3. CASE i = Len(stack)
      <4>1. stack[i].tag = t /\ Top.tag = t /\ k < Top.next + 1
        BY <1>5, <1>6, <3>1, <3>3 DEF Top
      <4>2. k \in Nat /\ Top.next \in Nat
        BY <1>2, StackTyped DEF Frames
      <4>3. k < Top.next \/ k = Top.next
        BY <4>1, <4>2
      <4> QED BY <1>2, <3>3, <4>1, <4>3 DEF Followed, Top
    <3> QED BY <3>2, <3>3
  <2> QED BY <1>8, <2>1, <2>2 DEF Followed
<1> QED BY <1>5, <1>7, <1>8 DEF top

(* A visit ends, all its edges followed.                                   *)
LEMMA Left ==
  ASSUME TagsTyped, Visits, LeaveTag
  PROVE  /\ stack # <<>>
         /\ stack' \in Seq(Frames)
         /\ Len(stack') = Len(stack) - 1 /\ DOMAIN stack' = 1..(Len(stack) - 1)
         /\ \A i \in DOMAIN stack' : i \in DOMAIN stack /\ stack'[i] = stack[i] /\ stack[i].tag # Top.tag
         /\ Top.next = Len(edges[Top.tag]) + 1
         /\ \A t \in Tags : \A k \in DOMAIN edges[t] : Followed(t, k)' => Followed(t, k)
<1>1. stack # <<>> /\ ~MoreEdges /\ stack' = SubSeq(stack, 1, Len(stack) - 1)
  BY DEF LeaveTag
<1>2. Len(stack) \in DOMAIN stack /\ Top \in Frames /\ DOMAIN stack = 1..Len(stack) /\ Len(stack) \in Nat
  BY <1>1, TopTyped, StackTyped
<1>3. /\ stack' \in Seq(Frames)
      /\ Len(stack') = Len(stack) - 1 /\ DOMAIN stack' = 1..(Len(stack) - 1)
      /\ \A i \in DOMAIN stack' : stack'[i] = stack[i]
  <2> DEFINE size == Len(stack) - 1
  <2>1. size \in Nat /\ \A i \in 1..size : stack[i] \in Frames
    BY <1>2, StackTyped
  <2> HIDE DEF size
  <2>2. /\ SubSeq(stack, 1, size) \in Seq(Frames)
        /\ Len(SubSeq(stack, 1, size)) = size
        /\ \A i \in 1..size : SubSeq(stack, 1, size)[i] = stack[i]
    BY <2>1, SubSeqProperties
  <2>3. stack' = SubSeq(stack, 1, size)
    BY <1>1 DEF size
  <2>4. DOMAIN stack' = 1..size
    BY <2>2, <2>3
  <2> QED BY <2>2, <2>3, <2>4 DEF size
<1>4. \A i \in DOMAIN stack' : i \in DOMAIN stack /\ i < Len(stack)
  BY <1>2, <1>3
<1>5. \A i \in DOMAIN stack' : stack[i].tag # Top.tag
  BY <1>2, <1>4 DEF Visits, Top
<1>6. Top.next = Len(edges[Top.tag]) + 1
  <2>1. Top.next \in Nat \ {0} /\ Top.tag \in Tags
    BY <1>2 DEF Frames
  <2>2. Top.next \notin 1..Len(edges[Top.tag]) /\ Len(edges[Top.tag]) \in Nat
    BY <1>1, <2>1, StackTyped DEF MoreEdges
  <2>3. Top.next <= Len(edges[Top.tag]) + 1
    BY <1>2 DEF Visits, Top
  <2> QED BY <2>1, <2>2, <2>3
<1>7. ASSUME NEW t \in Tags, NEW k \in DOMAIN edges[t], Followed(t, k)'
      PROVE  Followed(t, k)
  <2>1. edges' = edges /\ mark' = [mark EXCEPT ![Top.tag] = "done"]
    BY DEF LeaveTag
  <2>2. CASE t = Top.tag
    <3>1. k \in Nat /\ k <= Len(edges[t]) /\ Len(edges[t]) \in Nat
      BY StackTyped
    <3>2. k < Top.next
      BY <1>6, <2>2, <3>1
    <3> QED BY <1>2, <2>2, <3>2 DEF Followed, Top
  <2>3. CASE t # Top.tag
    <3>1. mark'[t] = "done" => mark[t] = "done"
      BY <2>1, <2>3 DEF TagsTyped
    <3> QED BY <1>3, <1>4, <1>7, <3>1 DEF Followed
  <2> QED BY <2>2, <2>3
<1> QED BY <1>1, <1>3, <1>4, <1>5, <1>6, <1>7

-----------------------------------------------------------------------------
(* While resources are read, and when finish begins, no tag is visited. *)

AllNew == stack = <<>> /\ mark = [t \in Tags |-> "new"]

NoneFollowed == \A t \in Tags : \A k : ~Followed(t, k)

LEMMA NothingFollowed == AllNew => Grounded /\ Gathered /\ NoneFollowed
<1> SUFFICES ASSUME AllNew PROVE Grounded /\ Gathered /\ NoneFollowed
  OBVIOUS
<1>1. \A t \in Tags : mark[t] # "done"
  BY DEF AllNew
<1>2. DOMAIN stack = {}
  BY DEF AllNew
<1>3. Grounded
  BY <1>1 DEF Grounded
<1>4. Gathered
  BY <1>1, <1>2 DEF Gathered
<1> QED BY <1>1, <1>2, <1>3, <1>4 DEF Followed, NoneFollowed

LEMMA ResourceKeeps ==
  ASSUME TagInv, Reading, UNCHANGED visits, Known \subseteq Known',
         item' \in [Items -> {"absent", "reference", "model"}],
         defs' \in [Tags -> Seq(DefinitionType)], AddedKnown'
  PROVE  TagInv'
<1>1. AllNew /\ AllNew' /\ Reading'
  BY DEF TagInv, Visits, AllNew, visits, Reading
<1>2. Grounded' /\ Gathered' /\ NoneFollowed'
  BY <1>1, NothingFollowed, PTL
<1>3. TagsTyped'
  <2>1. stack' \in Seq([tag : Tags, next : Nat \ {0}, got : SUBSET Known'])
    BY <1>1 DEF AllNew
  <2>2. members' \in [Tags -> SUBSET Known']
    BY DEF TagInv, TagsTyped, visits
  <2> QED BY <2>1, <2>2 DEF TagInv, TagsTyped, visits
<1>4. Visits'
  <2>1. \A t \in Tags : ~(t < todo')
    BY <1>1 DEF Reading, Tags
  <2> QED BY <1>1, <2>1 DEF AllNew, Visits, Reading
<1>5. Told'
  BY <1>1, <1>2 DEF Told, NoneFollowed
<1>6. Excused'
  BY <1>1 DEF Excused
<1> QED BY <1>2, <1>3, <1>4, <1>5, <1>6 DEF TagInv

LEMMA ReferredKnown ==
  ASSUME TagsTyped, NEW is, item' = Referred(is)
  PROVE  /\ item' \in [Items -> {"absent", "reference", "model"}]
         /\ Known \subseteq Known' /\ is \cap Items \subseteq Known'
BY DEF TagsTyped, Referred, Known

LEMMA AddedStays ==
  ASSUME AddedKnown, defs' = defs, edges' = edges, Known \subseteq Known'
  PROVE  AddedKnown'
BY DEF AddedKnown

LEMMA AddModelKeeps ==
  ASSUME TagInv, NEW i \in Items, AddModel(i)
  PROVE  TagInv'
<1>1. TagsTyped /\ AddedKnown /\ Reading /\ UNCHANGED visits /\ defs' = defs /\ edges' = edges
  BY DEF TagInv, AddModel, visits
<1>2. item' \in [Items -> {"absent", "reference", "model"}] /\ Known \subseteq Known'
  BY <1>1 DEF AddModel, TagsTyped, Known
<1>3. defs' \in [Tags -> Seq(DefinitionType)]
  BY <1>1 DEF TagsTyped
<1>4. AddedKnown'
  BY <1>1, <1>2, AddedStays
<1> QED BY <1>1, <1>2, <1>3, <1>4, ResourceKeeps

LEMMA AddRecipeKeeps ==
  ASSUME TagInv, NEW is \in SUBSET Items, AddRecipe(is)
  PROVE  TagInv'
<1>1. TagsTyped /\ AddedKnown /\ Reading /\ UNCHANGED visits /\ defs' = defs /\ edges' = edges
  BY DEF TagInv, AddRecipe, visits
<1>2. item' \in [Items -> {"absent", "reference", "model"}] /\ Known \subseteq Known'
  BY <1>1, ReferredKnown DEF AddRecipe
<1>3. defs' \in [Tags -> Seq(DefinitionType)]
  BY <1>1 DEF TagsTyped
<1>4. AddedKnown'
  BY <1>1, <1>2, AddedStays
<1> QED BY <1>1, <1>2, <1>3, <1>4, ResourceKeeps

LEMMA AddDefinitionKeeps ==
  ASSUME TagInv, NEW t \in Tags, NEW d \in DefinitionType, AddDefinition(t, d)
  PROVE  TagInv'
<1> DEFINE added == {e.target : e \in ToSet(d.values)}
<1>1. TagsTyped /\ AddedKnown /\ Reading /\ UNCHANGED visits /\ edges' = edges
  BY DEF TagInv, AddDefinition, visits
<1>2. /\ item' \in [Items -> {"absent", "reference", "model"}]
      /\ Known \subseteq Known'
      /\ d.form = "plain" => added \cap Items \subseteq Known'
  <2>1. CASE d.form = "plain"
    <3>1. item' = Referred(added)
      BY <2>1 DEF AddDefinition
    <3> HIDE DEF added
    <3> QED BY <1>1, <3>1, ReferredKnown
  <2>2. CASE d.form # "plain"
    BY <1>1, <2>2 DEF AddDefinition, TagsTyped, Known
  <2> QED BY <2>1, <2>2
<1>3. /\ defs' \in [Tags -> Seq(DefinitionType)]
      /\ \A s \in Tags : s # t => defs'[s] = defs[s]
      /\ \A n \in DOMAIN defs'[t] : (n \in DOMAIN defs[t] /\ defs'[t][n] = defs[t][n]) \/ defs'[t][n] = d
  <2>1. defs' = [defs EXCEPT ![t] = Append(defs[t], d)]
    BY DEF AddDefinition
  <2>2. defs \in [Tags -> Seq(DefinitionType)] /\ defs[t] \in Seq(DefinitionType)
    BY <1>1 DEF TagsTyped
  <2>3. /\ Append(defs[t], d) \in Seq(DefinitionType)
        /\ \A n \in DOMAIN Append(defs[t], d) :
             (n \in DOMAIN defs[t] /\ Append(defs[t], d)[n] = defs[t][n]) \/ Append(defs[t], d)[n] = d
    <3> DEFINE ds == defs[t]
    <3>1. ds \in Seq(DefinitionType)
      BY <2>2
    <3> HIDE DEF ds
    <3>2. /\ Append(ds, d) \in Seq(DefinitionType) /\ Len(Append(ds, d)) = Len(ds) + 1
          /\ \A n \in 1..Len(ds) : Append(ds, d)[n] = ds[n]
          /\ Append(ds, d)[Len(ds) + 1] = d
      BY <3>1, AppendProperties
    <3>3. DOMAIN Append(ds, d) = 1..(Len(ds) + 1) /\ DOMAIN ds = 1..Len(ds) /\ Len(ds) \in Nat
      BY <3>1, <3>2, LenProperties
    <3>4. \A n \in 1..(Len(ds) + 1) : n \in 1..Len(ds) \/ n = Len(ds) + 1
      BY <3>3
    <3>5. /\ Append(ds, d) \in Seq(DefinitionType)
          /\ \A n \in DOMAIN Append(ds, d) : (n \in DOMAIN ds /\ Append(ds, d)[n] = ds[n]) \/ Append(ds, d)[n] = d
      BY <3>2, <3>3, <3>4
    <3> QED BY <3>5 DEF ds
  <2> QED BY <2>1, <2>2, <2>3
<1>4. AddedKnown'
  <2>1. ASSUME NEW s \in Tags, NEW n \in DOMAIN defs'[s], defs'[s][n].form = "plain",
               NEW j \in DOMAIN defs'[s][n].values, defs'[s][n].values[j].target \in Items
        PROVE  defs'[s][n].values[j].target \in Known'
    <3>1. CASE s = t /\ defs'[s][n] = d
      <4>1. d.values[j].target \in added
        BY <2>1, <3>1 DEF ToSet
      <4> HIDE DEF added
      <4> QED BY <1>2, <2>1, <3>1, <4>1
    <3>2. CASE ~(s = t /\ defs'[s][n] = d)
      <4>1. n \in DOMAIN defs[s] /\ defs'[s][n] = defs[s][n]
        BY <1>3, <3>2
      <4> QED BY <1>1, <1>2, <2>1, <4>1 DEF AddedKnown
    <3> QED BY <3>1, <3>2
  <2>2. \A s \in Tags : \A k \in DOMAIN edges[s] :
          edges[s][k].target \in Items /\ ~edges[s][k].remove => edges[s][k].target \in Known'
    BY <1>1, <1>2 DEF AddedKnown
  <2> QED BY <1>1, <2>1, <2>2 DEF AddedKnown
<1> QED BY <1>1, <1>2, <1>3, <1>4, ResourceKeeps

LEMMA BeginKeeps ==
  ASSUME TagInv, BeginFinish
  PROVE  TagInv'
<1>1. /\ TagsTyped /\ Visits /\ AddedKnown /\ Reading
      /\ UNCHANGED <<defs, item, stack, mark, members, tooDeep>> /\ todo' = 1
      /\ edges' = [t \in Tags |-> Edges(defs[t])] /\ status' = [t \in Tags |-> OwnStatus(defs[t])]
  BY DEF TagInv, BeginFinish, inputs
<1>2. AllNew' /\ ~Reading'
  BY <1>1 DEF Visits, AllNew, Reading
<1>3. Grounded' /\ Gathered' /\ NoneFollowed'
  BY <1>2, NothingFollowed, PTL
<1>4. ASSUME NEW t \in Tags
      PROVE  /\ edges'[t] \in Seq(EdgeType)
             /\ \A k \in DOMAIN edges'[t] :
                  edges'[t][k].target \in Items /\ ~edges'[t][k].remove => edges'[t][k].target \in Known
  <2> DEFINE ds == defs[t]
             S == EntriesIn(ds)
             es == Edges(ds)
  <2>1. ds \in Seq(DefinitionType)
    BY <1>1 DEF TagsTyped
  <2>2. \A n \in DOMAIN ds : ds[n] \in DefinitionType
    BY <2>1
  <2>3. S \subseteq EdgeType
    BY <2>2, ReadTyped DEF EntriesIn
  <2>4. es \in Seq(S)
    BY <2>1, EdgesSound
  <2>5. edges'[t] = es
    BY <1>1
  <2>6. \A e \in S : e.target \in Items /\ ~e.remove => e.target \in Known
    <3> SUFFICES ASSUME NEW e \in S, e.target \in Items, ~e.remove PROVE e.target \in Known
      OBVIOUS
    <3>1. PICK n \in DOMAIN ds : ds[n].form = "plain" /\ e \in ToSet(Read(ds[n]))
      BY DEF EntriesIn
    <3>2. ds[n] \in DefinitionType
      BY <2>2
    <3>3. PICK j \in DOMAIN ds[n].values : e.target = ds[n].values[j].target
      BY <3>1, <3>2, ReadTyped
    <3> QED BY <1>1, <3>1, <3>3 DEF AddedKnown
  <2> HIDE DEF S, es
  <2>7. es \in Seq(EdgeType) /\ \A k \in DOMAIN es : es[k] \in S
    BY <2>3, <2>4, SeqMonotonic, LenProperties
  <2> QED BY <2>5, <2>6, <2>7
<1>5. TagsTyped'
  <2>1. edges' \in [Tags -> Seq(EdgeType)]
    BY <1>1, <1>4
  <2>2. \A ds : OwnStatus(ds) \in {"missing", "partial", "invalid", "resolved"}
    BY DEF OwnStatus
  <2>3. status' \in [Tags -> {"missing", "partial", "invalid", "resolved"}]
    BY <1>1, <2>2
  <2>4. todo' \in 0..(LastTag + 1)
    BY <1>1, TagAssumptions
  <2>5. Known' = Known
    BY <1>1 DEF Known
  <2> QED BY <1>1, <2>1, <2>3, <2>4, <2>5 DEF TagsTyped
<1>6. Visits'
  <2>1. \A t \in Tags : ~(t < todo')
    BY <1>1 DEF Tags
  <2> QED BY <1>2, <2>1 DEF AllNew, Visits, Reading
<1>7. AddedKnown'
  <2>1. Known' = Known
    BY <1>1 DEF Known
  <2> QED BY <1>1, <1>4, <2>1 DEF AddedKnown
<1>8. \A t \in Tags : status'[t] = "invalid" <=> OwnInvalid(t)'
  BY <1>1 DEF OwnInvalid
<1>9. Told'
  BY <1>3, <1>8 DEF Told, NoneFollowed
<1>10. Excused'
  <2>1. {t \in Tags : status'[t] = "invalid"} = {t \in Tags : OwnInvalid(t)'}
    BY <1>8
  <2> QED BY <2>1 DEF Excused, RestOn
<1> QED BY <1>3, <1>5, <1>6, <1>7, <1>9, <1>10 DEF TagInv

-----------------------------------------------------------------------------
(* A visit begins. *)

LEMMA EnterKeeps ==
  ASSUME TagInv, NEW u \in Tags, mark[u] = "new", Enter(u), ~Reading,
         UNCHANGED <<inputs, edges, status, members, tooDeep>>,
         todo' \in 1..(LastTag + 1), \A t \in Tags : t < todo' => t < todo \/ t = u,
         \A i \in DOMAIN stack : u \in Below(stack[i].tag)
  PROVE  TagInv'
<1>1. /\ TagsTyped /\ Visits /\ AddedKnown /\ Told /\ Grounded /\ Excused /\ Gathered
      /\ UNCHANGED <<defs, item, edges, status, members, tooDeep>> /\ ~Reading'
  BY DEF TagInv, inputs, Reading
<1>2. /\ stack' \in Seq(Frames)
      /\ Len(stack') = Len(stack) + 1 /\ DOMAIN stack' = 1..(Len(stack) + 1)
      /\ \A i \in DOMAIN stack : stack'[i] = stack[i]
      /\ stack'[Len(stack) + 1] = Frame(u)
      /\ \A t \in Tags : \A k \in DOMAIN edges[t] : Followed(t, k)' <=> Followed(t, k)
  BY <1>1, Entered
<1>3. mark' = [mark EXCEPT ![u] = "open"] /\ mark \in [Tags -> {"new", "open", "done"}]
  BY <1>1 DEF Enter, TagsTyped
<1>4. /\ \A t \in Tags : mark'[t] = "done" <=> mark[t] = "done"
      /\ \A t \in Tags : mark'[t] = "open" <=> mark[t] = "open" \/ t = u
      /\ \A t \in Tags : mark'[t] = "new" => mark[t] = "new"
  BY <1>3
<1>5. /\ Len(stack) \in Nat /\ DOMAIN stack = 1..Len(stack)
      /\ \A i \in DOMAIN stack' : i \in DOMAIN stack \/ i = Len(stack) + 1
      /\ Len(stack) + 1 \in DOMAIN stack' /\ Len(stack) + 1 \notin DOMAIN stack
      /\ \A i \in DOMAIN stack : i \in DOMAIN stack' /\ i < Len(stack) + 1
  <2>1. Len(stack) \in Nat /\ DOMAIN stack = 1..Len(stack)
    BY <1>1, StackTyped
  <2> QED BY <1>2, <2>1
<1>6. Known' = Known /\ \A t : OwnInvalid(t)' = OwnInvalid(t)
  BY <1>1 DEF Known, OwnInvalid
<1>7. /\ \A t : Below(t)' = Below(t) /\ Requires(t)' = Requires(t)
      /\ \A S : RestOn(S)' = RestOn(S)
      /\ Circular' = Circular /\ Endless' = Endless
  BY <1>1, GraphStays
<1>8. TagsTyped'
  <2>1. stack' \in Seq([tag : Tags, next : Nat \ {0}, got : SUBSET Known'])
    BY <1>2, <1>6 DEF Frames
  <2>2. mark' \in [Tags -> {"new", "open", "done"}] /\ todo' \in 0..(LastTag + 1)
    BY <1>3, TagAssumptions
  <2> QED BY <1>1, <1>6, <2>1, <2>2 DEF TagsTyped
<1>9. Visits'
  <2>1. \A i \in DOMAIN stack' : mark'[stack'[i].tag] = "open" /\ stack'[i].next <= Len(edges[stack'[i].tag]) + 1
    <3>1. ASSUME NEW i \in DOMAIN stack
          PROVE  mark'[stack'[i].tag] = "open" /\ stack'[i].next <= Len(edges[stack'[i].tag]) + 1
      <4>1. stack[i].tag \in Tags
        BY <1>1, StackTyped DEF Frames
      <4> QED BY <1>1, <1>2, <1>4, <4>1 DEF Visits
    <3>2. mark'[u] = "open" /\ 1 <= Len(edges[u]) + 1
      BY <1>1, <1>4, StackTyped
    <3> QED BY <1>2, <1>5, <3>1, <3>2 DEF Frame
  <2>2. ASSUME NEW i \in DOMAIN stack', NEW j \in DOMAIN stack', i < j
        PROVE  stack'[i].tag # stack'[j].tag /\ stack'[j].tag \in Below(stack'[i].tag)
    <3>1. i \in DOMAIN stack
      BY <1>5, <1>2, <2>2
    <3>2. CASE j \in DOMAIN stack
      BY <1>1, <1>2, <2>2, <3>1, <3>2 DEF Visits
    <3>3. CASE j = Len(stack) + 1
      <4>1. stack'[j].tag = u /\ stack'[i] = stack[i] /\ mark[stack[i].tag] = "open"
        BY <1>1, <1>2, <3>1, <3>3 DEF Frame, Visits
      <4> QED BY <3>1, <4>1
    <3> QED BY <1>5, <3>2, <3>3
  <2>3. \A t \in Tags : mark'[t] = "open" => \E i \in DOMAIN stack' : stack'[i].tag = t
    <3>1. ASSUME NEW t \in Tags, mark[t] = "open" PROVE \E i \in DOMAIN stack' : stack'[i].tag = t
      BY <1>1, <1>2, <1>5, <3>1 DEF Visits
    <3>2. \E i \in DOMAIN stack' : stack'[i].tag = u
      BY <1>2, <1>5 DEF Frame
    <3> QED BY <1>4, <3>1, <3>2
  <2>4. \A t \in Tags : t < todo' => mark'[t] # "new"
    BY <1>1, <1>3, <1>4 DEF Visits
  <2> QED BY <1>1, <1>7, <2>1, <2>2, <2>3, <2>4 DEF Visits
<1>10. AddedKnown'
  BY <1>1, <1>6, AddedStays
<1>11. Told'
  <2>1. ASSUME ~tooDeep, NEW t \in Tags, NEW k \in DOMAIN edges[t], Followed(t, k), edges[t][k].target \in Tags
        PROVE  LET v == edges[t][k].target
               IN /\ mark'[v] # "new" /\ (mark'[v] = "open" => status[v] = "invalid" /\ t \in Endless)
                  /\ edges[t][k].required =>
                       /\ status[v] = "invalid" => status[t] = "invalid"
                       /\ status[v] # "resolved" => status[t] # "resolved"
    BY <1>1, <1>4, <2>1 DEF Told
  <2> QED BY <1>1, <1>2, <1>6, <1>7, <2>1 DEF Told
<1>12. Grounded'
  BY <1>1, <1>4, <1>7 DEF Grounded
<1>13. Excused'
  BY <1>1, <1>6, <1>7 DEF Excused
<1>14. Gathered'
  <2>1. \A t : \A n : GatheredBy(t, n)' = GatheredBy(t, n)
    BY <1>1, GatheredStays
  <2>2. GatheredBy(u, Frame(u).next - 1) = Frame(u).got /\ Frame(u).tag = u
    BY GatherNothing DEF Frame
  <2>3. ~tooDeep => \A i \in DOMAIN stack' : stack'[i].tag \notin Endless =>
                      stack'[i].got = GatheredBy(stack'[i].tag, stack'[i].next - 1)
    BY <1>1, <1>2, <1>5, <2>2 DEF Gathered
  <2> QED BY <1>1, <1>4, <1>7, <2>1, <2>3 DEF Gathered
<1> QED BY <1>8, <1>9, <1>10, <1>11, <1>12, <1>13, <1>14 DEF TagInv

(* What the visit under way asks for lies below all of the stack.          *)
LEMMA NextBelow ==
  ASSUME TagInv, MoreEdges, NextEdge.target \in Tags
  PROVE  /\ NextEdge.target \in Asks(Top.tag)
         /\ \A i \in DOMAIN stack : NextEdge.target \in Below(stack[i].tag)
         /\ mark[NextEdge.target] = "open" => NextEdge.target \in Circular /\ Top.tag \in Endless
<1> DEFINE u == NextEdge.target
<1>1. TagsTyped /\ Visits /\ stack # <<>>
  BY DEF TagInv, MoreEdges
<1>2. Len(stack) \in DOMAIN stack /\ Top.tag \in Tags /\ Top.next \in DOMAIN edges[Top.tag]
  BY <1>1, TopTyped
<1>3. u \in Asks(Top.tag)
  BY <1>2, EdgeAsks DEF NextEdge
<1>4. \A i \in DOMAIN stack : i = Len(stack) \/ Top.tag \in Below(stack[i].tag)
  <2>1. \A i \in DOMAIN stack : i = Len(stack) \/ i < Len(stack)
    BY <1>1, StackTyped
  <2> QED BY <1>1, <1>2, <2>1 DEF Visits, Top
<1>5. \A i \in DOMAIN stack : u \in Below(stack[i].tag)
  BY <1>3, <1>4, BelowClosed DEF Top
<1>6. ASSUME mark[u] = "open" PROVE u \in Circular /\ Top.tag \in Endless
  <2>1. PICK i \in DOMAIN stack : stack[i].tag = u
    BY <1>1, <1>6 DEF Visits
  <2>2. Top.tag = u \/ Top.tag \in Below(u)
    BY <1>4, <2>1 DEF Top
  <2> HIDE DEF u
  <2> QED BY <1>2, <1>3, <2>2, CycleEndless
<1> QED BY <1>3, <1>5, <1>6

LEMMA VisitTagKeeps ==
  ASSUME TagInv, VisitTag
  PROVE  TagInv'
<1>1. /\ MoreEdges /\ NextEdge.target \in Tags /\ mark[NextEdge.target] = "new" /\ Enter(NextEdge.target)
      /\ UNCHANGED <<inputs, edges, status, members, tooDeep>> /\ todo' = todo
  BY DEF VisitTag
<1>2. todo \in 1..(LastTag + 1) /\ ~Reading
  <2>1. todo \in 0..(LastTag + 1) /\ todo # 0
    BY <1>1 DEF TagInv, TagsTyped, Visits, Reading, MoreEdges
  <2> QED BY <2>1, TagAssumptions DEF Reading
<1>3. \A i \in DOMAIN stack : NextEdge.target \in Below(stack[i].tag)
  BY <1>1, NextBelow
<1> QED BY <1>1, <1>2, <1>3, EnterKeeps

LEMMA VisitKeyKeeps ==
  ASSUME TagInv, VisitKey
  PROVE  TagInv'
<1>1. /\ todo \in Tags /\ todo \in Nat /\ stack = <<>> /\ todo' = todo + 1 /\ ~Reading
      /\ UNCHANGED <<inputs, edges, status, members, tooDeep>>
      /\ todo' \in 1..(LastTag + 1) /\ \A t \in Tags : t < todo' => t < todo \/ t = todo
  <2>1. todo \in Tags /\ stack = <<>> /\ todo' = todo + 1 /\ UNCHANGED <<inputs, edges, status, members, tooDeep>>
    BY DEF VisitKey
  <2>2. todo \in 1..LastTag /\ LastTag \in Nat
    BY <2>1, TagAssumptions DEF Tags
  <2>3. \A t \in 1..LastTag : t < todo + 1 => t < todo \/ t = todo
    BY <2>2
  <2> QED BY <2>1, <2>2, <2>3 DEF Reading, Tags
<1>2. CASE mark[todo] = "new"
  <2>1. Enter(todo)
    BY <1>2 DEF VisitKey
  <2>2. \A i \in DOMAIN stack : todo \in Below(stack[i].tag)
    BY <1>1
  <2> QED BY <1>1, <1>2, <2>1, <2>2, EnterKeeps
<1>3. CASE mark[todo] # "new"
  <2>1. UNCHANGED <<defs, item, edges, stack, mark, status, members, tooDeep>>
    BY <1>1, <1>3 DEF VisitKey, inputs
  <2>2. /\ TagsTyped /\ Visits /\ AddedKnown /\ Told /\ Grounded /\ Excused /\ Gathered /\ ~Reading'
    BY <1>1 DEF TagInv, Reading
  <2>3. /\ \A t : Below(t)' = Below(t) /\ Requires(t)' = Requires(t) /\ OwnInvalid(t)' = OwnInvalid(t)
        /\ \A S : RestOn(S)' = RestOn(S)
        /\ Circular' = Circular /\ Endless' = Endless /\ Known' = Known
    BY <2>1, GraphStays DEF OwnInvalid, Known
  <2>4. \A t, n : GatheredBy(t, n)' = GatheredBy(t, n) /\ Followed(t, n)' = Followed(t, n)
    BY <2>1, GatheredStays DEF Followed
  <2>5. TagsTyped'
    BY <1>1, <2>1, <2>2, <2>3, TagAssumptions DEF TagsTyped
  <2>6. Visits'
    BY <1>1, <1>3, <2>1, <2>2, <2>3 DEF Visits
  <2>7. AddedKnown' /\ Told' /\ Grounded'
    BY <1>1, <2>1, <2>2, <2>3, <2>4 DEF AddedKnown, Told, Grounded
  <2>8. Excused' /\ Gathered'
    BY <1>1, <2>1, <2>2, <2>3, <2>4 DEF Excused, Gathered
  <2> QED BY <2>5, <2>6, <2>7, <2>8 DEF TagInv
<1> QED BY <1>2, <1>3

-----------------------------------------------------------------------------
(* An edge is followed. *)

LEMMA FollowKeeps ==
  ASSUME TagInv, MoreEdges, NEW out \in SUBSET Known, Collect(out),
         UNCHANGED <<inputs, edges, todo, mark, members>>,
         status' \in [Tags -> {"missing", "partial", "invalid", "resolved"}],
         tooDeep' \in BOOLEAN, tooDeep => tooDeep',
         \A t \in Tags : status[t] = "invalid" => status'[t] = "invalid",
         \A t \in Tags : status[t] # "resolved" => status'[t] # "resolved",
         ~tooDeep' =>
           /\ \A t \in Tags : mark[t] # "open" => status'[t] = status[t]
           /\ {t \in Tags : status'[t] = "invalid"} \subseteq RestOn(Circular \cup {t \in Tags : OwnInvalid(t)})
           /\ NextEdge.target \in Tags =>
                LET u == NextEdge.target
                IN /\ mark[u] # "new" /\ (mark[u] = "open" => status'[u] = "invalid" /\ Top.tag \in Endless)
                   /\ NextEdge.required =>
                        /\ status'[u] = "invalid" => status'[Top.tag] = "invalid"
                        /\ status'[u] # "resolved" => status'[Top.tag] # "resolved"
           /\ Top.tag \notin Endless => stack'[Len(stack)].got = GatheredBy(Top.tag, Top.next)
  PROVE  TagInv'
<1>1. /\ TagsTyped /\ Visits /\ AddedKnown /\ Told /\ Grounded /\ Excused /\ Gathered
      /\ UNCHANGED <<defs, item, edges, todo, mark, members>> /\ stack # <<>> /\ ~Reading /\ ~Reading'
  BY DEF TagInv, inputs, Reading, MoreEdges, Visits
<1>2. /\ stack' \in Seq(Frames)
      /\ Len(stack') = Len(stack) /\ DOMAIN stack' = DOMAIN stack
      /\ \A i \in DOMAIN stack : i # Len(stack) => stack'[i] = stack[i]
      /\ \A i \in DOMAIN stack : stack'[i].tag = stack[i].tag
      /\ stack'[Len(stack)].next = Top.next + 1
      /\ \A t \in Tags : \A k \in DOMAIN edges[t] :
           Followed(t, k)' => Followed(t, k) \/ (t = Top.tag /\ k = Top.next)
  <2>1. /\ stack' \in Seq(Frames)
        /\ Len(stack') = Len(stack) /\ DOMAIN stack' = DOMAIN stack
        /\ \A i \in DOMAIN stack : i # Len(stack) => stack'[i] = stack[i]
        /\ \A i \in DOMAIN stack : stack'[i].tag = stack[i].tag
        /\ stack'[Len(stack)] = [tag |-> Top.tag, next |-> Top.next + 1,
                                 got |-> IF NextEdge.remove THEN Top.got \ out ELSE Top.got \cup out]
        /\ \A t \in Tags : \A k \in DOMAIN edges[t] :
             Followed(t, k)' => Followed(t, k) \/ (t = Top.tag /\ k = Top.next)
    BY <1>1, Collected
  <2> QED BY <2>1
<1>3. /\ Len(stack) \in DOMAIN stack /\ Top.tag \in Tags /\ Top.next \in Nat
      /\ Top.next \in DOMAIN edges[Top.tag] /\ Top.next <= Len(edges[Top.tag])
  <2>1. Len(stack) \in DOMAIN stack /\ Top \in Frames /\ Top.tag \in Tags /\ Top.next \in DOMAIN edges[Top.tag]
    BY <1>1, TopTyped
  <2> QED BY <1>1, <2>1, StackTyped DEF Frames
<1>4. Known' = Known /\ \A t : OwnInvalid(t)' = OwnInvalid(t)
  BY <1>1 DEF Known, OwnInvalid
<1>5. /\ \A t : Below(t)' = Below(t) /\ Requires(t)' = Requires(t)
      /\ \A S : RestOn(S)' = RestOn(S)
      /\ Circular' = Circular /\ Endless' = Endless
  BY <1>1, GraphStays
<1>6. TagsTyped'
  <2>1. stack' \in Seq([tag : Tags, next : Nat \ {0}, got : SUBSET Known'])
    BY <1>2, <1>4 DEF Frames
  <2> QED BY <1>1, <1>4, <2>1 DEF TagsTyped
<1>7. Visits'
  <2>1. \A i \in DOMAIN stack : stack'[i].next <= Len(edges[stack'[i].tag]) + 1
    <3>1. stack'[Len(stack)].next <= Len(edges[Top.tag]) + 1
      BY <1>1, <1>2, <1>3, StackTyped
    <3> QED BY <1>1, <1>2, <3>1 DEF Visits, Top
  <2> QED BY <1>1, <1>2, <1>5, <2>1 DEF Visits
<1>8. AddedKnown'
  BY <1>1, <1>4, AddedStays
<1>9. Told'
  <2>1. ASSUME ~tooDeep', NEW t \in Tags, NEW k \in DOMAIN edges[t], Followed(t, k)', edges[t][k].target \in Tags
        PROVE  LET v == edges[t][k].target
               IN /\ mark[v] # "new" /\ (mark[v] = "open" => status'[v] = "invalid" /\ t \in Endless)
                  /\ edges[t][k].required =>
                       /\ status'[v] = "invalid" => status'[t] = "invalid"
                       /\ status'[v] # "resolved" => status'[t] # "resolved"
    <3>1. CASE t = Top.tag /\ k = Top.next
      BY <2>1, <3>1 DEF NextEdge
    <3>2. CASE Followed(t, k)
      <4> DEFINE v == edges[t][k].target
      <4>1. /\ v \in Tags /\ mark[v] # "new" /\ (mark[v] = "open" => status[v] = "invalid" /\ t \in Endless)
            /\ edges[t][k].required =>
                 /\ status[v] = "invalid" => status[t] = "invalid"
                 /\ status[v] # "resolved" => status[t] # "resolved"
        BY <1>1, <2>1, <3>2 DEF Told
      <4>2. mark[v] # "open" => status'[v] = status[v]
        BY <2>1, <4>1
      <4> HIDE DEF v
      <4>3. /\ mark[v] # "new" /\ (mark[v] = "open" => status'[v] = "invalid" /\ t \in Endless)
            /\ edges[t][k].required =>
                 /\ status'[v] = "invalid" => status'[t] = "invalid"
                 /\ status'[v] # "resolved" => status'[t] # "resolved"
        BY <4>1, <4>2
      <4> QED BY <4>3 DEF v
    <3> QED BY <1>2, <2>1, <3>1, <3>2
  <2> QED BY <1>1, <1>4, <1>5, <2>1 DEF Told
<1>10. Grounded'
  <2> SUFFICES ASSUME ~tooDeep', NEW T \in SUBSET Tags, T # {}, \A t \in T : mark[t] = "done" /\ status'[t] # "invalid"
               PROVE  \E t \in T : Requires(t) \cap T = {}
    BY <1>1, <1>5 DEF Grounded
  <2> QED BY <1>1 DEF Grounded
<1>11. Excused'
  BY <1>1, <1>4, <1>5 DEF Excused
<1>12. Gathered'
  <2>1. \A t : \A n : GatheredBy(t, n)' = GatheredBy(t, n)
    BY <1>1, GatheredStays
  <2>2. ~tooDeep' => \A i \in DOMAIN stack : stack'[i].tag \notin Endless =>
                       stack'[i].got = GatheredBy(stack'[i].tag, stack'[i].next - 1)
    <3> SUFFICES ASSUME ~tooDeep', NEW i \in DOMAIN stack, stack'[i].tag \notin Endless
                 PROVE  stack'[i].got = GatheredBy(stack'[i].tag, stack'[i].next - 1)
      OBVIOUS
    <3>1. CASE i = Len(stack)
      <4>1. stack'[i].tag = Top.tag /\ stack'[i].next - 1 = Top.next
        BY <1>2, <1>3, <3>1 DEF Top
      <4> QED BY <3>1, <4>1
    <3>2. CASE i # Len(stack)
      BY <1>1, <1>2, <3>2 DEF Gathered
    <3> QED BY <3>1, <3>2
  <2>3. ~tooDeep' => \A t \in Tags : mark[t] = "done" => status'[t] = status[t]
    OBVIOUS
  <2> QED BY <1>1, <1>2, <1>5, <2>1, <2>2, <2>3 DEF Gathered
<1> QED BY <1>6, <1>7, <1>8, <1>9, <1>10, <1>11, <1>12 DEF TagInv

(* What the top of the stack has gathered, the edge just followed included. *)
LEMMA GotFollows ==
  ASSUME TagInv, MoreEdges, ~tooDeep, Top.tag \notin Endless,
         NEW out \in SUBSET Known, Collect(out), edges' = edges, mark' = mark,
         out = Known \cap {i \in Items : Names(NextEdge, i)},
         ~NextEdge.remove => {i \in Items : Names(NextEdge, i)} \subseteq Known
  PROVE  stack'[Len(stack)].got = GatheredBy(Top.tag, Top.next)
<1> DEFINE found == {i \in Items : Names(NextEdge, i)}
           x == Top.tag
           n == Top.next - 1
<1>1. TagsTyped /\ Visits /\ Gathered /\ stack # <<>>
  BY DEF TagInv, MoreEdges
<1>2. Len(stack) \in DOMAIN stack /\ Top \in Frames
  BY <1>1, TopTyped
<1>3. n \in Nat /\ n + 1 = Top.next /\ Top.got \subseteq Known
  BY <1>2 DEF Frames
<1>4. stack'[Len(stack)] = [tag |-> Top.tag, next |-> Top.next + 1,
                            got |-> IF NextEdge.remove THEN Top.got \ out ELSE Top.got \cup out]
  BY <1>1, Collected
<1>5. Top.got = GatheredBy(x, n)
  BY <1>1, <1>2 DEF Gathered, Top
<1>6. GatheredBy(x, n + 1) = IF edges[x][n + 1].remove
                             THEN GatheredBy(x, n) \ {i \in Items : Names(edges[x][n + 1], i)}
                             ELSE GatheredBy(x, n) \cup {i \in Items : Names(edges[x][n + 1], i)}
  <2> HIDE DEF n, x
  <2> QED BY <1>3, GatherStep
<1>7. edges[x][n + 1] = NextEdge
  BY <1>3 DEF NextEdge
<1>8. GatheredBy(x, Top.next) = IF NextEdge.remove THEN Top.got \ found ELSE Top.got \cup found
  BY <1>3, <1>5, <1>6, <1>7
<1>9. out = Known \cap found /\ (~NextEdge.remove => found \subseteq Known)
  OBVIOUS
<1> HIDE DEF found, x, n
<1>10. stack'[Len(stack)].got = IF NextEdge.remove THEN Top.got \ out ELSE Top.got \cup out
  BY <1>4
<1>11. GatheredBy(x, Top.next) = stack'[Len(stack)].got
  <2>1. Top.got \ found = Top.got \ out
    BY <1>3, <1>9
  <2>2. ~NextEdge.remove => Top.got \cup found = Top.got \cup out
    BY <1>9
  <2> QED BY <1>8, <1>10, <2>1, <2>2
<1> QED BY <1>11 DEF x

LEMMA FollowItemKeeps ==
  ASSUME TagInv, FollowItem
  PROVE  TagInv'
<1> DEFINE out == Named(NextEdge.target)
<1>1. /\ MoreEdges /\ NextEdge.target \notin Tags /\ Collect(out)
      /\ UNCHANGED <<inputs, edges, todo, mark, status, members, tooDeep>>
  BY DEF FollowItem
<1>2. TagsTyped /\ AddedKnown /\ Excused /\ stack # <<>> /\ ~Reading
  BY <1>1 DEF TagInv, MoreEdges, Visits
<1>3. Top.tag \in Tags /\ Top.next \in DOMAIN edges[Top.tag] /\ NextEdge \in EdgeType
  BY <1>1, <1>2, TopTyped
<1>4. out \in SUBSET Known /\ Known \subseteq Items
  BY DEF Named, Known
<1>5. {i \in Items : Names(NextEdge, i)} = Items \cap {NextEdge.target}
  BY <1>1 DEF Names
<1>6. out = Known \cap {i \in Items : Names(NextEdge, i)}
  BY <1>4, <1>5 DEF Named
<1>7. ~NextEdge.remove => {i \in Items : Names(NextEdge, i)} \subseteq Known
  BY <1>2, <1>3, <1>5 DEF AddedKnown, NextEdge
<1>8. ~tooDeep /\ Top.tag \notin Endless => stack'[Len(stack)].got = GatheredBy(Top.tag, Top.next)
  <2> HIDE DEF out
  <2> QED BY <1>1, <1>4, <1>6, <1>7, GotFollows
<1>9. ~tooDeep => {t \in Tags : status[t] = "invalid"} \subseteq RestOn(Circular \cup {t \in Tags : OwnInvalid(t)})
  BY <1>2 DEF Excused
<1>10. status' = status /\ tooDeep' = tooDeep
       /\ status \in [Tags -> {"missing", "partial", "invalid", "resolved"}] /\ tooDeep \in BOOLEAN
  BY <1>1, <1>2 DEF TagsTyped
<1> HIDE DEF out
<1> QED BY <1>1, <1>4, <1>8, <1>9, <1>10, FollowKeeps

(* What an edge to a tag does to the status of each tag.                   *)
LEMMA StatusFollows ==
  ASSUME TagsTyped, MoreEdges, FollowTag
  PROVE  LET u == NextEdge.target
             x == Top.tag
             cut == Deep \/ mark[u] = "open"
             st(t) == IF cut /\ t = u THEN "invalid" ELSE status[t]
         IN \A t \in Tags :
              status'[t] = IF t = x /\ NextEdge.required /\ st(u) # "resolved"
                           THEN IF st(u) = "invalid" THEN "invalid" ELSE Diagnosed(st(x))
                           ELSE st(t)
<1> DEFINE u == NextEdge.target
           x == Top.tag
           cut == Deep \/ mark[u] = "open"
           st(t) == IF cut /\ t = u THEN "invalid" ELSE status[t]
           s == IF cut THEN [status EXCEPT ![u] = "invalid"] ELSE status
<1>1. u \in Tags /\ x \in Tags
  BY TopTyped DEF FollowTag, MoreEdges
<1>2. DOMAIN s = Tags /\ \A t \in Tags : s[t] = st(t)
  BY <1>1 DEF TagsTyped
<1>3. status' = StatusAfter(s, NextEdge)
  BY DEF FollowTag
<1> HIDE DEF s, st
<1>4. \A t \in Tags :
        status'[t] = IF t = x /\ NextEdge.required /\ s[u] # "resolved"
                     THEN IF s[u] = "invalid" THEN "invalid" ELSE Diagnosed(s[x])
                     ELSE s[t]
  BY <1>1, <1>2, <1>3 DEF StatusAfter
<1>5. \A t \in Tags :
        status'[t] = IF t = x /\ NextEdge.required /\ st(u) # "resolved"
                     THEN IF st(u) = "invalid" THEN "invalid" ELSE Diagnosed(st(x))
                     ELSE st(t)
  BY <1>1, <1>2, <1>4
<1> QED BY <1>5 DEF st

LEMMA FollowTagKeeps ==
  ASSUME TagInv, FollowTag
  PROVE  TagInv'
<1> DEFINE u == NextEdge.target
           x == Top.tag
           cut == Deep \/ mark[u] = "open"
           st(t) == IF cut /\ t = u THEN "invalid" ELSE status[t]
           out == IF cut THEN {} ELSE members[u]
           Source == Circular \cup {t \in Tags : OwnInvalid(t)}
<1>1. /\ MoreEdges /\ u \in Tags /\ (cut \/ mark[u] = "done") /\ Collect(out)
      /\ UNCHANGED <<inputs, edges, todo, mark, members>> /\ tooDeep' = (tooDeep \/ Deep)
  BY DEF FollowTag
<1>2. TagsTyped /\ Visits /\ Excused /\ stack # <<>> /\ ~Reading
  BY <1>1 DEF TagInv, MoreEdges, Visits
<1>3. x \in Tags /\ Top.next \in DOMAIN edges[x] /\ mark[x] = "open"
  BY <1>1, <1>2, TopTyped DEF Visits, Top
<1>4. \A t \in Tags :
        status'[t] = IF t = x /\ NextEdge.required /\ st(u) # "resolved"
                     THEN IF st(u) = "invalid" THEN "invalid" ELSE Diagnosed(st(x))
                     ELSE st(t)
  BY <1>1, <1>2, StatusFollows
<1>5. /\ u \in Asks(x) /\ (NextEdge.required => u \in Requires(x))
      /\ mark[u] = "open" => u \in Circular /\ x \in Endless
  BY <1>1, <1>3, NextBelow, EdgeAsks DEF NextEdge
<1>6. /\ st(u) = "invalid" <=> cut \/ status[u] = "invalid"
      /\ \A t \in Tags : status[t] = "invalid" => st(t) = "invalid"
      /\ \A t \in Tags : status[t] # "resolved" => st(t) # "resolved"
      /\ \A t \in Tags : t # u \/ ~cut => st(t) = status[t]
      /\ \A t \in Tags : st(t) \in {"missing", "partial", "invalid", "resolved"}
  BY <1>1, <1>2 DEF TagsTyped
<1>7. \A s : Diagnosed(s) # "resolved" /\ (s # "resolved" => Diagnosed(s) = s) /\ (s = "resolved" => Diagnosed(s) = "partial")
  BY DEF Diagnosed
<1>8. status' \in [Tags -> {"missing", "partial", "invalid", "resolved"}]
  <2>1. \A t \in Tags : status'[t] \in {"missing", "partial", "invalid", "resolved"}
    <3> HIDE DEF st
    <3> QED BY <1>3, <1>4, <1>6, <1>7
  <2>2. status' = [t \in Tags |-> status'[t]]
    <3> DEFINE s0 == IF cut THEN [status EXCEPT ![u] = "invalid"] ELSE status
    <3>1. status' = StatusAfter(s0, NextEdge)
      BY DEF FollowTag
    <3>2. s0 = [t \in Tags |-> s0[t]]
      BY <1>2 DEF TagsTyped
    <3> HIDE DEF s0
    <3> QED BY <3>1, <3>2 DEF StatusAfter
  <2> QED BY <2>1, <2>2
<1> HIDE DEF st
<1>9. /\ \A t \in Tags : status[t] = "invalid" => status'[t] = "invalid"
      /\ \A t \in Tags : status[t] # "resolved" => status'[t] # "resolved"
  BY <1>3, <1>4, <1>6, <1>7
<1>10. NextEdge.required => /\ status'[u] = "invalid" => status'[x] = "invalid"
                            /\ status'[u] # "resolved" => status'[x] # "resolved"
  BY <1>1, <1>3, <1>4, <1>6, <1>7
<1>11. ~tooDeep' => ~tooDeep /\ (cut <=> mark[u] = "open")
  BY <1>1
<1>12. ~tooDeep' => \A t \in Tags : mark[t] # "open" => status'[t] = status[t]
  BY <1>3, <1>4, <1>6, <1>11
<1>13. mark[u] = "open" => status'[u] = "invalid"
  BY <1>1, <1>4, <1>6
<1>14. ~tooDeep' => {t \in Tags : status'[t] = "invalid"} \subseteq RestOn(Source)
  <2> SUFFICES ASSUME ~tooDeep', NEW t \in Tags, status'[t] = "invalid"
               PROVE  t \in RestOn(Source)
    OBVIOUS
  <2>1. Source \subseteq Tags
    BY DEF Circular
  <2>2. \A v \in Tags : status[v] = "invalid" => v \in RestOn(Source)
    BY <1>2, <1>11 DEF Excused
  <2> HIDE DEF Source
  <2>3. Source \subseteq RestOn(Source) /\ \A v \in Tags : Requires(v) \cap RestOn(Source) # {} => v \in RestOn(Source)
    BY <2>1, RestOnClosed
  <2>4. cut => u \in RestOn(Source)
    <3>1. Circular \subseteq Source
      BY DEF Source
    <3> QED BY <1>5, <1>11, <2>3, <3>1
  <2>5. st(u) = "invalid" => u \in RestOn(Source)
    BY <1>1, <1>6, <2>2, <2>4
  <2>6. CASE t = x /\ NextEdge.required /\ st(u) = "invalid"
    BY <1>3, <1>5, <2>3, <2>5, <2>6
  <2>7. CASE ~(t = x /\ NextEdge.required /\ st(u) = "invalid")
    <3>1. st(t) = "invalid"
      BY <1>4, <1>7, <2>7
    <3> QED BY <1>6, <2>2, <2>5, <3>1
  <2> QED BY <2>6, <2>7
<1>15. out \in SUBSET Known
  BY <1>1, <1>2 DEF TagsTyped
<1>16. ~tooDeep' /\ x \notin Endless => stack'[Len(stack)].got = GatheredBy(x, Top.next)
  <2> SUFFICES ASSUME ~tooDeep', x \notin Endless PROVE stack'[Len(stack)].got = GatheredBy(x, Top.next)
    OBVIOUS
  <2>1. out = members[u]
    BY <1>5, <1>11
  <2>2. {i \in Items : Names(NextEdge, i)} = Items \cap members[u]
    BY <1>1 DEF Names
  <2>3. members[u] \subseteq Known /\ Known \subseteq Items
    BY <1>1, <1>2 DEF TagsTyped, Known
  <2>4. {i \in Items : Names(NextEdge, i)} \subseteq Known /\ out = Known \cap {i \in Items : Names(NextEdge, i)}
    BY <2>1, <2>2, <2>3
  <2> HIDE DEF out
  <2> QED BY <1>1, <1>11, <1>15, <2>4, GotFollows
<1>17. tooDeep' \in BOOLEAN /\ (tooDeep => tooDeep')
  BY <1>1, <1>2 DEF TagsTyped
<1>18. ~tooDeep' => mark[u] # "new"
  BY <1>1, <1>2, <1>11 DEF TagsTyped
<1>19. ~tooDeep' =>
         /\ \A t \in Tags : mark[t] # "open" => status'[t] = status[t]
         /\ {t \in Tags : status'[t] = "invalid"} \subseteq RestOn(Circular \cup {t \in Tags : OwnInvalid(t)})
         /\ NextEdge.target \in Tags =>
              LET v == NextEdge.target
              IN /\ mark[v] # "new" /\ (mark[v] = "open" => status'[v] = "invalid" /\ Top.tag \in Endless)
                 /\ NextEdge.required =>
                      /\ status'[v] = "invalid" => status'[Top.tag] = "invalid"
                      /\ status'[v] # "resolved" => status'[Top.tag] # "resolved"
         /\ Top.tag \notin Endless => stack'[Len(stack)].got = GatheredBy(Top.tag, Top.next)
  BY <1>5, <1>10, <1>12, <1>13, <1>14, <1>16, <1>18
<1> HIDE DEF u, x, cut, out, Source
<1> QED BY <1>1, <1>8, <1>9, <1>15, <1>17, <1>19, FollowKeeps

-----------------------------------------------------------------------------
(* A visit ends. *)

LEMMA LeaveKeeps ==
  ASSUME TagInv, LeaveTag
  PROVE  TagInv'
<1> DEFINE x == Top.tag
<1>1. /\ TagsTyped /\ Visits /\ AddedKnown /\ Told /\ Grounded /\ Excused /\ Gathered
      /\ UNCHANGED <<defs, item, edges, todo, status, tooDeep>> /\ stack # <<>> /\ ~Reading /\ ~Reading'
      /\ members' = [members EXCEPT ![x] = IF status[x] = "invalid" THEN {} ELSE Top.got]
      /\ mark' = [mark EXCEPT ![x] = "done"]
  BY DEF TagInv, LeaveTag, inputs, Reading, Visits
<1>2. /\ stack' \in Seq(Frames)
      /\ Len(stack') = Len(stack) - 1 /\ DOMAIN stack' = 1..(Len(stack) - 1)
      /\ \A i \in DOMAIN stack' : i \in DOMAIN stack /\ stack'[i] = stack[i] /\ stack[i].tag # x
      /\ Top.next = Len(edges[x]) + 1
      /\ \A t \in Tags : \A k \in DOMAIN edges[t] : Followed(t, k)' => Followed(t, k)
  BY <1>1, Left
<1>3. /\ Len(stack) \in DOMAIN stack /\ x \in Tags /\ Top \in Frames /\ mark[x] = "open"
      /\ DOMAIN stack = 1..Len(stack) /\ Len(stack) \in Nat
  <2>1. Len(stack) \in DOMAIN stack /\ x \in Tags /\ Top \in Frames
    BY <1>1, TopTyped
  <2>2. DOMAIN stack = 1..Len(stack) /\ Len(stack) \in Nat
    BY <1>1, StackTyped
  <2> QED BY <1>1, <2>1, <2>2 DEF Visits, Top
<1>4. Known' = Known /\ \A t : OwnInvalid(t)' = OwnInvalid(t)
  BY <1>1 DEF Known, OwnInvalid
<1>5. /\ \A t : Below(t)' = Below(t) /\ Requires(t)' = Requires(t)
      /\ \A S : RestOn(S)' = RestOn(S)
      /\ Circular' = Circular /\ Endless' = Endless
  BY <1>1, GraphStays
<1>6. /\ mark' \in [Tags -> {"new", "open", "done"}]
      /\ mark'[x] = "done" /\ \A t \in Tags : t # x => mark'[t] = mark[t]
      /\ members'[x] = (IF status[x] = "invalid" THEN {} ELSE Top.got)
      /\ \A t \in Tags : t # x => members'[t] = members[t]
  BY <1>1, <1>3 DEF TagsTyped
<1> HIDE DEF x
<1>7. TagsTyped'
  <2>1. stack' \in Seq([tag : Tags, next : Nat \ {0}, got : SUBSET Known'])
    BY <1>2, <1>4 DEF Frames
  <2>2. members' \in [Tags -> SUBSET Known']
    <3>1. Top.got \subseteq Known
      BY <1>3 DEF Frames
    <3> QED BY <1>1, <1>4, <3>1 DEF TagsTyped
  <2> QED BY <1>1, <1>4, <1>6, <2>1, <2>2 DEF TagsTyped
<1>8. Visits'
  <2>1. \A i \in DOMAIN stack' : mark'[stack'[i].tag] = "open" /\ stack'[i].next <= Len(edges[stack'[i].tag]) + 1
    <3>1. \A i \in DOMAIN stack' : stack'[i].tag \in Tags
      BY <1>1, <1>2, StackTyped DEF Frames
    <3> QED BY <1>1, <1>2, <1>6, <3>1 DEF Visits
  <2>2. \A i, j \in DOMAIN stack' : i < j =>
          stack'[i].tag # stack'[j].tag /\ stack'[j].tag \in Below(stack'[i].tag)
    BY <1>1, <1>2 DEF Visits
  <2>3. \A t \in Tags : mark'[t] = "open" => \E i \in DOMAIN stack' : stack'[i].tag = t
    <3> SUFFICES ASSUME NEW t \in Tags, mark'[t] = "open" PROVE \E i \in DOMAIN stack' : stack'[i].tag = t
      OBVIOUS
    <3>1. t # x /\ mark[t] = "open"
      BY <1>6
    <3>2. PICK i \in DOMAIN stack : stack[i].tag = t
      BY <1>1, <3>1 DEF Visits
    <3>3. i # Len(stack)
      BY <3>1, <3>2 DEF x, Top
    <3>4. i \in DOMAIN stack'
      BY <1>2, <1>3, <3>3
    <3> QED BY <1>2, <3>2, <3>4
  <2>4. \A t \in Tags : t < todo => mark'[t] # "new"
    BY <1>1, <1>6 DEF Visits
  <2> QED BY <1>1, <1>5, <2>1, <2>2, <2>3, <2>4 DEF Visits
<1>9. AddedKnown'
  BY <1>1, <1>4, AddedStays
<1>10. Told'
  <2>1. ASSUME ~tooDeep, NEW t \in Tags, NEW k \in DOMAIN edges[t], Followed(t, k), edges[t][k].target \in Tags
        PROVE  LET v == edges[t][k].target
               IN /\ mark'[v] # "new" /\ (mark'[v] = "open" => status[v] = "invalid" /\ t \in Endless)
                  /\ edges[t][k].required =>
                       /\ status[v] = "invalid" => status[t] = "invalid"
                       /\ status[v] # "resolved" => status[t] # "resolved"
    BY <1>1, <1>6, <2>1 DEF Told
  <2> QED BY <1>1, <1>2, <1>4, <1>5, <2>1 DEF Told
<1>11. ASSUME ~tooDeep, NEW t \in Tags, NEW k \in DOMAIN edges[t], Followed(t, k), edges[t][k].target = x
       PROVE  /\ t \in Endless
              /\ edges[t][k].required => status[t] = "invalid"
  BY <1>1, <1>3, <1>11 DEF Told
<1>12. \A k \in DOMAIN edges[x] : Followed(x, k)
  <2>1. DOMAIN edges[x] = 1..Len(edges[x]) /\ Len(edges[x]) \in Nat
    BY <1>1, <1>3, StackTyped
  <2>2. \A k \in DOMAIN edges[x] : k < Top.next
    BY <1>2, <2>1
  <2> QED BY <1>3, <2>2 DEF Followed, Top, x
<1>13. Grounded'
  <2> SUFFICES ASSUME ~tooDeep, NEW T \in SUBSET Tags, T # {},
                      \A t \in T : mark'[t] = "done" /\ status[t] # "invalid"
               PROVE  \E t \in T : Requires(t) \cap T = {}
    BY <1>1, <1>5 DEF Grounded
  <2>1. ASSUME NEW t \in T PROVE x \notin Requires(t)
    <3> SUFFICES ASSUME x \in Requires(t) PROVE FALSE
      OBVIOUS
    <3>1. PICK k \in DOMAIN edges[t] : edges[t][k].target = x /\ edges[t][k].required
      BY RequiresMeans
    <3>2. Followed(t, k)
      BY <1>6, <1>12, <3>1 DEF Followed
    <3> QED BY <1>11, <3>1, <3>2
  <2> DEFINE rest == T \ {x}
  <2>2. CASE rest = {}
    BY <2>1, <2>2
  <2>3. CASE rest # {}
    <3>1. rest \in SUBSET Tags /\ \A t \in rest : mark[t] = "done" /\ status[t] # "invalid"
      BY <1>6
    <3> HIDE DEF rest
    <3>2. PICK t \in rest : Requires(t) \cap rest = {}
      BY <1>1, <2>3, <3>1 DEF Grounded
    <3> QED BY <2>1, <3>2 DEF rest
  <2> QED BY <2>2, <2>3
<1>14. Excused'
  BY <1>1, <1>4, <1>5 DEF Excused
<1>15. Gathered'
  <2>1. ASSUME ~tooDeep, NEW t \in Tags \ Endless, NEW n, \A k \in 1..n : k \in DOMAIN edges[t] /\ Followed(t, k)
        PROVE  GatheredBy(t, n)' = GatheredBy(t, n)
    <3>1. \A k \in 1..n : edges[t][k].target \in Tags => members'[edges[t][k].target] = members[edges[t][k].target]
      BY <1>6, <1>11, <2>1
    <3> QED BY <1>1, <3>1, GatheredStays
  <2>2. ASSUME ~tooDeep, NEW i \in DOMAIN stack, NEW t \in Tags \ Endless, t = stack[i].tag,
               NEW n, n = stack[i].next - 1
        PROVE  stack[i].got = GatheredBy(t, n) /\ GatheredBy(t, n)' = GatheredBy(t, n)
    <3>1. n \in Nat /\ n <= Len(edges[t]) /\ Len(edges[t]) \in Nat /\ DOMAIN edges[t] = 1..Len(edges[t])
          /\ stack[i].next = n + 1
      <4>1. stack[i] \in Frames
        BY <1>1, StackTyped
      <4>2. stack[i].next <= Len(edges[t]) + 1
        BY <1>1, <2>2 DEF Visits
      <4> QED BY <1>1, <2>2, <4>1, <4>2, StackTyped DEF Frames
    <3>2. \A k \in 1..n : k \in DOMAIN edges[t] /\ k < stack[i].next
      BY <3>1
    <3>3. \A k \in 1..n : k \in DOMAIN edges[t] /\ Followed(t, k)
      BY <2>2, <3>2 DEF Followed
    <3>4. GatheredBy(t, n)' = GatheredBy(t, n)
      BY <2>1, <2>2, <3>3
    <3>5. stack[i].got = GatheredBy(t, n)
      BY <1>1, <2>2 DEF Gathered
    <3> QED BY <3>4, <3>5
  <2>3. ASSUME ~tooDeep, NEW t \in Tags \ Endless, mark[t] = "done" \/ t = x, NEW n, n = Len(edges[t])
        PROVE  GatheredBy(t, n)' = GatheredBy(t, n)
    <3>1. DOMAIN edges[t] = 1..n
      BY <1>1, <2>3, StackTyped
    <3>2. \A k \in 1..n : k \in DOMAIN edges[t] /\ Followed(t, k)
      BY <1>12, <2>3, <3>1 DEF Followed
    <3> QED BY <2>1, <2>3, <3>2
  <2>4. ASSUME ~tooDeep, NEW i \in DOMAIN stack', stack'[i].tag \notin Endless
        PROVE  stack'[i].got = GatheredBy(stack[i].tag, stack[i].next - 1)'
    <3>1. i \in DOMAIN stack /\ stack'[i] = stack[i] /\ stack[i].tag \in Tags
      BY <1>1, <1>2, StackTyped DEF Frames
    <3> DEFINE t == stack[i].tag
               n == stack[i].next - 1
    <3>2. \A tt \in Tags \ Endless : \A m : tt = t /\ m = n =>
            stack[i].got = GatheredBy(tt, m) /\ GatheredBy(tt, m)' = GatheredBy(tt, m)
      BY <2>2, <2>4, <3>1
    <3> QED BY <2>4, <3>1, <3>2
  <2>5. ASSUME ~tooDeep, NEW t \in Tags, mark'[t] = "done"
        PROVE  /\ status[t] = "invalid" => members'[t] = {}
               /\ t \notin Endless =>
                    members'[t] = IF status[t] = "invalid" THEN {} ELSE GatheredBy(t, Len(edges[t]))'
    <3>1. t \notin Endless => \A m : m = Len(edges[t]) => GatheredBy(t, m)' = GatheredBy(t, m)
      BY <1>6, <2>3, <2>5
    <3>2. t \notin Endless => GatheredBy(t, Len(edges[t]))' = GatheredBy(t, Len(edges[t]))
      BY <1>1, <3>1
    <3>3. CASE t = x
      <4>1. t \notin Endless => Top.got = GatheredBy(t, Len(edges[t]))
        <5>1. Len(edges[x]) \in Nat /\ Top.next = Len(edges[x]) + 1 /\ Top.next - 1 = Len(edges[x])
          BY <1>1, <1>2, <1>3, StackTyped
        <5>2. x \notin Endless => Top.got = GatheredBy(x, Top.next - 1)
          BY <1>1, <1>3, <2>5 DEF Gathered, Top, x
        <5> QED BY <3>3, <5>1, <5>2
      <4> QED BY <1>6, <3>2, <3>3, <4>1
    <3>4. CASE t # x
      BY <1>1, <1>6, <2>5, <3>2, <3>4 DEF Gathered
    <3> QED BY <3>3, <3>4
  <2> QED BY <1>1, <1>5, <2>4, <2>5 DEF Gathered
<1> QED BY <1>7, <1>8, <1>9, <1>10, <1>13, <1>14, <1>15 DEF TagInv

-----------------------------------------------------------------------------
(* The invariant of the visits, and what it says in the end. *)

LEMMA TagInitHolds == TagInit => TagInv
<1> SUFFICES ASSUME TagInit PROVE TagInv
  OBVIOUS
<1>1. AllNew /\ Reading /\ \A t \in Tags : edges[t] = <<>> /\ defs[t] = <<>>
  BY DEF TagInit, AllNew, Reading
<1>2. Grounded /\ Gathered /\ NoneFollowed
  BY <1>1, NothingFollowed
<1>3. TagsTyped
  <2>1. todo \in 0..(LastTag + 1)
    BY TagAssumptions DEF TagInit
  <2>2. stack \in Seq([tag : Tags, next : Nat \ {0}, got : SUBSET Known])
    BY DEF TagInit
  <2>3. <<>> \in Seq(DefinitionType) /\ <<>> \in Seq(EdgeType) /\ {} \in SUBSET Known
    OBVIOUS
  <2>4. /\ defs \in [Tags -> Seq(DefinitionType)] /\ edges \in [Tags -> Seq(EdgeType)]
        /\ members \in [Tags -> SUBSET Known]
    BY <2>3, Zenon DEF TagInit
  <2>5. /\ item \in [Items -> {"absent", "reference", "model"}]
        /\ mark \in [Tags -> {"new", "open", "done"}]
        /\ status \in [Tags -> {"missing", "partial", "invalid", "resolved"}] /\ tooDeep \in BOOLEAN
    BY DEF TagInit
  <2> QED BY <2>1, <2>2, <2>4, <2>5 DEF TagsTyped
<1>4. Visits
  <2>1. \A t \in Tags : ~(t < todo)
    BY DEF TagInit, Tags
  <2> QED BY <1>1, <2>1 DEF AllNew, Visits
<1>5. AddedKnown
  BY <1>1 DEF AddedKnown
<1>6. Told /\ Excused
  BY <1>1, <1>2 DEF Told, Excused, NoneFollowed
<1> QED BY <1>2, <1>3, <1>4, <1>5, <1>6 DEF TagInv

LEMMA TagStutter ==
  ASSUME TagInv, UNCHANGED tagVars
  PROVE  TagInv'
<1>1. UNCHANGED <<defs, item, edges, todo, stack, mark, status, members, tooDeep>>
  BY DEF tagVars, inputs, visits
<1>2. TagsTyped /\ Visits /\ AddedKnown /\ Told /\ Grounded /\ Excused /\ Gathered
  BY DEF TagInv
<1>3. /\ \A t : Below(t)' = Below(t) /\ Requires(t)' = Requires(t) /\ OwnInvalid(t)' = OwnInvalid(t)
      /\ \A S : RestOn(S)' = RestOn(S)
      /\ Circular' = Circular /\ Endless' = Endless /\ Known' = Known
  BY <1>1, GraphStays DEF OwnInvalid, Known
<1>4. \A t, n : GatheredBy(t, n)' = GatheredBy(t, n) /\ Followed(t, n)' = Followed(t, n)
  BY <1>1, GatheredStays DEF Followed
<1>5. TagsTyped' /\ Visits'
  BY <1>1, <1>2, <1>3 DEF TagsTyped, Visits, Reading
<1>6. AddedKnown' /\ Told' /\ Grounded'
  BY <1>1, <1>2, <1>3, <1>4 DEF AddedKnown, Told, Grounded, Reading
<1>7. Excused' /\ Gathered'
  BY <1>1, <1>2, <1>3, <1>4 DEF Excused, Gathered, Reading
<1> QED BY <1>5, <1>6, <1>7 DEF TagInv

LEMMA TagNextKeeps == TagInv /\ [TagNext]_tagVars => TagInv'
<1> SUFFICES ASSUME TagInv, [TagNext]_tagVars PROVE TagInv'
  OBVIOUS
<1>1. CASE \E i \in Items : AddModel(i)
  BY <1>1, AddModelKeeps
<1>2. CASE \E is \in SUBSET Items : AddRecipe(is)
  BY <1>2, AddRecipeKeeps
<1>3. CASE \E n \in 1..MaxSize :
             Size + n <= MaxSize /\ \E t \in Tags, d \in Definitions[n] : AddDefinition(t, d)
  <2>1. PICK n \in 1..MaxSize : \E t \in Tags, d \in Definitions[n] : AddDefinition(t, d)
    BY <1>3
  <2>2. PICK t \in Tags, d \in Definitions[n] : AddDefinition(t, d)
    BY <2>1
  <2>3. d \in DefinitionType
    BY <2>2, TagAssumptions
  <2> QED BY <2>2, <2>3, AddDefinitionKeeps
<1>4. CASE BeginFinish \/ VisitKey \/ VisitTag
  BY <1>4, BeginKeeps, VisitKeyKeeps, VisitTagKeeps
<1>5. CASE FollowItem \/ FollowTag
  BY <1>5, FollowItemKeeps, FollowTagKeeps
<1>6. CASE LeaveTag
  BY <1>6, LeaveKeeps
<1>7. CASE UNCHANGED tagVars
  BY <1>7, TagStutter
<1> QED BY <1>1, <1>2, <1>3, <1>4, <1>5, <1>6, <1>7 DEF TagNext

(* The visits keep their invariant: whatever definitions are found, in      *)
(* whatever order, each tag on the stack lies below those before it, and a  *)
(* followed edge has told its tag what it led to (catalogBuilder.finish).   *)
THEOREM TagInvariance == TagSpec => []TagInv
BY TagInitHolds, TagNextKeeps, PTL DEF TagSpec

(* Every variable has its type, and the members of a tag are items the      *)
(* catalog lists.                                                          *)
THEOREM TagsTyping == TagSpec => []TagsTyped
<1>1. TagInv => TagsTyped
  BY DEF TagInv
<1> QED BY <1>1, TagInvariance, PTL

(* In the end every tag has been visited and every edge followed.          *)
LEMMA AllVisited ==
  ASSUME TagInv, Finished
  PROVE  ~Reading /\ \A t \in Tags : mark[t] = "done" /\ \A k \in DOMAIN edges[t] : Followed(t, k)
<1>1. todo > LastTag /\ DOMAIN stack = {}
  BY DEF Finished
<1>2. \A t \in Tags : t < todo
  BY <1>1, TagAssumptions DEF Tags, TagInv, TagsTyped
<1>3. ASSUME NEW t \in Tags PROVE mark[t] = "done"
  <2>1. mark[t] # "new" /\ mark[t] # "open"
    BY <1>1, <1>2 DEF TagInv, Visits
  <2> QED BY <2>1 DEF TagInv, TagsTyped
<1>4. ~Reading
  BY <1>1, TagAssumptions DEF Reading
<1> QED BY <1>3, <1>4 DEF Followed

LEMMA TrustHolds == TagInv => StatusTellsTrust
<1> SUFFICES ASSUME TagInv, Finished, ~tooDeep
             PROVE  /\ \A t \in Doomed : status[t] = "invalid" /\ members[t] = {}
                    /\ {t \in Tags : status[t] = "invalid"} \subseteq RestOn(Circular \cup {t \in Tags : OwnInvalid(t)})
                    /\ \A t \in Tags : status[t] = "resolved" => \A u \in Requires(t) : status[u] = "resolved"
  BY DEF StatusTellsTrust
<1>1. ~Reading /\ \A t \in Tags : mark[t] = "done" /\ \A k \in DOMAIN edges[t] : Followed(t, k)
  BY AllVisited
<1>2. Told /\ Grounded /\ Excused /\ Gathered
  BY DEF TagInv
<1>3. ASSUME NEW t \in Tags, NEW u \in Requires(t)
      PROVE  /\ status[u] = "invalid" => status[t] = "invalid"
             /\ status[u] # "resolved" => status[t] # "resolved"
  <2>1. PICK k \in DOMAIN edges[t] : edges[t][k].target = u /\ edges[t][k].required
    BY RequiresMeans
  <2>2. u \in Tags
    BY RequiresMeans
  <2> QED BY <1>1, <1>2, <2>1, <2>2 DEF Told
<1>4. ASSUME NEW T \in SUBSET Tags, \A t \in T : OwnInvalid(t) \/ Requires(t) \cap T # {}
      PROVE  \A t \in T : status[t] = "invalid"
  <2> DEFINE rest == {t \in T : status[t] # "invalid"}
  <2> SUFFICES ASSUME rest # {} PROVE FALSE
    OBVIOUS
  <2>1. rest \in SUBSET Tags /\ \A t \in rest : mark[t] = "done" /\ status[t] # "invalid"
    BY <1>1
  <2>2. PICK t \in rest : Requires(t) \cap rest = {}
    <3> HIDE DEF rest
    <3> QED BY <1>2, <2>1 DEF Grounded
  <2>3. PICK u \in Requires(t) : u \in T
    BY <1>1, <1>2, <1>4, <2>2 DEF Told
  <2> QED BY <1>3, <2>2, <2>3
<1>5. ASSUME NEW t \in Doomed PROVE status[t] = "invalid" /\ members[t] = {}
  <2>1. PICK T \in SUBSET Tags : t \in T /\ \A s \in T : OwnInvalid(s) \/ Requires(s) \cap T # {}
    BY DEF Doomed
  <2>2. status[t] = "invalid"
    BY <1>4, <2>1
  <2> QED BY <1>1, <1>2, <2>1, <2>2 DEF Gathered
<1>6. {t \in Tags : status[t] = "invalid"} \subseteq RestOn(Circular \cup {t \in Tags : OwnInvalid(t)})
  BY <1>1, <1>2 DEF Excused
<1> QED BY <1>3, <1>5, <1>6

(* When finish is through, the status of a tag tells what can be relied on: *)
(* what is broken, or requires something broken or itself, is invalid and   *)
(* empty; what is invalid has such a reason or rests on a cycle; what is    *)
(* resolved requires resolved tags only (catalogBuilder.finish).            *)
THEOREM TrustTold == TagSpec => []StatusTellsTrust
BY TrustHolds, TagInvariance, PTL

(* When finish is through, a tag that leads to no cycle has the members     *)
(* that its definitions say, whichever tag was visited first.               *)
THEOREM MembersDefined == TagSpec => []MembersAsDefined
<1>1. TagInv => MembersAsDefined
  <2> SUFFICES ASSUME TagInv, Finished, ~tooDeep
               PROVE  \A t \in Tags \ Endless :
                        members[t] = IF status[t] = "invalid" THEN {} ELSE GatheredBy(t, Len(edges[t]))
    BY DEF MembersAsDefined
  <2>1. Gathered /\ \A t \in Tags : mark[t] = "done"
    BY AllVisited DEF TagInv
  <2> QED BY <2>1 DEF Gathered
<1> QED BY <1>1, TagInvariance, PTL
=============================================================================
