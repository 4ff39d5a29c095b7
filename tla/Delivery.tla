------------------------------ MODULE Delivery ------------------------------
(***************************************************************************)
(* Delivery checks and the build of archives: service/build.go and the     *)
(* tables of store/publish_repo.go behind it, with several builds at once, *)
(* by HTTP requests and by the worker, and a stop of the process at any    *)
(* point.  The archive is a function of its input, so a file is right when *)
(* it is there at all.                                                     *)
(***************************************************************************)
EXTENDS Naturals, FiniteSets

CONSTANTS
  PackVersions,  \* versions, of one pack or of several
  Name,          \* Name[v]: what the file names of version v begin with
  Snapshots,     \* lock, content, quest and configuration snapshots of an input
  FileSets,      \* its files
  NoSnapshot,
  Dirs, NoDir,   \* export directories
  Kinds,         \* kinds of delivery checks
  Builders,      \* builds at the same time
  Faults         \* which of "stop" and "database" happen

Inputs == [snapshot : Snapshots, files : FileSets]

ASSUME DeliveryAssumptions ==
  /\ NoSnapshot \notin Snapshots
  /\ NoDir \notin Dirs
  /\ Faults \subseteq {"stop", "database"}

VARIABLES
  known,     \* pack_versions
  lock,      \* lock[v]: the snapshot that lock_id demands
  inputs,    \* inputs[v]: the snapshot in pack_version_inputs
  blocked,   \* blocked[v]: kinds of the version's delivery checks that are blocked
  allowed,   \* allowed_export_dirs
  artifact,  \* artifact[v][i]: where the row says the archive of input i is
  disk,      \* files in the export directories
  faults,    \* history: those of Faults that happened
  build      \* build[b]: the step, and the arguments, of build b

vars == <<known, lock, inputs, blocked, allowed, artifact, disk, faults, build>>
tables == <<known, lock, inputs, blocked, allowed, artifact>>

Idle == [step |-> "idle"]
At(b, step) == build[b].step = step
GoTo(b, step) == build' = [build EXCEPT ![b].step = step]
Return(b) == build' = [build EXCEPT ![b] = Idle]

File(v, i, dir) == <<Name[v], i, dir>>
FinalPath(b) == File(build[b].version, build[b].input, build[b].dir)
Row(b) == artifact[build[b].version][build[b].input]

-----------------------------------------------------------------------------
CreatePackVersion ==
  /\ \E v \in PackVersions \ known : known' = known \cup {v}
  /\ UNCHANGED <<lock, inputs, blocked, allowed, artifact, disk, faults, build>>

RegisterExportDirectory ==
  /\ \E dir \in Dirs : allowed' = allowed \cup {dir}
  /\ UNCHANGED <<known, lock, inputs, blocked, artifact, disk, faults, build>>

(* A resolve binds the pack's current version to its lock (Resolve).       *)
SetCurrentLock ==
  /\ \E v \in known, s \in Snapshots : lock' = [lock EXCEPT ![v] = s]
  /\ UNCHANGED <<known, inputs, blocked, allowed, artifact, disk, faults, build>>

(* Kinds that are not in the request keep what they had.                   *)
RunDeliveryChecks ==
  /\ \E v \in known, bad, good \in SUBSET Kinds :
       /\ bad \cap good = {}
       /\ blocked' = [blocked EXCEPT ![v] = (@ \ good) \cup bad]
  /\ UNCHANGED <<known, lock, inputs, allowed, artifact, disk, faults, build>>

-----------------------------------------------------------------------------
(* BuildPack *)

GetExportDir == allowed

(* The version, its lock and the directory, and the checks that came with  *)
(* the request: none of those may be blocked, and only a request without   *)
(* any looks at the ones that are stored.                                  *)
BuildPack(b) ==
  /\ At(b, "idle")
  /\ \E v \in known, i \in Inputs, dir \in GetExportDir, good \in SUBSET Kinds :
       /\ lock[v] \in {NoSnapshot, i.snapshot}
       /\ build' = [build EXCEPT ![b] =
            [step |-> IF good = {} THEN "gate" ELSE "lookup",
             version |-> v, input |-> i, dir |-> dir, good |-> good]]
  /\ UNCHANGED <<tables, disk, faults>>

HasBlockedDeliveryCheck(b) ==
  /\ At(b, "gate")
  /\ IF blocked[build[b].version] = {} THEN GoTo(b, "lookup") ELSE Return(b)
  /\ UNCHANGED <<tables, disk, faults>>

(* A row ends the build: with the artifact, or with ErrArtifactMissing.    *)
GetArtifactByFingerprint(b) ==
  /\ At(b, "lookup")
  /\ IF Row(b) = NoDir THEN GoTo(b, "record") ELSE Return(b)
  /\ UNCHANGED <<tables, disk, faults>>

(* Mutant: the inputs of the version are replaced.                         *)
RecordLatestInputs(b) ==
  LET v == build[b].version IN
  /\ At(b, "record")
  /\ inputs' = [inputs EXCEPT ![v] = build[b].input.snapshot]
  /\ blocked' = [blocked EXCEPT ![v] = @ \ build[b].good]
  /\ GoTo(b, "rename")
  /\ UNCHANGED <<known, lock, allowed, artifact, disk, faults>>

RecordBuildInputs(b) ==
  LET v == build[b].version  s == build[b].input.snapshot IN
  /\ At(b, "record")
  /\ IF inputs[v] \in {NoSnapshot, s}
     THEN /\ inputs' = [inputs EXCEPT ![v] = s]
          /\ blocked' = [blocked EXCEPT ![v] = @ \ build[b].good]
          /\ GoTo(b, "rename")
     ELSE Return(b) /\ UNCHANGED <<inputs, blocked>>
  /\ UNCHANGED <<known, lock, allowed, artifact, disk, faults>>

(* The temporary file is written, checked and renamed, or the build fails. *)
Rename(b) ==
  /\ At(b, "rename")
  /\ \/ disk' = disk \cup {FinalPath(b)} /\ GoTo(b, "hash")
     \/ Return(b) /\ UNCHANGED disk
  /\ UNCHANGED <<tables, faults>>

HashFile(b) ==
  /\ At(b, "hash")
  /\ GoTo(b, IF FinalPath(b) \in disk THEN "register" ELSE "remove")
  /\ UNCHANGED <<tables, disk, faults>>

(* Mutants: what lost the race is removed wherever it is, or never.        *)
RegisterOrRemove(b) ==
  /\ At(b, "register")
  /\ IF Row(b) = NoDir
     THEN /\ artifact' = [artifact EXCEPT ![build[b].version][build[b].input] = build[b].dir]
          /\ Return(b)
     ELSE GoTo(b, "remove") /\ UNCHANGED artifact
  /\ UNCHANGED <<known, lock, inputs, blocked, allowed, disk, faults>>
RegisterAndKeep(b) ==
  /\ At(b, "register")
  /\ artifact' = [artifact EXCEPT ![build[b].version][build[b].input] = IF @ = NoDir THEN build[b].dir ELSE @]
  /\ Return(b)
  /\ UNCHANGED <<known, lock, inputs, blocked, allowed, disk, faults>>

(* The first row of a version and fingerprint stays.  A build whose row is *)
(* another's removes its own file, unless both name the same file; so does *)
(* one whose row could not be written, or not be read again.               *)
RegisterArtifact(b) ==
  LET kept == IF Row(b) = NoDir THEN build[b].dir ELSE Row(b)
      registered == [artifact EXCEPT ![build[b].version][build[b].input] = kept]
  IN
  /\ At(b, "register")
  /\ \/ /\ artifact' = registered
        /\ IF kept = build[b].dir THEN Return(b) ELSE GoTo(b, "remove")
        /\ UNCHANGED faults
     \/ /\ "database" \in Faults
        /\ faults' = faults \cup {"database"}
        /\ artifact' \in {artifact, registered}
        /\ GoTo(b, "remove")
  /\ UNCHANGED <<known, lock, inputs, blocked, allowed, disk>>

RemoveFile(b) ==
  /\ At(b, "remove")
  /\ disk' = disk \ {FinalPath(b)}
  /\ Return(b)
  /\ UNCHANGED <<tables, faults>>

(* Tables and renamed files outlive the process; a task's build may run    *)
(* again, a request's is gone.                                             *)
Stop ==
  /\ "stop" \in Faults
  /\ build' = [b \in Builders |-> Idle]
  /\ faults' = faults \cup {"stop"}
  /\ UNCHANGED <<tables, disk>>

-----------------------------------------------------------------------------
Init ==
  /\ known = {}
  /\ lock = [v \in PackVersions |-> NoSnapshot]
  /\ inputs = [v \in PackVersions |-> NoSnapshot]
  /\ blocked = [v \in PackVersions |-> {}]
  /\ allowed = {}
  /\ artifact = [v \in PackVersions |-> [i \in Inputs |-> NoDir]]
  /\ disk = {}
  /\ faults = {}
  /\ build = [b \in Builders |-> Idle]

Step(b) ==
  \/ BuildPack(b) \/ HasBlockedDeliveryCheck(b) \/ GetArtifactByFingerprint(b)
  \/ RecordBuildInputs(b) \/ Rename(b) \/ HashFile(b) \/ RegisterArtifact(b) \/ RemoveFile(b)

Next ==
  \/ CreatePackVersion \/ RegisterExportDirectory \/ SetCurrentLock \/ RunDeliveryChecks
  \/ \E b \in Builders : Step(b)
  \/ Stop

Spec == Init /\ [][Next]_vars

-----------------------------------------------------------------------------
Builds ==
  [step : {"gate", "lookup", "record", "rename", "hash", "register", "remove"},
   version : PackVersions, input : Inputs, dir : Dirs, good : SUBSET Kinds]

(* Every variable has its type.                                            *)
TypeOK ==
  /\ known \subseteq PackVersions
  /\ lock \in [PackVersions -> Snapshots \cup {NoSnapshot}]
  /\ inputs \in [PackVersions -> Snapshots \cup {NoSnapshot}]
  /\ blocked \in [PackVersions -> SUBSET Kinds]
  /\ allowed \subseteq Dirs
  /\ artifact \in [PackVersions -> [Inputs -> Dirs \cup {NoDir}]]
  /\ disk \subseteq {Name[v] : v \in PackVersions} \X Inputs \X Dirs
  /\ faults \subseteq Faults
  /\ build \in [Builders -> Builds \cup {Idle}]

(* All archives of a version were made from the snapshot that is recorded  *)
(* for it, whichever builds ran at once and however its lock moved         *)
(* (publish_repo.go:174: a version cannot silently change its inputs).     *)
InputsExplainArtifacts ==
  \A v \in PackVersions, i \in Inputs : artifact[v][i] # NoDir => inputs[v] = i.snapshot

(* The archive that a row names is there: no build that lost a race        *)
(* removes it (build.go:376), and no stop of the process comes between.    *)
(* Once the database has failed a registration it is not so (its build     *)
(* removes the file of another), nor with versions of the same name.       *)
ReadyHasFile ==
  "database" \in faults \/ \A v \in PackVersions, i \in Inputs :
    artifact[v][i] # NoDir => File(v, i, artifact[v][i]) \in disk

(* Files that no row names are those of builds under way, unless the       *)
(* process stopped between the rename and the registration.                *)
FilesAreAccountedFor ==
  "stop" \in faults \/ \A f \in disk :
    \/ \E v \in PackVersions, i \in Inputs : artifact[v][i] # NoDir /\ f = File(v, i, artifact[v][i])
    \/ \E b \in Builders : build[b].step \in {"hash", "register", "remove"} /\ f = FinalPath(b)
=============================================================================
