---------------------------- MODULE DeliveryProofs ---------------------------
(***************************************************************************)
(* Proofs about Delivery, for every set of versions, inputs, directories   *)
(* and builds at the same time.  A row of artifact is never written over,  *)
(* and the arguments of a build stay what they were; what the invariants   *)
(* add is what a build that is past a step may rely on.                    *)
(***************************************************************************)
EXTENDS Delivery, TLAPS

USE DeliveryAssumptions

(* A build that recorded its inputs: they are those of the version.        *)
Recorded ==
  \A b \in Builders : build[b].step \in {"rename", "hash", "register", "remove"} =>
    inputs[build[b].version] = build[b].input.snapshot

(* A build whose file is gone, or is to go, does not own the row.          *)
Lost(b) == Row(b) \notin {NoDir, build[b].dir}
LosersOnly ==
  "database" \in faults \/ \A b \in Builders :
    /\ At(b, "remove") => Lost(b)
    /\ build[b].step \in {"hash", "register"} => FinalPath(b) \in disk \/ Lost(b)

(* Versions whose files could be taken for one another's do not exist.     *)
DistinctNames == \A v, w \in PackVersions : Name[v] = Name[w] => v = w

IInv == TypeOK /\ Recorded /\ InputsExplainArtifacts /\ FilesAreAccountedFor
FileInv == TypeOK /\ LosersOnly /\ ReadyHasFile

-----------------------------------------------------------------------------
(* Typing. *)

(* A build that is under way has arguments.                                *)
LEMMA Arguments ==
  ASSUME TypeOK, NEW b \in Builders, build[b].step # "idle"
  PROVE  /\ build[b] \in Builds
         /\ build[b].version \in PackVersions
         /\ build[b].input \in Inputs /\ build[b].input.snapshot \in Snapshots
         /\ build[b].dir \in Dirs /\ build[b].good \in SUBSET Kinds
         /\ build[b].version \in DOMAIN artifact
         /\ FinalPath(b) \in {Name[v] : v \in PackVersions} \X Inputs \X Dirs
         /\ Row(b) \in Dirs \cup {NoDir}
<1>1. build[b] \in Builds
  BY DEF TypeOK, Idle
<1>2. /\ build[b].version \in PackVersions /\ build[b].input \in Inputs
      /\ build[b].dir \in Dirs /\ build[b].good \in SUBSET Kinds
  BY <1>1 DEF Builds
<1>3. build[b].input.snapshot \in Snapshots
  BY <1>2 DEF Inputs
<1>4. FinalPath(b) \in {Name[v] : v \in PackVersions} \X Inputs \X Dirs
  <2>1. Name[build[b].version] \in {Name[v] : v \in PackVersions}
    BY <1>2
  <2> QED BY <1>2, <2>1 DEF FinalPath, File
<1>5. Row(b) \in Dirs \cup {NoDir} /\ build[b].version \in DOMAIN artifact
  BY <1>2 DEF Row, TypeOK
<1> QED BY <1>1, <1>2, <1>3, <1>4, <1>5

(* A step of a build keeps its arguments.                                  *)
LEMMA GoToTyped ==
  ASSUME TypeOK, NEW b \in Builders, build[b].step # "idle",
         NEW step \in {"lookup", "record", "rename", "hash", "register", "remove"}, GoTo(b, step)
  PROVE  /\ build' \in [Builders -> Builds \cup {Idle}]
         /\ build'[b].step = step
         /\ build'[b].version = build[b].version
         /\ build'[b].input = build[b].input
         /\ build'[b].dir = build[b].dir
         /\ \A c \in Builders \ {b} : build'[c] = build[c]
  BY Arguments DEF TypeOK, GoTo, Builds

(* A build that returns is idle.                                           *)
LEMMA ReturnTyped ==
  ASSUME TypeOK, NEW b \in Builders, Return(b)
  PROVE  /\ build' \in [Builders -> Builds \cup {Idle}]
         /\ build'[b].step = "idle"
         /\ \A c \in Builders \ {b} : build'[c] = build[c]
  BY DEF TypeOK, Return, Idle

(* What a step may do to build b: nothing, end it, begin it, or go on.     *)
Move(b) ==
  \/ build'[b] = build[b]
  \/ build'[b].step \in {"idle", "gate"}
  \/ build[b].step = "idle" /\ build'[b].step = "lookup"
  \/ /\ build[b].step # "idle"
     /\ build'[b].version = build[b].version
     /\ build'[b].input = build[b].input
     /\ build'[b].dir = build[b].dir
     /\ \/ build'[b].step \in {"lookup", "record"}
        \/ /\ RecordBuildInputs(b) /\ build'[b].step = "rename"
           /\ inputs'[build[b].version] = build[b].input.snapshot
        \/ Rename(b) /\ build'[b].step = "hash" /\ disk' = disk \cup {FinalPath(b)}
        \/ HashFile(b) /\ build'[b].step \in {"register", "remove"}
        \/ RegisterArtifact(b) /\ build'[b].step = "remove"

(* Every step of a build is one of these, and leaves the others alone.     *)
LEMMA StepMoves ==
  ASSUME TypeOK, NEW b \in Builders, Step(b)
  PROVE  /\ build' \in [Builders -> Builds \cup {Idle}]
         /\ Move(b)
         /\ \A c \in Builders \ {b} : build'[c] = build[c]
<1>1. CASE BuildPack(b)
  <2>1. PICK v \in known, i \in Inputs, dir \in allowed, good \in SUBSET Kinds :
          build' = [build EXCEPT ![b] =
            [step |-> IF good = {} THEN "gate" ELSE "lookup",
             version |-> v, input |-> i, dir |-> dir, good |-> good]]
    BY <1>1 DEF BuildPack, GetExportDir
  <2>2. v \in PackVersions /\ dir \in Dirs
    BY DEF TypeOK
  <2>3. [step |-> IF good = {} THEN "gate" ELSE "lookup",
         version |-> v, input |-> i, dir |-> dir, good |-> good] \in Builds
    BY <2>2 DEF Builds
  <2> QED BY <1>1, <2>1, <2>3 DEF TypeOK, Move, BuildPack, At
<1>2. CASE HasBlockedDeliveryCheck(b)
  BY <1>2, GoToTyped, ReturnTyped DEF HasBlockedDeliveryCheck, At, Move
<1>3. CASE GetArtifactByFingerprint(b)
  BY <1>3, GoToTyped, ReturnTyped DEF GetArtifactByFingerprint, At, Move
<1>4. CASE RecordBuildInputs(b)
  <2>1. build[b].step # "idle" /\ inputs \in [PackVersions -> Snapshots \cup {NoSnapshot}]
    BY <1>4 DEF RecordBuildInputs, At, TypeOK
  <2>2. CASE GoTo(b, "rename")
    <3>1. inputs'[build[b].version] = build[b].input.snapshot
      BY <1>4, <2>1, <2>2, Arguments, GoToTyped, ReturnTyped DEF RecordBuildInputs, Return, Idle
    <3> QED BY <1>4, <2>1, <2>2, <3>1, GoToTyped DEF Move
  <2>3. CASE Return(b)
    BY <2>3, ReturnTyped DEF Move
  <2> QED BY <1>4, <2>2, <2>3 DEF RecordBuildInputs
<1>5. CASE Rename(b)
  BY <1>5, GoToTyped, ReturnTyped DEF Rename, At, Move
<1>6. CASE HashFile(b)
  BY <1>6, GoToTyped DEF HashFile, At, Move
<1>7. CASE RegisterArtifact(b)
  BY <1>7, GoToTyped, ReturnTyped DEF RegisterArtifact, At, Move
<1>8. CASE RemoveFile(b)
  BY <1>8, ReturnTyped DEF RemoveFile, Move
<1> QED BY <1>1, <1>2, <1>3, <1>4, <1>5, <1>6, <1>7, <1>8 DEF Step

(* So is every step of the whole.                                          *)
LEMMA Moves ==
  ASSUME TypeOK, [Next]_vars
  PROVE  build' \in [Builders -> Builds \cup {Idle}] /\ \A b \in Builders : Move(b)
<1>1. CASE UNCHANGED build
  BY <1>1 DEF TypeOK, Move
<1>2. ASSUME NEW b \in Builders, Step(b) PROVE build' \in [Builders -> Builds \cup {Idle}] /\ \A c \in Builders : Move(c)
  BY <1>2, StepMoves DEF Move
<1>3. CASE Stop
  BY <1>3 DEF Stop, Idle, Move
<1> QED
  BY <1>1, <1>2, <1>3 DEF Next, vars, CreatePackVersion, RegisterExportDirectory, SetCurrentLock, RunDeliveryChecks

(* What a step may do to the tables, the disk and the history.             *)
Kept ==
  /\ \A v \in PackVersions, i \in Inputs : artifact[v][i] # NoDir => artifact'[v][i] = artifact[v][i]
  /\ \A v \in PackVersions : inputs[v] # NoSnapshot => inputs'[v] = inputs[v]
  /\ faults \subseteq faults'

(* A row, once written, stays, and so do the inputs of a version.          *)
LEMMA TablesKept == ASSUME TypeOK, [Next]_vars PROVE Kept
<1>1. CASE UNCHANGED <<artifact, inputs, faults>>
  BY <1>1 DEF Kept
<1>2. ASSUME NEW b \in Builders, RecordBuildInputs(b) PROVE Kept
  BY <1>2 DEF RecordBuildInputs, Kept, TypeOK
<1>3. ASSUME NEW b \in Builders, RegisterArtifact(b) PROVE Kept
  <2>1. build[b].step # "idle"
    BY <1>3 DEF RegisterArtifact, At
  <2> QED BY <1>3, <2>1, Arguments DEF RegisterArtifact, Kept, TypeOK, Row
<1>4. CASE Stop
  BY <1>4 DEF Stop, Kept, tables
<1> QED
  BY <1>1, <1>2, <1>3, <1>4
  DEF Next, vars, tables, Step, CreatePackVersion, RegisterExportDirectory, SetCurrentLock,
      RunDeliveryChecks, BuildPack, HasBlockedDeliveryCheck, GetArtifactByFingerprint, Rename,
      HashFile, RemoveFile

(* The types are preserved by every step.                                  *)
LEMMA TypeStep == ASSUME TypeOK, [Next]_vars PROVE TypeOK'
<1>0. build' \in [Builders -> Builds \cup {Idle}]
  BY Moves
<1> USE DEF TypeOK
<1>1. CASE CreatePackVersion
  BY <1>0, <1>1 DEF CreatePackVersion
<1>2. CASE RegisterExportDirectory
  BY <1>0, <1>2 DEF RegisterExportDirectory
<1>3. CASE SetCurrentLock
  BY <1>0, <1>3 DEF SetCurrentLock
<1>4. CASE RunDeliveryChecks
  BY <1>0, <1>4 DEF RunDeliveryChecks
<1>5. ASSUME NEW b \in Builders,
             BuildPack(b) \/ HasBlockedDeliveryCheck(b) \/ GetArtifactByFingerprint(b) \/ HashFile(b)
      PROVE  TypeOK'
  BY <1>0, <1>5 DEF BuildPack, HasBlockedDeliveryCheck, GetArtifactByFingerprint, HashFile, tables
<1>6. ASSUME NEW b \in Builders, RecordBuildInputs(b) PROVE TypeOK'
  <2>1. build[b].input.snapshot \in Snapshots
    BY <1>6, Arguments DEF RecordBuildInputs, At
  <2>2. inputs' \in [PackVersions -> Snapshots \cup {NoSnapshot}]
    BY <1>6, <2>1 DEF RecordBuildInputs
  <2>3. blocked' \in [PackVersions -> SUBSET Kinds]
    BY <1>6 DEF RecordBuildInputs
  <2> QED BY <1>0, <1>6, <2>2, <2>3 DEF RecordBuildInputs
<1>7. ASSUME NEW b \in Builders, Rename(b) \/ RemoveFile(b) PROVE TypeOK'
  <2>1. FinalPath(b) \in {Name[v] : v \in PackVersions} \X Inputs \X Dirs
    BY <1>7, Arguments DEF Rename, RemoveFile, At
  <2> QED BY <1>0, <1>7, <2>1 DEF Rename, RemoveFile, tables
<1>8. ASSUME NEW b \in Builders, RegisterArtifact(b) PROVE TypeOK'
  <2>1. build[b].dir \in Dirs /\ Row(b) \in Dirs \cup {NoDir}
    BY <1>8, Arguments DEF RegisterArtifact, At
  <2>2. artifact' \in [PackVersions -> [Inputs -> Dirs \cup {NoDir}]]
    BY <1>8, <2>1 DEF RegisterArtifact
  <2> QED BY <1>0, <1>8, <2>2 DEF RegisterArtifact
<1>9. CASE Stop
  BY <1>0, <1>9 DEF Stop, tables
<1>10. CASE UNCHANGED vars
  BY <1>10 DEF vars
<1> QED BY <1>1, <1>2, <1>3, <1>4, <1>5, <1>6, <1>7, <1>8, <1>9, <1>10 DEF Next, Step

-----------------------------------------------------------------------------
(* One snapshot per version. *)

(* A build past the recording relies on it for good.                       *)
LEMMA RecordedStep == ASSUME TypeOK, Recorded, [Next]_vars PROVE Recorded'
<1> SUFFICES ASSUME NEW b \in Builders, build'[b].step \in {"rename", "hash", "register", "remove"}
             PROVE  inputs'[build'[b].version] = build'[b].input.snapshot
  BY DEF Recorded
<1>1. Move(b)
  BY Moves
<1>2. ASSUME build[b].step \in {"rename", "hash", "register", "remove"},
             build'[b].version = build[b].version, build'[b].input = build[b].input
      PROVE  inputs'[build'[b].version] = build'[b].input.snapshot
  <2>1. /\ inputs[build[b].version] = build[b].input.snapshot
        /\ build[b].input.snapshot \in Snapshots /\ build[b].version \in PackVersions
    BY <1>2, Arguments DEF Recorded
  <2> QED BY <1>2, <2>1, TablesKept DEF Kept
<1> QED BY <1>1, <1>2 DEF Move, Rename, HashFile, RegisterArtifact, At

(* A row that a step writes is that of a build which is registering, and   *)
(* names the directory of this build.                                      *)
LEMMA RowsWritten ==
  ASSUME TypeOK, [Next]_vars, NEW v \in PackVersions, NEW i \in Inputs, artifact'[v][i] # artifact[v][i]
  PROVE  \E b \in Builders :
           /\ RegisterArtifact(b) /\ build[b].version = v /\ build[b].input = i
           /\ artifact[v][i] = NoDir /\ artifact'[v][i] = build[b].dir
<1>1. CASE UNCHANGED artifact
  BY <1>1
<1>2. ASSUME NEW b \in Builders, RegisterArtifact(b)
      PROVE  /\ build[b].version = v /\ build[b].input = i
             /\ artifact[v][i] = NoDir /\ artifact'[v][i] = build[b].dir
  <2>1. build[b].step # "idle"
    BY <1>2 DEF RegisterArtifact, At
  <2> QED BY <1>2, <2>1, Arguments DEF RegisterArtifact, TypeOK, Row
<1> QED
  BY <1>1, <1>2
  DEF Next, vars, tables, Step, CreatePackVersion, RegisterExportDirectory, SetCurrentLock,
      RunDeliveryChecks, BuildPack, HasBlockedDeliveryCheck, GetArtifactByFingerprint,
      RecordBuildInputs, Rename, HashFile, RemoveFile, Stop

(* The recorded snapshot explains the rows before and after every step.    *)
LEMMA ExplainStep ==
  ASSUME TypeOK, Recorded, InputsExplainArtifacts, [Next]_vars
  PROVE  InputsExplainArtifacts'
<1> SUFFICES ASSUME NEW v \in PackVersions, NEW i \in Inputs, artifact'[v][i] # NoDir
             PROVE  inputs'[v] = i.snapshot
  BY DEF InputsExplainArtifacts
<1>1. inputs[v] = i.snapshot
  <2>1. CASE artifact'[v][i] = artifact[v][i]
    BY <2>1 DEF InputsExplainArtifacts
  <2>2. CASE artifact'[v][i] # artifact[v][i]
    <3>1. PICK b \in Builders : RegisterArtifact(b) /\ build[b].version = v /\ build[b].input = i
      BY <2>2, RowsWritten
    <3>2. build[b].step = "register"
      BY <3>1 DEF RegisterArtifact, At
    <3> QED BY <3>1, <3>2 DEF Recorded
  <2> QED BY <2>1, <2>2
<1>2. i.snapshot \in Snapshots
  BY DEF Inputs
<1> QED BY <1>1, <1>2, TablesKept DEF Kept

-----------------------------------------------------------------------------
(* No file is forgotten. *)

(* A file with a row.                                                      *)
HasRow(f) == \E v \in PackVersions, i \in Inputs : artifact[v][i] # NoDir /\ f = File(v, i, artifact[v][i])

(* A row that names a file goes on naming it.                              *)
LEMMA HasRowKept ==
  ASSUME TypeOK, [Next]_vars, NEW f, HasRow(f)
  PROVE  HasRow(f)'
<1>1. PICK v \in PackVersions, i \in Inputs : artifact[v][i] # NoDir /\ f = File(v, i, artifact[v][i])
  BY DEF HasRow
<1>2. artifact'[v][i] = artifact[v][i]
  BY <1>1, TablesKept DEF Kept
<1> QED BY <1>1, <1>2 DEF HasRow, File

(* A build that leaves its last steps registered its file or removed it.   *)
LEMMA LastSteps ==
  ASSUME TypeOK, NEW b \in Builders, Step(b), build[b].step \in {"hash", "register", "remove"},
         NEW f, f = FinalPath(b)
  PROVE  \/ build'[b].step \in {"hash", "register", "remove"} /\ f = FinalPath(b)'
         \/ HasRow(f)'
         \/ f \notin disk'
<1>a. /\ build[b].version \in PackVersions /\ build[b].input \in Inputs /\ build[b].dir \in Dirs
      /\ build[b].step # "idle"
  BY Arguments
<1>1. CASE HashFile(b)
  BY <1>a, <1>1, GoToTyped DEF HashFile, FinalPath
<1>2. CASE RegisterArtifact(b)
  <2>1. CASE GoTo(b, "remove")
    BY <1>a, <2>1, GoToTyped DEF FinalPath
  <2>2. CASE ~GoTo(b, "remove")
    <3>1. artifact'[build[b].version][build[b].input] = build[b].dir
      BY <1>a, <1>2, <2>2 DEF RegisterArtifact, TypeOK
    <3>2. build[b].dir # NoDir
      BY <1>a
    <3> QED BY <1>a, <3>1, <3>2 DEF HasRow, FinalPath, File
  <2> QED BY <2>1, <2>2
<1>3. CASE RemoveFile(b)
  BY <1>3 DEF RemoveFile
<1> QED
  BY <1>1, <1>2, <1>3
  DEF Step, BuildPack, HasBlockedDeliveryCheck, GetArtifactByFingerprint, RecordBuildInputs, Rename, At

(* Files stay accounted for, as long as the process has not stopped.       *)
LEMMA AccountedStep ==
  ASSUME TypeOK, FilesAreAccountedFor, [Next]_vars
  PROVE  FilesAreAccountedFor'
<1> DEFINE Owned(f) == \E b \in Builders : build[b].step \in {"hash", "register", "remove"} /\ f = FinalPath(b)
<1>0. FilesAreAccountedFor <=> ("stop" \in faults \/ \A f \in disk : HasRow(f) \/ Owned(f))
  BY DEF FilesAreAccountedFor, HasRow
<1>1. (\A f \in disk' : HasRow(f)' \/ Owned(f)') \/ "stop" \in faults' => FilesAreAccountedFor'
  BY DEF FilesAreAccountedFor, HasRow
<1>2. SUFFICES ASSUME "stop" \notin faults', NEW f \in disk' PROVE HasRow(f)' \/ Owned(f)'
  BY <1>1
<1>3. "stop" \notin faults
  BY <1>2, TablesKept DEF Kept
<1>4. ASSUME f \in disk, UNCHANGED build PROVE HasRow(f)' \/ Owned(f)'
  BY <1>0, <1>3, <1>4, HasRowKept DEF FinalPath
<1>5. ASSUME NEW b \in Builders, Step(b) PROVE HasRow(f)' \/ Owned(f)'
  <2>1. CASE f \in disk
    <3>1. CASE HasRow(f)
      BY <3>1, HasRowKept
    <3>2. CASE Owned(f)
      <4>1. PICK c \in Builders : build[c].step \in {"hash", "register", "remove"} /\ f = FinalPath(c)
        BY <3>2
      <4>2. CASE c = b
        <5>1. (build'[b].step \in {"hash", "register", "remove"} /\ f = FinalPath(b)') \/ HasRow(f)'
          BY <1>5, <4>1, <4>2, LastSteps
        <5> QED BY <5>1
      <4>3. CASE c # b
        BY <1>5, <4>1, <4>3, StepMoves DEF FinalPath
      <4> QED BY <4>2, <4>3
    <3> QED BY <1>0, <1>3, <2>1, <3>1, <3>2
  <2>2. CASE f \notin disk
    <3>1. Rename(b) /\ f = FinalPath(b) /\ GoTo(b, "hash")
      BY <1>2, <1>5, <2>2
      DEF Step, BuildPack, HasBlockedDeliveryCheck, GetArtifactByFingerprint, RecordBuildInputs,
          Rename, HashFile, RegisterArtifact, RemoveFile
    <3>2. build'[b].step = "hash" /\ FinalPath(b)' = f
      BY <3>1, GoToTyped DEF Rename, At, FinalPath
    <3> QED BY <3>2
  <2> QED BY <2>1, <2>2
<1>6. CASE Stop
  BY <1>2, <1>6 DEF Stop
<1> QED
  BY <1>2, <1>4, <1>5, <1>6
  DEF Next, vars, CreatePackVersion, RegisterExportDirectory, SetCurrentLock, RunDeliveryChecks

-----------------------------------------------------------------------------
(* No archive with a row is removed. *)

(* A lost row stays lost.                                                  *)
LEMMA LostKept ==
  ASSUME TypeOK, [Next]_vars, NEW b \in Builders, build[b].step # "idle", Lost(b),
         build'[b].version = build[b].version, build'[b].input = build[b].input,
         build'[b].dir = build[b].dir
  PROVE  Lost(b)'
  BY Arguments, TablesKept DEF Lost, Row, Kept

(* Only a build that is removing takes a file away: its own.               *)
LEMMA FilesRemoved ==
  ASSUME TypeOK, [Next]_vars, NEW f \in disk, f \notin disk'
  PROVE  \E b \in Builders : RemoveFile(b) /\ f = FinalPath(b)
  BY DEF Next, vars, tables, Step, CreatePackVersion, RegisterExportDirectory, SetCurrentLock,
         RunDeliveryChecks, BuildPack, HasBlockedDeliveryCheck, GetArtifactByFingerprint,
         RecordBuildInputs, Rename, HashFile, RegisterArtifact, RemoveFile, Stop

(* With names that are distinct, it is not one that a row names.           *)
LEMMA RowedFilesStay ==
  ASSUME TypeOK, LosersOnly, DistinctNames, "database" \notin faults, [Next]_vars,
         NEW v \in PackVersions, NEW i \in Inputs, artifact[v][i] # NoDir,
         File(v, i, artifact[v][i]) \in disk
  PROVE  File(v, i, artifact[v][i]) \in disk'
<1> SUFFICES ASSUME NEW b \in Builders, RemoveFile(b), File(v, i, artifact[v][i]) = FinalPath(b)
             PROVE  FALSE
  BY FilesRemoved
<1>1. build[b].version \in PackVersions /\ At(b, "remove")
  BY Arguments DEF RemoveFile, At
<1>2. /\ Name[v] = Name[build[b].version] /\ i = build[b].input /\ artifact[v][i] = build[b].dir
  BY DEF File, FinalPath
<1>3. v = build[b].version
  BY <1>1, <1>2 DEF DistinctNames
<1> QED BY <1>1, <1>2, <1>3 DEF LosersOnly, Lost, Row

(* The file of a build between its rename and its registration stays, or   *)
(* is another's: then the row is as well.                                  *)
LEMMA OwnFileStays ==
  ASSUME TypeOK, LosersOnly, DistinctNames, "database" \notin faults, [Next]_vars,
         NEW b \in Builders, build[b].step # "idle", FinalPath(b) \in disk
  PROVE  FinalPath(b) \in disk' \/ Lost(b)
<1> SUFFICES ASSUME NEW c \in Builders, RemoveFile(c), FinalPath(b) = FinalPath(c)
             PROVE  Lost(b)
  BY FilesRemoved
<1>1. /\ build[b].version \in PackVersions /\ build[c].version \in PackVersions /\ At(c, "remove")
  BY Arguments DEF RemoveFile, At
<1>2. /\ Name[build[b].version] = Name[build[c].version]
      /\ build[b].input = build[c].input /\ build[b].dir = build[c].dir
  BY DEF File, FinalPath
<1>3. build[b].version = build[c].version
  BY <1>1, <1>2 DEF DistinctNames
<1> QED BY <1>1, <1>2, <1>3 DEF LosersOnly, Lost, Row

(* Builds that lost keep their loss, and no other comes to remove a file.  *)
LEMMA LosersStep ==
  ASSUME TypeOK, LosersOnly, DistinctNames, [Next]_vars
  PROVE  LosersOnly'
<1> SUFFICES ASSUME "database" \notin faults', NEW b \in Builders
             PROVE  /\ At(b, "remove")' => Lost(b)'
                    /\ build'[b].step \in {"hash", "register"} => FinalPath(b)' \in disk' \/ Lost(b)'
  BY DEF LosersOnly
<1>0. /\ "database" \notin faults
      /\ At(b, "remove") => Lost(b)
      /\ build[b].step \in {"hash", "register"} => FinalPath(b) \in disk \/ Lost(b)
  BY TablesKept DEF Kept, LosersOnly
<1>1. Move(b)
  BY Moves
<1>2. CASE build'[b] = build[b]
  BY <1>0, <1>2, LostKept, OwnFileStays DEF At, FinalPath
<1>3. CASE build'[b].step \in {"idle", "gate", "lookup", "record", "rename"}
  BY <1>3 DEF At
<1>4. CASE /\ Rename(b) /\ build'[b].step = "hash" /\ disk' = disk \cup {FinalPath(b)}
           /\ build'[b].version = build[b].version /\ build'[b].input = build[b].input
           /\ build'[b].dir = build[b].dir
  BY <1>4 DEF FinalPath, At
<1>5. CASE HashFile(b)
  <2>1. /\ build[b].step = "hash" /\ UNCHANGED disk
        /\ GoTo(b, IF FinalPath(b) \in disk THEN "register" ELSE "remove")
    BY <1>5 DEF HashFile, At
  <2>2. /\ build'[b].version = build[b].version /\ build'[b].input = build[b].input
        /\ build'[b].dir = build[b].dir
        /\ build'[b].step = IF FinalPath(b) \in disk THEN "register" ELSE "remove"
    BY <2>1, GoToTyped
  <2> QED BY <1>0, <2>1, <2>2, LostKept DEF FinalPath, At
<1>6. CASE RegisterArtifact(b) /\ build'[b].step = "remove"
  <2>1. /\ build[b].step = "register" /\ build[b].version \in PackVersions
        /\ build[b].input \in Inputs /\ build[b].dir # NoDir
    BY <1>6, Arguments DEF RegisterArtifact, At
  <2>2. ~Return(b)
    BY <1>6, ReturnTyped
  <2>3. GoTo(b, "remove") /\ Lost(b)
    BY <1>6, <2>1, <2>2 DEF RegisterArtifact, Lost
  <2> QED BY <2>1, <2>3, LostKept, GoToTyped DEF At
<1> QED BY <1>1, <1>2, <1>3, <1>4, <1>5, <1>6 DEF Move

(* What a row names is there before and after every step.                  *)
LEMMA ReadyStep ==
  ASSUME TypeOK, LosersOnly, ReadyHasFile, DistinctNames, [Next]_vars
  PROVE  ReadyHasFile'
<1> SUFFICES ASSUME "database" \notin faults', NEW v \in PackVersions, NEW i \in Inputs, artifact'[v][i] # NoDir
             PROVE  File(v, i, artifact'[v][i]) \in disk'
  BY DEF ReadyHasFile, File
<1>0. "database" \notin faults
  BY TablesKept DEF Kept
<1>1. CASE artifact'[v][i] = artifact[v][i]
  BY <1>0, <1>1, RowedFilesStay DEF ReadyHasFile
<1>2. CASE artifact'[v][i] # artifact[v][i]
  <2>1. PICK b \in Builders : /\ RegisterArtifact(b) /\ build[b].version = v /\ build[b].input = i
                              /\ artifact[v][i] = NoDir /\ artifact'[v][i] = build[b].dir
    BY <1>2, RowsWritten
  <2>2. FinalPath(b) \in disk /\ UNCHANGED disk
    BY <1>0, <2>1 DEF LosersOnly, RegisterArtifact, At, Lost, Row
  <2> QED BY <2>1, <2>2 DEF FinalPath
<1> QED BY <1>1, <1>2

-----------------------------------------------------------------------------
(* The theorems. *)

(* The invariants hold before the first request.                           *)
LEMMA InitInvariant == Init => IInv /\ FileInv
<1> SUFFICES ASSUME Init PROVE IInv /\ FileInv
  OBVIOUS
<1> USE DEF Init
<1>1. \A b \in Builders : build[b].step = "idle"
  BY DEF Idle
<1>2. \A v \in PackVersions, i \in Inputs : artifact[v][i] = NoDir
  OBVIOUS
<1>3. TypeOK
  BY DEF TypeOK
<1>4. Recorded /\ LosersOnly
  BY <1>1 DEF Recorded, LosersOnly, At
<1>5. InputsExplainArtifacts /\ ReadyHasFile
  BY <1>2 DEF InputsExplainArtifacts, ReadyHasFile
<1>6. FilesAreAccountedFor
  BY DEF FilesAreAccountedFor
<1> QED BY <1>3, <1>4, <1>5, <1>6 DEF IInv, FileInv

(* IInv holds in every reachable state of every instance.                  *)
THEOREM Invariance == Spec => []IInv
<1>1. IInv /\ [Next]_vars => IInv'
  BY TypeStep, RecordedStep, ExplainStep, AccountedStep DEF IInv
<1> QED BY <1>1, InitInvariant, PTL DEF Spec

(* Every variable keeps its type.                                          *)
THEOREM Typing == Spec => []TypeOK
<1>1. IInv => TypeOK
  BY DEF IInv
<1> QED BY <1>1, Invariance, PTL

(* Whatever builds run at once and however the lock of a version moves,    *)
(* its archives are all of the snapshot that is recorded for it.           *)
THEOREM OneSnapshot == Spec => []InputsExplainArtifacts
<1>1. IInv => InputsExplainArtifacts
  BY DEF IInv
<1> QED BY <1>1, Invariance, PTL

(* Only a stop of the process leaves a file that nobody will register or   *)
(* remove.                                                                 *)
THEOREM NoStrayFile == Spec => []FilesAreAccountedFor
<1>1. IInv => FilesAreAccountedFor
  BY DEF IInv
<1> QED BY <1>1, Invariance, PTL

(* If no two versions share the name of their files, no build removes an   *)
(* archive that a row names, unless the database failed a registration.    *)
THEOREM ArchivesStay == ASSUME DistinctNames PROVE Spec => []ReadyHasFile
<1>1. FileInv /\ [Next]_vars => FileInv'
  BY TypeStep, LosersStep, ReadyStep DEF FileInv
<1>2. FileInv => ReadyHasFile
  BY DEF FileInv
<1> QED BY <1>1, <1>2, InitInvariant, PTL DEF Spec
=============================================================================
