---------------------------- MODULE ModListProofs ----------------------------
(***************************************************************************)
(* What every request of ModList does to the rows, revisions, generations  *)
(* and requests, for every list of mods, versions and requests: lemmas     *)
(* that the theorems about Resolve, below, and those of CatalogProofs      *)
(* share.                                                                  *)
(***************************************************************************)
EXTENDS Resolve, FiniteSetTheorems, SequenceTheorems, TLAPS

USE ModListAssumptions

RowType == [status : Statuses, version : Labels, selection : Labels]
PackType == [status : {"absent", "active", "archived"}, mc : GameVersions \cup {NoVersion}]

ListOps == Answers \cup {"submit", "update", "scan", "fix", "change"}
StepsOf(ops) ==
  [op : ops, mod : Members, mc : GameVersions \cup {NoVersion}, copy : RowType, fixes : Seq(SUBSET Mods)]
Steps == StepsOf(ListOps \cup {"members", "lock"})

(* A nested scan that is under way has cures left to try, or to leave.     *)
Scanning(r) == r.op = "fix" => r.fixes # <<>>

ListTyped ==
  /\ pack \in PackType
  /\ row \in [Members -> RowType]
  /\ req \in [Requests -> Steps]
  /\ \A q \in Requests : Scanning(req[q])

(* No request but that of a resolve brings in an operation of its own.     *)
OwnOps == \A q \in Requests : req'[q] = req[q] \/ req'[q].op \in ListOps

-----------------------------------------------------------------------------
(* Records. *)

(* A row made of typed parts is a row, and there is none but of such.      *)
LEMMA RowTyped ==
  ASSUME NEW status \in Statuses, NEW version \in Labels, NEW selection \in Labels
  PROVE  /\ NewRow(status, version, selection) \in RowType
         /\ NewRow(status, version, selection).status = status
  BY DEF NewRow, RowType

LEMMA AbsentTyped == Absent \in RowType /\ Absent.status = "absent"
  BY RowTyped DEF Absent, Statuses, Labels

(* Versions of mods and of Minecraft are labels.                           *)
LEMMA LabelsHold ==
  /\ NoVersion \in Labels
  /\ \A v \in Versions : v \in Labels
  /\ \A mc \in GameVersions : mc \in Labels
  BY DEF Labels

(* A step made of typed parts is a step.                                   *)
LEMMA StepTyped ==
  ASSUME NEW op \in ListOps \cup {"members", "lock"}, NEW m \in Members,
         NEW mc \in GameVersions \cup {NoVersion}, NEW copy \in RowType, NEW fixes \in Seq(SUBSET Mods)
  PROVE  /\ Step(op, m, mc, copy, fixes) \in Steps
         /\ Step(op, m, mc, copy, fixes).op = op
         /\ Step(op, m, mc, copy, fixes).fixes = fixes
  BY DEF Step, Steps, StepsOf

(* A request that is done waits for nothing.                               *)
LEMMA DoneTyped ==
  ASSUME NEW answer \in (ListOps \cup {"members", "lock"}) \ {"fix"}
  PROVE  Done(answer) \in Steps /\ Done(answer).op = answer /\ Scanning(Done(answer))
<1>1. Minecraft \in Members /\ <<>> \in Seq(SUBSET Mods)
  BY DEF Members
<1>2. Absent \in RowType
  BY AbsentTyped
<1>3. Done(answer) = [op |-> answer, mod |-> Minecraft, mc |-> NoVersion, copy |-> Absent, fixes |-> <<>>]
  BY DEF Done, Step
<1>4. Done(answer) \in Steps
  BY <1>1, <1>2, <1>3 DEF Steps, StepsOf
<1> QED BY <1>3, <1>4 DEF Scanning

(* A request that goes on leaves the others where they are.                *)
LEMMA GoOnTyped ==
  ASSUME ListTyped, NEW q \in Requests, NEW step \in Steps, Scanning(step), GoOn(q, step)
  PROVE  /\ req' \in [Requests -> Steps]
         /\ \A r \in Requests : Scanning(req[r])'
         /\ req'[q] = step
         /\ \A r \in Requests \ {q} : req'[r] = req[r]
  BY DEF ListTyped, GoOn, Scanning

-----------------------------------------------------------------------------
(* Requests. *)

(* What a request may do to the sources, the configuration, the pack and   *)
(* the queue of builds.                                                    *)
SourcesMove ==
  /\ row' = row \/ fresh' = {}
  /\ \/ fresh' = fresh /\ build' \in {build, "failed"}
     \/ fresh' = {} /\ build' = "pending"
ConfigMove ==
  \/ row' = row /\ current' = current /\ sameConfig' = sameConfig
  \/ current' = {} /\ sameConfig' = {}
  \/ pack.status = "absent" /\ current' = current /\ sameConfig' = sameConfig
PackMove ==
  /\ inits' \in 0..MaxInits
  /\ pack'.status = "absent" =>
       /\ pack.status = "absent"
       /\ inits' = inits \/ \E q \in Requests : req[q].op = "submit"
       /\ \A q \in Requests : req'[q].op = "submit" => req[q].op = "submit"
ComeBack ==
  \A m \in Mods \cup LocalMods :
    row[m].status = "removed" /\ row'[m].status # "removed"
      => current' = {} /\ \E q \in Requests : req[q].op \in Answers \cup {"fix"}

ListMove == ListTyped' /\ OwnOps /\ SourcesMove /\ ConfigMove /\ PackMove /\ ComeBack

(* Rows that stay, and requests that go on by themselves.                  *)
LEMMA OnlyGoesOn ==
  ASSUME ListTyped, inits \in 0..MaxInits, NEW q \in Requests, NEW step \in Steps,
         step.op \in ListOps \ {"submit"}, Scanning(step), GoOn(q, step),
         UNCHANGED <<pack, row, fresh, sameConfig, current, build, inits>>
  PROVE  ListMove
<1>1. /\ req' \in [Requests -> Steps] /\ \A r \in Requests : Scanning(req[r])'
      /\ req'[q] = step /\ \A r \in Requests \ {q} : req'[r] = req[r]
  BY GoOnTyped
<1>2. ListTyped'
  BY <1>1 DEF ListTyped
<1>3. OwnOps /\ PackMove
  BY <1>1 DEF OwnOps, PackMove
<1> QED BY <1>2, <1>3 DEF ListMove, SourcesMove, ConfigMove, ComeBack

(* A row that is written, with the configuration, and leaves the pack.     *)
LEMMA WritesRow ==
  ASSUME ListTyped, inits \in 0..MaxInits, row' \in [Members -> RowType], Touch, InvalidatePackGeneration,
         UNCHANGED <<pack, inits>>, req' \in [Requests -> Steps], \A r \in Requests : Scanning(req[r])',
         OwnOps, \A r \in Requests : req'[r].op = "submit" => req[r].op = "submit",
         \/ \E q \in Requests : req[q].op \in Answers \cup {"fix"}
         \/ \A m \in Mods \cup LocalMods : row[m].status = "removed" => row'[m] = row[m]
  PROVE  ListMove
<1>1. ListTyped'
  BY DEF ListTyped
<1>2. SourcesMove /\ ConfigMove
  BY DEF Touch, InvalidatePackGeneration, SourcesMove, ConfigMove
<1>3. PackMove /\ ComeBack
  BY DEF PackMove, ComeBack, InvalidatePackGeneration
<1> QED BY <1>1, <1>2, <1>3 DEF ListMove

(* The requests about packs.                                               *)
LEMMA PackMoves == ASSUME ListTyped, inits \in 0..MaxInits, PackRequests PROVE ListMove
<1>0. /\ ListOps = {"idle", "error", "submit", "update", "scan", "fix", "change"}
      /\ Done("submit") \in Steps /\ Done("submit").op = "submit" /\ Scanning(Done("submit"))
      /\ Done("idle") \in Steps /\ Done("idle").op = "idle" /\ Scanning(Done("idle"))
  BY DoneTyped DEF ListOps, Answers
<1>e. ASSUME NEW mc, EnsureMinecraftPackMod(mc)
      PROVE  /\ row' \in [Members -> RowType]
             /\ \A m \in Mods \cup LocalMods : row'[m] = row[m]
  <2>1. NewRow("pending", NoVersion, NoVersion) \in RowType
    BY RowTyped, LabelsHold DEF Statuses
  <2> QED BY <1>e, <2>1 DEF EnsureMinecraftPackMod, ListTyped, Members
<1>1. ASSUME NEW q \in Requests, CreatePack(q) PROVE ListMove
  <2>1. PICK mc \in GameVersions : pack' = [status |-> "active", mc |-> mc] /\ EnsureMinecraftPackMod(mc)
    BY <1>1 DEF CreatePack
  <2>2. /\ req' \in [Requests -> Steps] /\ \A r \in Requests : Scanning(req[r])'
        /\ req'[q].op = "submit" /\ \A r \in Requests \ {q} : req'[r] = req[r]
    BY <1>0, <1>1, GoOnTyped DEF CreatePack
  <2>3. ListTyped'
    BY <1>e, <2>1, <2>2 DEF ListTyped, PackType
  <2>4. OwnOps /\ PackMove
    BY <1>0, <1>1, <2>1, <2>2 DEF OwnOps, PackMove, CreatePack
  <2>5. SourcesMove /\ ConfigMove /\ ComeBack
    BY <1>1, <1>e, <2>1 DEF CreatePack, Touch, SourcesMove, ConfigMove, ComeBack
  <2> QED BY <2>3, <2>4, <2>5 DEF ListMove
<1>2. ASSUME NEW q \in Requests, UpdatePack(q) PROVE ListMove
  <2>1. PICK mc \in GameVersions :
          GoOn(q, Step("update", Minecraft, mc, NewRow("absent", pack.mc, NoVersion), <<>>))
    BY <1>2 DEF UpdatePack
  <2>2. NewRow("absent", pack.mc, NoVersion) \in RowType
    BY RowTyped, LabelsHold DEF Statuses, ListTyped, PackType
  <2>3. Minecraft \in Members /\ <<>> \in Seq(SUBSET Mods)
    BY DEF Members
  <2>4. /\ Step("update", Minecraft, mc, NewRow("absent", pack.mc, NoVersion), <<>>) \in Steps
        /\ Step("update", Minecraft, mc, NewRow("absent", pack.mc, NoVersion), <<>>).op = "update"
    BY <1>0, <2>2, <2>3 DEF Step, Steps, StepsOf
  <2> QED BY <1>0, <1>2, <2>1, <2>4, OnlyGoesOn DEF UpdatePack, Scanning
<1>3. ASSUME NEW q \in Requests, CommitPack(q) PROVE ListMove
  <2>1. req[q].mc \in GameVersions \cup {NoVersion}
    BY DEF ListTyped, Steps, StepsOf
  <2>2. CASE pack.status # "active"
    <3>1. GoOn(q, Done("idle")) /\ UNCHANGED <<pack, row, fresh, sameConfig, current, build, inits>>
      BY <1>3, <2>2 DEF CommitPack
    <3> QED BY <1>0, <3>1, OnlyGoesOn
  <2>3. CASE pack.status = "active"
    <3>1. /\ pack' = [pack EXCEPT !.mc = req[q].mc] /\ Touch /\ UNCHANGED inits
          /\ \/ InvalidatePackGeneration /\ EnsureMinecraftPackMod(req[q].mc) /\ GoOn(q, Done("submit"))
             \/ GoOn(q, Done("idle")) /\ UNCHANGED <<row, sameConfig, current>>
      BY <1>3, <2>3 DEF CommitPack
    <3>2. pack' \in PackType /\ pack'.status = "active"
      BY <2>1, <2>3, <3>1 DEF ListTyped, PackType
    <3>3. /\ req' \in [Requests -> Steps] /\ \A r \in Requests : Scanning(req[r])'
          /\ req'[q].op \in {"submit", "idle"} /\ \A r \in Requests \ {q} : req'[r] = req[r]
      BY <1>0, <3>1, GoOnTyped
    <3>4. /\ row' \in [Members -> RowType]
          /\ \A m \in Mods \cup LocalMods : row'[m] = row[m]
      BY <1>e, <2>1, <3>1 DEF ListTyped
    <3>5. ListTyped'
      BY <3>2, <3>3, <3>4 DEF ListTyped
    <3>6. OwnOps /\ PackMove
      BY <1>0, <3>1, <3>2, <3>3 DEF OwnOps, PackMove
    <3>7. SourcesMove /\ ConfigMove /\ ComeBack
      BY <3>1, <3>4 DEF Touch, InvalidatePackGeneration, SourcesMove, ConfigMove, ComeBack
    <3> QED BY <3>5, <3>6, <3>7 DEF ListMove
  <2> QED BY <2>2, <2>3
<1>4. ASSUME NEW q \in Requests, SubmitCatalogInit(q) PROVE ListMove
  <2>1. /\ req' \in [Requests -> Steps] /\ \A r \in Requests : Scanning(req[r])'
        /\ req'[q].op = "idle" /\ \A r \in Requests \ {q} : req'[r] = req[r]
    BY <1>0, <1>4, GoOnTyped DEF SubmitCatalogInit
  <2>2. ListTyped'
    BY <1>4, <2>1 DEF ListTyped, SubmitCatalogInit
  <2>3. OwnOps /\ PackMove
    BY <1>0, <1>4, <2>1 DEF OwnOps, PackMove, SubmitCatalogInit
  <2>4. SourcesMove /\ ConfigMove /\ ComeBack
    BY <1>4 DEF SubmitCatalogInit, SourcesMove, ConfigMove, ComeBack
  <2> QED BY <2>2, <2>3, <2>4 DEF ListMove
<1>5. ASSUME NEW q \in Requests, RequestRebuild(q) PROVE ListMove
  <2>1. ListTyped' /\ OwnOps
    BY <1>5 DEF ListTyped, OwnOps, RequestRebuild, Scanning
  <2>2. PackMove
    BY <1>5 DEF PackMove, RequestRebuild, Exists
  <2>3. SourcesMove /\ ConfigMove /\ ComeBack
    BY <1>5 DEF RequestRebuild, SourcesMove, ConfigMove, ComeBack
  <2> QED BY <2>1, <2>2, <2>3 DEF ListMove
<1> QED BY <1>1, <1>2, <1>3, <1>4, <1>5 DEF PackRequests

(* A row that is added is typed, and only of one that is not there.        *)
LEMMA StoreTyped ==
  ASSUME ListTyped, NEW m, NEW v \in Versions, NEW verified \in BOOLEAN, Added(m, v, verified)
  PROVE  row' \in [Members -> RowType]
<1>1. ASSUME NEW s \in Labels PROVE NewRow("installed", v, s) \in RowType
  BY <1>1, RowTyped, LabelsHold DEF Statuses
<1>2. ASSUME NEW n \in Members PROVE row'[n] \in RowType
  <2>1. row[n] \in RowType /\ row[n].selection \in Labels /\ v \in Labels
    BY LabelsHold DEF ListTyped, RowType
  <2>2. CASE n # m
    BY <2>1, <2>2 DEF Added, ListTyped
  <2>3. CASE n = m /\ verified
    BY <1>1, <2>1, <2>3 DEF Added, ListTyped
  <2>4. CASE n = m /\ ~verified
    BY <1>1, <2>1, <2>4 DEF Added, ListTyped
  <2> QED BY <2>2, <2>3, <2>4
<1>3. row' = [n \in Members |-> row'[n]]
  BY DEF Added, ListTyped
<1> QED BY <1>2, <1>3

(* A late write finds only a row that is still there.                      *)
LEMMA WriteRowMoves ==
  ASSUME ListTyped, inits \in 0..MaxInits, NEW q \in Requests, NEW new \in RowType, WriteRow(q, new),
         GoOn(q, Done("idle")), UNCHANGED <<pack, inits>>
  PROVE  ListMove
<1>0. /\ Done("idle") \in Steps /\ Done("idle").op = "idle" /\ Scanning(Done("idle"))
      /\ "idle" \in ListOps \ {"submit"}
  BY DoneTyped DEF ListOps, Answers
<1>1. CASE ~Present(req[q].mod)
  BY <1>0, <1>1, OnlyGoesOn DEF WriteRow
<1>2. CASE Present(req[q].mod)
  <2>1. row' = [row EXCEPT ![req[q].mod] = new] /\ Touch /\ InvalidatePackGeneration
    BY <1>2 DEF WriteRow
  <2>2. row' \in [Members -> RowType]
    BY <2>1 DEF ListTyped
  <2>3. \A m \in Mods \cup LocalMods : row[m].status = "removed" => row'[m] = row[m]
    BY <1>2, <2>1 DEF Present, ListTyped, Members
  <2>4. /\ req' \in [Requests -> Steps] /\ \A r \in Requests : Scanning(req[r])'
        /\ req'[q].op = "idle" /\ \A r \in Requests \ {q} : req'[r] = req[r]
    BY <1>0, GoOnTyped
  <2>5. OwnOps /\ \A r \in Requests : req'[r].op = "submit" => req[r].op = "submit"
    BY <1>0, <2>4 DEF OwnOps
  <2> QED BY <2>1, <2>2, <2>3, <2>4, <2>5, WritesRow
<1> QED BY <1>1, <1>2

(* The requests about mods.                                                *)
LEMMA ModMoves == ASSUME ListTyped, inits \in 0..MaxInits, ModRequests PROVE ListMove
<1>0. /\ ListOps = {"idle", "error", "submit", "update", "scan", "fix", "change"}
      /\ Done("scan") \in Steps /\ Done("scan").op = "scan" /\ Scanning(Done("scan"))
      /\ Done("idle") \in Steps /\ Done("idle").op = "idle" /\ Scanning(Done("idle"))
      /\ Answers = {"idle", "error"}
  BY DoneTyped DEF ListOps, Answers
<1>r. ASSUME NEW q \in Requests
      PROVE  /\ req[q] \in Steps /\ Scanning(req[q])
             /\ req[q].op \in ListOps \cup {"members", "lock"} /\ req[q].mod \in Members
             /\ req[q].mc \in GameVersions \cup {NoVersion}
             /\ req[q].copy \in RowType /\ req[q].fixes \in Seq(SUBSET Mods)
  BY DEF ListTyped, Steps, StepsOf
<1>1. ASSUME NEW q \in Requests, AddPackMod(q) PROVE ListMove
  <2>1. row' \in [Members -> RowType] /\ Touch /\ InvalidatePackGeneration
    BY <1>1, StoreTyped DEF AddPackMod, Store
  <2>2. /\ req' \in [Requests -> Steps] /\ \A r \in Requests : Scanning(req[r])'
        /\ req'[q].op = "scan" /\ \A r \in Requests \ {q} : req'[r] = req[r]
    BY <1>0, <1>1, GoOnTyped DEF AddPackMod
  <2>3. OwnOps /\ \A r \in Requests : req'[r].op = "submit" => req[r].op = "submit"
    BY <1>0, <2>2 DEF OwnOps
  <2> QED BY <1>1, <2>1, <2>2, <2>3, WritesRow DEF AddPackMod, Free
<1>2. ASSUME NEW q \in Requests, AddLocalPackMod(q) PROVE ListMove
  <2>1. row' \in [Members -> RowType]
    BY <1>2, StoreTyped DEF AddLocalPackMod
  <2>2. /\ req' \in [Requests -> Steps] /\ \A r \in Requests : Scanning(req[r])'
        /\ OwnOps /\ \A r \in Requests : req'[r].op = "submit" => req[r].op = "submit"
    BY <1>2 DEF AddLocalPackMod, ListTyped, OwnOps, Scanning
  <2> QED BY <1>2, <2>1, <2>2, WritesRow DEF AddLocalPackMod, Free
<1>3. ASSUME NEW q \in Requests, AutoFixCompat(q) PROVE ListMove
  <2> DEFINE fixes == <<Cures>> \o req[q].fixes
             step == Step("fix", Minecraft, NoVersion, Absent, fixes)
  <2>1. <<Cures>> \in Seq(SUBSET Mods)
    BY DEF Cures
  <2>2. fixes \in Seq(SUBSET Mods) /\ fixes # <<>>
    <3>1. /\ fixes \in Seq(SUBSET Mods) /\ Len(fixes) = Len(<<Cures>>) + Len(req[q].fixes)
      BY <1>r, <2>1, ConcatProperties
    <3>2. Len(<<Cures>>) = 1 /\ Len(req[q].fixes) \in Nat
      BY <1>r
    <3> QED BY <3>1, <3>2
  <2>3. Minecraft \in Members /\ Absent \in RowType
    BY AbsentTyped DEF Members
  <2>4. step \in Steps /\ step.op = "fix" /\ step.fixes = fixes
    <3> HIDE DEF fixes
    <3> QED BY <1>0, <2>2, <2>3 DEF Step, Steps, StepsOf
  <2>5. Scanning(step) /\ step.op \in ListOps \ {"submit"}
    BY <1>0, <2>2, <2>4 DEF Scanning
  <2>6. GoOn(q, step) /\ UNCHANGED <<pack, row, fresh, sameConfig, current, build, inits>>
    BY <1>3 DEF AutoFixCompat
  <2> HIDE DEF step
  <2> QED BY <2>4, <2>5, <2>6, OnlyGoesOn
<1>4. ASSUME NEW q \in Requests, InstallFix(q) PROVE ListMove
  <2> DEFINE fixes == req[q].fixes
             rest(m) == <<Head(fixes) \ {m}>> \o Tail(fixes)
  <2>1. /\ fixes \in Seq(SUBSET Mods) /\ fixes # <<>> /\ Len(fixes) \in Nat \ {0}
        /\ Head(fixes) \in SUBSET Mods /\ Tail(fixes) \in Seq(SUBSET Mods)
        /\ Len(Tail(fixes)) = Len(fixes) - 1
    <3>1. fixes \in Seq(SUBSET Mods) /\ fixes # <<>>
      BY <1>4, <1>r DEF InstallFix, Scanning
    <3> QED BY <3>1, HeadTailProperties, EmptySeq, LenProperties
  <2>2. ASSUME NEW m PROVE rest(m) \in Seq(SUBSET Mods) /\ rest(m) # <<>>
    <3>1. <<Head(fixes) \ {m}>> \in Seq(SUBSET Mods) /\ Len(<<Head(fixes) \ {m}>>) = 1
      BY <2>1
    <3>2. rest(m) \in Seq(SUBSET Mods) /\ Len(rest(m)) = 1 + Len(Tail(fixes)) /\ Len(Tail(fixes)) \in Nat
      BY <2>1, <3>1, ConcatProperties
    <3> QED BY <3>2
  <2>3. ASSUME NEW op \in {"scan", "fix"}, NEW f \in Seq(SUBSET Mods), f # <<>>
        PROVE  LET step == [[req[q] EXCEPT !.op = op] EXCEPT !.fixes = f]
               IN  step \in Steps /\ Scanning(step) /\ step.op = op
    BY <1>0, <1>r, <2>3 DEF Steps, StepsOf, Scanning
  <2>4. req[q].op = "fix" /\ [req[q] EXCEPT !.op = "fix"] = req[q]
    BY <1>4, <1>r DEF InstallFix, Steps, StepsOf
  <2>5. CASE Head(fixes) = {}
    <3>1. UNCHANGED <<pack, row, fresh, sameConfig, current, build, inits>>
      BY <1>4, <2>5 DEF InstallFix
    <3>2. CASE Len(fixes) = 1
      BY <1>0, <1>4, <2>5, <3>1, <3>2, OnlyGoesOn DEF InstallFix
    <3>3. CASE Len(fixes) # 1
      <4>1. GoOn(q, [req[q] EXCEPT !.fixes = Tail(fixes)])
        BY <1>4, <2>5, <3>3 DEF InstallFix
      <4>2. Tail(fixes) # <<>>
        <5>1. Len(<<>>) = 0 /\ Len(Tail(fixes)) # 0
          BY <2>1, <3>3
        <5> QED BY <5>1
      <4> DEFINE step == [req[q] EXCEPT !.fixes = Tail(fixes)]
      <4>3. step \in Steps /\ Scanning(step) /\ step.op = "fix"
        BY <2>1, <2>3, <2>4, <4>2
      <4>4. GoOn(q, step) /\ step.op \in ListOps \ {"submit"}
        BY <1>0, <4>1, <4>3
      <4> HIDE DEF step
      <4> QED BY <3>1, <4>3, <4>4, OnlyGoesOn
    <3> QED BY <3>2, <3>3
  <2>6. CASE Head(fixes) # {}
    <3>1. PICK m \in Head(fixes) :
            \/ /\ GoOn(q, [req[q] EXCEPT !.fixes = rest(m)])
               /\ UNCHANGED <<row, fresh, sameConfig, current, build>>
            \/ /\ \E v \in Versions, verified \in BOOLEAN : Store(m, v, verified)
               /\ GoOn(q, [req[q] EXCEPT !.op = IF Len(fixes) < 2 THEN "scan" ELSE "fix",
                                         !.fixes = rest(m)])
      BY <1>4, <2>6 DEF InstallFix
    <3>2. ASSUME NEW op \in {"scan", "fix"}
          PROVE  LET step == [req[q] EXCEPT !.op = op, !.fixes = rest(m)]
                 IN  step \in Steps /\ Scanning(step) /\ step.op = op
      BY <2>2, <2>3
    <3>3. CASE GoOn(q, [req[q] EXCEPT !.fixes = rest(m)])
               /\ UNCHANGED <<row, fresh, sameConfig, current, build>>
      <4> DEFINE step == [req[q] EXCEPT !.fixes = rest(m)]
      <4>1. step \in Steps /\ Scanning(step) /\ step.op = "fix"
        BY <2>2, <2>3, <2>4
      <4>2. UNCHANGED <<pack, inits>>
        BY <1>4 DEF InstallFix
      <4>3. GoOn(q, step) /\ step.op \in ListOps \ {"submit"}
        BY <1>0, <3>3, <4>1
      <4> HIDE DEF step
      <4> QED BY <3>3, <4>1, <4>2, <4>3, OnlyGoesOn
    <3>4. ASSUME NEW v \in Versions, NEW verified \in BOOLEAN, NEW op \in {"scan", "fix"},
                 Store(m, v, verified), GoOn(q, [req[q] EXCEPT !.op = op, !.fixes = rest(m)])
          PROVE  ListMove
      <4> HIDE DEF rest
      <4>1. row' \in [Members -> RowType] /\ Touch /\ InvalidatePackGeneration
        BY <3>4, StoreTyped DEF Store
      <4>2. /\ req' \in [Requests -> Steps] /\ \A r \in Requests : Scanning(req[r])'
            /\ req'[q].op = op /\ \A r \in Requests \ {q} : req'[r] = req[r]
        BY <3>2, <3>4, GoOnTyped
      <4>3. OwnOps /\ \A r \in Requests : req'[r].op = "submit" => req[r].op = "submit"
        BY <1>0, <4>2 DEF OwnOps
      <4> QED BY <1>4, <4>1, <4>2, <4>3, WritesRow DEF InstallFix
    <3> QED BY <3>1, <3>3, <3>4
  <2> QED BY <2>5, <2>6
<1>5. ASSUME NEW q \in Requests, UpdatePackMod(q) PROVE ListMove
  <2>1. PICK m \in Mods \cup LocalMods : GoOn(q, Step("change", m, NoVersion, row[m], <<>>))
    BY <1>5 DEF UpdatePackMod
  <2>2. m \in Members /\ row[m] \in RowType /\ <<>> \in Seq(SUBSET Mods)
    BY DEF Members, ListTyped
  <2>3. /\ Step("change", m, NoVersion, row[m], <<>>) \in Steps
        /\ Step("change", m, NoVersion, row[m], <<>>).op = "change"
    BY <1>0, <2>2 DEF Step, Steps, StepsOf
  <2> QED BY <1>0, <1>5, <2>1, <2>3, OnlyGoesOn DEF UpdatePackMod, Scanning
<1>6. ASSUME NEW q \in Requests, ChangeVersion(q) PROVE ListMove
  <2>1. PICK v \in Versions :
          \/ WriteRow(q, NewRow("installed", v, v))
          \/ WriteRow(q, NewRow("pending", v, row[req[q].mod].selection))
    BY <1>6 DEF ChangeVersion
  <2>2. row[req[q].mod].selection \in Labels /\ v \in Labels
    BY <1>r, LabelsHold DEF ListTyped, RowType
  <2>3. /\ NewRow("installed", v, v) \in RowType
        /\ NewRow("pending", v, row[req[q].mod].selection) \in RowType
    BY <2>2, RowTyped DEF Statuses
  <2> QED BY <1>6, <2>1, <2>3, WriteRowMoves DEF ChangeVersion
<1>7. ASSUME NEW q \in Requests, ChangeStatus(q) PROVE ListMove
  <2>1. PICK status \in {"pending", "installed", "disabled"} :
          WriteRow(q, NewRow(status, req[q].copy.version, row[req[q].mod].selection))
    BY <1>7 DEF ChangeStatus
  <2>2. row[req[q].mod].selection \in Labels /\ req[q].copy.version \in Labels
    BY <1>r DEF ListTyped, RowType
  <2>3. NewRow(status, req[q].copy.version, row[req[q].mod].selection) \in RowType
    BY <2>2, RowTyped DEF Statuses
  <2> QED BY <1>7, <2>1, <2>3, WriteRowMoves DEF ChangeStatus
<1>8. ASSUME NEW q \in Requests, RemovePackMod(q) PROVE ListMove
  <2>1. PICK m \in Mods \cup LocalMods : row' = [row EXCEPT ![m].status = "removed"]
    BY <1>8 DEF RemovePackMod
  <2>2. row' \in [Members -> RowType]
    BY <2>1 DEF ListTyped, RowType, Statuses
  <2>3. /\ req' \in [Requests -> Steps] /\ \A r \in Requests : Scanning(req[r])'
        /\ OwnOps /\ \A r \in Requests : req'[r].op = "submit" => req[r].op = "submit"
    BY <1>8 DEF RemovePackMod, ListTyped, OwnOps, Scanning
  <2> QED BY <1>8, <2>2, <2>3, WritesRow DEF RemovePackMod, Free
<1> QED BY <1>1, <1>2, <1>3, <1>4, <1>5, <1>6, <1>7, <1>8 DEF ModRequests

-----------------------------------------------------------------------------
(* Versions. *)

(* A pack has a version of Minecraft, and a mod that ever was in the list  *)
(* has a version: whoever read a row of a mod can write it back.           *)
Versioned ==
  /\ pack.status # "absent" => pack.mc \in GameVersions
  /\ \A q \in Requests : /\ req[q].op = "update" => req[q].mc \in GameVersions
                         /\ req[q].op = "change" => req[q].copy.version # NoVersion
  /\ \A m \in Mods \cup LocalMods : row[m].status # "absent" => row[m].version # NoVersion

(* Rows and requests that are changed one by one keep their versions.      *)
LEMMA RowVersioned ==
  ASSUME ListTyped, Versioned, NEW m \in Members, NEW new, new.version # NoVersion \/ m = Minecraft,
         row' = [row EXCEPT ![m] = new]
  PROVE  \A n \in Mods \cup LocalMods : row'[n].status # "absent" => row'[n].version # NoVersion
  BY DEF ListTyped, Versioned, Members

LEMMA RequestsVersioned ==
  ASSUME ListTyped, Versioned, NEW q \in Requests, NEW step, GoOn(q, step),
         step.op = "update" => step.mc \in GameVersions,
         step.op = "change" => step.copy.version # NoVersion
  PROVE  \A r \in Requests : /\ req'[r].op = "update" => req'[r].mc \in GameVersions
                             /\ req'[r].op = "change" => req'[r].copy.version # NoVersion
  BY DEF ListTyped, Versioned, GoOn

(* A request that is done, or goes on to scan, needs no version.           *)
LEMMA DoneVersioned ==
  ASSUME ListTyped, Versioned, NEW q \in Requests, NEW answer, answer \notin {"update", "change"},
         GoOn(q, Done(answer))
  PROVE  \A r \in Requests : /\ req'[r].op = "update" => req'[r].mc \in GameVersions
                             /\ req'[r].op = "change" => req'[r].copy.version # NoVersion
  BY RequestsVersioned DEF Done, Step

(* A mod that is added has the version it was added with.                  *)
LEMMA StoreVersioned ==
  ASSUME ListTyped, Versioned, NEW m \in Members, NEW v \in Versions, NEW verified \in BOOLEAN,
         Added(m, v, verified)
  PROVE  \A n \in Mods \cup LocalMods : row'[n].status # "absent" => row'[n].version # NoVersion
<1>1. ASSUME NEW s PROVE NewRow("installed", v, s).version # NoVersion
  BY DEF NewRow
<1>2. PICK s : row' = [row EXCEPT ![m] = NewRow("installed", v, s)]
  <2>1. row' = [row EXCEPT ![m] = NewRow("installed", v, IF verified THEN v ELSE row[m].selection)]
    BY DEF Added
  <2> QED BY <2>1
<1> QED BY <1>1, <1>2, RowVersioned

(* Versions are kept by all requests.                                      *)
LEMMA VersionsKept ==
  ASSUME ListTyped, Versioned, PackRequests \/ ModRequests
  PROVE  Versioned'
<1> DEFINE Asked == \A r \in Requests : /\ req[r].op = "update" => req[r].mc \in GameVersions
                                        /\ req[r].op = "change" => req[r].copy.version # NoVersion
           RowsTold == \A m \in Mods \cup LocalMods : row[m].status # "absent" => row[m].version # NoVersion
           Played == pack.status # "absent" => pack.mc \in GameVersions
<1>0. /\ Asked /\ RowsTold /\ Played
      /\ Asked' /\ RowsTold' /\ Played' => Versioned'
  BY DEF Versioned
<1>w. \A m \in Mods \cup LocalMods : m \in Members
  BY DEF Members
<1>e. ASSUME NEW mc, EnsureMinecraftPackMod(mc) PROVE RowsTold'
  BY <1>0, <1>e DEF EnsureMinecraftPackMod, ListTyped, Members
<1>1. ASSUME NEW q \in Requests, CreatePack(q) PROVE Versioned'
  <2>1. PICK mc \in GameVersions : pack' = [status |-> "active", mc |-> mc] /\ EnsureMinecraftPackMod(mc)
    BY <1>1 DEF CreatePack
  <2>2. Asked'
    BY <1>1, DoneVersioned DEF CreatePack
  <2>3. Played'
    BY <2>1
  <2> QED BY <1>0, <1>e, <2>1, <2>2, <2>3
<1>2. ASSUME NEW q \in Requests, UpdatePack(q) PROVE Versioned'
  <2>1. Asked'
    BY <1>2, RequestsVersioned DEF UpdatePack, Step
  <2> QED BY <1>0, <1>2, <2>1 DEF UpdatePack
<1>3. ASSUME NEW q \in Requests, CommitPack(q) PROVE Versioned'
  <2>1. Asked'
    BY <1>3, DoneVersioned DEF CommitPack
  <2>2. RowsTold' /\ Played'
    BY <1>0, <1>3, <1>e DEF CommitPack, ListTyped, PackType
  <2> QED BY <1>0, <2>1, <2>2
<1>4. ASSUME NEW q \in Requests, SubmitCatalogInit(q) PROVE Versioned'
  <2>1. Asked'
    BY <1>4, DoneVersioned DEF SubmitCatalogInit
  <2> QED BY <1>0, <1>4, <2>1 DEF SubmitCatalogInit
<1>5. ASSUME NEW q \in Requests, RequestRebuild(q) PROVE Versioned'
  BY <1>0, <1>5 DEF RequestRebuild
<1>6. ASSUME NEW q \in Requests, AddPackMod(q) PROVE Versioned'
  <2>1. Asked'
    BY <1>6, DoneVersioned DEF AddPackMod
  <2>2. RowsTold'
    BY <1>w, <1>6, StoreVersioned DEF AddPackMod, Store
  <2> QED BY <1>0, <1>6, <2>1, <2>2 DEF AddPackMod
<1>7. ASSUME NEW q \in Requests, AddLocalPackMod(q) PROVE Versioned'
  <2>1. RowsTold'
    BY <1>w, <1>7, StoreVersioned DEF AddLocalPackMod
  <2> QED BY <1>0, <1>7, <2>1 DEF AddLocalPackMod
<1>8. ASSUME NEW q \in Requests, AutoFixCompat(q) PROVE Versioned'
  <2>1. Asked'
    BY <1>8, RequestsVersioned DEF AutoFixCompat, Step
  <2> QED BY <1>0, <1>8, <2>1 DEF AutoFixCompat
<1>9. ASSUME NEW q \in Requests, InstallFix(q) PROVE Versioned'
  <2>0. req[q] \in Steps /\ req[q].op = "fix" /\ Scanning(req[q])
    BY <1>9 DEF ListTyped, InstallFix
  <2>1. req'[q].op \notin {"update", "change"} /\ \A r \in Requests \ {q} : req'[r] = req[r]
    <3>1. PICK step : GoOn(q, step) /\ step.op \notin {"update", "change"}
      <4>1. CASE Head(req[q].fixes) = {}
        <5> DEFINE next == [req[q] EXCEPT !.fixes = Tail(req[q].fixes)]
        <5>1. GoOn(q, IF Len(req[q].fixes) = 1 THEN Done("idle") ELSE next)
          BY <1>9, <4>1 DEF InstallFix
        <5>2. next.op = "fix"
          BY <2>0 DEF Steps, StepsOf
        <5>3. Done("idle").op = "idle"
          BY DEF Done, Step
        <5> HIDE DEF next
        <5> QED BY <5>1, <5>2, <5>3
      <4>2. CASE Head(req[q].fixes) # {}
        <5> DEFINE rest(m) == <<Head(req[q].fixes) \ {m}>> \o Tail(req[q].fixes)
                   same(m) == [req[q] EXCEPT !.fixes = rest(m)]
                   deeper == IF Len(req[q].fixes) < 2 THEN "scan" ELSE "fix"
                   nested(m) == [req[q] EXCEPT !.op = deeper, !.fixes = rest(m)]
        <5>1. PICK m \in Head(req[q].fixes) : GoOn(q, same(m)) \/ GoOn(q, nested(m))
          BY <1>9, <4>2 DEF InstallFix
        <5>2. same(m).op = "fix" /\ nested(m).op = deeper
          BY <2>0 DEF Steps, StepsOf
        <5>3. deeper \in {"scan", "fix"}
          OBVIOUS
        <5> HIDE DEF same, nested, deeper
        <5> QED BY <5>1, <5>2, <5>3
      <4> QED BY <4>1, <4>2
    <3> QED BY <3>1 DEF GoOn, ListTyped
  <2>2. Asked'
    BY <1>0, <2>1
  <2>3. RowsTold'
    <3>1. CASE UNCHANGED row
      BY <1>0, <3>1
    <3>2. ASSUME NEW m \in Head(req[q].fixes), NEW v \in Versions, NEW verified \in BOOLEAN, Store(m, v, verified)
          PROVE  RowsTold'
      <4>1. req[q].fixes \in Seq(SUBSET Mods) /\ req[q].fixes # <<>>
        BY <2>0 DEF Steps, StepsOf, Scanning
      <4>2. m \in Members
        BY <1>w, <4>1, HeadTailProperties
      <4> QED BY <3>2, <4>2, StoreVersioned DEF Store
    <3> QED BY <1>9, <3>1, <3>2 DEF InstallFix
  <2>4. UNCHANGED pack
    BY <1>9 DEF InstallFix
  <2> QED BY <1>0, <2>2, <2>3, <2>4
<1>10. ASSUME NEW q \in Requests, UpdatePackMod(q) PROVE Versioned'
  <2>1. PICK m \in Mods \cup LocalMods : Present(m) /\ GoOn(q, Step("change", m, NoVersion, row[m], <<>>))
    BY <1>10 DEF UpdatePackMod
  <2>2. row[m].version # NoVersion
    BY <1>0, <2>1 DEF Present
  <2>3. Asked'
    BY <2>1, <2>2, RequestsVersioned DEF Step
  <2> QED BY <1>0, <1>10, <2>3 DEF UpdatePackMod
<1>11. ASSUME NEW q \in Requests, ChangeVersion(q) \/ ChangeStatus(q) PROVE Versioned'
  <2>1. /\ GoOn(q, Done("idle")) /\ UNCHANGED pack
        /\ req[q].op = "change" /\ req[q].mod \in Members
    BY <1>11 DEF ChangeVersion, ChangeStatus, ListTyped, Steps, StepsOf
  <2>2. Asked'
    BY <2>1, DoneVersioned
  <2>3. PICK new : WriteRow(q, new) /\ new.version # NoVersion
    <3>1. CASE ChangeVersion(q)
      BY <3>1 DEF ChangeVersion, NewRow
    <3>2. CASE ChangeStatus(q)
      BY <1>0, <2>1, <3>2 DEF ChangeStatus, NewRow
    <3> QED BY <1>11, <3>1, <3>2
  <2>4. RowsTold'
    BY <1>0, <2>1, <2>3, RowVersioned DEF WriteRow
  <2> QED BY <1>0, <2>1, <2>2, <2>4
<1>12. ASSUME NEW q \in Requests, RemovePackMod(q) PROVE Versioned'
  <2>1. PICK m \in Mods \cup LocalMods : Present(m) /\ row' = [row EXCEPT ![m].status = "removed"]
    BY <1>12 DEF RemovePackMod
  <2>2. RowsTold'
    BY <1>0, <1>w, <2>1 DEF Present, ListTyped, RowType
  <2> QED BY <1>0, <1>12, <2>2 DEF RemovePackMod
<1> QED
  BY <1>1, <1>2, <1>3, <1>4, <1>5, <1>6, <1>7, <1>8, <1>9, <1>10, <1>11, <1>12 DEF PackRequests, ModRequests
-----------------------------------------------------------------------------
(***************************************************************************)
(* What a lock lists is in the list of conflicts, for every list of mods,  *)
(* every knowledge of dependencies and any number of resolves at once.     *)
(***************************************************************************)

USE ResolveAssumptions

ViewType ==
  [mods : SUBSET (Mods \cup LocalMods), clash : BOOLEAN, members : SUBSET (Members \X Labels)]
StatusType == {"none", "pending", "resolved", "ignored"}

(* A resolve has read mods and members of the pack, and every lock and     *)
(* every conflict is of the list.                                          *)
ResolveTyped ==
  /\ ListTyped
  /\ inits \in 0..MaxInits
  /\ conflict \in [Conflicts -> StatusType]
  /\ view \in [Requests -> ViewType]
  /\ \A l \in lock : l.found \subseteq Conflicts /\ l.members \subseteq Members \X Labels

ResolveInv == ResolveTyped /\ LockedConflictsAreListed

-----------------------------------------------------------------------------
(* What is found is of dependencies, and of mods no provider answers for.  *)
LEMMA FoundInConflicts ==
  ASSUME NEW mods \in SUBSET (Mods \cup LocalMods), NEW unknown \in SUBSET (mods \cap (Silent \cup LocalMods))
  PROVE  Found(mods, unknown) \subseteq Conflicts
  BY DEF Found, Conflicts

(* A conflict that is found is in the list, and none ever leaves it.       *)
LEMMA UpsertLists ==
  ASSUME conflict \in [Conflicts -> StatusType], NEW found \in SUBSET Conflicts, Upsert(found)
  PROVE  /\ conflict' \in [Conflicts -> StatusType]
         /\ \A c \in found : conflict'[c] # "none"
<1>1. ASSUME NEW c \in Conflicts PROVE conflict'[c] \in StatusType /\ (c \in found => conflict'[c] # "none")
  BY DEF Upsert, StatusType
<1>2. conflict' = [c \in Conflicts |-> conflict'[c]]
  BY DEF Upsert
<1> QED BY <1>1, <1>2

(* What the requests of ModList change leaves locks and conflicts alone.   *)
LEMMA ListKeeps ==
  ASSUME ResolveInv, ListTyped', inits' \in 0..MaxInits, UNCHANGED lockVars
  PROVE  ResolveInv'
<1>1. conflict' = conflict /\ lock' = lock /\ view' = view
  BY DEF lockVars
<1> QED BY <1>1 DEF ResolveInv, ResolveTyped, LockedConflictsAreListed

(* The requests about the pack as a whole.                                 *)
LEMMA ShelfTyped ==
  ASSUME ResolveInv, ShelfRequests(inits > 0)
  PROVE  ListTyped' /\ inits' \in 0..MaxInits
<1>1. PICK q \in Requests : ArchivePack(q) \/ UnarchivePack(q) \/ DeletePack(q, inits > 0)
  BY DEF ShelfRequests
<1>2. ASSUME NEW status \in {"archived", "active"}, SetPackStatus(q, status)
      PROVE  ListTyped' /\ inits' \in 0..MaxInits
  <2>1. pack' \in PackType
    BY <1>2 DEF SetPackStatus, ResolveInv, ResolveTyped, ListTyped, PackType
  <2> QED BY <1>2, <2>1 DEF SetPackStatus, ResolveInv, ResolveTyped, ListTyped, Scanning
<1>3. ASSUME DeletePack(q, inits > 0) PROVE ListTyped' /\ inits' \in 0..MaxInits
  <2>1. PICK answer \in {"idle", "error"} : GoOn(q, Done(answer))
    BY <1>3 DEF DeletePack
  <2>2. answer \in (ListOps \cup {"members", "lock"}) \ {"fix"}
    BY DEF ListOps, Answers
  <2>3. /\ req' \in [Requests -> Steps] /\ \A r \in Requests : Scanning(req[r])'
    BY <2>1, <2>2, DoneTyped, GoOnTyped DEF ResolveInv, ResolveTyped
  <2>4. pack' \in PackType /\ row' \in [Members -> RowType]
    <3>1. /\ pack' = pack \/ pack' = [pack EXCEPT !.status = "absent"]
          /\ row' = row \/ row' = [m \in Members |-> Absent]
      BY <1>3 DEF DeletePack
    <3> QED BY <3>1, AbsentTyped DEF ResolveInv, ResolveTyped, ListTyped, PackType
  <2> QED BY <1>3, <2>3, <2>4 DEF DeletePack, ResolveInv, ResolveTyped, ListTyped
<1> QED BY <1>1, <1>2, <1>3 DEF ArchivePack, UnarchivePack

(* A resolve that reads goes on with what it has read.                     *)
LEMMA ReadsKeep ==
  ASSUME ResolveInv, NEW q \in Requests, NEW op \in {"members", "lock"}, NEW seen \in ViewType,
         GoOn(q, Done(op)), view' = [view EXCEPT ![q] = seen],
         UNCHANGED <<pack, row, inits, conflict, lock>>
  PROVE  ResolveInv'
<1>1. /\ req' \in [Requests -> Steps] /\ \A r \in Requests : Scanning(req[r])'
  BY DoneTyped, GoOnTyped DEF ResolveInv, ResolveTyped
<1>2. ListTyped'
  BY <1>1 DEF ResolveInv, ResolveTyped, ListTyped
<1> QED BY <1>2 DEF ResolveInv, ResolveTyped, LockedConflictsAreListed

(* A lock comes with its conflicts.                                        *)
LEMMA CreateLockKeeps ==
  ASSUME ResolveInv, NEW q \in Requests, CreateLock(q)
  PROVE  ResolveInv'
<1>0. view[q] \in ViewType
  BY DEF ResolveInv, ResolveTyped
<1>1. ListTyped' /\ inits' \in 0..MaxInits
  <2>1. "idle" \in ListOps
    BY DEF ListOps, Answers
  <2>2. /\ req' \in [Requests -> Steps] /\ \A r \in Requests : Scanning(req[r])'
    BY <2>1, DoneTyped, GoOnTyped DEF CreateLock, ResolveInv, ResolveTyped
  <2> QED BY <2>2 DEF CreateLock, ResolveInv, ResolveTyped, ListTyped
<1>2. view' \in [Requests -> ViewType]
  <2>1. Unread \in ViewType
    BY DEF Unread, Listed, ViewType
  <2> QED BY <2>1 DEF CreateLock, ResolveInv, ResolveTyped
<1>3. PICK unknown \in SUBSET (view[q].mods \cap (Silent \cup LocalMods)) :
        \/ UNCHANGED <<lock, conflict>>
        \/ /\ lock' = {[members |-> view[q].members, found |-> Found(view[q].mods, unknown)]}
           /\ Upsert(Found(view[q].mods, unknown))
  BY DEF CreateLock
<1>4. CASE UNCHANGED <<lock, conflict>>
  BY <1>1, <1>2, <1>4 DEF ResolveInv, ResolveTyped, LockedConflictsAreListed
<1>5. CASE /\ lock' = {[members |-> view[q].members, found |-> Found(view[q].mods, unknown)]}
           /\ Upsert(Found(view[q].mods, unknown))
  <2> DEFINE found == Found(view[q].mods, unknown)
  <2>1. found \in SUBSET Conflicts
    BY <1>0, FoundInConflicts DEF ViewType
  <2>2. /\ conflict' \in [Conflicts -> StatusType]
        /\ \A c \in found : conflict'[c] # "none"
    BY <1>5, <2>1, UpsertLists DEF ResolveInv, ResolveTyped
  <2>3. \A l \in lock' : l.found = found /\ l.members = view[q].members
    BY <1>5
  <2>4. view[q].members \subseteq Members \X Labels
    BY <1>0 DEF ViewType
  <2> HIDE DEF found
  <2>5. ResolveTyped'
    BY <1>1, <1>2, <2>1, <2>2, <2>3, <2>4 DEF ResolveTyped
  <2>6. LockedConflictsAreListed'
    BY <2>2, <2>3 DEF LockedConflictsAreListed
  <2> QED BY <2>5, <2>6 DEF ResolveInv
<1> QED BY <1>3, <1>4, <1>5

-----------------------------------------------------------------------------
LEMMA ResolveInitEstablishes == ResolveInit => ResolveInv
<1> SUFFICES ASSUME ResolveInit PROVE ResolveInv
  OBVIOUS
<1>0. Done("idle") \in Steps /\ Scanning(Done("idle"))
  BY DoneTyped DEF ListOps, Answers
<1>1. /\ pack = [status |-> "absent", mc |-> NoVersion] /\ row = [m \in Members |-> Absent] /\ inits = 0
      /\ req = [q \in Requests |-> Done("idle")] /\ conflict = [c \in Conflicts |-> "none"]
      /\ lock = {} /\ view = [q \in Requests |-> Unread]
  BY DEF ResolveInit, ListInit
<1>2. ListTyped
  <2>1. pack \in PackType
    BY <1>1 DEF PackType
  <2> QED BY <1>0, <1>1, <2>1, AbsentTyped DEF ListTyped
<1>3. Unread \in ViewType
  BY DEF Unread, Listed, ViewType
<1> QED BY <1>1, <1>2, <1>3 DEF ResolveInv, ResolveTyped, StatusType, LockedConflictsAreListed

LEMMA ResolveNextKeeps == ResolveInv /\ [ResolveNext]_resolveVars => ResolveInv'
<1> SUFFICES ASSUME ResolveInv, [ResolveNext]_resolveVars PROVE ResolveInv'
  OBVIOUS
<1>0. ListTyped /\ inits \in 0..MaxInits
  BY DEF ResolveInv, ResolveTyped
<1>1. CASE (PackRequests \/ ModRequests) /\ UNCHANGED lockVars
  <2>1. ListTyped' /\ inits' \in 0..MaxInits
    BY <1>0, <1>1, PackMoves, ModMoves DEF ListMove, PackMove
  <2> QED BY <1>1, <2>1, ListKeeps
<1>2. CASE ShelfRequests(inits > 0) /\ UNCHANGED lockVars
  BY <1>2, ShelfTyped, ListKeeps
<1>3. ASSUME NEW q \in Requests, ListPackMods(q) PROVE ResolveInv'
  <2> DEFINE seen == Listed({m \in Mods \cup LocalMods : Present(m)}, Clash, {})
  <2>1. Clash \in BOOLEAN
    BY DEF Clash
  <2>2. seen \in ViewType
    BY <2>1 DEF Listed, ViewType
  <2> HIDE DEF seen
  <2> QED BY <1>3, <2>2, ReadsKeep DEF ListPackMods, seen
<1>4. ASSUME NEW q \in Requests, ListPackMembers(q) PROVE ResolveInv'
  <2> DEFINE read == {<<m, row[m].version>> : m \in {n \in Members : Present(n)}}
             seen == [view[q] EXCEPT !.members = read]
  <2>1. read \in SUBSET (Members \X Labels)
    BY <1>0 DEF ListTyped, RowType
  <2>2. seen \in ViewType
    <3> HIDE DEF read
    <3> QED BY <2>1 DEF ViewType, ResolveInv, ResolveTyped
  <2>3. GoOn(q, Done("lock")) /\ view' = [view EXCEPT ![q] = seen] /\ UNCHANGED <<pack, row, inits, conflict, lock>>
    BY <1>4 DEF ListPackMembers
  <2> HIDE DEF seen
  <2> QED BY <2>2, <2>3, ReadsKeep
<1>5. ASSUME NEW q \in Requests, CreateLock(q) PROVE ResolveInv'
  BY <1>5, CreateLockKeeps
<1>6. CASE ResolveConflict
  <2>1. PICK c \in Conflicts, status \in {"resolved", "ignored"} : conflict' = [conflict EXCEPT ![c] = status]
    BY <1>6 DEF ResolveConflict
  <2>2. UNCHANGED <<pack, row, inits, req, lock, view>>
    BY <1>6 DEF ResolveConflict, listVars
  <2>3. conflict' \in [Conflicts -> StatusType] /\ \A d \in Conflicts : conflict[d] # "none" => conflict'[d] # "none"
    BY <2>1 DEF ResolveInv, ResolveTyped, StatusType
  <2>4. ListTyped'
    BY <2>2 DEF ResolveInv, ResolveTyped, ListTyped, Scanning
  <2> QED BY <2>2, <2>3, <2>4 DEF ResolveInv, ResolveTyped, LockedConflictsAreListed
<1>7. CASE UNCHANGED resolveVars
  <2>1. UNCHANGED <<pack, row, inits, req, conflict, lock, view>>
    BY <1>7 DEF resolveVars
  <2> QED BY <2>1 DEF ResolveInv, ResolveTyped, ListTyped, Scanning, LockedConflictsAreListed
<1> QED BY <1>1, <1>2, <1>3, <1>4, <1>5, <1>6, <1>7 DEF ResolveNext

(* The inductive invariant holds in every state.                           *)
THEOREM ResolveInvariance == ResolveSpec => []ResolveInv
BY ResolveInitEstablishes, ResolveNextKeeps, PTL DEF ResolveSpec

(* Every variable of a resolve keeps its type.                             *)
THEOREM ResolveTyping == ResolveSpec => []ResolveTypeOK
<1>1. ResolveInv => ResolveTypeOK
  BY DEF ResolveInv, ResolveTyped, ResolveTypeOK, ListTyped, PackType, RowType, StatusType, Steps, StepsOf, ListOps
<1> QED BY <1>1, ResolveInvariance, PTL

(* Every conflict that the lock lists is in the list of conflicts, however *)
(* many resolves ran at once (CreateLock, mod_repo.go).                    *)
THEOREM LockIsListed == ResolveSpec => []LockedConflictsAreListed
<1>1. ResolveInv => LockedConflictsAreListed
  BY DEF ResolveInv
<1> QED BY <1>1, ResolveInvariance, PTL
=============================================================================
