------------------------------- MODULE ModList -------------------------------
(***************************************************************************)
(* One pack and its mod list: the requests of service/api.go (create,      *)
(* update, archive, delete a pack) and service/mods.go (add, change and    *)
(* remove mods), the rows they write, and what the triggers of migrations  *)
(* 0013 and 0016 add to every write.                                       *)
(*                                                                         *)
(* A repository call or transaction is one step.  A request that reads     *)
(* first and writes later is several steps.  Catalog and Resolve extend    *)
(* this module with what reads the list.                                   *)
(*                                                                         *)
(* source_revision and config_revision are counters that are only ever     *)
(* compared for equality, so each is modelled by the set of those who hold *)
(* its present value; raising it empties the set.                          *)
(***************************************************************************)
EXTENDS Naturals, FiniteSets, Sequences

CONSTANTS
  Mods,          \* provider mods
  LocalMods,     \* mods that come as a file of the user's
  Minecraft,     \* the built-in member
  Versions,      \* versions of a mod, each with its own archive and SHA-1
  GameVersions,  \* versions of Minecraft
  NoVersion,     \* no SHA-1 or no selection
  KnownIssues,   \* the compatibility knowledge: [a, b, fix], mods that clash and the cure
  Requests,      \* requests served at the same time
  MaxInits       \* bound: catalog_init tasks queued

Members == Mods \cup LocalMods \cup {Minecraft}
Labels == Versions \cup GameVersions \cup {NoVersion}
Statuses == {"absent", "pending", "installed", "disabled", "removed"}

ASSUME ModListAssumptions ==
  /\ Minecraft \notin Mods \cup LocalMods
  /\ Mods \cap LocalMods = {}
  /\ Versions \cap GameVersions = {}
  /\ NoVersion \notin Versions \cup GameVersions
  /\ KnownIssues \subseteq [a : Mods, b : Mods, fix : Mods]
  /\ MaxInits \in Nat

VARIABLES
  pack,        \* packs: status and Minecraft version
  row,         \* row[m], pack_mods: status, version (SHA-1) and current selection
  fresh,       \* who holds the present source_revision
  sameConfig,  \* who holds the present config_revision
  current,     \* the sources of the generation current_generation_id names, in a set
               \* of their own: {} if it is NULL
  build,       \* pack_catalog_state.build_status
  inits,       \* catalog_init tasks in the queue
  req          \* req[q]: where request q is, and what it has read

listVars == <<pack, row, fresh, sameConfig, current, build, inits, req>>

NewRow(status, version, selection) ==
  [status |-> status, version |-> version, selection |-> selection]
Absent == NewRow("absent", NoVersion, NoVersion)

(* fixes: one set of cures for each nested scan that is under way.         *)
Step(op, mod, mc, copy, fixes) ==
  [op |-> op, mod |-> mod, mc |-> mc, copy |-> copy, fixes |-> fixes]
Done(answer) == Step(answer, Minecraft, NoVersion, Absent, <<>>)
Answers == {"idle", "error"}

Present(m) == row[m].status \notin {"absent", "removed"}
Exists == pack.status # "absent"
Free(q) == req[q].op \in Answers
GoOn(q, step) == req' = [req EXCEPT ![q] = step]

(* Mutant: the state of the catalog build outlives its sources.            *)
TouchRevisionOnly == fresh' = {} /\ UNCHANGED build

(* The triggers of 0013: every write of pack_mods, mod_content and         *)
(* mod_content_runs, and of the version columns of packs.                  *)
Touch == fresh' = {} /\ build' = "pending"

(* Mutant: the pointer to the generation outlives the configuration.       *)
InvalidateRevisionOnly == sameConfig' = {} /\ UNCHANGED current

InvalidatePackGeneration == sameConfig' = {} /\ current' = {}

-----------------------------------------------------------------------------
(* Packs. *)

(* Keeps a selection that is of this Minecraft version, drops any other.   *)
EnsureMinecraftPackMod(mc) ==
  row' = [row EXCEPT ![Minecraft] =
            IF @.selection = mc THEN @ ELSE NewRow("pending", NoVersion, NoVersion)]

CreatePack(q) ==
  /\ Free(q)
  /\ pack.status = "absent"
  /\ \E mc \in GameVersions :
       /\ pack' = [status |-> "active", mc |-> mc]
       /\ EnsureMinecraftPackMod(mc)
  /\ Touch
  /\ GoOn(q, Done("submit"))
  /\ UNCHANGED <<sameConfig, current, inits>>

(* After the transaction, in one of its own; a failure is left in the      *)
(* build state.                                                            *)
SubmitCatalogInit(q) ==
  /\ req[q].op = "submit"
  /\ \/ inits < MaxInits /\ inits' = inits + 1 /\ UNCHANGED build
     \/ build' = "failed" /\ UNCHANGED inits
  /\ GoOn(q, Done("idle"))
  /\ UNCHANGED <<pack, row, fresh, sameConfig, current>>

(* POST catalog/rebuild.                                                   *)
RequestRebuild(q) ==
  /\ Free(q) /\ Exists
  /\ inits < MaxInits
  /\ inits' = inits + 1
  /\ UNCHANGED <<pack, row, fresh, sameConfig, current, build, req>>

UpdatePack(q) ==
  /\ Free(q) /\ Exists
  /\ \E mc \in GameVersions : GoOn(q, Step("update", Minecraft, mc, NewRow("absent", pack.mc, NoVersion), <<>>))
  /\ UNCHANGED <<pack, row, fresh, sameConfig, current, build, inits>>

(* The row that was read is written back whole, its version or its loader  *)
(* changed if the request says so; what counts as a change is measured     *)
(* against that row.  An archived pack is not found.                       *)
CommitPack(q) ==
  LET mc == req[q].mc IN
  /\ req[q].op = "update"
  /\ IF pack.status # "active"
     THEN GoOn(q, Done("idle")) /\ UNCHANGED <<pack, row, fresh, sameConfig, current, build>>
     ELSE \E loader \in BOOLEAN :
          /\ pack' = [pack EXCEPT !.mc = mc]
          /\ Touch
          /\ IF loader \/ req[q].copy.version # mc
             THEN InvalidatePackGeneration /\ EnsureMinecraftPackMod(mc) /\ GoOn(q, Done("submit"))
             ELSE GoOn(q, Done("idle")) /\ UNCHANGED <<row, sameConfig, current>>
  /\ UNCHANGED inits

SetPackStatus(q, status) ==
  /\ Free(q) /\ Exists
  /\ pack' = [pack EXCEPT !.status = status]
  /\ UNCHANGED <<row, fresh, sameConfig, current, build, inits, req>>

ArchivePack(q) == SetPackStatus(q, "archived")
UnarchivePack(q) == SetPackStatus(q, "active")

(* A pack with tasks of its own that wait or run is kept.  Otherwise its   *)
(* rows go with it, unless the guard on the Minecraft member stops that.   *)
DeletePack(q, busy) ==
  /\ Free(q) /\ Exists
  /\ IF busy \/ Present(Minecraft)
     THEN GoOn(q, Done(IF busy THEN "idle" ELSE "error")) /\ UNCHANGED <<pack, row>>
     ELSE /\ pack' = [pack EXCEPT !.status = "absent"]
          /\ row' = [m \in Members |-> Absent]
          /\ GoOn(q, Done("idle"))
  /\ UNCHANGED <<fresh, sameConfig, current, build, inits>>

-----------------------------------------------------------------------------
(* Mods. *)

(* The row of a mod that is added, or comes back after it was removed;     *)
(* the selection of a removed row is still there, and moves only when the  *)
(* provider sent the archive itself and not only its hash.                 *)
Added(m, v, verified) ==
  row' = [row EXCEPT ![m] = NewRow("installed", v, IF verified THEN v ELSE @.selection)]

Store(m, v, verified) ==
  /\ ~Present(m)
  /\ Added(m, v, verified)
  /\ Touch
  /\ InvalidatePackGeneration

AddPackMod(q) ==
  /\ Free(q) /\ Exists
  /\ \E m \in Mods, v \in Versions, verified \in BOOLEAN : Store(m, v, verified)
  /\ GoOn(q, Done("scan"))
  /\ UNCHANGED <<pack, inits>>

(* A local row has no identity yet, so a new one is made each time; no     *)
(* selection.                                                              *)
AddLocalPackMod(q) ==
  /\ Free(q) /\ Exists
  /\ \E m \in LocalMods, v \in Versions :
       /\ row[m].status = "absent"
       /\ Added(m, v, FALSE)
  /\ Touch
  /\ InvalidatePackGeneration
  /\ UNCHANGED <<pack, inits, req>>

(* Active mods that clash, by the list as it is now; disabled ones do not  *)
(* clash, but a disabled cure counts as present.                           *)
Cures ==
  LET Active(m) == Present(m) /\ row[m].status # "disabled"
  IN {i.fix : i \in {k \in KnownIssues : Active(k.a) /\ Active(k.b) /\ k.a # k.b}}
       \cap {m \in Mods : ~Present(m)}

AutoFixCompat(q) ==
  /\ req[q].op = "scan"
  /\ GoOn(q, Step("fix", Minecraft, NoVersion, Absent, <<Cures>> \o req[q].fixes))
  /\ UNCHANGED <<pack, row, fresh, sameConfig, current, build, inits>>

(* Each cure is added as AddPackMod adds a mod.  One that cannot be got,   *)
(* or was added by someone else since the scan, is passed over; one that   *)
(* was added is followed by a scan of its own, two levels deep.            *)
InstallFix(q) ==
  LET fixes == req[q].fixes
      rest(m) == <<Head(fixes) \ {m}>> \o Tail(fixes)
  IN
  /\ req[q].op = "fix"
  /\ IF Head(fixes) = {}
     THEN /\ GoOn(q, IF Len(fixes) = 1 THEN Done("idle") ELSE [req[q] EXCEPT !.fixes = Tail(fixes)])
          /\ UNCHANGED <<row, fresh, sameConfig, current, build>>
     ELSE \E m \in Head(fixes) :
            \/ /\ GoOn(q, [req[q] EXCEPT !.fixes = rest(m)])
               /\ UNCHANGED <<row, fresh, sameConfig, current, build>>
            \/ /\ \E v \in Versions, verified \in BOOLEAN : Store(m, v, verified)
               /\ GoOn(q, [req[q] EXCEPT !.op = IF Len(fixes) < 2 THEN "scan" ELSE "fix",
                                         !.fixes = rest(m)])
  /\ UNCHANGED <<pack, inits>>

(* The row is read outside the transaction that writes it.                 *)
UpdatePackMod(q) ==
  /\ Free(q) /\ Exists
  /\ \E m \in Mods \cup LocalMods : Present(m) /\ GoOn(q, Step("change", m, NoVersion, row[m], <<>>))
  /\ UNCHANGED <<pack, row, fresh, sameConfig, current, build, inits>>

(* A row that was removed meanwhile is not found, and nothing is written.  *)
WriteRow(q, new) ==
  IF Present(req[q].mod)
  THEN /\ row' = [row EXCEPT ![req[q].mod] = new]
       /\ Touch
       /\ InvalidatePackGeneration
  ELSE UNCHANGED <<row, fresh, sameConfig, current, build>>

(* Another version: with its archive at hand it is verified and selected,  *)
(* with a hash alone the row waits, under the selection it had.            *)
ChangeVersion(q) ==
  /\ req[q].op = "change" /\ req[q].mod \in Mods
  /\ \E v \in Versions \ {req[q].copy.version} :
       \/ WriteRow(q, NewRow("installed", v, v))
       \/ WriteRow(q, NewRow("pending", v, row[req[q].mod].selection))
  /\ GoOn(q, Done("idle"))
  /\ UNCHANGED <<pack, inits>>

(* A new status, or only the required flag: the version that was read is   *)
(* written back.  A mod that never was verified cannot be called installed.*)
ChangeStatus(q) ==
  /\ req[q].op = "change"
  /\ \E status \in {"pending", "installed", "disabled"} :
       /\ \/ status = req[q].copy.status
          \/ status = "installed" => req[q].copy.selection # NoVersion
       /\ WriteRow(q, NewRow(status, req[q].copy.version, row[req[q].mod].selection))
  /\ GoOn(q, Done("idle"))
  /\ UNCHANGED <<pack, inits>>

(* The guard of 0016 refuses to remove Minecraft.                          *)
RemovePackMod(q) ==
  /\ Free(q) /\ Exists
  /\ \E m \in Mods \cup LocalMods : Present(m) /\ row' = [row EXCEPT ![m].status = "removed"]
  /\ Touch
  /\ InvalidatePackGeneration
  /\ UNCHANGED <<pack, inits, req>>

-----------------------------------------------------------------------------
ListInit ==
  /\ pack = [status |-> "absent", mc |-> NoVersion]
  /\ row = [m \in Members |-> Absent]
  /\ fresh = {}
  /\ sameConfig = {}
  /\ current = {}
  /\ build = "pending"
  /\ inits = 0
  /\ req = [q \in Requests |-> Done("idle")]

PackRequests ==
  \E q \in Requests :
    \/ CreatePack(q) \/ UpdatePack(q) \/ CommitPack(q)
    \/ SubmitCatalogInit(q) \/ RequestRebuild(q)

ShelfRequests(busy) ==
  \E q \in Requests : ArchivePack(q) \/ UnarchivePack(q) \/ DeletePack(q, busy)

ModRequests ==
  \E q \in Requests :
    \/ AddPackMod(q) \/ AddLocalPackMod(q) \/ AutoFixCompat(q) \/ InstallFix(q)
    \/ UpdatePackMod(q) \/ ChangeVersion(q) \/ ChangeStatus(q) \/ RemovePackMod(q)

ListTypeOK ==
  /\ pack \in [status : {"absent", "active", "archived"}, mc : GameVersions \cup {NoVersion}]
  /\ row \in [Members -> [status : Statuses, version : Labels, selection : Labels]]
  /\ Cardinality(current) <= 1 /\ current \subseteq SUBSET Members
  /\ build \in {"pending", "running", "succeeded", "failed"}
  /\ inits \in 0..MaxInits
  /\ \A q \in Requests : req[q].op \in Answers \cup {"submit", "update", "scan", "fix", "change"}

(* A mod that was removed comes back only by being added, which counts as  *)
(* a change of the configuration; no late write of a request or a task     *)
(* that read the row before can bring it back.                             *)
RemovedComesBackByAdd ==
  [][\A m \in Mods \cup LocalMods :
       row[m].status = "removed" /\ row'[m].status # "removed"
         => current' = {} /\ \E q \in Requests : req[q].op \in Answers \cup {"fix"}]_listVars
=============================================================================
