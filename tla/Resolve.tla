------------------------------- MODULE Resolve -------------------------------
(***************************************************************************)
(* Resolving a pack's dependencies: service/mods.go ResolvePack and        *)
(* ResolveConflict, store/mod_repo.go CreateLock, next to all requests of  *)
(* ModList.  A resolve reads the list twice, asks the providers, and       *)
(* records a lock and the conflicts it found in one transaction.           *)
(***************************************************************************)
EXTENDS ModList

CONSTANTS
  Needs,  \* <<m, d>>: mod m declares a dependency on mod d
  Silent  \* mods that a provider may say nothing of

ASSUME ResolveAssumptions ==
  /\ Needs \subseteq Mods \X Mods /\ \A n \in Needs : n[1] # n[2]
  /\ Silent \subseteq Mods

VARIABLES
  conflict,  \* conflict[c]: the status of conflict c, "none" if there is no row
  lock,      \* what the lock of the current version lists, in a set: {} if there is none
  view       \* view[q]: what resolve q has read

resolveVars == <<pack, row, fresh, sameConfig, current, build, inits, req, conflict, lock, view>>

lockVars == <<conflict, lock, view>>

(* The fingerprints of conflicts: <<m, d>> is a dependency that is missing,*)
(* <<m, m>> a mod that no provider says anything of.                       *)
Conflicts == Needs \cup {<<m, m>> : m \in Silent \cup LocalMods}

Listed(mods, clash, members) == [mods |-> mods, clash |-> clash, members |-> members]
Unread == Listed({}, FALSE, {})

(* Clashes that no cure in the list takes care of; as in Cures, disabled   *)
(* mods do not clash but a disabled cure counts.                           *)
Clash ==
  LET Active(m) == Present(m) /\ row[m].status # "disabled"
  IN \E i \in KnownIssues : i.a # i.b /\ Active(i.a) /\ Active(i.b) /\ ~Present(i.fix)

-----------------------------------------------------------------------------
ListPackMods(q) ==
  /\ Free(q) /\ Exists
  /\ view' = [view EXCEPT ![q] = Listed({m \in Mods \cup LocalMods : Present(m)}, Clash, {})]
  /\ GoOn(q, Done("members"))
  /\ UNCHANGED <<pack, row, fresh, sameConfig, current, build, inits, conflict, lock>>

ListPackMembers(q) ==
  /\ req[q].op = "members"
  /\ view' = [view EXCEPT ![q].members = {<<m, row[m].version>> : m \in {n \in Members : Present(n)}}]
  /\ GoOn(q, Done("lock"))
  /\ UNCHANGED <<pack, row, fresh, sameConfig, current, build, inits, conflict, lock>>

(* Local mods have no provider; others may not be answered for.            *)
Found(mods, unknown) ==
  {<<m, m>> : m \in unknown} \cup {n \in Needs : n[1] \in mods \ unknown /\ n[2] \notin mods}

Upsert(found) ==
  conflict' = [c \in Conflicts |->
                 IF c \notin found THEN conflict[c]
                 ELSE IF conflict[c] = "ignored" THEN "ignored" ELSE "pending"]

(* Mutant: the lock is kept although writing its conflicts failed.         *)
CreateLockOnly(q) ==
  /\ req[q].op = "lock"
  /\ \E unknown \in SUBSET (view[q].mods \cap (Silent \cup LocalMods)) :
       LET found == Found(view[q].mods, unknown) IN
       /\ view[q].mods \cap LocalMods \subseteq unknown
       /\ lock' = {[members |-> view[q].members, found |-> found]} /\ UNCHANGED conflict
  /\ view' = [view EXCEPT ![q] = Unread]
  /\ GoOn(q, Done("idle"))
  /\ UNCHANGED <<pack, row, fresh, sameConfig, current, build, inits>>

(* A known issue aborts the transaction: its kind is none that the check   *)
(* of the conflicts table allows.                                          *)
CreateLock(q) ==
  /\ req[q].op = "lock"
  /\ \E unknown \in SUBSET (view[q].mods \cap (Silent \cup LocalMods)) :
       LET found == Found(view[q].mods, unknown) IN
       /\ view[q].mods \cap LocalMods \subseteq unknown
       /\ IF view[q].clash THEN UNCHANGED <<lock, conflict>>
          ELSE lock' = {[members |-> view[q].members, found |-> found]} /\ Upsert(found)
  /\ view' = [view EXCEPT ![q] = Unread]
  /\ GoOn(q, Done("idle"))
  /\ UNCHANGED <<pack, row, fresh, sameConfig, current, build, inits>>

(* Resolved or ignored, whatever its status was.                           *)
ResolveConflict ==
  /\ \E c \in Conflicts, status \in {"resolved", "ignored"} :
       conflict[c] # "none" /\ conflict' = [conflict EXCEPT ![c] = status]
  /\ UNCHANGED <<listVars, lock, view>>

-----------------------------------------------------------------------------
ResolveInit ==
  /\ ListInit
  /\ conflict = [c \in Conflicts |-> "none"]
  /\ lock = {}
  /\ view = [q \in Requests |-> Unread]

ResolveNext ==
  \/ (PackRequests \/ ModRequests \/ ShelfRequests(inits > 0)) /\ UNCHANGED lockVars
  \/ \E q \in Requests : ListPackMods(q) \/ ListPackMembers(q) \/ CreateLock(q)
  \/ ResolveConflict

ResolveSpec == ResolveInit /\ [][ResolveNext]_resolveVars

-----------------------------------------------------------------------------
(* Every variable has its type.                                            *)
ResolveTypeOK ==
  /\ pack \in [status : {"absent", "active", "archived"}, mc : GameVersions \cup {NoVersion}]
  /\ row \in [Members -> [status : Statuses, version : Labels, selection : Labels]]
  /\ \A q \in Requests : req[q].op \in Answers \cup
       {"submit", "update", "scan", "fix", "change", "members", "lock"}
  /\ conflict \in [Conflicts -> {"none", "pending", "resolved", "ignored"}]
  /\ \A l \in lock : l.found \subseteq Conflicts /\ l.members \subseteq Members \X Labels

(* PackHealth tells of the lock that is current: unless a user resolved or *)
(* ignored them, all its conflicts are pending in the list, however many   *)
(* resolves ran at once (mod_repo.go, CreateLock).                         *)
LockedConflictsAreListed ==
  \A l \in lock : \A c \in l.found : conflict[c] # "none"

=============================================================================
