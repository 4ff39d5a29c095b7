------------------------------ MODULE Revisions ------------------------------
(***************************************************************************)
(* Content documents and the quest book of one pack: numbered revisions    *)
(* that are drafted, validated, applied and rolled back by several clients *)
(* at once (apps/server/internal/service/content.go and                    *)
(* store/content_repo.go).                                                 *)
(*                                                                         *)
(* A repository call is one transaction and one step.  A request that      *)
(* reads first and writes later is several steps, and other requests run   *)
(* in between.                                                             *)
(***************************************************************************)
EXTENDS RevisionRules, Functions

CONSTANTS
  Docs,          \* content documents, each one (kind, slug) of the pack
  KindOf,        \* KindOf[d]: recipe, structure or ore
  Book,          \* the pack's quest book
  Clients,       \* requests that run at the same time, one per client
  Payloads,      \* content payloads a client sends
  Drafts,        \* quest drafts a client sends
  Refs,          \* mod references the drafts hold
  Pack,          \* this pack ...
  OtherPacks,    \* ... and the others that may select the same mods
  MaxRevisions,  \* bound: revisions of all of them together
  MaxRuns        \* bound: validation results kept

Ledgers == Docs \cup {Book}
Packs == {Pack} \cup OtherPacks
Numbers == 1..MaxRevisions

ASSUME RevisionAssumptions ==
  /\ Book \notin Docs
  /\ KindOf \in [Docs -> ContentKinds]
  /\ MaxRevisions \in Nat
  /\ MaxRuns \in Nat
  /\ NoId \notin Packs
  /\ \A d \in Drafts : Finite(d) /\ \A i \in DOMAIN d.nodes : d.nodes[i].modRefs \subseteq Refs

VARIABLES
  rev,      \* rev[l]: the revisions of l, number n at position n
  active,   \* active[l]: number of the active revision, 0 if none
  check,    \* check[k]: the applied <<ledger, number>> in the delivery check of kind k
  runs,     \* content validation results on record
  calls,    \* calls[c]: where client c's request is, and what it has read
  seen,     \* seen[c][l]: newest revision client c was shown, its If-Match
  owners    \* owners[m]: the packs that select mod m

vars == <<rev, active, check, runs, calls, seen, owners>>

Kind(l) == IF l = Book THEN "quest" ELSE "content"
NoCheck == <<Book, 0>>
Last(l) == Len(rev[l])
RoomLeft == FoldFunction(LAMBDA r, n : Len(r) + n, 0, rev) < MaxRevisions

(* basis: the newest revision the author of this one knew of; only          *)
(* RollbackContent leaves it 0.                                             *)
Draft(payload, source, basis) ==
  [state |-> "draft", payload |-> payload, source |-> source, basis |-> basis]

Call(step, l, n, payload) == [step |-> step, ledger |-> l, number |-> n, payload |-> payload]
Idle == Call("idle", Book, 0, NoId)

Init ==
  /\ rev = [l \in Ledgers |-> <<>>]
  /\ active = [l \in Ledgers |-> 0]
  /\ check = [k \in {"content", "quest"} |-> NoCheck]
  /\ runs = {}
  /\ calls = [c \in Clients |-> Idle]
  /\ seen = [c \in Clients |-> [l \in Ledgers |-> 0]]
  /\ owners \in [Refs -> SUBSET Packs]

-----------------------------------------------------------------------------
(* Rows: what the statements and transactions of content_repo.go read and  *)
(* write.                                                                  *)

AppendRow(l, row) == rev' = [rev EXCEPT ![l] = Append(@, row)]
Shown(c, l, n) == seen' = [seen EXCEPT ![c][l] = n]

(* GetContentDocument and GetQuestRevision answer with the latest revision; *)
(* ListContentHistory and ListQuestHistory with all of them.                *)
LatestContent(d) == Last(d)
LatestQuest == Last(Book)
ContentHistory(d) == DOMAIN rev[d]
QuestHistory == DOMAIN rev[Book]

(* GetQuestRevisionByID puts a stored graph together again.                 *)
StoredQuest(n) == rev[Book][n].payload

(* Mutant: the number a client names is not compared.                      *)
MatchesAny(l, expected) == expected <= Last(l)

(* A draft is saved only on top of the revision its author names.          *)
Matches(l, expected) == expected = Last(l)

(* Document and first draft are one transaction.                           *)
CreateContentRow(c, d, p) ==
  /\ AppendRow(d, Draft(p, 0, 0))
  /\ Shown(c, d, 1)

(* The draft that is saved already is answered and not stored again.       *)
SaveContentRow(c, d, p, expected) ==
  /\ Matches(d, expected)
  /\ rev[d][Last(d)].payload # p
  /\ AppendRow(d, Draft(p, 0, expected))
  /\ Shown(c, d, Last(d) + 1)

(* The copy goes on top of whatever is the latest revision by then.        *)
RollbackContentRow(c, d, n) ==
  /\ AppendRow(d, Draft(rev[d][n].payload, n, 0))
  /\ Shown(c, d, Last(d) + 1)

(* The transaction creates the book with its first revision.  Without a    *)
(* match, or if a table refuses the graph, it leaves nothing behind.       *)
SaveQuestRow(c, d, expected) ==
  IF Matches(Book, expected) /\ Storable(d)
  THEN /\ AppendRow(Book, Draft(d, 0, expected))
       /\ Shown(c, Book, Last(Book) + 1)
  ELSE UNCHANGED <<rev, seen>>

(* Mutant: what was applied before stays applied.                          *)
PromotedOnly(l, n) == [rev[l] EXCEPT ![n].state = "applied"]

(* The applied revision is archived and n takes its place.                 *)
Promoted(l, n) ==
  [i \in DOMAIN rev[l] |->
     CASE i = n -> [rev[l][i] EXCEPT !.state = "applied"]
       [] i # n /\ rev[l][i].state = "applied" -> [rev[l][i] EXCEPT !.state = "archived"]
       [] OTHER -> rev[l][i]]

Applicable(l, n) == rev[l][n].state = "draft"

(* ApplyContent and ApplyQuest of the repository: one transaction moves the *)
(* states, the active pointer and the pack's delivery check, or, when the   *)
(* revision is no draft any more, nothing.                                  *)
ApplyContentRow(l, n) ==
  IF Applicable(l, n)
  THEN /\ rev' = [rev EXCEPT ![l] = Promoted(l, n)]
       /\ active' = [active EXCEPT ![l] = n]
       /\ check' = [check EXCEPT !["content"] = <<l, n>>]
  ELSE UNCHANGED <<rev, active, check>>

ApplyQuestRow(n) ==
  IF Applicable(Book, n)
  THEN /\ rev' = [rev EXCEPT ![Book] = Promoted(Book, n)]
       /\ active' = [active EXCEPT ![Book] = n]
       /\ check' = [check EXCEPT !["quest"] = <<Book, n>>]
  ELSE UNCHANGED <<rev, active, check>>

Verdict(issues) ==
  IF Blocking(issues) THEN "failed" ELSE IF issues # {} THEN "warning" ELSE "passed"

Record(l, n, issues) == runs' = runs \cup {[ledger |-> l, number |-> n, status |-> Verdict(issues)]}

-----------------------------------------------------------------------------
(* Requests. *)

At(c, step) == calls[c].step = step
Goto(c, call) == calls' = [calls EXCEPT ![c] = call]
Done(c) == Goto(c, Idle)

(* GetContent and GetQuest show a client the latest revision.              *)
GetContent(c, d) ==
  /\ At(c, "idle")
  /\ LatestContent(d) # 0
  /\ Shown(c, d, LatestContent(d))
  /\ UNCHANGED <<rev, active, check, runs, calls, owners>>

GetQuest(c) ==
  /\ At(c, "idle")
  /\ LatestQuest # 0
  /\ Shown(c, Book, LatestQuest)
  /\ UNCHANGED <<rev, active, check, runs, calls, owners>>

(* A second document of the same kind and slug is refused.                 *)
CreateContent(c, d, p) ==
  /\ At(c, "idle")
  /\ rev[d] = <<>>
  /\ Canonical(KindOf[d], p)
  /\ RoomLeft
  /\ CreateContentRow(c, d, p)
  /\ UNCHANGED <<active, check, runs, calls, owners>>

SaveContentDraft(c, d, p) ==
  /\ At(c, "idle")
  /\ rev[d] # <<>>
  /\ Canonical(KindOf[d], p)
  /\ seen[c][d] >= 1
  /\ RoomLeft
  /\ SaveContentRow(c, d, p, seen[c][d])
  /\ UNCHANGED <<active, check, runs, calls, owners>>

(* Mutant: the revision named is recorded, the latest one is judged.       *)
ValidateContentLatest(c, d, n) ==
  /\ At(c, "idle")
  /\ n \in DOMAIN rev[d]
  /\ Cardinality(runs) < MaxRuns
  /\ Record(d, n, ContentIssues(KindOf[d], rev[d][Last(d)].payload))
  /\ UNCHANGED <<rev, active, check, calls, seen, owners>>

(* Any revision can be validated, the latest or one named by its id.       *)
ValidateContent(c, d, n) ==
  /\ At(c, "idle")
  /\ n \in ContentHistory(d)
  /\ Cardinality(runs) < MaxRuns
  /\ Record(d, n, ContentIssues(KindOf[d], rev[d][n].payload))
  /\ UNCHANGED <<rev, active, check, calls, seen, owners>>

(* Mutant: issues do not keep a revision from being applied.               *)
ApplyContentUnchecked(c, d) ==
  /\ At(c, "idle")
  /\ rev[d] # <<>>
  /\ Goto(c, Call("applyContent", d, Last(d), NoId))
  /\ UNCHANGED <<rev, active, check, runs, seen, owners>>

(* The service checks that the revision is the latest and has no blocking  *)
(* issue; the transaction that applies it comes later.                     *)
ApplyContent(c, d) ==
  /\ At(c, "idle")
  /\ rev[d] # <<>>
  /\ ~Blocking(ContentIssues(KindOf[d], rev[d][Last(d)].payload))
  /\ Goto(c, Call("applyContent", d, LatestContent(d), NoId))
  /\ UNCHANGED <<rev, active, check, runs, seen, owners>>

CommitApplyContent(c) ==
  /\ At(c, "applyContent")
  /\ ApplyContentRow(calls[c].ledger, calls[c].number)
  /\ Done(c)
  /\ UNCHANGED <<runs, seen, owners>>

RollbackContent(c, d, n) ==
  /\ At(c, "idle")
  /\ n \in ContentHistory(d)
  /\ RoomLeft
  /\ RollbackContentRow(c, d, n)
  /\ UNCHANGED <<active, check, runs, calls, owners>>

-----------------------------------------------------------------------------
(* The quest book. *)

(* PackIDForModReference asks for any pack that selects the mod and takes   *)
(* the first row: with several, which one is not determined.                *)
Owner ==
  {f \in [Refs -> Packs \cup {NoId}] :
     \A m \in Refs : IF owners[m] = {} THEN f[m] = NoId ELSE f[m] \in owners[m]}

Savable(d, owner) == QuestIssues(d, Pack, owner) \cap Unsavable = {}

SaveQuestDraft(c, d) ==
  /\ At(c, "idle")
  /\ \E owner \in Owner : Savable(d, owner)
  /\ Goto(c, Call("saveQuest", Book, seen[c][Book], d))
  /\ UNCHANGED <<rev, active, check, runs, seen, owners>>

CommitQuestDraft(c) ==
  /\ At(c, "saveQuest")
  /\ RoomLeft
  /\ SaveQuestRow(c, calls[c].payload, calls[c].number)
  /\ Done(c)
  /\ UNCHANGED <<active, check, runs, owners>>

(* RollbackQuest reads the old graph and the number of the current one,    *)
(* and saves like any other draft.                                         *)
RollbackQuest(c, n) ==
  /\ At(c, "idle")
  /\ n \in QuestHistory
  /\ Goto(c, Call("rollbackQuest", Book, LatestQuest, StoredQuest(n)))
  /\ UNCHANGED <<rev, active, check, runs, seen, owners>>

CheckRollback(c) ==
  /\ At(c, "rollbackQuest")
  /\ \E owner \in Owner :
       Goto(c, IF Savable(calls[c].payload, owner)
               THEN [calls[c] EXCEPT !.step = "saveQuest"] ELSE Idle)
  /\ UNCHANGED <<rev, active, check, runs, seen, owners>>

(* ApplyQuest reads the latest graph ...                                   *)
ReadQuest(c) ==
  /\ At(c, "idle")
  /\ LatestQuest # 0
  /\ Goto(c, Call("checkQuest", Book, LatestQuest, NoId))
  /\ UNCHANGED <<rev, active, check, runs, seen, owners>>

(* ... checks it against the mods of the moment, and goes on to apply it.  *)
(* (ValidateQuest does the same and only writes the result to the activity *)
(* log: quests have no table of validation results.)                       *)
ApplyQuest(c) ==
  /\ At(c, "checkQuest")
  /\ \E owner \in Owner :
       Goto(c, IF Blocking(QuestIssues(StoredQuest(calls[c].number), Pack, owner))
               THEN Idle ELSE [calls[c] EXCEPT !.step = "applyQuest"])
  /\ UNCHANGED <<rev, active, check, runs, seen, owners>>

CommitApplyQuest(c) ==
  /\ At(c, "applyQuest")
  /\ ApplyQuestRow(calls[c].number)
  /\ Done(c)
  /\ UNCHANGED <<runs, seen, owners>>

(* The request is cancelled, or the database fails: the transaction that    *)
(* was to come never commits.                                               *)
Abandon(c) ==
  /\ ~At(c, "idle")
  /\ Done(c)
  /\ UNCHANGED <<rev, active, check, runs, seen, owners>>

(* Mods are selected and removed in this pack and in others.               *)
SelectOrRemove(m, p) ==
  /\ owners' = [owners EXCEPT ![m] = IF p \in @ THEN @ \ {p} ELSE @ \cup {p}]
  /\ UNCHANGED <<rev, active, check, runs, calls, seen>>

ContentRequest(c, d) ==
  \/ GetContent(c, d)
  \/ \E p \in Payloads : CreateContent(c, d, p) \/ SaveContentDraft(c, d, p)
  \/ \E n \in Numbers : ValidateContent(c, d, n) \/ RollbackContent(c, d, n)
  \/ ApplyContent(c, d)

QuestRequest(c) ==
  \/ GetQuest(c)
  \/ \E d \in Drafts : SaveQuestDraft(c, d)
  \/ \E n \in Numbers : RollbackQuest(c, n)
  \/ ReadQuest(c)

Continue(c) ==
  \/ CommitApplyContent(c)
  \/ CommitQuestDraft(c)
  \/ CheckRollback(c)
  \/ ApplyQuest(c)
  \/ CommitApplyQuest(c)
  \/ Abandon(c)

Next ==
  \/ \E c \in Clients, d \in Docs : ContentRequest(c, d)
  \/ \E c \in Clients : QuestRequest(c) \/ Continue(c)
  \/ \E m \in Refs, p \in Packs : SelectOrRemove(m, p)

Spec == Init /\ [][Next]_vars

-----------------------------------------------------------------------------
(* Properties. *)

CallSteps == {"idle", "applyContent", "saveQuest", "rollbackQuest", "checkQuest", "applyQuest"}

(* The shape of every variable: documents hold known fields, and pointers  *)
(* and requests name revisions of their own ledger.                        *)
TypeOK ==
  /\ \A l \in Ledgers :
       /\ rev[l] \in Seq([state : {"draft", "applied", "archived"}, source : Nat, basis : Nat,
                          payload : IF l = Book THEN Drafts ELSE Payloads])
       /\ active[l] \in 0..Last(l)
       /\ \A c \in Clients : seen[c][l] \in 0..Last(l)
  /\ \A d \in Docs : \A n \in DOMAIN rev[d] :
       rev[d][n].payload.fields \subseteq ContentFields[KindOf[d]]
  /\ \A c \in Clients :
       /\ calls[c].step \in CallSteps
       /\ calls[c].ledger \in Ledgers
       /\ calls[c].number \in 0..Last(calls[c].ledger)
  /\ owners \in [Refs -> SUBSET Packs]

(* At every moment a document or book has no applied revision or exactly    *)
(* the one its active pointer names, and the pack's delivery check of a     *)
(* kind names an active revision of that kind (two applies of one document, *)
(* of two documents, or of an old and a new revision at the same time).     *)
ActiveIsApplied ==
  /\ \A l \in Ledgers :
       {n \in DOMAIN rev[l] : rev[l][n].state = "applied"} = {active[l]} \ {0}
  /\ \A k \in {"content", "quest"} :
       LET named == check[k] IN
       IF named = NoCheck THEN \A l \in Ledgers : Kind(l) = k => active[l] = 0
       ELSE Kind(named[1]) = k /\ named[2] = active[named[1]] /\ named[2] # 0

(* What is active has no blocking issue, whatever was saved, rolled back    *)
(* or applied since it was checked (the mods its references name aside,     *)
(* which may be removed at any time).                                       *)
ActiveIsSound ==
  \A l \in Ledgers : active[l] # 0 =>
    LET p == rev[l][active[l]].payload IN
    ~Blocking(IF l = Book THEN QuestIssues(p, Pack, [m \in Refs |-> Pack])
              ELSE ContentIssues(KindOf[l], p))

(* A document revision with a failed validation on record is not the        *)
(* active one, whichever came first (ValidateContent against ApplyContent). *)
NoFailedActive ==
  \A r \in runs : r.status = "failed" => active[r.ledger] # r.number

(* A revision as its author sees it, and the numbers that left the state   *)
(* of a draft behind.                                                      *)
AsWritten(row) == [content |-> row.payload, source |-> row.source, basis |-> row.basis]
Used(l) == {n \in DOMAIN rev[l] : rev[l][n].state # "draft"}

History ==
  INSTANCE RevisionHistory
  WITH Documents <- Docs,
       Contents <- [l \in Ledgers |-> IF l = Book THEN Drafts ELSE Payloads],
       history <- [l \in Ledgers |-> [n \in DOMAIN rev[l] |-> AsWritten(rev[l][n])]],
       used <- [l \in Ledgers |-> Used(l)]

(* Concurrent saves, applies and rollbacks amount to the history of        *)
(* RevisionHistory: no revision is lost or rewritten; each is saved by an  *)
(* author who was shown its predecessor, or by a quest rollback on top of  *)
(* the one it read (RollbackContent alone copies unseen); and what was     *)
(* active once and replaced never comes back but as a new revision.        *)
ImplementsHistory == History!Spec

=============================================================================
