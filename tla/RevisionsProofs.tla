--------------------------- MODULE RevisionsProofs ---------------------------
(***************************************************************************)
(* What is active is applied, checked and sound, for every set of          *)
(* documents, payloads, drafts and clients and revisions without end.      *)
(*                                                                         *)
(* The inductive invariant adds to the properties what a request knows     *)
(* between its check and its commit: the revision it checked exists, and   *)
(* its payload, which no later step changes, has no blocking issue.  From  *)
(* it follows that the requests implement RevisionHistory.                 *)
(*                                                                         *)
(* The last part is about the queue of validateQuest: what it leaves       *)
(* behind is the largest set of quests in which none is open, which is     *)
(* empty exactly if the quests have an order.  Its inductions run over the *)
(* finite sets of quests, each as the choice of a smallest counterexample. *)
(***************************************************************************)
EXTENDS Revisions, QuestChecks, TLAPS, FiniteSetTheorems, WellFoundedInduction

USE RevisionAssumptions

PayloadsOf(l) ==
  IF l = Book THEN Drafts ELSE {p \in Payloads : p.fields \subseteq ContentFields[KindOf[l]]}
RevType(l) ==
  [state : {"draft", "applied", "archived"}, source : Nat, basis : Nat, payload : PayloadsOf(l)]
CallType == [step : CallSteps, ledger : Ledgers, number : Nat, payload : Drafts \cup {NoId}]

Issues(l, p) ==
  IF l = Book THEN QuestIssues(p, Pack, [m \in Refs |-> Pack]) ELSE ContentIssues(KindOf[l], p)

RevTyped ==
  /\ rev = [l \in Ledgers |-> rev[l]]
  /\ \A l \in Ledgers : rev[l] \in Seq(RevType(l))

PointersTyped ==
  /\ active \in [Ledgers -> Nat]
  /\ \A l \in Ledgers : active[l] <= Last(l)
  /\ check \in [{"content", "quest"} -> Ledgers \X Nat]
  /\ seen \in [Clients -> [Ledgers -> Nat]]
  /\ \A c \in Clients, l \in Ledgers : seen[c][l] <= Last(l)
  /\ owners \in [Refs -> SUBSET Packs]

(* What a request carries from what it read to what it writes.             *)
Known(call, revs) ==
  /\ call \in CallType
  /\ call.number <= Len(revs[call.ledger])
  /\ call.step \in {"saveQuest", "rollbackQuest"} => call.payload \in Drafts
  /\ call.step = "checkQuest" => call.ledger = Book /\ call.number # 0
  /\ call.step \in {"applyContent", "applyQuest"} =>
       /\ call.number # 0
       /\ call.ledger = Book <=> call.step = "applyQuest"
       /\ ~Blocking(Issues(call.ledger, revs[call.ledger][call.number].payload))

CallsKnown ==
  /\ calls = [c \in Clients |-> calls[c]]
  /\ \A c \in Clients : Known(calls[c], rev)

(* A validation on record judged the revision it names.                    *)
Judged ==
  \A r \in runs :
    /\ r.ledger \in Docs /\ r.number \in 1..Last(r.ledger)
    /\ r.status = Verdict(ContentIssues(KindOf[r.ledger], rev[r.ledger][r.number].payload))

(* No author builds on less than everything before: a draft is saved only   *)
(* by a client that was shown its predecessor, and a quest rollback only    *)
(* on top of the revision it read.  RollbackContent is the exception.       *)
NoDraftBuried ==
  \A l \in Ledgers : \A n \in DOMAIN rev[l] :
    rev[l][n].basis = n - 1 \/ (l \in Docs /\ rev[l][n].source # 0)

IInv ==
  /\ RevTyped /\ PointersTyped /\ CallsKnown /\ Judged
  /\ ActiveIsApplied /\ ActiveIsSound /\ NoDraftBuried

(* No revision is lost and none changes but for its state.                 *)
Kept ==
  \A l \in Ledgers :
    /\ Len(rev'[l]) >= Len(rev[l])
    /\ \A n \in 1..Len(rev[l]) : rev'[l][n].payload = rev[l][n].payload

-----------------------------------------------------------------------------
(* Rows. *)

LEMMA SequenceFacts ==
  ASSUME RevTyped, NEW l \in Ledgers
  PROVE  Len(rev[l]) \in Nat /\ DOMAIN rev[l] = 1..Len(rev[l]) /\ \A n \in DOMAIN rev[l] : rev[l][n] \in RevType(l)
  BY DEF RevTyped

LEMMA DraftTyped ==
  ASSUME NEW l \in Ledgers, NEW p \in PayloadsOf(l), NEW source \in Nat, NEW basis \in Nat
  PROVE  /\ Draft(p, source, basis) \in RevType(l)
         /\ Draft(p, source, basis).state = "draft" /\ Draft(p, source, basis).payload = p
         /\ Draft(p, source, basis).source = source /\ Draft(p, source, basis).basis = basis
  BY DEF Draft, RevType

(* A draft that is appended leaves what is active as it is.                *)
LEMMA AppendKeeps ==
  ASSUME RevTyped, PointersTyped, ActiveIsApplied, ActiveIsSound, NoDraftBuried,
         NEW l \in Ledgers, NEW row \in RevType(l), row.state = "draft",
         row.basis = Last(l) \/ (l \in Docs /\ row.source # 0),
         AppendRow(l, row), UNCHANGED <<active, check>>
  PROVE  RevTyped' /\ Kept /\ ActiveIsApplied' /\ ActiveIsSound' /\ NoDraftBuried' /\ Last(l)' = Last(l) + 1
<1>0. /\ rev' = [rev EXCEPT ![l] = Append(rev[l], row)]
      /\ rev' = [k \in Ledgers |-> rev'[k]] /\ rev'[l] = Append(rev[l], row)
      /\ \A k \in Ledgers \ {l} : rev'[k] = rev[k]
  BY DEF AppendRow, RevTyped
<1>1. /\ Len(rev[l]) \in Nat /\ DOMAIN rev[l] = 1..Len(rev[l])
      /\ Len(rev'[l]) = Len(rev[l]) + 1 /\ DOMAIN rev'[l] = 1..(Len(rev[l]) + 1)
      /\ rev'[l][Len(rev[l]) + 1] = row
      /\ \A n \in 1..Len(rev[l]) : rev'[l][n] = rev[l][n]
      /\ rev'[l] \in Seq(RevType(l))
  <2>1. rev[l] \in Seq(RevType(l))
    BY DEF RevTyped
  <2> QED BY <1>0, <2>1
<1>2. RevTyped'
  BY <1>0, <1>1 DEF RevTyped
<1>3. Kept
  BY <1>0, <1>1, SequenceFacts DEF Kept
<1>4. ActiveIsApplied'
  <2>1. ASSUME NEW k \in Ledgers
        PROVE  {n \in DOMAIN rev'[k] : rev'[k][n].state = "applied"}
                 = {n \in DOMAIN rev[k] : rev[k][n].state = "applied"}
    BY <1>0, <1>1
  <2> QED BY <2>1 DEF ActiveIsApplied
<1>5. ActiveIsSound'
  <2>1. \A k \in Ledgers : active[k] # 0 => rev'[k][active[k]] = rev[k][active[k]]
    BY <1>0, <1>1 DEF PointersTyped, Last
  <2> QED BY <2>1 DEF ActiveIsSound
<1>6. NoDraftBuried'
  <2>1. ASSUME NEW k \in Ledgers, NEW n \in DOMAIN rev'[k]
        PROVE  rev'[k][n].basis = n - 1 \/ (k \in Docs /\ rev'[k][n].source # 0)
    <3>1. CASE k # l \/ n <= Len(rev[l])
      BY <1>0, <1>1, <3>1 DEF NoDraftBuried
    <3>2. CASE k = l /\ n = Len(rev[l]) + 1
      BY <1>0, <1>1, <3>2 DEF Last
    <3> QED BY <1>1, <2>1, <3>1, <3>2
  <2> QED BY <2>1 DEF NoDraftBuried
<1> QED BY <1>1, <1>2, <1>3, <1>4, <1>5, <1>6 DEF Last

(* The revision that is applied takes the place of the one that was.       *)
LEMMA PromotedTakesOver ==
  ASSUME RevTyped, PointersTyped, ActiveIsApplied, ActiveIsSound, NoDraftBuried,
         NEW l \in Ledgers, NEW n \in 1..Last(l), ~Blocking(Issues(l, rev[l][n].payload)),
         rev' = [rev EXCEPT ![l] = Promoted(l, n)], active' = [active EXCEPT ![l] = n],
         check' = [check EXCEPT ![Kind(l)] = <<l, n>>], UNCHANGED <<seen, owners>>
  PROVE  /\ RevTyped' /\ Kept /\ PointersTyped'
         /\ ActiveIsApplied' /\ ActiveIsSound' /\ NoDraftBuried'
<1>0. /\ rev' = [k \in Ledgers |-> rev'[k]] /\ rev'[l] = Promoted(l, n)
      /\ \A k \in Ledgers \ {l} : rev'[k] = rev[k]
  BY DEF RevTyped
<1>1. /\ Len(rev[l]) \in Nat /\ DOMAIN rev[l] = 1..Len(rev[l]) /\ n \in DOMAIN rev[l]
      /\ \A i \in DOMAIN rev[l] : rev[l][i] \in RevType(l)
  BY SequenceFacts DEF Last
<1>2. ASSUME NEW i \in DOMAIN rev[l]
      PROVE  /\ rev'[l][i] \in RevType(l)
             /\ rev'[l][i].payload = rev[l][i].payload /\ rev'[l][i].source = rev[l][i].source
             /\ rev'[l][i].basis = rev[l][i].basis
             /\ rev'[l][i].state = "applied" <=> i = n
  <2>1. /\ rev[l][i] \in RevType(l)
        /\ rev'[l][i] = CASE i = n -> [rev[l][i] EXCEPT !.state = "applied"]
                          [] i # n /\ rev[l][i].state = "applied" -> [rev[l][i] EXCEPT !.state = "archived"]
                          [] OTHER -> rev[l][i]
    BY <1>0, <1>1 DEF Promoted
  <2>2. CASE i = n
    BY <2>1, <2>2 DEF RevType
  <2>3. CASE i # n /\ rev[l][i].state = "applied"
    BY <2>1, <2>3 DEF RevType
  <2>4. CASE i # n /\ rev[l][i].state # "applied"
    BY <2>1, <2>4 DEF RevType
  <2> QED BY <2>2, <2>3, <2>4
<1>3. rev'[l] \in Seq(RevType(l)) /\ Len(rev'[l]) = Len(rev[l]) /\ DOMAIN rev'[l] = DOMAIN rev[l]
  <2>1. rev'[l] = [i \in 1..Len(rev[l]) |-> rev'[l][i]]
    BY <1>0, <1>1 DEF Promoted
  <2>2. rev'[l] \in [1..Len(rev[l]) -> RevType(l)]
    BY <1>1, <1>2, <2>1
  <2>3. ASSUME NEW S, NEW N \in Nat, NEW f \in [1..N -> S]
        PROVE  f \in Seq(S) /\ Len(f) = N /\ DOMAIN f = 1..N
    OBVIOUS
  <2> QED BY <1>1, <2>2, <2>3
<1>4. RevTyped'
  BY <1>0, <1>3 DEF RevTyped
<1>5. Kept
  BY <1>0, <1>1, <1>2, <1>3, SequenceFacts DEF Kept
<1>6. PointersTyped'
  <2>1. Kind(l) \in {"content", "quest"} /\ n \in Nat
    BY <1>1 DEF Kind
  <2>2. active' \in [Ledgers -> Nat] /\ check' \in [{"content", "quest"} -> Ledgers \X Nat]
    BY <2>1 DEF PointersTyped
  <2>3. \A k \in Ledgers : Last(k)' = Last(k)
    BY <1>0, <1>3 DEF Last
  <2>4. \A k \in Ledgers : active'[k] <= Last(k)
    BY <1>1 DEF PointersTyped, Last
  <2> QED BY <2>2, <2>3, <2>4 DEF PointersTyped
<1>7. ActiveIsApplied'
  <2>1. ASSUME NEW k \in Ledgers
        PROVE  {i \in DOMAIN rev'[k] : rev'[k][i].state = "applied"} = {active'[k]} \ {0}
    <3>1. CASE k = l
      <4>1. active'[l] = n /\ n # 0
        BY <1>1 DEF PointersTyped
      <4> QED BY <1>1, <1>2, <1>3, <3>1, <4>1
    <3>2. CASE k # l
      BY <1>0, <3>2 DEF ActiveIsApplied, PointersTyped
    <3> QED BY <3>1, <3>2
  <2>2. ASSUME NEW kind \in {"content", "quest"}
        PROVE  LET named == check'[kind] IN
               IF named = NoCheck THEN \A k \in Ledgers : Kind(k) = kind => active'[k] = 0
               ELSE Kind(named[1]) = kind /\ named[2] = active'[named[1]] /\ named[2] # 0
    <3>1. active'[l] = n /\ n # 0 /\ \A k \in Ledgers \ {l} : active'[k] = active[k]
      BY <1>1 DEF PointersTyped
    <3>2. CASE kind = Kind(l)
      <4>1. check'[kind] = <<l, n>> /\ <<l, n>> # NoCheck
        BY <3>1, <3>2 DEF PointersTyped, NoCheck
      <4> QED BY <3>1, <3>2, <4>1
    <3>3. CASE kind # Kind(l)
      <4>1. check'[kind] = check[kind] /\ check[kind] \in Ledgers \X Nat
        BY <3>3 DEF PointersTyped
      <4>2. IF check[kind] = NoCheck THEN \A k \in Ledgers : Kind(k) = kind => active[k] = 0
            ELSE Kind(check[kind][1]) = kind /\ check[kind][2] = active[check[kind][1]] /\ check[kind][2] # 0
        BY DEF ActiveIsApplied
      <4> QED BY <3>1, <3>3, <4>1, <4>2
    <3> QED BY <3>2, <3>3
  <2> QED BY <2>1, <2>2 DEF ActiveIsApplied
<1>8. ActiveIsSound'
  <2>1. ASSUME NEW k \in Ledgers, active'[k] # 0 PROVE ~Blocking(Issues(k, rev'[k][active'[k]].payload))
    <3>1. CASE k = l
      <4>1. active'[l] = n
        BY DEF PointersTyped
      <4> QED BY <1>1, <1>2, <3>1, <4>1
    <3>2. CASE k # l
      BY <1>0, <2>1, <3>2 DEF ActiveIsSound, Issues, PointersTyped
    <3> QED BY <3>1, <3>2
  <2> QED BY <2>1 DEF ActiveIsSound, Issues
<1>9. NoDraftBuried'
  <2>1. ASSUME NEW k \in Ledgers, NEW i \in DOMAIN rev'[k]
        PROVE  rev'[k][i].basis = i - 1 \/ (k \in Docs /\ rev'[k][i].source # 0)
    BY <1>0, <1>2, <1>3 DEF NoDraftBuried
  <2> QED BY <2>1 DEF NoDraftBuried
<1> QED BY <1>4, <1>5, <1>6, <1>7, <1>8, <1>9

-----------------------------------------------------------------------------
(* Requests and validations. *)

(* More issues never block less.                                           *)
LEMMA BlockingGrows ==
  ASSUME NEW fewer, NEW more, fewer \subseteq more, ~Blocking(more)
  PROVE  ~Blocking(fewer)
  BY DEF Blocking

(* A draft that may be applied under the owners of the moment has no       *)
(* blocking issue but by what owners later do to its references.           *)
LEMMA OwnersAside ==
  ASSUME NEW d \in Drafts, NEW owner, ~Blocking(QuestIssues(d, Pack, owner))
  PROVE  ~Blocking(Issues(Book, d))
<1> DEFINE own == [m \in Refs |-> Pack]
<1>1. \A i \in DOMAIN d.nodes : \A m \in d.nodes[i].modRefs : own[m] = Pack /\ own[m] # NoId
  BY DEF Packs
<1>2. NodeIssues(d, Pack, own) \subseteq NodeIssues(d, Pack, owner)
  <2>1. When(Some(d.nodes, LAMBDA n : \E m \in n.modRefs : own[m] \notin {NoId, Pack}),
             "cross_pack_reference") = {}
    BY <1>1 DEF When, Some
  <2>2. When(Some(d.nodes, LAMBDA n : \E m \in n.modRefs : own[m] = NoId), "missing_mod_reference") = {}
    BY <1>1 DEF When, Some
  <2> HIDE DEF own
  <2> QED BY <2>1, <2>2 DEF NodeIssues
<1>3. QuestIssues(d, Pack, own) \subseteq QuestIssues(d, Pack, owner)
  BY <1>2 DEF QuestIssues
<1> QED BY <1>3, BlockingGrows DEF Issues

(* What a request or a validation knows stays true as revisions come.      *)
LEMMA KnownKept ==
  ASSUME RevTyped, RevTyped', Kept, NEW call, Known(call, rev)
  PROVE  Known(call, rev')
<1>1. /\ call.ledger \in Ledgers /\ call.number \in Nat /\ call.number <= Len(rev[call.ledger])
  BY DEF Known, CallType
<1>2. Len(rev[call.ledger]) \in Nat /\ Len(rev'[call.ledger]) \in Nat
  BY <1>1, SequenceFacts DEF RevTyped
<1>3. call.number <= Len(rev'[call.ledger])
  BY <1>1, <1>2 DEF Kept
<1>4. call.number # 0 =>
        rev'[call.ledger][call.number].payload = rev[call.ledger][call.number].payload
  BY <1>1, <1>2 DEF Kept
<1> QED BY <1>3, <1>4 DEF Known

LEMMA CallsKept ==
  ASSUME CallsKnown, RevTyped, RevTyped', Kept, NEW c \in Clients, NEW call, Known(call, rev'), Goto(c, call)
  PROVE  CallsKnown'
<1>1. \A b \in Clients : calls'[b] = IF b = c THEN call ELSE calls[b]
  BY DEF Goto, CallsKnown
<1>2. calls' = [b \in Clients |-> calls'[b]]
  BY DEF Goto, CallsKnown
<1>3. ASSUME NEW b \in Clients PROVE Known(calls'[b], rev')
  <2>1. CASE b = c
    BY <1>1, <2>1
  <2>2. CASE b # c
    BY <1>1, <2>2, KnownKept DEF CallsKnown
  <2> QED BY <2>1, <2>2
<1> QED BY <1>2, <1>3 DEF CallsKnown

LEMMA IdleKnown == ASSUME RevTyped PROVE Known(Idle, rev)
<1>1. Book \in Ledgers /\ Len(rev[Book]) \in Nat
  BY SequenceFacts DEF Ledgers
<1> QED BY <1>1 DEF Known, Idle, Call, CallType, CallSteps

LEMMA JudgedKept ==
  ASSUME RevTyped, RevTyped', Kept, Judged, UNCHANGED runs
  PROVE  Judged'
<1>1. ASSUME NEW r \in runs
      PROVE  /\ r.number \in 1..Last(r.ledger)'
             /\ rev'[r.ledger][r.number].payload = rev[r.ledger][r.number].payload
  <2>1. r.ledger \in Ledgers /\ r.number \in 1..Last(r.ledger)
    BY DEF Judged, Ledgers
  <2>2. Len(rev[r.ledger]) \in Nat /\ Len(rev'[r.ledger]) \in Nat
    BY <2>1, SequenceFacts DEF RevTyped
  <2> QED BY <2>1, <2>2 DEF Kept, Last
<1> QED BY <1>1 DEF Judged

(* Whether or not the request went on, calls know what they knew.          *)
LEMMA CallsStay ==
  ASSUME CallsKnown, RevTyped, RevTyped', Kept, UNCHANGED calls
  PROVE  CallsKnown'
  BY KnownKept DEF CallsKnown

(* A client that is shown the latest revision knows no later one.          *)
LEMMA ShownTyped ==
  ASSUME IInv, RevTyped', Kept, NEW c \in Clients, NEW l \in Ledgers, NEW n \in Nat, n <= Last(l)',
         Shown(c, l, n) \/ UNCHANGED seen, UNCHANGED <<active, check, owners>>
  PROVE  PointersTyped'
<1>1. \A k \in Ledgers : Last(k) \in Nat /\ Last(k)' \in Nat /\ Last(k) <= Last(k)'
  BY SequenceFacts DEF IInv, Kept, Last, RevTyped
<1>2. seen' \in [Clients -> [Ledgers -> Nat]] /\ \A b \in Clients, k \in Ledgers : seen'[b][k] <= Last(k)'
  <2>1. CASE UNCHANGED seen
    BY <1>1, <2>1 DEF IInv, PointersTyped
  <2>2. CASE Shown(c, l, n)
    <3>1. seen' = [seen EXCEPT ![c] = [seen[c] EXCEPT ![l] = n]]
      BY <2>2 DEF Shown, IInv, PointersTyped
    <3>2. seen' \in [Clients -> [Ledgers -> Nat]]
      BY <3>1 DEF IInv, PointersTyped
    <3>3. ASSUME NEW b \in Clients, NEW k \in Ledgers
          PROVE  (seen'[b][k] = n /\ k = l) \/ seen'[b][k] = seen[b][k]
      BY <3>1 DEF IInv, PointersTyped
    <3>4. \A b \in Clients, k \in Ledgers : seen[b][k] \in Nat /\ seen[b][k] <= Last(k)
      BY DEF IInv, PointersTyped
    <3> QED BY <1>1, <3>2, <3>3, <3>4
  <2> QED BY <2>1, <2>2
<1>3. \A k \in Ledgers : active[k] \in Nat /\ active[k] <= Last(k)
  BY DEF IInv, PointersTyped
<1>4. \A k \in Ledgers : active'[k] <= Last(k)'
  BY <1>1, <1>3
<1> QED BY <1>2, <1>4 DEF IInv, PointersTyped

(* Requests that only read.                                                *)
LEMMA ReadKeeps ==
  ASSUME IInv, NEW c \in Clients, NEW call, Known(call, rev), Goto(c, call),
         UNCHANGED <<rev, active, check, runs, seen, owners>>
  PROVE  IInv'
<1>1. RevTyped' /\ Kept
  BY SequenceFacts DEF IInv, RevTyped, Kept
<1>2. CallsKnown' /\ Judged'
  BY <1>1, CallsKept, JudgedKept DEF IInv
<1>3. PointersTyped'
  BY DEF IInv, PointersTyped, Last
<1>4. ActiveIsApplied' /\ ActiveIsSound' /\ NoDraftBuried'
  BY DEF IInv, ActiveIsApplied, ActiveIsSound, NoDraftBuried
<1> QED BY <1>1, <1>2, <1>3, <1>4 DEF IInv

(* Requests that save a draft.                                             *)
LEMMA SaveKeeps ==
  ASSUME IInv, NEW c \in Clients, NEW l \in Ledgers, NEW p \in PayloadsOf(l), NEW source \in Nat, NEW basis \in Nat,
         basis = Last(l) \/ (l \in Docs /\ source # 0),
         AppendRow(l, Draft(p, source, basis)), Shown(c, l, Last(l) + 1),
         UNCHANGED calls \/ Goto(c, Idle), UNCHANGED <<active, check, runs, owners>>
  PROVE  IInv'
<1> DEFINE draft == Draft(p, source, basis)
<1>1. draft \in RevType(l) /\ draft.state = "draft" /\ draft.basis = basis /\ draft.source = source
  BY DraftTyped
<1>2. AppendRow(l, draft)
  OBVIOUS
<1> HIDE DEF draft
<1>3. RevTyped' /\ Kept /\ ActiveIsApplied' /\ ActiveIsSound' /\ NoDraftBuried' /\ Last(l)' = Last(l) + 1
  BY <1>1, <1>2, AppendKeeps DEF IInv
<1>4. Last(l) + 1 \in Nat
  BY SequenceFacts DEF IInv, Last
<1>5. PointersTyped'
  BY <1>3, <1>4, ShownTyped
<1>6. Known(Idle, rev')
  BY <1>3, IdleKnown, KnownKept DEF IInv
<1>7. CallsKnown' /\ Judged'
  BY <1>3, <1>6, CallsKept, CallsStay, JudgedKept DEF IInv
<1> QED BY <1>3, <1>5, <1>7 DEF IInv

(* Requests that apply what they checked.                                  *)
LEMMA ApplyKeeps ==
  ASSUME IInv, NEW c \in Clients, calls[c].step \in {"applyContent", "applyQuest"}, Goto(c, Idle),
         LET l == calls[c].ledger  n == calls[c].number IN
           \/ UNCHANGED <<rev, active, check>>
           \/ /\ rev' = [rev EXCEPT ![l] = Promoted(l, n)]
              /\ active' = [active EXCEPT ![l] = n]
              /\ check' = [check EXCEPT ![Kind(l)] = <<l, n>>],
         UNCHANGED <<runs, seen, owners>>
  PROVE  IInv'
<1> DEFINE l == calls[c].ledger
           n == calls[c].number
<1>1. CASE UNCHANGED <<rev, active, check>>
  BY <1>1, IdleKnown, ReadKeeps DEF IInv
<1>2. CASE /\ rev' = [rev EXCEPT ![l] = Promoted(l, n)]
           /\ active' = [active EXCEPT ![l] = n]
           /\ check' = [check EXCEPT ![Kind(l)] = <<l, n>>]
  <2>1. l \in Ledgers /\ n \in 1..Last(l) /\ ~Blocking(Issues(l, rev[l][n].payload))
    <3>1. Known(calls[c], rev)
      BY DEF IInv, CallsKnown
    <3>2. l \in Ledgers /\ n \in Nat /\ n # 0 /\ n <= Len(rev[l]) /\ ~Blocking(Issues(l, rev[l][n].payload))
      BY <3>1 DEF Known, CallType
    <3> QED BY <3>2, SequenceFacts DEF IInv, Last
  <2> HIDE DEF l, n
  <2>2. /\ RevTyped' /\ Kept /\ PointersTyped'
        /\ ActiveIsApplied' /\ ActiveIsSound' /\ NoDraftBuried'
    BY <1>2, <2>1, PromotedTakesOver DEF IInv
  <2>3. Known(Idle, rev')
    BY <2>2, IdleKnown, KnownKept DEF IInv
  <2>4. CallsKnown' /\ Judged'
    BY <2>2, <2>3, CallsKept, JudgedKept DEF IInv
  <2> QED BY <2>2, <2>4 DEF IInv
<1> QED BY <1>1, <1>2

-----------------------------------------------------------------------------
(* The requests of content documents.                                      *)
LEMMA ContentKeeps ==
  ASSUME IInv, NEW c \in Clients, NEW d \in Docs, ContentRequest(c, d)
  PROVE  IInv'
<1>0. /\ d \in Ledgers /\ d # Book
      /\ Last(d) \in Nat /\ DOMAIN rev[d] = 1..Last(d)
      /\ \A n \in DOMAIN rev[d] : rev[d][n] \in RevType(d)
      /\ rev[d] # <<>> => Last(d) # 0
      /\ rev[d] = <<>> => Last(d) = 0
  <2>1. d \in Ledgers /\ rev[d] \in Seq(RevType(d))
    BY DEF Ledgers, IInv, RevTyped
  <2> QED BY <2>1 DEF Last
<1>p. ASSUME NEW p \in Payloads, Canonical(KindOf[d], p) PROVE p \in PayloadsOf(d)
  BY <1>0, <1>p DEF Canonical, PayloadsOf
<1>1. CASE GetContent(c, d)
  <2>1. UNCHANGED <<rev, active, check, runs, calls, owners>> /\ Shown(c, d, Last(d))
    BY <1>1 DEF GetContent, LatestContent
  <2>2. RevTyped' /\ Kept /\ Last(d)' = Last(d)
    BY <2>1, SequenceFacts DEF IInv, RevTyped, Kept, Last
  <2>3. PointersTyped'
    BY <1>0, <2>1, <2>2, ShownTyped
  <2>4. CallsKnown' /\ Judged'
    BY <2>1, <2>2, CallsStay, JudgedKept DEF IInv
  <2>5. ActiveIsApplied' /\ ActiveIsSound' /\ NoDraftBuried'
    BY <2>1 DEF IInv, ActiveIsApplied, ActiveIsSound, NoDraftBuried
  <2> QED BY <2>2, <2>3, <2>4, <2>5 DEF IInv
<1>2. ASSUME NEW p \in Payloads, CreateContent(c, d, p) PROVE IInv'
  <2>1. /\ AppendRow(d, Draft(p, 0, 0)) /\ Shown(c, d, Last(d) + 1) /\ Last(d) = 0
        /\ UNCHANGED <<active, check, runs, calls, owners>> /\ p \in PayloadsOf(d)
    BY <1>0, <1>2, <1>p DEF CreateContent, CreateContentRow
  <2> QED BY <1>0, <2>1, SaveKeeps
<1>3. ASSUME NEW p \in Payloads, SaveContentDraft(c, d, p) PROVE IInv'
  <2>1. /\ AppendRow(d, Draft(p, 0, Last(d))) /\ Shown(c, d, Last(d) + 1)
        /\ UNCHANGED <<active, check, runs, calls, owners>> /\ p \in PayloadsOf(d)
    BY <1>3, <1>p DEF SaveContentDraft, SaveContentRow, Matches
  <2> QED BY <1>0, <2>1, SaveKeeps
<1>4. ASSUME NEW n \in Numbers, ValidateContent(c, d, n) PROVE IInv'
  <2>1. /\ UNCHANGED <<rev, active, check, calls, seen, owners>> /\ n \in 1..Last(d)
        /\ runs' = runs \cup {[ledger |-> d, number |-> n,
                               status |-> Verdict(ContentIssues(KindOf[d], rev[d][n].payload))]}
    BY <1>0, <1>4 DEF ValidateContent, ContentHistory, Record
  <2>2. Judged'
    BY <2>1 DEF IInv, Judged, Last
  <2>3. RevTyped' /\ PointersTyped' /\ CallsKnown'
    BY <2>1 DEF IInv, RevTyped, PointersTyped, CallsKnown, Last
  <2>4. ActiveIsApplied' /\ ActiveIsSound' /\ NoDraftBuried'
    BY <2>1 DEF IInv, ActiveIsApplied, ActiveIsSound, NoDraftBuried
  <2> QED BY <2>2, <2>3, <2>4 DEF IInv
<1>5. ASSUME NEW n \in Numbers, RollbackContent(c, d, n) PROVE IInv'
  <2>1. /\ AppendRow(d, Draft(rev[d][n].payload, n, 0)) /\ Shown(c, d, Last(d) + 1)
        /\ UNCHANGED <<active, check, runs, calls, owners>> /\ n \in DOMAIN rev[d]
    BY <1>5 DEF RollbackContent, RollbackContentRow, ContentHistory
  <2>2. rev[d][n].payload \in PayloadsOf(d) /\ n \in Nat /\ n # 0
    BY <1>0, <2>1 DEF RevType
  <2> QED BY <1>0, <2>1, <2>2, SaveKeeps
<1>6. CASE ApplyContent(c, d)
  <2> DEFINE call == Call("applyContent", d, Last(d), NoId)
  <2>1. /\ Goto(c, call) /\ UNCHANGED <<rev, active, check, runs, seen, owners>>
        /\ rev[d] # <<>> /\ ~Blocking(Issues(d, rev[d][Last(d)].payload))
    BY <1>0, <1>6 DEF ApplyContent, LatestContent, Issues
  <2>2. /\ call.step = "applyContent" /\ call.ledger = d /\ call.number = Last(d) /\ call \in CallType
    BY <1>0 DEF Call, CallType, CallSteps
  <2> HIDE DEF call
  <2>3. Known(call, rev)
    BY <1>0, <2>1, <2>2 DEF Known, Last
  <2> QED BY <2>1, <2>3, ReadKeeps
<1> QED BY <1>1, <1>2, <1>3, <1>4, <1>5, <1>6 DEF ContentRequest

(* The requests of the quest book.                                         *)
LEMMA QuestKeeps ==
  ASSUME IInv, NEW c \in Clients, QuestRequest(c)
  PROVE  IInv'
<1>0. /\ Book \in Ledgers
      /\ Last(Book) \in Nat /\ DOMAIN rev[Book] = 1..Last(Book)
      /\ \A n \in DOMAIN rev[Book] : rev[Book][n].payload \in Drafts
  <2>1. Book \in Ledgers /\ rev[Book] \in Seq(RevType(Book))
    BY DEF Ledgers, IInv, RevTyped
  <2>2. PayloadsOf(Book) = Drafts
    BY DEF PayloadsOf
  <2>3. \A r \in RevType(Book) : r.payload \in Drafts
    BY <2>2 DEF RevType
  <2>4. Last(Book) \in Nat /\ DOMAIN rev[Book] = 1..Last(Book)
    BY <2>1 DEF Last
  <2>5. \A n \in DOMAIN rev[Book] : rev[Book][n] \in RevType(Book)
    BY <2>1
  <2> QED BY <2>1, <2>3, <2>4, <2>5
<1>c. ASSUME NEW step \in {"saveQuest", "rollbackQuest", "checkQuest"}, NEW n \in Nat, n <= Last(Book),
             NEW p \in Drafts \cup {NoId}, step # "checkQuest" => p \in Drafts, step = "checkQuest" => n # 0,
             Goto(c, Call(step, Book, n, p)), UNCHANGED <<rev, active, check, runs, seen, owners>>
      PROVE  IInv'
  <2> DEFINE call == Call(step, Book, n, p)
  <2>1. call.step = step /\ call.ledger = Book /\ call.number = n /\ call.payload = p /\ call \in CallType
    BY <1>0 DEF Call, CallType, CallSteps
  <2>2. Goto(c, call)
    BY <1>c
  <2> HIDE DEF call
  <2>3. Known(call, rev)
    BY <1>c, <2>1 DEF Known, Last
  <2> QED BY <1>c, <2>2, <2>3, ReadKeeps
<1>1. CASE GetQuest(c)
  <2>1. UNCHANGED <<rev, active, check, runs, calls, owners>> /\ Shown(c, Book, Last(Book))
    BY <1>1 DEF GetQuest, LatestQuest
  <2>2. RevTyped' /\ Kept /\ Last(Book)' = Last(Book)
    BY <2>1, SequenceFacts DEF IInv, RevTyped, Kept, Last
  <2>3. PointersTyped'
    BY <1>0, <2>1, <2>2, ShownTyped
  <2>4. CallsKnown' /\ Judged'
    BY <2>1, <2>2, CallsStay, JudgedKept DEF IInv
  <2>5. ActiveIsApplied' /\ ActiveIsSound' /\ NoDraftBuried'
    BY <2>1 DEF IInv, ActiveIsApplied, ActiveIsSound, NoDraftBuried
  <2> QED BY <2>2, <2>3, <2>4, <2>5 DEF IInv
<1>2. ASSUME NEW d \in Drafts, SaveQuestDraft(c, d) PROVE IInv'
  <2>1. Goto(c, Call("saveQuest", Book, seen[c][Book], d)) /\ UNCHANGED <<rev, active, check, runs, seen, owners>>
    BY <1>2 DEF SaveQuestDraft
  <2>2. seen[c][Book] \in Nat /\ seen[c][Book] <= Last(Book)
    BY <1>0 DEF IInv, PointersTyped
  <2> QED BY <1>c, <2>1, <2>2
<1>3. ASSUME NEW n \in Numbers, RollbackQuest(c, n) PROVE IInv'
  <2>1. /\ Goto(c, Call("rollbackQuest", Book, Last(Book), rev[Book][n].payload))
        /\ n \in DOMAIN rev[Book] /\ UNCHANGED <<rev, active, check, runs, seen, owners>>
    BY <1>3 DEF RollbackQuest, QuestHistory, LatestQuest, StoredQuest
  <2> QED BY <1>0, <1>c, <2>1
<1>4. CASE ReadQuest(c)
  <2>1. /\ Goto(c, Call("checkQuest", Book, Last(Book), NoId)) /\ Last(Book) # 0
        /\ UNCHANGED <<rev, active, check, runs, seen, owners>>
    BY <1>4 DEF ReadQuest, LatestQuest
  <2> QED BY <1>0, <1>c, <2>1
<1> QED BY <1>1, <1>2, <1>3, <1>4 DEF QuestRequest

(* Requests go on.                                                         *)
LEMMA ContinueKeeps ==
  ASSUME IInv, NEW c \in Clients, Continue(c)
  PROVE  IInv'
<1>0. Known(calls[c], rev) /\ calls[c] \in CallType /\ Book \in Ledgers
  BY DEF IInv, CallsKnown, Known, Ledgers
<1>i. Known(Idle, rev)
  BY IdleKnown DEF IInv
<1>1. CASE CommitApplyContent(c)
  <2>1. /\ calls[c].step = "applyContent" /\ Goto(c, Idle) /\ UNCHANGED <<runs, seen, owners>>
        /\ ApplyContentRow(calls[c].ledger, calls[c].number)
    BY <1>1 DEF CommitApplyContent, At, Done
  <2>2. Kind(calls[c].ledger) = "content"
    BY <1>0, <2>1 DEF Known, Kind
  <2> QED BY <2>1, <2>2, ApplyKeeps DEF ApplyContentRow
<1>2. CASE CommitQuestDraft(c)
  <2> DEFINE p == calls[c].payload
             expected == calls[c].number
  <2>1. /\ calls[c].step = "saveQuest" /\ Goto(c, Idle) /\ UNCHANGED <<active, check, runs, owners>>
        /\ SaveQuestRow(c, p, expected)
    BY <1>2 DEF CommitQuestDraft, At, Done
  <2>2. p \in PayloadsOf(Book) /\ expected \in Nat
    BY <1>0, <2>1 DEF Known, CallType, PayloadsOf
  <2>3. CASE UNCHANGED <<rev, seen>>
    BY <1>i, <2>1, <2>3, ReadKeeps
  <2>4. CASE expected = Last(Book) /\ AppendRow(Book, Draft(p, 0, expected)) /\ Shown(c, Book, Last(Book) + 1)
    <3> HIDE DEF p, expected
    <3> QED BY <1>0, <2>1, <2>2, <2>4, SaveKeeps
  <2> QED BY <2>1, <2>3, <2>4 DEF SaveQuestRow, Matches
<1>3. CASE CheckRollback(c)
  <2> DEFINE next == [calls[c] EXCEPT !.step = "saveQuest"]
  <2>1. /\ UNCHANGED <<rev, active, check, runs, seen, owners>>
        /\ Goto(c, next) \/ Goto(c, Idle)
        /\ calls[c].step = "rollbackQuest"
    <3>1. PICK owner \in Owner : Goto(c, IF Savable(calls[c].payload, owner) THEN next ELSE Idle)
      BY <1>3 DEF CheckRollback
    <3>2. UNCHANGED <<rev, active, check, runs, seen, owners>> /\ calls[c].step = "rollbackQuest"
      BY <1>3 DEF CheckRollback, At
    <3> HIDE DEF next
    <3> QED BY <3>1, <3>2
  <2>2. Known(next, rev)
    <3>1. /\ next \in CallType /\ next.step = "saveQuest" /\ next.ledger = calls[c].ledger
          /\ next.number = calls[c].number /\ next.payload = calls[c].payload
      BY <1>0 DEF CallType, CallSteps
    <3> QED BY <1>0, <2>1, <3>1 DEF Known
  <2> HIDE DEF next
  <2> QED BY <1>i, <2>1, <2>2, ReadKeeps
<1>4. CASE ApplyQuest(c)
  <2> DEFINE next == [calls[c] EXCEPT !.step = "applyQuest"]
  <2>1. PICK owner \in Owner :
          Goto(c, IF Blocking(QuestIssues(StoredQuest(calls[c].number), Pack, owner)) THEN Idle ELSE next)
    BY <1>4 DEF ApplyQuest
  <2>2. UNCHANGED <<rev, active, check, runs, seen, owners>> /\ calls[c].step = "checkQuest"
    BY <1>4 DEF ApplyQuest, At
  <2>3. CASE ~Blocking(QuestIssues(StoredQuest(calls[c].number), Pack, owner))
    <3>1. /\ next \in CallType /\ next.step = "applyQuest" /\ next.ledger = calls[c].ledger
          /\ next.number = calls[c].number
      BY <1>0 DEF CallType, CallSteps
    <3>2. calls[c].ledger = Book /\ calls[c].number \in 1..Len(rev[Book])
      BY <1>0, <2>2, SequenceFacts DEF Known, CallType, IInv
    <3>3. StoredQuest(calls[c].number) \in Drafts
      BY <1>0, <3>2, SequenceFacts DEF StoredQuest, RevType, PayloadsOf, IInv
    <3>4. ~Blocking(Issues(Book, rev[Book][calls[c].number].payload))
      BY <2>3, <3>3, OwnersAside DEF StoredQuest
    <3> HIDE DEF next
    <3>5. Known(next, rev)
      BY <3>1, <3>2, <3>4, SequenceFacts DEF Known, IInv
    <3> QED BY <2>1, <2>2, <2>3, <3>5, ReadKeeps
  <2>4. CASE Blocking(QuestIssues(StoredQuest(calls[c].number), Pack, owner))
    BY <1>i, <2>1, <2>2, <2>4, ReadKeeps
  <2> QED BY <2>3, <2>4
<1>5. CASE CommitApplyQuest(c)
  <2>1. /\ calls[c].step = "applyQuest" /\ Goto(c, Idle) /\ UNCHANGED <<runs, seen, owners>>
        /\ ApplyQuestRow(calls[c].number)
    BY <1>5 DEF CommitApplyQuest, At, Done
  <2>2. calls[c].ledger = Book /\ Kind(Book) = "quest"
    BY <1>0, <2>1 DEF Known, Kind
  <2> QED BY <2>1, <2>2, ApplyKeeps DEF ApplyQuestRow
<1>6. CASE Abandon(c)
  BY <1>6, <1>i, ReadKeeps DEF Abandon, Done
<1> QED BY <1>1, <1>2, <1>3, <1>4, <1>5, <1>6 DEF Continue

-----------------------------------------------------------------------------
LEMMA InitEstablishes == Init => IInv
<1> SUFFICES ASSUME Init PROVE IInv
  OBVIOUS
<1>1. /\ rev = [l \in Ledgers |-> <<>>] /\ active = [l \in Ledgers |-> 0]
      /\ check = [k \in {"content", "quest"} |-> NoCheck] /\ runs = {} /\ calls = [c \in Clients |-> Idle]
      /\ seen = [c \in Clients |-> [l \in Ledgers |-> 0]] /\ owners \in [Refs -> SUBSET Packs]
  BY DEF Init
<1>2. RevTyped
  BY <1>1 DEF RevTyped
<1>3. PointersTyped
  <2>1. NoCheck \in Ledgers \X Nat
    BY DEF NoCheck, Ledgers
  <2> QED BY <1>1, <2>1 DEF PointersTyped, Last
<1>4. CallsKnown /\ Judged
  BY <1>1, <1>2, IdleKnown DEF CallsKnown, Judged
<1>5. ActiveIsApplied /\ ActiveIsSound /\ NoDraftBuried
  BY <1>1 DEF ActiveIsApplied, ActiveIsSound, NoDraftBuried
<1> QED BY <1>2, <1>3, <1>4, <1>5 DEF IInv

LEMMA NextKeeps == IInv /\ [Next]_vars => IInv'
<1> SUFFICES ASSUME IInv, [Next]_vars PROVE IInv'
  OBVIOUS
<1>1. ASSUME UNCHANGED <<rev, active, check, runs, calls, seen>>, owners' \in [Refs -> SUBSET Packs] PROVE IInv'
  <2>1. RevTyped' /\ PointersTyped' /\ CallsKnown' /\ Judged'
    BY <1>1 DEF IInv, RevTyped, PointersTyped, CallsKnown, Judged, Last
  <2>2. ActiveIsApplied' /\ ActiveIsSound' /\ NoDraftBuried'
    BY <1>1 DEF IInv, ActiveIsApplied, ActiveIsSound, NoDraftBuried
  <2> QED BY <2>1, <2>2 DEF IInv
<1>2. ASSUME NEW m \in Refs, NEW p \in Packs, SelectOrRemove(m, p) PROVE IInv'
  <2>1. owners' \in [Refs -> SUBSET Packs]
    BY <1>2 DEF SelectOrRemove, IInv, PointersTyped
  <2> QED BY <1>1, <1>2, <2>1 DEF SelectOrRemove
<1>3. CASE UNCHANGED vars
  BY <1>1, <1>3 DEF vars, IInv, PointersTyped
<1> QED BY <1>2, <1>3, ContentKeeps, QuestKeeps, ContinueKeeps DEF Next

(* The inductive invariant holds in every state.                           *)
THEOREM Invariance == Spec => []IInv
BY InitEstablishes, NextKeeps, PTL DEF Spec

(* Every variable keeps its type, and documents hold known fields only.    *)
THEOREM Typing == Spec => []TypeOK
<1>1. IInv => TypeOK
  <2> SUFFICES ASSUME IInv PROVE TypeOK
    OBVIOUS
  <2>1. ASSUME NEW l \in Ledgers
        PROVE  /\ rev[l] \in Seq([state : {"draft", "applied", "archived"}, source : Nat, basis : Nat,
                                  payload : IF l = Book THEN Drafts ELSE Payloads])
               /\ active[l] \in 0..Last(l) /\ \A c \in Clients : seen[c][l] \in 0..Last(l)
    <3>1. rev[l] \in Seq(RevType(l)) /\ Last(l) \in Nat
      BY SequenceFacts DEF IInv, RevTyped, Last
    <3>2. RevType(l) \subseteq [state : {"draft", "applied", "archived"}, source : Nat, basis : Nat,
                                payload : IF l = Book THEN Drafts ELSE Payloads]
      BY DEF RevType, PayloadsOf
    <3>3. ASSUME NEW S, NEW T, S \subseteq T, NEW s \in Seq(S) PROVE s \in Seq(T)
      <4>1. s \in [1..Len(s) -> T] /\ Len(s) \in Nat
        BY <3>3
      <4>2. ASSUME NEW N \in Nat, NEW f \in [1..N -> T] PROVE f \in Seq(T)
        OBVIOUS
      <4> QED BY <4>1, <4>2
    <3>4. rev[l] \in Seq([state : {"draft", "applied", "archived"}, source : Nat, basis : Nat,
                          payload : IF l = Book THEN Drafts ELSE Payloads])
      <4> DEFINE wider == [state : {"draft", "applied", "archived"}, source : Nat, basis : Nat,
                           payload : IF l = Book THEN Drafts ELSE Payloads]
      <4>1. RevType(l) \subseteq wider
        BY <3>2
      <4> HIDE DEF wider
      <4>2. rev[l] \in Seq(wider)
        BY <3>1, <3>3, <4>1
      <4> QED BY <4>2 DEF wider
    <3>5. active[l] \in 0..Last(l) /\ \A c \in Clients : seen[c][l] \in 0..Last(l)
      BY <3>1 DEF IInv, PointersTyped
    <3> QED BY <3>4, <3>5
  <2>2. \A d \in Docs : \A n \in DOMAIN rev[d] : rev[d][n].payload.fields \subseteq ContentFields[KindOf[d]]
    BY SequenceFacts DEF IInv, Ledgers, RevType, PayloadsOf
  <2>3. ASSUME NEW c \in Clients
        PROVE  /\ calls[c].step \in CallSteps /\ calls[c].ledger \in Ledgers
               /\ calls[c].number \in 0..Last(calls[c].ledger)
    <3>1. calls[c] \in CallType /\ calls[c].number <= Last(calls[c].ledger)
      BY DEF IInv, CallsKnown, Known, Last
    <3>2. calls[c].ledger \in Ledgers /\ Last(calls[c].ledger) \in Nat
      BY <3>1, SequenceFacts DEF CallType, IInv, Last
    <3> QED BY <3>1, <3>2 DEF CallType
  <2> QED BY <2>1, <2>2, <2>3 DEF TypeOK, IInv, PointersTyped
<1> QED BY <1>1, Invariance, PTL

(* A document or the book has no applied revision or exactly the one its   *)
(* active pointer names, and the delivery check names an active revision.  *)
THEOREM OneIsApplied == Spec => []ActiveIsApplied
<1>1. IInv => ActiveIsApplied
  BY DEF IInv
<1> QED BY <1>1, Invariance, PTL

(* What is active has no blocking issue, whatever was saved, rolled back   *)
(* or applied since it was checked.                                        *)
THEOREM ActiveSound == Spec => []ActiveIsSound
<1>1. IInv => ActiveIsSound
  BY DEF IInv
<1> QED BY <1>1, Invariance, PTL

(* A revision whose failed validation is on record is not the active one.  *)
THEOREM FailedIsInactive == Spec => []NoFailedActive
<1>1. IInv => NoFailedActive
  <2> SUFFICES ASSUME IInv, NEW r \in runs, r.status = "failed", active[r.ledger] = r.number PROVE FALSE
    BY DEF NoFailedActive
  <2>1. /\ r.ledger \in Docs /\ r.number \in 1..Last(r.ledger)
        /\ Verdict(ContentIssues(KindOf[r.ledger], rev[r.ledger][r.number].payload)) = "failed"
    BY DEF IInv, Judged
  <2>2. Blocking(ContentIssues(KindOf[r.ledger], rev[r.ledger][r.number].payload))
    BY <2>1 DEF Verdict
  <2>3. r.ledger \in Ledgers /\ r.ledger # Book /\ active[r.ledger] # 0
    BY <2>1 DEF Ledgers
  <2>4. ~Blocking(ContentIssues(KindOf[r.ledger], rev[r.ledger][active[r.ledger]].payload))
    BY <2>3 DEF IInv, ActiveIsSound
  <2> QED BY <2>2, <2>4
<1> QED BY <1>1, Invariance, PTL

(* A draft is saved only by an author who knew of its predecessor.         *)
THEOREM NothingBuried == Spec => []NoDraftBuried
<1>1. IInv => NoDraftBuried
  BY DEF IInv
<1> QED BY <1>1, Invariance, PTL

-----------------------------------------------------------------------------
(* Refinement of RevisionHistory. *)

(* What any step does to the revisions and to which of them is active.     *)
Saves(l, p) == p \in PayloadsOf(l) /\ AppendRow(l, Draft(p, 0, Last(l)))
Copies(l, n) == l \in Docs /\ AppendRow(l, Draft(rev[l][n].payload, n, 0))
Applies(l, n) ==
  /\ Applicable(l, n)
  /\ rev' = [rev EXCEPT ![l] = Promoted(l, n)]
  /\ active' = [active EXCEPT ![l] = n]

HistoryStep ==
  \/ UNCHANGED <<rev, active>>
  \/ \E l \in Ledgers : (\E p \in PayloadsOf(l) : Saves(l, p)) /\ UNCHANGED active
  \/ \E l \in Ledgers : (\E n \in DOMAIN rev[l] : Copies(l, n)) /\ UNCHANGED active
  \/ \E l \in Ledgers : \E n \in DOMAIN rev[l] : Applies(l, n)

LEMMA ContentSteps ==
  ASSUME IInv, NEW c \in Clients, NEW d \in Docs, ContentRequest(c, d)
  PROVE  HistoryStep
<1>0. d \in Ledgers /\ d # Book /\ (rev[d] = <<>> => Last(d) = 0)
  BY DEF Ledgers, Last
<1>1. ASSUME NEW p \in Payloads, Canonical(KindOf[d], p) PROVE p \in PayloadsOf(d)
  BY <1>0, <1>1 DEF Canonical, PayloadsOf
<1>2. ASSUME NEW p \in Payloads, CreateContent(c, d, p) PROVE HistoryStep
  <2>1. p \in PayloadsOf(d) /\ Saves(d, p) /\ UNCHANGED active
    BY <1>0, <1>1, <1>2 DEF CreateContent, CreateContentRow, Saves
  <2> QED BY <1>0, <2>1 DEF HistoryStep
<1>3. ASSUME NEW p \in Payloads, SaveContentDraft(c, d, p) PROVE HistoryStep
  <2>1. p \in PayloadsOf(d) /\ Saves(d, p) /\ UNCHANGED active
    BY <1>1, <1>3 DEF SaveContentDraft, SaveContentRow, Matches, Saves
  <2> QED BY <1>0, <2>1 DEF HistoryStep
<1>4. ASSUME NEW n \in Numbers, RollbackContent(c, d, n) PROVE HistoryStep
  <2>1. n \in DOMAIN rev[d] /\ Copies(d, n) /\ UNCHANGED active
    BY <1>4 DEF RollbackContent, RollbackContentRow, ContentHistory, Copies
  <2> QED BY <1>0, <2>1 DEF HistoryStep
<1>5. CASE UNCHANGED <<rev, active>>
  BY <1>5 DEF HistoryStep
<1> QED BY <1>2, <1>3, <1>4, <1>5 DEF ContentRequest, GetContent, ValidateContent, ApplyContent

LEMMA ContinueSteps ==
  ASSUME IInv, NEW c \in Clients, Continue(c)
  PROVE  HistoryStep
<1>0. Known(calls[c], rev) /\ Book \in Ledgers
  BY DEF IInv, CallsKnown, Ledgers
<1>1. ASSUME NEW n \in Nat, NEW l \in Ledgers, Applies(l, n), n # 0, n <= Len(rev[l]) PROVE HistoryStep
  <2>1. n \in DOMAIN rev[l]
    BY <1>1, SequenceFacts DEF IInv
  <2> QED BY <1>1, <2>1 DEF HistoryStep
<1>2. CASE CommitApplyContent(c) \/ CommitApplyQuest(c)
  <2> DEFINE l == calls[c].ledger
             n == calls[c].number
  <2>1. UNCHANGED <<rev, active>> \/ Applies(l, n)
    <3>1. CASE CommitApplyContent(c)
      BY <3>1 DEF CommitApplyContent, ApplyContentRow, Applies
    <3>2. CASE CommitApplyQuest(c)
      <4>1. l = Book
        BY <1>0, <3>2 DEF CommitApplyQuest, At, Known
      <4> QED BY <3>2, <4>1 DEF CommitApplyQuest, ApplyQuestRow, Applies
    <3> QED BY <1>2, <3>1, <3>2
  <2>2. n \in Nat /\ l \in Ledgers /\ n # 0 /\ n <= Len(rev[l])
    BY <1>0, <1>2 DEF CommitApplyContent, CommitApplyQuest, At, Known, CallType
  <2> HIDE DEF l, n
  <2> QED BY <1>1, <2>1, <2>2 DEF HistoryStep
<1>3. CASE CommitQuestDraft(c)
  <2> DEFINE p == calls[c].payload
  <2>1. p \in PayloadsOf(Book)
    BY <1>0, <1>3 DEF CommitQuestDraft, At, Known, PayloadsOf
  <2>2. (UNCHANGED rev \/ Saves(Book, p)) /\ UNCHANGED active
    BY <1>3, <2>1 DEF CommitQuestDraft, SaveQuestRow, Matches, Saves
  <2> HIDE DEF p
  <2> QED BY <1>0, <2>1, <2>2 DEF HistoryStep
<1>4. CASE UNCHANGED <<rev, active>>
  BY <1>4 DEF HistoryStep
<1> QED BY <1>2, <1>3, <1>4 DEF Continue, CheckRollback, ApplyQuest, Abandon

LEMMA EveryStep == IInv /\ [Next]_vars => HistoryStep
<1> SUFFICES ASSUME IInv, [Next]_vars PROVE HistoryStep
  OBVIOUS
<1>1. CASE UNCHANGED <<rev, active>>
  BY <1>1 DEF HistoryStep
<1>2. ASSUME NEW c \in Clients, QuestRequest(c) PROVE UNCHANGED <<rev, active>>
  BY <1>2 DEF QuestRequest, GetQuest, SaveQuestDraft, RollbackQuest, ReadQuest
<1> QED BY <1>1, <1>2, ContentSteps, ContinueSteps DEF Next, SelectOrRemove, vars

(* The abstract state that a state stands for.                             *)
Written == [l \in Ledgers |-> [n \in DOMAIN rev[l] |-> AsWritten(rev[l][n])]]
EverUsed == [l \in Ledgers |-> Used(l)]
Held == [l \in Ledgers |-> IF l = Book THEN Drafts ELSE Payloads]

LEMMA WrittenFacts ==
  ASSUME IInv, NEW l \in Ledgers
  PROVE  /\ Written[l] = [n \in 1..Last(l) |-> AsWritten(rev[l][n])]
         /\ Last(l) \in Nat /\ DOMAIN Written[l] = DOMAIN rev[l] /\ DOMAIN rev[l] = 1..Last(l)
         /\ Len(Written[l]) = Last(l)
  BY SequenceFacts DEF IInv, Written, Last

(* A row at the end of a ledger is an entry at the end of its history.     *)
LEMMA AppendAdds ==
  ASSUME IInv, IInv', NEW l \in Ledgers, NEW p \in PayloadsOf(l), NEW source \in Nat, NEW basis \in Nat,
         AppendRow(l, Draft(p, source, basis)), UNCHANGED active
  PROVE  /\ Written' = [Written EXCEPT ![l] = Append(Written[l], History!Entry(p, source, basis))]
         /\ EverUsed' = EverUsed
<1> DEFINE row == Draft(p, source, basis)
           entry == History!Entry(p, source, basis)
<1>1. row \in RevType(l) /\ row.state = "draft" /\ AsWritten(row) = entry
  BY DraftTyped DEF AsWritten, History!Entry
<1>2. AppendRow(l, row)
  OBVIOUS
<1> HIDE DEF row
<1>3. /\ rev'[l] = Append(rev[l], row) /\ \A k \in Ledgers \ {l} : rev'[k] = rev[k]
      /\ rev[l] \in Seq(RevType(l))
  BY <1>2 DEF AppendRow, IInv, RevTyped
<1>4. /\ Last(l) \in Nat /\ DOMAIN rev[l] = 1..Last(l) /\ DOMAIN rev'[l] = 1..(Last(l) + 1)
      /\ rev'[l][Last(l) + 1] = row /\ \A n \in 1..Last(l) : rev'[l][n] = rev[l][n]
  BY <1>1, <1>3 DEF Last
<1>5. ASSUME NEW k \in Ledgers \ {l} PROVE Written'[k] = Written[k] /\ Used(k)' = Used(k)
  BY <1>3 DEF Written, Used
<1>6. Used(l)' = Used(l)
  BY <1>1, <1>4 DEF Used
<1>7. Written'[l] = Append(Written[l], entry)
  <2> HIDE DEF entry
  <2>1. /\ Written'[l] = [n \in 1..(Last(l) + 1) |-> AsWritten(rev'[l][n])]
        /\ Written[l] = [n \in 1..Last(l) |-> AsWritten(rev[l][n])] /\ Len(Written[l]) = Last(l)
    BY <1>4, WrittenFacts DEF Written
  <2>2. Append(Written[l], entry) = [n \in 1..(Last(l) + 1) |-> IF n = Last(l) + 1 THEN entry ELSE Written[l][n]]
    BY <1>4, <2>1
  <2>3. ASSUME NEW n \in 1..(Last(l) + 1)
        PROVE  AsWritten(rev'[l][n]) = IF n = Last(l) + 1 THEN entry ELSE Written[l][n]
    BY <1>1, <1>4, <2>1
  <2> QED BY <2>1, <2>2, <2>3
<1>8. Written' = [k \in Ledgers |-> Written'[k]] /\ Written = [k \in Ledgers |-> Written[k]]
  BY DEF Written
<1>9. Written' = [Written EXCEPT ![l] = Append(Written[l], entry)]
  <2> HIDE DEF entry
  <2> QED BY <1>5, <1>7, <1>8
<1> QED BY <1>5, <1>6, <1>9 DEF EverUsed

(* Moving states rewrites no history, and marks the revision as used.      *)
LEMMA PromotionMarks ==
  ASSUME IInv, IInv', NEW l \in Ledgers, NEW n \in DOMAIN rev[l], Applies(l, n)
  PROVE  /\ Written' = Written
         /\ n \in DOMAIN Written[l] \ EverUsed[l]
         /\ EverUsed' = [EverUsed EXCEPT ![l] = EverUsed[l] \cup {n}]
<1>1. /\ rev'[l] = Promoted(l, n) /\ \A k \in Ledgers \ {l} : rev'[k] = rev[k]
      /\ rev[l][n].state = "draft"
      /\ \A i \in DOMAIN rev[l] : rev[l][i] \in RevType(l)
  BY SequenceFacts DEF Applies, Applicable, IInv, RevTyped
<1>2. DOMAIN rev'[l] = DOMAIN rev[l]
  BY <1>1 DEF Promoted
<1>3. ASSUME NEW i \in DOMAIN rev[l]
      PROVE  /\ AsWritten(rev'[l][i]) = AsWritten(rev[l][i])
             /\ rev'[l][i].state # "draft" <=> i = n \/ rev[l][i].state # "draft"
  <2>1. /\ rev[l][i] \in RevType(l)
        /\ rev'[l][i] = CASE i = n -> [rev[l][i] EXCEPT !.state = "applied"]
                          [] i # n /\ rev[l][i].state = "applied" -> [rev[l][i] EXCEPT !.state = "archived"]
                          [] OTHER -> rev[l][i]
    BY <1>1 DEF Promoted
  <2>2. CASE i = n
    BY <2>1, <2>2 DEF RevType, AsWritten
  <2>3. CASE i # n /\ rev[l][i].state = "applied"
    BY <2>1, <2>3 DEF RevType, AsWritten
  <2>4. CASE i # n /\ rev[l][i].state # "applied"
    BY <2>1, <2>4 DEF AsWritten
  <2> QED BY <2>2, <2>3, <2>4
<1>4. Written' = Written
  <2>1. ASSUME NEW k \in Ledgers
        PROVE  [i \in DOMAIN rev'[k] |-> AsWritten(rev'[k][i])] = [i \in DOMAIN rev[k] |-> AsWritten(rev[k][i])]
    BY <1>1, <1>2, <1>3
  <2> QED BY <2>1 DEF Written
<1>5. Used(l)' = Used(l) \cup {n} /\ \A k \in Ledgers \ {l} : Used(k)' = Used(k)
  BY <1>1, <1>2, <1>3 DEF Used
<1>6. n \in DOMAIN Written[l] \ EverUsed[l]
  BY <1>1, WrittenFacts DEF EverUsed, Used
<1> QED BY <1>4, <1>5, <1>6 DEF EverUsed

LEMMA HistoryInit == Init => History!Init
<1> SUFFICES ASSUME Init PROVE History!Init
  OBVIOUS
<1>1. \A l \in Ledgers : rev[l] = <<>> /\ DOMAIN rev[l] = {}
  BY DEF Init
<1>2. active = [l \in Ledgers |-> 0]
  BY DEF Init
<1>3. \A l \in Ledgers : Used(l) = {} /\ [n \in DOMAIN rev[l] |-> AsWritten(rev[l][n])] = <<>>
  BY <1>1 DEF Used
<1> QED BY <1>2, <1>3 DEF History!Init

(* A step of the requests is a step of the history, or a stutter.          *)
LEMMA StepImplements == IInv /\ IInv' /\ [Next]_vars => [History!Next]_(History!historyVars)
<1> SUFFICES ASSUME IInv, IInv', HistoryStep PROVE [History!Next]_(History!historyVars)
  BY EveryStep
<1>1. CASE UNCHANGED <<rev, active>>
  BY <1>1 DEF History!historyVars, Used
<1>2. ASSUME NEW l \in Ledgers, NEW p \in PayloadsOf(l), Saves(l, p), UNCHANGED active
      PROVE  History!Write(l)
  <2>1. p \in Held[l] /\ Last(l) \in Nat /\ Len(Written[l]) = Last(l)
    BY WrittenFacts DEF PayloadsOf, Held
  <2>2. /\ Written' = [Written EXCEPT ![l] = Append(Written[l], History!Entry(p, 0, Len(Written[l])))]
        /\ EverUsed' = EverUsed
    <3>1. AppendRow(l, Draft(p, 0, Last(l))) /\ 0 \in Nat
      BY <1>2 DEF Saves
    <3>2. /\ Written' = [Written EXCEPT ![l] = Append(Written[l], History!Entry(p, 0, Last(l)))]
          /\ EverUsed' = EverUsed
      BY <1>2, <2>1, <3>1, AppendAdds
    <3> QED BY <2>1, <3>2
  <2> QED BY <1>2, <2>1, <2>2 DEF History!Write, History!Add, Written, EverUsed, Held
<1>3. ASSUME NEW l \in Ledgers, NEW n \in DOMAIN rev[l], Copies(l, n), UNCHANGED active
      PROVE  History!Copy(l)
  <2>1. /\ n \in Nat /\ n \in DOMAIN Written[l] /\ Written[l][n].content = rev[l][n].payload
        /\ rev[l][n].payload \in PayloadsOf(l)
    <3>1. rev[l][n] \in RevType(l) /\ DOMAIN Written[l] = DOMAIN rev[l] /\ n \in 1..Last(l)
      BY WrittenFacts, SequenceFacts DEF IInv
    <3>2. Written[l][n] = AsWritten(rev[l][n])
      BY <3>1 DEF Written
    <3> QED BY <3>1, <3>2 DEF AsWritten, RevType
  <2>2. /\ Written' = [Written EXCEPT ![l] = Append(Written[l], History!Entry(Written[l][n].content, n, 0))]
        /\ EverUsed' = EverUsed
    BY <1>3, <2>1, AppendAdds DEF Copies
  <2> QED BY <1>3, <2>1, <2>2 DEF Copies, History!Copy, History!Add, Written, EverUsed
<1>4. ASSUME NEW l \in Ledgers, NEW n \in DOMAIN rev[l], Applies(l, n)
      PROVE  History!Activate(l)
  <2>1. /\ Written' = Written /\ n \in DOMAIN Written[l] \ EverUsed[l]
        /\ EverUsed' = [EverUsed EXCEPT ![l] = EverUsed[l] \cup {n}]
    BY <1>4, PromotionMarks
  <2>2. active' = [active EXCEPT ![l] = n]
    BY <1>4 DEF Applies
  <2> QED BY <2>1, <2>2 DEF History!Activate, Written, EverUsed
<1> QED BY <1>1, <1>2, <1>3, <1>4 DEF HistoryStep, History!Next

(* Whatever the order in which concurrent saves, applies and rollbacks     *)
(* read and commit, the revisions of every document and of the book are    *)
(* the history of RevisionHistory.                                         *)
THEOREM KeepsHistory == Spec => ImplementsHistory
BY HistoryInit, StepImplements, Invariance, PTL DEF Spec, ImplementsHistory, History!Spec

-----------------------------------------------------------------------------
(* The queue of validateQuest. *)

(* Finite sets of sets: a smallest member.                                 *)
LEMMA SmallestMember ==
  ASSUME NEW S, IsFiniteSet(S), NEW B, B \subseteq SUBSET S, B # {}
  PROVE  \E x \in B : \A y \in B : ~(y \subseteq x /\ y # x)
<1>1. IsWellFoundedOn(StrictSubsetOrdering(S), SUBSET S)
  <2>1. FiniteSubsetsOf(S) = SUBSET S
    BY FS_FiniteSubsetsOfFinite
  <2>2. IsWellFoundedOn(StrictSubsetOrdering(S), FiniteSubsetsOf(S))
    BY FS_StrictSubsetOrderingWellFounded
  <2> QED BY <2>1, <2>2, Zenon
<1>2. PICK x \in B : \A y \in B : <<y, x>> \notin StrictSubsetOrdering(S)
  BY <1>1, WFMin, Zenon
<1>3. \A y \in B : y \subseteq x /\ y # x => <<y, x>> \in StrictSubsetOrdering(S)
  BY DEF StrictSubsetOrdering
<1>4. \A y \in B : ~(y \subseteq x /\ y # x)
  BY <1>2, <1>3, Zenon
<1> QED BY <1>4, Zenon

LEMMA IdsFinite ==
  ASSUME NEW s, IsFiniteSet(DOMAIN s)
  PROVE  IsFiniteSet(Ids(s))
<1> DEFINE idAt == [i \in DOMAIN s |-> s[i].id]
<1>1. idAt \in Surjection(DOMAIN s, Ids(s))
  BY DEF Ids, Surjection
<1> QED BY <1>1, FS_Surjection

(* A quest is open when no edge leads to it from a quest that is left.     *)
LEMMA OpenMeans ==
  ASSUME NEW d, IsFiniteSet(DOMAIN d.edges), NEW rest
  PROVE  Open(d, rest) =
           {n \in rest : \A i \in Sound(d) : ~(d.edges[i].to = n /\ d.edges[i].from \in rest)}
<1> DEFINE Into(n) == {i \in Sound(d) : d.edges[i].to = n /\ d.edges[i].from \in rest}
<1>1. ASSUME NEW n PROVE InDegree(d, rest, n) = 0 <=> Into(n) = {}
  <2>1. Into(n) \in SUBSET DOMAIN d.edges
    BY DEF Sound
  <2>2. IsFiniteSet(Into(n))
    BY <2>1, FS_Subset
  <2>3. Cardinality(Into(n)) = 0 <=> Into(n) = {}
    BY <2>2, FS_EmptySet
  <2> QED BY <2>3 DEF InDegree
<1> QED BY <1>1 DEF Open

-----------------------------------------------------------------------------
(* What the queue leaves behind is the largest set of quests none of which *)
(* is open within the set.                                                 *)

Core(d, rest) == UNION {T \in SUBSET rest : Open(d, T) = {}}

(* Nothing open: the queue stops, and all of it is stuck.                  *)
LEMMA CoreOfStuck ==
  ASSUME NEW d, NEW rest, Open(d, rest) = {}
  PROVE  Core(d, rest) = rest
BY DEF Core

(* An open quest belongs to no stuck set: taking it off loses none.        *)
LEMMA CoreWithoutOpen ==
  ASSUME NEW d, IsFiniteSet(DOMAIN d.edges), NEW rest, NEW n \in Open(d, rest)
  PROVE  Core(d, rest) = Core(d, rest \ {n})
<1>1. ASSUME NEW T \in SUBSET rest, Open(d, T) = {} PROVE n \notin T
  <2>1. \A i \in Sound(d) : ~(d.edges[i].to = n /\ d.edges[i].from \in rest)
    BY OpenMeans
  <2>2. n \in T => n \in Open(d, T)
    BY <2>1, OpenMeans
  <2> QED BY <1>1, <2>2
<1>2. {T \in SUBSET rest : Open(d, T) = {}} = {T \in SUBSET (rest \ {n}) : Open(d, T) = {}}
  BY <1>1
<1> QED BY <1>2 DEF Core

(* The recursion of the queue has one solution, and it is the core.        *)
LEMMA UnsortedIsCore ==
  ASSUME NEW d, Finite(d)
  PROVE  Unsorted(d) = Core(d, Ids(d.nodes))
<1> DEFINE ids == Ids(d.nodes)
           Rule(f) == [rest \in SUBSET ids |->
                         IF Open(d, rest) = {} THEN rest
                         ELSE f[rest \ {CHOOSE n \in Open(d, rest) : TRUE}]]
           left == CHOOSE f : f = Rule(f)
           core == [rest \in SUBSET ids |-> Core(d, rest)]
<1>1. Unsorted(d) = left[ids]
  BY DEF Unsorted
<1>2. IsFiniteSet(ids) /\ IsFiniteSet(DOMAIN d.edges)
  BY IdsFinite DEF Finite
<1>3. ASSUME NEW rest \in SUBSET ids, Open(d, rest) # {},
             NEW n, n = CHOOSE x \in Open(d, rest) : TRUE
      PROVE  n \in rest /\ rest \ {n} \in SUBSET ids /\ Core(d, rest) = Core(d, rest \ {n})
  <2>1. n \in Open(d, rest)
    BY <1>3
  <2>2. Core(d, rest) = Core(d, rest \ {n})
    BY <1>2, <2>1, CoreWithoutOpen
  <2> QED BY <2>1, <2>2 DEF Open
<1>4. core = Rule(core)
  <2>1. ASSUME NEW rest \in SUBSET ids
        PROVE  core[rest] = IF Open(d, rest) = {} THEN rest
                            ELSE core[rest \ {CHOOSE n \in Open(d, rest) : TRUE}]
    <3>1. CASE Open(d, rest) = {}
      BY <3>1, CoreOfStuck
    <3>2. CASE Open(d, rest) # {}
      <4> DEFINE n == CHOOSE x \in Open(d, rest) : TRUE
      <4>1. rest \ {n} \in SUBSET ids /\ Core(d, rest) = Core(d, rest \ {n})
        BY <1>3, <3>2
      <4> QED BY <3>2, <4>1
    <3> QED BY <3>1, <3>2
  <2> HIDE DEF core
  <2>2. core = [rest \in SUBSET ids |-> core[rest]]
    BY DEF core
  <2> QED BY <2>1, <2>2
<1>5. left = Rule(left)
  BY <1>4
<1>6. \A rest \in SUBSET ids : left[rest] = core[rest]
  <2> DEFINE Wrong == {rest \in SUBSET ids : left[rest] # core[rest]}
  <2> SUFFICES ASSUME Wrong # {} PROVE FALSE
    OBVIOUS
  <2> HIDE DEF left, core
  <2>1. PICK rest \in Wrong : \A y \in Wrong : ~(y \subseteq rest /\ y # rest)
    <3>1. Wrong \subseteq SUBSET ids
      OBVIOUS
    <3> HIDE DEF Wrong
    <3> QED BY <1>2, <3>1, SmallestMember
  <2> DEFINE n == CHOOSE x \in Open(d, rest) : TRUE
  <2>2. /\ left[rest] = IF Open(d, rest) = {} THEN rest ELSE left[rest \ {n}]
        /\ core[rest] = IF Open(d, rest) = {} THEN rest ELSE core[rest \ {n}]
    <3>1. rest \in SUBSET ids
      OBVIOUS
    <3>2. left[rest] = Rule(left)[rest] /\ core[rest] = Rule(core)[rest]
      BY <1>4, <1>5
    <3> QED BY <3>1, <3>2
  <2>3. CASE Open(d, rest) = {}
    BY <2>2, <2>3
  <2>4. CASE Open(d, rest) # {}
    <3>1. n \in rest /\ rest \ {n} \in SUBSET ids
      BY <1>3, <2>4
    <3>2. rest \ {n} \notin Wrong
      BY <2>1, <3>1
    <3> HIDE DEF n
    <3> QED BY <2>1, <2>2, <2>4, <3>1, <3>2
  <2> QED BY <2>3, <2>4
<1> QED BY <1>1, <1>6

-----------------------------------------------------------------------------
(* An empty core is an order of the quests. *)

(* Of the quests of a stuck set, the first in any order would be open.     *)
LEMMA OrderedHasNoCore ==
  ASSUME NEW d, Finite(d), Completable(d)
  PROVE  Core(d, Ids(d.nodes)) = {}
<1> DEFINE ids == Ids(d.nodes)
           size == Cardinality(ids)
<1>1. IsFiniteSet(ids) /\ IsFiniteSet(DOMAIN d.edges) /\ size \in Nat
  BY IdsFinite, FS_CardinalityType DEF Finite
<1>2. PICK rank \in [ids -> 1..size] :
        \A i \in Sound(d) : rank[d.edges[i].from] < rank[d.edges[i].to]
  BY DEF Completable
<1>3. ASSUME NEW T \in SUBSET ids, T # {} PROVE Open(d, T) # {}
  <2> DEFINE UpTo == {1..rank[n] : n \in T}
  <2>1. UpTo \subseteq SUBSET (1..size) /\ UpTo # {} /\ IsFiniteSet(1..size)
    <3>1. ASSUME NEW n \in T PROVE 1..rank[n] \subseteq 1..size
      <4>1. n \in ids /\ rank[n] \in 1..size
        BY <1>2
      <4> HIDE DEF size
      <4> QED BY <1>1, <4>1
    <3>2. IsFiniteSet(1..size)
      BY <1>1, FS_Interval
    <3> HIDE DEF size
    <3> QED BY <1>3, <3>1, <3>2
  <2>2. PICK x \in UpTo : \A y \in UpTo : ~(y \subseteq x /\ y # x)
    <3> DEFINE range == 1..size
    <3>1. UpTo \subseteq SUBSET range /\ UpTo # {} /\ IsFiniteSet(range)
      BY <2>1
    <3> HIDE DEF UpTo, range
    <3> QED BY <3>1, SmallestMember
  <2>3. PICK n \in T : x = 1..rank[n]
    OBVIOUS
  <2>4. ASSUME NEW m \in T PROVE ~(rank[m] < rank[n])
    <3>1. rank[m] \in Nat /\ rank[n] \in Nat /\ 1 <= rank[n]
      BY <1>1, <1>2
    <3>2. 1..rank[m] \in UpTo
      OBVIOUS
    <3> HIDE DEF UpTo
    <3>3. rank[m] < rank[n] => 1..rank[m] \subseteq 1..rank[n] /\ 1..rank[m] # 1..rank[n]
      <4> SUFFICES ASSUME rank[m] < rank[n]
                   PROVE  1..rank[m] \subseteq 1..rank[n] /\ rank[n] \in 1..rank[n] /\ rank[n] \notin 1..rank[m]
        OBVIOUS
      <4> QED BY <3>1
    <3> QED BY <2>2, <2>3, <3>2, <3>3
  <2>5. n \in Open(d, T)
    BY <1>1, <1>2, <2>4, OpenMeans
  <2> QED BY <2>5
<1> QED BY <1>3 DEF Core

(* Without stuck sets every set of quests has an order: an open quest       *)
(* first, the others after it.                                             *)
LEMMA NoCoreIsOrdered ==
  ASSUME NEW d, Finite(d), Core(d, Ids(d.nodes)) = {}
  PROVE  Completable(d)
<1> DEFINE ids == Ids(d.nodes)
           Orders(T) == {rank \in [T -> 1..Cardinality(T)] :
                           \A i \in Sound(d) :
                             d.edges[i].from \in T /\ d.edges[i].to \in T
                               => rank[d.edges[i].from] < rank[d.edges[i].to]}
           Unordered == {T \in SUBSET ids : Orders(T) = {}}
<1>1. IsFiniteSet(ids) /\ IsFiniteSet(DOMAIN d.edges)
  BY IdsFinite DEF Finite
<1>2. Unordered = {}
  <2> SUFFICES ASSUME Unordered # {} PROVE FALSE
    OBVIOUS
  <2>1. PICK T \in Unordered : \A y \in Unordered : ~(y \subseteq T /\ y # T)
    <3>1. Unordered \subseteq SUBSET ids
      OBVIOUS
    <3> HIDE DEF Unordered
    <3> QED BY <1>1, <3>1, SmallestMember
  <2>2. T \in SUBSET ids /\ Orders(T) = {}
    OBVIOUS
  <2>3. T # {}
    <3> SUFFICES ASSUME T = {} PROVE [n \in T |-> 0] \in Orders(T)
      BY <2>2
    <3> QED OBVIOUS
  <2>4. PICK n \in T : n \in Open(d, T)
    <3>1. Open(d, T) # {}
      BY <2>2, <2>3 DEF Core
    <3> QED BY <3>1 DEF Open
  <2> DEFINE others == T \ {n}
             size == Cardinality(others)
  <2>5. size \in Nat /\ Cardinality(T) = size + 1
    <3>1. IsFiniteSet(T)
      BY <1>1, <2>2, FS_Subset
    <3>2. IsFiniteSet(others) /\ size = Cardinality(T) - 1
      BY <3>1, FS_RemoveElement
    <3> QED BY <3>1, <3>2, FS_CardinalityType
  <2>6. PICK r : r \in Orders(others)
    <3>1. others \in SUBSET ids /\ others \subseteq T /\ others # T
      BY <2>2, <2>4
    <3> HIDE DEF Orders
    <3> QED BY <2>1, <3>1
  <2>7. r \in [others -> 1..size]
    BY <2>6
  <2> DEFINE q == [m \in T |-> IF m = n THEN 1 ELSE r[m] + 1]
  <2>8. q \in [T -> 1..Cardinality(T)]
    <3> SUFFICES ASSUME NEW m \in T PROVE q[m] \in 1..Cardinality(T)
      OBVIOUS
    <3>1. m # n => r[m] \in 1..size
      BY <2>7
    <3> HIDE DEF size
    <3> QED BY <2>5, <3>1
  <2>9. ASSUME NEW i \in Sound(d), d.edges[i].from \in T, d.edges[i].to \in T
        PROVE  q[d.edges[i].from] < q[d.edges[i].to]
    <3> DEFINE a == d.edges[i].from
               b == d.edges[i].to
    <3>1. b # n /\ a # b
      BY <1>1, <2>4, <2>9, OpenMeans DEF Sound
    <3>2. b \in others /\ r[b] \in 1..size
      BY <2>7, <2>9, <3>1
    <3>3. CASE a = n
      <4> HIDE DEF size
      <4> QED BY <2>5, <2>9, <3>1, <3>2, <3>3
    <3>4. CASE a # n
      <4>1. a \in others /\ r[a] \in 1..size
        BY <2>7, <2>9, <3>4
      <4>2. r[a] < r[b]
        BY <2>6, <3>2, <4>1
      <4> HIDE DEF size
      <4> QED BY <2>5, <2>9, <3>1, <3>2, <3>4, <4>1, <4>2
    <3> QED BY <3>3, <3>4
  <2>10. q \in Orders(T)
    BY <2>8, <2>9
  <2> QED BY <2>2, <2>10
<1>3. PICK rank : rank \in Orders(ids)
  BY <1>2
<1>4. \A i \in Sound(d) : d.edges[i].from \in ids /\ d.edges[i].to \in ids
  BY DEF Sound
<1> QED BY <1>3, <1>4 DEF Completable

(* A draft of any size is told it has a cycle exactly if no order of its    *)
(* quests respects all its edges.                                          *)
THEOREM CycleToldExactly ==
  ASSUME NEW d, Finite(d)
  PROVE  Completable(d) <=> "cycle" \notin EdgeIssues(d)
<1>1. Completable(d) <=> Unsorted(d) = {}
  BY UnsortedIsCore, OrderedHasNoCore, NoCoreIsOrdered
<1>2. "cycle" \in EdgeIssues(d) <=> Unsorted(d) # {}
  BY DEF EdgeIssues, When
<1> QED BY <1>1, <1>2

(* Edges that pass are all followed.                                       *)
LEMMA PassedEdgesSound ==
  ASSUME NEW d, ~Blocking(EdgeIssues(d))
  PROVE  Sound(d) = DOMAIN d.edges
<1>1. "missing_node" \notin EdgeIssues(d) /\ "self_edge" \notin EdgeIssues(d)
  BY DEF Blocking
<1>2. ASSUME NEW i \in DOMAIN d.edges
      PROVE  {d.edges[i].from, d.edges[i].to} \subseteq Ids(d.nodes)
  BY <1>1 DEF EdgeIssues, When, Some
<1>3. ASSUME NEW i \in DOMAIN d.edges
      PROVE  d.edges[i].from # d.edges[i].to
  BY <1>1, <1>2 DEF EdgeIssues, When, Some
<1> QED BY <1>2, <1>3 DEF Sound

LEMMA PassedCompletable ==
  ASSUME NEW d, Finite(d), ~Blocking(EdgeIssues(d))
  PROVE  Completable(d)
BY CycleToldExactly DEF Blocking

(* The quests of an accepted draft can be done one after the other, and a   *)
(* draft is called cyclic exactly if its quests cannot be, for every set of *)
(* drafts.                                                                 *)
THEOREM QuestsCompletable == ProbeSpec => []AcceptedQuestsCompletable
<1> DEFINE Probed == probe = NoId \/ probe \in Probes
<1>1. ProbeInit => Probed
  BY DEF ProbeInit
<1>2. Probed /\ [Probe]_probe => Probed'
  BY DEF Probe
<1>3. Probed => AcceptedQuestsCompletable
  BY ProbesAssumption, CycleToldExactly, PassedEdgesSound, PassedCompletable
     DEF AcceptedQuestsCompletable
<1> QED BY <1>1, <1>2, <1>3, PTL DEF ProbeSpec

(* The active quest book can be played to its end, whatever was saved,      *)
(* rolled back and applied at the same time.                               *)
THEOREM ActiveBookCompletable ==
  Spec => [](active[Book] # 0 => Completable(rev[Book][active[Book]].payload))
<1> DEFINE Playable == active[Book] # 0 => Completable(rev[Book][active[Book]].payload)
<1>1. IInv => Playable
  <2> SUFFICES ASSUME IInv, active[Book] # 0 PROVE Completable(rev[Book][active[Book]].payload)
    OBVIOUS
  <2> DEFINE d == rev[Book][active[Book]].payload
  <2>1. Book \in Ledgers
    BY DEF Ledgers
  <2>2. active[Book] \in 1..Last(Book) /\ Last(Book) \in Nat
    BY <2>1, SequenceFacts DEF IInv, PointersTyped, Last
  <2>3. d \in Drafts
    <3>1. rev[Book][active[Book]] \in RevType(Book)
      BY <2>1, <2>2, SequenceFacts DEF IInv, Last
    <3> QED BY <3>1 DEF RevType, PayloadsOf
  <2>4. ~Blocking(QuestIssues(d, Pack, [m \in Refs |-> Pack]))
    BY <2>1 DEF IInv, ActiveIsSound
  <2>5. ~Blocking(EdgeIssues(d))
    BY <2>4 DEF Blocking, QuestIssues
  <2> QED BY <2>3, <2>5, PassedCompletable
<1> QED BY <1>1, Invariance, PTL
=============================================================================
