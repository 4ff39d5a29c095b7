------------------------------- MODULE Release -------------------------------
(***************************************************************************)
(* Publication of build artifacts (apps/server/internal/service/publish.go *)
(* and store/publish_repo.go): the rows of the releases table, the calls   *)
(* PublishPack, RetryPublish and PollRelease that work on them at the same *)
(* time, from HTTP requests and from the publish task, and the provider    *)
(* that receives the uploads.                                              *)
(*                                                                         *)
(* Every statement of the repository is a step of its own: nothing here    *)
(* runs in a transaction.  The provider is external; it is modelled from   *)
(* what provider.Adapter returns.                                          *)
(***************************************************************************)
EXTENDS Integers, FiniteSets

CONSTANTS
  Releases,     \* possible rows: one per provider and idempotency key
  Local,        \* the rows of provider "local"; the others share one provider
  Artifacts,    \* ready artifacts
  NoArtifact,
  Calls,        \* requests in progress at the same time
  NoRelease,
  NoId,         \* the empty remote id
  Env,          \* which environment actions happen
  MaxUploads,   \* bound: publications the provider ever holds
  MaxRetries    \* bound: explicit retries admitted of each release

ASSUME ReleaseAssumptions ==
  /\ Local \subseteq Releases
  /\ NoRelease \notin Releases
  /\ NoArtifact \notin Artifacts
  /\ MaxUploads \in Nat
  /\ MaxRetries \in [Releases -> Nat]
  /\ NoId \notin Artifacts \cup (1..MaxUploads)
  /\ Artifacts \cap (1..MaxUploads) = {}
  /\ IsFiniteSet(Calls)
  /\ Env \subseteq {"abandon", "fileLost"}

UploadIds == 1..MaxUploads

VARIABLES
  rel,       \* rel[s]: the row of release s
  calls,     \* calls[c]: where call c is, and the values it has read
  uploads,   \* uploads[i]: publication i as the provider holds it
  intact,    \* artifacts whose file still matches its hash
  retried    \* history: retries of s that passed the status check

vars == <<rel, calls, uploads, intact, retried>>

NoRow == [status |-> "none", remoteId |-> NoId, artifact |-> NoArtifact]
NoUpload == [release |-> NoRelease, status |-> "none"]
Call(step, s, id, status) == [step |-> step, release |-> s, id |-> id, status |-> status]
Idle == Call("idle", NoRelease, NoId, "none")

Init ==
  /\ rel = [s \in Releases |-> NoRow]
  /\ calls = [c \in Calls |-> Idle]
  /\ uploads = [i \in UploadIds |-> NoUpload]
  /\ intact = Artifacts
  /\ retried = [s \in Releases |-> 0]

-----------------------------------------------------------------------------
(* The releases table. *)

(* Mutant: any release can be reserved again. *)
ReservableAlways(s) == rel[s].status # "none"

(* SetReleasePublishing matches only these. *)
Reservable(s) == rel[s].status \in {"pending", "failed"}

(* The unique index on (provider, remote_id), empty ids aside. *)
IdFree(s, id) ==
  id = NoId \/ \A r \in Releases \ {s} : (r \in Local) = (s \in Local) => rel[r].remoteId # id

(* FinishRelease: without effect (and an error to its caller) unless the row *)
(* is publishing and the index admits the id.                                *)
FinishRelease(s, status, id) ==
  rel' = IF rel[s].status = "publishing" /\ IdFree(s, id)
         THEN [rel EXCEPT ![s] = [status |-> status, remoteId |-> id, artifact |-> @.artifact]]
         ELSE rel

(* Mutant: a status nobody knows counts as success. *)
NormalizedEager(status) == IF status \in {"failed", "publishing"} THEN status ELSE "succeeded"

(* normalizeRemoteStatus: what is neither success nor failure is under way.  *)
Normalized(status) == IF status \in {"succeeded", "failed"} THEN status ELSE "publishing"

-----------------------------------------------------------------------------
(* PublishPack and RetryPublish. *)

At(c, step) == calls[c].step = step
Goto(c, step) == calls' = [calls EXCEPT ![c].step = step]
Done(c) == calls' = [calls EXCEPT ![c] = Idle]
Begin(c, s, step, id) == calls' = [calls EXCEPT ![c] = Call(step, s, id, "none")]
Answered(c, step, id, status) ==
  calls' = [calls EXCEPT ![c] = Call(step, calls[c].release, id, status)]

(* Mutant: a row another call has just created is taken for one's own. *)
OwnRowOrPending(s) == rel[s].status \in {"none", "pending"}

OwnRow(s) == rel[s].status = "none"

(* CreateRelease inserts the row unless the key is known.  A known key is    *)
(* answered from its row, or with a conflict, and nothing is written.        *)
PublishPack(c, s, a) ==
  /\ At(c, "idle")
  /\ OwnRow(s)
  /\ rel' = [rel EXCEPT ![s] = [status |-> "pending", remoteId |-> NoId, artifact |-> a]]
  /\ Begin(c, s, "verify", NoId)
  /\ UNCHANGED <<uploads, intact, retried>>

(* RetryPublish reads a failed row. *)
RetryPublish(c, s) ==
  /\ At(c, "idle")
  /\ rel[s].status = "failed"
  /\ retried[s] < MaxRetries[s]
  /\ retried' = [retried EXCEPT ![s] = @ + 1]
  /\ Begin(c, s, "verify", NoId)
  /\ UNCHANGED <<rel, uploads, intact>>

(* publishOnce, step by step.  First the file is checked against its hash. *)
VerifyFile(c) ==
  /\ At(c, "verify")
  /\ Goto(c, IF rel[calls[c].release].artifact \in intact THEN "reserve" ELSE "missing")
  /\ UNCHANGED <<rel, uploads, intact, retried>>

(* A missing file: the row is reserved, or found reserved by another call    *)
(* (the error is ignored), and marked failed.                                *)
ReserveMissing(c) ==
  /\ At(c, "missing")
  /\ LET s == calls[c].release
     IN  rel' = IF Reservable(s) THEN [rel EXCEPT ![s].status = "publishing"] ELSE rel
  /\ Goto(c, "rejected")
  /\ UNCHANGED <<uploads, intact, retried>>

(* SetReleasePublishing lets one call through and sends the others home.  *)
Reserve(c) ==
  LET s == calls[c].release
  IN  /\ At(c, "reserve")
      /\ \/ /\ Reservable(s)
            /\ rel' = [rel EXCEPT ![s].status = "publishing"]
            /\ Goto(c, IF s \in Local THEN "local" ELSE "calling")
         \/ /\ ~Reservable(s)
            /\ Done(c)
            /\ UNCHANGED rel
      /\ UNCHANGED <<uploads, intact, retried>>

(* A local publication takes the artifact's own id as its remote id. *)
FinishLocal(c) ==
  /\ At(c, "local")
  /\ FinishRelease(calls[c].release, "succeeded", rel[calls[c].release].artifact)
  /\ Done(c)
  /\ UNCHANGED <<uploads, intact, retried>>

(* adapter.Publish reaches the provider, which keeps the upload; its answer  *)
(* arrives or is lost.                                                       *)
Upload(c, i, status) ==
  /\ At(c, "calling")
  /\ uploads[i] = NoUpload
  /\ \A j \in UploadIds : j < i => uploads[j] # NoUpload
  /\ uploads' = [uploads EXCEPT ![i] = [release |-> calls[c].release, status |-> status]]
  /\ \/ Answered(c, "answered", i, status)
     \/ Goto(c, "rejected")
  /\ UNCHANGED <<rel, intact, retried>>

(* No adapter, or the provider refuses.  (The repository's HTTP adapter      *)
(* always does.)                                                             *)
Refuse(c) ==
  /\ At(c, "calling")
  /\ Goto(c, "rejected")
  /\ UNCHANGED <<rel, uploads, intact, retried>>

(* finishPublishFailure, and the failed answer of the provider. *)
RecordFailure(c) ==
  /\ \/ At(c, "rejected")
     \/ At(c, "answered") /\ Normalized(calls[c].status) = "failed"
  /\ FinishRelease(calls[c].release, "failed", NoId)
  /\ Done(c)
  /\ UNCHANGED <<uploads, intact, retried>>

(* The provider's answer, and the answer to a poll, go into the row alike. *)
RecordAnswer(c) ==
  /\ \/ At(c, "answered") /\ Normalized(calls[c].status) # "failed"
     \/ At(c, "polled")
  /\ FinishRelease(calls[c].release, Normalized(calls[c].status), calls[c].id)
  /\ Done(c)
  /\ UNCHANGED <<uploads, intact, retried>>

-----------------------------------------------------------------------------
(* PollRelease. *)

PollRelease(c, s) ==
  /\ At(c, "idle")
  /\ s \notin Local
  /\ rel[s].status = "publishing"
  /\ Begin(c, s, "polling", rel[s].remoteId)
  /\ UNCHANGED <<rel, uploads, intact, retried>>

(* The provider tells what it knows of the id; of an empty one, nothing. *)
RemoteStatus(c) ==
  /\ At(c, "polling")
  /\ LET id == calls[c].id
     IN  Answered(c, "polled", id, IF id \in UploadIds THEN uploads[id].status ELSE "unknown")
  /\ UNCHANGED <<rel, uploads, intact, retried>>

(* ErrProviderStatusUnavailable leaves the row as it is. *)
StatusUnavailable(c) ==
  /\ At(c, "polling")
  /\ Done(c)
  /\ UNCHANGED <<rel, uploads, intact, retried>>

-----------------------------------------------------------------------------
(* The surroundings. *)

(* The provider finishes or rejects an upload in its own time. *)
Settle(i, status) ==
  /\ uploads[i].status = "publishing"
  /\ uploads' = [uploads EXCEPT ![i].status = status]
  /\ UNCHANGED <<rel, calls, intact, retried>>

(* The client hangs up, which cancels the request's context and with it the  *)
(* statements still to come, or the process ends.                            *)
Abandon(c) ==
  /\ "abandon" \in Env
  /\ ~At(c, "idle")
  /\ Done(c)
  /\ UNCHANGED <<rel, uploads, intact, retried>>

(* The file in the export directory is changed or removed from outside. *)
FileLost(a) ==
  /\ "fileLost" \in Env
  /\ a \in intact
  /\ intact' = intact \ {a}
  /\ UNCHANGED <<rel, calls, uploads, retried>>

CallStep(c) ==
  \/ \E s \in Releases : \/ \E a \in Artifacts : PublishPack(c, s, a)
                         \/ RetryPublish(c, s)
                         \/ PollRelease(c, s)
  \/ VerifyFile(c)
  \/ ReserveMissing(c)
  \/ Reserve(c)
  \/ FinishLocal(c)
  \/ \E i \in UploadIds, status \in {"publishing", "succeeded", "failed"} : Upload(c, i, status)
  \/ Refuse(c)
  \/ RecordFailure(c)
  \/ RecordAnswer(c)
  \/ RemoteStatus(c)
  \/ StatusUnavailable(c)
  \/ Abandon(c)

Next ==
  \/ \E c \in Calls : CallStep(c)
  \/ \E i \in UploadIds, status \in {"succeeded", "failed"} : Settle(i, status)
  \/ \E a \in Artifacts : FileLost(a)

Spec == Init /\ [][Next]_vars

-----------------------------------------------------------------------------
(* Correctness. *)

RowStatuses == {"none", "pending", "publishing", "succeeded", "failed"}
UploadStatuses == {"none", "publishing", "succeeded", "failed"}
RemoteIds == UploadIds \cup Artifacts \cup {NoId}

CallPoints ==
  {"idle", "verify", "missing", "reserve", "local", "calling", "answered", "rejected",
   "polling", "polled"}

Rows == [status: RowStatuses, remoteId: RemoteIds, artifact: Artifacts \cup {NoArtifact}]

CallRecords ==
  [step: CallPoints, release: Releases \cup {NoRelease}, id: RemoteIds,
   status: UploadStatuses \cup {"unknown"}]

(* Every variable has its type, a row has its artifact, and a call is about  *)
(* an existing release from its first statement to its last.                 *)
TypeOK ==
  /\ rel \in [Releases -> Rows]
  /\ calls \in [Calls -> CallRecords]
  /\ uploads \in [UploadIds -> [release: Releases \cup {NoRelease}, status: UploadStatuses]]
  /\ intact \subseteq Artifacts
  /\ retried \in [Releases -> Nat]
  /\ \A s \in Releases : rel[s].status # "none" => rel[s].artifact \in Artifacts
  /\ \A c \in Calls : ~At(c, "idle") => /\ calls[c].release \in Releases
                                        /\ rel[calls[c].release].status # "none"

UploadsOf(s) == {i \in UploadIds : uploads[i].release = s}

(* A publication that failed, or whose answer is unknown, is not repeated    *)
(* unless someone asks for it: the provider receives at most one upload for  *)
(* the first request and one for every admitted retry, however often and in  *)
(* whatever interleaving requests with the same key arrive.                  *)
NoAutomaticRetry == \A s \in Releases : Cardinality(UploadsOf(s)) <= 1 + retried[s]

(* A release is recorded as succeeded only if the provider really completed  *)
(* the upload it names, and made it for this very release, even when late    *)
(* polls and answers of earlier attempts are written after newer ones.       *)
SucceededIsReal ==
  \A s \in Releases : rel[s].status = "succeeded" =>
    IF s \in Local THEN rel[s].remoteId = rel[s].artifact
    ELSE \E i \in UploadsOf(s) : rel[s].remoteId = i /\ uploads[i].status = "succeeded"

(* How often a publication was asked for: once for the row, once for every  *)
(* retry.                                                                  *)
Charge(s) == (IF rel[s].status = "none" THEN 0 ELSE 1) + retried[s]

Promise ==
  INSTANCE Publication
  WITH asked <- [s \in Releases |-> Charge(s)],
       artifact <- [s \in Releases |-> rel[s].artifact],
       recorded <- [s \in Releases |->
                      IF rel[s].status = "succeeded" THEN rel[s].remoteId ELSE NoId]

(* Calls that overlap, get lost and are repeated amount to Publication: the *)
(* provider receives an artifact only as often as someone asked, a success  *)
(* is recorded once, for an upload of this release that no other release    *)
(* claims, and no late poll, answer or retry takes it back or adds to it.   *)
ImplementsPublication == Promise!Spec

=============================================================================
