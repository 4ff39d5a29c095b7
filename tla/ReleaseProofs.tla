---------------------------- MODULE ReleaseProofs ----------------------------
(***************************************************************************)
(* Proofs about Release, for every set of releases, artifacts and          *)
(* concurrent calls.  Two invariants carry them.                           *)
(*                                                                         *)
(* Provenance: whatever a call or a row knows about an upload was said of  *)
(* an upload made for the same release, and a reported success stays true. *)
(*                                                                         *)
(* Charged: the uploads of a release and the calls that may still upload   *)
(* for it are together covered by its creation and its retries.            *)
(***************************************************************************)
EXTENDS Release, FiniteSetTheorems, TLAPS

USE ReleaseAssumptions

(* What a call has learned, from the answer to its upload or to a poll. *)
CallSound(c) ==
  LET s == calls[c].release
      id == calls[c].id
  IN  /\ At(c, "local") => s \in Local
      /\ calls[c].step \in {"calling", "answered", "polling", "polled"} => s \notin Local
      /\ calls[c].step \in {"answered", "polling", "polled"} =>
           id = NoId \/ (id \in UploadIds /\ uploads[id].release = s)
      /\ calls[c].step \in {"answered", "polled"} /\ calls[c].status = "succeeded" =>
           id \in UploadIds /\ uploads[id].status = "succeeded"

(* What the row of a release that is not local says about its upload. *)
RowSound(s) ==
  s \notin Local =>
    LET id == rel[s].remoteId
    IN  id = NoId \/ (id \in UploadIds /\ uploads[id].release = s)

Provenance == (\A c \in Calls : CallSound(c)) /\ (\A s \in Releases : RowSound(s))

(* Calls that may still upload for release s. *)
Heading(s) ==
  {c \in Calls : calls[c].release = s /\ calls[c].step \in {"verify", "reserve", "calling"}}

Charged ==
  \A s \in Releases : Cardinality(UploadsOf(s)) + Cardinality(Heading(s)) <= Charge(s)

(* Only what has a row is retried. *)
RetriedHasRow == \A s \in Releases : rel[s].status = "none" => retried[s] = 0

IInv == TypeOK /\ Provenance /\ SucceededIsReal /\ Charged /\ RetriedHasRow

-----------------------------------------------------------------------------
(* Typing. *)

(* A call record made of typed parts is a call record. *)
LEMMA CallTyped ==
  ASSUME NEW step \in CallPoints, NEW s \in Releases \cup {NoRelease}, NEW id \in RemoteIds,
         NEW status \in UploadStatuses \cup {"unknown"}
  PROVE  /\ Call(step, s, id, status) \in CallRecords
         /\ Call(step, s, id, status).step = step
         /\ Call(step, s, id, status).release = s
  BY DEF Call, CallRecords

(* What every step leaves of the rows: none disappears. *)
RowsTyped ==
  /\ rel' \in [Releases -> Rows]
  /\ \A r \in Releases : /\ rel[r].status # "none" => rel'[r].status # "none"
                         /\ rel'[r].status # "none" => rel'[r].artifact \in Artifacts

(* FinishRelease keeps the rows typed and removes none. *)
LEMMA FinishTyped ==
  ASSUME TypeOK, NEW s \in Releases, NEW status \in RowStatuses \ {"none"},
         NEW id \in RemoteIds, FinishRelease(s, status, id)
  PROVE  RowsTyped
  BY DEF TypeOK, FinishRelease, Rows, RowsTyped

(* A call whose next record is typed keeps the calls typed. *)
LEMMA CallsTyped ==
  ASSUME TypeOK, RowsTyped, NEW c \in Calls, NEW call \in CallRecords,
         calls' = [calls EXCEPT ![c] = call],
         call.step = "idle" \/ (call.release \in Releases /\ rel'[call.release].status # "none")
  PROVE  /\ calls' \in [Calls -> CallRecords]
         /\ \A d \in Calls : ~At(d, "idle")' => /\ calls'[d].release \in Releases
                                                /\ rel'[calls'[d].release].status # "none"
  BY DEF TypeOK, RowsTyped, At

(* The types are preserved by every step. *)
LEMMA TypeStep == ASSUME TypeOK, [Next]_vars PROVE TypeOK'
<1> USE DEF RowsTyped
<1>0. /\ rel \in [Releases -> Rows] /\ calls \in [Calls -> CallRecords]
      /\ uploads \in [UploadIds -> [release: Releases \cup {NoRelease}, status: UploadStatuses]]
      /\ intact \subseteq Artifacts /\ retried \in [Releases -> Nat]
      /\ \A s \in Releases : rel[s].status # "none" => rel[s].artifact \in Artifacts
  BY DEF TypeOK
<1>i. Idle \in CallRecords /\ Idle.step = "idle"
  BY CallTyped DEF Idle, CallPoints, RemoteIds, UploadStatuses
<1>s. ASSUME NEW c \in Calls, ~At(c, "idle")
      PROVE  calls[c].release \in Releases /\ rel[calls[c].release].status # "none"
  BY <1>s DEF TypeOK
<1>g. ASSUME NEW c \in Calls, NEW step \in CallPoints, ~At(c, "idle"), RowsTyped, Goto(c, step)
      PROVE  /\ calls' \in [Calls -> CallRecords]
             /\ \A d \in Calls : ~At(d, "idle")' => /\ calls'[d].release \in Releases
                                                    /\ rel'[calls'[d].release].status # "none"
  <2> DEFINE call == [calls[c] EXCEPT !.step = step]
  <2>1. call \in CallRecords /\ call.release = calls[c].release
    BY <1>0 DEF CallRecords
  <2>2. calls' = [calls EXCEPT ![c] = call]
    BY <1>0, <1>g DEF Goto
  <2> HIDE DEF call
  <2> QED BY <1>s, <1>g, <2>1, <2>2, CallsTyped
<1>d. ASSUME NEW c \in Calls, RowsTyped, Done(c)
      PROVE  /\ calls' \in [Calls -> CallRecords]
             /\ \A d \in Calls : ~At(d, "idle")' => /\ calls'[d].release \in Releases
                                                    /\ rel'[calls'[d].release].status # "none"
  BY <1>d, <1>i, CallsTyped DEF Done
<1>1. ASSUME NEW c \in Calls, NEW s \in Releases, NEW a \in Artifacts, PublishPack(c, s, a)
      PROVE  TypeOK'
  <2>1. RowsTyped
    BY <1>0, <1>1 DEF PublishPack, Rows, RowStatuses, RemoteIds
  <2>2. rel'[s].status # "none"
    BY <1>0, <1>1 DEF PublishPack
  <2>3. Call("verify", s, NoId, "none") \in CallRecords
        /\ Call("verify", s, NoId, "none").release = s
    BY CallTyped DEF CallPoints, RemoteIds, UploadStatuses
  <2> QED BY <1>0, <1>1, <2>1, <2>2, <2>3, CallsTyped DEF PublishPack, Begin, TypeOK
<1>2. ASSUME NEW c \in Calls, NEW s \in Releases, RetryPublish(c, s) PROVE TypeOK'
  <2>1. RowsTyped
    BY <1>0, <1>2 DEF RetryPublish
  <2>2. rel'[s].status # "none"
    BY <1>2 DEF RetryPublish
  <2>3. Call("verify", s, NoId, "none") \in CallRecords
        /\ Call("verify", s, NoId, "none").release = s
    BY CallTyped DEF CallPoints, RemoteIds, UploadStatuses
  <2>4. retried' \in [Releases -> Nat]
    BY <1>0, <1>2 DEF RetryPublish
  <2> QED BY <1>0, <1>2, <2>1, <2>2, <2>3, <2>4, CallsTyped DEF RetryPublish, Begin, TypeOK
<1>3. ASSUME NEW c \in Calls, NEW s \in Releases, PollRelease(c, s) PROVE TypeOK'
  <2>1. RowsTyped
    BY <1>0, <1>3 DEF PollRelease
  <2>2. rel'[s].status # "none"
    BY <1>3 DEF PollRelease
  <2>3. Call("polling", s, rel[s].remoteId, "none") \in CallRecords
        /\ Call("polling", s, rel[s].remoteId, "none").release = s
    BY <1>0, CallTyped DEF CallPoints, Rows, UploadStatuses
  <2> QED BY <1>0, <1>3, <2>1, <2>2, <2>3, CallsTyped DEF PollRelease, Begin, TypeOK
<1>4. ASSUME NEW c \in Calls, VerifyFile(c) \/ Refuse(c) PROVE TypeOK'
  <2>1. \E step \in CallPoints : Goto(c, step)
    BY <1>4 DEF VerifyFile, Refuse, CallPoints
  <2> QED BY <1>0, <1>4, <1>g, <2>1 DEF VerifyFile, Refuse, At, TypeOK
<1>5. ASSUME NEW c \in Calls, ReserveMissing(c) \/ Reserve(c) PROVE TypeOK'
  <2>1. ~At(c, "idle") /\ calls[c].release \in Releases /\ rel[calls[c].release].status # "none"
    BY <1>5, <1>s DEF ReserveMissing, Reserve, At
  <2>2. rel' = rel \/ rel' = [rel EXCEPT ![calls[c].release].status = "publishing"]
    BY <1>5 DEF ReserveMissing, Reserve
  <2>3. RowsTyped
    BY <1>0, <2>1, <2>2 DEF Rows, RowStatuses
  <2>4. Done(c) \/ \E step \in CallPoints : Goto(c, step)
    BY <1>5 DEF ReserveMissing, Reserve, CallPoints
  <2>5. UNCHANGED <<uploads, intact, retried>>
    BY <1>5 DEF ReserveMissing, Reserve
  <2> QED BY <1>0, <1>g, <1>d, <2>1, <2>3, <2>4, <2>5 DEF TypeOK
<1>6. ASSUME NEW c \in Calls, FinishLocal(c) \/ RecordFailure(c) \/ RecordAnswer(c) PROVE TypeOK'
  <2>1. ~At(c, "idle") /\ calls[c].release \in Releases /\ calls[c].id \in RemoteIds
        /\ rel[calls[c].release].status # "none"
    BY <1>0, <1>6, <1>s DEF FinishLocal, RecordFailure, RecordAnswer, At, CallRecords
  <2>2. Normalized(calls[c].status) \in RowStatuses \ {"none"}
    BY DEF Normalized, RowStatuses
  <2>3. FinishLocal(c) => RowsTyped
    <3>1. SUFFICES ASSUME FinishLocal(c) PROVE RowsTyped
      OBVIOUS
    <3> DEFINE s == calls[c].release
    <3>2. rel' = rel \/ rel' = [rel EXCEPT ![s] = [status |-> "succeeded", remoteId |-> rel[s].artifact,
                                                  artifact |-> rel[s].artifact]]
      BY <3>1 DEF FinishLocal, FinishRelease
    <3> DEFINE row == [status |-> "succeeded", remoteId |-> rel[s].artifact, artifact |-> rel[s].artifact]
    <3>3. row \in Rows /\ row.status = "succeeded" /\ row.artifact \in Artifacts
      BY <1>0, <2>1 DEF Rows, RowStatuses, RemoteIds
    <3> HIDE DEF row
    <3>4. rel' = rel \/ rel' = [rel EXCEPT ![s] = row]
      BY <3>2 DEF row
    <3> QED BY <1>0, <2>1, <3>3, <3>4
  <2>4. RecordFailure(c) => RowsTyped
    BY <2>1, FinishTyped DEF RecordFailure, RowStatuses, RemoteIds
  <2>5. RecordAnswer(c) => RowsTyped
    BY <2>1, <2>2, FinishTyped DEF RecordAnswer
  <2>6. RowsTyped /\ Done(c) /\ UNCHANGED <<uploads, intact, retried>>
    BY <1>6, <2>3, <2>4, <2>5 DEF FinishLocal, RecordFailure, RecordAnswer
  <2> QED BY <1>0, <1>d, <2>6 DEF TypeOK
<1>7. ASSUME NEW c \in Calls, NEW i \in UploadIds, NEW status \in {"publishing", "succeeded", "failed"},
             Upload(c, i, status)
      PROVE  TypeOK'
  <2>1. ~At(c, "idle") /\ calls[c].release \in Releases /\ rel[calls[c].release].status # "none"
    BY <1>7, <1>s DEF Upload, At
  <2>2. uploads' \in [UploadIds -> [release: Releases \cup {NoRelease}, status: UploadStatuses]]
    BY <1>0, <1>7, <2>1 DEF Upload, UploadStatuses
  <2>3. RowsTyped
    BY <1>0, <1>7 DEF Upload
  <2>4. CASE Goto(c, "rejected")
    BY <1>0, <1>7, <1>g, <2>1, <2>2, <2>3, <2>4 DEF Upload, TypeOK, CallPoints
  <2>5. CASE Answered(c, "answered", i, status)
    <3>1. /\ Call("answered", calls[c].release, i, status) \in CallRecords
          /\ Call("answered", calls[c].release, i, status).release = calls[c].release
      BY <2>1, CallTyped DEF CallPoints, RemoteIds, UploadStatuses
    <3> QED BY <1>0, <1>7, <2>1, <2>2, <2>3, <2>5, <3>1, CallsTyped DEF Upload, Answered, TypeOK
  <2> QED BY <1>7, <2>4, <2>5 DEF Upload
<1>8. ASSUME NEW c \in Calls, RemoteStatus(c) PROVE TypeOK'
  <2>1. ~At(c, "idle") /\ calls[c].release \in Releases /\ rel[calls[c].release].status # "none"
    BY <1>8, <1>s DEF RemoteStatus, At
  <2> DEFINE id == calls[c].id
             status == IF id \in UploadIds THEN uploads[id].status ELSE "unknown"
  <2>2. id \in RemoteIds /\ status \in UploadStatuses \cup {"unknown"}
    BY <1>0 DEF CallRecords
  <2>3. Answered(c, "polled", id, status)
    BY <1>8 DEF RemoteStatus
  <2>4. RowsTyped /\ UNCHANGED <<uploads, intact, retried>>
    BY <1>0, <1>8 DEF RemoteStatus
  <2> HIDE DEF id, status
  <2>5. /\ Call("polled", calls[c].release, id, status) \in CallRecords
        /\ Call("polled", calls[c].release, id, status).release = calls[c].release
    BY <2>1, <2>2, CallTyped DEF CallPoints
  <2> QED BY <1>0, <2>1, <2>3, <2>4, <2>5, CallsTyped DEF Answered, TypeOK
<1>9. ASSUME NEW c \in Calls, StatusUnavailable(c) \/ Abandon(c) PROVE TypeOK'
  BY <1>0, <1>9, <1>d DEF StatusUnavailable, Abandon, TypeOK
<1>10. ASSUME NEW i \in UploadIds, NEW status \in {"succeeded", "failed"}, Settle(i, status) PROVE TypeOK'
  BY <1>0, <1>10 DEF Settle, TypeOK, UploadStatuses, At
<1>11. ASSUME NEW a \in Artifacts, FileLost(a) PROVE TypeOK'
  BY <1>0, <1>11 DEF FileLost, TypeOK, At
<1>12. ASSUME UNCHANGED vars PROVE TypeOK'
  BY <1>0, <1>12 DEF vars, TypeOK, At
<1> QED
  BY <1>1, <1>2, <1>3, <1>4, <1>5, <1>6, <1>7, <1>8, <1>9, <1>10, <1>11, <1>12 DEF Next, CallStep

-----------------------------------------------------------------------------
(* Provenance of uploads, rows and answers. *)

(* An upload stays with its release, and a completed one stays completed.    *)
LEMMA UploadsKept ==
  ASSUME TypeOK, [Next]_vars, NEW i \in UploadIds
  PROVE  /\ uploads[i].release \in Releases => uploads'[i].release = uploads[i].release
         /\ uploads[i].status = "succeeded" => uploads'[i].status = "succeeded"
<1> DEFINE Goal == /\ uploads[i].release \in Releases => uploads'[i].release = uploads[i].release
                   /\ uploads[i].status = "succeeded" => uploads'[i].status = "succeeded"
<1>1. ASSUME NEW c \in Calls, NEW j \in UploadIds, NEW status \in {"publishing", "succeeded", "failed"},
             Upload(c, j, status)
      PROVE  Goal
  BY <1>1 DEF Upload, NoUpload, TypeOK
<1>2. ASSUME NEW j \in UploadIds, NEW status \in {"succeeded", "failed"}, Settle(j, status) PROVE Goal
  BY <1>2 DEF Settle, TypeOK
<1>3. ASSUME UNCHANGED uploads PROVE Goal
  BY <1>3
<1> HIDE DEF Goal
<1>4. Goal
  BY <1>1, <1>2, <1>3
     DEF Next, CallStep, PublishPack, RetryPublish, PollRelease, VerifyFile, ReserveMissing, Reserve,
         FinishLocal, Refuse, RecordFailure, RecordAnswer, RemoteStatus, StatusUnavailable, Abandon,
         FileLost, vars
<1> QED BY <1>4 DEF Goal

(* How a row changes: towards a new attempt or a failure, by a local         *)
(* publication, or by what a provider answered to one of its calls.          *)
RowStep(s) ==
  \/ rel'[s] = rel[s]
  \/ /\ rel[s].status # "succeeded" /\ rel'[s].status \in {"pending", "publishing", "failed"}
     /\ rel'[s].remoteId \in {rel[s].remoteId, NoId}
  \/ /\ rel[s].status = "publishing" /\ rel'[s].status = "succeeded"
     /\ rel'[s].remoteId = rel'[s].artifact /\ IdFree(s, rel'[s].remoteId)
     /\ \E c \in Calls : At(c, "local") /\ calls[c].release = s
  \/ /\ rel[s].status = "publishing" /\ IdFree(s, rel'[s].remoteId)
     /\ \E c \in Calls : /\ calls[c].step \in {"answered", "polled"} /\ calls[c].release = s
                         /\ rel'[s].remoteId = calls[c].id
                         /\ rel'[s].status = Normalized(calls[c].status)

(* Every step changes the rows in these ways only. *)
LEMMA RowSteps == ASSUME TypeOK, [Next]_vars, NEW s \in Releases PROVE RowStep(s)
<1>0. /\ rel \in [Releases -> Rows]
      /\ \A c \in Calls : ~At(c, "idle") => calls[c].release \in Releases
  BY DEF TypeOK
<1>1. ASSUME NEW c \in Calls, NEW r \in Releases, NEW a \in Artifacts, PublishPack(c, r, a)
      PROVE  RowStep(s)
  BY <1>0, <1>1 DEF PublishPack, OwnRow, RowStep
<1>2. ASSUME NEW c \in Calls, ReserveMissing(c) \/ Reserve(c) PROVE RowStep(s)
  BY <1>0, <1>2 DEF ReserveMissing, Reserve, Reservable, RowStep, At, Rows
<1>3. ASSUME NEW c \in Calls, FinishLocal(c) PROVE RowStep(s)
  BY <1>0, <1>3 DEF FinishLocal, FinishRelease, RowStep, At
<1>4. ASSUME NEW c \in Calls, RecordFailure(c) PROVE RowStep(s)
  BY <1>0, <1>4 DEF RecordFailure, FinishRelease, RowStep, At
<1>5. ASSUME NEW c \in Calls, RecordAnswer(c) PROVE RowStep(s)
  BY <1>0, <1>5 DEF RecordAnswer, FinishRelease, RowStep, At
<1>6. ASSUME UNCHANGED rel PROVE RowStep(s)
  BY <1>6 DEF RowStep
<1> QED
  BY <1>1, <1>2, <1>3, <1>4, <1>5, <1>6
     DEF Next, CallStep, RetryPublish, PollRelease, VerifyFile, Upload, Refuse, RemoteStatus,
         StatusUnavailable, Abandon, Settle, FileLost, vars

(* How a call learns something: from its upload, from its row, from a poll.  *)
CallMove(c) ==
  \/ calls'[c] = calls[c]
  \/ calls'[c].step \in {"idle", "verify", "reserve", "missing", "rejected"}
  \/ calls'[c].step = "local" /\ calls'[c].release \in Local
  \/ calls'[c].step = "calling" /\ calls'[c].release \notin Local
  \/ /\ At(c, "calling") /\ calls'[c].step = "answered" /\ calls'[c].release = calls[c].release
     /\ calls'[c].id \in UploadIds
     /\ uploads'[calls'[c].id] = [release |-> calls[c].release, status |-> calls'[c].status]
  \/ /\ calls'[c].step = "polling" /\ calls'[c].release \in Releases \ Local
     /\ calls'[c].id = rel[calls'[c].release].remoteId
  \/ /\ At(c, "polling") /\ calls'[c].step = "polled" /\ calls'[c].release = calls[c].release
     /\ calls'[c].id = calls[c].id /\ uploads' = uploads
     /\ calls'[c].status = "succeeded" =>
          calls[c].id \in UploadIds /\ uploads[calls[c].id].status = "succeeded"

(* Every step moves a call in these ways only. *)
LEMMA CallMoves == ASSUME TypeOK, [Next]_vars, NEW d \in Calls PROVE CallMove(d)
<1> USE DEF CallMove, At
<1>0. /\ calls \in [Calls -> CallRecords]
      /\ uploads \in [UploadIds -> [release: Releases \cup {NoRelease}, status: UploadStatuses]]
      /\ \A c \in Calls : ~At(c, "idle") => calls[c].release \in Releases
  BY DEF TypeOK
<1>1. ASSUME NEW c \in Calls, NEW s \in Releases,
             RetryPublish(c, s) \/ \E a \in Artifacts : PublishPack(c, s, a)
      PROVE  CallMove(d)
  BY <1>0, <1>1 DEF RetryPublish, PublishPack, Begin, Call
<1>2. ASSUME NEW c \in Calls, NEW s \in Releases, PollRelease(c, s) PROVE CallMove(d)
  BY <1>0, <1>2 DEF PollRelease, Begin, Call
<1>3. ASSUME NEW c \in Calls, VerifyFile(c) \/ ReserveMissing(c) \/ Refuse(c) PROVE CallMove(d)
  BY <1>0, <1>3 DEF VerifyFile, ReserveMissing, Refuse, Goto, CallRecords
<1>4. ASSUME NEW c \in Calls, Reserve(c) PROVE CallMove(d)
  BY <1>0, <1>4 DEF Reserve, Goto, Done, Idle, Call, CallRecords
<1>5. ASSUME NEW c \in Calls, \/ FinishLocal(c) \/ RecordFailure(c) \/ RecordAnswer(c)
                              \/ StatusUnavailable(c) \/ Abandon(c)
      PROVE  CallMove(d)
  BY <1>0, <1>5 DEF FinishLocal, RecordFailure, RecordAnswer, StatusUnavailable, Abandon, Done, Idle, Call
<1>6. ASSUME NEW c \in Calls, NEW i \in UploadIds, NEW status \in {"publishing", "succeeded", "failed"},
             Upload(c, i, status)
      PROVE  CallMove(d)
  BY <1>0, <1>6 DEF Upload, Answered, Goto, Call, CallRecords
<1>7. ASSUME NEW c \in Calls, RemoteStatus(c) PROVE CallMove(d)
  BY <1>0, <1>7 DEF RemoteStatus, Answered, Call
<1>8. ASSUME UNCHANGED calls PROVE CallMove(d)
  BY <1>8
<1> QED
  BY <1>1, <1>2, <1>3, <1>4, <1>5, <1>6, <1>7, <1>8 DEF Next, CallStep, Settle, FileLost, vars

(* Provenance is preserved by every step. *)
LEMMA ProvenanceStep == ASSUME TypeOK, Provenance, [Next]_vars PROVE Provenance'
<1>0. /\ \A c \in Calls : CallSound(c) /\ (~At(c, "idle") => calls[c].release \in Releases)
      /\ \A s \in Releases : RowSound(s)
  BY DEF Provenance, TypeOK
<1>1. ASSUME NEW c \in Calls PROVE CallSound(c)'
  <2>1. CallMove(c) /\ CallSound(c) /\ (~At(c, "idle") => calls[c].release \in Releases)
    BY <1>0, CallMoves
  <2>2. \A s \in Releases : RowSound(s)
    BY <1>0
  <2>3. \A i \in UploadIds :
          /\ uploads[i].release \in Releases => uploads'[i].release = uploads[i].release
          /\ uploads[i].status = "succeeded" => uploads'[i].status = "succeeded"
    BY UploadsKept
  <2> QED BY <2>1, <2>2, <2>3 DEF CallMove, CallSound, RowSound, At
<1>2. ASSUME NEW s \in Releases PROVE RowSound(s)'
  <2>1. RowStep(s) /\ RowSound(s)
    BY <1>0, RowSteps
  <2>2. \A i \in UploadIds : uploads[i].release \in Releases => uploads'[i].release = uploads[i].release
    BY UploadsKept
  <2> QED BY <1>0, <2>1, <2>2 DEF RowStep, RowSound, CallSound, At
<1> QED BY <1>1, <1>2 DEF Provenance

(* A success recorded for a release is one the provider reported for it.     *)
LEMMA RealStep == ASSUME TypeOK, Provenance, SucceededIsReal, [Next]_vars PROVE SucceededIsReal'
<1> SUFFICES ASSUME NEW s \in Releases, rel'[s].status = "succeeded"
             PROVE  IF s \in Local THEN rel'[s].remoteId = rel'[s].artifact
                    ELSE \E i \in UploadIds : /\ uploads'[i].release = s /\ rel'[s].remoteId = i
                                              /\ uploads'[i].status = "succeeded"
  BY DEF SucceededIsReal, UploadsOf
<1>1. RowStep(s)
  BY RowSteps
<1>2. \A i \in UploadIds :
        /\ uploads[i].release \in Releases => uploads'[i].release = uploads[i].release
        /\ uploads[i].status = "succeeded" => uploads'[i].status = "succeeded"
  BY UploadsKept
<1>3. CASE rel'[s] = rel[s]
  BY <1>2, <1>3 DEF SucceededIsReal, UploadsOf
<1>4. ASSUME NEW c \in Calls, At(c, "local"), calls[c].release = s, rel'[s].remoteId = rel'[s].artifact
      PROVE  s \in Local
  BY <1>4 DEF Provenance, CallSound
<1>5. ASSUME NEW c \in Calls, calls[c].step \in {"answered", "polled"}, calls[c].release = s,
             rel'[s].remoteId = calls[c].id, rel'[s].status = Normalized(calls[c].status)
      PROVE  /\ s \notin Local /\ calls[c].id \in UploadIds /\ rel'[s].remoteId = calls[c].id
             /\ uploads[calls[c].id].release = s /\ uploads[calls[c].id].status = "succeeded"
  <2>1. CallSound(c) /\ calls[c].status = "succeeded"
    BY <1>5 DEF Provenance, Normalized
  <2>2. NoId \notin UploadIds
    BY ReleaseAssumptions DEF UploadIds
  <2> QED BY <1>5, <2>1, <2>2 DEF CallSound
<1> QED BY <1>1, <1>2, <1>3, <1>4, <1>5 DEF RowStep

-----------------------------------------------------------------------------
(* Uploads are paid for. *)

(* Finite sets of uploads and of calls have a size. *)
LEMMA Sizes ==
  ASSUME NEW s
  PROVE  IsFiniteSet(UploadsOf(s)) /\ IsFiniteSet(Heading(s))
<1>1. IsFiniteSet(UploadIds)
  BY FS_Interval DEF UploadIds
<1>2. UploadsOf(s) \in SUBSET UploadIds /\ Heading(s) \in SUBSET Calls
  BY DEF UploadsOf, Heading
<1> QED BY <1>1, <1>2, FS_Subset

(* A step may retire calls, start one that is charged, or turn one into an   *)
(* upload.                                                                   *)
HeadingStep(s) ==
  \/ Heading(s)' \subseteq Heading(s) /\ UploadsOf(s)' = UploadsOf(s) /\ Charge(s)' >= Charge(s)
  \/ /\ \E c \in Calls : Heading(s)' = Heading(s) \cup {c}
     /\ UploadsOf(s)' = UploadsOf(s) /\ Charge(s)' = Charge(s) + 1
  \/ /\ \E c \in Heading(s), i \in UploadIds :
          Heading(s)' = Heading(s) \ {c} /\ UploadsOf(s)' = UploadsOf(s) \cup {i}
     /\ Charge(s)' = Charge(s)

(* Every step does one of these to each release. *)
LEMMA HeadingSteps == ASSUME TypeOK, [Next]_vars, NEW s \in Releases PROVE HeadingStep(s)
<1>0. /\ rel \in [Releases -> Rows] /\ retried \in [Releases -> Nat] /\ calls \in [Calls -> CallRecords]
      /\ uploads \in [UploadIds -> [release: Releases \cup {NoRelease}, status: UploadStatuses]]
      /\ \A c \in Calls : ~At(c, "idle") => calls[c].release \in Releases
  BY DEF TypeOK
<1>c. Charge(s) \in Nat
  BY <1>0 DEF Charge
<1>r. rel[s].status # "none" => rel'[s].status # "none"
  BY RowSteps DEF RowStep, Normalized
<1>1. ASSUME NEW c \in Calls, NEW r \in Releases, NEW a \in Artifacts, PublishPack(c, r, a)
      PROVE  HeadingStep(s)
  <2>1. CASE r = s
    <3>1. Heading(s)' = Heading(s) \cup {c}
      BY <1>0, <1>1, <2>1 DEF PublishPack, Begin, Call, Heading
    <3>2. Charge(s)' = Charge(s) + 1 /\ UploadsOf(s)' = UploadsOf(s)
      BY <1>0, <1>1, <2>1 DEF PublishPack, OwnRow, Charge, UploadsOf
    <3> QED BY <3>1, <3>2 DEF HeadingStep
  <2>2. CASE r # s
    <3>1. Heading(s)' = Heading(s)
      BY <1>0, <1>1, <2>2 DEF PublishPack, Begin, Call, Heading, At
    <3>2. Charge(s)' = Charge(s) /\ UploadsOf(s)' = UploadsOf(s)
      BY <1>0, <1>1, <2>2 DEF PublishPack, Charge, UploadsOf
    <3> QED BY <1>c, <3>1, <3>2 DEF HeadingStep
  <2> QED BY <2>1, <2>2
<1>2. ASSUME NEW c \in Calls, NEW r \in Releases, RetryPublish(c, r) PROVE HeadingStep(s)
  <2>1. CASE r = s
    <3>1. Heading(s)' = Heading(s) \cup {c}
      BY <1>0, <1>2, <2>1 DEF RetryPublish, Begin, Call, Heading
    <3>2. Charge(s)' = Charge(s) + 1 /\ UploadsOf(s)' = UploadsOf(s)
      BY <1>0, <1>2, <2>1 DEF RetryPublish, Charge, UploadsOf
    <3> QED BY <3>1, <3>2 DEF HeadingStep
  <2>2. CASE r # s
    <3>1. Heading(s)' = Heading(s)
      BY <1>0, <1>2, <2>2 DEF RetryPublish, Begin, Call, Heading, At
    <3>2. Charge(s)' = Charge(s) /\ UploadsOf(s)' = UploadsOf(s)
      BY <1>0, <1>2, <2>2 DEF RetryPublish, Charge, UploadsOf
    <3> QED BY <1>c, <3>1, <3>2 DEF HeadingStep
  <2> QED BY <2>1, <2>2
<1>3. ASSUME NEW c \in Calls, NEW i \in UploadIds, NEW status \in {"publishing", "succeeded", "failed"},
             Upload(c, i, status)
      PROVE  HeadingStep(s)
  <2>1. calls'[c].step \in {"answered", "rejected"} /\ \A d \in Calls \ {c} : calls'[d] = calls[d]
    BY <1>0, <1>3 DEF Upload, Answered, Goto, Call, CallRecords
  <2>2. Heading(s)' = Heading(s) \ {c}
    BY <2>1 DEF Heading
  <2>3. Charge(s)' = Charge(s)
    BY <1>3 DEF Upload, Charge
  <2>4. CASE calls[c].release = s
    <3>1. c \in Heading(s) /\ UploadsOf(s)' = UploadsOf(s) \cup {i}
      BY <1>0, <1>3, <2>4 DEF Upload, Heading, At, UploadsOf
    <3> QED BY <2>2, <2>3, <3>1 DEF HeadingStep
  <2>5. CASE calls[c].release # s
    <3>1. UploadsOf(s)' = UploadsOf(s)
      BY <1>0, <1>3, <2>5 DEF Upload, NoUpload, UploadsOf
    <3> QED BY <1>c, <2>2, <2>3, <3>1 DEF HeadingStep
  <2> QED BY <2>4, <2>5
<1>4. ASSUME Heading(s)' \subseteq Heading(s), UploadsOf(s)' = UploadsOf(s), retried' = retried
      PROVE  HeadingStep(s)
  BY <1>0, <1>4, <1>r DEF HeadingStep, Charge
<1>5. ASSUME NEW c \in Calls, NEW step \in CallPoints, Goto(c, step), UNCHANGED <<uploads, retried>>,
             step \in {"verify", "reserve", "calling"} => calls[c].step \in {"verify", "reserve"}
      PROVE  HeadingStep(s)
  <2>1. Heading(s)' \subseteq Heading(s)
    BY <1>0, <1>5 DEF Goto, Heading, CallRecords
  <2> QED BY <1>4, <1>5, <2>1 DEF UploadsOf
<1>6. ASSUME NEW c \in Calls, NEW call, call.step \notin {"verify", "reserve", "calling"},
             calls' = [calls EXCEPT ![c] = call], UNCHANGED <<uploads, retried>>
      PROVE  HeadingStep(s)
  <2>1. Heading(s)' \subseteq Heading(s)
    BY <1>0, <1>6 DEF Heading
  <2> QED BY <1>4, <1>6, <2>1 DEF UploadsOf
<1>7. ASSUME NEW c \in Calls, VerifyFile(c) \/ ReserveMissing(c) \/ Refuse(c) PROVE HeadingStep(s)
  BY <1>5, <1>7 DEF VerifyFile, ReserveMissing, Refuse, At, CallPoints
<1>i. Idle.step = "idle"
  BY DEF Idle, Call
<1>8. ASSUME NEW c \in Calls, Reserve(c) PROVE HeadingStep(s)
  BY <1>5, <1>6, <1>8, <1>i DEF Reserve, Done, At, CallPoints
<1>9. ASSUME NEW c \in Calls, \/ FinishLocal(c) \/ RecordFailure(c) \/ RecordAnswer(c)
                              \/ StatusUnavailable(c) \/ Abandon(c)
      PROVE  HeadingStep(s)
  BY <1>6, <1>9, <1>i DEF FinishLocal, RecordFailure, RecordAnswer, StatusUnavailable, Abandon, Done
<1>10. ASSUME NEW c \in Calls, RemoteStatus(c) \/ \E r \in Releases : PollRelease(c, r)
       PROVE  HeadingStep(s)
  <2>1. \A r, id, status, step : Call(step, r, id, status).step = step
    BY DEF Call
  <2> QED BY <1>6, <1>10, <2>1 DEF RemoteStatus, PollRelease, Begin, Answered
<1>11. ASSUME NEW i \in UploadIds, NEW status \in {"succeeded", "failed"}, Settle(i, status)
       PROVE  HeadingStep(s)
  BY <1>0, <1>4, <1>11 DEF Settle, Heading, UploadsOf
<1>12. ASSUME UNCHANGED <<calls, uploads, retried>> PROVE HeadingStep(s)
  BY <1>4, <1>12 DEF Heading, UploadsOf
<1> QED
  BY <1>1, <1>2, <1>3, <1>7, <1>8, <1>9, <1>10, <1>11, <1>12 DEF Next, CallStep, FileLost, vars

(* Uploads and calls heading for one stay covered. *)
LEMMA ChargedStep == ASSUME TypeOK, Charged, [Next]_vars PROVE Charged'
<1> SUFFICES ASSUME NEW s \in Releases
             PROVE  Cardinality(UploadsOf(s)') + Cardinality(Heading(s)') <= Charge(s)'
  BY DEF Charged
<1>1. HeadingStep(s)
  BY HeadingSteps
<1>2. Cardinality(UploadsOf(s)) + Cardinality(Heading(s)) <= Charge(s)
  BY DEF Charged
<1>3. /\ IsFiniteSet(UploadsOf(s)) /\ IsFiniteSet(Heading(s))
      /\ Cardinality(UploadsOf(s)) \in Nat /\ Cardinality(Heading(s)) \in Nat
  BY Sizes, FS_CardinalityType
<1>4. Charge(s) \in Nat /\ Charge(s)' \in Nat
  BY TypeStep DEF Charge, TypeOK
<1>5. CASE Heading(s)' \subseteq Heading(s) /\ UploadsOf(s)' = UploadsOf(s) /\ Charge(s)' >= Charge(s)
  <2>1. Cardinality(Heading(s)') \in Nat /\ Cardinality(Heading(s)') <= Cardinality(Heading(s))
    BY <1>3, <1>5, FS_Subset, FS_CardinalityType
  <2> QED BY <1>2, <1>3, <1>4, <1>5, <2>1
<1>6. ASSUME NEW c \in Calls, Heading(s)' = Heading(s) \cup {c}, UploadsOf(s)' = UploadsOf(s),
             Charge(s)' = Charge(s) + 1
      PROVE  Cardinality(UploadsOf(s)') + Cardinality(Heading(s)') <= Charge(s)'
  <2>1. Cardinality(Heading(s)') \in {Cardinality(Heading(s)), Cardinality(Heading(s)) + 1}
    BY <1>3, <1>6, FS_AddElement
  <2> QED BY <1>2, <1>3, <1>4, <1>6, <2>1
<1>7. ASSUME NEW c \in Heading(s), NEW i \in UploadIds, Heading(s)' = Heading(s) \ {c},
             UploadsOf(s)' = UploadsOf(s) \cup {i}, Charge(s)' = Charge(s)
      PROVE  Cardinality(UploadsOf(s)') + Cardinality(Heading(s)') <= Charge(s)'
  <2>1. Cardinality(Heading(s)') = Cardinality(Heading(s)) - 1
    BY <1>3, <1>7, FS_RemoveElement
  <2>2. Cardinality(UploadsOf(s)') \in {Cardinality(UploadsOf(s)), Cardinality(UploadsOf(s)) + 1}
    BY <1>3, <1>7, FS_AddElement
  <2> QED BY <1>2, <1>3, <1>4, <1>7, <2>1, <2>2
<1> QED BY <1>1, <1>5, <1>6, <1>7 DEF HeadingStep

-----------------------------------------------------------------------------
(* The theorems. *)

(* The invariant holds before the first request. *)
LEMMA InitInvariant == Init => IInv
<1> SUFFICES ASSUME Init PROVE IInv
  OBVIOUS
<1> USE DEF Init
<1>1. \A c \in Calls : calls[c].step = "idle" /\ calls[c].release = NoRelease
  BY DEF Idle, Call
<1>2. \A s \in Releases : rel[s].status = "none" /\ rel[s].remoteId = NoId /\ retried[s] = 0
  BY DEF NoRow
<1>3. TypeOK
  BY <1>1, <1>2 DEF TypeOK, NoRow, Rows, RowStatuses, RemoteIds, Idle, Call, CallRecords, CallPoints,
                    UploadStatuses, NoUpload, At
<1>4. Provenance
  BY <1>1, <1>2 DEF Provenance, CallSound, RowSound, At
<1>5. SucceededIsReal
  BY <1>2 DEF SucceededIsReal
<1>6. Charged
  <2> SUFFICES ASSUME NEW s \in Releases
               PROVE  Cardinality(UploadsOf(s)) + Cardinality(Heading(s)) <= Charge(s)
    BY DEF Charged
  <2>1. UploadsOf(s) = {} /\ Heading(s) = {}
    BY <1>1 DEF UploadsOf, Heading, NoUpload
  <2> QED BY <1>2, <2>1, FS_EmptySet DEF Charge
<1>7. RetriedHasRow
  BY <1>2 DEF RetriedHasRow
<1> QED BY <1>3, <1>4, <1>5, <1>6, <1>7 DEF IInv

LEMMA RetriedStep == ASSUME TypeOK, RetriedHasRow, [Next]_vars PROVE RetriedHasRow'
<1> SUFFICES ASSUME NEW s \in Releases, rel'[s].status = "none" PROVE retried'[s] = 0
  BY DEF RetriedHasRow
<1>1. rel[s].status = "none" /\ retried[s] = 0
  <2>1. RowStep(s)
    BY RowSteps
  <2> QED BY <2>1 DEF RowStep, Normalized, RetriedHasRow
<1>2. ASSUME NEW c \in Calls, NEW r \in Releases, RetryPublish(c, r) PROVE retried'[s] = 0
  BY <1>1, <1>2 DEF RetryPublish, TypeOK
<1>3. retried' = retried \/ \E c \in Calls, r \in Releases : RetryPublish(c, r)
  BY DEF Next, CallStep, PublishPack, PollRelease, VerifyFile, ReserveMissing, Reserve,
         FinishLocal, Upload, Refuse, RecordFailure, RecordAnswer, RemoteStatus, StatusUnavailable,
         Abandon, Settle, FileLost, vars
<1> QED BY <1>1, <1>2, <1>3

(* The invariant is inductive. *)
LEMMA StepInvariant == IInv /\ [Next]_vars => IInv'
  BY TypeStep, ProvenanceStep, RealStep, ChargedStep, RetriedStep DEF IInv

(* IInv holds in every reachable state of every instance. *)
THEOREM Invariance == Spec => []IInv
  BY InitInvariant, StepInvariant, PTL DEF Spec

(* Every variable keeps its type, whatever calls run at the same time.       *)
THEOREM Typing == Spec => []TypeOK
<1>1. IInv => TypeOK
  BY DEF IInv
<1> QED BY <1>1, Invariance, PTL

(* Requests that repeat a key never make the provider receive more uploads   *)
(* than the first request and the admitted retries account for.              *)
THEOREM UploadsBounded == Spec => []NoAutomaticRetry
<1>1. IInv => NoAutomaticRetry
  <2> SUFFICES ASSUME IInv, NEW s \in Releases
               PROVE  Cardinality(UploadsOf(s)) <= 1 + retried[s]
    BY DEF NoAutomaticRetry
  <2>1. Cardinality(UploadsOf(s)) + Cardinality(Heading(s)) <= Charge(s)
    BY DEF IInv, Charged
  <2>2. Cardinality(UploadsOf(s)) \in Nat /\ Cardinality(Heading(s)) \in Nat
    BY Sizes, FS_CardinalityType
  <2>3. retried[s] \in Nat
    BY DEF IInv, TypeOK
  <2> QED BY <2>1, <2>2, <2>3 DEF Charge
<1> QED BY <1>1, Invariance, PTL

(* What the table calls a success is a success at the provider.              *)
THEOREM SuccessIsReal == Spec => []SucceededIsReal
<1>1. IInv => SucceededIsReal
  BY DEF IInv
<1> QED BY <1>1, Invariance, PTL

(* No interleaving of retries, late answers and polls undoes a success.      *)
SucceededIsFinal ==
  [][\A s \in Releases : rel[s].status = "succeeded" => rel'[s] = rel[s]]_vars

THEOREM SuccessIsFinal == Spec => SucceededIsFinal
<1>1. TypeOK /\ [Next]_vars => [\A s \in Releases : rel[s].status = "succeeded" => rel'[s] = rel[s]]_vars
  BY RowSteps DEF RowStep
<1> QED BY <1>1, Typing, PTL DEF Spec, SucceededIsFinal

-----------------------------------------------------------------------------
(* The calls implement Publication. *)

Asked == [s \in Releases |-> Charge(s)]
Published == [s \in Releases |-> rel[s].artifact]
RecordedId(s) == IF rel[s].status = "succeeded" THEN rel[s].remoteId ELSE NoId
Recorded == [s \in Releases |-> RecordedId(s)]

(* A step of one call on the row of its release, of which the provider and  *)
(* those who ask take no part.                                             *)
RowOnly(s) ==
  /\ UNCHANGED <<uploads, retried>>
  /\ rel' = [rel EXCEPT ![s] = rel'[s]]
  /\ rel[s].status # "none" /\ rel'[s].status # "none"
  /\ rel'[s].artifact = rel[s].artifact

PromiseStep ==
  \/ UNCHANGED <<rel, uploads, retried>>
  \/ \E s \in Releases : RowOnly(s)
  \/ \E c \in Calls, s \in Releases : RetryPublish(c, s) \/ \E a \in Artifacts : PublishPack(c, s, a)
  \/ \E c \in Calls, i \in UploadIds, status \in {"publishing", "succeeded", "failed"} :
       Upload(c, i, status)
  \/ \E i \in UploadIds, status \in {"succeeded", "failed"} : Settle(i, status)

LEMMA EveryStep == ASSUME TypeOK, [Next]_vars PROVE PromiseStep
<1>0. /\ rel \in [Releases -> Rows]
      /\ \A c \in Calls : ~At(c, "idle") => /\ calls[c].release \in Releases
                                            /\ rel[calls[c].release].status # "none"
  BY DEF TypeOK
<1>1. ASSUME NEW s \in Releases, rel[s].status # "none", NEW row, row.status # "none",
             row.artifact = rel[s].artifact, UNCHANGED <<uploads, retried>>,
             rel' = rel \/ rel' = [rel EXCEPT ![s] = row]
      PROVE  PromiseStep
  <2>1. CASE rel' = rel
    BY <1>1, <2>1 DEF PromiseStep
  <2>2. CASE rel' = [rel EXCEPT ![s] = row]
    <3>1. rel'[s] = row
      BY <1>0, <2>2
    <3> QED BY <1>1, <2>2, <3>1 DEF PromiseStep, RowOnly
  <2> QED BY <1>1, <2>1, <2>2
<1>2. ASSUME NEW c \in Calls, ReserveMissing(c) \/ Reserve(c) PROVE PromiseStep
  <2> DEFINE s == calls[c].release
             row == [rel[s] EXCEPT !.status = "publishing"]
  <2>1. s \in Releases /\ rel[s].status # "none" /\ UNCHANGED <<uploads, retried>>
    BY <1>0, <1>2 DEF ReserveMissing, Reserve, At
  <2>2. row.status = "publishing" /\ row.artifact = rel[s].artifact
    BY <1>0, <2>1 DEF Rows
  <2>3. rel' = rel \/ rel' = [rel EXCEPT ![s] = row]
    BY <1>0, <1>2, <2>1 DEF ReserveMissing, Reserve
  <2> HIDE DEF s, row
  <2> QED BY <1>1, <2>1, <2>2, <2>3
<1>3. ASSUME NEW c \in Calls, FinishLocal(c) \/ RecordFailure(c) \/ RecordAnswer(c) PROVE PromiseStep
  <2> DEFINE s == calls[c].release
  <2>1. s \in Releases /\ rel[s].status # "none" /\ UNCHANGED <<uploads, retried>>
    BY <1>0, <1>3 DEF FinishLocal, RecordFailure, RecordAnswer, At
  <2>2. PICK status, id : status \in {"publishing", "succeeded", "failed"} /\ FinishRelease(s, status, id)
    BY <1>3 DEF FinishLocal, RecordFailure, RecordAnswer, Normalized
  <2> DEFINE row == [status |-> status, remoteId |-> id, artifact |-> rel[s].artifact]
  <2>3. rel' = rel \/ rel' = [rel EXCEPT ![s] = row]
    BY <2>2 DEF FinishRelease
  <2>4. row.status # "none" /\ row.artifact = rel[s].artifact
    BY <2>2
  <2> HIDE DEF s, row
  <2> QED BY <1>1, <2>1, <2>3, <2>4
<1>4. ASSUME UNCHANGED <<rel, uploads, retried>> PROVE PromiseStep
  BY <1>4 DEF PromiseStep
<1>5. ASSUME NEW c \in Calls, \/ VerifyFile(c) \/ Refuse(c) \/ RemoteStatus(c)
                              \/ StatusUnavailable(c) \/ Abandon(c)
                              \/ \E s \in Releases : PollRelease(c, s)
      PROVE  PromiseStep
  BY <1>4, <1>5 DEF VerifyFile, Refuse, RemoteStatus, StatusUnavailable, Abandon, PollRelease
<1>6. ASSUME NEW a \in Artifacts, FileLost(a) PROVE PromiseStep
  BY <1>4, <1>6 DEF FileLost
<1>7. CASE UNCHANGED vars
  BY <1>4, <1>7 DEF vars
<1> QED BY <1>2, <1>3, <1>5, <1>6, <1>7 DEF Next, CallStep, PromiseStep

(* What is recorded of a release in the course of a step on its row.        *)
LEMMA RowRecords ==
  ASSUME IInv, [Next]_vars, NEW s \in Releases, RowOnly(s)
  PROVE  \/ RecordedId(s)' = RecordedId(s)
         \/ /\ RecordedId(s) = NoId
            /\ RecordedId(s)' \in Promise!Proofs(s)
            /\ \A r \in Releases : (r \in Local) = (s \in Local) => RecordedId(r) # RecordedId(s)'
<1>1. RowStep(s)
  BY RowSteps DEF IInv
<1>2. CASE rel'[s].status # "succeeded"
  <2>1. rel[s].status # "succeeded" \/ rel'[s] = rel[s]
    BY <1>1 DEF RowStep
  <2> QED BY <1>2, <2>1 DEF RecordedId
<1>3. CASE rel[s].status = "succeeded"
  BY <1>1, <1>3 DEF RowStep, RecordedId
<1>4. CASE rel'[s].status = "succeeded" /\ rel[s].status # "succeeded"
  <2> DEFINE id == rel'[s].remoteId
  <2>1. RecordedId(s) = NoId /\ RecordedId(s)' = id
    BY <1>4 DEF RecordedId
  <2>2. IdFree(s, id)
    BY <1>1, <1>4 DEF RowStep
  <2>3. id \in Promise!Proofs(s)
    <3>0. SucceededIsReal' /\ rel'[s].artifact = rel[s].artifact
      BY StepInvariant DEF RowOnly, IInv
    <3>1. CASE s \in Local
      <4>1. id = rel[s].artifact
        BY <1>4, <3>0, <3>1 DEF SucceededIsReal
      <4> QED BY <3>1, <4>1 DEF Promise!Proofs
    <3>2. CASE s \notin Local
      <4>1. id \in UploadIds /\ uploads'[id].release = s /\ uploads'[id].status = "succeeded"
        BY <1>4, <3>0, <3>2 DEF SucceededIsReal, UploadsOf
      <4>2. uploads' = uploads
        BY DEF RowOnly
      <4> QED BY <3>2, <4>1, <4>2 DEF Promise!Proofs, Promise!UploadsOf
    <3> QED BY <3>1, <3>2
  <2>4. id # NoId
    <3>1. Artifacts \cap {NoId} = {} /\ NoId \notin UploadIds
      BY DEF UploadIds
    <3>2. s \in Local => rel[s].artifact \in Artifacts /\ id = rel[s].artifact
      <4>1. SucceededIsReal' /\ rel'[s].artifact = rel[s].artifact
        BY StepInvariant DEF RowOnly, IInv
      <4> QED BY <1>4, <4>1 DEF IInv, TypeOK, RowOnly, SucceededIsReal
    <3>3. s \notin Local => id \in UploadIds
      BY <2>3 DEF Promise!Proofs, Promise!UploadsOf
    <3> QED BY <3>1, <3>2, <3>3
  <2>5. ASSUME NEW r \in Releases, (r \in Local) = (s \in Local) PROVE RecordedId(r) # id
    <3>1. CASE r = s
      BY <2>1, <2>4, <3>1
    <3>2. CASE r # s
      <4>1. rel[r].remoteId # id
        BY <2>2, <2>4, <2>5, <3>2 DEF IdFree
      <4> QED BY <2>4, <4>1 DEF RecordedId
    <3> QED BY <3>1, <3>2
  <2> QED BY <2>1, <2>3, <2>5
<1> QED BY <1>2, <1>3, <1>4

LEMMA PromiseInit == Init => Promise!Init
<1> SUFFICES ASSUME Init PROVE Promise!Init
  OBVIOUS
<1>1. \A s \in Releases : Charge(s) = 0 /\ rel[s].artifact = NoArtifact /\ rel[s].status = "none"
  BY DEF Init, NoRow, Charge
<1> QED BY <1>1 DEF Init, Promise!Init, NoUpload, Promise!NoUpload

(* A step of the calls is a step of the publication, or a stutter.          *)
LEMMA StepImplements == IInv /\ [Next]_vars => [Promise!Next]_(Promise!publicationVars)
<1> SUFFICES ASSUME IInv, [Next]_vars PROVE [Promise!Next]_(Promise!publicationVars)
  OBVIOUS
<1> USE DEF Promise!publicationVars
<1>0. /\ rel \in [Releases -> Rows] /\ retried \in [Releases -> Nat]
      /\ uploads \in [UploadIds -> [release: Releases \cup {NoRelease}, status: UploadStatuses]]
      /\ \A c \in Calls : ~At(c, "idle") => calls[c].release \in Releases
  BY DEF IInv, TypeOK
<1>1. CASE UNCHANGED <<rel, uploads, retried>>
  BY <1>1 DEF Charge
<1>2. ASSUME NEW s \in Releases, RowOnly(s) PROVE [Promise!Next]_(Promise!publicationVars)
  <2>1. Asked' = Asked /\ Published' = Published /\ uploads' = uploads
    <3>1. ASSUME NEW r \in Releases PROVE Charge(r)' = Charge(r) /\ rel'[r].artifact = rel[r].artifact
      BY <1>0, <1>2 DEF RowOnly, Charge
    <3> QED BY <1>2, <3>1 DEF Asked, Published, RowOnly
  <2>2. Recorded' = [Recorded EXCEPT ![s] = RecordedId(s)']
    <3>1. ASSUME NEW r \in Releases, r # s PROVE RecordedId(r)' = RecordedId(r)
      BY <1>0, <1>2, <3>1 DEF RowOnly, RecordedId
    <3> QED BY <3>1 DEF Recorded
  <2>3. CASE RecordedId(s)' = RecordedId(s)
    <3>1. Recorded' = Recorded
      BY <2>2, <2>3 DEF Recorded
    <3> QED BY <2>1, <3>1 DEF Asked, Published, Recorded, RecordedId
  <2>4. CASE /\ RecordedId(s) = NoId
             /\ RecordedId(s)' \in Promise!Proofs(s)
             /\ \A r \in Releases : (r \in Local) = (s \in Local) => RecordedId(r) # RecordedId(s)'
    <3>1. Asked[s] > 0
      BY <1>0, <1>2 DEF RowOnly, Asked, Charge
    <3>2. Promise!Record(s)
      BY <2>1, <2>2, <2>4, <3>1 DEF Promise!Record, Asked, Published, Recorded, RecordedId
    <3> QED BY <3>2 DEF Promise!Next
  <2> QED BY <1>2, <2>3, <2>4, RowRecords
<1>3. ASSUME NEW c \in Calls, NEW s \in Releases, NEW a \in Artifacts, PublishPack(c, s, a)
      PROVE  [Promise!Next]_(Promise!publicationVars)
  <2>1. /\ rel[s].status = "none" /\ uploads' = uploads /\ retried' = retried
        /\ rel' = [rel EXCEPT ![s] = [status |-> "pending", remoteId |-> NoId, artifact |-> a]]
    BY <1>3 DEF PublishPack, OwnRow
  <2>2. retried[s] = 0
    BY <2>1 DEF IInv, RetriedHasRow
  <2>3. /\ Asked[s] = 0 /\ Asked' = [Asked EXCEPT ![s] = 1]
        /\ Published' = [Published EXCEPT ![s] = a]
        /\ Recorded' = Recorded
    <3>1. /\ rel'[s].status = "pending" /\ rel'[s].artifact = a
          /\ \A r \in Releases \ {s} : rel'[r] = rel[r]
      BY <1>0, <2>1
    <3>2. Charge(s) = 0 /\ Charge(s)' = 1 /\ \A r \in Releases \ {s} : Charge(r)' = Charge(r)
      BY <2>1, <2>2, <3>1 DEF Charge
    <3>3. \A r \in Releases : RecordedId(r)' = RecordedId(r)
      BY <2>1, <3>1 DEF RecordedId
    <3> QED BY <3>1, <3>2, <3>3 DEF Asked, Published, Recorded
  <2>4. Promise!Ask(s)
    BY <2>1, <2>3 DEF Promise!Ask, Asked, Published, Recorded, RecordedId
  <2> QED BY <2>4 DEF Promise!Next
<1>4. ASSUME NEW c \in Calls, NEW s \in Releases, RetryPublish(c, s)
      PROVE  [Promise!Next]_(Promise!publicationVars)
  <2>1. /\ rel[s].status = "failed" /\ UNCHANGED <<rel, uploads>>
        /\ retried' = [retried EXCEPT ![s] = @ + 1]
    BY <1>4 DEF RetryPublish
  <2>2. /\ Asked[s] > 0 /\ Asked' = [Asked EXCEPT ![s] = Asked[s] + 1]
        /\ Published' = Published /\ Recorded' = Recorded /\ Recorded[s] = NoId
    <3>1. /\ Charge(s) > 0 /\ Charge(s)' = Charge(s) + 1
          /\ \A r \in Releases \ {s} : Charge(r)' = Charge(r)
      BY <1>0, <2>1 DEF Charge
    <3> QED BY <2>1, <3>1 DEF Asked, Published, Recorded, RecordedId
  <2>3. Promise!AskAgain(s)
    BY <2>1, <2>2 DEF Promise!AskAgain, Asked, Published, Recorded, RecordedId
  <2> QED BY <2>3 DEF Promise!Next
<1>5. ASSUME NEW c \in Calls, NEW i \in UploadIds, NEW status \in {"publishing", "succeeded", "failed"},
             Upload(c, i, status)
      PROVE  [Promise!Next]_(Promise!publicationVars)
  <2> DEFINE s == calls[c].release
  <2>1. /\ s \in Releases \ Local /\ c \in Heading(s)
        /\ uploads[i] = NoUpload /\ UNCHANGED <<rel, retried>>
        /\ uploads' = [uploads EXCEPT ![i] = [release |-> s, status |-> status]]
    BY <1>0, <1>5 DEF Upload, At, Heading, IInv, Provenance, CallSound
  <2>2. Cardinality(UploadsOf(s)) < Charge(s)
    <3>1. Cardinality(UploadsOf(s)) + Cardinality(Heading(s)) <= Charge(s)
      BY <2>1 DEF IInv, Charged
    <3>2. /\ Cardinality(UploadsOf(s)) \in Nat /\ Cardinality(Heading(s)) \in Nat
          /\ Cardinality(Heading(s)) # 0
      BY <2>1, Sizes, FS_CardinalityType, FS_EmptySet
    <3>3. Charge(s) \in Nat
      BY <1>0, <2>1 DEF Charge
    <3> QED BY <3>1, <3>2, <3>3
  <2>3. Asked' = Asked /\ Published' = Published /\ Recorded' = Recorded /\ Asked[s] = Charge(s)
    BY <2>1 DEF Asked, Published, Recorded, Charge, RecordedId
  <2>4. Promise!UploadsOf(s) = UploadsOf(s) /\ Promise!NoUpload = NoUpload
    BY DEF UploadsOf, Promise!UploadsOf, NoUpload, Promise!NoUpload
  <2>5. Promise!Cardinality(Promise!UploadsOf(s)) = Cardinality(UploadsOf(s))
    BY <2>4 DEF Cardinality, Promise!Cardinality
  <2> HIDE DEF s
  <2>6. Promise!Deliver(s)
    BY <2>1, <2>2, <2>3, <2>4, <2>5 DEF Promise!Deliver, Asked, Published, Recorded, RecordedId
  <2> QED BY <2>1, <2>6 DEF Promise!Next
<1>6. ASSUME NEW i \in UploadIds, NEW status \in {"succeeded", "failed"}, Settle(i, status)
      PROVE  [Promise!Next]_(Promise!publicationVars)
  <2>1. UNCHANGED <<rel, retried>>
    BY <1>6 DEF Settle
  <2>2. Asked' = Asked /\ Published' = Published /\ Recorded' = Recorded
    BY <2>1 DEF Asked, Published, Recorded, Charge, RecordedId
  <2>3. Promise!Settle(i)
    BY <1>6, <2>2 DEF Settle, Promise!Settle, Asked, Published, Recorded, RecordedId
  <2> QED BY <2>3 DEF Promise!Next
<1>7. PromiseStep
  BY EveryStep DEF IInv
<1> QED BY <1>1, <1>2, <1>3, <1>4, <1>5, <1>6, <1>7 DEF PromiseStep

(* Whatever calls overlap, get lost or are repeated, the provider, the rows *)
(* and those who ask see the publication of Publication.                   *)
THEOREM KeepsPromise == Spec => ImplementsPublication
BY PromiseInit, StepImplements, Invariance, PTL DEF Spec, ImplementsPublication, Promise!Spec
=============================================================================
