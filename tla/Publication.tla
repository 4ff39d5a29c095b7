----------------------------- MODULE Publication -----------------------------
(***************************************************************************)
(* What the publication of releases promises to those who ask for it,      *)
(* without calls, rows, polls or answers that get lost: the provider       *)
(* receives an artifact no more often than someone asked for it, nobody    *)
(* can ask for what is already recorded as published, and a release is     *)
(* recorded once and for all, with an upload of its own that succeeded.    *)
(***************************************************************************)
EXTENDS Naturals, FiniteSets

CONSTANTS
  Releases,
  Local,        \* the releases no provider takes part in
  Artifacts, NoArtifact,
  UploadIds,    \* names of the uploads a provider holds
  NoRelease,
  NoId          \* the id of a release that is not recorded as published

VARIABLES
  asked,     \* asked[s]: how often the publication of s was asked for
  artifact,  \* artifact[s]: what s publishes
  uploads,   \* uploads[i]: the release and status of upload i at the provider
  recorded   \* recorded[s]: the id under which s was published

publicationVars == <<asked, artifact, uploads, recorded>>

NoUpload == [release |-> NoRelease, status |-> "none"]
UploadsOf(s) == {i \in UploadIds : uploads[i].release = s}

Init ==
  /\ asked = [s \in Releases |-> 0]
  /\ artifact = [s \in Releases |-> NoArtifact]
  /\ uploads = [i \in UploadIds |-> NoUpload]
  /\ recorded = [s \in Releases |-> NoId]

Ask(s) ==
  /\ asked[s] = 0
  /\ asked' = [asked EXCEPT ![s] = 1]
  /\ \E a \in Artifacts : artifact' = [artifact EXCEPT ![s] = a]
  /\ UNCHANGED <<uploads, recorded>>

AskAgain(s) ==
  /\ asked[s] > 0
  /\ recorded[s] = NoId
  /\ asked' = [asked EXCEPT ![s] = @ + 1]
  /\ UNCHANGED <<artifact, uploads, recorded>>

Deliver(s) ==
  /\ s \notin Local
  /\ Cardinality(UploadsOf(s)) < asked[s]
  /\ \E i \in UploadIds, status \in {"publishing", "succeeded", "failed"} :
       /\ uploads[i] = NoUpload
       /\ uploads' = [uploads EXCEPT ![i] = [release |-> s, status |-> status]]
  /\ UNCHANGED <<asked, artifact, recorded>>

(* The provider finishes or rejects an upload in its own time.              *)
Settle(i) ==
  /\ uploads[i].status = "publishing"
  /\ \E status \in {"succeeded", "failed"} : uploads' = [uploads EXCEPT ![i].status = status]
  /\ UNCHANGED <<asked, artifact, recorded>>

Proofs(s) ==
  IF s \in Local THEN {artifact[s]}
  ELSE {i \in UploadsOf(s) : uploads[i].status = "succeeded"}

Record(s) ==
  /\ asked[s] > 0
  /\ recorded[s] = NoId
  /\ \E id \in Proofs(s) :
       /\ \A r \in Releases : (r \in Local) = (s \in Local) => recorded[r] # id
       /\ recorded' = [recorded EXCEPT ![s] = id]
  /\ UNCHANGED <<asked, artifact, uploads>>

Next ==
  \/ \E s \in Releases : Ask(s) \/ AskAgain(s) \/ Deliver(s) \/ Record(s)
  \/ \E i \in UploadIds : Settle(i)

Spec == Init /\ [][Next]_publicationVars
=============================================================================
