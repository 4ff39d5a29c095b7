----------------------------- MODULE QuestChecks -----------------------------
(***************************************************************************)
(* Quest drafts put to validateQuest, and what an accepted draft promises: *)
(* its quests can be done.  The checks are the operators of RevisionRules; *)
(* here is the definition they are measured against.                       *)
(***************************************************************************)
EXTENDS RevisionRules

CONSTANT Probes   \* the drafts put to the checks

ASSUME ProbesAssumption == \A d \in Probes : Finite(d)

(* The quests can be put in an order in which each comes after all its      *)
(* prerequisites.                                                          *)
Completable(d) ==
  \E rank \in [Ids(d.nodes) -> 1..Cardinality(Ids(d.nodes))] :
    \A i \in Sound(d) : rank[d.edges[i].from] < rank[d.edges[i].to]

-----------------------------------------------------------------------------
VARIABLE probe   \* the draft that is being checked

ProbeInit == probe = NoId
Probe == probe = NoId /\ probe' \in Probes
ProbeSpec == ProbeInit /\ [][Probe]_probe

(* The quests of a draft whose edges pass validateQuest can be done one     *)
(* after the other, each after all its prerequisites, and a draft is told   *)
(* it has a cycle exactly if its quests cannot be (the queue of             *)
(* validateQuest against the definition of a topological order).            *)
AcceptedQuestsCompletable ==
  probe # NoId =>
    /\ Completable(probe) <=> "cycle" \notin EdgeIssues(probe)
    /\ ~Blocking(EdgeIssues(probe)) => Completable(probe) /\ Sound(probe) = DOMAIN probe.edges
=============================================================================
