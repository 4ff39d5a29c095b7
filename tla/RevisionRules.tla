---------------------------- MODULE RevisionRules ----------------------------
(***************************************************************************)
(* What a content payload and a quest draft may hold: the checks           *)
(* canonicalContentPayload, validateContentSemantics and validateQuest of  *)
(* apps/server/internal/service/content.go, and the constraints the tables *)
(* add when a quest graph is stored.                                       *)
(*                                                                         *)
(* A payload is [kind, object, bounded, fields, schema, minY, maxY]: is it *)
(* one JSON object, is it within the limits of size and depth, which       *)
(* fields it has, and the numbers the rules look at.  A quest draft is     *)
(* [chapters, nodes, edges], three sequences of records.                   *)
(***************************************************************************)
EXTENDS Integers, FiniteSets, Sequences

CONSTANT NoId   \* the empty identifier

-----------------------------------------------------------------------------
(* Content documents. *)

ContentKinds == {"recipe", "structure", "ore"}

ContentFields ==
  [recipe    |-> {"schema_version", "type", "input", "output", "conditions", "metadata"},
   structure |-> {"schema_version", "file", "size", "rotation", "anchor", "parameters",
                  "preview", "metadata"},
   ore       |-> {"schema_version", "dimension", "block", "min_y", "max_y", "count",
                  "frequency", "distribution", "biomes", "metadata"}]

Required ==
  [recipe    |-> {"type", "input", "output"},
   structure |-> {"file", "size"},
   ore       |-> {"dimension", "block", "min_y", "max_y"}]

(* Mutant: fields nobody knows are kept.                                   *)
AnyObject(kind, p) == p.object /\ p.bounded

(* The sender's text is stored only as one bounded object of known fields. *)
Canonical(kind, p) == p.object /\ p.bounded /\ p.fields \subseteq ContentFields[kind]

(* Schema 0 stands for every value that is not a positive integer.         *)
ContentIssues(kind, p) ==
  (IF "schema_version" \in p.fields /\ p.schema > 0 THEN {} ELSE {"schema_version_required"})
  \cup (IF Required[kind] \subseteq p.fields THEN {} ELSE {"field_required"})
  \cup (IF kind = "ore" /\ {"min_y", "max_y"} \subseteq p.fields /\ p.minY > p.maxY
        THEN {"ore_range_invalid"} ELSE {})

-----------------------------------------------------------------------------
(* Quest drafts. *)

(* Nodes and edges come as sequences: slices in the code.                  *)
Finite(d) == IsFiniteSet(DOMAIN d.nodes) /\ IsFiniteSet(DOMAIN d.edges)

Repeats(s, Key(_)) == \E i, j \in DOMAIN s : i < j /\ Key(s[i]) = Key(s[j])
Some(s, P(_)) == \E i \in DOMAIN s : P(s[i])
Ids(s) == {s[i].id : i \in DOMAIN s}
When(condition, code) == IF condition THEN {code} ELSE {}

ById(x) == x.id
ByPosition(x) == x.position
ByEnds(e) == <<e.from, e.to>>

Requirements == {NoId, "all_completed", "one_completed", "all_started", "one_started"}

(* A reward of each kind has its own field and limit; amounts are numbers,  *)
(* texts are modelled by their length.                                      *)
ValidReward(r) ==
  \/ r.kind = "item" /\ r.text > 0 /\ r.amount \in 1..100000
  \/ r.kind = "experience" /\ r.amount \in 1..1000000
  \/ r.kind = "command" /\ r.text \in 1..2048
  \/ r.kind = "unlock" /\ r.text \in 1..256

ChapterIssues(d) ==
  When(Repeats(d.chapters, ById) \/ NoId \in Ids(d.chapters), "duplicate_id")
  \cup When(Repeats(d.chapters, ByPosition), "duplicate_position")
  \cup When(Some(d.chapters, LAMBDA c : c.position < 0), "invalid_position")

(* owner[m] is the pack PackIDForModReference names for reference m.        *)
NodeIssues(d, pack, owner) ==
  When(Repeats(d.nodes, ById) \/ NoId \in Ids(d.nodes), "duplicate_id")
  \cup When(Some(d.nodes, LAMBDA n : n.chapter \notin Ids(d.chapters)), "missing_chapter")
  \cup When(Repeats(d.nodes, LAMBDA n : <<n.chapter, n.position>>), "duplicate_position")
  \cup When(Some(d.nodes, LAMBDA n : n.requirement \notin Requirements),
            "invalid_dependency_requirement")
  \cup When(Some(d.nodes, LAMBDA n : n.minRequired < 0), "invalid_min_required_dependencies")
  \cup When(Some(d.nodes, LAMBDA n : \E r \in n.rewards : ~ValidReward(r)), "invalid_reward")
  \cup When(Some(d.nodes, LAMBDA n : \E m \in n.modRefs : owner[m] \notin {NoId, pack}),
            "cross_pack_reference")
  \cup When(Some(d.nodes, LAMBDA n : \E m \in n.modRefs : owner[m] = NoId),
            "missing_mod_reference")

(* Edges that leave the draft or return to their node are reported and not *)
(* followed; an edge that is repeated is reported and counts twice.        *)
Sound(d) == {i \in DOMAIN d.edges : /\ {d.edges[i].from, d.edges[i].to} \subseteq Ids(d.nodes)
                                    /\ d.edges[i].from # d.edges[i].to}

(* Edges into node n from the nodes that are still there.                  *)
InDegree(d, rest, n) ==
  Cardinality({i \in Sound(d) : d.edges[i].to = n /\ d.edges[i].from \in rest})

(* Mutant: a node is taken off while one of its prerequisites is open.     *)
OpenAlmost(d, rest) == {n \in rest : InDegree(d, rest, n) <= 1}

Open(d, rest) == {n \in rest : InDegree(d, rest, n) = 0}

(* The queue of validateQuest takes off one open node after the other, in   *)
(* the order of a Go map; what is left when none is open does not depend on *)
(* that order.                                                              *)
Unsorted(d) ==
  LET left[rest \in SUBSET Ids(d.nodes)] ==
        IF Open(d, rest) = {} THEN rest
        ELSE left[rest \ {CHOOSE n \in Open(d, rest) : TRUE}]
  IN left[Ids(d.nodes)]

EdgeIssues(d) ==
  When(Some(d.edges, LAMBDA e : ~({e.from, e.to} \subseteq Ids(d.nodes))), "missing_node")
  \cup When(Some(d.edges, LAMBDA e : e.from = e.to /\ e.from \in Ids(d.nodes)), "self_edge")
  \cup When(\E i, j \in Sound(d) : i < j /\ ByEnds(d.edges[i]) = ByEnds(d.edges[j]),
            "duplicate_edge")
  \cup When(Unsorted(d) # {}, "cycle")
  \cup When(/\ Cardinality(Ids(d.nodes)) > 1
            /\ \E n \in Ids(d.nodes) : \A i \in Sound(d) : n \notin {d.edges[i].from, d.edges[i].to},
            "orphan_node")

QuestIssues(d, pack, owner) == ChapterIssues(d) \cup NodeIssues(d, pack, owner) \cup EdgeIssues(d)

(* Every issue but an isolated node is an error.                           *)
Blocking(issues) == issues \ {"orphan_node"} # {}

(* SaveQuestDraft keeps a draft that cannot be applied yet, but not one it *)
(* could not store ...                                                     *)
Unsavable == {"duplicate_id", "duplicate_position", "missing_chapter", "missing_node",
              "self_edge", "invalid_reward", "invalid_dependency_requirement",
              "cross_pack_reference"}

(* ... and the tables refuse what else they cannot hold: negative          *)
(* positions, two edges of one id or between the same nodes.               *)
Storable(d) ==
  /\ ~Some(d.chapters, LAMBDA c : c.position < 0)
  /\ ~Some(d.nodes, LAMBDA n : n.position < 0)
  /\ ~Repeats(d.edges, ById)
  /\ ~Repeats(d.edges, ByEnds)
=============================================================================
