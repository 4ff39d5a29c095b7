----------------------------- MODULE MCRevisions -----------------------------
(***************************************************************************)
(* Instances of Revisions, and every quest draft of three nodes put to the *)
(* checks of RevisionRules.                                                *)
(***************************************************************************)
EXTENDS Revisions, QuestChecks, TLC

CONSTANTS c1, c2, dig, hut, book, mod, here, there, Probing

Symmetry == Permutations({c1, c2})

MCKindOf == [d \in Docs |-> IF d = dig THEN "ore" ELSE "structure"]

OreFields == {"schema_version", "dimension", "block", "min_y", "max_y"}
Ore(fields, minY) ==
  [object |-> TRUE, bounded |-> TRUE, fields |-> fields, schema |-> 1, minY |-> minY, maxY |-> 8]
MCPayloads ==
  {Ore(OreFields, 4), Ore(OreFields, 9), Ore(OreFields \cup {"file"}, 4)}

Node(id, position, refs) ==
  [id |-> id, chapter |-> "ch", position |-> position, requirement |-> NoId, minRequired |-> 0,
   rewards |-> {[kind |-> "item", text |-> 4, amount |-> 1]}, modRefs |-> refs]
Edge(id, from, to) == [id |-> id, from |-> from, to |-> to]
Quest(nodes, edges) ==
  [chapters |-> <<[id |-> "ch", position |-> 0]>>, nodes |-> nodes, edges |-> edges]

Chain == Quest(<<Node("a", 0, {}), Node("b", 1, {mod})>>, <<Edge("ab", "a", "b")>>)
Loop == Quest(Chain.nodes, <<Edge("ab", "a", "b"), Edge("ba", "b", "a")>>)
Twice == Quest(Chain.nodes, <<Edge("ab", "a", "b"), Edge("ab2", "a", "b")>>)
MCDrafts == {Chain, Loop, Twice}

-----------------------------------------------------------------------------
(* A draft put to validateQuest, from the initial state and with no way on. *)

Ends == {"a", "b", "c", "x"}
Pairs == {"a", "b", "c"} \X Ends
EdgeSets == {E \in SUBSET Pairs : Cardinality(E) <= 4}
AsSequence(E) ==
  LET order == CHOOSE f \in [1..Cardinality(E) -> E] : \A i, j \in DOMAIN f : f[i] = f[j] => i = j
  IN [i \in DOMAIN order |-> Edge(i, order[i][1], order[i][2])]
MCProbes == {Quest(<<Node("a", 0, {}), Node("b", 1, {}), Node("c", 2, {})>>, AsSequence(E)) : E \in EdgeSets}

MCInit == Init /\ ProbeInit
MCProbe ==
  /\ Probing
  /\ \A l \in Ledgers : rev[l] = <<>>
  /\ \A c \in Clients : calls[c] = Idle
  /\ owners = [m \in Refs |-> {}]
  /\ Probe
  /\ UNCHANGED vars
MCNext == MCProbe \/ (probe = NoId /\ Next /\ UNCHANGED probe)
MCSpec == MCInit /\ [][MCNext]_<<vars, probe>>
=============================================================================
