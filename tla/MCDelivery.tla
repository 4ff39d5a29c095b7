----------------------------- MODULE MCDelivery -----------------------------
(* One version of a pack whose name is its own, or versions of two packs   *)
(* with the name that every new pack's first version has.                  *)
EXTENDS Delivery, TLC
OwnName == [v \in PackVersions |-> v]
FirstName == [v \in PackVersions |-> "0.1.0"]
Symmetry == Permutations(Snapshots) \cup Permutations(FileSets) \cup Permutations(Dirs)
              \cup Permutations(Builders) \cup Permutations(Kinds)
=============================================================================
