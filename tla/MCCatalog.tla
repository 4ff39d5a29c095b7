------------------------------ MODULE MCCatalog ------------------------------
(* One provider mod with two versions, two versions of Minecraft.  Nothing *)
(* tells the versions of a mod, or of Minecraft, from each other, and a    *)
(* catalog or a snapshot whose sources have changed is never read again.   *)
EXTENDS Catalog, TLC
MCNoIssues == {}
Symmetry == Permutations(Versions) \cup Permutations(GameVersions)
View == <<pack, row, fresh, sameConfig, current, build, inits, req, run, content, parses,
          IF "built" \in fresh THEN catalog ELSE {},
          IF "worker" \in fresh THEN worker ELSE [worker EXCEPT !.parts = {}]>>
=============================================================================
