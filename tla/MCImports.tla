------------------------------ MODULE MCImports -----------------------------
(* Archives that all declare the same name.                                *)
EXTENDS Imports, TLC
CONSTANT DeclaredName
MCName == [p \in Previews |-> DeclaredName]
Symmetry == Permutations(Keys) \cup Permutations(Clients) \cup Permutations(Archives)
=============================================================================
