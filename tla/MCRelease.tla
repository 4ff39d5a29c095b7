------------------------------ MODULE MCRelease ------------------------------
(* Instances of Release for TLC. *)
EXTENDS Release, TLC

CONSTANTS c1, c2, c3

(* Calls differ only in their names, and so do the local releases. *)
NameSymmetry == Permutations(Calls) \cup Permutations(Local)

(* Later attempts matter where late answers of earlier ones can arrive.     *)
MCMaxRetries == [s \in Releases |-> IF s \in Local THEN 1 ELSE 2]

=============================================================================
