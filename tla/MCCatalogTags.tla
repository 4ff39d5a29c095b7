---------------------------- MODULE MCCatalogTags ----------------------------
(* Three tags, one item, and definitions of size three: every cycle of     *)
(* three tags, and every diamond of two.  The depth of 128 is out of reach.*)
EXTENDS CatalogTags

(* Whether an entry for an item is required makes no difference.  What is   *)
(* broken has size one, and definitions of size two replace others, if any. *)
MCEntries(n) ==
  {e \in Entries : e.target \in Tags \/ (e.required /\ (n = 1 \/ e.target # BadID))}
Plain(n) ==
  UNION {[form : {"plain"}, replace : {FALSE, n = 2}, values : [1..k -> MCEntries(n)],
          removals : [1..(n - k) -> MCEntries(n)]] : k \in 0..n}
Unexpanded ==
  [form : {"conditional", "unreadable"}, replace : {FALSE}, values : {<<>>}, removals : {<<>>}]
MCDefinitions ==
  [n \in 1..MaxSize |-> IF n = 1 THEN Plain(0) \cup Plain(1) \cup Unexpanded ELSE Plain(n)]

(* Of an item visits use only whether it exists, and of the definitions    *)
(* only the edges and which tags are broken themselves.                    *)
TagView ==
  <<Known, visits, IF Reading THEN defs ELSE {t \in Tags : OwnInvalid(t)}>>
=============================================================================
