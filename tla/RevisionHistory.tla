--------------------------- MODULE RevisionHistory ---------------------------
(***************************************************************************)
(* What the revisions of documents and of a quest book promise to their    *)
(* authors, without requests, checks, states of rows or rollbacks that     *)
(* read first: a history that only grows, in which every revision knows    *)
(* all before it or is a copy of one of them, and an active revision that  *)
(* is replaced by one that never was active before.                        *)
(***************************************************************************)
EXTENDS Naturals, Sequences

CONSTANTS
  Ledgers,
  Documents,  \* the ledgers in which an older revision may be copied unseen
  Contents    \* Contents[l]: what a revision of l may hold

VARIABLES
  history,    \* history[l]: its revisions, number n at position n
  active,     \* active[l]: number of the active revision, 0 if none
  used        \* used[l]: numbers of the revisions that are or were active

historyVars == <<history, active, used>>

Entry(content, source, basis) == [content |-> content, source |-> source, basis |-> basis]

Init ==
  /\ history = [l \in Ledgers |-> <<>>]
  /\ active = [l \in Ledgers |-> 0]
  /\ used = [l \in Ledgers |-> {}]

Add(l, entry) ==
  /\ history' = [history EXCEPT ![l] = Append(@, entry)]
  /\ UNCHANGED <<active, used>>

(* Its author knows of every revision there is.                            *)
Write(l) == \E content \in Contents[l] : Add(l, Entry(content, 0, Len(history[l])))

Copy(l) ==
  /\ l \in Documents
  /\ \E n \in DOMAIN history[l] : Add(l, Entry(history[l][n].content, n, 0))

Activate(l) ==
  /\ \E n \in DOMAIN history[l] \ used[l] :
       /\ active' = [active EXCEPT ![l] = n]
       /\ used' = [used EXCEPT ![l] = @ \cup {n}]
  /\ UNCHANGED history

Next == \E l \in Ledgers : Write(l) \/ Copy(l) \/ Activate(l)

Spec == Init /\ [][Next]_historyVars
=============================================================================
