------------------------------ MODULE MCResolve ------------------------------
(* Three provider mods and two clashes, each cured by the third mod; jei   *)
(* needs jade.  View leaves out what no request reads here (revisions,     *)
(* generations, builds), and the difference between                        *)
(*   - pending and installed, with or without a selection: a row that may  *)
(*     take the one status may take the other, or has it already;          *)
(*   - disabled and installed for a local mod: it takes part in no clash;  *)
(*   - an answer and an error, a pending conflict and a resolved one.      *)
EXTENDS Resolve, TLC

CONSTANTS jei, jade, cure

MCIssues == {[a |-> jei, b |-> jade, fix |-> cure], [a |-> jade, b |-> cure, fix |-> jei]}
MCNeeds == {<<jei, jade>>}

Symmetry == Permutations(Requests) \cup Permutations(GameVersions)

Seen(r) == IF r.status = "pending" THEN "installed" ELSE r.status
SeenLocal(r) == IF r.status = "disabled" THEN "installed" ELSE Seen(r)
SeenReq(r) == [r EXCEPT !.op = IF @ \in Answers THEN "idle" ELSE @,
                        !.copy = IF r.mod \in LocalMods THEN SeenLocal(@) ELSE Seen(@)]
View == <<pack, [m \in Mods |-> Seen(row[m])], [m \in LocalMods |-> SeenLocal(row[m])],
          [c \in Conflicts |-> IF conflict[c] = "resolved" THEN "pending" ELSE conflict[c]],
          {l.found : l \in lock},
          [q \in Requests |-> <<SeenReq(req[q]), view[q].mods, view[q].clash>>]>>
=============================================================================
