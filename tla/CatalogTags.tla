----------------------------- MODULE CatalogTags -----------------------------
(***************************************************************************)
(* How the item catalog makes one table of the definitions it finds in the *)
(* game and mod archives: catalogBuilder in service/item_catalog.go.  The  *)
(* archives are read one resource after another; finish then visits every  *)
(* tag, depth first in key order, remembers what it is done with, and cuts *)
(* cycles.  The definitions at the end say what the table should be,       *)
(* whatever the order of the visits.  The algorithm is the same for the    *)
(* registry of items and that of blocks; one of them is modelled, without  *)
(* names, languages and sources.                                           *)
(***************************************************************************)
EXTENDS Integers, FiniteSets, SequencesExt

CONSTANTS
  Items,
  LastTag,       \* tags are numbered in the order of their keys
  BadID,         \* what stands for an identifier that is none
  Definitions,   \* Definitions[n]: what a file of size n may say of a tag
  MaxDepth,      \* how deep tags may be nested: 128
  MaxSize        \* bound: the size of all definitions together

Tags == 1..LastTag

(* An entry names an item or all members of a tag; one that is not required *)
(* may name a tag that is not there.  What is unreadable or has conditions  *)
(* is not expanded.                                                        *)
Entries == [target : Items \cup Tags \cup {BadID}, required : BOOLEAN]

DefinitionType ==
  [form : {"plain", "conditional", "unreadable"}, replace : BOOLEAN,
   values : Seq(Entries), removals : Seq(Entries)]

ASSUME TagAssumptions ==
  /\ LastTag \in Nat /\ MaxDepth \in Nat /\ MaxSize \in Nat
  /\ BadID \notin Items \cup Tags /\ Items \cap Tags = {}
  /\ \A n \in 1..MaxSize : \A d \in Definitions[n] : d \in DefinitionType

VARIABLES
  defs,       \* defs[t]: the definitions of tag t, in the order they were found
  item,       \* item[i]: what says that item i exists
  edges,      \* edges[t]: the entries of t that count, once all is read
  todo,       \* the tag finish visits next, 0 while resources are read
  stack,      \* the visits under way: tag, next edge, members so far
  mark,       \* mark[t]: not visited, being visited, done
  status,     \* status[t]: how far t could be resolved
  members,    \* members[t]: the items t has
  tooDeep     \* history: a visit was refused for its depth

inputs == <<defs, item>>
visits == <<edges, todo, stack, mark, status, members, tooDeep>>
tagVars == <<inputs, visits>>

Reading == todo = 0
Finished == todo > LastTag /\ stack = <<>>

(* A definition counts once for each of its entries, and once at least.    *)
Weight(d) == Max({1, Len(d.values) + Len(d.removals)})
Size == FoldLeft(LAMBDA n, ds : n + FoldLeft(LAMBDA m, d : m + Weight(d), 0, ds), 0, defs)

-----------------------------------------------------------------------------
(* The edges of a tag: the entries of its plain definitions, values before *)
(* removals.  What replaces forgets the edges found before.                *)

EdgeType == [target : Items \cup Tags \cup {BadID}, required : BOOLEAN, remove : BOOLEAN]
Edge(e, remove) == [target |-> e.target, required |-> e.required, remove |-> remove]

Read(d) ==
  [i \in 1..(Len(d.values) + Len(d.removals)) |->
     IF i <= Len(d.values) THEN Edge(d.values[i], FALSE)
     ELSE Edge(d.removals[i - Len(d.values)], TRUE)]

Edges(ds) ==
  LET found[n \in 0..Len(ds)] ==
        IF n = 0 THEN <<>>
        ELSE IF ds[n].form # "plain" THEN found[n - 1]
        ELSE IF ds[n].replace THEN Read(ds[n])
        ELSE found[n - 1] \o Read(ds[n])
  IN found[Len(ds)]

(* The status before any tag is visited.  Definitions of several sources   *)
(* that replace or remove are resolved in an order that need not be the    *)
(* one the game loads them in.                                             *)
OwnStatus(ds) ==
  LET plain == {d \in ToSet(ds) : d.form = "plain"} IN
  IF ds = <<>> THEN "missing"
  ELSE IF \/ \E d \in ToSet(ds) : d.form = "unreadable"
          \/ \E d \in plain : \E e \in ToSet(Read(d)) : e.target = BadID
       THEN "invalid"
  ELSE IF \/ \E d \in ToSet(ds) : d.form = "conditional"
          \/ Len(ds) > 1 /\ \E d \in plain : d.replace \/ d.removals # <<>>
       THEN "partial"
  ELSE "resolved"

-----------------------------------------------------------------------------
(* Resources. *)

Known == {i \in Items : item[i] # "absent"}

(* Mutant: an item exists only if it has a model.                          *)
ReferredModels(is) == item

Referred(is) == [i \in Items |-> IF i \in is /\ item[i] = "absent" THEN "reference" ELSE item[i]]

(* A model says more of an item than a reference, whichever is read first. *)
AddModel(i) ==
  /\ Reading
  /\ item' = [item EXCEPT ![i] = "model"]
  /\ UNCHANGED <<defs, visits>>

(* What a plain definition adds exists (finish, after all was read).       *)
AddDefinition(t, d) ==
  /\ Reading
  /\ defs' = [defs EXCEPT ![t] = Append(@, d)]
  /\ item' = IF d.form = "plain" THEN Referred({e.target : e \in ToSet(d.values)}) ELSE item
  /\ UNCHANGED visits

(* The items that a recipe names exist; so do the tags it names, as all do *)
(* here, missing until they are defined.                                   *)
AddRecipe(is) ==
  /\ Reading
  /\ item' = Referred(is)
  /\ UNCHANGED <<defs, visits>>

-----------------------------------------------------------------------------
(* finish: the visits. *)

BeginFinish ==
  /\ Reading
  /\ todo' = 1
  /\ edges' = [t \in Tags |-> Edges(defs[t])]
  /\ status' = [t \in Tags |-> OwnStatus(defs[t])]
  /\ UNCHANGED <<inputs, stack, mark, members, tooDeep>>

Frame(t) == [tag |-> t, next |-> 1, got |-> {}]
Top == stack[Len(stack)]
NextEdge == edges[Top.tag][Top.next]
MoreEdges == stack # <<>> /\ Top.next \in DOMAIN edges[Top.tag]

Enter(t) ==
  /\ stack' = Append(stack, Frame(t))
  /\ mark' = [mark EXCEPT ![t] = "open"]

(* The loop over the keys.                                                 *)
VisitKey ==
  /\ todo \in Tags /\ stack = <<>>
  /\ todo' = todo + 1
  /\ IF mark[todo] = "new" THEN Enter(todo) ELSE UNCHANGED <<stack, mark>>
  /\ UNCHANGED <<inputs, edges, status, members, tooDeep>>

(* The edge has yielded out; the next one is followed.                     *)
Collect(out) ==
  stack' = [stack EXCEPT ![Len(stack)] =
              [tag |-> Top.tag, next |-> Top.next + 1,
               got |-> IF NextEdge.remove THEN Top.got \ out ELSE Top.got \cup out]]

(* Mutant: what is not there is taken for an item.                         *)
NamedAnyway(target) == {target}

Named(target) == Known \cap {target}

(* An edge that names no identifier comes to nothing.                      *)
FollowItem ==
  /\ MoreEdges
  /\ NextEdge.target \notin Tags
  /\ Collect(Named(NextEdge.target))
  /\ UNCHANGED <<inputs, edges, todo, mark, status, members, tooDeep>>

Deep == Len(stack) > MaxDepth

VisitTag ==
  /\ MoreEdges
  /\ NextEdge.target \in Tags
  /\ ~Deep /\ mark[NextEdge.target] = "new"
  /\ Enter(NextEdge.target)
  /\ UNCHANGED <<inputs, edges, todo, status, members, tooDeep>>

Diagnosed(s) == IF s = "resolved" THEN "partial" ELSE s

(* Mutant: a required tag that is invalid only counts as not resolved.     *)
DiagnosedAfter(st, e) ==
  IF st[e.target] = "resolved" \/ ~e.required THEN st
  ELSE [st EXCEPT ![Top.tag] = Diagnosed(@)]

(* What a required tag lacks shows in the status of the tag that asks.     *)
StatusAfter(st, e) ==
  IF st[e.target] = "resolved" \/ ~e.required THEN st
  ELSE [st EXCEPT ![Top.tag] = IF st[e.target] = "invalid" THEN "invalid" ELSE Diagnosed(@)]

(* A tag that is being visited, or lies too deep, is cut and yields         *)
(* nothing; one that was visited yields its members, whether it was just    *)
(* left or long ago.                                                       *)
FollowTag ==
  LET e == NextEdge
      cut == Deep \/ mark[e.target] = "open"
  IN /\ MoreEdges
     /\ e.target \in Tags
     /\ cut \/ mark[e.target] = "done"
     /\ status' = StatusAfter(IF cut THEN [status EXCEPT ![e.target] = "invalid"] ELSE status, e)
     /\ Collect(IF cut THEN {} ELSE members[e.target])
     /\ tooDeep' = (tooDeep \/ Deep)
     /\ UNCHANGED <<inputs, edges, todo, mark, members>>

LeaveTag ==
  /\ stack # <<>> /\ ~MoreEdges
  /\ members' = [members EXCEPT ![Top.tag] = IF status[Top.tag] = "invalid" THEN {} ELSE Top.got]
  /\ mark' = [mark EXCEPT ![Top.tag] = "done"]
  /\ stack' = SubSeq(stack, 1, Len(stack) - 1)
  /\ UNCHANGED <<inputs, edges, todo, status, tooDeep>>

-----------------------------------------------------------------------------
TagInit ==
  /\ defs = [t \in Tags |-> <<>>]
  /\ item = [i \in Items |-> "absent"]
  /\ edges = [t \in Tags |-> <<>>]
  /\ todo = 0
  /\ stack = <<>>
  /\ mark = [t \in Tags |-> "new"]
  /\ status = [t \in Tags |-> "missing"]
  /\ members = [t \in Tags |-> {}]
  /\ tooDeep = FALSE

TagNext ==
  \/ \E i \in Items : AddModel(i)
  \/ \E is \in SUBSET Items : AddRecipe(is)
  \/ \E n \in 1..MaxSize :
       Size + n <= MaxSize /\ \E t \in Tags, d \in Definitions[n] : AddDefinition(t, d)
  \/ BeginFinish \/ VisitKey \/ FollowItem \/ VisitTag \/ FollowTag \/ LeaveTag

TagSpec == TagInit /\ [][TagNext]_tagVars

-----------------------------------------------------------------------------
(* What the table should be. *)

(* The tags that t asks for, and those it depends on through any of them.  *)
Asks(t) == {u \in Tags : \E e \in ToSet(edges[t]) : e.target = u}
Requires(t) == {u \in Tags : \E e \in ToSet(edges[t]) : e.target = u /\ e.required}
Below(t) ==
  {s \in Tags : \A Y \in SUBSET Tags : Asks(t) \subseteq Y /\ (\A u \in Y : Asks(u) \subseteq Y) => s \in Y}
Circular == {t \in Tags : t \in Below(t)}

(* Tags that cannot be trusted: each is broken itself or requires another   *)
(* of them, so that their requirements end in a broken tag or never end.    *)
OwnInvalid(t) == OwnStatus(defs[t]) = "invalid"
Doomed ==
  UNION {T \in SUBSET Tags : \A t \in T : OwnInvalid(t) \/ Requires(t) \cap T # {}}

(* The tags of S, and those that require one of them, directly or through   *)
(* others.                                                                 *)
RestOn(S) ==
  {t \in Tags : \A X \in SUBSET Tags :
     S \subseteq X /\ (\A s \in Tags : Requires(s) \cap X # {} => s \in X) => t \in X}

(* Tags whose edges lead to a cycle.                                       *)
Endless == UNION {T \in SUBSET Tags : \A t \in T : Asks(t) \cap T # {}}

(* An item is a member if an edge adds it that no later one takes back.     *)
Names(e, i) == IF e.target \in Tags THEN i \in members[e.target] ELSE i = e.target
GatheredBy(t, n) ==
  {i \in Items : \E k \in 1..n :
     /\ ~edges[t][k].remove /\ Names(edges[t][k], i)
     /\ \A j \in (k + 1)..n : Names(edges[t][j], i) => ~edges[t][j].remove}

(* Every variable has its type, and only items that exist are members.     *)
TagsTyped ==
  /\ defs \in [Tags -> Seq(DefinitionType)]
  /\ item \in [Items -> {"absent", "reference", "model"}]
  /\ edges \in [Tags -> Seq(EdgeType)]
  /\ todo \in 0..(LastTag + 1)
  /\ stack \in Seq([tag : Tags, next : Nat \ {0}, got : SUBSET Known])
  /\ mark \in [Tags -> {"new", "open", "done"}]
  /\ status \in [Tags -> {"missing", "partial", "invalid", "resolved"}]
  /\ members \in [Tags -> SUBSET Known]
  /\ tooDeep \in BOOLEAN

(* The status tells what can be relied on, in whatever order tags were     *)
(* visited: a tag that depends, through required entries, on a broken tag  *)
(* or on itself is invalid and has no members; an invalid tag has such a   *)
(* reason, or lies on a cycle; and a tag that is resolved requires only    *)
(* resolved tags.                                                          *)
StatusTellsTrust ==
  Finished /\ ~tooDeep =>
    /\ \A t \in Doomed : status[t] = "invalid" /\ members[t] = {}
    /\ {t \in Tags : status[t] = "invalid"} \subseteq RestOn(Circular \cup {t \in Tags : OwnInvalid(t)})
    /\ \A t \in Tags : status[t] = "resolved" => \A u \in Requires(t) : status[u] = "resolved"

(* Where no cycle is below, the members are what the definitions say,      *)
(* whatever was visited before and remembered (visit, the state of a tag). *)
MembersAsDefined ==
  Finished /\ ~tooDeep =>
    \A t \in Tags \ Endless :
      members[t] = IF status[t] = "invalid" THEN {} ELSE GatheredBy(t, Len(edges[t]))
=============================================================================
