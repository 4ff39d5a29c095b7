--------------------------- MODULE DownloadProofs ----------------------------
(***************************************************************************)
(* Proofs about Download: every variable has its type; once every download *)
(* has reported success the files are whole, for items that share no path  *)
(* and for items that are one file of one source; and, for items that      *)
(* share no path, a download is given up only when each of its sources let *)
(* it down.  For items that share no path the invariant has three parts:   *)
(* which file a task writes to (the store), where the tasks of a call are  *)
(* when the call is at one of its steps (the course), and what a source    *)
(* that did its work has left behind (the cause).                          *)
(***************************************************************************)
EXTENDS Download, SequenceTheorems, TLAPS

Chunks == (Finals \X (1..Size)) \cup {Hole}
CallSteps == Returned \cup {"absent", "idle", "await", "drop", "rename", "verify", "discard"}
FetchSteps == Returned \cup {"off", "request", "open", "write"}
CallRecords == [step : CallSteps, mode : {"single", "race"}, attempt : 1..Attempts, source : 0..Sources]
FetchRecords == [step : FetchSteps, file : Files \cup {None}, append : BOOLEAN, next : 1..Size]

(* TypeOK, with the domain of data and the file of a task that writes.     *)
Typed ==
  /\ name \in [Paths -> Files \cup {None}]
  /\ data \in [Files -> Seq(Chunks)]
  /\ call \in [Calls -> CallRecords]
  /\ fetch \in [Tasks -> FetchRecords]
  /\ \A t \in Tasks : fetch[t].step = "write" => fetch[t].file \in Files
  /\ blamed \subseteq Calls \X (0..Sources)

LEMMA TasksAreTriples ==
  ASSUME NEW t \in Tasks
  PROVE  /\ t[1] \in Calls /\ t[2] \in 1..Attempts /\ t[3] \in 0..Sources
         /\ t = <<t[1], t[2], t[3]>>
BY DEF Tasks

LEMMA TriplesAreTasks ==
  ASSUME NEW c \in Calls, NEW n \in 1..Attempts, NEW s \in 0..Sources
  PROVE  <<c, n, s>> \in Tasks
BY DEF Tasks

LEMMA PathsOfCalls ==
  ASSUME NEW c \in Calls
  PROVE  /\ Dest[c] \in Paths /\ Dest[c] \in Finals
         /\ \A s \in 0..Sources : <<Stem[c], s>> \in Paths
BY DEF Paths, Finals, Partials

LEMMA PathsOfTasks ==
  ASSUME NEW t \in Tasks
  PROVE  From(t) \in Paths /\ Dest[t[1]] \in Finals
BY TasksAreTriples, PathsOfCalls DEF From

(* No name is mistaken for a task: pairs and triples differ.               *)
LEMMA PathsAreNoTasks == \A p \in Paths : p \notin Tasks /\ p # None
<1>1. \A c \in Calls, s \in 0..Sources : <<Stem[c], s>> \notin Tasks
  <2> SUFFICES ASSUME NEW c \in Calls, NEW s \in 0..Sources, NEW t \in Tasks, <<Stem[c], s>> = t
               PROVE  FALSE
    OBVIOUS
  <2>1. Len(<<Stem[c], s>>) = 2 /\ Len(<<t[1], t[2], t[3]>>) = 3
    OBVIOUS
  <2> QED BY <2>1, TasksAreTriples
<1> QED BY <1>1, FilesAssumption DEF Paths, Partials, Files

LEMMA FilesByKind == Tasks \subseteq Files /\ Paths \subseteq Files /\ None \notin Files
BY FilesAssumption DEF Files

LEMMA LengthIsNatural ==
  ASSUME Typed, NEW p \in Paths
  PROVE  Length(p) \in Nat
BY LenProperties DEF Length, Typed

-----------------------------------------------------------------------------
(* Types *)

LEMMA WrittenIsTyped ==
  ASSUME NEW old \in Seq(Chunks), NEW d \in Finals, NEW k \in 1..Size, NEW append \in BOOLEAN
  PROVE  Written(old, <<d, k>>, append) \in Seq(Chunks)
<1> DEFINE chunk == <<d, k>>
           top == IF Len(old) < chunk[2] THEN chunk[2] ELSE Len(old)
<1>1. chunk \in Chunks /\ chunk[2] = k /\ Hole \in Chunks
  BY DEF Chunks
<1>2. Len(old) \in Nat /\ k \in Nat /\ top \in Nat
  BY <1>1, DownloadAssumptions
<1>3. Append(old, chunk) \in Seq(Chunks)
  BY <1>1, AppendProperties
<1>4. \A i \in 1..top : (IF i = chunk[2] THEN chunk ELSE IF i <= Len(old) THEN old[i] ELSE Hole) \in Chunks
  BY <1>1, <1>2, ElementOfSeq
<1> HIDE DEF chunk, top
<1>5. [i \in 1..top |-> IF i = chunk[2] THEN chunk ELSE IF i <= Len(old) THEN old[i] ELSE Hole] \in Seq(Chunks)
  BY <1>2, <1>4, IsASeq
<1> USE DEF chunk, top
<1> QED BY <1>3, <1>5 DEF Written

LEMMA InitTyped == ASSUME Init PROVE Typed
BY DownloadAssumptions
   DEF Init, Typed, CallRecords, FetchRecords, CallSteps, FetchSteps, Returned, NoCall, Absent, NoFetch

LEMMA StepOfRecord ==
  ASSUME NEW f \in FetchRecords, NEW step \in FetchSteps
  PROVE  [f EXCEPT !.step = step] \in FetchRecords /\ [f EXCEPT !.step = step].step = step
BY DEF FetchRecords

LEMMA FreshRecords ==
  /\ NoFetch \in FetchRecords /\ NoFetch.step = "off"
  /\ Requested \in FetchRecords /\ Requested.step = "request"
  /\ [NoFetch EXCEPT !.step = "ok"] \in FetchRecords /\ [NoFetch EXCEPT !.step = "ok"].step = "ok"
<1>1. NoFetch \in FetchRecords /\ NoFetch.step = "off"
  BY DownloadAssumptions DEF NoFetch, FetchRecords, FetchSteps
<1> QED BY <1>1, StepOfRecord DEF Requested, FetchSteps, Returned

LEMMA BeginTyped ==
  ASSUME Typed, NEW c \in Calls, NEW mode \in {"single", "race"}, NEW n \in 1..Attempts, Begin(c, mode, n)
  PROVE  /\ call' \in [Calls -> CallRecords] /\ fetch' \in [Tasks -> FetchRecords]
         /\ \A t \in Tasks : fetch'[t].step = "write" => fetch'[t].file \in Files
<1>1. call' \in [Calls -> CallRecords]
  BY DownloadAssumptions DEF Begin, Typed, CallRecords, CallSteps
<1> QED BY <1>1, FreshRecords DEF Begin, Typed

LEMMA GoToTyped ==
  ASSUME Typed, NEW c \in Calls, NEW step \in CallSteps, GoTo(c, step)
  PROVE  call' \in [Calls -> CallRecords]
BY DEF GoTo, Typed, CallRecords

LEMMA AttemptOverTyped ==
  ASSUME Typed, NEW c \in Calls, AttemptOver(c)
  PROVE  /\ call' \in [Calls -> CallRecords] /\ fetch' \in [Tasks -> FetchRecords]
         /\ \A t \in Tasks : fetch'[t].step = "write" => fetch'[t].file \in Files
<1>1. CASE call[c].attempt < Attempts
  <2>1. call[c].mode \in {"single", "race"} /\ call[c].attempt + 1 \in 1..Attempts
    BY <1>1, DownloadAssumptions DEF Typed, CallRecords
  <2> QED BY <1>1, <2>1, BeginTyped DEF AttemptOver
<1>2. CASE ~(call[c].attempt < Attempts)
  <2>1. GoTo(c, "failed") /\ fetch' = fetch
    BY <1>2 DEF AttemptOver
  <2> QED BY <2>1, GoToTyped DEF Typed, CallSteps, Returned
<1> QED BY <1>1, <1>2

LEMMA NextSourceTyped ==
  ASSUME Typed, NEW c \in Calls, NextSource(c)
  PROVE  /\ call' \in [Calls -> CallRecords] /\ fetch' \in [Tasks -> FetchRecords]
         /\ \A t \in Tasks : fetch'[t].step = "write" => fetch'[t].file \in Files
<1>1. CASE call[c].source \in 1..(Sources - 1)
  <2>1. call' = [call EXCEPT ![c].step = "await", ![c].source = @ + 1] /\ fetch' = fetch
    BY <1>1 DEF NextSource
  <2>2. call[c].source + 1 \in 0..Sources
    BY <1>1, DownloadAssumptions
  <2> QED BY <2>1, <2>2 DEF Typed, CallRecords, CallSteps
<1>2. CASE call[c].source \notin 1..(Sources - 1)
  BY <1>2, AttemptOverTyped DEF NextSource
<1> QED BY <1>1, <1>2

LEMMA CallStepTyped ==
  ASSUME Typed, NEW c \in Calls, CallStep(c)
  PROVE  Typed'
<1> USE DEF CallSteps, Returned
<1>1. CASE DownloadFile(c)
  <2>1. call[c].mode \in {"single", "race"} /\ 1 \in 1..Attempts
    BY DownloadAssumptions DEF Typed, CallRecords
  <2>2. CASE name[Dest[c]] # None /\ (c \in Hashed => Matches(c, Dest[c]))
    BY <1>1, <2>2, GoToTyped DEF DownloadFile, Typed
  <2>3. CASE ~(name[Dest[c]] # None /\ (c \in Hashed => Matches(c, Dest[c])))
    <3>1. Begin(c, call[c].mode, 1) /\ UNCHANGED <<name, data>>
      BY <1>1, <2>3 DEF DownloadFile
    <3>2. blamed' \subseteq Calls \X (0..Sources)
      <4> DEFINE long == {r \in Raced(call[c].mode) : Length(<<Stem[c], r>>) >= Size}
      <4>1. long \subseteq 0..Sources
        <5> HIDE DEF Length
        <5> QED BY DownloadAssumptions DEF Raced
      <4>2. blamed' = blamed \cup {<<c, s>> : s \in long}
        BY <1>1, <2>3 DEF DownloadFile
      <4> HIDE DEF long
      <4> QED BY <4>1, <4>2 DEF Typed
    <3> QED BY <3>1, <3>2, <2>1, BeginTyped DEF Typed
  <2> QED BY <2>2, <2>3
<1>2. CASE AwaitSource(c)
  <2>1. CASE NextSource(c)
    BY <1>2, <2>1, NextSourceTyped DEF AwaitSource, Typed
  <2>2. CASE ~NextSource(c)
    <3>1. (GoTo(c, "drop") \/ GoTo(c, "rename")) /\ UNCHANGED <<name, data, fetch, blamed>>
      BY <1>2, <2>2 DEF AwaitSource
    <3> QED BY <3>1, GoToTyped DEF Typed
  <2> QED BY <2>1, <2>2
<1>3. CASE DropPartial(c)
  <2>1. name' \in [Paths -> Files \cup {None}]
    BY <1>3 DEF DropPartial, Typed
  <2> QED BY <1>3, <2>1, NextSourceTyped DEF DropPartial, Typed
<1>4. CASE Rename(c)
  <2>1. CASE name[Partial(c)] = None
    BY <1>4, <2>1, AttemptOverTyped DEF Rename, Typed
  <2>2. CASE name[Partial(c)] # None
    <3>1. Partial(c) \in Paths
      BY PathsOfCalls DEF Partial, Typed, CallRecords
    <3>2. name' \in [Paths -> Files \cup {None}]
      BY <1>4, <2>2, <3>1 DEF Rename, Typed
    <3> QED BY <1>4, <2>2, <3>2, GoToTyped DEF Rename, Typed
  <2> QED BY <2>1, <2>2
<1>5. CASE Verify(c)
  <2>1. GoTo(c, "ok") \/ GoTo(c, "failed") \/ GoTo(c, "discard")
    BY <1>5 DEF Verify
  <2> QED BY <1>5, <2>1, GoToTyped DEF Verify, Typed
<1>6. CASE Discard(c)
  <2>1. name' \in [Paths -> Files \cup {None}]
    BY <1>6 DEF Discard, Typed
  <2> QED BY <1>6, <2>1, AttemptOverTyped DEF Discard, Typed
<1> QED BY <1>1, <1>2, <1>3, <1>4, <1>5, <1>6 DEF CallStep

LEMMA BreakTyped ==
  ASSUME Typed, NEW t \in Tasks, Break(t)
  PROVE  /\ fetch' \in [Tasks -> FetchRecords]
         /\ \A u \in Tasks : fetch'[u].step = "write" => fetch'[u].file \in Files
         /\ blamed' \subseteq Calls \X (0..Sources)
<1>1. blamed' \subseteq Calls \X (0..Sources)
  BY TasksAreTriples DEF Break, Blame, Typed
<1>2. fetch' = [fetch EXCEPT ![t].step = "failed"] /\ "failed" \in FetchSteps
  BY DEF Break, FetchSteps, Returned
<1> QED BY <1>1, <1>2 DEF Typed, FetchRecords

LEMMA OpenedTyped ==
  ASSUME Typed, NEW t \in Tasks, NEW k \in 1..Size, Opened(t, k)
  PROVE  /\ fetch' \in [Tasks -> FetchRecords]
         /\ \A u \in Tasks : fetch'[u].step = "write" => fetch'[u].file \in Files
<1> DEFINE f == [step |-> "open", file |-> None, append |-> Length(From(t)) > 0, next |-> k]
<1>1. f \in FetchRecords /\ f.step = "open"
  BY DEF FetchRecords, FetchSteps
<1> HIDE DEF f
<1> QED BY <1>1 DEF Opened, Typed, f

LEMMA FetchStepTyped ==
  ASSUME Typed, NEW t \in Tasks, FetchStep(t)
  PROVE  Typed'
<1>1. CASE Request(t)
  <2>1. CASE Length(From(t)) >= Size /\ fetch' = [fetch EXCEPT ![t].step = "failed"] /\ UNCHANGED blamed
    BY <1>1, <2>1 DEF Request, Typed, FetchRecords, FetchSteps, Returned
  <2>2. CASE Length(From(t)) < Size /\ Opened(t, Length(From(t)) + 1) /\ UNCHANGED blamed
    <3>1. Length(From(t)) + 1 \in 1..Size
      BY <2>2, LengthIsNatural, PathsOfTasks, DownloadAssumptions
    <3> QED BY <1>1, <2>2, <3>1, OpenedTyped DEF Request, Typed
  <2>3. CASE Break(t)
    BY <1>1, <2>3, BreakTyped DEF Request, Typed
  <2>4. CASE Opened(t, 1) /\ Blame(t)
    <3>1. 1 \in 1..Size
      BY DownloadAssumptions
    <3>2. blamed' \subseteq Calls \X (0..Sources)
      BY <2>4, TasksAreTriples DEF Blame, Typed
    <3> QED BY <1>1, <2>4, <3>1, <3>2, OpenedTyped DEF Request, Typed
  <2>5. Length(From(t)) \in Nat /\ Size \in Nat
    BY LengthIsNatural, PathsOfTasks, DownloadAssumptions
  <2> QED BY <1>1, <2>1, <2>2, <2>3, <2>4, <2>5 DEF Request
<1>2. CASE Open(t)
  <2>1. From(t) \in Paths /\ name[From(t)] \in Files \cup {None} /\ t \in Files
    BY PathsOfTasks, FilesByKind DEF Typed
  <2>2. CASE fetch[t].append
    <3> DEFINE step == IF name[From(t)] = None THEN "failed" ELSE "write"
    <3>1. /\ fetch' = [fetch EXCEPT ![t].step = step, ![t].file = name[From(t)]]
          /\ UNCHANGED <<name, data, call, blamed>>
      BY <1>2, <2>2 DEF Open
    <3>2. step \in FetchSteps /\ (step = "write" => name[From(t)] \in Files)
      BY <2>1 DEF FetchSteps, Returned
    <3> HIDE DEF step
    <3>3. fetch' \in [Tasks -> FetchRecords]
          /\ \A u \in Tasks : fetch'[u].step = "write" => fetch'[u].file \in Files
      BY <2>1, <3>1, <3>2 DEF Typed, FetchRecords
    <3> QED BY <3>1, <3>3 DEF Typed
  <2>3. CASE ~fetch[t].append
    <3> DEFINE file == IF name[From(t)] = None THEN t ELSE name[From(t)]
    <3>1. file \in Files
      BY <2>1
    <3>2. fetch' = [fetch EXCEPT ![t].step = "write", ![t].file = file]
      BY <1>2, <2>3 DEF Open
    <3>3. name' \in [Paths -> Files \cup {None}] /\ data' \in [Files -> Seq(Chunks)]
      <4>1. name' = [name EXCEPT ![From(t)] = file] /\ data' = [data EXCEPT ![file] = <<>>]
        BY <1>2, <2>3 DEF Open
      <4>2. <<>> \in Seq(Chunks)
        OBVIOUS
      <4> HIDE DEF file
      <4> QED BY <2>1, <3>1, <4>1, <4>2 DEF Typed
    <3> HIDE DEF file
    <3>4. fetch' \in [Tasks -> FetchRecords]
          /\ \A u \in Tasks : fetch'[u].step = "write" => fetch'[u].file \in Files
      BY <3>1, <3>2 DEF Typed, FetchRecords, FetchSteps
    <3> QED BY <1>2, <3>3, <3>4 DEF Open, Typed
  <2> QED BY <2>2, <2>3
<1>3. CASE Receive(t)
  <2> DEFINE f == fetch[t]
  <2>1. f \in FetchRecords /\ f.file \in Files /\ Dest[t[1]] \in Finals
    BY <1>3, PathsOfTasks DEF Receive, Typed
  <2>2. CASE Break(t) /\ UNCHANGED data
    BY <1>3, <2>2, BreakTyped DEF Receive, Typed
  <2>3. CASE ~(Break(t) /\ UNCHANGED data)
    <3> DEFINE next == IF f.next = Size THEN [NoFetch EXCEPT !.step = "ok"] ELSE [f EXCEPT !.next = @ + 1]
    <3>1. /\ data' = [data EXCEPT ![f.file] = Written(@, <<Dest[t[1]], f.next>>, f.append)]
          /\ fetch' = [fetch EXCEPT ![t] = next]
          /\ UNCHANGED <<name, call, blamed>>
      BY <1>3, <2>3 DEF Receive
    <3>2. Written(data[f.file], <<Dest[t[1]], f.next>>, f.append) \in Seq(Chunks)
      BY <2>1, WrittenIsTyped DEF Typed, FetchRecords
    <3>3. data' \in [Files -> Seq(Chunks)]
      BY <2>1, <3>1, <3>2 DEF Typed
    <3>4. next \in FetchRecords /\ (next.step = "write" => next.file \in Files)
      <4>1. CASE f.next = Size
        BY <4>1, FreshRecords
      <4>2. CASE f.next # Size
        <5>1. f.next + 1 \in 1..Size
          BY <2>1, <4>2, DownloadAssumptions DEF FetchRecords
        <5> HIDE DEF f
        <5> QED BY <2>1, <4>2, <5>1 DEF FetchRecords
      <4> QED BY <4>1, <4>2
    <3> HIDE DEF next
    <3> QED BY <3>1, <3>3, <3>4 DEF Typed
  <2> QED BY <2>2, <2>3
<1> QED BY <1>1, <1>2, <1>3 DEF FetchStep

LEMMA StopTyped == ASSUME Typed, Stop PROVE Typed'
<1>1. \A c \in Calls : NoCall(call[c].mode) \in CallRecords
  BY DownloadAssumptions DEF NoCall, Typed, CallRecords, CallSteps
<1>2. NoFetch \in FetchRecords /\ NoFetch.step # "write"
  BY FreshRecords
<1>3. <<>> \in Seq(Chunks) /\ Paths \subseteq Files
  BY FilesByKind
<1>4. \A f \in Files : (IF f \in Paths /\ name[f] # None THEN data[name[f]] ELSE <<>>) \in Seq(Chunks)
  BY <1>3 DEF Typed
<1> QED BY <1>1, <1>2, <1>3, <1>4 DEF Stop, Typed

LEMMA StopLeaves ==
  ASSUME Typed, Stop, NEW c \in Calls
  PROVE  /\ call'[c].step \in {"idle", "absent"}
         /\ call'[c].source = 0 \/ call'[c] = call[c]
BY DEF Stop, NoCall, Begun

LEMMA TypedInvariance == Typed /\ [Next]_vars => Typed'
<1> SUFFICES ASSUME Typed, [Next]_vars PROVE Typed'
  OBVIOUS
<1>1. CASE UNCHANGED vars
  BY <1>1 DEF vars, Typed
<1> QED BY <1>1, CallStepTyped, FetchStepTyped, StopTyped DEF Next

(* Every variable has its type, for every number of calls, of sources, of  *)
(* attempts and of chunks and for calls that share paths as well           *)
(* (launcherCore/src/download/cache.rs).                                   *)
THEOREM Typing == Spec => []TypeOK
<1>1. Init => Typed
  BY InitTyped
<1>2. Typed => TypeOK
  BY DEF Typed, TypeOK, Chunks, CallRecords, CallSteps, FetchRecords, FetchSteps
<1> QED BY <1>1, <1>2, TypedInvariance, PTL DEF Spec

-----------------------------------------------------------------------------
(* The store and the course of a call *)

(* No two items of the batch have a path in common.  Two names of an asset *)
(* index that have one hash do; for them the store's invariant fails.      *)
ItemsApart == \A c, d \in Calls : c # d => Dest[c] # Dest[d] /\ Stem[c] # Stem[d]

PartialOf(c, s) == <<Stem[c], s>>
Busy == {"await", "drop", "rename", "verify", "discard"}
Done == {"off", "ok", "failed"}

(* A task of the current attempt whose answer the call has yet to take.    *)
Outstanding(c, n, s) ==
  /\ n = call[c].attempt /\ s \in Raced(call[c].mode)
  /\ \/ s > call[c].source /\ call[c].step # "idle"
     \/ s = call[c].source /\ call[c].step = "await"

(* A file has one name, and a task that has opened none has made none.     *)
NamesApart == \A p, q \in Paths : name[p] = name[q] /\ name[p] # None => p = q
Unopened ==
  \A t \in Tasks : fetch[t].step \in {"off", "request", "open"} => \A p \in Paths : name[p] # t
Store == NamesApart /\ Unopened

OthersDone(c) ==
  \A n \in 1..Attempts, s \in 0..Sources : ~Outstanding(c, n, s) => fetch[<<c, n, s>>].step \in Done
LaterOff(c) ==
  \A n \in 1..Attempts, s \in 0..Sources :
    n > call[c].attempt \/ At(c, "idle") => fetch[<<c, n, s>>].step = "off"
WritesByName(c) ==
  \A n \in 1..Attempts, s \in 0..Sources :
    fetch[<<c, n, s>>].step = "write" =>
      fetch[<<c, n, s>>].file = name[PartialOf(c, s)] /\ name[PartialOf(c, s)] # None
AnswersHaveFiles(c) ==
  \A n \in 1..Attempts, s \in 0..Sources :
    Outstanding(c, n, s) /\ fetch[<<c, n, s>>].step = "ok" => name[PartialOf(c, s)] # None
TakenHaveFiles(c) == call[c].step \in {"drop", "rename"} => name[Partial(c)] # None
Checked(c) ==
  /\ At(c, "rename") /\ call[c].mode = "race" /\ c \in Hashed => Matches(c, Partial(c))
  /\ At(c, "verify") => name[Dest[c]] # None /\ (call[c].mode = "race" /\ c \in Hashed => Matches(c, Dest[c]))
  /\ At(c, "ok") /\ c \in Hashed => Matches(c, Dest[c])
  /\ At(c, "discard") => call[c].mode = "single"
SourceOfMode(c) ==
  /\ call[c].mode = "single" => call[c].source = 0
  /\ call[c].mode = "race" /\ call[c].step \in Busy => call[c].source \in 1..Sources

Course(c) ==
  OthersDone(c) /\ LaterOff(c) /\ WritesByName(c) /\ AnswersHaveFiles(c) /\ TakenHaveFiles(c)
  /\ Checked(c) /\ SourceOfMode(c)

FileSame(p) == name'[p] = name[p] /\ (name[p] # None => data'[name[p]] = data[name[p]])

(* Nothing that the invariant says of call c is touched by the step.       *)
Untouched(c) ==
  /\ call'[c] = call[c]
  /\ \A n \in 1..Attempts, s \in 0..Sources : fetch'[<<c, n, s>>] = fetch[<<c, n, s>>]
  /\ \A s \in 0..Sources : FileSame(PartialOf(c, s))
  /\ FileSame(Dest[c])
  /\ \A s \in 0..Sources : <<c, s>> \in blamed' <=> <<c, s>> \in blamed

LEMMA UntouchedCourse ==
  ASSUME Typed, NEW c \in Calls, Untouched(c), Course(c)
  PROVE  Course(c)'
<1>1. call[c].source \in 0..Sources /\ Partial(c) = PartialOf(c, call[c].source)
  BY DEF Typed, CallRecords, Partial, PartialOf
<1>2. Partial(c)' = Partial(c) /\ FileSame(Partial(c)) /\ FileSame(Dest[c])
  BY <1>1 DEF Untouched, Partial
<1>3. \A n \in 1..Attempts, s \in 0..Sources : Outstanding(c, n, s)' <=> Outstanding(c, n, s)
  BY DEF Untouched, Outstanding
<1>4. OthersDone(c)' /\ LaterOff(c)'
  BY <1>3 DEF Course, OthersDone, LaterOff, Untouched, At
<1>5. WritesByName(c)' /\ AnswersHaveFiles(c)'
  BY <1>3 DEF Course, WritesByName, AnswersHaveFiles, Untouched, FileSame, PartialOf
<1>6. Matches(c, Dest[c])' <=> Matches(c, Dest[c])
  BY <1>2 DEF Matches, FileSame
<1>7. Matches(c, Partial(c))' <=> Matches(c, Partial(c))
  BY <1>2 DEF Matches, FileSame
<1>8. TakenHaveFiles(c)'
  BY <1>2 DEF Course, TakenHaveFiles, Untouched, FileSame
<1>9. Checked(c)'
  BY <1>2, <1>6, <1>7 DEF Course, Checked, Untouched, At, FileSame
<1>10. SourceOfMode(c)'
  BY DEF Course, SourceOfMode, Untouched
<1> QED BY <1>4, <1>5, <1>8, <1>9, <1>10 DEF Course

LEMMA PathsApart ==
  ASSUME ItemsApart, NEW c \in Calls, NEW d \in Calls, NEW s \in 0..Sources, NEW r \in 0..Sources
  PROVE  /\ PartialOf(c, s) = PartialOf(d, r) => c = d /\ s = r
         /\ PartialOf(c, s) # Dest[d]
         /\ Dest[c] = Dest[d] => c = d
<1>1. Dest[d] \in Finals /\ PartialOf(c, s) \in Partials
  BY DEF Finals, Partials, PartialOf
<1> QED BY <1>1, FilesAssumption DEF ItemsApart, PartialOf

(* What a step of a task can touch: its partial file and its own state.    *)
LEMMA FetchTouches ==
  ASSUME Typed, Store, NEW t \in Tasks, FetchStep(t),
         fetch[t].step = "write" => fetch[t].file = name[From(t)]
  PROVE  /\ call' = call
         /\ \A u \in Tasks : u # t => fetch'[u] = fetch[u]
         /\ fetch[t].step \in {"request", "open", "write"}
         /\ \A p \in Paths : p # From(t) => FileSame(p)
         /\ blamed' = blamed \/ blamed' = blamed \cup {<<t[1], t[3]>>}
         /\ Store'
<1>1. From(t) \in Paths /\ name[From(t)] \in Files \cup {None} /\ t \in Files /\ t # None
  BY PathsOfTasks, FilesByKind DEF Typed
<1>2. CASE Request(t)
  <2>1. UNCHANGED <<name, data, call>> /\ fetch[t].step = "request"
    BY <1>2 DEF Request
  <2>2. fetch'[t].step \in {"open", "failed"}
    BY <1>2 DEF Request, Opened, Break, Typed, FetchRecords
  <2>3. blamed' = blamed \/ blamed' = blamed \cup {<<t[1], t[3]>>}
    BY <1>2 DEF Request, Break, Blame
  <2>4. \A u \in Tasks : u # t => fetch'[u] = fetch[u]
    BY <1>2 DEF Request, Opened, Break, Typed
  <2>5. Store'
    BY <2>1, <2>2, <2>4 DEF Store, NamesApart, Unopened
  <2> QED BY <2>1, <2>3, <2>4, <2>5 DEF FileSame
<1>3. CASE Open(t)
  <2>1. fetch[t].step = "open" /\ UNCHANGED <<call, blamed>>
    BY <1>3 DEF Open
  <2>2. \A u \in Tasks : u # t => fetch'[u] = fetch[u]
    BY <1>3 DEF Open, Typed
  <2>3. fetch'[t].step \in {"write", "failed"}
    BY <1>3 DEF Open, Typed, FetchRecords
  <2>4. \A p \in Paths : name[p] # t
    BY <2>1 DEF Store, Unopened
  <2>5. CASE UNCHANGED <<name, data>>
    BY <2>1, <2>2, <2>3, <2>5 DEF Store, NamesApart, Unopened, FileSame
  <2>6. CASE ~UNCHANGED <<name, data>>
    <3> DEFINE file == IF name[From(t)] = None THEN t ELSE name[From(t)]
    <3>1. name' = [name EXCEPT ![From(t)] = file] /\ data' = [data EXCEPT ![file] = <<>>]
      BY <1>3, <2>6 DEF Open
    <3>2. file \in Files /\ file # None /\ \A p \in Paths : p # From(t) => name[p] # file
      BY <1>1, <2>4, FilesByKind DEF Store, NamesApart
    <3>3. \A u \in Tasks : u # t /\ fetch[u].step \in {"off", "request", "open"} => file # u
      BY <1>1 DEF Store, Unopened
    <3> HIDE DEF file
    <3>4. \A p \in Paths : name'[p] = IF p = From(t) THEN file ELSE name[p]
      BY <1>1, <3>1 DEF Typed
    <3>5. \A f \in Files : f # file => data'[f] = data[f]
      BY <3>1 DEF Typed
    <3>6. \A p \in Paths : p # From(t) => FileSame(p)
      BY <3>2, <3>4, <3>5 DEF FileSame, Typed
    <3>7. NamesApart'
      BY <3>2, <3>4 DEF Store, NamesApart
    <3>8. Unopened'
      BY <2>2, <2>3, <3>3, <3>4 DEF Store, Unopened
    <3> QED BY <2>1, <2>2, <3>6, <3>7, <3>8 DEF Store
  <2> QED BY <2>5, <2>6
<1>4. CASE Receive(t)
  <2>1. fetch[t].step = "write" /\ UNCHANGED <<name, call>>
    BY <1>4 DEF Receive
  <2>2. blamed' = blamed \/ blamed' = blamed \cup {<<t[1], t[3]>>}
    BY <1>4 DEF Receive, Break, Blame
  <2>3. \A u \in Tasks : u # t => fetch'[u] = fetch[u]
    BY <1>4 DEF Receive, Break, Typed
  <2>4. fetch'[t].step \in {"write", "ok", "failed"}
    BY <1>4, <2>1, FreshRecords DEF Receive, Break, Typed, FetchRecords
  <2>5. \A f \in Files : f # fetch[t].file => data'[f] = data[f]
    BY <1>4 DEF Receive, Typed
  <2>6. \A p \in Paths : p # From(t) => FileSame(p)
    BY <1>1, <2>1, <2>5 DEF Store, NamesApart, FileSame, Typed
  <2>7. Store'
    BY <2>1, <2>3, <2>4 DEF Store, NamesApart, Unopened
  <2> QED BY <2>1, <2>2, <2>3, <2>6, <2>7
<1> QED BY <1>2, <1>3, <1>4 DEF FetchStep

LEMMA TaskWritesByName ==
  ASSUME NEW t \in Tasks, WritesByName(t[1])
  PROVE  fetch[t].step = "write" => fetch[t].file = name[From(t)] /\ name[From(t)] # None
BY TasksAreTriples DEF WritesByName, From, PartialOf

LEMMA TaskIsOutstanding ==
  ASSUME NEW t \in Tasks, OthersDone(t[1]), fetch[t].step \in {"request", "open", "write"}
  PROVE  Outstanding(t[1], t[2], t[3])
BY TasksAreTriples DEF OthersDone, Done

LEMMA FetchLeavesOthers ==
  ASSUME ItemsApart, Typed, Store, NEW t \in Tasks, FetchStep(t), Course(t[1]),
         NEW c \in Calls, c # t[1]
  PROVE  Untouched(c)
<1>1. /\ call' = call
      /\ \A u \in Tasks : u # t => fetch'[u] = fetch[u]
      /\ \A p \in Paths : p # From(t) => FileSame(p)
      /\ blamed' = blamed \/ blamed' = blamed \cup {<<t[1], t[3]>>}
  BY FetchTouches, TaskWritesByName DEF Course
<1>2. t[1] \in Calls /\ t[3] \in 0..Sources /\ From(t) = PartialOf(t[1], t[3])
  BY TasksAreTriples DEF From, PartialOf
<1>3. \A s \in 0..Sources : PartialOf(c, s) \in Paths /\ PartialOf(c, s) # From(t)
  BY <1>2, PathsApart, PathsOfCalls DEF PartialOf
<1>4. Dest[c] \in Paths /\ Dest[c] # From(t)
  BY <1>2, PathsApart, PathsOfCalls
<1>5. \A n \in 1..Attempts, s \in 0..Sources : <<c, n, s>> \in Tasks /\ <<c, n, s>> # t
  BY TriplesAreTasks, TasksAreTriples
<1> QED BY <1>1, <1>3, <1>4, <1>5 DEF Untouched

LEMMA FetchKeepsCourse ==
  ASSUME ItemsApart, Typed, Store, NEW t \in Tasks, FetchStep(t), Course(t[1])
  PROVE  Course(t[1])'
<1> DEFINE c == t[1]
           n == t[2]
           s == t[3]
<1>1. /\ call' = call
      /\ \A u \in Tasks : u # t => fetch'[u] = fetch[u]
      /\ fetch[t].step \in {"request", "open", "write"}
      /\ \A p \in Paths : p # From(t) => FileSame(p)
  BY FetchTouches, TaskWritesByName DEF Course
<1>2. c \in Calls /\ n \in 1..Attempts /\ s \in 0..Sources /\ t = <<c, n, s>> /\ From(t) = PartialOf(c, s)
  BY TasksAreTriples DEF From, PartialOf
<1>3. Outstanding(c, n, s)
  BY <1>1, TaskIsOutstanding DEF Course
<1>4. \A m \in 1..Attempts, r \in 0..Sources : <<c, m, r>> \in Tasks /\ (<<c, m, r>> = t <=> m = n /\ r = s)
  BY <1>2, TriplesAreTasks
<1>5. \A m \in 1..Attempts, r \in 0..Sources : m # n \/ r # s => fetch'[<<c, m, r>>] = fetch[<<c, m, r>>]
  BY <1>1, <1>4
<1>6. \A r \in 0..Sources : r # s => FileSame(PartialOf(c, r))
  BY <1>1, <1>2, PathsApart, PathsOfCalls DEF PartialOf
<1>7. FileSame(Dest[c])
  BY <1>1, <1>2, PathsApart, PathsOfCalls
<1>8. \A m \in 1..Attempts, r \in 0..Sources : Outstanding(c, m, r)' <=> Outstanding(c, m, r)
  BY <1>1 DEF Outstanding
<1>9. call[c].source \in 0..Sources /\ Partial(c) = PartialOf(c, call[c].source) /\ Partial(c)' = Partial(c)
  BY <1>1, <1>2 DEF Typed, CallRecords, Partial, PartialOf
<1>10. n = call[c].attempt
  BY <1>3 DEF Outstanding
<1>11. OthersDone(c)'
  BY <1>3, <1>5, <1>8, <1>2 DEF Course, OthersDone
<1>12. LaterOff(c)'
  <2>1. ~(n > call[c].attempt \/ At(c, "idle"))
    BY <1>1, <1>2 DEF Course, LaterOff
  <2> QED BY <1>1, <1>2, <1>5, <2>1 DEF Course, LaterOff, At
<1>13. fetch'[t].step \in {"write", "ok"} => name'[From(t)] # None
       /\ (fetch'[t].step = "write" => fetch'[t].file = name'[From(t)])
  <2>1. CASE Request(t)
    BY <2>1 DEF Request, Opened, Break, Typed, FetchRecords
  <2>2. CASE Open(t)
    <3>1. From(t) \in Paths /\ t # None /\ fetch[t] \in FetchRecords
      BY PathsOfTasks, FilesByKind DEF Typed
    <3> QED BY <2>2, <3>1 DEF Open, Typed, FetchRecords
  <2>3. CASE Receive(t)
    <3>1. fetch[t].file = name[From(t)] /\ name[From(t)] # None /\ name' = name
      BY <2>3, TaskWritesByName DEF Course, Receive
    <3>2. fetch'[t].step = "write" => fetch'[t].file = fetch[t].file
      BY <2>3, FreshRecords DEF Receive, Break, Typed, FetchRecords
    <3> QED BY <3>1, <3>2
  <2> QED BY <2>1, <2>2, <2>3 DEF FetchStep
<1>14. WritesByName(c)'
  <2> SUFFICES ASSUME NEW m \in 1..Attempts, NEW r \in 0..Sources, fetch'[<<c, m, r>>].step = "write"
               PROVE  fetch'[<<c, m, r>>].file = name'[PartialOf(c, r)] /\ name'[PartialOf(c, r)] # None
    BY DEF WritesByName, PartialOf
  <2>1. CASE m = n /\ r = s
    BY <1>2, <1>13, <2>1
  <2>2. CASE r # s
    BY <1>5, <1>6, <2>2 DEF Course, WritesByName, FileSame
  <2>3. CASE m # n /\ r = s
    <3>1. ~Outstanding(c, m, r)
      BY <1>10, <2>3 DEF Outstanding
    <3> QED BY <1>5, <2>3, <3>1 DEF Course, OthersDone, Done
  <2> QED BY <2>1, <2>2, <2>3
<1>15. AnswersHaveFiles(c)'
  <2> SUFFICES ASSUME NEW m \in 1..Attempts, NEW r \in 0..Sources, Outstanding(c, m, r),
                      fetch'[<<c, m, r>>].step = "ok"
               PROVE  name'[PartialOf(c, r)] # None
    BY <1>8 DEF AnswersHaveFiles, PartialOf
  <2>1. m = n
    BY <1>10 DEF Outstanding
  <2>2. CASE r = s
    BY <1>2, <1>13, <2>1, <2>2
  <2>3. CASE r # s
    BY <1>5, <1>6, <2>3 DEF Course, AnswersHaveFiles, FileSame
  <2> QED BY <2>2, <2>3
<1>16. call[c].step \in {"drop", "rename"} => FileSame(Partial(c))
  BY <1>3, <1>6, <1>9 DEF Outstanding
<1>17. TakenHaveFiles(c)'
  BY <1>1, <1>9, <1>16 DEF Course, TakenHaveFiles, FileSame
<1>18. Checked(c)'
  <2>1. At(c, "rename") => (Matches(c, Partial(c))' <=> Matches(c, Partial(c)))
    BY <1>9, <1>16 DEF Matches, FileSame, At
  <2>2. Matches(c, Dest[c])' <=> Matches(c, Dest[c])
    BY <1>7 DEF Matches, FileSame
  <2> QED BY <1>1, <1>7, <2>1, <2>2 DEF Course, Checked, At, FileSame
<1>19. SourceOfMode(c)'
  BY <1>1 DEF Course, SourceOfMode
<1> QED BY <1>11, <1>12, <1>14, <1>15, <1>17, <1>18, <1>19 DEF Course

(* A step of a call: its own record and tasks, no content, and no name but *)
(* those of the partial file at hand and of the item.                      *)
Unstarted(t) == fetch[t].step \in {"off", "request", "open"}

TurnsTo(c) ==
  /\ \A d \in Calls : d # c => call'[d] = call[d]
  /\ \A t \in Tasks : t[1] # c => fetch'[t] = fetch[t]
  /\ \A t \in Tasks : Unstarted(t)' => Unstarted(t)

NamesMove(c) ==
  /\ data' = data
  /\ \A p \in Paths : p # Partial(c) /\ p # Dest[c] => name'[p] = name[p]
  /\ \A p \in Paths : name'[p] # None => \E q \in Paths : name'[p] = name[q]
  /\ NamesApart'

BlamesOnly(c) ==
  \A d \in Calls, s \in 0..Sources : d # c => (<<d, s>> \in blamed' <=> <<d, s>> \in blamed)

Quiet(c) == \A n \in 1..Attempts, s \in 0..Sources : fetch[<<c, n, s>>].step \in Done
LastSource(c) == \A s \in Raced(call[c].mode) : s <= call[c].source

LEMMA TurnsAside ==
  ASSUME ItemsApart, Typed, Store, NEW c \in Calls, TurnsTo(c), NamesMove(c), BlamesOnly(c)
  PROVE  Store' /\ \A d \in Calls : d # c => Untouched(d)
<1>1. Unopened'
  BY FilesByKind DEF Store, Unopened, TurnsTo, NamesMove, Unstarted
<1>2. ASSUME NEW d \in Calls, d # c PROVE Untouched(d)
  <2>1. call[c].source \in 0..Sources /\ Partial(c) = PartialOf(c, call[c].source)
    BY DEF Typed, CallRecords, Partial, PartialOf
  <2>2. \A s \in 0..Sources : PartialOf(d, s) \in Paths /\ PartialOf(d, s) # Partial(c) /\ PartialOf(d, s) # Dest[c]
    BY <1>2, <2>1, PathsApart, PathsOfCalls DEF PartialOf
  <2>3. Dest[d] \in Paths /\ Dest[d] # Partial(c) /\ Dest[d] # Dest[c]
    BY <1>2, <2>1, PathsApart, PathsOfCalls
  <2>4. \A n \in 1..Attempts, s \in 0..Sources : <<d, n, s>> \in Tasks /\ <<d, n, s>>[1] # c
    BY <1>2, TriplesAreTasks
  <2> QED BY <1>2, <2>2, <2>3, <2>4 DEF Untouched, FileSame, TurnsTo, NamesMove, BlamesOnly
<1> QED BY <1>1, <1>2 DEF Store, NamesMove

LEMMA RacedSources ==
  ASSUME NEW mode \in {"single", "race"}
  PROVE  /\ Raced(mode) \subseteq 0..Sources
         /\ mode = "single" => Raced(mode) = {0}
         /\ mode = "race" => Raced(mode) = 1..Sources
BY DownloadAssumptions DEF Raced

LEMMA BeginShape ==
  ASSUME Typed, NEW c \in Calls, NEW mode \in {"single", "race"}, NEW n \in 1..Attempts, Begin(c, mode, n)
  PROVE  /\ \A d \in Calls : d # c => call'[d] = call[d]
         /\ call'[c].step = "await" /\ call'[c].mode = mode /\ call'[c].attempt = n
         /\ call'[c].source = (IF mode = "single" THEN 0 ELSE 1)
         /\ \A t \in Tasks : t[1] # c => fetch'[t] = fetch[t]
         /\ \A m \in 1..Attempts, s \in 0..Sources :
              fetch'[<<c, m, s>>] = IF m = n /\ s \in Raced(mode) THEN Requested ELSE fetch[<<c, m, s>>]
BY TriplesAreTasks DEF Begin, Typed

(* A new attempt finds every earlier task of the call at its end.          *)
LEMMA BeginKeepsCourse ==
  ASSUME Typed, NEW c \in Calls, NEW n \in 1..Attempts, Begin(c, call[c].mode, n), Quiet(c),
         \A m \in 1..Attempts, s \in 0..Sources : m >= n => fetch[<<c, m, s>>].step = "off"
  PROVE  Course(c)' /\ TurnsTo(c)
<1> DEFINE mode == call[c].mode
<1>1. mode \in {"single", "race"}
  BY DEF Typed, CallRecords
<1>2. /\ \A d \in Calls : d # c => call'[d] = call[d]
      /\ call'[c].step = "await" /\ call'[c].mode = mode /\ call'[c].attempt = n
      /\ call'[c].source = (IF mode = "single" THEN 0 ELSE 1)
      /\ \A t \in Tasks : t[1] # c => fetch'[t] = fetch[t]
      /\ \A m \in 1..Attempts, s \in 0..Sources :
           fetch'[<<c, m, s>>] = IF m = n /\ s \in Raced(mode) THEN Requested ELSE fetch[<<c, m, s>>]
  BY <1>1, BeginShape
<1>3. \A m \in 1..Attempts, s \in 0..Sources : m = n /\ s \in Raced(mode) => Outstanding(c, m, s)'
  <2> SUFFICES ASSUME NEW s \in 0..Sources, s \in Raced(mode)
               PROVE  s > call'[c].source \/ s = call'[c].source
    BY <1>2 DEF Outstanding
  <2>1. CASE mode = "single"
    BY <1>2, <2>1 DEF Raced
  <2>2. CASE mode = "race"
    BY <1>2, <2>2, DownloadAssumptions DEF Raced
  <2> QED BY <1>1, <2>1, <2>2
<1>4. Requested.step = "request"
  BY FreshRecords
<1> HIDE DEF mode
<1>5. OthersDone(c)'
  BY <1>2, <1>3 DEF OthersDone, Quiet, Done
<1>6. LaterOff(c)'
  BY <1>2 DEF LaterOff, At
<1>7. WritesByName(c)' /\ AnswersHaveFiles(c)'
  <2>1. \A m \in 1..Attempts, s \in 0..Sources : fetch'[<<c, m, s>>].step # "write"
    BY <1>2, <1>4 DEF Quiet, Done
  <2>2. \A m \in 1..Attempts, s \in 0..Sources : Outstanding(c, m, s)' => fetch'[<<c, m, s>>].step # "ok"
    BY <1>2, <1>4 DEF Outstanding
  <2> QED BY <2>1, <2>2 DEF WritesByName, AnswersHaveFiles
<1>8. TakenHaveFiles(c)' /\ Checked(c)'
  BY <1>2 DEF TakenHaveFiles, Checked, At
<1>9. SourceOfMode(c)'
  BY <1>2, DownloadAssumptions DEF SourceOfMode
<1>10. \A t \in Tasks : Unstarted(t)' => Unstarted(t)
  <2> SUFFICES ASSUME NEW t \in Tasks, Unstarted(t)', t[1] = c PROVE Unstarted(t)
    BY <1>2 DEF Unstarted
  <2>1. t[2] \in 1..Attempts /\ t[3] \in 0..Sources /\ t = <<c, t[2], t[3]>>
    BY TasksAreTriples
  <2>2. CASE t[2] = n /\ t[3] \in Raced(mode)
    BY <2>1, <2>2 DEF Unstarted
  <2>3. CASE ~(t[2] = n /\ t[3] \in Raced(mode))
    BY <1>2, <2>1, <2>3 DEF Unstarted
  <2> QED BY <2>2, <2>3
<1> QED BY <1>2, <1>5, <1>6, <1>7, <1>8, <1>9, <1>10 DEF Course, TurnsTo

LEMMA AttemptOverKeepsCourse ==
  ASSUME Typed, NEW c \in Calls, AttemptOver(c), Quiet(c), LastSource(c), LaterOff(c), SourceOfMode(c)
  PROVE  Course(c)' /\ TurnsTo(c)
<1> DEFINE n == call[c].attempt
<1>1. n \in 1..Attempts /\ call[c] \in CallRecords
  BY DEF Typed, CallRecords
<1>2. CASE n < Attempts
  <2>1. n + 1 \in 1..Attempts /\ Begin(c, call[c].mode, n + 1)
    BY <1>1, <1>2, DownloadAssumptions DEF AttemptOver
  <2>2. \A m \in 1..Attempts, s \in 0..Sources : m >= n + 1 => fetch[<<c, m, s>>].step = "off"
    BY <1>1, DownloadAssumptions DEF LaterOff
  <2> HIDE DEF n
  <2> QED BY <2>1, <2>2, BeginKeepsCourse
<1>3. CASE ~(n < Attempts)
  <2>1. GoTo(c, "failed") /\ fetch' = fetch
    BY <1>3 DEF AttemptOver
  <2>2. /\ call'[c].step = "failed" /\ call'[c].mode = call[c].mode
        /\ call'[c].attempt = call[c].attempt /\ call'[c].source = call[c].source
        /\ \A d \in Calls : d # c => call'[d] = call[d]
    BY <1>1, <2>1 DEF GoTo, Typed, CallRecords
  <2>3. \A m \in 1..Attempts, s \in 0..Sources : ~Outstanding(c, m, s)'
    BY <1>1, <2>2 DEF Outstanding, LastSource, CallRecords
  <2>4. OthersDone(c)' /\ LaterOff(c)'
    BY <2>1, <2>2 DEF OthersDone, LaterOff, Quiet, At
  <2>5. WritesByName(c)' /\ AnswersHaveFiles(c)'
    <3>1. \A m \in 1..Attempts, s \in 0..Sources : fetch'[<<c, m, s>>].step # "write"
      BY <2>1 DEF Quiet, Done
    <3> QED BY <2>3, <3>1 DEF WritesByName, AnswersHaveFiles
  <2>6. TakenHaveFiles(c)' /\ Checked(c)' /\ SourceOfMode(c)'
    BY <2>2 DEF TakenHaveFiles, Checked, SourceOfMode, At, Busy
  <2> QED BY <2>1, <2>2, <2>4, <2>5, <2>6 DEF Course, TurnsTo, Unstarted
<1> QED BY <1>2, <1>3

LEMMA SourcesAfterLast ==
  ASSUME Typed, NEW c \in Calls, SourceOfMode(c), call[c].step \in Busy,
         call[c].source \notin 1..(Sources - 1)
  PROVE  LastSource(c)
<1>1. call[c].mode \in {"single", "race"} /\ Sources \in Nat /\ call[c].source \in 0..Sources
  BY DownloadAssumptions DEF Typed, CallRecords
<1>2. CASE call[c].mode = "single"
  BY <1>2 DEF SourceOfMode, LastSource, Raced
<1>3. CASE call[c].mode = "race"
  <2>1. call[c].source = Sources
    BY <1>1, <1>3 DEF SourceOfMode
  <2> QED BY <1>1, <1>3, <2>1 DEF LastSource, Raced
<1> QED BY <1>1, <1>2, <1>3

(* The call turns to its next source, or ends the attempt, once it has no  *)
(* use for the one at hand.                                                *)
LEMMA NextSourceKeepsCourse ==
  ASSUME Typed, NEW c \in Calls, Course(c), NextSource(c), call[c].step \in {"await", "drop"},
         fetch[<<c, call[c].attempt, call[c].source>>].step \in Done,
         \A s \in 0..Sources : s # call[c].source => FileSame(PartialOf(c, s))
  PROVE  Course(c)' /\ TurnsTo(c)
<1> DEFINE at == call[c].source
<1>1. at \in 0..Sources /\ call[c] \in CallRecords /\ call[c].attempt \in 1..Attempts
  BY DEF Typed, CallRecords
<1>2. \A n \in 1..Attempts, s \in 0..Sources :
        fetch[<<c, n, s>>].step \notin Done => Outstanding(c, n, s) /\ s > at
  BY <1>1 DEF Course, OthersDone, Outstanding
<1>3. CASE at \in 1..(Sources - 1)
  <2>1. call' = [call EXCEPT ![c].step = "await", ![c].source = @ + 1] /\ fetch' = fetch
    BY <1>3 DEF NextSource
  <2>2. /\ call'[c].step = "await" /\ call'[c].mode = call[c].mode
        /\ call'[c].attempt = call[c].attempt /\ call'[c].source = at + 1
        /\ \A d \in Calls : d # c => call'[d] = call[d]
    BY <1>1, <2>1 DEF Typed, CallRecords
  <2>3. \A n \in 1..Attempts, s \in 0..Sources : Outstanding(c, n, s)' <=>
          n = call[c].attempt /\ s \in Raced(call[c].mode) /\ s > at
    BY <1>1, <2>2 DEF Outstanding
  <2>4. \A n \in 1..Attempts, s \in 0..Sources : Outstanding(c, n, s)' => Outstanding(c, n, s)
    BY <2>3 DEF Outstanding
  <2>5. OthersDone(c)'
    BY <1>2, <2>1, <2>3 DEF OthersDone, Outstanding
  <2>6. LaterOff(c)'
    BY <2>1, <2>2 DEF Course, LaterOff, At
  <2>7. \A s \in 0..Sources : s > at => FileSame(PartialOf(c, s))
    BY <1>1
  <2>8. WritesByName(c)'
    <3> SUFFICES ASSUME NEW m \in 1..Attempts, NEW r \in 0..Sources, fetch[<<c, m, r>>].step = "write"
                 PROVE  fetch[<<c, m, r>>].file = name'[PartialOf(c, r)] /\ name'[PartialOf(c, r)] # None
      BY <2>1 DEF WritesByName, PartialOf
    <3>1. r > at
      BY <1>2 DEF Done
    <3> QED BY <2>7, <3>1 DEF Course, WritesByName, FileSame
  <2>9. AnswersHaveFiles(c)'
    <3> SUFFICES ASSUME NEW m \in 1..Attempts, NEW r \in 0..Sources, Outstanding(c, m, r)',
                        fetch[<<c, m, r>>].step = "ok"
                 PROVE  name'[PartialOf(c, r)] # None
      BY <2>1 DEF AnswersHaveFiles, PartialOf
    <3> QED BY <2>3, <2>4, <2>7 DEF Course, AnswersHaveFiles, FileSame
  <2>10. TakenHaveFiles(c)' /\ Checked(c)'
    BY <2>2 DEF TakenHaveFiles, Checked, At
  <2>11. SourceOfMode(c)'
    BY <1>1, <1>3, <2>2, DownloadAssumptions DEF Course, SourceOfMode, CallRecords
  <2> QED BY <2>1, <2>2, <2>5, <2>6, <2>8, <2>9, <2>10, <2>11 DEF Course, TurnsTo, Unstarted
<1>4. CASE at \notin 1..(Sources - 1)
  <2>1. LastSource(c)
    BY <1>4, SourcesAfterLast DEF Course, Busy
  <2>2. Quiet(c)
    BY <1>1, <1>2, <2>1 DEF Quiet, LastSource, Outstanding
  <2> QED BY <1>4, <2>1, <2>2, AttemptOverKeepsCourse DEF NextSource, Course
<1> QED BY <1>3, <1>4

(* A call that goes from one step to another beside its tasks: the source  *)
(* at hand has answered, and the other sources keep their files.           *)
LEMMA GoToKeepsCourse ==
  ASSUME Typed, NEW c \in Calls, Course(c), NEW step, GoTo(c, step), fetch' = fetch,
         At(c, "idle") => \A n \in 1..Attempts, s \in 0..Sources : fetch[<<c, n, s>>].step = "off",
         step \notin {"idle", "await"},
         At(c, "await") => fetch[<<c, call[c].attempt, call[c].source>>].step \in Done,
         \A s \in 0..Sources : s # call[c].source => FileSame(PartialOf(c, s)),
         TakenHaveFiles(c)', Checked(c)', SourceOfMode(c)'
  PROVE  Course(c)' /\ TurnsTo(c)
<1> DEFINE at == call[c].source
<1>1. at \in 0..Sources /\ call[c] \in CallRecords /\ call[c].attempt \in 1..Attempts
  BY DEF Typed, CallRecords
<1>2. /\ call'[c].step = step /\ call'[c].mode = call[c].mode
      /\ call'[c].attempt = call[c].attempt /\ call'[c].source = at
      /\ \A d \in Calls : d # c => call'[d] = call[d]
  BY <1>1 DEF GoTo, Typed, CallRecords
<1>3. \A n \in 1..Attempts, s \in 0..Sources : Outstanding(c, n, s)' <=>
        n = call[c].attempt /\ s \in Raced(call[c].mode) /\ s > at
  BY <1>1, <1>2 DEF Outstanding
<1>4. \A n \in 1..Attempts, s \in 0..Sources :
        fetch[<<c, n, s>>].step \notin Done => Outstanding(c, n, s)' /\ s > at
  BY <1>1, <1>3 DEF Course, OthersDone, Outstanding, At
<1>5. OthersDone(c)'
  BY <1>4 DEF OthersDone
<1>6. LaterOff(c)'
  BY <1>2 DEF Course, LaterOff, At
<1>7. WritesByName(c)'
  <2> SUFFICES ASSUME NEW m \in 1..Attempts, NEW r \in 0..Sources, fetch[<<c, m, r>>].step = "write"
               PROVE  fetch[<<c, m, r>>].file = name'[PartialOf(c, r)] /\ name'[PartialOf(c, r)] # None
    BY DEF WritesByName, PartialOf
  <2>1. r # at
    BY <1>1, <1>4 DEF Done
  <2> QED BY <2>1 DEF Course, WritesByName, FileSame
<1>8. AnswersHaveFiles(c)'
  <2> SUFFICES ASSUME NEW m \in 1..Attempts, NEW r \in 0..Sources, Outstanding(c, m, r)',
                      fetch[<<c, m, r>>].step = "ok"
               PROVE  name'[PartialOf(c, r)] # None
    BY DEF AnswersHaveFiles, PartialOf
  <2>1. ~At(c, "idle") /\ r # at
    BY <1>1, <1>3
  <2>2. Outstanding(c, m, r)
    BY <1>1, <1>3, <2>1 DEF Outstanding, At
  <2> QED BY <2>1, <2>2 DEF Course, AnswersHaveFiles, FileSame
<1> QED BY <1>2, <1>5, <1>6, <1>7, <1>8 DEF Course, TurnsTo, Unstarted

LEMMA PartialAtHand ==
  ASSUME Typed, NEW c \in Calls
  PROVE  /\ call[c].source \in 0..Sources /\ call[c].attempt \in 1..Attempts
         /\ call[c].mode \in {"single", "race"}
         /\ Partial(c) = PartialOf(c, call[c].source) /\ Partial(c) \in Paths
BY PathsOfCalls DEF Typed, CallRecords, Partial, PartialOf

LEMMA NamesStay ==
  ASSUME Store, NEW c \in Calls, UNCHANGED <<name, data>>
  PROVE  NamesMove(c) /\ \A p \in Paths : FileSame(p)
BY DEF Store, NamesApart, NamesMove, FileSame

LEMMA NameGoes ==
  ASSUME Typed, Store, NEW c \in Calls, NEW p \in {Partial(c), Dest[c]},
         name' = [name EXCEPT ![p] = None], data' = data
  PROVE  NamesMove(c) /\ \A q \in Paths : q # p => FileSame(q)
<1>1. \A q \in Paths : name'[q] = IF q = p THEN None ELSE name[q]
  BY DEF Typed
<1> QED BY <1>1 DEF Store, NamesApart, NamesMove, FileSame

LEMMA NameMoves ==
  ASSUME Typed, Store, ItemsApart, NEW c \in Calls,
         name' = [name EXCEPT ![Dest[c]] = name[Partial(c)], ![Partial(c)] = None], data' = data
  PROVE  /\ NamesMove(c)
         /\ \A q \in Paths : q # Partial(c) /\ q # Dest[c] => FileSame(q)
         /\ name'[Dest[c]] = name[Partial(c)] /\ name'[Partial(c)] = None
<1>1. Partial(c) \in Paths /\ Dest[c] \in Paths /\ Partial(c) # Dest[c]
  BY PartialAtHand, PathsOfCalls, PathsApart
<1>2. \A q \in Paths : name'[q] = IF q = Partial(c) THEN None ELSE IF q = Dest[c] THEN name[Partial(c)]
                                  ELSE name[q]
  BY <1>1 DEF Typed
<1>3. NamesApart'
  <2> SUFFICES ASSUME NEW p \in Paths, NEW q \in Paths, name'[p] = name'[q], name'[p] # None
               PROVE  p = q
    BY DEF NamesApart
  <2>1. p # Partial(c) /\ q # Partial(c)
    BY <1>2
  <2>2. CASE p = Dest[c] \/ q = Dest[c]
    BY <1>1, <1>2, <2>1, <2>2 DEF Store, NamesApart
  <2>3. CASE p # Dest[c] /\ q # Dest[c]
    <3>1. name'[p] = name[p] /\ name'[q] = name[q]
      BY <1>2, <2>1, <2>3
    <3> QED BY <3>1 DEF Store, NamesApart
  <2> QED BY <2>2, <2>3
<1>4. \A p \in Paths : name'[p] # None => \E q \in Paths : name'[p] = name[q]
  BY <1>1, <1>2
<1> QED BY <1>1, <1>2, <1>3, <1>4 DEF NamesMove, FileSame

LEMMA CallKeepsCourse ==
  ASSUME ItemsApart, Typed, Store, NEW c \in Calls, CallStep(c), Course(c)
  PROVE  Course(c)' /\ TurnsTo(c) /\ NamesMove(c) /\ BlamesOnly(c)
<1> DEFINE at == call[c].source
           this == fetch[<<c, call[c].attempt, call[c].source>>]
<1>1. /\ at \in 0..Sources /\ call[c].attempt \in 1..Attempts /\ call[c].mode \in {"single", "race"}
      /\ Partial(c) = PartialOf(c, at) /\ Partial(c) \in Paths /\ call[c] \in CallRecords
  BY PartialAtHand DEF Typed
<1>2. ~At(c, "await") => this.step \in Done
  BY <1>1 DEF Course, OthersDone, Outstanding, At
<1>3. \A s \in 0..Sources : PartialOf(c, s) \in Paths /\ (s # at => PartialOf(c, s) # Partial(c))
                            /\ PartialOf(c, s) # Dest[c]
  BY <1>1, PathsOfCalls, PathsApart DEF PartialOf
<1>4. Dest[c] \in Paths /\ Dest[c] # Partial(c)
  BY <1>1, <1>3, PathsOfCalls
<1>5. CASE DownloadFile(c)
  <2>1. At(c, "idle") /\ UNCHANGED <<name, data>>
    BY <1>5 DEF DownloadFile
  <2>2. NamesMove(c) /\ \A p \in Paths : FileSame(p)
    BY <2>1, NamesStay
  <2>3. BlamesOnly(c)
    <3> DEFINE long == {r \in Raced(call[c].mode) : Length(<<Stem[c], r>>) >= Size}
    <3>1. blamed' = blamed \/ blamed' = blamed \cup {<<c, s>> : s \in long}
      BY <1>5 DEF DownloadFile
    <3> HIDE DEF long
    <3> QED BY <3>1 DEF BlamesOnly
  <2>4. \A n \in 1..Attempts, s \in 0..Sources : fetch[<<c, n, s>>].step = "off"
    BY <2>1 DEF Course, LaterOff
  <2>5. CASE name[Dest[c]] # None /\ (c \in Hashed => Matches(c, Dest[c]))
    <3>1. GoTo(c, "ok") /\ fetch' = fetch
      BY <1>5, <2>5 DEF DownloadFile
    <3>2. call'[c].step = "ok" /\ call'[c].mode = call[c].mode /\ call'[c].source = at
      BY <1>1, <3>1 DEF GoTo, Typed, CallRecords
    <3>3. TakenHaveFiles(c)' /\ Checked(c)' /\ SourceOfMode(c)'
      BY <2>1, <2>5, <3>2 DEF TakenHaveFiles, Checked, SourceOfMode, At, Matches, Busy, Course
    <3> QED BY <1>3, <2>1, <2>2, <2>3, <2>4, <3>1, <3>3, GoToKeepsCourse DEF At
  <2>6. CASE ~(name[Dest[c]] # None /\ (c \in Hashed => Matches(c, Dest[c])))
    <3>1. Begin(c, call[c].mode, 1) /\ 1 \in 1..Attempts
      BY <1>5, <2>6, DownloadAssumptions DEF DownloadFile
    <3>2. Quiet(c)
      BY <2>4 DEF Quiet, Done
    <3> QED BY <2>2, <2>3, <2>4, <3>1, <3>2, BeginKeepsCourse
  <2> QED BY <2>5, <2>6
<1>6. CASE AwaitSource(c)
  <2>1. At(c, "await") /\ this.step \in {"ok", "failed"} /\ UNCHANGED <<name, data, blamed>>
    BY <1>6 DEF AwaitSource
  <2>2. NamesMove(c) /\ BlamesOnly(c) /\ \A p \in Paths : FileSame(p)
    BY <2>1, NamesStay DEF BlamesOnly
  <2>3. CASE this.step = "failed"
    <3>1. NextSource(c)
      BY <1>6, <2>3 DEF AwaitSource
    <3> QED BY <1>3, <2>1, <2>2, <3>1, NextSourceKeepsCourse DEF At, Done
  <2>4. CASE this.step = "ok"
    <3> DEFINE step == IF call[c].mode = "race" /\ c \in Hashed /\ ~Matches(c, Partial(c))
                       THEN "drop" ELSE "rename"
    <3>1. GoTo(c, step) /\ fetch' = fetch
      BY <1>6, <2>4 DEF AwaitSource
    <3>2. call'[c].step = step /\ call'[c].mode = call[c].mode /\ call'[c].source = at
      BY <1>1, <3>1 DEF GoTo, Typed, CallRecords
    <3>3. Partial(c)' = Partial(c) /\ (Matches(c, Partial(c))' <=> Matches(c, Partial(c)))
      BY <2>1, <3>2 DEF Partial, Matches
    <3>4. at \in Raced(call[c].mode)
      BY <1>1, <2>1, RacedSources DEF Course, SourceOfMode, Busy, At
    <3>5. name[Partial(c)] # None
      BY <1>1, <2>1, <2>4, <3>4 DEF Course, AnswersHaveFiles, Outstanding, At
    <3>6. TakenHaveFiles(c)'
      BY <2>1, <3>3, <3>5 DEF TakenHaveFiles
    <3>7. Checked(c)'
      BY <3>2, <3>3 DEF Checked, At
    <3>8. SourceOfMode(c)'
      BY <2>1, <3>2 DEF Course, SourceOfMode, Busy, At
    <3> QED BY <1>3, <2>1, <2>2, <3>1, <3>6, <3>7, <3>8, GoToKeepsCourse DEF At, Done
  <2> QED BY <2>1, <2>3, <2>4
<1>7. CASE DropPartial(c)
  <2>1. At(c, "drop") /\ NextSource(c) /\ UNCHANGED <<data, blamed>>
        /\ name' = [name EXCEPT ![Partial(c)] = None]
    BY <1>7 DEF DropPartial
  <2>2. NamesMove(c) /\ BlamesOnly(c) /\ \A q \in Paths : q # Partial(c) => FileSame(q)
    BY <2>1, NameGoes DEF BlamesOnly
  <2> QED BY <1>2, <1>3, <2>1, <2>2, NextSourceKeepsCourse DEF At
<1>8. CASE Rename(c)
  <2>1. At(c, "rename") /\ name[Partial(c)] # None
    BY <1>8 DEF Rename, Course, TakenHaveFiles, At
  <2>2. /\ name' = [name EXCEPT ![Dest[c]] = name[Partial(c)], ![Partial(c)] = None]
        /\ GoTo(c, "verify") /\ UNCHANGED <<fetch, data, blamed>>
    BY <1>8, <2>1 DEF Rename
  <2>3. /\ NamesMove(c) /\ BlamesOnly(c)
        /\ \A q \in Paths : q # Partial(c) /\ q # Dest[c] => FileSame(q)
        /\ name'[Dest[c]] = name[Partial(c)]
    BY <2>2, NameMoves DEF BlamesOnly
  <2>4. call'[c].step = "verify" /\ call'[c].mode = call[c].mode /\ call'[c].source = at
    BY <1>1, <2>2 DEF GoTo, Typed, CallRecords
  <2>5. Matches(c, Partial(c)) => Matches(c, Dest[c])'
    BY <2>2, <2>3 DEF Matches
  <2>6. TakenHaveFiles(c)' /\ Checked(c)'
    BY <2>1, <2>3, <2>4, <2>5 DEF Course, TakenHaveFiles, Checked, At
  <2>7. SourceOfMode(c)'
    BY <2>1, <2>4 DEF Course, SourceOfMode, Busy, At
  <2> QED BY <1>2, <1>3, <2>1, <2>2, <2>3, <2>6, <2>7, GoToKeepsCourse DEF At
<1>9. CASE Verify(c)
  <2> DEFINE step == IF c \notin Hashed \/ Matches(c, Dest[c]) THEN "ok"
                     ELSE IF name[Dest[c]] = None THEN "failed" ELSE "discard"
  <2>1. At(c, "verify") /\ GoTo(c, step) /\ UNCHANGED <<name, data, fetch, blamed>>
    BY <1>9 DEF Verify
  <2>2. NamesMove(c) /\ BlamesOnly(c) /\ \A p \in Paths : FileSame(p)
    BY <2>1, NamesStay DEF BlamesOnly
  <2>3. call'[c].step = step /\ call'[c].mode = call[c].mode /\ call'[c].source = at
    BY <1>1, <2>1 DEF GoTo, Typed, CallRecords
  <2>4. Matches(c, Dest[c])' <=> Matches(c, Dest[c])
    BY <2>1 DEF Matches
  <2>5. step = "discard" => call[c].mode = "single"
    BY <1>1, <2>1 DEF Course, Checked, At
  <2>6. TakenHaveFiles(c)' /\ Checked(c)'
    BY <2>3, <2>4, <2>5 DEF TakenHaveFiles, Checked, At
  <2>7. SourceOfMode(c)'
    BY <2>1, <2>3 DEF Course, SourceOfMode, Busy, At
  <2> QED BY <1>2, <1>3, <2>1, <2>2, <2>6, <2>7, GoToKeepsCourse DEF At
<1>10. CASE Discard(c)
  <2>1. At(c, "discard") /\ AttemptOver(c) /\ UNCHANGED <<data, blamed>>
        /\ name' = [name EXCEPT ![Dest[c]] = None]
    BY <1>10 DEF Discard
  <2>2. NamesMove(c) /\ BlamesOnly(c)
    BY <2>1, NameGoes DEF BlamesOnly
  <2>3. call[c].mode = "single" /\ at = 0 /\ Raced(call[c].mode) = {0}
    BY <2>1 DEF Course, Checked, SourceOfMode, At, Raced
  <2>4. LastSource(c)
    BY <2>3 DEF LastSource
  <2>5. Quiet(c)
    BY <1>1, <2>1, <2>3 DEF Quiet, Course, OthersDone, Outstanding, At
  <2> QED BY <2>1, <2>2, <2>4, <2>5, AttemptOverKeepsCourse DEF Course
<1> QED BY <1>5, <1>6, <1>7, <1>8, <1>9, <1>10 DEF CallStep

LEMMA StopKeepsStore == ASSUME Typed, Stop PROVE Store'
<1>1. \A p \in Paths : name'[p] \in {None, p}
  BY DEF Stop
<1>2. NamesApart'
  BY <1>1 DEF NamesApart
<1>3. \A t \in Tasks, p \in Paths : name'[p] # t
  BY <1>1, PathsAreNoTasks, FilesByKind
<1> QED BY <1>2, <1>3 DEF Store, Unopened

LEMMA StopKeepsCourse ==
  ASSUME Typed, Stop, NEW c \in Calls, Course(c)
  PROVE  Course(c)'
<1>1. \A n \in 1..Attempts, s \in 0..Sources : fetch'[<<c, n, s>>].step = "off"
  BY TriplesAreTasks, FreshRecords DEF Stop
<1>2. call'[c].step \in {"idle", "absent"} /\ (call'[c].source = 0 \/ call'[c] = call[c])
  BY StopLeaves
<1>3. OthersDone(c)' /\ LaterOff(c)' /\ WritesByName(c)' /\ AnswersHaveFiles(c)'
  BY <1>1 DEF OthersDone, LaterOff, WritesByName, AnswersHaveFiles, Done
<1>4. SourceOfMode(c)'
  BY <1>2 DEF Course, SourceOfMode, Busy
<1>5. TakenHaveFiles(c)' /\ Checked(c)'
  BY <1>2 DEF TakenHaveFiles, Checked, At
<1> QED BY <1>3, <1>4, <1>5 DEF Course

InCourse == Typed /\ Store /\ \A c \in Calls : Course(c)

LEMMA InitInCourse == ASSUME Init PROVE InCourse
<1>1. \A c \in Calls : call[c].step \in {"idle", "absent"} /\ call[c].source = 0
  BY DEF Init, NoCall, Absent
<1>2. \A t \in Tasks : fetch[t].step = "off"
  BY FreshRecords DEF Init
<1>3. Store
  BY FilesByKind DEF Init, Store, NamesApart, Unopened
<1>4. ASSUME NEW c \in Calls PROVE Course(c)
  <2>1. \A n \in 1..Attempts, s \in 0..Sources : fetch[<<c, n, s>>].step = "off"
    BY <1>2, TriplesAreTasks
  <2>2. OthersDone(c) /\ LaterOff(c) /\ WritesByName(c) /\ AnswersHaveFiles(c)
    BY <2>1 DEF OthersDone, LaterOff, WritesByName, AnswersHaveFiles, Done
  <2>3. TakenHaveFiles(c) /\ Checked(c) /\ SourceOfMode(c)
    BY <1>1 DEF TakenHaveFiles, Checked, SourceOfMode, At, Busy
  <2> QED BY <2>2, <2>3 DEF Course
<1> QED BY <1>3, <1>4, InitTyped DEF InCourse

LEMMA StepInCourse ==
  ASSUME ItemsApart, InCourse, [Next]_vars
  PROVE  InCourse'
<1>1. Typed'
  BY TypedInvariance DEF InCourse
<1>2. CASE UNCHANGED vars
  <2>1. Store'
    BY <1>2 DEF vars, InCourse, Store, NamesApart, Unopened
  <2>2. \A c \in Calls : Untouched(c)
    BY <1>2 DEF vars, Untouched, FileSame
  <2> QED BY <1>1, <2>1, <2>2, UntouchedCourse DEF InCourse
<1>3. ASSUME NEW c \in Calls, CallStep(c) PROVE Store' /\ \A d \in Calls : Course(d)'
  <2>1. Course(c)' /\ TurnsTo(c) /\ NamesMove(c) /\ BlamesOnly(c)
    BY <1>3, CallKeepsCourse DEF InCourse
  <2>2. Store' /\ \A d \in Calls : d # c => Untouched(d)
    BY <2>1, TurnsAside DEF InCourse
  <2>3. \A d \in Calls : d # c => Course(d)'
    BY <2>2, UntouchedCourse DEF InCourse
  <2> QED BY <2>1, <2>2, <2>3
<1>4. ASSUME NEW t \in Tasks, FetchStep(t) PROVE Store' /\ \A d \in Calls : Course(d)'
  <2>1. t[1] \in Calls
    BY TasksAreTriples
  <2>2. Store'
    BY <1>4, <2>1, FetchTouches, TaskWritesByName DEF InCourse, Course
  <2>3. \A d \in Calls : d # t[1] => Untouched(d)
    BY <1>4, <2>1, FetchLeavesOthers DEF InCourse
  <2>4. \A d \in Calls : d # t[1] => Course(d)'
    BY <2>3, UntouchedCourse DEF InCourse
  <2>5. Course(t[1])'
    BY <1>4, <2>1, FetchKeepsCourse DEF InCourse
  <2> QED BY <2>2, <2>4, <2>5
<1>5. ASSUME Stop PROVE Store' /\ \A d \in Calls : Course(d)'
  BY <1>5, StopKeepsStore, StopKeepsCourse DEF InCourse
<1> QED BY <1>1, <1>2, <1>3, <1>4, <1>5 DEF Next, InCourse

(* Once every download that has begun, of items with paths of their own,   *)
(* has reported success, every file under its final name is whole: neither a   *)
(* source that lost the race, nor a task of an earlier attempt, nor a file *)
(* that an earlier process left changes it afterwards (cache.rs,           *)
(* download_file and download_with_race).                                  *)
THEOREM ItemsInstalledWhole ==
  ASSUME ItemsApart
  PROVE  Spec => []InstalledIsWhole
<1>1. Init => InCourse
  BY InitInCourse
<1>2. InCourse /\ [Next]_vars => InCourse'
  BY StepInCourse
<1>3. InCourse => InstalledIsWhole
  BY DownloadAssumptions DEF InCourse, InstalledIsWhole, Begun, Course, Checked, Matches
<1> QED BY <1>1, <1>2, <1>3, PTL DEF Spec

-----------------------------------------------------------------------------
(* Items that are one file *)

AllTwins ==
  /\ Calls \subseteq Hashed
  /\ \A c, d \in Calls : Dest[c] = Dest[d]
  /\ \A batch \in Batches : \A c \in DOMAIN batch : batch[c] = "single"

OneSource(c) == call[c].mode = "single" /\ call[c].source = 0
(* Only a call that awaits a task has one, and it is the task it awaits.   *)
AwaitsTask(t) ==
  fetch[t].step \notin Done => At(t[1], "await") /\ t[2] = call[t[1]].attempt /\ t[3] = 0
AllOk == \A c \in Calls : Begun(c) => At(c, "ok")
WholeAtRest == AllOk => \A c \in Calls : Begun(c) => Matches(c, Dest[c])

InTwins ==
  /\ Typed
  /\ \A c \in Calls : OneSource(c)
  /\ \A t \in Tasks : AwaitsTask(t)
  /\ WholeAtRest

LEMMA InitInTwins == ASSUME AllTwins, Init PROVE InTwins
<1>1. \A c \in Calls : OneSource(c) /\ ~Begun(c)
  BY DEF Init, AllTwins, NoCall, Absent, OneSource, Begun
<1>2. \A t \in Tasks : AwaitsTask(t)
  BY FreshRecords DEF Init, AwaitsTask, Done
<1> QED BY <1>1, <1>2, InitTyped DEF InTwins, WholeAtRest

(* What a step of a call without tasks under way, or with one that has     *)
(* ended, makes of its call and its tasks.                                 *)
TwinTurn(c) ==
  /\ \A d \in Calls : d # c => call'[d] = call[d]
  /\ OneSource(c)' /\ Begun(c)'
  /\ \A t \in Tasks : fetch'[t] = fetch[t]
                    \/ (t[1] = c /\ At(c, "await")' /\ t[2] = call'[c].attempt /\ t[3] = 0)

LEMMA BeginTurns ==
  ASSUME Typed, NEW c \in Calls, OneSource(c), NEW n \in 1..Attempts, Begin(c, call[c].mode, n)
  PROVE  TwinTurn(c) /\ At(c, "await")'
<1>1. /\ call' = [call EXCEPT ![c] = [step |-> "await", mode |-> "single", attempt |-> n, source |-> 0]]
      /\ \A t \in Tasks : fetch'[t] = IF t[1] = c /\ t[2] = n /\ t[3] \in {0} THEN Requested ELSE fetch[t]
  BY DEF Begin, OneSource, Raced
<1> QED BY <1>1 DEF Typed, TwinTurn, OneSource, Begun, At

LEMMA GoToTurns ==
  ASSUME Typed, NEW c \in Calls, OneSource(c), NEW step, step \notin {"absent", "idle"},
         GoTo(c, step), UNCHANGED fetch
  PROVE  TwinTurn(c) /\ At(c, step)'
<1>1. call'[c].step = step /\ call'[c].mode = call[c].mode /\ call'[c].source = call[c].source
  BY DEF GoTo, Typed, CallRecords
<1>2. \A d \in Calls : d # c => call'[d] = call[d]
  BY DEF GoTo, Typed
<1> QED BY <1>1, <1>2 DEF TwinTurn, OneSource, Begun, At

LEMMA AttemptOverTurns ==
  ASSUME Typed, NEW c \in Calls, OneSource(c), AttemptOver(c)
  PROVE  TwinTurn(c) /\ ~At(c, "ok")'
<1>1. CASE call[c].attempt < Attempts
  <2>1. call[c].attempt + 1 \in 1..Attempts
    BY <1>1, DownloadAssumptions DEF Typed, CallRecords
  <2>2. Begin(c, call[c].mode, call[c].attempt + 1)
    BY <1>1 DEF AttemptOver
  <2> QED BY <2>1, <2>2, BeginTurns DEF At
<1>2. CASE ~(call[c].attempt < Attempts)
  BY <1>2, GoToTurns DEF AttemptOver, At
<1> QED BY <1>1, <1>2

LEMMA NextSourceTurns ==
  ASSUME Typed, NEW c \in Calls, OneSource(c), NextSource(c)
  PROVE  TwinTurn(c) /\ ~At(c, "ok")'
<1>1. call[c].source \notin 1..(Sources - 1)
  BY DEF OneSource
<1> QED BY <1>1, AttemptOverTurns DEF NextSource

LEMMA CallTurns ==
  ASSUME AllTwins, Typed, NEW c \in Calls, OneSource(c), CallStep(c)
  PROVE  TwinTurn(c) /\ (At(c, "ok")' => Matches(c, Dest[c])')
<1>0. c \in Hashed
  BY DEF AllTwins
<1>1. CASE DownloadFile(c)
  <2>1. CASE name[Dest[c]] # None /\ (c \in Hashed => Matches(c, Dest[c]))
    BY <1>0, <1>1, <2>1, GoToTurns DEF DownloadFile, Matches
  <2>2. CASE ~(name[Dest[c]] # None /\ (c \in Hashed => Matches(c, Dest[c])))
    <3>1. 1 \in 1..Attempts
      BY DownloadAssumptions
    <3>2. Begin(c, call[c].mode, 1)
      BY <1>1, <2>2 DEF DownloadFile
    <3> QED BY <3>1, <3>2, BeginTurns DEF At
  <2> QED BY <2>1, <2>2
<1>2. CASE AwaitSource(c)
  <2>1. CASE fetch[<<c, call[c].attempt, call[c].source>>].step = "failed"
    BY <1>2, <2>1, NextSourceTurns DEF AwaitSource
  <2>2. CASE fetch[<<c, call[c].attempt, call[c].source>>].step # "failed"
    <3>1. GoTo(c, "rename") /\ UNCHANGED fetch
      BY <1>2, <2>2 DEF AwaitSource, OneSource
    <3> QED BY <3>1, GoToTurns DEF At
  <2> QED BY <2>1, <2>2
<1>3. CASE DropPartial(c)
  BY <1>3, NextSourceTurns DEF DropPartial
<1>4. CASE Rename(c)
  <2>1. AttemptOver(c) \/ (GoTo(c, "verify") /\ UNCHANGED fetch)
    BY <1>4 DEF Rename
  <2> QED BY <2>1, AttemptOverTurns, GoToTurns DEF At
<1>5. CASE Verify(c)
  <2>1. CASE Matches(c, Dest[c])
    BY <1>5, <2>1, GoToTurns DEF Verify, Matches
  <2>2. CASE ~Matches(c, Dest[c])
    <3>1. (GoTo(c, "failed") \/ GoTo(c, "discard")) /\ UNCHANGED fetch
      BY <1>0, <1>5, <2>2 DEF Verify
    <3> QED BY <3>1, GoToTurns DEF At
  <2> QED BY <2>1, <2>2
<1>6. CASE Discard(c)
  BY <1>6, AttemptOverTurns DEF Discard
<1> QED BY <1>1, <1>2, <1>3, <1>4, <1>5, <1>6 DEF CallStep

(* The task under way is the awaited one, which a call at rest has not.    *)
LEMMA NoTaskAtTurn ==
  ASSUME Typed, NEW c \in Calls, OneSource(c), CallStep(c), NEW t \in Tasks, AwaitsTask(t), t[1] = c
  PROVE  fetch[t].step \in Done
<1> SUFFICES ASSUME fetch[t].step \notin Done PROVE FALSE
  OBVIOUS
<1>1. At(c, "await") /\ t = <<c, call[c].attempt, call[c].source>>
  BY TasksAreTriples DEF AwaitsTask, OneSource
<1>2. AwaitSource(c)
  BY <1>1 DEF CallStep, DownloadFile, DropPartial, Rename, Verify, Discard, At
<1> QED BY <1>1, <1>2 DEF AwaitSource, Done

LEMMA StepInTwins ==
  ASSUME AllTwins, InTwins, [Next]_vars
  PROVE  InTwins'
<1>1. Typed'
  BY TypedInvariance DEF InTwins
<1>2. CASE UNCHANGED vars
  BY <1>1, <1>2 DEF vars, InTwins, OneSource, AwaitsTask, WholeAtRest, AllOk, Begun, At, Matches
<1>3. ASSUME NEW c \in Calls, CallStep(c) PROVE InTwins'
  <2>1. TwinTurn(c) /\ (At(c, "ok")' => Matches(c, Dest[c])')
    BY <1>3, CallTurns DEF InTwins
  <2>2. \A d \in Calls : OneSource(d)'
    BY <2>1 DEF TwinTurn, InTwins, OneSource
  <2>3. ASSUME NEW t \in Tasks PROVE AwaitsTask(t)'
    <3>1. t[1] \in Calls
      BY TasksAreTriples
    <3>2. CASE t[1] # c
      BY <2>1, <3>1, <3>2 DEF TwinTurn, InTwins, AwaitsTask, At
    <3>3. CASE t[1] = c
      BY <1>3, <2>1, <3>3, NoTaskAtTurn DEF TwinTurn, InTwins, AwaitsTask, At
    <3> QED BY <3>2, <3>3
  <2>4. WholeAtRest'
    <3> SUFFICES ASSUME AllOk', NEW d \in Calls PROVE Matches(d, Dest[d])'
      BY DEF WholeAtRest
    <3>1. At(c, "ok")'
      BY <2>1 DEF TwinTurn, AllOk
    <3>2. Dest[d] = Dest[c]
      BY DEF AllTwins
    <3> QED BY <2>1, <3>1, <3>2 DEF Matches
  <2> QED BY <1>1, <2>2, <2>3, <2>4 DEF InTwins
<1>4. ASSUME NEW t \in Tasks, FetchStep(t) PROVE InTwins'
  <2>1. t[1] \in Calls /\ UNCHANGED call
    BY <1>4, TasksAreTriples DEF FetchStep, Request, Open, Receive
  <2>2. \A u \in Tasks : u # t => fetch'[u] = fetch[u]
    <3>1. fetch \in [Tasks -> FetchRecords]
      BY DEF InTwins, Typed
    <3>2. CASE Request(t)
      BY <3>1, <3>2 DEF Request, Opened, Break
    <3>3. CASE Open(t)
      BY <3>1, <3>3 DEF Open
    <3>4. CASE Receive(t)
      BY <3>1, <3>4 DEF Receive, Break
    <3> QED BY <1>4, <3>2, <3>3, <3>4 DEF FetchStep
  <2>3. fetch[t].step \notin Done
    BY <1>4 DEF FetchStep, Request, Open, Receive, Done
  <2>4. At(t[1], "await") /\ t[2] = call[t[1]].attempt /\ t[3] = 0
    BY <2>3 DEF InTwins, AwaitsTask
  <2>5. \A u \in Tasks : AwaitsTask(u)'
    BY <2>1, <2>2, <2>4 DEF InTwins, AwaitsTask, At
  <2>6. ~AllOk'
    BY <2>1, <2>4 DEF AllOk, Begun, At
  <2> QED BY <1>1, <2>1, <2>5, <2>6 DEF InTwins, OneSource, WholeAtRest
<1>5. ASSUME Stop PROVE InTwins'
  <2>1. \A c \in Calls : OneSource(c)' /\ ~Begun(c)'
    BY <1>5 DEF Stop, NoCall, InTwins, OneSource, Begun
  <2>2. \A t \in Tasks : AwaitsTask(t)'
    BY <1>5, FreshRecords DEF Stop, AwaitsTask, Done
  <2> QED BY <1>1, <2>1, <2>2 DEF InTwins, WholeAtRest
<1> QED BY <1>2, <1>3, <1>4, <1>5 DEF Next

(* Several downloads of one file, each from one source, resume, truncate,  *)
(* rename and delete the same files; yet once all that have begun have     *)
(* reported success, the file is whole: the last of them to find it so did *)
(* when no task of any of them was left (cache.rs, download_file).         *)
THEOREM TwinsInstalledWhole ==
  ASSUME AllTwins
  PROVE  Spec => []InstalledIsWhole
<1>1. Init => InTwins
  BY InitInTwins
<1>2. InTwins /\ [Next]_vars => InTwins'
  BY StepInTwins
<1>3. InTwins => InstalledIsWhole
  BY DEF InTwins, WholeAtRest, AllOk, InstalledIsWhole, Matches
<1> QED BY <1>1, <1>2, <1>3, PTL DEF Spec

-----------------------------------------------------------------------------
(* What a source that did its work has left behind *)

First(d, n) == [i \in 1..n |-> <<d, i>>]

Blameless(c, s) == s \in Raced(call[c].mode) /\ <<c, s>> \notin blamed

(* Of an outstanding task: it goes on, and from the second attempt on it   *)
(* has begun with no file and written the item from its first chunk on.    *)
Trusted(c, s, f) ==
  /\ f.step \in {"request", "open", "write", "ok"}
  /\ f.step = "request" => Length(PartialOf(c, s)) < Size
  /\ f.step = "open" /\ f.append => name[PartialOf(c, s)] # None
TrustedAgain(c, s, f) ==
  /\ f.step = "request" => name[PartialOf(c, s)] = None
  /\ f.step = "open" => ~f.append /\ f.next = 1
  /\ f.step = "write" => ~f.append /\ data[name[PartialOf(c, s)]] = First(Dest[c], f.next - 1)
  /\ f.step = "ok" => data[name[PartialOf(c, s)]] = Whole(Dest[c])

CauseOutstanding(c, s) ==
  call[c].step \in Busy /\ Outstanding(c, call[c].attempt, s) =>
    /\ Trusted(c, s, fetch[<<c, call[c].attempt, s>>])
    /\ call[c].attempt > 1 => TrustedAgain(c, s, fetch[<<c, call[c].attempt, s>>])
(* A source that the call has done with had a file of an earlier process,  *)
(* which is gone.                                                          *)
CausePassed(c, s) ==
  call[c].step \in Busy /\ s < call[c].source => call[c].attempt = 1 /\ name[PartialOf(c, s)] = None
CauseAtHand(c, s) ==
  s = call[c].source =>
    /\ At(c, "drop") => call[c].attempt = 1
    /\ At(c, "rename") => call[c].attempt = 1 \/ Matches(c, Partial(c))
    /\ At(c, "verify") => name[PartialOf(c, s)] = None /\ (call[c].attempt = 1 \/ Matches(c, Dest[c]))
    /\ At(c, "discard") => name[PartialOf(c, s)] = None /\ call[c].attempt = 1

Cause(c) ==
  c \in Hashed =>
    \A s \in 0..Sources : Blameless(c, s) =>
      CauseOutstanding(c, s) /\ CausePassed(c, s) /\ CauseAtHand(c, s) /\ ~At(c, "failed")

LEMMA SameLength ==
  ASSUME NEW p, FileSame(p)
  PROVE  Length(p)' = Length(p)
BY DEF Length, FileSame

LEMMA UntouchedCause ==
  ASSUME Typed, NEW c \in Calls, Untouched(c), Course(c), Cause(c)
  PROVE  Cause(c)'
<1> SUFFICES ASSUME c \in Hashed, NEW s \in 0..Sources, Blameless(c, s)'
             PROVE  /\ CauseOutstanding(c, s)' /\ CausePassed(c, s)' /\ CauseAtHand(c, s)'
                    /\ ~At(c, "failed")'
  BY DEF Cause
<1>1. /\ Blameless(c, s) /\ CauseOutstanding(c, s) /\ CausePassed(c, s) /\ CauseAtHand(c, s)
      /\ ~At(c, "failed")
  BY DEF Cause, Blameless, Untouched
<1>2. call[c].attempt \in 1..Attempts /\ Partial(c) = PartialOf(c, call[c].source) /\ call[c].source \in 0..Sources
  BY PartialAtHand
<1>3. call'[c] = call[c] /\ FileSame(PartialOf(c, s)) /\ FileSame(Dest[c]) /\ FileSame(Partial(c))
      /\ fetch'[<<c, call[c].attempt, s>>] = fetch[<<c, call[c].attempt, s>>]
  BY <1>2 DEF Untouched
<1>4. Partial(c)' = Partial(c) /\ PartialOf(c, s)' = PartialOf(c, s)
  BY <1>3 DEF Partial, PartialOf
<1>5. CauseOutstanding(c, s)'
  <2> SUFFICES ASSUME call[c].step \in Busy, Outstanding(c, call[c].attempt, s)
               PROVE  /\ Trusted(c, s, fetch[<<c, call[c].attempt, s>>])'
                      /\ call[c].attempt > 1 => TrustedAgain(c, s, fetch[<<c, call[c].attempt, s>>])'
    BY <1>3 DEF CauseOutstanding, Outstanding
  <2>1. fetch[<<c, call[c].attempt, s>>].step \in {"write", "ok"} => name[PartialOf(c, s)] # None
    BY <1>2 DEF Course, WritesByName, AnswersHaveFiles
  <2>2. /\ Trusted(c, s, fetch[<<c, call[c].attempt, s>>])
        /\ call[c].attempt > 1 => TrustedAgain(c, s, fetch[<<c, call[c].attempt, s>>])
    BY <1>1 DEF CauseOutstanding
  <2> QED BY <1>3, <2>1, <2>2, SameLength DEF Trusted, TrustedAgain, FileSame, PartialOf
<1>6. CausePassed(c, s)' /\ ~At(c, "failed")'
  BY <1>1, <1>3, <1>4 DEF CausePassed, FileSame, At
<1>7. CauseAtHand(c, s)'
  <2>1. (Matches(c, Dest[c])' <=> Matches(c, Dest[c])) /\ (Matches(c, Partial(c))' <=> Matches(c, Partial(c)))
    BY <1>3, <1>4 DEF Matches, FileSame
  <2> QED BY <1>1, <1>3, <1>4, <2>1 DEF CauseAtHand, FileSame, At
<1> QED BY <1>5, <1>6, <1>7

LEMMA FirstOfNone == ASSUME NEW d PROVE First(d, 0) = <<>>
BY DEF First

LEMMA WrittenNext ==
  ASSUME NEW d, NEW k \in Nat \ {0}
  PROVE  Written(First(d, k - 1), <<d, k>>, FALSE) = First(d, k)
<1> DEFINE old == First(d, k - 1)
<1>1. Len(old) = k - 1
  BY DEF First
<1>2. \A i \in 1..(k - 1) : old[i] = <<d, i>>
  BY DEF First
<1> HIDE DEF old
<1>3. (IF Len(old) < <<d, k>>[2] THEN <<d, k>>[2] ELSE Len(old)) = k
  BY <1>1
<1>4. \A i \in 1..k : (IF i = <<d, k>>[2] THEN <<d, k>> ELSE IF i <= Len(old) THEN old[i] ELSE Hole) = <<d, i>>
  BY <1>1, <1>2
<1>5. Written(old, <<d, k>>, FALSE)
        = [i \in 1..k |-> IF i = <<d, k>>[2] THEN <<d, k>> ELSE IF i <= Len(old) THEN old[i] ELSE Hole]
  BY <1>3 DEF Written
<1>6. [i \in 1..k |-> IF i = <<d, k>>[2] THEN <<d, k>> ELSE IF i <= Len(old) THEN old[i] ELSE Hole]
        = [i \in 1..k |-> <<d, i>>]
  BY <1>4
<1> QED BY <1>5, <1>6 DEF First, old

LEMMA FetchKeepsCause ==
  ASSUME ItemsApart, Typed, Store, NEW t \in Tasks, FetchStep(t), Course(t[1]), Cause(t[1])
  PROVE  Cause(t[1])'
<1> DEFINE c == t[1]
           n == t[2]
           s == t[3]
           p == From(t)
<1>1. /\ call' = call
      /\ \A u \in Tasks : u # t => fetch'[u] = fetch[u]
      /\ fetch[t].step \in {"request", "open", "write"}
      /\ \A q \in Paths : q # From(t) => FileSame(q)
      /\ blamed' = blamed \/ blamed' = blamed \cup {<<t[1], t[3]>>}
  BY FetchTouches, TaskWritesByName DEF Course
<1>2. c \in Calls /\ n \in 1..Attempts /\ s \in 0..Sources /\ t = <<c, n, s>> /\ p = PartialOf(c, s)
      /\ p \in Paths /\ fetch[t] \in FetchRecords
  BY TasksAreTriples, PathsOfTasks DEF From, PartialOf, Typed
<1>3. Outstanding(c, n, s) /\ n = call[c].attempt
  BY <1>1, TaskIsOutstanding DEF Course, Outstanding
<1>4. call[c].source \in 0..Sources /\ call[c].attempt \in 1..Attempts
      /\ Partial(c) = PartialOf(c, call[c].source) /\ Partial(c)' = Partial(c)
  BY <1>1, <1>2, PartialAtHand DEF Partial
<1>5. FileSame(Dest[c])
  BY <1>1, <1>2, PathsApart, PathsOfCalls
<1> SUFFICES ASSUME c \in Hashed, NEW r \in 0..Sources, Blameless(c, r)'
             PROVE  /\ CauseOutstanding(c, r)' /\ CausePassed(c, r)' /\ CauseAtHand(c, r)'
                    /\ ~At(c, "failed")'
  BY DEF Cause
<1>6. /\ Blameless(c, r) /\ CauseOutstanding(c, r) /\ CausePassed(c, r) /\ CauseAtHand(c, r)
      /\ ~At(c, "failed")
  BY <1>1, <1>2 DEF Cause, Blameless
<1>7. Matches(c, Dest[c])' <=> Matches(c, Dest[c])
  BY <1>5 DEF Matches, FileSame
<1>8. ~At(c, "failed")'
  BY <1>1, <1>6 DEF At
<1>9. CASE r # s
  <2>1. FileSame(PartialOf(c, r)) /\ PartialOf(c, r)' = PartialOf(c, r)
    BY <1>1, <1>2, <1>9, PathsApart, PathsOfCalls DEF PartialOf
  <2>2. fetch'[<<c, n, r>>] = fetch[<<c, n, r>>]
    BY <1>1, <1>2, <1>9, TriplesAreTasks
  <2>3. CauseOutstanding(c, r)'
    <3> SUFFICES ASSUME call[c].step \in Busy, Outstanding(c, n, r)
                 PROVE  /\ Trusted(c, r, fetch[<<c, n, r>>])'
                        /\ n > 1 => TrustedAgain(c, r, fetch[<<c, n, r>>])'
      BY <1>1, <1>3 DEF CauseOutstanding, Outstanding
    <3>1. fetch[<<c, n, r>>].step \in {"write", "ok"} => name[PartialOf(c, r)] # None
      BY <1>2 DEF Course, WritesByName, AnswersHaveFiles
    <3>2. Trusted(c, r, fetch[<<c, n, r>>]) /\ (n > 1 => TrustedAgain(c, r, fetch[<<c, n, r>>]))
      BY <1>3, <1>6 DEF CauseOutstanding
    <3> QED BY <2>1, <2>2, <3>1, <3>2, SameLength DEF Trusted, TrustedAgain, FileSame, PartialOf
  <2>4. CausePassed(c, r)'
    BY <1>1, <1>6, <2>1 DEF CausePassed, FileSame
  <2>5. r = call[c].source => (Matches(c, Partial(c))' <=> Matches(c, Partial(c)))
    BY <1>4, <2>1 DEF Matches, FileSame
  <2>6. CauseAtHand(c, r)'
    BY <1>1, <1>6, <1>7, <2>1, <2>5 DEF CauseAtHand, FileSame, At
  <2> QED BY <1>8, <2>3, <2>4, <2>6
<1>10. CASE r = s
  <2>1. ~(s < call[c].source) /\ (s = call[c].source => At(c, "await"))
    BY <1>2, <1>3, <1>4 DEF Outstanding, At
  <2>2. CausePassed(c, r)' /\ CauseAtHand(c, r)'
    BY <1>1, <1>10, <2>1 DEF CausePassed, CauseAtHand, At
  <2>3. CauseOutstanding(c, r)'
    <3> SUFFICES ASSUME call[c].step \in Busy
                 PROVE  Trusted(c, s, fetch[t])' /\ (n > 1 => TrustedAgain(c, s, fetch[t])')
      BY <1>1, <1>2, <1>3, <1>10 DEF CauseOutstanding, Outstanding
    <3>1. Trusted(c, s, fetch[t]) /\ (n > 1 => TrustedAgain(c, s, fetch[t]))
      BY <1>2, <1>3, <1>6, <1>10 DEF CauseOutstanding
    <3>2. <<c, s>> \notin blamed'
      BY <1>10 DEF Blameless
    <3>3. PartialOf(c, s)' = p
      BY <1>2 DEF PartialOf, From
    <3>4. Length(p) \in Nat /\ Size \in Nat
      BY <1>2, LengthIsNatural, DownloadAssumptions
    <3>5. CASE Request(t)
      <4>1. fetch[t].step = "request" /\ Length(p) < Size /\ UNCHANGED <<name, data>>
        BY <1>2, <3>1, <3>5 DEF Request, Trusted
      <4>2. Opened(t, Length(p) + 1)
        BY <3>2, <3>4, <3>5, <4>1 DEF Request, Break, Blame
      <4>3. fetch'[t] = [step |-> "open", file |-> None, append |-> Length(p) > 0, next |-> Length(p) + 1]
        BY <1>2, <4>2 DEF Opened, Typed
      <4>4. name[p] = None => Length(p) = 0
        BY DEF Length
      <4>5. n > 1 => name[p] = None
        BY <1>2, <3>1, <4>1 DEF TrustedAgain
      <4>6. fetch'[t].step = "open" /\ (fetch'[t].append <=> Length(p) > 0) /\ fetch'[t].next = Length(p) + 1
        <5> DEFINE append == Length(p) > 0
        <5>1. append \in BOOLEAN
          OBVIOUS
        <5>2. fetch'[t] = [step |-> "open", file |-> None, append |-> append, next |-> Length(p) + 1]
          BY <4>3
        <5> HIDE DEF append
        <5>3. fetch'[t].step = "open" /\ fetch'[t].append = append /\ fetch'[t].next = Length(p) + 1
          BY <5>2
        <5> QED BY <5>3 DEF append
      <4>7. Trusted(c, s, fetch[t])'
        BY <3>3, <4>1, <4>4, <4>6 DEF Trusted
      <4>8. n > 1 => TrustedAgain(c, s, fetch[t])'
        BY <4>4, <4>5, <4>6 DEF TrustedAgain
      <4> QED BY <4>7, <4>8
    <3>6. CASE Open(t)
      <4>1. fetch[t].step = "open"
        BY <3>6 DEF Open
      <4>2. CASE fetch[t].append
        <5>1. name[p] # None /\ ~(n > 1)
          BY <1>2, <3>1, <4>1, <4>2 DEF Trusted, TrustedAgain
        <5>2. fetch'[t].step = "write"
          BY <1>2, <3>6, <4>2, <5>1 DEF Open, Typed, FetchRecords
        <5> QED BY <5>1, <5>2 DEF Trusted
      <4>3. CASE ~fetch[t].append
        <5> DEFINE file == IF name[p] = None THEN t ELSE name[p]
        <5>1. fetch' = [fetch EXCEPT ![t].step = "write", ![t].file = file]
              /\ name' = [name EXCEPT ![p] = file] /\ data' = [data EXCEPT ![file] = <<>>]
          BY <3>6, <4>3 DEF Open
        <5>2. file \in Files
          BY <1>2, FilesByKind DEF Typed
        <5> HIDE DEF file
        <5>3. fetch'[t].step = "write" /\ (fetch'[t].append <=> fetch[t].append) /\ fetch'[t].next = fetch[t].next
          BY <1>2, <5>1 DEF Typed, FetchRecords
        <5>4. name'[p] = file /\ data'[file] = <<>>
          BY <1>2, <5>1, <5>2 DEF Typed
        <5>5. n > 1 => fetch[t].next = 1
          BY <3>1, <4>1 DEF TrustedAgain
        <5>6. Trusted(c, s, fetch[t])'
          BY <5>3 DEF Trusted
        <5>7. n > 1 => TrustedAgain(c, s, fetch[t])'
          BY <3>3, <4>3, <5>3, <5>4, <5>5, FirstOfNone DEF TrustedAgain
        <5> QED BY <5>6, <5>7
      <4> QED BY <4>2, <4>3
    <3>7. CASE Receive(t)
      <4> DEFINE f == fetch[t]
                 next == IF f.next = Size THEN [NoFetch EXCEPT !.step = "ok"] ELSE [f EXCEPT !.next = @ + 1]
      <4>1. f.step = "write" /\ f.file = name[p] /\ name' = name /\ f.file \in Files
        BY <3>7, TaskWritesByName DEF Receive, Course, Typed
      <4>2. /\ data' = [data EXCEPT ![f.file] = Written(@, <<Dest[c], f.next>>, f.append)]
            /\ fetch' = [fetch EXCEPT ![t] = next]
        BY <3>2, <3>7 DEF Receive, Break, Blame
      <4>3. fetch'[t] = next /\ data'[name[p]] = Written(data[name[p]], <<Dest[c], f.next>>, f.append)
        BY <1>2, <4>1, <4>2 DEF Typed
      <4>4. f \in FetchRecords /\ f.next \in 1..Size
        BY <1>2 DEF FetchRecords
      <4>5. f.next = Size => next.step = "ok"
        BY FreshRecords
      <4>6. f.next # Size => next.step = "write" /\ (next.append <=> f.append) /\ next.next = f.next + 1
        BY <4>1, <4>4 DEF FetchRecords
      <4>7. Trusted(c, s, fetch[t])'
        BY <4>3, <4>5, <4>6 DEF Trusted
      <4>8. ASSUME n > 1 PROVE TrustedAgain(c, s, fetch[t])'
        <5>1. (f.append = FALSE) /\ data[name[p]] = First(Dest[c], f.next - 1)
          <6>1. ~f.append /\ data[name[p]] = First(Dest[c], f.next - 1)
            BY <1>2, <3>1, <4>1, <4>8 DEF TrustedAgain
          <6>2. f.append \in BOOLEAN
            BY <4>4 DEF FetchRecords
          <6> QED BY <6>1, <6>2
        <5>2. f.next \in Nat \ {0}
          BY <3>4, <4>4
        <5>3. data'[name'[p]] = First(Dest[c], f.next)
          BY <4>1, <4>3, <5>1, <5>2, WrittenNext
        <5> HIDE DEF f, next
        <5>4. CASE f.next = Size
          <6>1. First(Dest[c], Size) = Whole(Dest[c])
            BY DEF First, Whole
          <6> QED BY <3>3, <4>3, <4>5, <5>3, <5>4, <6>1 DEF TrustedAgain
        <5>5. CASE f.next # Size
          <6>1. next.next - 1 = f.next
            BY <4>6, <5>2, <5>5
          <6> QED BY <3>3, <4>3, <4>6, <5>1, <5>3, <5>5, <6>1 DEF TrustedAgain
        <5> QED BY <5>4, <5>5
      <4> QED BY <4>7, <4>8
    <3> QED BY <3>5, <3>6, <3>7 DEF FetchStep
  <2> QED BY <1>8, <2>2, <2>3
<1> QED BY <1>9, <1>10

LEMMA BeginKeepsCause ==
  ASSUME Typed, NEW c \in Calls, NEW n \in 1..Attempts, Begin(c, call[c].mode, n),
         \A s \in Raced(call[c].mode) : <<c, s>> \notin blamed' =>
           Length(PartialOf(c, s))' < Size /\ (n > 1 => name'[PartialOf(c, s)] = None)
  PROVE  Cause(c)'
<1> DEFINE mode == call[c].mode
<1>1. mode \in {"single", "race"}
  BY DEF Typed, CallRecords
<1>2. /\ call'[c].step = "await" /\ call'[c].mode = mode /\ call'[c].attempt = n
      /\ call'[c].source = (IF mode = "single" THEN 0 ELSE 1)
      /\ \A s \in 0..Sources : s \in Raced(mode) => fetch'[<<c, n, s>>] = Requested
  BY <1>1, BeginShape
<1> SUFFICES ASSUME NEW s \in 0..Sources, Blameless(c, s)'
             PROVE  /\ CauseOutstanding(c, s)' /\ CausePassed(c, s)' /\ CauseAtHand(c, s)'
                    /\ ~At(c, "failed")'
  BY DEF Cause
<1>3. s \in Raced(mode) /\ <<c, s>> \notin blamed' /\ fetch'[<<c, n, s>>].step = "request"
  BY <1>2, FreshRecords DEF Blameless
<1>4. Length(PartialOf(c, s))' < Size /\ (n > 1 => name'[PartialOf(c, s)'] = None)
  BY <1>3 DEF PartialOf
<1>5. CauseOutstanding(c, s)'
  BY <1>2, <1>3, <1>4 DEF CauseOutstanding, Trusted, TrustedAgain
<1>6. ~(s < call'[c].source)
  <2>1. CASE mode = "single"
    BY <1>2, <2>1
  <2>2. CASE mode = "race"
    <3>1. s \in 1..Sources /\ call'[c].source = 1
      BY <1>2, <1>3, <2>2 DEF Raced
    <3> QED BY <3>1, DownloadAssumptions
  <2> QED BY <1>1, <2>1, <2>2
<1> QED BY <1>2, <1>5, <1>6 DEF CausePassed, CauseAtHand, At

LEMMA AttemptOverKeepsCause ==
  ASSUME Attempts > 1, Typed, NEW c \in Calls, AttemptOver(c), UNCHANGED blamed,
         \A s \in Raced(call[c].mode) : <<c, s>> \notin blamed =>
           call[c].attempt = 1 /\ name'[PartialOf(c, s)] = None
  PROVE  Cause(c)'
<1>1. call[c].attempt \in 1..Attempts /\ Attempts \in Nat /\ Size \in Nat \ {0}
  BY PartialAtHand, DownloadAssumptions
<1>2. CASE call[c].attempt < Attempts
  <2>1. call[c].attempt + 1 \in 1..Attempts /\ Begin(c, call[c].mode, call[c].attempt + 1)
    BY <1>1, <1>2 DEF AttemptOver
  <2>2. \A s \in Raced(call[c].mode) : <<c, s>> \notin blamed' =>
          Length(PartialOf(c, s))' < Size /\ name'[PartialOf(c, s)] = None
    BY <1>1 DEF Length, PartialOf
  <2> QED BY <2>1, <2>2, BeginKeepsCause
<1>3. CASE ~(call[c].attempt < Attempts)
  <2>1. call'[c].mode = call[c].mode
    BY <1>3 DEF AttemptOver, GoTo, Typed, CallRecords
  <2>2. \A s \in 0..Sources : ~Blameless(c, s)'
    BY <1>1, <1>3, <2>1 DEF Blameless
  <2> QED BY <2>2 DEF Cause
<1> QED BY <1>2, <1>3

LEMMA NextSourceKeepsCause ==
  ASSUME Attempts > 1, Typed, NEW c \in Calls, Course(c), Cause(c), NextSource(c), UNCHANGED blamed,
         c \in Hashed,
         call[c].step \in {"await", "drop"},
         \A s \in 0..Sources : s # call[c].source => FileSame(PartialOf(c, s)),
         Blameless(c, call[c].source) =>
           call[c].attempt = 1 /\ name'[PartialOf(c, call[c].source)] = None
  PROVE  Cause(c)'
<1> DEFINE at == call[c].source
           n == call[c].attempt
<1>1. at \in 0..Sources /\ n \in 1..Attempts /\ call[c] \in CallRecords /\ call[c].mode \in {"single", "race"}
  BY PartialAtHand DEF Typed
<1>2. call[c].step \in Busy
  BY DEF Busy
<1>3. \A s \in 0..Sources : Blameless(c, s) /\ s <= at => n = 1 /\ name'[PartialOf(c, s)] = None
  <2> SUFFICES ASSUME NEW s \in 0..Sources, Blameless(c, s), s < at
               PROVE  n = 1 /\ name'[PartialOf(c, s)] = None
    BY <1>1
  <2>1. n = 1 /\ name[PartialOf(c, s)] = None
    BY <1>2 DEF Cause, CausePassed
  <2>2. FileSame(PartialOf(c, s))
    BY <1>1
  <2> QED BY <2>1, <2>2 DEF FileSame
<1>4. CASE at \in 1..(Sources - 1)
  <2>1. call' = [call EXCEPT ![c].step = "await", ![c].source = @ + 1] /\ fetch' = fetch
    BY <1>4 DEF NextSource
  <2>2. call'[c].step = "await" /\ call'[c].mode = call[c].mode /\ call'[c].attempt = n
        /\ call'[c].source = at + 1
    BY <1>1, <2>1 DEF Typed, CallRecords
  <2> SUFFICES ASSUME NEW s \in 0..Sources, Blameless(c, s)'
               PROVE  /\ CauseOutstanding(c, s)' /\ CausePassed(c, s)' /\ CauseAtHand(c, s)'
                      /\ ~At(c, "failed")'
    BY DEF Cause
  <2>3. Blameless(c, s) /\ PartialOf(c, s)' = PartialOf(c, s)
    BY <2>2 DEF Blameless, PartialOf
  <2>4. CausePassed(c, s)'
    BY <1>1, <1>3, <2>2, <2>3 DEF CausePassed
  <2>5. CauseAtHand(c, s)' /\ ~At(c, "failed")'
    BY <2>2 DEF CauseAtHand, At
  <2>6. CauseOutstanding(c, s)'
    <3> SUFFICES ASSUME s > at, s \in Raced(call[c].mode)
                 PROVE  /\ Trusted(c, s, fetch[<<c, n, s>>])'
                        /\ n > 1 => TrustedAgain(c, s, fetch[<<c, n, s>>])'
      BY <1>1, <2>1, <2>2 DEF CauseOutstanding, Outstanding
    <3>1. Outstanding(c, n, s)
      BY <1>2 DEF Outstanding, Busy
    <3>2. FileSame(PartialOf(c, s))
      BY <1>1
    <3>3. Trusted(c, s, fetch[<<c, n, s>>]) /\ (n > 1 => TrustedAgain(c, s, fetch[<<c, n, s>>]))
      BY <1>2, <2>3, <3>1 DEF Cause, CauseOutstanding
    <3>4. fetch[<<c, n, s>>].step \in {"write", "ok"} => name[PartialOf(c, s)] # None
      BY <1>1, <3>1 DEF Course, WritesByName, AnswersHaveFiles
    <3> QED BY <2>1, <2>2, <3>2, <3>3, <3>4, SameLength DEF Trusted, TrustedAgain, FileSame, PartialOf
  <2> QED BY <2>4, <2>5, <2>6
<1>5. CASE at \notin 1..(Sources - 1)
  <2>1. LastSource(c)
    BY <1>2, <1>5, SourcesAfterLast DEF Course
  <2>2. \A s \in Raced(call[c].mode) : <<c, s>> \notin blamed =>
          n = 1 /\ name'[PartialOf(c, s)] = None
    BY <1>1, <1>3, <2>1, RacedSources DEF LastSource, Blameless
  <2> QED BY <1>5, <2>2, AttemptOverKeepsCause DEF NextSource
<1> QED BY <1>4, <1>5

LEMMA GoToKeepsCause ==
  ASSUME Typed, NEW c \in Calls, Course(c), Cause(c), c \in Hashed, NEW step, GoTo(c, step),
         UNCHANGED <<fetch, blamed>>, call[c].step \in Busy, step \notin {"idle", "await", "failed"},
         \A s \in 0..Sources : s # call[c].source => FileSame(PartialOf(c, s)),
         \A s \in 0..Sources : s = call[c].source /\ Blameless(c, s) => CauseAtHand(c, s)'
  PROVE  Cause(c)'
<1> DEFINE at == call[c].source
           n == call[c].attempt
<1>1. at \in 0..Sources /\ n \in 1..Attempts /\ call[c] \in CallRecords
  BY PartialAtHand DEF Typed
<1>2. call'[c].step = step /\ call'[c].mode = call[c].mode /\ call'[c].attempt = n /\ call'[c].source = at
  BY <1>1 DEF GoTo, Typed, CallRecords
<1> SUFFICES ASSUME NEW s \in 0..Sources, Blameless(c, s)'
             PROVE  /\ CauseOutstanding(c, s)' /\ CausePassed(c, s)' /\ CauseAtHand(c, s)'
                    /\ ~At(c, "failed")'
  BY DEF Cause
<1>3. Blameless(c, s) /\ PartialOf(c, s)' = PartialOf(c, s)
  BY <1>2 DEF Blameless, PartialOf
<1>4. CausePassed(c, s)'
  <2> SUFFICES ASSUME s < at PROVE n = 1 /\ name'[PartialOf(c, s)] = None
    BY <1>2, <1>3 DEF CausePassed
  <2>1. FileSame(PartialOf(c, s))
    BY <1>1
  <2>2. n = 1 /\ name[PartialOf(c, s)] = None
    BY <1>3 DEF Cause, CausePassed
  <2> QED BY <2>1, <2>2 DEF FileSame
<1>5. CauseAtHand(c, s)'
  <2>1. CASE s = at
    BY <1>3, <2>1
  <2>2. CASE s # at
    BY <1>2, <2>2 DEF CauseAtHand
  <2> QED BY <2>1, <2>2
<1>6. CauseOutstanding(c, s)'
  <2> SUFFICES ASSUME s > at, s \in Raced(call[c].mode)
               PROVE  /\ Trusted(c, s, fetch[<<c, n, s>>])'
                      /\ n > 1 => TrustedAgain(c, s, fetch[<<c, n, s>>])'
    BY <1>1, <1>2 DEF CauseOutstanding, Outstanding
  <2>1. Outstanding(c, n, s)
    BY DEF Outstanding, Busy
  <2>2. FileSame(PartialOf(c, s))
    BY <1>1
  <2>3. Trusted(c, s, fetch[<<c, n, s>>]) /\ (n > 1 => TrustedAgain(c, s, fetch[<<c, n, s>>]))
    BY <1>3, <2>1 DEF Cause, CauseOutstanding
  <2>4. fetch[<<c, n, s>>].step \in {"write", "ok"} => name[PartialOf(c, s)] # None
    BY <1>1, <2>1 DEF Course, WritesByName, AnswersHaveFiles
  <2> QED BY <1>2, <2>2, <2>3, <2>4, SameLength DEF Trusted, TrustedAgain, FileSame, PartialOf
<1>7. ~At(c, "failed")'
  BY <1>2 DEF At
<1> QED BY <1>4, <1>5, <1>6, <1>7

LEMMA CallKeepsCause ==
  ASSUME ItemsApart, Attempts > 1, Typed, Store, NEW c \in Calls, CallStep(c), Course(c), Cause(c)
  PROVE  Cause(c)'
<1> DEFINE at == call[c].source
           n == call[c].attempt
           this == fetch[<<c, call[c].attempt, call[c].source>>]
<1> SUFFICES ASSUME c \in Hashed PROVE Cause(c)'
  BY DEF Cause
<1>1. /\ at \in 0..Sources /\ n \in 1..Attempts /\ call[c].mode \in {"single", "race"}
      /\ Partial(c) = PartialOf(c, at) /\ Partial(c) \in Paths /\ call[c] \in CallRecords
  BY PartialAtHand DEF Typed
<1>2. \A s \in 0..Sources : PartialOf(c, s) \in Paths /\ (s # at => PartialOf(c, s) # Partial(c))
                            /\ PartialOf(c, s) # Dest[c]
  BY <1>1, PathsOfCalls, PathsApart DEF PartialOf
<1>3. Dest[c] \in Paths /\ Dest[c] # Partial(c)
  BY <1>1, <1>2, PathsOfCalls
<1>4. \A s \in 0..Sources : Blameless(c, s) =>
        CauseOutstanding(c, s) /\ CausePassed(c, s) /\ CauseAtHand(c, s)
  BY DEF Cause
<1>5. CASE DownloadFile(c)
  <2>1. CASE name[Dest[c]] # None /\ (c \in Hashed => Matches(c, Dest[c]))
    <3>1. call'[c].step = "ok"
      BY <1>1, <1>5, <2>1 DEF DownloadFile, GoTo, Typed, CallRecords
    <3> QED BY <3>1 DEF Cause, CauseOutstanding, CausePassed, CauseAtHand, At, Busy
  <2>2. CASE ~(name[Dest[c]] # None /\ (c \in Hashed => Matches(c, Dest[c])))
    <3> DEFINE long == {r \in Raced(call[c].mode) : Length(PartialOf(c, r)) >= Size}
    <3>1. /\ Begin(c, call[c].mode, 1) /\ 1 \in 1..Attempts /\ UNCHANGED <<name, data>>
          /\ blamed' = blamed \cup {<<c, s>> : s \in long}
      <4>1. 1 \in 1..Attempts
        BY DownloadAssumptions
      <4> QED BY <1>5, <2>2, <4>1 DEF DownloadFile, PartialOf
    <3>2. ASSUME NEW s \in Raced(call[c].mode), <<c, s>> \notin blamed' PROVE Length(PartialOf(c, s))' < Size
      <4>1. s \in 0..Sources /\ Length(PartialOf(c, s)) \in Nat /\ Size \in Nat
        BY <1>1, <1>2, RacedSources, LengthIsNatural, DownloadAssumptions
      <4>2. s \notin long
        <5> HIDE DEF long
        <5> QED BY <3>1, <3>2
      <4>3. Length(PartialOf(c, s))' = Length(PartialOf(c, s))
        BY <3>1 DEF Length, PartialOf
      <4> QED BY <4>1, <4>2, <4>3
    <3> HIDE DEF long
    <3> QED BY <3>1, <3>2, BeginKeepsCause
  <2> QED BY <2>1, <2>2
<1>6. CASE AwaitSource(c)
  <2>1. At(c, "await") /\ this.step \in {"ok", "failed"} /\ UNCHANGED <<name, data, blamed>>
    BY <1>6 DEF AwaitSource
  <2>2. at \in Raced(call[c].mode) /\ call[c].step \in Busy
    BY <1>1, <2>1, RacedSources DEF Course, SourceOfMode, Busy, At
  <2>3. Outstanding(c, n, at)
    BY <2>1, <2>2 DEF Outstanding, At
  <2>4. \A q : FileSame(q)
    BY <2>1 DEF FileSame
  <2>5. CASE this.step = "failed"
    <3>1. NextSource(c)
      BY <1>6, <2>5 DEF AwaitSource
    <3>2. ~Blameless(c, at)
      BY <1>1, <1>4, <2>2, <2>3, <2>5 DEF CauseOutstanding, Trusted
    <3> QED BY <2>1, <2>4, <3>1, <3>2, NextSourceKeepsCause DEF At
  <2>6. CASE this.step = "ok"
    <3> DEFINE step == IF call[c].mode = "race" /\ c \in Hashed /\ ~Matches(c, Partial(c))
                       THEN "drop" ELSE "rename"
    <3>1. GoTo(c, step) /\ fetch' = fetch
      BY <1>6, <2>6 DEF AwaitSource
    <3>2. call'[c].step = step /\ call'[c].attempt = n /\ call'[c].source = at
      BY <1>1, <3>1 DEF GoTo, Typed, CallRecords
    <3>3. Partial(c)' = Partial(c) /\ (Matches(c, Partial(c))' <=> Matches(c, Partial(c)))
      BY <2>1, <3>2 DEF Partial, Matches
    <3>4. ASSUME Blameless(c, at) PROVE n = 1 \/ Matches(c, Partial(c))
      <4>1. n > 1 => data[name[PartialOf(c, at)]] = Whole(Dest[c])
        BY <1>1, <1>4, <2>2, <2>3, <2>6, <3>4 DEF CauseOutstanding, TrustedAgain
      <4>2. name[PartialOf(c, at)] # None
        BY <1>1, <2>3, <2>6 DEF Course, AnswersHaveFiles
      <4> QED BY <1>1, <4>1, <4>2 DEF Matches
    <3>5. ASSUME NEW s \in 0..Sources, s = at, Blameless(c, s) PROVE CauseAtHand(c, s)'
      BY <3>2, <3>3, <3>4, <3>5 DEF CauseAtHand, At
    <3> QED BY <2>1, <2>2, <2>4, <3>1, <3>5, GoToKeepsCause
  <2> QED BY <2>1, <2>5, <2>6
<1>7. CASE DropPartial(c)
  <2>1. At(c, "drop") /\ NextSource(c) /\ UNCHANGED <<data, blamed>>
        /\ name' = [name EXCEPT ![Partial(c)] = None]
    BY <1>7 DEF DropPartial
  <2>2. \A q \in Paths : q # Partial(c) => FileSame(q)
    BY <2>1, NameGoes
  <2>3. name'[PartialOf(c, at)] = None
    BY <1>1, <2>1 DEF Typed
  <2>4. Blameless(c, at) => n = 1
    BY <1>1, <1>4, <2>1 DEF CauseAtHand
  <2> QED BY <1>2, <2>1, <2>2, <2>3, <2>4, NextSourceKeepsCause DEF At
<1>8. CASE Rename(c)
  <2>1. At(c, "rename") /\ name[Partial(c)] # None
    BY <1>8 DEF Rename, Course, TakenHaveFiles, At
  <2>2. /\ name' = [name EXCEPT ![Dest[c]] = name[Partial(c)], ![Partial(c)] = None]
        /\ GoTo(c, "verify") /\ UNCHANGED <<fetch, data, blamed>>
    BY <1>8, <2>1 DEF Rename
  <2>3. /\ \A q \in Paths : q # Partial(c) /\ q # Dest[c] => FileSame(q)
        /\ name'[Dest[c]] = name[Partial(c)] /\ name'[Partial(c)] = None
    BY <2>2, NameMoves
  <2>4. call'[c].step = "verify" /\ call'[c].attempt = n /\ call'[c].source = at
    BY <1>1, <2>2 DEF GoTo, Typed, CallRecords
  <2>5. Matches(c, Partial(c)) => Matches(c, Dest[c])'
    BY <2>2, <2>3 DEF Matches
  <2>6. ASSUME NEW s \in 0..Sources, s = at, Blameless(c, s) PROVE CauseAtHand(c, s)'
    <3>1. n = 1 \/ Matches(c, Partial(c))
      BY <1>4, <2>1, <2>6 DEF CauseAtHand
    <3>2. name'[PartialOf(c, s)'] = None
      BY <1>1, <2>3, <2>6 DEF PartialOf
    <3> QED BY <2>4, <2>5, <3>1, <3>2 DEF CauseAtHand, At
  <2>7. call[c].step \in Busy
    BY <2>1 DEF At, Busy
  <2> QED BY <1>2, <2>2, <2>3, <2>6, <2>7, GoToKeepsCause
<1>9. CASE Verify(c)
  <2> DEFINE step == IF c \notin Hashed \/ Matches(c, Dest[c]) THEN "ok"
                     ELSE IF name[Dest[c]] = None THEN "failed" ELSE "discard"
  <2>1. At(c, "verify") /\ GoTo(c, step) /\ UNCHANGED <<name, data, fetch, blamed>>
    BY <1>9 DEF Verify
  <2>2. step \in {"ok", "discard"}
    BY <2>1 DEF Course, Checked, At
  <2>3. call'[c].step = step /\ call'[c].attempt = n /\ call'[c].source = at
    BY <1>1, <2>1 DEF GoTo, Typed, CallRecords
  <2>4. ASSUME NEW s \in 0..Sources, s = at, Blameless(c, s) PROVE CauseAtHand(c, s)'
    <3>1. name[PartialOf(c, s)] = None /\ (n = 1 \/ Matches(c, Dest[c]))
      BY <1>4, <2>1, <2>4 DEF CauseAtHand
    <3>2. step = "discard" => n = 1
      BY <3>1
    <3> QED BY <2>1, <2>2, <2>3, <3>1, <3>2 DEF CauseAtHand, At, PartialOf
  <2>5. \A q : FileSame(q)
    BY <2>1 DEF FileSame
  <2>6. call[c].step \in Busy
    BY <2>1 DEF At, Busy
  <2> QED BY <2>1, <2>2, <2>4, <2>5, <2>6, GoToKeepsCause
<1>10. CASE Discard(c)
  <2>1. At(c, "discard") /\ AttemptOver(c) /\ UNCHANGED <<data, blamed>>
        /\ name' = [name EXCEPT ![Dest[c]] = None]
    BY <1>10 DEF Discard
  <2>2. at = 0 /\ Raced(call[c].mode) = {0}
    BY <2>1 DEF Course, Checked, SourceOfMode, At, Raced
  <2>3. Blameless(c, 0) => n = 1 /\ name[PartialOf(c, 0)] = None
    BY <1>1, <1>4, <2>1, <2>2 DEF CauseAtHand
  <2>4. name'[PartialOf(c, 0)] = name[PartialOf(c, 0)]
    BY <1>1, <1>2, <2>1, <2>2 DEF Typed
  <2> QED BY <2>1, <2>2, <2>3, <2>4, AttemptOverKeepsCause DEF Blameless
<1> QED BY <1>5, <1>6, <1>7, <1>8, <1>9, <1>10 DEF CallStep

WithCause == InCourse /\ \A c \in Calls : Cause(c)

LEMMA StepWithCause ==
  ASSUME ItemsApart, Attempts > 1, WithCause, [Next]_vars
  PROVE  WithCause'
<1>1. InCourse' /\ InCourse
  BY StepInCourse DEF WithCause
<1>2. CASE UNCHANGED vars
  <2>1. \A c \in Calls : Untouched(c)
    BY <1>2 DEF vars, Untouched, FileSame
  <2> QED BY <1>1, <2>1, UntouchedCause DEF InCourse, WithCause
<1>3. ASSUME NEW c \in Calls, CallStep(c) PROVE \A d \in Calls : Cause(d)'
  <2>1. Cause(c)'
    BY <1>1, <1>3, CallKeepsCause DEF InCourse, WithCause
  <2>2. \A d \in Calls : d # c => Untouched(d)
    BY <1>1, <1>3, CallKeepsCourse, TurnsAside DEF InCourse
  <2> QED BY <1>1, <2>1, <2>2, UntouchedCause DEF InCourse, WithCause
<1>4. ASSUME NEW t \in Tasks, FetchStep(t) PROVE \A d \in Calls : Cause(d)'
  <2>1. t[1] \in Calls
    BY TasksAreTriples
  <2>2. \A d \in Calls : d # t[1] => Untouched(d)
    BY <1>1, <1>4, <2>1, FetchLeavesOthers DEF InCourse
  <2>3. Cause(t[1])'
    BY <1>1, <1>4, <2>1, FetchKeepsCause DEF InCourse, WithCause
  <2> QED BY <1>1, <2>2, <2>3, UntouchedCause DEF InCourse, WithCause
<1>5. ASSUME Stop, NEW c \in Calls PROVE Cause(c)'
  <2>1. call'[c].step \in {"idle", "absent"}
    BY <1>1, <1>5, StopLeaves DEF InCourse
  <2> QED BY <2>1 DEF Cause, CauseOutstanding, CausePassed, CauseAtHand, At, Busy
<1> QED BY <1>1, <1>2, <1>3, <1>4, <1>5 DEF Next, WithCause

(* A download of an item with paths of its own that is given up has been   *)
(* let down by each of its sources, or had found at its begin a partial    *)
(* file as long as the whole: with two attempts or more, nothing else that *)
(* an earlier process or an earlier attempt has left can cost it the file  *)
(* (cache.rs, download_file and download_with_race).                       *)
THEOREM GivenUpForCause ==
  ASSUME ItemsApart, Attempts > 1
  PROVE  Spec => []FailsForCause
<1>1. Init => WithCause
  <2> SUFFICES ASSUME Init PROVE WithCause
    OBVIOUS
  <2>1. \A c \in Calls : call[c].step \in {"idle", "absent"}
    BY DEF Init, NoCall, Absent
  <2> QED BY <2>1, InitInCourse
          DEF WithCause, Cause, CauseOutstanding, CausePassed, CauseAtHand, At, Busy
<1>2. WithCause /\ [Next]_vars => WithCause'
  BY StepWithCause
<1>3. WithCause => FailsForCause
  <2> SUFFICES ASSUME WithCause, NEW c \in Calls \cap Hashed, At(c, "failed"), NEW s \in Raced(call[c].mode)
               PROVE  <<c, s>> \in blamed
    BY Zenon DEF FailsForCause
  <2>1. s \in 0..Sources
    BY PartialAtHand, RacedSources DEF WithCause, InCourse
  <2> QED BY <2>1 DEF WithCause, Cause, Blameless
<1> QED BY <1>1, <1>2, <1>3, PTL DEF Spec
=============================================================================
