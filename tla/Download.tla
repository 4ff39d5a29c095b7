------------------------------ MODULE Download ------------------------------
(***************************************************************************)
(* Downloads of the launcher: download_file of                             *)
(* launcherCore/src/download/cache.rs for several items at once, from one  *)
(* source or from sources that race, with partial files that are resumed,  *)
(* and stops of the process.  Servers and the file system are external.    *)
(*                                                                         *)
(* A file is a sequence of chunks.  A fetch that has opened a file writes  *)
(* to that file, whatever its name has become meanwhile, so names and data *)
(* are two variables.                                                      *)
(***************************************************************************)
EXTENDS Integers, Sequences, FiniteSets

CONSTANTS
  Calls,       \* download_file at the same time, one per item
  Dest,        \* Dest[c]: the final path of c's item
  Stem,        \* Stem[c]: that path without its extension, which names its partial files
  Hashed,      \* calls whose item has a SHA-1
  Sources,     \* number of sources that race
  Batches,     \* which items are for download, and has each one source, "single", or several
               \* that "race": by its URL and the mirror
  Size,        \* chunks of a file
  Attempts,    \* max_retries
  MaxLength,   \* bound: chunks of a file that a server without ranges lengthens
  NoRange,     \* sources whose server may send the whole file when asked for a range
  MaxStopped,  \* bound: downloads that a process has begun which ends early
  Faults,      \* which of "refuse" and "cut" happen
  None

ASSUME DownloadAssumptions ==
  /\ Sources \in Nat \ {0} /\ Size \in Nat \ {0} /\ Attempts \in Nat \ {0}
  /\ MaxLength \in Nat /\ MaxStopped \in Nat
  /\ Batches # {}
  /\ \A batch \in Batches :
       DOMAIN batch \subseteq Calls /\ \A c \in DOMAIN batch : batch[c] \in {"single", "race"}
  /\ Hashed \subseteq Calls
  /\ NoRange \subseteq 0..Sources
  /\ Faults \subseteq {"refuse", "cut"}

(* Source 0 is the one that has no competitor.                             *)
Tasks == Calls \X (1..Attempts) \X (0..Sources)
Partials == {<<Stem[c], s>> : c \in Calls, s \in 0..Sources}
Finals == {Dest[c] : c \in Calls}
Paths == Partials \cup Finals
Files == Tasks \cup Paths

ASSUME FilesAssumption ==
  /\ None \notin Files
  /\ Finals \cap (Partials \cup Tasks) = {}

Hole == <<None, 0>>
Whole(d) == [n \in 1..Size |-> <<d, n>>]

VARIABLES
  name,    \* name[p]: the file at path p, None if there is none
  data,    \* data[f]: its chunks
  call,    \* call[c]: step, mode, attempt, and the source that is awaited
  fetch,   \* fetch[t]: step, file, append mode and next chunk of a spawned task
  blamed   \* history: <<c, s>> when source s let call c down, or c began with a partial file
           \* from s that could not grow

vars == <<name, data, call, fetch, blamed>>

NoFetch == [step |-> "off", file |-> None, append |-> FALSE, next |-> 1]
NoCall(mode) == [step |-> "idle", mode |-> mode, attempt |-> 1, source |-> 0]
Absent == [NoCall("single") EXCEPT !.step = "absent"]
Requested == [NoFetch EXCEPT !.step = "request"]

Raced(mode) == IF mode = "single" THEN {0} ELSE 1..Sources
Partial(c) == <<Stem[c], call[c].source>>
Length(p) == IF name[p] = None THEN 0 ELSE Len(data[name[p]])
At(c, step) == call[c].step = step
Begun(c) == call[c].step \notin {"absent", "idle"}
GoTo(c, step) == call' = [call EXCEPT ![c].step = step]

(* Mutant: nothing is compared.                                            *)
MatchesAny(c, p) == name[p] # None
Matches(c, p) == name[p] # None /\ data[name[p]] = Whole(Dest[c])

-----------------------------------------------------------------------------
(* download_file *)

Begin(c, mode, n) ==
  /\ call' = [call EXCEPT ![c] = [step |-> "await", mode |-> mode, attempt |-> n,
                                  source |-> IF mode = "single" THEN 0 ELSE 1]]
  /\ fetch' = [t \in Tasks |-> IF t[1] = c /\ t[2] = n /\ t[3] \in Raced(mode)
                               THEN Requested ELSE fetch[t]]

(* Mutant: one attempt is never the last.                                  *)
AttemptAgain(c) ==
  IF call[c].attempt = 1 THEN Begin(c, call[c].mode, 1)
  ELSE GoTo(c, "failed") /\ UNCHANGED fetch

AttemptOver(c) ==
  IF call[c].attempt < Attempts THEN Begin(c, call[c].mode, call[c].attempt + 1)
  ELSE GoTo(c, "failed") /\ UNCHANGED fetch

(* Mutant: one source too many is awaited.                                 *)
NextSourceBeyond(c) ==
  IF call[c].source \in 1..Sources
  THEN call' = [call EXCEPT ![c].step = "await", ![c].source = @ + 1] /\ UNCHANGED fetch
  ELSE AttemptOver(c)

(* The sources are awaited in their order, not in that of their answers.   *)
NextSource(c) ==
  IF call[c].source \in 1..(Sources - 1)
  THEN call' = [call EXCEPT ![c].step = "await", ![c].source = @ + 1] /\ UNCHANGED fetch
  ELSE AttemptOver(c)

(* A file that is there is enough when nothing is known of its content.    *)
DownloadFile(c) ==
  /\ At(c, "idle")
  /\ IF name[Dest[c]] # None /\ (c \in Hashed => Matches(c, Dest[c]))
     THEN GoTo(c, "ok") /\ UNCHANGED <<fetch, blamed>>
     ELSE /\ Begin(c, call[c].mode, 1)
          /\ blamed' = blamed \cup
               {<<c, s>> : s \in {r \in Raced(call[c].mode) : Length(<<Stem[c], r>>) >= Size}}
  /\ UNCHANGED <<name, data>>

(* Only a race looks at the content before it takes the name away.         *)
AwaitSource(c) ==
  LET got == fetch[<<c, call[c].attempt, call[c].source>>].step IN
  /\ At(c, "await")
  /\ got \in {"ok", "failed"}
  /\ IF got = "failed" THEN NextSource(c)
     ELSE /\ GoTo(c, IF call[c].mode = "race" /\ c \in Hashed /\ ~Matches(c, Partial(c))
                     THEN "drop" ELSE "rename")
          /\ UNCHANGED fetch
  /\ UNCHANGED <<name, data, blamed>>

(* Mutant: a partial file that does not match is kept for the next attempt.*)
KeepPartial(c) ==
  /\ At(c, "drop")
  /\ NextSource(c)
  /\ UNCHANGED <<name, data, blamed>>

DropPartial(c) ==
  /\ At(c, "drop")
  /\ name' = [name EXCEPT ![Partial(c)] = None]
  /\ NextSource(c)
  /\ UNCHANGED <<data, blamed>>

(* A name that is gone ends the attempt, with the other sources running.   *)
Rename(c) ==
  /\ At(c, "rename")
  /\ IF name[Partial(c)] = None THEN AttemptOver(c) /\ UNCHANGED name
     ELSE /\ name' = [name EXCEPT ![Dest[c]] = name[Partial(c)], ![Partial(c)] = None]
          /\ GoTo(c, "verify")
          /\ UNCHANGED fetch
  /\ UNCHANGED <<data, blamed>>

Verify(c) ==
  /\ At(c, "verify")
  /\ GoTo(c, IF c \notin Hashed \/ Matches(c, Dest[c]) THEN "ok"
             ELSE IF name[Dest[c]] = None THEN "failed" ELSE "discard")
  /\ UNCHANGED <<name, data, fetch, blamed>>

Discard(c) ==
  /\ At(c, "discard")
  /\ name' = [name EXCEPT ![Dest[c]] = None]
  /\ AttemptOver(c)
  /\ UNCHANGED <<data, blamed>>

-----------------------------------------------------------------------------
(* do_download_to: task t of call t[1], attempt t[2], from source t[3]     *)

From(t) == <<Stem[t[1]], t[3]>>
Blame(t) == blamed' = blamed \cup {<<t[1], t[3]>>}
Break(t) == fetch' = [fetch EXCEPT ![t].step = "failed"] /\ Blame(t)
Opened(t, next) ==
  fetch' = [fetch EXCEPT ![t] = [step |-> "open", file |-> None,
                                 append |-> Length(From(t)) > 0, next |-> next]]

(* The server sends what is missing.  It refuses a range past the end, may *)
(* refuse anything, and may send the whole file whatever was asked for.    *)
Request(t) ==
  /\ fetch[t].step = "request"
  /\ \/ /\ IF Length(From(t)) >= Size THEN fetch' = [fetch EXCEPT ![t].step = "failed"]
           ELSE Opened(t, Length(From(t)) + 1)
        /\ UNCHANGED blamed
     \/ "refuse" \in Faults /\ Break(t)
     \/ /\ t[3] \in NoRange
        /\ Length(From(t)) \in 1..(MaxLength - Size)
        /\ Opened(t, 1)
        /\ Blame(t)
  /\ UNCHANGED <<name, data, call>>

(* Appending takes a file; otherwise one is made, or emptied.              *)
Open(t) ==
  LET file == IF name[From(t)] = None THEN t ELSE name[From(t)] IN
  /\ fetch[t].step = "open"
  /\ IF fetch[t].append
     THEN /\ fetch' = [fetch EXCEPT ![t].step = IF name[From(t)] = None THEN "failed" ELSE "write",
                                    ![t].file = name[From(t)]]
          /\ UNCHANGED <<name, data>>
     ELSE /\ fetch' = [fetch EXCEPT ![t].step = "write", ![t].file = file]
          /\ name' = [name EXCEPT ![From(t)] = file]
          /\ data' = [data EXCEPT ![file] = <<>>]
  /\ UNCHANGED <<call, blamed>>

(* At the end of the file, or where this task's own writing has come to.   *)
Written(old, chunk, append) ==
  IF append THEN Append(old, chunk)
  ELSE [i \in 1..(IF Len(old) < chunk[2] THEN chunk[2] ELSE Len(old)) |->
          IF i = chunk[2] THEN chunk ELSE IF i <= Len(old) THEN old[i] ELSE Hole]

Receive(t) ==
  LET f == fetch[t] IN
  /\ f.step = "write"
  /\ \/ /\ data' = [data EXCEPT ![f.file] = Written(@, <<Dest[t[1]], f.next>>, f.append)]
        /\ fetch' = [fetch EXCEPT ![t] = IF f.next = Size THEN [NoFetch EXCEPT !.step = "ok"]
                                         ELSE [f EXCEPT !.next = @ + 1]]
        /\ UNCHANGED blamed
     \/ "cut" \in Faults /\ Break(t) /\ UNCHANGED data
  /\ UNCHANGED <<name, call>>

(* The process ends, and the tasks with it; the next one begins anew.      *)
Stop ==
  /\ Cardinality({c \in Calls : Begun(c)}) \in 1..MaxStopped
  /\ name' = [p \in Paths |-> IF name[p] = None THEN None ELSE p]
  /\ data' = [f \in Files |-> IF f \in Paths /\ name[f] # None THEN data[name[f]] ELSE <<>>]
  /\ call' = [c \in Calls |-> IF Begun(c) THEN NoCall(call[c].mode) ELSE call[c]]
  /\ fetch' = [t \in Tasks |-> NoFetch]
  /\ blamed' = {}

-----------------------------------------------------------------------------
Init ==
  /\ name = [p \in Paths |-> None]
  /\ data = [f \in Files |-> <<>>]
  /\ \E batch \in Batches :
       call = [c \in Calls |-> IF c \in DOMAIN batch THEN NoCall(batch[c]) ELSE Absent]
  /\ fetch = [t \in Tasks |-> NoFetch]
  /\ blamed = {}

CallStep(c) ==
  DownloadFile(c) \/ AwaitSource(c) \/ DropPartial(c) \/ Rename(c) \/ Verify(c) \/ Discard(c)

FetchStep(t) == Request(t) \/ Open(t) \/ Receive(t)

Next == (\E c \in Calls : CallStep(c)) \/ (\E t \in Tasks : FetchStep(t)) \/ Stop

Spec == Init /\ [][Next]_vars

(* The runtime polls every task, and each request has a time limit.        *)
FairSpec ==
  /\ Spec
  /\ \A c \in Calls : WF_vars(CallStep(c))
  /\ \A t \in Tasks : WF_vars(FetchStep(t))

-----------------------------------------------------------------------------
Returned == {"ok", "failed"}

(* Every variable has its type.                                            *)
TypeOK ==
  /\ name \in [Paths -> Files \cup {None}]
  /\ \A f \in Files : data[f] \in Seq((Finals \X (1..Size)) \cup {Hole})
  /\ call \in [Calls -> [step : Returned \cup {"absent", "idle", "await", "drop", "rename", "verify", "discard"},
                         mode : {"single", "race"}, attempt : 1..Attempts, source : 0..Sources]]
  /\ fetch \in [Tasks -> [step : Returned \cup {"off", "request", "open", "write"},
                          file : Files \cup {None}, append : BOOLEAN, next : 1..Size]]
  /\ blamed \subseteq Calls \X (0..Sources)

Near(c, d) == c # d /\ (Dest[c] = Dest[d] \/ Stem[c] = Stem[d])

(* Items that share files without harm: they are one file with a SHA-1,    *)
(* and have one source.                                                    *)
Twins(c, d) ==
  Dest[c] = Dest[d] /\ \A k \in {c, d} : k \in Hashed /\ call[k].mode = "single"

(* Once every download that has begun has reported success, each file with *)
(* a SHA-1 is whole under its final name, whatever earlier processes left  *)
(* and in whatever order the downloads of one file wrote, renamed and      *)
(* deleted it (cache.rs, download_file and download_with_race).  This is   *)
(* for items that share no file or are twins: when two items of one file   *)
(* both race, a loser of one writes to the file that the other installed.  *)
InstalledIsWhole ==
  LET begun == {c \in Calls : Begun(c)} IN
  /\ \A c \in begun : At(c, "ok")
  /\ \A c, d \in begun : Near(c, d) => Twins(c, d)
  => \A c \in begun \cap Hashed : name[Dest[c]] # None /\ data[name[Dest[c]]] = Whole(Dest[c])

(* A download that is given up, and that shared no file with another of    *)
(* its process, was let down by each of its sources, or had found, when it *)
(* began, a partial file as long as the whole, which no request can        *)
(* continue; no leftover of another kind, and none of its own attempts,    *)
(* costs it the file (cache.rs, download_with_race).                       *)
FailsForCause ==
  \A c \in Calls \cap Hashed :
    At(c, "failed") /\ (\A d \in Calls : Near(c, d) => ~Begun(d)) =>
      \A s \in Raced(call[c].mode) : <<c, s>> \in blamed

(* A download reports an end, unless the process ends before.              *)
DownloadReturns ==
  \A c \in Calls : call[c].step = "await" ~> call[c].step \in Returned \cup {"idle"}
=============================================================================
