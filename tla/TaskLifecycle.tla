---------------------------- MODULE TaskLifecycle ----------------------------
(***************************************************************************)
(* What the task queue promises to those who submit and control tasks,     *)
(* without leases, clocks, workers or rows: which phases a task passes     *)
(* through, and that every execution is covered by an allowance.  The      *)
(* allowance is what max_attempts grants; a run taken back from a lost     *)
(* worker and a resumption after a pause each add one more.                *)
(***************************************************************************)
EXTENDS Integers

CONSTANTS Tasks, Allowances

VARIABLES
  phase,      \* where each task is
  attempt,    \* executions granted since the task last started afresh
  allowance   \* executions it may be granted in all

lifecycleVars == <<phase, attempt, allowance>>

Phases == {"none", "waiting", "executing", "paused", "succeeded", "failed", "canceled"}

Init ==
  /\ phase = [t \in Tasks |-> "none"]
  /\ attempt = [t \in Tasks |-> 0]
  /\ allowance = [t \in Tasks |-> 1]

Move(t, from, to) == phase[t] \in from /\ phase' = [phase EXCEPT ![t] = to]

(* A fresh start: at submission, or at a user's retry of a failed or         *)
(* canceled task.  Success is final.                                         *)
Start(t) ==
  /\ Move(t, {"none", "failed", "canceled"}, "waiting")
  /\ attempt' = [attempt EXCEPT ![t] = 0]
  /\ \E n \in Allowances : allowance' = [allowance EXCEPT ![t] = n]

Grant(t) ==
  /\ attempt[t] < allowance[t]
  /\ Move(t, {"waiting"}, "executing")
  /\ attempt' = [attempt EXCEPT ![t] = @ + 1]
  /\ UNCHANGED allowance

(* Only an executing task gets a result, and it is put back for another      *)
(* attempt only if its allowance covers one.                                 *)
Report(t) ==
  /\ \/ Move(t, {"executing"}, "succeeded")
     \/ Move(t, {"executing"}, "failed")
     \/ attempt[t] < allowance[t] /\ Move(t, {"executing"}, "waiting")
  /\ UNCHANGED <<attempt, allowance>>

(* Executions whose worker is gone are taken back together. *)
TakeBack(S) ==
  /\ \A t \in S : phase[t] = "executing"
  /\ \E again \in SUBSET S :
       phase' = [t \in Tasks |-> IF t \in again THEN "waiting"
                                 ELSE IF t \in S THEN "failed" ELSE phase[t]]
  /\ allowance' = [t \in Tasks |-> IF t \in S THEN allowance[t] + 1 ELSE allowance[t]]
  /\ UNCHANGED attempt

Cancel(t) ==
  /\ Move(t, {"waiting", "executing", "paused"}, "canceled")
  /\ UNCHANGED <<attempt, allowance>>

Pause(t) ==
  /\ Move(t, {"executing"}, "paused")
  /\ UNCHANGED <<attempt, allowance>>

Resume(t) ==
  /\ Move(t, {"paused"}, "waiting")
  /\ allowance' = [allowance EXCEPT ![t] = @ + 1]
  /\ UNCHANGED attempt

Next ==
  \/ \E t \in Tasks : \/ Start(t)
                      \/ Grant(t)
                      \/ Report(t)
                      \/ Cancel(t)
                      \/ Pause(t)
                      \/ Resume(t)
  \/ \E S \in SUBSET Tasks : TakeBack(S)

Spec == Init /\ [][Next]_lifecycleVars

=============================================================================
