---------------------------- MODULE MCTaskQueue ----------------------------
(* Instances of TaskQueue for TLC. *)
EXTENDS TaskQueue

CONSTANTS w1, w2, q1, q2

(* cmd/server/main.go: one worker, and an HTTP adapter with its own Queue. *)
ServerOwner == [w \in {w1} |-> "server-worker"]
ServerQueueOf == [w \in {w1} |-> q1]

(* Two workers, as in the package's tests, on one Queue object. *)
PoolOwner == [w \in {w1, w2} |-> IF w = w1 THEN "worker-a" ELSE "worker-b"]
PoolQueueOf == [w \in {w1, w2} |-> q1]

=============================================================================
