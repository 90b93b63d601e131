---------------------------- MODULE MCDurableJobs ----------------------------
(* Small instances of the durable job queue.                               *)
EXTENDS DurableJobs, TLC

CONSTANTS w1, w2, w3

(* Every process has an id of its own; or the in-process drains w1 and w2  *)
(* present the same one, as all of them do: LocalJobRunner's worker_id     *)
(* defaults to "local-runner" in every API process and background task.    *)
OwnIds == [w \in Workers |-> w]
SharedId == [w \in Workers |-> IF w = w2 THEN w1 ELSE w]

(* The broker workers are interchangeable.                                 *)
BrokerSymmetry == Permutations({w2, w3})
=============================================================================
