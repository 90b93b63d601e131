------------------------------- MODULE JobLife -------------------------------
(***************************************************************************)
(* What JobService promises the rest of the system about one durable job:  *)
(* the states it moves through, who may move it and how often it is tried. *)
(* Every operation is one step here; DurableJobs shows that the service,   *)
(* whose operations load a row, decide and compare-and-set it while other  *)
(* processes do the same, implements this.                                 *)
(***************************************************************************)
EXTENDS Naturals

CONSTANTS Owners,       \* worker ids that lease the job
          Nobody,       \* the lease owner NULL
          MaxTries      \* max_attempts

ASSUME LifeAssumption == MaxTries \in Nat \ {0} /\ Nobody \notin Owners

VARIABLES state,    \* the job's state; "none" before it is enqueued
          tries,    \* attempts
          owner     \* lease_owner

lifeVars == <<state, tries, owner>>

Finished == {"succeeded", "terminal_failed", "cancelled"}
Waiting == {"queued", "recoverable_failed"}
Held == {"leased", "running"}

LifeInit == state = "none" /\ tries = 0 /\ owner = Nobody

Enqueued == state = "none" /\ state' = "queued" /\ UNCHANGED <<tries, owner>>

(* A job that waits has an attempt left.                                    *)
Leased(o) ==
    /\ state \in Waiting /\ tries < MaxTries
    /\ state' = "leased" /\ tries' = tries + 1 /\ owner' = o

Started(o) ==
    /\ state = "leased" /\ owner = o
    /\ state' = "running" /\ UNCHANGED <<tries, owner>>

Completed(o) ==
    /\ state = "running" /\ owner = o
    /\ state' = "succeeded" /\ UNCHANGED <<tries, owner>>

(* Retried within the budget, given up beyond it.                          *)
Outcome == IF tries < MaxTries THEN "recoverable_failed" ELSE "terminal_failed"

Failed(o, outcome) ==
    /\ state \in Held /\ owner = o
    /\ outcome \in {Outcome, "terminal_failed"}
    /\ state' = outcome /\ owner' = Nobody /\ UNCHANGED tries

(* The holder's lease ran out.                                             *)
Reaped ==
    /\ state \in Held
    /\ state' = Outcome /\ owner' = Nobody /\ UNCHANGED tries

CancelRequested ==
    /\ state \notin Finished \cup {"none", "cancel_requested"}
    /\ state' = "cancel_requested" /\ UNCHANGED <<tries, owner>>

Cancelled ==
    /\ state = "cancel_requested"
    /\ state' = "cancelled" /\ owner' = Nobody /\ UNCHANGED tries

LifeNext ==
    \/ Enqueued \/ Reaped \/ CancelRequested \/ Cancelled
    \/ \E o \in Owners :
          Leased(o) \/ Started(o) \/ Completed(o) \/ Failed(o, Outcome) \/ Failed(o, "terminal_failed")

LifeSpec == LifeInit /\ [][LifeNext]_lifeVars
=============================================================================
