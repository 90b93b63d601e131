---------------------------- MODULE GovernedAction ----------------------------
(***************************************************************************)
(* What governed submission promises, with no rows, versions, sessions or  *)
(* retries: an action takes effect on the outside world at most once, only *)
(* after a person approved it and the approval was used up, and what is    *)
(* reported about it is true and reported once.                            *)
(***************************************************************************)
EXTENDS Naturals

CONSTANT Actions

VARIABLES phase,    \* how far the approval of an action has come
          acts,     \* how often the provider acted
          outcome   \* what has been recorded about the action

governedVars == <<phase, acts, outcome>>

Phases == {"undecided", "approved", "withdrawn", "consumed"}
Outcomes == {"open", "succeeded", "failed"}

GovernedInit ==
    /\ phase = [x \in Actions |-> "undecided"]
    /\ acts = [x \in Actions |-> 0]
    /\ outcome = [x \in Actions |-> "open"]

Approve(x) ==
    /\ phase[x] = "undecided"
    /\ phase' = [phase EXCEPT ![x] = "approved"]
    /\ UNCHANGED <<acts, outcome>>

(* Rejected, expired or invalidated; one sweep may withdraw several.       *)
Withdraw(S) ==
    /\ \A x \in S : phase[x] \in {"undecided", "approved"}
    /\ phase' = [x \in Actions |-> IF x \in S THEN "withdrawn" ELSE phase[x]]
    /\ UNCHANGED <<acts, outcome>>

Consume(x) ==
    /\ phase[x] = "approved"
    /\ phase' = [phase EXCEPT ![x] = "consumed"]
    /\ UNCHANGED <<acts, outcome>>

(* The provider acts.  It may do so after the action was given up: a       *)
(* request on the wire cannot be called back.                              *)
Act(x) ==
    /\ phase[x] = "consumed"
    /\ acts[x] = 0
    /\ acts' = [acts EXCEPT ![x] = 1]
    /\ UNCHANGED <<phase, outcome>>

Report(x, result) ==
    /\ phase[x] = "consumed"
    /\ outcome[x] = "open"
    /\ result = "succeeded" => acts[x] = 1
    /\ outcome' = [outcome EXCEPT ![x] = result]
    /\ UNCHANGED <<phase, acts>>

GovernedNext ==
    \/ \E x \in Actions : Approve(x) \/ Consume(x) \/ Act(x)
    \/ \E S \in SUBSET Actions : Withdraw(S)
    \/ \E x \in Actions, result \in {"succeeded", "failed"} : Report(x, result)

GovernedSpec == GovernedInit /\ [][GovernedNext]_governedVars
=============================================================================
