------------------------------ MODULE Submission ------------------------------
(***************************************************************************)
(* SubmissionService (backend/app/approvals/submission.py) over the        *)
(* approvals of module Approvals and a connector that deduplicates by      *)
(* idempotency key (backend/app/integrations/mock_submission.py).          *)
(*                                                                         *)
(* The idempotency key is a function of the approval id, so there is at    *)
(* most one submission_jobs row per approval and job[a] is that row.  A    *)
(* caller is one activation of submit_for_approval or reconcile: a double  *)
(* click, a client retry or a resumed worker is another caller.  Callers   *)
(* interleave at every session boundary and at the connector calls; they   *)
(* die there as well, and a request they had sent may still arrive.        *)
(***************************************************************************)
EXTENDS Approvals

CONSTANTS Callers,       \* concurrent activations
          MaxAttempts,   \* max_attempts of every job
          MaxCrashes,    \* bound: calls that end abnormally
          MaxVersion     \* bound: job version up to which reconcile is called

ASSUME MaxAttemptsAssumption == MaxAttempts \in Nat \ {0}

(* Any number of activations run at once, but never infinitely many.       *)
ASSUME CallersAssumption == IsFiniteSet(Callers)

VARIABLES job,       \* submission_jobs, keyed by the approval of their key
          caller,    \* control state and local variables of every caller
          effects,   \* how often the provider acted on an approval's key
          hollow,    \* approvals it acted on with another payload than submitted
          late,      \* requests still on the wire, their sender gone
          unasked,   \* approvals with a request sent since reconcile last answered
          crashes    \* calls that ended abnormally so far

submissionVars == <<job, caller, effects, hollow, late, unasked, crashes>>
vars == <<approvalVars, submissionVars>>

-----------------------------------------------------------------------------
SubmissionStates == {"ready", "executing", "succeeded", "recoverable_failed",
                     "cancelled", "terminal_failed", "unknown_outcome",
                     "reconciling"}

SubmissionTransitions ==
    [ready              |-> {"executing", "cancelled", "terminal_failed"},
     executing          |-> {"succeeded", "recoverable_failed", "cancelled",
                             "terminal_failed", "unknown_outcome"},
     recoverable_failed |-> {"ready"},
     unknown_outcome    |-> {"reconciling"},
     reconciling        |-> {"succeeded", "ready", "terminal_failed"},
     succeeded |-> {}, cancelled |-> {}, terminal_failed |-> {}]

Settled == {"succeeded", "terminal_failed", "cancelled"}

JobRow == [state : SubmissionStates \cup {"none"}, version : Nat, attempts : Nat,
           receipt : BOOLEAN]

NoJob == [state |-> "none", version |-> 0, attempts |-> 0, receipt |-> FALSE]

(* _transition's table test: the same state is always let through.         *)
Legal(from, to) == to = from \/ to \in SubmissionTransitions[from]

(* Control points of a call.  "cas" and "park" hold a loaded row and the   *)
(* state `to` about to be written; the others name the next thing done.    *)
Points == {"idle", "reauthorize", "claim", "consume", "lost", "execute", "send",
           "sent", "record", "unknown", "resume", "ask", "settle", "cas", "park"}

Caller == [pc : Points, a : ApprovalIds \cup {Null}, seen : Nat, to : SubmissionStates,
           fresh : BOOLEAN, answer : BOOLEAN, payload : BOOLEAN]

(* A request on the wire; `payload` says whether it carries the payload the *)
(* approval was submitted with, or the {} of a re-run.                      *)
Request == [a : ApprovalIds, payload : BOOLEAN]

Accepted(a) == effects[a] > 0

HasJob(a) == job[a].state # "none"

(* A call on approval a at point pc; its other locals are reset.           *)
CallAt(a, pc, payload) ==
    [pc |-> pc, a |-> IF pc = "idle" THEN Null ELSE a, seen |-> 0, to |-> "ready",
     fresh |-> FALSE, answer |-> FALSE, payload |-> payload]

(* The payload of submit_for_approval is not handed to the resume path.    *)
At(p, pc) == CallAt(caller[p].a, pc, caller[p].payload /\ pc \notin {"idle", "resume"})

GoTo(p, pc) == caller' = [caller EXCEPT ![p] = At(p, pc)]

(* Load the row and prepare _transition(to); an illegal move raises and    *)
(* ends the call with nothing written.                                     *)
LoadFor(p, to, pc) ==
    LET row == job[caller[p].a]
    IN  caller' = [caller EXCEPT ![p] =
                     IF Legal(row.state, to)
                       THEN [At(p, pc) EXCEPT !.seen = row.version, !.to = to]
                       ELSE At(p, "idle")]

-----------------------------------------------------------------------------
SubmissionInit ==
    /\ job = [a \in ApprovalIds |-> NoJob]
    /\ caller = [p \in Callers |-> CallAt(Null, "idle", FALSE)]
    /\ effects = [a \in ApprovalIds |-> 0]
    /\ hollow = {}
    /\ late = {}
    /\ unasked = {}
    /\ crashes = 0

(* _resolve_existing: a settled job is reported, any other is resumed.     *)
Resolve(a) == IF job[a].state \in Settled THEN "idle" ELSE "resume"

(* submit_for_approval: look the job up by its key.  The digest the caller *)
(* presents is the one its run carried along by value, or a recomputed one.*)
SubmitForApproval(p, a, d) ==
    /\ caller[p].pc = "idle"
    /\ Exists(a)
    /\ d \in {approval[a].digest, content[approval[a].cs]}
    /\ caller' = [caller EXCEPT ![p] =
                    IF HasJob(a)
                      THEN CallAt(a, Resolve(a), FALSE)
                      ELSE [CallAt(a, "reauthorize", TRUE) EXCEPT
                                !.fresh = (d = approval[a].digest)]]
    /\ UNCHANGED <<approvalVars, job, effects, hollow, late, unasked, crashes>>

(* reconcile: the public entry of recovery.                                *)
Reconcile(p, a) ==
    /\ caller[p].pc = "idle"
    /\ HasJob(a)
    /\ job[a].version < MaxVersion
    /\ caller' = [caller EXCEPT ![p] = CallAt(a, "resume", FALSE)]
    /\ UNCHANGED <<approvalVars, job, effects, hollow, late, unasked, crashes>>

(* _reauthorize: approved, unexpired, same digest, decider still allowed.  *)
(* expected_target_version is a parameter that nothing compares.           *)
Reauthorized(p) ==
    LET a == caller[p].a
    IN  /\ approval[a].status = "approved"
        /\ a \notin due
        /\ caller[p].fresh
        /\ approval[a].by \in authority

Reauthorize(p) ==
    /\ caller[p].pc = "reauthorize"
    /\ GoTo(p, IF Reauthorized(p) THEN "claim" ELSE "idle")
    /\ UNCHANGED <<approvalVars, job, effects, hollow, late, unasked, crashes>>

(* _consume_and_claim, its load.                                           *)
ClaimLoad(p) ==
    LET row == approval[caller[p].a]
    IN  /\ caller[p].pc = "claim"
        /\ caller' = [caller EXCEPT ![p] =
                        IF row.status = "approved"
                          THEN [At(p, "consume") EXCEPT !.seen = row.version]
                          ELSE At(p, "lost")]
        /\ UNCHANGED <<approvalVars, job, effects, hollow, late, unasked, crashes>>

(* Mutant: the job is inserted although the approval was not consumed.     *)
ClaimCommitUnbound(p) ==
    LET a == caller[p].a
    IN  /\ caller[p].pc = "consume"
        /\ ~ HasJob(a)
        /\ approval' = IF approval[a].version = caller[p].seen
                         THEN [approval EXCEPT ![a].status = "consumed",
                                               ![a].version = @ + 1]
                         ELSE approval
        /\ job' = [job EXCEPT ![a] = [NoJob EXCEPT !.state = "ready", !.version = 1]]
        /\ GoTo(p, "execute")
        /\ UNCHANGED <<changeSet, content, due, authority, txns, requests,
                       effects, hollow, late, unasked, crashes>>

(* _consume_and_claim, its transaction: the approval is consumed and the   *)
(* job inserted together, or neither.                                      *)
ClaimCommit(p) ==
    LET a == caller[p].a
    IN  /\ caller[p].pc = "consume"
        /\ IF /\ approval[a].version = caller[p].seen
              /\ approval[a].status = "approved"
              /\ ~ HasJob(a)
             THEN /\ approval' = [approval EXCEPT ![a].status = "consumed",
                                                  ![a].version = @ + 1]
                  /\ job' = [job EXCEPT ![a] = [NoJob EXCEPT !.state = "ready",
                                                             !.version = 1]]
                  /\ GoTo(p, "execute")
             ELSE /\ GoTo(p, "lost")
                  /\ UNCHANGED <<approval, job>>
        /\ UNCHANGED <<changeSet, content, due, authority, txns, requests,
                       effects, hollow, late, unasked, crashes>>

(* The claim was lost: resolve the winner's job.  Without one the          *)
(* assertion of submit_for_approval fails and the call ends.               *)
ResolveWinner(p) ==
    LET a == caller[p].a
    IN  /\ caller[p].pc = "lost"
        /\ GoTo(p, IF HasJob(a) THEN Resolve(a) ELSE "idle")
        /\ UNCHANGED <<approvalVars, job, effects, hollow, late, unasked, crashes>>

-----------------------------------------------------------------------------
(* _execute and the loads of its three sessions.                           *)
ExecuteLoad(p) ==
    /\ caller[p].pc = "execute"
    /\ LoadFor(p, "executing", "cas")
    /\ UNCHANGED <<approvalVars, job, effects, hollow, late, unasked, crashes>>

Send(p) ==
    /\ caller[p].pc = "send"
    /\ GoTo(p, "sent")
    /\ unasked' = unasked \cup {caller[p].a}
    /\ UNCHANGED <<approvalVars, job, effects, hollow, late, crashes>>

RecordLoad(p) ==
    /\ caller[p].pc \in {"record", "unknown"}
    /\ LoadFor(p, IF caller[p].pc = "record" THEN "succeeded" ELSE "unknown_outcome", "cas")
    /\ UNCHANGED <<approvalVars, job, effects, hollow, late, unasked, crashes>>

(* Mutant: a job found in "reconciling" is left to whoever began that.     *)
ResumeLoadGivesUp(p) ==
    LET state == job[caller[p].a].state
    IN  /\ caller[p].pc = "resume"
        /\ CASE state = "recoverable_failed" -> LoadFor(p, "ready", "cas")
             [] state \in {"ready", "executing"} -> LoadFor(p, "unknown_outcome", "park")
             [] state = "unknown_outcome" -> LoadFor(p, "reconciling", "cas")
             [] OTHER -> GoTo(p, "idle")
        /\ UNCHANGED <<approvalVars, job, effects, hollow, late, unasked, crashes>>

(* _reconcile_and_resume, first session.  A job still "ready" cannot move  *)
(* to unknown_outcome: LoadFor's Legal test ends the call there.           *)
ResumeLoad(p) ==
    LET state == job[caller[p].a].state
    IN  /\ caller[p].pc = "resume"
        /\ CASE state = "succeeded" -> GoTo(p, "idle")
             [] state = "recoverable_failed" -> LoadFor(p, "ready", "cas")
             [] state \in {"ready", "executing"} -> LoadFor(p, "unknown_outcome", "park")
             [] state = "unknown_outcome" -> LoadFor(p, "reconciling", "cas")
             [] OTHER -> GoTo(p, "ask")
        /\ UNCHANGED <<approvalVars, job, effects, hollow, late, unasked, crashes>>

(* connector.reconcile answers from the provider's own memory.             *)
Ask(p) ==
    LET a == caller[p].a
    IN  /\ caller[p].pc = "ask"
        /\ caller' = [caller EXCEPT ![p] = [At(p, "settle") EXCEPT !.answer = Accepted(a)]]
        /\ unasked' = unasked \ {a}
        /\ UNCHANGED <<approvalVars, job, effects, hollow, late, crashes>>

(* Mutant: the budget test is off by one.                                  *)
SettleTargetOneMore(p) ==
    IF caller[p].answer THEN "succeeded"
    ELSE IF job[caller[p].a].attempts > MaxAttempts THEN "terminal_failed"
    ELSE "ready"

(* What the answer asks for: success against the known receipt, a terminal *)
(* failure when the budget is spent, a re-run otherwise.                   *)
SettleTarget(p) ==
    IF caller[p].answer THEN "succeeded"
    ELSE IF job[caller[p].a].attempts >= MaxAttempts THEN "terminal_failed"
    ELSE "ready"

SettleLoad(p) ==
    /\ caller[p].pc = "settle"
    /\ LoadFor(p, SettleTarget(p), "cas")
    /\ UNCHANGED <<approvalVars, job, effects, hollow, late, unasked, crashes>>

(* _transition's compare-and-set and the commit after it.                  *)
TransitionHolds(p) == job[caller[p].a].version = caller[p].seen

Transition(a, to) ==
    [job EXCEPT ![a] = [state    |-> to,
                        version  |-> @.version + 1,
                        attempts |-> @.attempts + (IF to = "executing" THEN 1 ELSE 0),
                        receipt  |-> @.receipt \/ to = "succeeded"]]

(* What a call does after the commit; a parked job moves on to reconciling *)
(* with the row it already holds.                                          *)
AfterCommit(p) ==
    LET to == caller[p].to
    IN  IF caller[p].pc = "park"
          THEN [At(p, "cas") EXCEPT !.seen = caller[p].seen + 1, !.to = "reconciling"]
          ELSE At(p, CASE to = "executing"   -> "send"
                       [] to = "reconciling" -> "ask"
                       [] to = "ready"       -> "execute"
                       [] OTHER              -> "idle")

TransitionCommit(p) ==
    /\ caller[p].pc \in {"cas", "park"}
    /\ IF TransitionHolds(p)
         THEN /\ job' = Transition(caller[p].a, caller[p].to)
              /\ caller' = [caller EXCEPT ![p] = AfterCommit(p)]
         ELSE /\ GoTo(p, "idle")
              /\ UNCHANGED job
    /\ UNCHANGED <<approvalVars, effects, hollow, late, unasked, crashes>>

-----------------------------------------------------------------------------
(* The connector: the first request of a key acts, a repeat returns the    *)
(* original receipt.                                                       *)
Act(a, payload, times) ==
    /\ effects' = [effects EXCEPT ![a] = times]
    /\ hollow' = IF effects[a] = 0 /\ ~ payload THEN hollow \cup {a} ELSE hollow

(* Mutant: the connector does not look the key up before it acts.          *)
AcceptAgain(a, payload) == Act(a, payload, effects[a] + 1)

Accept(a, payload) == Act(a, payload, IF effects[a] = 0 THEN 1 ELSE effects[a])

ProviderReplies(p) ==
    /\ caller[p].pc = "sent"
    /\ Accept(caller[p].a, caller[p].payload)
    /\ GoTo(p, "record")
    /\ UNCHANGED <<approvalVars, job, late, unasked, crashes>>

(* The request of p, left on the wire.                                     *)
InFlight(p) == [a |-> caller[p].a, payload |-> caller[p].payload]

(* submit raises: the request was lost, or it is still on its way.         *)
SubmitRaises(p) ==
    /\ caller[p].pc = "sent"
    /\ late' \in {late, late \cup {InFlight(p)}}
    /\ GoTo(p, "unknown")
    /\ UNCHANGED <<approvalVars, job, effects, hollow, unasked, crashes>>

LateAccept(m) ==
    /\ late' = late \ {m}
    /\ Accept(m.a, m.payload)
    /\ UNCHANGED <<approvalVars, job, caller, unasked, crashes>>

(* The process dies, or an unhandled error ends the call.                  *)
Crash(p) ==
    /\ caller[p].pc # "idle"
    /\ crashes < MaxCrashes
    /\ crashes' = crashes + 1
    /\ late' \in {late, IF caller[p].pc = "sent" THEN late \cup {InFlight(p)} ELSE late}
    /\ GoTo(p, "idle")
    /\ UNCHANGED <<approvalVars, job, effects, hollow, unasked>>

-----------------------------------------------------------------------------
Init == ApprovalInit /\ SubmissionInit

(* The steps a call takes by itself once it has begun.                     *)
CallStep(p) ==
    \/ Reauthorize(p) \/ ClaimLoad(p) \/ ClaimCommit(p) \/ ResolveWinner(p)
    \/ ExecuteLoad(p) \/ Send(p) \/ RecordLoad(p) \/ ResumeLoad(p)
    \/ Ask(p) \/ SettleLoad(p) \/ TransitionCommit(p)

Next ==
    \/ ApprovalStep /\ UNCHANGED submissionVars
    \/ \E p \in Callers, a \in ApprovalIds, d \in Digests : SubmitForApproval(p, a, d)
    \/ \E p \in Callers, a \in ApprovalIds : Reconcile(p, a)
    \/ \E p \in Callers : CallStep(p)
    \/ \E p \in Callers : ProviderReplies(p) \/ SubmitRaises(p) \/ Crash(p)
    \/ \E m \in late : LateAccept(m)

Spec == Init /\ [][Next]_vars

(* A call that has begun goes on, the connector call returns or raises,    *)
(* and somebody (a client, a worker) keeps asking for every approval.      *)
Fairness ==
    /\ \A p \in Callers : WF_vars(CallStep(p))
    /\ \A p \in Callers : WF_vars(ProviderReplies(p) \/ SubmitRaises(p))
    /\ \A a \in ApprovalIds :
          WF_vars(\E p \in Callers, d \in Digests : SubmitForApproval(p, a, d))

LiveSpec == Spec /\ Fairness

-----------------------------------------------------------------------------
(* Type invariant of the submission tables and of the callers' locals.     *)
SubmissionTypeOK ==
    /\ ApprovalTypeOK
    /\ job \in [ApprovalIds -> JobRow]
    /\ caller \in [Callers -> Caller]
    /\ effects \in [ApprovalIds -> Nat]
    /\ hollow \subseteq ApprovalIds
    /\ late \subseteq Request
    /\ unasked \subseteq ApprovalIds
    /\ crashes \in Nat

(* "Consume and claim are one transaction": an approval is consumed exactly *)
(* when the submission job of its key exists, in every interleaving of      *)
(* callers with deciders, invalidations and expiry sweeps.                  *)
ConsumedIffJob ==
    \A a \in ApprovalIds : approval[a].status = "consumed" <=> HasJob(a)

(* The promise of the component: the provider acts at most once per         *)
(* approval, and whatever it acted on, or may still act on, is an approval  *)
(* that a person approved and that has been consumed since.                 *)
AtMostOnceAndApproved ==
    \A a \in ApprovalIds :
        /\ effects[a] <= 1
        /\ \/ Accepted(a)
           \/ \E m \in late : m.a = a
           \/ \E p \in Callers : caller[p].a = a /\ caller[p].pc \in {"send", "sent"}
           => approval[a].status = "consumed" /\ approval[a].by \in Users

(* A job is recorded as succeeded, with its receipt, only when the provider *)
(* really acted: no caller ever records success on a stale or lost answer.  *)
SucceededIsTrue ==
    \A a \in ApprovalIds :
        job[a].state = "succeeded" => Accepted(a) /\ job[a].receipt

(* A settled submission is never reopened, whatever rows concurrent callers *)
(* still hold, and an approval is consumed for good.                        *)
SettledIsFinal ==
    [][\A a \in ApprovalIds :
          job[a].state \in Settled => job'[a].state = job[a].state]_vars

(* "Approval cannot be reused for a different digest" (data-model.md): what *)
(* the provider acts on is what was submitted under the approval, also when *)
(* the act is that of a re-run.                                             *)
ActsAsSubmitted == hollow = {}

(* "Never a blind re-send": a request for a key goes out only if none went  *)
(* out since the provider was last asked about that key.                    *)
NoBlindResend ==
    [][\A p \in Callers : Send(p) => caller[p].a \notin unasked]_vars

(* The retry budget: a re-run is decided while attempts < max_attempts, and *)
(* each call that holds such a decision when another one spends the last    *)
(* attempt executes once more; beyond that nobody does.                     *)
AttemptsWithinBudget ==
    \A a \in ApprovalIds :
        job[a].attempts <= MaxAttempts + Cardinality(Callers) - 1

(* Resuming an interrupted submission settles it, as long as somebody keeps *)
(* asking: a job that is executing, unknown or reconciling ends settled, or *)
(* back in "ready" when a call dies on the way to executing it.             *)
InterruptedSettles ==
    \A a \in ApprovalIds :
        job[a].state \in {"executing", "unknown_outcome", "reconciling"}
            ~> job[a].state \in Settled \/ (job[a].state = "ready" /\ crashes > 0)

(* _resolve_existing: "ready / executing / recoverable_failed /             *)
(* unknown_outcome: a prior attempt was interrupted.  Reconcile with the    *)
(* provider before deciding what to do."  So a ready job is resumed too.    *)
ReadyIsResumed ==
    \A a \in ApprovalIds : job[a].state = "ready" ~> job[a].state # "ready"

-----------------------------------------------------------------------------
(* The refinement mapping to the abstract promise.                         *)
PhaseOf(status) ==
    CASE status \in {"none", "pending"} -> "undecided"
      [] status = "approved" -> "approved"
      [] status = "consumed" -> "consumed"
      [] OTHER -> "withdrawn"

OutcomeOf(state) ==
    CASE state = "succeeded" -> "succeeded"
      [] state \in {"terminal_failed", "cancelled"} -> "failed"
      [] OTHER -> "open"

Governed == INSTANCE GovernedAction WITH
    Actions <- ApprovalIds,
    phase   <- [a \in ApprovalIds |-> PhaseOf(approval[a].status)],
    acts    <- effects,
    outcome <- [a \in ApprovalIds |-> OutcomeOf(job[a].state)]

(* The whole of service, callers and connector implements GovernedAction:   *)
(* at most one act per approval, only on a consumed approval, and a true    *)
(* report made once.                                                        *)
ImplementsGovernedAction == Governed!GovernedSpec
=============================================================================
