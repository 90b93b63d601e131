----------------------------- MODULE DurableJobs -----------------------------
(***************************************************************************)
(* JobService (backend/app/jobs/service.py) and the workers that drive it: *)
(* LocalJobRunner (runner.py) and the consumer cycle (consumer.py).        *)
(*                                                                         *)
(* A durable_jobs row is moved only by a version compare-and-set, and the  *)
(* outbox event of a move is inserted in the same transaction.  Workers    *)
(* load rows in one step and write them in a later one, so leases, reaps,  *)
(* cancellations and completions of several processes interleave.  Clocks  *)
(* are abstracted to what the code compares: a lease is live or expired,   *)
(* a job's available_at is past (eligible) or not.                         *)
(***************************************************************************)
EXTENDS Naturals, FiniteSets

CONSTANTS Jobs,          \* idempotency keys, each naming at most one row
          Workers,       \* worker processes
          Local,         \* the in-process drains among them: no reaping, no cancel poll
          IdOf,          \* the worker_id a process presents as lease owner
          Null,          \* the column value NULL
          MaxAttempts,   \* max_attempts of every job
          MaxCrashes,    \* bound: worker deaths
          MaxCancels     \* bound: cancellation requests in flight

ASSUME JobsAssumption ==
    /\ MaxAttempts \in Nat \ {0}
    /\ Local \subseteq Workers
    /\ \A w \in Workers : IdOf[w] # Null

VARIABLES row,       \* durable_jobs
          outbox,    \* outbox_events of durable jobs
          worker,    \* control state of every worker process
          snap,      \* versions a worker selected for its reap or its lease
          cancels,   \* request_cancel sessions between load and compare-and-set
          crashes    \* worker deaths so far

jobVars == <<row, outbox, worker, snap, cancels, crashes>>

-----------------------------------------------------------------------------
JobStates == {"queued", "leased", "running", "cancel_requested", "succeeded",
              "recoverable_failed", "terminal_failed", "cancelled"}

Terminal == {"succeeded", "terminal_failed", "cancelled"}
Leasable == {"queued", "recoverable_failed"}
Active == {"leased", "running"}

WorkerIds == {IdOf[w] : w \in Workers}

JobRow == [state : JobStates \cup {"none"}, version : Nat, attempts : Nat,
           owner : WorkerIds \cup {Null}, lease : {"none", "live", "expired"},
           eligible : BOOLEAN]

NoJob == [state |-> "none", version |-> 0, attempts |-> 0, owner |-> Null,
          lease |-> "none", eligible |-> FALSE]

(* An outbox row: the unique (aggregate id, aggregate version, type).      *)
Event == [job : Jobs, version : Nat, type : JobStates]

(* A worker process: where it is, the job it runs, the lease (its attempt  *)
(* number) it runs it under, and the row version and state it is about to  *)
(* write.                                                                  *)
Points == {"idle", "reap", "reaping", "lease", "leasing", "start", "handler",
           "complete", "fail", "cancel", "cas"}

Worker == [pc : Points, job : Jobs \cup {Null}, epoch : Nat, seen : Nat,
           to : JobStates]

Owns(w, j) == row[j].owner = IdOf[w]

WorkerAt(pc, j, epoch) ==
    [pc |-> pc, job |-> j, epoch |-> epoch, seen |-> 0, to |-> "queued"]

GoTo(w, pc) == worker' = [worker EXCEPT ![w] = WorkerAt(pc, worker[w].job, worker[w].epoch)]

(* The job is done with: a local drain leases the next one, a consumer     *)
(* cycle (max_jobs = 1) ends.                                              *)
DonePc(w) == IF w \in Local THEN "lease" ELSE "idle"

Done(w) == worker' = [worker EXCEPT ![w] = WorkerAt(DonePc(w), Null, 0)]

Load(w, to) ==
    worker' = [worker EXCEPT ![w] = [WorkerAt("cas", worker[w].job, worker[w].epoch)
                                        EXCEPT !.seen = row[worker[w].job].version,
                                               !.to = to]]

NoSnap == [j \in Jobs |-> 0]

Snapshot(S) == [j \in Jobs |-> IF j \in S THEN row[j].version ELSE 0]

Selected(w) == {j \in Jobs : snap[w][j] # 0}

-----------------------------------------------------------------------------
(* What the writes of the service make of a row.                           *)
LeasedRow(r, id) ==
    [r EXCEPT !.state = "leased", !.version = @ + 1, !.attempts = @ + 1,
              !.owner = id, !.lease = "live"]

(* complete leaves lease_owner and lease_expires_at as they are; fail and  *)
(* finalize_cancel clear both.                                             *)
MovedRow(r, to, eligible) ==
    [r EXCEPT !.state = to, !.version = @ + 1,
              !.owner = IF to \in {"running", "succeeded", "cancel_requested"} THEN @ ELSE Null,
              !.lease = IF to \in {"running", "succeeded", "cancel_requested"} THEN @ ELSE "none",
              !.eligible = IF to = "recoverable_failed" THEN eligible ELSE @]

(* Mutant: the budget test is off by one.                                  *)
FailedStateOneMore(r) ==
    IF r.attempts <= MaxAttempts THEN "recoverable_failed" ELSE "terminal_failed"

(* fail and reap_expired_leases: retry within the budget, else terminal.   *)
FailedState(r) == IF r.attempts < MaxAttempts THEN "recoverable_failed" ELSE "terminal_failed"

(* _emit: lease and start are not externally observable.                   *)
Emitted(j, version, type) ==
    IF type = "running" THEN {} ELSE {[job |-> j, version |-> version, type |-> type]}

-----------------------------------------------------------------------------
JobInit ==
    /\ row = [j \in Jobs |-> NoJob]
    /\ outbox = {}
    /\ worker = [w \in Workers |-> WorkerAt("idle", Null, 0)]
    /\ snap = [w \in Workers |-> NoSnap]
    /\ cancels = {}
    /\ crashes = 0

(* enqueue: the row and its job.enqueued event.  A repeat of the key finds *)
(* the row (or loses the unique insert) and changes nothing.               *)
Enqueue(j) ==
    /\ row[j].state = "none"
    /\ row' = [row EXCEPT ![j] = [NoJob EXCEPT !.state = "queued", !.version = 1,
                                               !.eligible = TRUE]]
    /\ outbox' = outbox \cup Emitted(j, 1, "queued")
    /\ UNCHANGED <<worker, snap, cancels, crashes>>

(* drain_one_cycle starts with the reaper, a local drain with the lease.   *)
BeginCycle(w) ==
    /\ worker[w].pc = "idle"
    /\ worker' = [worker EXCEPT ![w] =
                    WorkerAt(IF w \in Local THEN "lease" ELSE "reap", Null, 0)]
    /\ UNCHANGED <<row, outbox, snap, cancels, crashes>>

(* Mutant: only leases that never started are reclaimed.                   *)
ReapLoadLeasedOnly(w) ==
    /\ worker[w].pc = "reap"
    /\ snap' = [snap EXCEPT ![w] =
                  Snapshot({j \in Jobs : row[j].state = "leased" /\ row[j].lease = "expired"})]
    /\ GoTo(w, "reaping")
    /\ UNCHANGED <<row, outbox, cancels, crashes>>

(* reap_expired_leases, its select.                                        *)
ReapLoad(w) ==
    /\ worker[w].pc = "reap"
    /\ snap' = [snap EXCEPT ![w] =
                  Snapshot({j \in Jobs : row[j].state \in Active /\ row[j].lease = "expired"})]
    /\ GoTo(w, "reaping")
    /\ UNCHANGED <<row, outbox, cancels, crashes>>

(* Mutant: the sweep moves the rows without their outbox events.           *)
ReapCommitSilent(w) ==
    LET S == Selected(w)
    IN  /\ worker[w].pc = "reaping"
        /\ IF \A j \in S : row[j].version = snap[w][j]
             THEN /\ row' = [j \in Jobs |-> IF j \in S
                                              THEN MovedRow(row[j], FailedState(row[j]), TRUE)
                                              ELSE row[j]]
                  /\ GoTo(w, "lease")
             ELSE GoTo(w, "idle") /\ UNCHANGED row
        /\ snap' = [snap EXCEPT ![w] = NoSnap]
        /\ UNCHANGED <<outbox, cancels, crashes>>

(* reap_expired_leases, its writes: all of them commit, or the first       *)
(* conflict raises, rolls the sweep back and ends the cycle.               *)
ReapCommit(w) ==
    LET S == Selected(w)
        holds == \A j \in S : row[j].version = snap[w][j]
    IN  /\ worker[w].pc = "reaping"
        /\ IF holds
             THEN /\ row' = [j \in Jobs |-> IF j \in S
                                              THEN MovedRow(row[j], FailedState(row[j]), TRUE)
                                              ELSE row[j]]
                  /\ outbox' = outbox \cup
                        UNION {Emitted(j, row[j].version + 1, FailedState(row[j])) : j \in S}
                  /\ GoTo(w, "lease")
             ELSE /\ GoTo(w, "idle")
                  /\ UNCHANGED <<row, outbox>>
        /\ snap' = [snap EXCEPT ![w] = NoSnap]
        /\ UNCHANGED <<cancels, crashes>>

(* lease, its scan for candidates.                                         *)
LeaseLoad(w) ==
    /\ worker[w].pc = "lease"
    /\ snap' = [snap EXCEPT ![w] =
                  Snapshot({j \in Jobs : row[j].state \in Leasable /\ row[j].eligible})]
    /\ GoTo(w, "leasing")
    /\ UNCHANGED <<row, outbox, cancels, crashes>>

(* lease: the compare-and-set on one of the candidates; a lost race falls  *)
(* through to the next.                                                    *)
LeaseCommit(w, j) ==
    /\ worker[w].pc = "leasing"
    /\ j \in Selected(w)
    /\ row[j].version = snap[w][j]
    /\ row' = [row EXCEPT ![j] = LeasedRow(@, IdOf[w])]
    /\ worker' = [worker EXCEPT ![w] = WorkerAt("start", j, row[j].attempts + 1)]
    /\ snap' = [snap EXCEPT ![w] = NoSnap]
    /\ UNCHANGED <<outbox, cancels, crashes>>

(* No candidate, or every one lost: the drain is over.                     *)
LeaseNothing(w) ==
    /\ worker[w].pc = "leasing"
    /\ \A j \in Selected(w) : row[j].version # snap[w][j]
    /\ worker' = [worker EXCEPT ![w] = WorkerAt("idle", Null, 0)]
    /\ snap' = [snap EXCEPT ![w] = NoSnap]
    /\ UNCHANGED <<row, outbox, cancels, crashes>>

(* start, its load: a worker that no longer owns the leased job goes to    *)
(* the failure path.                                                       *)
StartLoad(w) ==
    LET j == worker[w].job
    IN  /\ worker[w].pc = "start"
        /\ IF Owns(w, j) /\ row[j].state = "leased"
             THEN Load(w, "running")
             ELSE GoTo(w, "fail")
        /\ UNCHANGED <<row, outbox, snap, cancels, crashes>>

(* The handler of the job's kind returns.  With a cancel poll, a cancel    *)
(* requested in the same window is honoured; without one the result is     *)
(* completed.                                                              *)
HandlerReturns(w) ==
    /\ worker[w].pc = "handler"
    /\ GoTo(w, IF w \notin Local /\ row[worker[w].job].state = "cancel_requested"
                 THEN "cancel" ELSE "complete")
    /\ UNCHANGED <<row, outbox, snap, cancels, crashes>>

HandlerRaises(w) ==
    /\ worker[w].pc = "handler"
    /\ GoTo(w, "fail")
    /\ UNCHANGED <<row, outbox, snap, cancels, crashes>>

(* _run_with_cancellation's poll sees the request and stops the handler.   *)
ObserveCancel(w) ==
    /\ worker[w].pc = "handler"
    /\ w \notin Local
    /\ row[worker[w].job].state = "cancel_requested"
    /\ GoTo(w, "cancel")
    /\ UNCHANGED <<row, outbox, snap, cancels, crashes>>

(* Mutant: complete does not check who owns the lease.                     *)
CompleteLoadAnyOwner(w) ==
    /\ worker[w].pc = "complete"
    /\ IF row[worker[w].job].state = "running" THEN Load(w, "succeeded") ELSE Done(w)
    /\ UNCHANGED <<row, outbox, snap, cancels, crashes>>

(* complete, its load: already succeeded is a no-op, a lost lease or       *)
(* another state raises JobStateError, which the runner swallows.          *)
CompleteLoad(w) ==
    LET j == worker[w].job
    IN  /\ worker[w].pc = "complete"
        /\ IF Owns(w, j) /\ row[j].state = "running"
             THEN Load(w, "succeeded")
             ELSE Done(w)
        /\ UNCHANGED <<row, outbox, snap, cancels, crashes>>

(* fail, its load.                                                         *)
FailLoad(w) ==
    LET j == worker[w].job
    IN  /\ worker[w].pc = "fail"
        /\ IF Owns(w, j) /\ row[j].state \in Active
             THEN Load(w, FailedState(row[j]))
             ELSE Done(w)
        /\ UNCHANGED <<row, outbox, snap, cancels, crashes>>

(* _run_one on a kind nobody registered: fail without another attempt.     *)
NoHandler(w) ==
    LET j == worker[w].job
    IN  /\ worker[w].pc = "start"
        /\ IF Owns(w, j) /\ row[j].state \in Active
             THEN Load(w, "terminal_failed")
             ELSE Done(w)
        /\ UNCHANGED <<row, outbox, snap, cancels, crashes>>

(* finalize_cancel, its load.                                              *)
CancelLoad(w) ==
    /\ worker[w].pc = "cancel"
    /\ IF row[worker[w].job].state = "cancel_requested"
         THEN Load(w, "cancelled")
         ELSE Done(w)
    /\ UNCHANGED <<row, outbox, snap, cancels, crashes>>

(* The compare-and-set of start, complete, fail and finalize_cancel, and   *)
(* the event in the same transaction.  A conflict is a JobStateError: in   *)
(* start it leads to the failure path, elsewhere the runner gives up.      *)
CasHolds(w) == row[worker[w].job].version = worker[w].seen

JobCas(w) ==
    LET j  == worker[w].job
        to == worker[w].to
    IN  /\ worker[w].pc = "cas"
        /\ IF CasHolds(w)
             THEN /\ row' = [row EXCEPT ![j] = MovedRow(@, to, w \notin Local)]
                  /\ outbox' = outbox \cup Emitted(j, row[j].version + 1, to)
                  /\ IF to = "running" THEN GoTo(w, "handler") ELSE Done(w)
             ELSE /\ IF to = "running" THEN GoTo(w, "fail") ELSE Done(w)
                  /\ UNCHANGED <<row, outbox>>
        /\ UNCHANGED <<snap, cancels, crashes>>

(* request_cancel (POST /runs/{id}/cancel), load and compare-and-set.      *)
RequestCancel(j) ==
    /\ row[j].state \notin Terminal \cup {"none", "cancel_requested"}
    /\ Cardinality(cancels) < MaxCancels
    /\ cancels' = cancels \cup {[job |-> j, seen |-> row[j].version]}
    /\ UNCHANGED <<row, outbox, worker, snap, crashes>>

RequestCancelCommit(c) ==
    /\ cancels' = cancels \ {c}
    /\ IF row[c.job].version = c.seen
         THEN /\ row' = [row EXCEPT ![c.job] = MovedRow(@, "cancel_requested", FALSE)]
              /\ outbox' = outbox \cup Emitted(c.job, row[c.job].version + 1, "cancel_requested")
         ELSE UNCHANGED <<row, outbox>>
    /\ UNCHANGED <<worker, snap, crashes>>

(* Clocks: lease_expires_at and available_at pass.                         *)
LeaseExpires(j) ==
    /\ row[j].lease = "live"
    /\ row' = [row EXCEPT ![j].lease = "expired"]
    /\ UNCHANGED <<outbox, worker, snap, cancels, crashes>>

BackoffElapses(j) ==
    /\ row[j].state = "recoverable_failed" /\ ~ row[j].eligible
    /\ row' = [row EXCEPT ![j].eligible = TRUE]
    /\ UNCHANGED <<outbox, worker, snap, cancels, crashes>>

(* kill -9: the process loses everything it holds; its lease stays.        *)
Crash(w) ==
    /\ worker[w].pc # "idle"
    /\ crashes < MaxCrashes
    /\ crashes' = crashes + 1
    /\ worker' = [worker EXCEPT ![w] = WorkerAt("idle", Null, 0)]
    /\ snap' = [snap EXCEPT ![w] = NoSnap]
    /\ UNCHANGED <<row, outbox, cancels>>

-----------------------------------------------------------------------------
(* The steps a worker takes by itself inside a cycle.                      *)
WorkerStep(w) ==
    \/ ReapLoad(w) \/ ReapCommit(w)
    \/ LeaseLoad(w) \/ (\E j \in Jobs : LeaseCommit(w, j)) \/ LeaseNothing(w)
    \/ StartLoad(w) \/ NoHandler(w)
    \/ HandlerReturns(w) \/ HandlerRaises(w) \/ ObserveCancel(w)
    \/ CompleteLoad(w) \/ FailLoad(w) \/ CancelLoad(w) \/ JobCas(w)

(* Steps of clients and of time.                                           *)
ClientStep ==
    \/ \E j \in Jobs : Enqueue(j)
    \/ \E j \in Jobs : RequestCancel(j)
    \/ \E c \in cancels : RequestCancelCommit(c)

ClockStep == \E j \in Jobs : LeaseExpires(j) \/ BackoffElapses(j)

JobNext ==
    \/ ClientStep
    \/ ClockStep
    \/ \E w \in Workers : BeginCycle(w)
    \/ \E w \in Workers : WorkerStep(w)
    \/ \E w \in Workers : Crash(w)

JobSpec == JobInit /\ [][JobNext]_jobVars

(* Workers are nudged again and again, a cycle that has begun proceeds and *)
(* handlers return or raise; time passes.                                  *)
JobFairness ==
    /\ \A w \in Workers : WF_jobVars(BeginCycle(w)) /\ WF_jobVars(WorkerStep(w))
    /\ \A j \in Jobs : WF_jobVars(LeaseExpires(j)) /\ WF_jobVars(BackoffElapses(j))

JobLiveSpec == JobSpec /\ JobFairness

-----------------------------------------------------------------------------
(* Type invariant of the job table, the outbox and the workers.            *)
JobTypeOK ==
    /\ row \in [Jobs -> JobRow]
    /\ outbox \subseteq Event
    /\ worker \in [Workers -> Worker]
    /\ snap \in [Workers -> [Jobs -> Nat]]
    /\ cancels \subseteq [job : Jobs, seen : Nat]
    /\ crashes \in Nat

(* The transactional outbox: whatever observable state a job is in has been *)
(* announced with exactly that state and version, no version is announced   *)
(* twice, and a job announces one terminal state at most.                   *)
OutboxTellsTheTruth ==
    \A j \in Jobs :
        /\ row[j].state \notin Active \cup {"none"} =>
              [job |-> j, version |-> row[j].version, type |-> row[j].state] \in outbox
        /\ \A e, f \in {x \in outbox : x.job = j} :
              e # f => e.version # f.version /\ {e.type, f.type} \ Terminal # {}

(* A worker that lost its lease cannot start, finish or fail the job: the   *)
(* attempt it was leased under is the row's current attempt whenever one of *)
(* its writes applies.                                                      *)
OnlyLeaseHolderWrites ==
    [][\A w \in Workers :
          worker[w].pc = "cas" /\ worker[w].to # "cancelled"
              /\ row'[worker[w].job].version # row[worker[w].job].version
              /\ JobCas(w)
          => worker[w].epoch = row[worker[w].job].attempts]_jobVars

(* The refinement mapping to the life of one job.                           *)
Life(j) == INSTANCE JobLife
           WITH Owners <- WorkerIds, Nobody <- Null, MaxTries <- MaxAttempts,
                state <- row[j].state, tries <- row[j].attempts, owner <- row[j].owner

(* One durable job as the rest of the system sees it: every load, decision  *)
(* and compare-and-set of the service, interleaved with everyone else's,    *)
(* amounts to the steps of JobLife: only the holder of the lease ends an    *)
(* attempt, no chain of failures and reaps exceeds max_attempts, and a      *)
(* terminal state is never left.                                            *)
ImplementsJobLife ==
    /\ \A j \in Jobs : Life(j)!LifeInit
    /\ [][\A j \in Jobs : [Life(j)!LifeNext]_(Life(j)!lifeVars)]_jobVars

(* With workers that keep being nudged, every job that is not cancelled     *)
(* reaches a terminal state through crashes, lost leases and retries.       *)
JobsFinish ==
    \A j \in Jobs : row[j].state \in {"queued", "leased", "running", "recoverable_failed"}
                        ~> row[j].state \in Terminal \cup {"cancel_requested"}

(* data-model.md: "queued/running/waiting_approval -> cancel_requested ->   *)
(* cancelled".                                                              *)
CancelFinishes ==
    \A j \in Jobs : row[j].state = "cancel_requested" ~> row[j].state = "cancelled"
=============================================================================
