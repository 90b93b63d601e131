-------------------------- MODULE DurableJobs_proofs --------------------------
(* Proofs about DurableJobs, for any number of jobs and workers, any retry *)
(* budget and any number of crashes and cancellations.                     *)
EXTENDS DurableJobs, TLAPS

-----------------------------------------------------------------------------
(* The inductive invariant.                                                *)

(* A row that exists has been written, and a job that waits has an attempt *)
(* left.                                                                   *)
RowInv(j) ==
    /\ IF row[j].state = "none" THEN row[j].version = 0 /\ row[j].attempts = 0
                                     /\ row[j].owner = Null
       ELSE row[j].version >= 1
    /\ row[j].state \in Leasable => row[j].attempts < MaxAttempts
    /\ row[j].attempts <= MaxAttempts

(* A reading v of the row's version: if the row still has that version, it *)
(* is in one of the states S that it was in when it was read.              *)
Fresh(j, v, S) == v <= row[j].version /\ (v = row[j].version => row[j].state \in S)

Working == {"start", "handler", "complete", "fail", "cancel", "cas"}

(* The states in which the service loads a row that it means to move.      *)
LoadedIn(to) ==
    CASE to = "running"            -> {"leased"}
      [] to = "succeeded"          -> {"running"}
      [] to = "recoverable_failed" -> Active
      [] to = "terminal_failed"    -> Active
      [] to = "cancelled"          -> {"cancel_requested"}

Targets == {"running", "succeeded", "recoverable_failed", "terminal_failed", "cancelled"}

(* A compare-and-set that will hold moves the row as it was loaded: in the *)
(* right state, owned by the worker, within the budget.                    *)
CasInv(w) ==
    LET j == worker[w].job
        v == worker[w].seen
        to == worker[w].to
    IN  worker[w].pc = "cas" =>
            /\ to \in Targets
            /\ Fresh(j, v, LoadedIn(to))
            /\ v = row[j].version /\ to # "cancelled" => row[j].owner = IdOf[w]
            /\ v = row[j].version /\ to = "recoverable_failed" =>
                  row[j].attempts < MaxAttempts

SnapInv(w) ==
    \A j \in Jobs :
        snap[w][j] # 0 =>
            /\ worker[w].pc = "reaping" => Fresh(j, snap[w][j], Active)
            /\ worker[w].pc = "leasing" => Fresh(j, snap[w][j], Leasable)

CancelInv(c) == Fresh(c.job, c.seen, {"queued", "leased", "running", "recoverable_failed"})

(* What the outbox says of a job: nothing ahead of the row, and a terminal *)
(* announcement only of the row as it is.                                  *)
OutboxInv ==
    \A e \in outbox :
        /\ e.version <= row[e.job].version
        /\ e.type \in Terminal => row[e.job].state \in Terminal

WorkerInv(w) ==
    /\ worker[w].pc \in Working => worker[w].job \in Jobs
    /\ CasInv(w) /\ SnapInv(w)

JobInv ==
    /\ JobTypeOK
    /\ \A j \in Jobs : RowInv(j)
    /\ \A w \in Workers : WorkerInv(w)
    /\ \A c \in cancels : CancelInv(c)
    /\ OutboxInv /\ OutboxTellsTheTruth

(* Every process presents an id of its own.                                *)
DistinctIds == \A v, w \in Workers : IdOf[v] = IdOf[w] => v = w

(* A worker that the row names as the holder of a running attempt runs the *)
(* job under that attempt.                                                 *)
LeaseInv ==
    \A w \in Workers :
        LET j == worker[w].job
        IN  worker[w].pc \in Working /\ row[j].owner = IdOf[w] /\ row[j].state \in Active
            => worker[w].epoch = row[j].attempts

-----------------------------------------------------------------------------
(* Shapes of the values that the actions write.                            *)
LEMMA WorkerAtType ==
    ASSUME NEW pc \in Points, NEW j \in Jobs \cup {Null}, NEW epoch \in Nat
    PROVE  /\ WorkerAt(pc, j, epoch) \in Worker
           /\ WorkerAt(pc, j, epoch).pc = pc
           /\ WorkerAt(pc, j, epoch).job = j
           /\ WorkerAt(pc, j, epoch).epoch = epoch
BY DEF WorkerAt, Worker, JobStates

LEMMA SnapshotType ==
    ASSUME JobTypeOK, NEW S
    PROVE  Snapshot(S) \in [Jobs -> Nat]
BY DEF JobTypeOK, Snapshot, JobRow

LEMMA NoSnapType == NoSnap \in [Jobs -> Nat] /\ \A j \in Jobs : NoSnap[j] = 0
BY DEF NoSnap

LEMMA FailedStateType ==
    ASSUME NEW r
    PROVE  FailedState(r) \in {"recoverable_failed", "terminal_failed"}
BY DEF FailedState

(* The row that a move leads to.                                           *)
LEMMA MovedRowFacts ==
    ASSUME NEW r \in JobRow, NEW to \in JobStates, NEW el \in BOOLEAN
    PROVE  /\ MovedRow(r, to, el) \in JobRow
           /\ MovedRow(r, to, el).state = to
           /\ MovedRow(r, to, el).version = r.version + 1
           /\ MovedRow(r, to, el).attempts = r.attempts
           /\ MovedRow(r, to, el).owner =
                 IF to \in {"running", "succeeded", "cancel_requested"} THEN r.owner ELSE Null
<1> DEFINE owner == IF to \in {"running", "succeeded", "cancel_requested"} THEN r.owner ELSE Null
           lease == IF to \in {"running", "succeeded", "cancel_requested"} THEN r.lease ELSE "none"
           elig == IF to = "recoverable_failed" THEN el ELSE r.eligible
<1>1. MovedRow(r, to, el) = [r EXCEPT !.state = to, !.version = r.version + 1,
                                      !.owner = owner, !.lease = lease, !.eligible = elig]
  BY DEF MovedRow
<1>2. owner \in WorkerIds \cup {Null} /\ lease \in {"none", "live", "expired"}
  BY DEF JobRow
<1>3. elig \in BOOLEAN
  BY DEF JobRow
<1>4. r.version + 1 \in Nat /\ r.attempts \in Nat
  BY DEF JobRow
<1> HIDE DEF owner, lease, elig
<1>5. MovedRow(r, to, el) \in JobRow
  BY <1>1, <1>2, <1>3, <1>4 DEF JobRow
<1>6. MovedRow(r, to, el).state = to /\ MovedRow(r, to, el).version = r.version + 1
      /\ MovedRow(r, to, el).attempts = r.attempts /\ MovedRow(r, to, el).owner = owner
  BY <1>1 DEF JobRow
<1> QED BY <1>5, <1>6 DEF owner

(* The row that a lease leads to.                                          *)
LEMMA LeasedRowFacts ==
    ASSUME NEW r \in JobRow, NEW id \in WorkerIds
    PROVE  /\ LeasedRow(r, id) \in JobRow
           /\ LeasedRow(r, id).state = "leased"
           /\ LeasedRow(r, id).version = r.version + 1
           /\ LeasedRow(r, id).attempts = r.attempts + 1
           /\ LeasedRow(r, id).owner = id
<1>1. r.version + 1 \in Nat /\ r.attempts + 1 \in Nat
  BY DEF JobRow
<1>2. LeasedRow(r, id) \in JobRow
  BY <1>1 DEF LeasedRow, JobRow, JobStates
<1> QED BY <1>2 DEF LeasedRow, JobRow

-----------------------------------------------------------------------------
(* What a step does to a row, whoever takes it.                            *)
Same(j) ==
    /\ row'[j].state = row[j].state /\ row'[j].version = row[j].version
    /\ row'[j].attempts = row[j].attempts /\ row'[j].owner = row[j].owner

Bumped(j) == row'[j].version = row[j].version + 1

RowMoves(j) ==
    \/ /\ row[j].state = "none" /\ row'[j].state = "queued"
       /\ row'[j].attempts = row[j].attempts /\ row'[j].owner = row[j].owner
    \/ /\ row[j].state \in Leasable /\ row'[j].state = "leased"
       /\ row'[j].attempts = row[j].attempts + 1 /\ row'[j].owner \in WorkerIds
    \/ /\ row'[j].attempts = row[j].attempts
       /\ \/ /\ row[j].state = "leased" /\ row'[j].state = "running"
             /\ row[j].owner \in WorkerIds /\ row'[j].owner = row[j].owner
          \/ /\ row[j].state = "running" /\ row'[j].state = "succeeded"
             /\ row[j].owner \in WorkerIds /\ row'[j].owner = row[j].owner
          \/ /\ row[j].state \in Active /\ row'[j].owner = Null
             /\ \/ row'[j].state = FailedState(row[j])
                \/ row'[j].state = "terminal_failed" /\ row[j].owner \in WorkerIds
          \/ /\ row[j].state \in Leasable \cup Active /\ row'[j].state = "cancel_requested"
             /\ row'[j].owner = row[j].owner
          \/ /\ row[j].state = "cancel_requested" /\ row'[j].state = "cancelled"
             /\ row'[j].owner = Null

(* A row stays as it is, but for the clocks, or moves and takes the next   *)
(* version.                                                                *)
RowStep(j) == Same(j) \/ (Bumped(j) /\ RowMoves(j))

(* The transactional outbox: a move and its announcement are one step.     *)
OutboxStep ==
    /\ outbox \subseteq outbox'
    /\ \A e \in outbox' \ outbox :
          /\ e.job \in Jobs /\ Bumped(e.job)
          /\ e.version = row'[e.job].version /\ e.type = row'[e.job].state
    /\ \A j \in Jobs : Bumped(j) /\ row'[j].state \notin Active =>
          [job |-> j, version |-> row'[j].version, type |-> row'[j].state] \in outbox'

Effect == (\A j \in Jobs : RowStep(j)) /\ OutboxStep

(* A reading stays sound while the row keeps its version, and is stale     *)
(* afterwards.                                                             *)
LEMMA FreshKept ==
    ASSUME JobTypeOK, NEW j \in Jobs, RowStep(j), NEW v \in Nat, NEW S, Fresh(j, v, S)
    PROVE  Fresh(j, v, S)'
BY DEF JobTypeOK, JobRow, RowStep, Same, Bumped, Fresh

(* A step that leaves the table and the outbox alone has no effect on them.*)
LEMMA NoEffect ==
    ASSUME JobTypeOK, row' = row, outbox' = outbox
    PROVE  Effect
<1>1. \A j \in Jobs : row[j].version \in Nat
  BY DEF JobTypeOK, JobRow
<1> QED BY <1>1 DEF Effect, RowStep, Same, OutboxStep, Bumped

(* One row moves, and the outbox gains its announcement.                   *)
LEMMA MoveEffect ==
    ASSUME JobTypeOK, NEW k \in Jobs, \A j \in Jobs \ {k} : row'[j] = row[j],
           Bumped(k), RowMoves(k),
           outbox' = outbox \cup Emitted(k, row[k].version + 1, row'[k].state)
              \/ (outbox' = outbox /\ row'[k].state \in Active)
    PROVE  Effect
<1>1. \A j \in Jobs : row[j].version \in Nat
  BY DEF JobTypeOK, JobRow
<1>2. \A j \in Jobs : RowStep(j)
  BY DEF RowStep, Same
<1>3. \A j \in Jobs : Bumped(j) => j = k
  BY <1>1 DEF Bumped
<1>4. OutboxStep
  BY <1>1, <1>3 DEF OutboxStep, Bumped, Emitted, Active
<1> QED BY <1>2, <1>4 DEF Effect

-----------------------------------------------------------------------------
(* The effect of the writes on rows and outbox.                            *)
LEMMA EnqueueEffect ==
    ASSUME JobInv, NEW j \in Jobs, Enqueue(j)
    PROVE  Effect
<1>1. row[j].version = 0 /\ row[j].attempts = 0 /\ row[j].owner = Null
  BY DEF Enqueue, JobInv, RowInv
<1>2. /\ row'[j].state = "queued" /\ row'[j].version = 1
      /\ row'[j].attempts = 0 /\ row'[j].owner = Null
      /\ \A i \in Jobs \ {j} : row'[i] = row[i]
  BY DEF Enqueue, NoJob, JobInv, JobTypeOK
<1>3. Bumped(j) /\ RowMoves(j)
  BY <1>1, <1>2 DEF Bumped, RowMoves, Enqueue
<1>4. outbox' = outbox \cup Emitted(j, row[j].version + 1, row'[j].state)
  BY <1>1, <1>2 DEF Enqueue
<1> QED BY <1>2, <1>3, <1>4, MoveEffect DEF JobInv

LEMMA LeaseCommitEffect ==
    ASSUME JobInv, NEW w \in Workers, NEW j \in Jobs, LeaseCommit(w, j)
    PROVE  Effect
<1>1. row[j].state \in Leasable
  BY DEF LeaseCommit, Selected, JobInv, WorkerInv, SnapInv, Fresh
<1>2. IdOf[w] \in WorkerIds /\ row[j] \in JobRow
  BY DEF WorkerIds, JobInv, JobTypeOK
<1>3. row'[j] = LeasedRow(row[j], IdOf[w]) /\ \A i \in Jobs \ {j} : row'[i] = row[i]
  BY DEF LeaseCommit, JobInv, JobTypeOK
<1>4. Bumped(j) /\ RowMoves(j) /\ row'[j].state \in Active
  BY <1>1, <1>2, <1>3, LeasedRowFacts DEF Bumped, RowMoves, Active
<1> QED BY <1>3, <1>4, MoveEffect DEF JobInv, LeaseCommit

(* The compare-and-set of start, complete, fail and finalize_cancel.       *)
LEMMA CasEffect ==
    ASSUME JobInv, NEW w \in Workers, JobCas(w)
    PROVE  Effect
<1>1. CASE ~ CasHolds(w)
  BY <1>1, NoEffect DEF JobCas, JobInv
<1>2. CASE CasHolds(w)
  <2>1. PICK j \in Jobs : j = worker[w].job
    BY DEF JobInv, WorkerInv, JobCas, Working
  <2>2. PICK to \in Targets : to = worker[w].to
    BY DEF JobInv, WorkerInv, JobCas, CasInv
  <2>3. /\ row[j].state \in LoadedIn(to)
        /\ to # "cancelled" => row[j].owner = IdOf[w]
        /\ to = "recoverable_failed" => row[j].attempts < MaxAttempts
    BY <1>2, <2>1, <2>2 DEF JobInv, WorkerInv, JobCas, CasInv, CasHolds, Fresh
  <2>4. to \in JobStates /\ row[j] \in JobRow /\ IdOf[w] \in WorkerIds
    BY DEF Targets, JobStates, JobInv, JobTypeOK, WorkerIds
  <2>5. /\ row'[j] = MovedRow(row[j], to, w \notin Local)
        /\ \A i \in Jobs \ {j} : row'[i] = row[i]
        /\ outbox' = outbox \cup Emitted(j, row[j].version + 1, to)
    BY <1>2, <2>1, <2>2 DEF JobCas, JobInv, JobTypeOK
  <2>6. /\ row'[j].state = to /\ Bumped(j)
        /\ row'[j].attempts = row[j].attempts
        /\ row'[j].owner =
              IF to \in {"running", "succeeded", "cancel_requested"} THEN row[j].owner ELSE Null
    BY <2>4, <2>5 DEF Bumped, MovedRow, JobRow
  <2>7. RowMoves(j)
    BY <2>2, <2>3, <2>4, <2>6 DEF RowMoves, LoadedIn, Targets, FailedState, Active
  <2> QED BY <2>5, <2>6, <2>7, MoveEffect DEF JobInv
<1> QED BY <1>1, <1>2

LEMMA CancelEffect ==
    ASSUME JobInv, NEW c \in cancels, RequestCancelCommit(c)
    PROVE  Effect
<1>1. CASE row[c.job].version # c.seen
  BY <1>1, NoEffect DEF RequestCancelCommit, JobInv
<1>2. CASE row[c.job].version = c.seen
  <2>1. PICK j \in Jobs : j = c.job
    BY DEF JobInv, JobTypeOK
  <2>2. row[j].state \in Leasable \cup Active
    BY <1>2, <2>1 DEF JobInv, CancelInv, Fresh, Leasable, Active
  <2>3. row[j] \in JobRow /\ "cancel_requested" \in JobStates
    BY DEF JobInv, JobTypeOK, JobStates
  <2>4. /\ row'[j] = MovedRow(row[j], "cancel_requested", FALSE)
        /\ \A i \in Jobs \ {j} : row'[i] = row[i]
        /\ outbox' = outbox \cup Emitted(j, row[j].version + 1, "cancel_requested")
    BY <1>2, <2>1 DEF RequestCancelCommit, JobInv, JobTypeOK
  <2>5. /\ row'[j].state = "cancel_requested" /\ Bumped(j)
        /\ row'[j].attempts = row[j].attempts /\ row'[j].owner = row[j].owner
    BY <2>3, <2>4 DEF Bumped, MovedRow, JobRow
  <2>6. RowMoves(j)
    BY <2>2, <2>5 DEF RowMoves
  <2> QED BY <2>4, <2>5, <2>6, MoveEffect DEF JobInv
<1> QED BY <1>1, <1>2

(* The reaper moves several rows at once, each with its announcement.      *)
LEMMA ReapEffect ==
    ASSUME JobInv, NEW w \in Workers, ReapCommit(w)
    PROVE  Effect
<1> DEFINE S == Selected(w)
<1>1. CASE ~ \A j \in S : row[j].version = snap[w][j]
  BY <1>1, NoEffect DEF ReapCommit, JobInv
<1>2. CASE \A j \in S : row[j].version = snap[w][j]
  <2>1. S \subseteq Jobs
    BY DEF Selected
  <2>2. \A j \in S : row[j].state \in Active
    BY <1>2 DEF Selected, ReapCommit, JobInv, WorkerInv, SnapInv, Fresh
  <2>3. \A j \in Jobs : row[j] \in JobRow /\ row[j].version \in Nat
    BY DEF JobInv, JobTypeOK, JobRow
  <2>4. /\ \A j \in S : row'[j] = MovedRow(row[j], FailedState(row[j]), TRUE)
        /\ \A j \in Jobs \ S : row'[j] = row[j]
        /\ outbox' = outbox \cup
              UNION {Emitted(j, row[j].version + 1, FailedState(row[j])) : j \in S}
    BY <1>2, <2>1 DEF ReapCommit
  <2>5. \A j \in S : /\ row'[j].state = FailedState(row[j]) /\ Bumped(j)
                     /\ row'[j].attempts = row[j].attempts /\ row'[j].owner = Null
    <3> SUFFICES ASSUME NEW j \in S
                 PROVE  /\ row'[j].state = FailedState(row[j]) /\ Bumped(j)
                        /\ row'[j].attempts = row[j].attempts /\ row'[j].owner = Null
      OBVIOUS
    <3>1. FailedState(row[j]) \in {"recoverable_failed", "terminal_failed"}
      BY FailedStateType
    <3>2. row[j] \in JobRow /\ row'[j] = MovedRow(row[j], FailedState(row[j]), TRUE)
      BY <2>1, <2>3, <2>4
    <3>3. PICK to \in {"recoverable_failed", "terminal_failed"} : to = FailedState(row[j])
      BY <3>1
    <3> QED BY <3>2, <3>3 DEF Bumped, MovedRow, JobRow
  <2>6. \A j \in Jobs : RowStep(j)
    BY <2>2, <2>4, <2>5 DEF RowStep, Same, RowMoves
  <2>7. \A j \in Jobs : Bumped(j) => j \in S
    BY <2>3, <2>4 DEF Bumped
  <2>8. \A j \in S : Emitted(j, row[j].version + 1, FailedState(row[j])) =
                       {[job |-> j, version |-> row'[j].version, type |-> row'[j].state]}
    BY <2>5, FailedStateType DEF Emitted, Bumped
  <2>9. OutboxStep
    <3>1. outbox \subseteq outbox'
      BY <2>4
    <3>2. ASSUME NEW e \in outbox' \ outbox
          PROVE  /\ e.job \in Jobs /\ Bumped(e.job)
                 /\ e.version = row'[e.job].version /\ e.type = row'[e.job].state
      <4>1. PICK j \in S : e \in Emitted(j, row[j].version + 1, FailedState(row[j]))
        BY <2>4
      <4> QED BY <2>1, <2>5, <2>8, <4>1
    <3>3. ASSUME NEW j \in Jobs, Bumped(j)
          PROVE  [job |-> j, version |-> row'[j].version, type |-> row'[j].state] \in outbox'
      BY <2>4, <2>7, <2>8, <3>3
    <3> QED BY <3>1, <3>2, <3>3 DEF OutboxStep
  <2> QED BY <2>6, <2>9 DEF Effect
<1> QED BY <1>1, <1>2

(* Clocks move no row.                                                     *)
LEMMA ClockEffect ==
    ASSUME JobInv, NEW j \in Jobs, LeaseExpires(j) \/ BackoffElapses(j)
    PROVE  Effect
<1>1. \A i \in Jobs : Same(i)
  <2>1. CASE LeaseExpires(j)
    BY <2>1 DEF JobInv, JobTypeOK, JobRow, LeaseExpires, Same
  <2>2. CASE BackoffElapses(j)
    BY <2>2 DEF JobInv, JobTypeOK, JobRow, BackoffElapses, Same
  <2> QED BY <2>1, <2>2
<1>2. \A i \in Jobs : row[i].version \in Nat
  BY DEF JobInv, JobTypeOK, JobRow
<1>3. outbox' = outbox
  BY DEF LeaseExpires, BackoffElapses
<1> QED BY <1>1, <1>2, <1>3 DEF Effect, RowStep, OutboxStep, Same, Bumped

(* Every step of the system has the effect described.                      *)
LEMMA StepEffect ==
    ASSUME JobInv, [JobNext]_jobVars
    PROVE  Effect
<1>1. CASE row' = row /\ outbox' = outbox
  BY <1>1, NoEffect DEF JobInv
<1>2. CASE ~ (row' = row /\ outbox' = outbox)
  <2>1. \/ \E j \in Jobs : Enqueue(j) \/ LeaseExpires(j) \/ BackoffElapses(j)
        \/ \E c \in cancels : RequestCancelCommit(c)
        \/ \E w \in Workers : ReapCommit(w) \/ JobCas(w) \/ \E j \in Jobs : LeaseCommit(w, j)
    BY <1>2 DEF JobNext, jobVars, ClientStep, ClockStep, WorkerStep, RequestCancel,
                BeginCycle, ReapLoad, LeaseLoad, LeaseNothing, StartLoad, NoHandler,
                HandlerReturns, HandlerRaises, ObserveCancel, CompleteLoad, FailLoad,
                CancelLoad, Crash
  <2> QED BY <2>1, EnqueueEffect, LeaseCommitEffect, CasEffect, CancelEffect, ReapEffect,
             ClockEffect
<1> QED BY <1>1, <1>2

-----------------------------------------------------------------------------
(* What follows from the effect for the rows, the outbox and the sessions. *)
LEMMA RowInvKept ==
    ASSUME JobInv, Effect, NEW j \in Jobs
    PROVE  RowInv(j)'
<1>1. RowInv(j) /\ RowStep(j) /\ row[j].version \in Nat /\ row[j].attempts \in Nat
  BY DEF JobInv, JobTypeOK, JobRow, Effect
<1>2. MaxAttempts \in Nat /\ MaxAttempts > 0
  BY JobsAssumption
<1>3. CASE Same(j)
  BY <1>1, <1>3 DEF Same, RowInv
<1>4. CASE Bumped(j) /\ RowMoves(j)
  BY <1>1, <1>2, <1>4 DEF Bumped, RowMoves, RowInv, FailedState, Leasable
<1> QED BY <1>1, <1>3, <1>4 DEF RowStep

LEMMA CancelInvKept ==
    ASSUME JobInv, Effect, NEW c \in cancels
    PROVE  CancelInv(c)'
<1>1. c.job \in Jobs /\ c.seen \in Nat /\ RowStep(c.job)
  BY DEF JobInv, JobTypeOK, Effect
<1>2. PICK j \in Jobs, v \in Nat : j = c.job /\ v = c.seen
  BY <1>1
<1> DEFINE S == {"queued", "leased", "running", "recoverable_failed"}
<1>3. Fresh(j, v, S)
  BY <1>2 DEF JobInv, CancelInv
<1>4. Fresh(j, v, S)'
  BY <1>1, <1>2, <1>3, FreshKept DEF JobInv
<1> QED BY <1>2, <1>4 DEF CancelInv

(* A terminal row is never moved again.                                    *)
LEMMA TerminalKept ==
    ASSUME NEW j \in Jobs, RowStep(j), row[j].state \in Terminal
    PROVE  Same(j)
BY DEF RowStep, RowMoves, Terminal, Leasable, Active

LEMMA OutboxKept ==
    ASSUME JobInv, Effect, JobTypeOK'
    PROVE  OutboxInv' /\ OutboxTellsTheTruth'
<1>1. /\ \A j \in Jobs : row[j].version \in Nat /\ RowStep(j)
      /\ \A e \in outbox' : e.job \in Jobs /\ e.version \in Nat
      /\ \A e \in outbox : e.job \in Jobs /\ e.version \in Nat
  BY DEF JobInv, JobTypeOK, JobRow, Effect, Event
<1>2. /\ outbox \subseteq outbox'
      /\ \A e \in outbox' \ outbox : /\ Bumped(e.job) /\ e.version = row'[e.job].version
                                     /\ e.type = row'[e.job].state
  BY DEF Effect, OutboxStep
<1>3. \A e \in outbox : /\ e.version <= row[e.job].version
                        /\ e.type \in Terminal => row[e.job].state \in Terminal
  BY DEF JobInv, OutboxInv
<1>4. \A j \in Jobs : row[j].version <= row'[j].version
                       /\ (row[j].state \in Terminal => Same(j))
  BY <1>1, TerminalKept DEF RowStep, Same, Bumped
<1>5. OutboxInv'
  <2> SUFFICES ASSUME NEW e \in outbox'
               PROVE  /\ e.version <= row'[e.job].version
                      /\ e.type \in Terminal => row'[e.job].state \in Terminal
    BY DEF OutboxInv
  <2>1. CASE e \in outbox
    <3>1. PICK j \in Jobs : j = e.job
      BY <1>1, <2>1
    <3>2. e.version \in Nat /\ row[j].version \in Nat /\ row'[j].version \in Nat
      BY <1>1, <2>1 DEF JobTypeOK, JobRow
    <3>3. e.version <= row[j].version /\ row[j].version <= row'[j].version
      BY <1>3, <1>4, <2>1, <3>1
    <3>4. e.type \in Terminal => row'[j].state \in Terminal
      BY <1>3, <1>4, <2>1, <3>1 DEF Same
    <3> QED BY <3>1, <3>2, <3>3, <3>4
  <2>2. CASE e \notin outbox
    BY <1>1, <1>2, <2>2
  <2> QED BY <2>1, <2>2
<1>6. ASSUME NEW j \in Jobs, row'[j].state \notin Active \cup {"none"}
      PROVE  [job |-> j, version |-> row'[j].version, type |-> row'[j].state] \in outbox'
  <2>1. CASE Same(j)
    BY <1>2, <1>6, <2>1 DEF JobInv, OutboxTellsTheTruth, Same
  <2>2. CASE Bumped(j)
    BY <1>6, <2>2 DEF Effect, OutboxStep
  <2> QED BY <1>1, <2>1, <2>2 DEF RowStep
<1>7. ASSUME NEW e \in outbox', NEW f \in outbox', e.job = f.job, e # f,
             e \in outbox \/ f \notin outbox
      PROVE  e.version # f.version /\ {e.type, f.type} \ Terminal # {}
  <2>1. CASE e \in outbox /\ f \in outbox
    BY <1>1, <1>7, <2>1 DEF JobInv, OutboxTellsTheTruth
  <2>2. CASE e \in outbox /\ f \notin outbox
    <3>1. Bumped(f.job) /\ f.version = row'[f.job].version /\ f.type = row'[f.job].state
      BY <1>2, <2>2
    <3>2. e.version <= row[f.job].version /\ row[f.job].version \in Nat
      <4>1. e.version <= row[e.job].version /\ e.job \in Jobs
        BY <1>1, <1>3, <2>2
      <4>2. row[e.job] = row[f.job]
        BY <1>7
      <4> QED BY <1>1, <4>1, <4>2
    <3>3. e.version # f.version
      BY <1>1, <3>1, <3>2 DEF Bumped
    <3>4. e.type \notin Terminal
      BY <1>1, <1>3, <1>4, <1>7, <2>2, <3>1, <3>2 DEF Bumped, Same
    <3> QED BY <3>3, <3>4
  <2>3. CASE e \notin outbox /\ f \notin outbox
    <3>1. e \in Event /\ f \in Event
      BY DEF JobTypeOK
    <3>2. e.version = f.version /\ e.type = f.type
      BY <1>2, <1>7, <2>3
    <3> QED BY <1>7, <3>1, <3>2 DEF Event
  <2> QED BY <1>7, <2>1, <2>2, <2>3
<1>8. OutboxTellsTheTruth'
  <2>1. \A j \in Jobs, e, f \in outbox' : e.job = j /\ f.job = j /\ e # f =>
            e.version # f.version /\ {e.type, f.type} \ Terminal # {}
    <3> SUFFICES ASSUME NEW e \in outbox', NEW f \in outbox', e.job = f.job, e # f
                 PROVE  e.version # f.version /\ {e.type, f.type} \ Terminal # {}
      OBVIOUS
    <3>1. CASE e \in outbox \/ f \notin outbox
      BY <1>7, <3>1
    <3>2. CASE e \notin outbox /\ f \in outbox
      <4>1. f.version # e.version /\ {f.type, e.type} \ Terminal # {}
        BY <1>7, <3>2
      <4> QED BY <4>1
    <3> QED BY <3>1, <3>2
  <2> QED BY <1>6, <2>1 DEF OutboxTellsTheTruth
<1> QED BY <1>5, <1>8

-----------------------------------------------------------------------------
(* Where a worker goes.                                                    *)
LEMMA GoToFacts ==
    ASSUME JobTypeOK, NEW w \in Workers, NEW pc \in Points, GoTo(w, pc)
    PROVE  /\ worker' \in [Workers -> Worker]
           /\ worker'[w].pc = pc /\ worker'[w].job = worker[w].job
           /\ worker'[w].epoch = worker[w].epoch
           /\ \A v \in Workers \ {w} : worker'[v] = worker[v]
<1>1. worker[w].job \in Jobs \cup {Null} /\ worker[w].epoch \in Nat
  BY DEF JobTypeOK, Worker
<1>2. worker' = [worker EXCEPT ![w] = WorkerAt(pc, worker[w].job, worker[w].epoch)]
  BY DEF GoTo
<1> QED BY <1>1, <1>2, WorkerAtType DEF JobTypeOK

LEMMA DoneFacts ==
    ASSUME JobTypeOK, NEW w \in Workers, Done(w)
    PROVE  /\ worker' \in [Workers -> Worker]
           /\ worker'[w].pc \in {"idle", "lease"}
           /\ \A v \in Workers \ {w} : worker'[v] = worker[v]
<1>1. DonePc(w) \in {"idle", "lease"} /\ DonePc(w) \in Points
  BY DEF DonePc, Points
<1>2. /\ WorkerAt(DonePc(w), Null, 0) \in Worker
      /\ WorkerAt(DonePc(w), Null, 0).pc = DonePc(w)
  BY <1>1, WorkerAtType
<1>3. worker' = [worker EXCEPT ![w] = WorkerAt(DonePc(w), Null, 0)]
  BY DEF Done
<1> QED BY <1>1, <1>2, <1>3 DEF JobTypeOK

LEMMA LoadFacts ==
    ASSUME JobTypeOK, NEW w \in Workers, worker[w].job \in Jobs, NEW to \in JobStates,
           Load(w, to)
    PROVE  /\ worker' \in [Workers -> Worker]
           /\ worker'[w].pc = "cas" /\ worker'[w].job = worker[w].job
           /\ worker'[w].epoch = worker[w].epoch
           /\ worker'[w].seen = row[worker[w].job].version /\ worker'[w].to = to
           /\ \A v \in Workers \ {w} : worker'[v] = worker[v]
<1> DEFINE at == WorkerAt("cas", worker[w].job, worker[w].epoch)
           new == [at EXCEPT !.seen = row[worker[w].job].version, !.to = to]
<1>1. worker[w].job \in Jobs \cup {Null} /\ worker[w].epoch \in Nat /\ "cas" \in Points
  BY DEF JobTypeOK, Worker, Points
<1>2. row[worker[w].job].version \in Nat
  BY DEF JobTypeOK, JobRow
<1>3. /\ at \in Worker /\ at.pc = "cas" /\ at.job = worker[w].job
      /\ at.epoch = worker[w].epoch
  BY <1>1, WorkerAtType
<1> HIDE DEF at
<1>4. /\ new \in Worker /\ new.pc = "cas" /\ new.job = worker[w].job
      /\ new.epoch = worker[w].epoch
      /\ new.seen = row[worker[w].job].version /\ new.to = to
  BY <1>2, <1>3 DEF Worker
<1>5. worker' = [worker EXCEPT ![w] = new]
  BY DEF Load, at
<1> HIDE DEF new
<1> QED BY <1>4, <1>5 DEF JobTypeOK

(* A worker that is not about to compare-and-set or to use a selection.    *)
LEMMA AtRest ==
    ASSUME NEW w \in Workers, worker'[w].pc \notin {"cas", "reaping", "leasing"},
           worker'[w].pc \in Working => worker'[w].job \in Jobs
    PROVE  WorkerInv(w)'
BY DEF WorkerInv, CasInv, SnapInv

(* The service has loaded a row that it may move.                          *)
LEMMA LoadInv ==
    ASSUME JobTypeOK, NEW w \in Workers, worker[w].job \in Jobs, NEW to \in Targets,
           Load(w, to), row' = row,
           row[worker[w].job].state \in LoadedIn(to),
           to # "cancelled" => row[worker[w].job].owner = IdOf[w],
           to = "recoverable_failed" => row[worker[w].job].attempts < MaxAttempts
    PROVE  WorkerInv(w)' /\ worker' \in [Workers -> Worker]
           /\ \A v \in Workers \ {w} : worker'[v] = worker[v]
<1>1. to \in JobStates
  BY DEF Targets, JobStates
<1>2. /\ worker' \in [Workers -> Worker]
      /\ worker'[w].pc = "cas" /\ worker'[w].job = worker[w].job
      /\ worker'[w].seen = row[worker[w].job].version /\ worker'[w].to = to
      /\ \A v \in Workers \ {w} : worker'[v] = worker[v]
  BY <1>1, LoadFacts
<1>3. row[worker[w].job].version \in Nat
  BY DEF JobTypeOK, JobRow
<1>4. CasInv(w)'
  BY <1>2, <1>3 DEF CasInv, Fresh
<1>5. SnapInv(w)'
  BY <1>2 DEF SnapInv
<1> QED BY <1>2, <1>4, <1>5 DEF WorkerInv

(* A step of another process leaves a worker's readings sound or stale.    *)
LEMMA WorkerKept ==
    ASSUME JobInv, Effect, NEW w \in Workers, worker'[w] = worker[w], snap'[w] = snap[w]
    PROVE  WorkerInv(w)'
<1>1. JobTypeOK /\ WorkerInv(w)
  BY DEF JobInv
<1>2. CasInv(w)'
  <2> SUFFICES ASSUME worker[w].pc = "cas" PROVE CasInv(w)'
    BY DEF CasInv
  <2>1. PICK j \in Jobs, v \in Nat, to \in Targets :
           j = worker[w].job /\ v = worker[w].seen /\ to = worker[w].to
    BY <1>1 DEF WorkerInv, CasInv, Working, JobTypeOK, Worker
  <2>2. RowStep(j) /\ row[j].version \in Nat
    BY DEF Effect, JobInv, JobTypeOK, JobRow
  <2>3. Fresh(j, v, LoadedIn(to))
    BY <1>1, <2>1 DEF WorkerInv, CasInv
  <2>4. Fresh(j, v, LoadedIn(to))'
    BY <1>1, <2>2, <2>3, FreshKept
  <2>5. v = row'[j].version => Same(j) /\ v = row[j].version
    BY <2>2, <2>3 DEF RowStep, Bumped, Same, Fresh
  <2> QED BY <1>1, <2>1, <2>4, <2>5 DEF CasInv, WorkerInv, Same
<1>3. SnapInv(w)'
  <2> SUFFICES ASSUME NEW j \in Jobs, snap[w][j] # 0
               PROVE  /\ worker[w].pc = "reaping" => Fresh(j, snap[w][j], Active)'
                      /\ worker[w].pc = "leasing" => Fresh(j, snap[w][j], Leasable)'
    BY DEF SnapInv
  <2>1. PICK v \in Nat : v = snap[w][j]
    BY <1>1 DEF JobTypeOK
  <2>2. RowStep(j)
    BY DEF Effect
  <2>3. worker[w].pc = "reaping" => Fresh(j, v, Active)'
    BY <1>1, <2>1, <2>2, FreshKept DEF WorkerInv, SnapInv
  <2>4. worker[w].pc = "leasing" => Fresh(j, v, Leasable)'
    BY <1>1, <2>1, <2>2, FreshKept DEF WorkerInv, SnapInv
  <2> QED BY <2>1, <2>3, <2>4
<1> QED BY <1>1, <1>2, <1>3 DEF WorkerInv

-----------------------------------------------------------------------------
(* The moves of a worker, one lemma per group of actions: it keeps the     *)
(* types of the workers' state, and its own invariant.                     *)
OwnStep(w) ==
    /\ worker' \in [Workers -> Worker] /\ snap' \in [Workers -> [Jobs -> Nat]]
    /\ WorkerInv(w)'
    /\ \A v \in Workers \ {w} : worker'[v] = worker[v] /\ snap'[v] = snap[v]

(* Steps after which the worker rests: nothing read is pending.            *)
LEMMA RestStep ==
    ASSUME JobInv, NEW w \in Workers, worker' \in [Workers -> Worker],
           snap' = snap \/ snap' = [snap EXCEPT ![w] = NoSnap],
           \A v \in Workers \ {w} : worker'[v] = worker[v],
           worker'[w].pc \notin {"cas", "reaping", "leasing"},
           worker'[w].pc \in Working => worker'[w].job \in Jobs
    PROVE  OwnStep(w)
<1>1. WorkerInv(w)'
  BY AtRest
<1>2. snap' \in [Workers -> [Jobs -> Nat]]
  BY NoSnapType DEF JobInv, JobTypeOK
<1>3. \A v \in Workers \ {w} : snap'[v] = snap[v]
  BY DEF JobInv, JobTypeOK
<1> QED BY <1>1, <1>2, <1>3 DEF OwnStep

(* BeginCycle, LeaseNothing and Crash drop whatever the worker held.       *)
LEMMA ResetStep ==
    ASSUME JobInv, NEW w \in Workers, BeginCycle(w) \/ LeaseNothing(w) \/ Crash(w)
    PROVE  OwnStep(w)
<1>1. PICK pc \in {"idle", "lease", "reap"} :
         worker' = [worker EXCEPT ![w] = WorkerAt(pc, Null, 0)]
  BY DEF BeginCycle, LeaseNothing, Crash
<1>2. pc \in Points
  BY DEF Points
<1>3. WorkerAt(pc, Null, 0) \in Worker /\ WorkerAt(pc, Null, 0).pc = pc
  BY <1>2, WorkerAtType
<1>4. /\ worker' \in [Workers -> Worker] /\ worker'[w].pc = pc
      /\ \A v \in Workers \ {w} : worker'[v] = worker[v]
  BY <1>1, <1>3 DEF JobInv, JobTypeOK
<1>5. snap' = snap \/ snap' = [snap EXCEPT ![w] = NoSnap]
  BY DEF BeginCycle, LeaseNothing, Crash
<1> QED BY <1>4, <1>5, RestStep DEF Working

(* ReapLoad and LeaseLoad select rows in the states they look for.         *)
LEMMA SelectStep ==
    ASSUME JobInv, NEW w \in Workers, ReapLoad(w) \/ LeaseLoad(w)
    PROVE  OwnStep(w)
<1>1. JobTypeOK /\ \A j \in Jobs : row[j].version \in Nat
  BY DEF JobInv, JobTypeOK, JobRow
<1>2. ASSUME NEW S, NEW pc \in Points, pc \in {"reaping", "leasing"}, GoTo(w, pc),
             snap' = [snap EXCEPT ![w] = Snapshot(S)], row' = row,
             S \subseteq {j \in Jobs : row[j].state \in
                              IF pc = "reaping" THEN Active ELSE Leasable}
      PROVE  OwnStep(w)
  <2>1. /\ worker' \in [Workers -> Worker] /\ worker'[w].pc = pc
        /\ \A v \in Workers \ {w} : worker'[v] = worker[v]
    BY <1>1, <1>2, GoToFacts
  <2>2. Snapshot(S) \in [Jobs -> Nat]
    BY <1>1, SnapshotType
  <2>3. /\ snap' \in [Workers -> [Jobs -> Nat]] /\ snap'[w] = Snapshot(S)
        /\ \A v \in Workers \ {w} : snap'[v] = snap[v]
    BY <1>1, <1>2, <2>2 DEF JobTypeOK
  <2>4. \A j \in Jobs : Snapshot(S)[j] # 0 => j \in S /\ Snapshot(S)[j] = row[j].version
    BY DEF Snapshot
  <2>5. SnapInv(w)'
    <3> SUFFICES ASSUME NEW j \in Jobs, snap'[w][j] # 0
                 PROVE  /\ pc = "reaping" => Fresh(j, snap[w][j], Active)'
                        /\ pc = "leasing" => Fresh(j, snap[w][j], Leasable)'
      BY <2>1 DEF SnapInv
    <3>1. snap'[w][j] = row'[j].version /\ row'[j] = row[j] /\ j \in S
      BY <1>2, <2>3, <2>4
    <3> QED BY <1>1, <1>2, <3>1 DEF Fresh
  <2>6. CasInv(w)' /\ (worker'[w].pc \in Working => worker'[w].job \in Jobs)
    BY <1>2, <2>1 DEF CasInv, Working
  <2> QED BY <2>1, <2>3, <2>5, <2>6 DEF OwnStep, WorkerInv
<1>3. CASE ReapLoad(w)
  <2> DEFINE S == {j \in Jobs : row[j].state \in Active /\ row[j].lease = "expired"}
  <2>1. /\ GoTo(w, "reaping") /\ row' = row
        /\ snap' = [snap EXCEPT ![w] = Snapshot(S)]
    BY <1>3 DEF ReapLoad
  <2>2. S \subseteq {j \in Jobs : row[j].state \in Active}
    OBVIOUS
  <2>3. "reaping" \in Points
    BY DEF Points
  <2> HIDE DEF S
  <2> QED BY <1>2, <2>1, <2>2, <2>3
<1>4. CASE LeaseLoad(w)
  <2> DEFINE S == {j \in Jobs : row[j].state \in Leasable /\ row[j].eligible}
  <2>1. /\ GoTo(w, "leasing") /\ row' = row
        /\ snap' = [snap EXCEPT ![w] = Snapshot(S)]
    BY <1>4 DEF LeaseLoad
  <2>2. S \subseteq {j \in Jobs : row[j].state \in Leasable}
    OBVIOUS
  <2>3. "leasing" \in Points
    BY DEF Points
  <2> HIDE DEF S
  <2> QED BY <1>2, <2>1, <2>2, <2>3
<1> QED BY <1>3, <1>4

LEMMA ReapCommitOwn ==
    ASSUME JobInv, NEW w \in Workers, ReapCommit(w)
    PROVE  OwnStep(w)
<1>1. PICK pc \in {"idle", "lease"} : GoTo(w, pc)
  BY DEF ReapCommit
<1>2. pc \in Points
  BY DEF Points
<1>3. /\ worker' \in [Workers -> Worker] /\ worker'[w].pc = pc
      /\ \A v \in Workers \ {w} : worker'[v] = worker[v]
  BY <1>1, <1>2, GoToFacts DEF JobInv
<1>4. snap' = [snap EXCEPT ![w] = NoSnap]
  BY DEF ReapCommit
<1> QED BY <1>3, <1>4, RestStep DEF Working

LEMMA LeaseCommitOwn ==
    ASSUME JobInv, NEW w \in Workers, NEW j \in Jobs, LeaseCommit(w, j)
    PROVE  OwnStep(w)
<1>1. row[j].attempts + 1 \in Nat /\ j \in Jobs \cup {Null} /\ "start" \in Points
  BY DEF JobInv, JobTypeOK, JobRow, Points
<1>2. /\ WorkerAt("start", j, row[j].attempts + 1) \in Worker
      /\ WorkerAt("start", j, row[j].attempts + 1).pc = "start"
      /\ WorkerAt("start", j, row[j].attempts + 1).job = j
  BY <1>1, WorkerAtType
<1>3. /\ worker' = [worker EXCEPT ![w] = WorkerAt("start", j, row[j].attempts + 1)]
      /\ snap' = [snap EXCEPT ![w] = NoSnap]
  BY DEF LeaseCommit
<1>4. /\ worker' \in [Workers -> Worker]
      /\ worker'[w].pc = "start" /\ worker'[w].job = j
      /\ \A v \in Workers \ {w} : worker'[v] = worker[v]
  BY <1>2, <1>3 DEF JobInv, JobTypeOK
<1> QED BY <1>3, <1>4, RestStep

(* The steps of a worker that holds a job and loads nothing.               *)
LEMMA MoveOn ==
    ASSUME JobInv, NEW w \in Workers, worker[w].pc \in Working, snap' = snap,
           Done(w) \/ \E pc \in Working \ {"cas"} : GoTo(w, pc)
    PROVE  OwnStep(w)
<1>1. worker[w].job \in Jobs
  BY DEF JobInv, WorkerInv
<1>2. CASE Done(w)
  BY <1>2, DoneFacts, RestStep DEF JobInv, Working
<1>3. ASSUME NEW pc \in Working \ {"cas"}, GoTo(w, pc) PROVE OwnStep(w)
  <2>1. pc \in Points
    BY DEF Working, Points
  <2>2. /\ worker' \in [Workers -> Worker] /\ worker'[w].pc = pc
        /\ worker'[w].job = worker[w].job
        /\ \A v \in Workers \ {w} : worker'[v] = worker[v]
    BY <1>3, <2>1, GoToFacts DEF JobInv
  <2> QED BY <1>1, <2>2, RestStep DEF Working
<1> QED BY <1>2, <1>3

LEMMA HandlerStep ==
    ASSUME JobInv, NEW w \in Workers,
           HandlerReturns(w) \/ HandlerRaises(w) \/ ObserveCancel(w) \/ JobCas(w)
    PROVE  OwnStep(w)
<1>1. worker[w].pc \in Working /\ snap' = snap
  BY DEF HandlerReturns, HandlerRaises, ObserveCancel, JobCas, Working
<1>2. Done(w) \/ \E pc \in Working \ {"cas"} : GoTo(w, pc)
  BY DEF HandlerReturns, HandlerRaises, ObserveCancel, JobCas, Working
<1> QED BY <1>1, <1>2, MoveOn

(* The loads: what they check is what the compare-and-set relies on.       *)
LEMMA LoadStep ==
    ASSUME JobInv, NEW w \in Workers,
           \/ StartLoad(w) \/ NoHandler(w) \/ CompleteLoad(w) \/ FailLoad(w) \/ CancelLoad(w)
    PROVE  OwnStep(w)
<1>1. /\ worker[w].pc \in Working /\ snap' = snap /\ row' = row
      /\ JobTypeOK
  BY DEF StartLoad, NoHandler, CompleteLoad, FailLoad, CancelLoad, Working, JobInv
<1>2. PICK j \in Jobs : j = worker[w].job
  BY <1>1 DEF JobInv, WorkerInv
<1>3. ASSUME NEW to \in Targets, Load(w, to), row[j].state \in LoadedIn(to),
             to # "cancelled" => row[j].owner = IdOf[w],
             to = "recoverable_failed" => row[j].attempts < MaxAttempts
      PROVE  OwnStep(w)
  BY <1>1, <1>2, <1>3, LoadInv DEF OwnStep, JobTypeOK
<1>4. CASE Done(w) \/ GoTo(w, "fail")
  BY <1>1, <1>4, MoveOn DEF Working
<1>5. CASE ~ (Done(w) \/ GoTo(w, "fail"))
  <2>1. CASE StartLoad(w)
    BY <1>2, <1>3, <1>5, <2>1 DEF StartLoad, Owns, Targets, LoadedIn
  <2>2. CASE NoHandler(w)
    BY <1>2, <1>3, <1>5, <2>2 DEF NoHandler, Owns, Targets, LoadedIn
  <2>3. CASE CompleteLoad(w)
    BY <1>2, <1>3, <1>5, <2>3 DEF CompleteLoad, Owns, Targets, LoadedIn
  <2>4. CASE FailLoad(w)
    <3>1. Load(w, FailedState(row[j])) /\ row[j].owner = IdOf[w] /\ row[j].state \in Active
      BY <1>2, <1>5, <2>4 DEF FailLoad, Owns
    <3>2. /\ FailedState(row[j]) \in Targets /\ FailedState(row[j]) # "cancelled"
          /\ LoadedIn(FailedState(row[j])) = Active
          /\ FailedState(row[j]) = "recoverable_failed" => row[j].attempts < MaxAttempts
      BY DEF FailedState, Targets, LoadedIn
    <3> QED BY <1>3, <3>1, <3>2
  <2>5. CASE CancelLoad(w)
    BY <1>2, <1>3, <1>5, <2>5 DEF CancelLoad, Targets, LoadedIn
  <2> QED BY <2>1, <2>2, <2>3, <2>4, <2>5
<1> QED BY <1>4, <1>5

-----------------------------------------------------------------------------
(* The tables keep their types.                                            *)
LEMMA RowType ==
    ASSUME JobInv, [JobNext]_jobVars
    PROVE  row' \in [Jobs -> JobRow]
<1>1. row \in [Jobs -> JobRow] /\ \A j \in Jobs : row[j] \in JobRow
  BY DEF JobInv, JobTypeOK
<1>2. ASSUME NEW j \in Jobs, Enqueue(j) PROVE row' \in [Jobs -> JobRow]
  <2>1. [NoJob EXCEPT !.state = "queued", !.version = 1, !.eligible = TRUE] \in JobRow
    BY DEF NoJob, JobRow, JobStates
  <2> QED BY <1>1, <1>2, <2>1 DEF Enqueue
<1>3. ASSUME NEW w \in Workers, NEW j \in Jobs, LeaseCommit(w, j)
      PROVE  row' \in [Jobs -> JobRow]
  <2>1. LeasedRow(row[j], IdOf[w]) \in JobRow
    BY <1>1, LeasedRowFacts DEF WorkerIds
  <2> QED BY <1>1, <1>3, <2>1 DEF LeaseCommit
<1>4. ASSUME NEW w \in Workers, JobCas(w) PROVE row' \in [Jobs -> JobRow]
  <2>1. worker[w].to \in JobStates
    BY DEF JobInv, JobTypeOK, Worker
  <2>2. PICK el \in BOOLEAN : el = (w \notin Local)
    OBVIOUS
  <2>3. \A j \in Jobs : MovedRow(row[j], worker[w].to, el) \in JobRow
    BY <1>1, <2>1, MovedRowFacts
  <2> QED BY <1>1, <1>4, <2>2, <2>3 DEF JobCas
<1>5. ASSUME NEW w \in Workers, ReapCommit(w) PROVE row' \in [Jobs -> JobRow]
  <2>1. PICK el \in BOOLEAN : el = TRUE
    OBVIOUS
  <2>2. ASSUME NEW j \in Jobs PROVE MovedRow(row[j], FailedState(row[j]), el) \in JobRow
    <3>1. FailedState(row[j]) \in JobStates
      BY FailedStateType DEF JobStates
    <3> QED BY <1>1, <3>1, MovedRowFacts
  <2> QED BY <1>1, <1>5, <2>1, <2>2 DEF ReapCommit
<1>6. ASSUME NEW c \in cancels, RequestCancelCommit(c) PROVE row' \in [Jobs -> JobRow]
  <2>1. PICK el \in BOOLEAN : el = FALSE
    OBVIOUS
  <2>2. \A j \in Jobs : MovedRow(row[j], "cancel_requested", el) \in JobRow
    BY <1>1, MovedRowFacts DEF JobStates
  <2> QED BY <1>1, <1>6, <2>1, <2>2 DEF RequestCancelCommit
<1>7. ASSUME NEW j \in Jobs, LeaseExpires(j) PROVE row' \in [Jobs -> JobRow]
  BY <1>1, <1>7 DEF LeaseExpires, JobRow
<1>8. ASSUME NEW j \in Jobs, BackoffElapses(j) PROVE row' \in [Jobs -> JobRow]
  BY <1>1, <1>8 DEF BackoffElapses, JobRow
<1>9. CASE row' = row
  BY <1>1, <1>9
<1>10. CASE row' # row
  <2>1. \/ \E j \in Jobs : Enqueue(j) \/ LeaseExpires(j) \/ BackoffElapses(j)
        \/ \E c \in cancels : RequestCancelCommit(c)
        \/ \E w \in Workers : ReapCommit(w) \/ JobCas(w) \/ \E j \in Jobs : LeaseCommit(w, j)
    BY <1>10 DEF JobNext, jobVars, ClientStep, ClockStep, WorkerStep, RequestCancel,
                BeginCycle, ReapLoad, LeaseLoad, LeaseNothing, StartLoad, NoHandler,
                HandlerReturns, HandlerRaises, ObserveCancel, CompleteLoad, FailLoad,
                CancelLoad, Crash
  <2> QED BY <1>2, <1>3, <1>4, <1>5, <1>6, <1>7, <1>8, <2>1
<1> QED BY <1>9, <1>10

LEMMA EmittedType ==
    ASSUME NEW j \in Jobs, NEW version \in Nat, NEW type \in JobStates
    PROVE  Emitted(j, version, type) \subseteq Event
BY DEF Emitted, Event

LEMMA OutboxType ==
    ASSUME JobInv, [JobNext]_jobVars
    PROVE  outbox' \subseteq Event
<1>1. outbox \subseteq Event /\ \A j \in Jobs : row[j].version + 1 \in Nat
  BY DEF JobInv, JobTypeOK, JobRow
<1>2. ASSUME NEW j \in Jobs, Enqueue(j) PROVE outbox' \subseteq Event
  BY <1>1, <1>2, EmittedType DEF Enqueue, JobStates
<1>3. ASSUME NEW w \in Workers, JobCas(w) PROVE outbox' \subseteq Event
  <2>1. worker[w].to \in JobStates /\ worker[w].job \in Jobs
    BY <1>3 DEF JobInv, JobTypeOK, Worker, WorkerInv, JobCas, Working
  <2> QED BY <1>1, <1>3, <2>1, EmittedType DEF JobCas
<1>4. ASSUME NEW w \in Workers, ReapCommit(w) PROVE outbox' \subseteq Event
  <2>1. ASSUME NEW j \in Jobs
        PROVE  Emitted(j, row[j].version + 1, FailedState(row[j])) \subseteq Event
    <3>1. FailedState(row[j]) \in JobStates
      BY FailedStateType DEF JobStates
    <3> QED BY <1>1, <3>1, EmittedType
  <2>2. Selected(w) \subseteq Jobs
    BY DEF Selected
  <2>3. UNION {Emitted(j, row[j].version + 1, FailedState(row[j])) : j \in Selected(w)}
           \subseteq Event
    BY <2>1, <2>2
  <2> QED BY <1>1, <1>4, <2>3 DEF ReapCommit
<1>5. ASSUME NEW c \in cancels, RequestCancelCommit(c) PROVE outbox' \subseteq Event
  <2>1. c.job \in Jobs /\ "cancel_requested" \in JobStates
    BY DEF JobInv, JobTypeOK, JobStates
  <2> QED BY <1>1, <1>5, <2>1, EmittedType DEF RequestCancelCommit
<1>6. CASE outbox' = outbox
  BY <1>1, <1>6
<1>7. CASE outbox' # outbox
  <2>1. \/ \E j \in Jobs : Enqueue(j)
        \/ \E c \in cancels : RequestCancelCommit(c)
        \/ \E w \in Workers : ReapCommit(w) \/ JobCas(w)
    BY <1>7 DEF JobNext, jobVars, ClientStep, ClockStep, WorkerStep, RequestCancel,
                BeginCycle, ReapLoad, LeaseLoad, LeaseNothing, StartLoad, NoHandler,
                HandlerReturns, HandlerRaises, ObserveCancel, CompleteLoad, FailLoad,
                CancelLoad, Crash, LeaseCommit, LeaseExpires, BackoffElapses
  <2> QED BY <1>2, <1>3, <1>4, <1>5, <2>1
<1> QED BY <1>6, <1>7

(* Every step is a step of one worker, or of none.                         *)
LEMMA StepOwner ==
    ASSUME JobInv, [JobNext]_jobVars
    PROVE  \/ worker' = worker /\ snap' = snap
           \/ \E w \in Workers : OwnStep(w)
<1>1. CASE ClientStep \/ ClockStep \/ UNCHANGED jobVars
  BY <1>1 DEF ClientStep, ClockStep, jobVars, Enqueue, RequestCancel, RequestCancelCommit,
              LeaseExpires, BackoffElapses
<1>2. ASSUME NEW w \in Workers, BeginCycle(w) \/ WorkerStep(w) \/ Crash(w)
      PROVE  OwnStep(w)
  BY <1>2, ResetStep, SelectStep, ReapCommitOwn, LeaseCommitOwn, HandlerStep, LoadStep
     DEF WorkerStep
<1> QED BY <1>1, <1>2 DEF JobNext

(* Cancellation sessions and the crash counter.                            *)
LEMMA SessionsKept ==
    ASSUME JobInv, [JobNext]_jobVars, Effect
    PROVE  /\ cancels' \subseteq [job : Jobs, seen : Nat] /\ crashes' \in Nat
           /\ \A c \in cancels' : CancelInv(c)'
<1>1. /\ cancels \subseteq [job : Jobs, seen : Nat] /\ crashes \in Nat
      /\ \A j \in Jobs : row[j] \in JobRow
      /\ \A c \in cancels : CancelInv(c)'
  BY CancelInvKept DEF JobInv, JobTypeOK
<1>2. ASSUME NEW j \in Jobs, RequestCancel(j)
      PROVE  /\ cancels' \subseteq [job : Jobs, seen : Nat]
             /\ \A c \in cancels' : CancelInv(c)'
  <2> DEFINE c == [job |-> j, seen |-> row[j].version]
  <2>1. c \in [job : Jobs, seen : Nat] /\ cancels' = cancels \cup {c} /\ row' = row
    BY <1>1, <1>2 DEF RequestCancel, JobRow
  <2>2. row[j].state \in {"queued", "leased", "running", "recoverable_failed"}
    BY <1>1, <1>2 DEF RequestCancel, JobRow, JobStates, Terminal
  <2>3. row[j].version \in Nat
    BY <1>1 DEF JobRow
  <2>4. \A d \in {c} : CancelInv(d)'
    BY <2>1, <2>2, <2>3 DEF CancelInv, Fresh
  <2> QED BY <1>1, <2>1, <2>4
<1>3. CASE \E j \in Jobs : RequestCancel(j)
  BY <1>1, <1>2, <1>3 DEF RequestCancel
<1>4. CASE ~ \E j \in Jobs : RequestCancel(j)
  <2>1. cancels' \subseteq cancels /\ (crashes' = crashes \/ crashes' = crashes + 1)
    BY <1>4 DEF JobNext, jobVars, ClientStep, ClockStep, WorkerStep, Enqueue,
                RequestCancelCommit, BeginCycle, ReapLoad, LeaseLoad, LeaseNothing, StartLoad,
                NoHandler, HandlerReturns, HandlerRaises, ObserveCancel, CompleteLoad, FailLoad,
                CancelLoad, Crash, LeaseCommit, LeaseExpires, BackoffElapses, ReapCommit, JobCas
  <2> QED BY <1>1, <2>1
<1> QED BY <1>3, <1>4

-----------------------------------------------------------------------------
LEMMA JobInvInit == JobInit => JobInv
<1> SUFFICES ASSUME JobInit PROVE JobInv
  OBVIOUS
<1>1. WorkerAt("idle", Null, 0) \in Worker /\ WorkerAt("idle", Null, 0).pc = "idle"
  BY WorkerAtType DEF Points
<1>2. NoJob \in JobRow
  BY DEF NoJob, JobRow
<1>3. JobTypeOK
  BY <1>1, <1>2, NoSnapType DEF JobInit, JobTypeOK
<1>4. \A j \in Jobs : RowInv(j)
  BY JobsAssumption DEF JobInit, NoJob, RowInv, Leasable
<1>5. \A w \in Workers : worker[w].pc = "idle"
  BY <1>1 DEF JobInit
<1>6. \A w \in Workers : WorkerInv(w)
  BY <1>5 DEF WorkerInv, CasInv, SnapInv, Working
<1>7. OutboxInv /\ OutboxTellsTheTruth /\ \A c \in cancels : CancelInv(c)
  BY DEF JobInit, OutboxInv, OutboxTellsTheTruth, NoJob
<1> QED BY <1>3, <1>4, <1>6, <1>7 DEF JobInv

LEMMA JobInvStep == JobInv /\ [JobNext]_jobVars => JobInv'
<1> SUFFICES ASSUME JobInv, [JobNext]_jobVars PROVE JobInv'
  OBVIOUS
<1>1. Effect
  BY StepEffect
<1>2. \A w \in Workers : WorkerInv(w)'
  BY <1>1, StepOwner, WorkerKept DEF OwnStep
<1>3. worker' \in [Workers -> Worker] /\ snap' \in [Workers -> [Jobs -> Nat]]
  BY StepOwner DEF OwnStep, JobInv, JobTypeOK
<1>4. JobTypeOK'
  BY <1>1, <1>3, RowType, OutboxType, SessionsKept DEF JobTypeOK
<1>5. \A j \in Jobs : RowInv(j)'
  BY <1>1, RowInvKept
<1>6. OutboxInv' /\ OutboxTellsTheTruth'
  BY <1>1, <1>4, OutboxKept
<1>7. \A c \in cancels' : CancelInv(c)'
  BY <1>1, SessionsKept
<1> QED BY <1>2, <1>4, <1>5, <1>6, <1>7 DEF JobInv

LEMMA JobInvAlways == JobSpec => []JobInv
BY JobInvInit, JobInvStep, PTL DEF JobSpec

(* The job table, the outbox and the workers always have their shape.      *)
THEOREM JobTypeCorrect == JobSpec => []JobTypeOK
<1>1. JobInv => JobTypeOK
  BY DEF JobInv
<1> QED BY <1>1, JobInvAlways, PTL

(* The transactional outbox of JobService, whatever loads, reaps, crashes  *)
(* and cancellations interleave: every observable state is announced with  *)
(* its version, no version twice, and at most one terminal state.          *)
THEOREM OutboxIsTruthful == JobSpec => []OutboxTellsTheTruth
<1>1. JobInv => OutboxTellsTheTruth
  BY DEF JobInv
<1> QED BY <1>1, JobInvAlways, PTL

-----------------------------------------------------------------------------
(* Refinement: what a step does to a row is a step of JobLife.             *)
LEMMA RowStepIsLifeStep ==
    ASSUME JobInv, NEW j \in Jobs, RowStep(j)
    PROVE  [Life(j)!LifeNext]_(Life(j)!lifeVars)
<1>1. RowInv(j) /\ row[j].attempts \in Nat /\ row[j].state \in JobStates \cup {"none"}
  BY DEF JobInv, JobTypeOK, JobRow
<1>2. CASE Same(j)
  BY <1>2 DEF Same, Life!lifeVars
<1>3. CASE RowMoves(j)
  <2>1. CASE row[j].state = "none" /\ row'[j].state = "queued"
    BY <1>3, <2>1 DEF RowMoves, Leasable, Active, Life!LifeNext, Life!Enqueued
  <2>2. CASE row[j].state \in Leasable /\ row'[j].state = "leased"
    <3>1. /\ row[j].attempts < MaxAttempts /\ row'[j].attempts = row[j].attempts + 1
          /\ row'[j].owner \in WorkerIds
      BY <1>1, <1>3, <2>2 DEF RowMoves, RowInv, Leasable, FailedState
    <3>2. Life(j)!Leased(row'[j].owner)
      BY <2>2, <3>1 DEF Life!Leased, Life!Waiting, Leasable
    <3> QED BY <3>1, <3>2 DEF Life!LifeNext
  <2>3. CASE row[j].state = "leased" /\ row'[j].state = "running"
    <3>1. /\ row'[j].attempts = row[j].attempts
          /\ row[j].owner \in WorkerIds /\ row'[j].owner = row[j].owner
      BY <1>3, <2>3 DEF RowMoves, Leasable, FailedState
    <3>2. Life(j)!Started(row[j].owner)
      BY <2>3, <3>1 DEF Life!Started
    <3> QED BY <3>1, <3>2 DEF Life!LifeNext
  <2>4. CASE row[j].state = "running" /\ row'[j].state = "succeeded"
    <3>1. /\ row'[j].attempts = row[j].attempts
          /\ row[j].owner \in WorkerIds /\ row'[j].owner = row[j].owner
      BY <1>3, <2>4 DEF RowMoves, Leasable, FailedState
    <3>2. Life(j)!Completed(row[j].owner)
      BY <2>4, <3>1 DEF Life!Completed
    <3> QED BY <3>1, <3>2 DEF Life!LifeNext
  <2>5. CASE /\ row[j].state \in Active /\ row'[j].owner = Null
             /\ row'[j].attempts = row[j].attempts
             /\ row'[j].state = FailedState(row[j])
    <3>1. Life(j)!Reaped
      BY <2>5 DEF Life!Reaped, Life!Held, Life!Outcome, FailedState, Active
    <3> QED BY <3>1 DEF Life!LifeNext
  <2>6. CASE /\ row[j].state \in Active /\ row'[j].owner = Null
             /\ row'[j].attempts = row[j].attempts
             /\ row'[j].state = "terminal_failed" /\ row[j].owner \in WorkerIds
    <3>1. Life(j)!Failed(row[j].owner, "terminal_failed")
      BY <2>6 DEF Life!Failed, Life!Held, Active
    <3> QED BY <2>6, <3>1 DEF Life!LifeNext
  <2>7. CASE /\ row[j].state \in Leasable \cup Active /\ row'[j].state = "cancel_requested"
    <3>1. row'[j].attempts = row[j].attempts /\ row'[j].owner = row[j].owner
      BY <1>3, <2>7 DEF RowMoves, FailedState
    <3>2. Life(j)!CancelRequested
      BY <2>7, <3>1 DEF Life!CancelRequested, Life!Finished, Leasable, Active
    <3> QED BY <3>2 DEF Life!LifeNext
  <2>8. CASE row[j].state = "cancel_requested" /\ row'[j].state = "cancelled"
    <3>1. row'[j].attempts = row[j].attempts /\ row'[j].owner = Null
      BY <1>3, <2>8 DEF RowMoves, FailedState
    <3>2. Life(j)!Cancelled
      BY <2>8, <3>1 DEF Life!Cancelled
    <3> QED BY <3>2 DEF Life!LifeNext
  <2> QED BY <1>3, <2>1, <2>2, <2>3, <2>4, <2>5, <2>6, <2>7, <2>8 DEF RowMoves
<1> QED BY <1>2, <1>3 DEF RowStep

(* Every load, decision and compare-and-set of JobService, interleaved     *)
(* with everyone else's, amounts to a step of JobLife or to none: leases   *)
(* only within the budget, attempts ended by their holder or the reaper,   *)
(* terminal states never left.                                             *)
THEOREM JobServiceImplementsJobLife == JobSpec => ImplementsJobLife
<1>1. JobInit => \A j \in Jobs : Life(j)!LifeInit
  BY DEF JobInit, NoJob, Life!LifeInit
<1>2. JobInv /\ [JobNext]_jobVars =>
         [\A j \in Jobs : [Life(j)!LifeNext]_(Life(j)!lifeVars)]_jobVars
  <2> SUFFICES ASSUME JobInv, [JobNext]_jobVars, NEW j \in Jobs
               PROVE  [Life(j)!LifeNext]_(Life(j)!lifeVars)
    OBVIOUS
  <2>1. RowStep(j)
    BY StepEffect DEF Effect
  <2> QED BY <2>1, RowStepIsLifeStep
<1> QED BY <1>1, <1>2, JobInvAlways, PTL DEF JobSpec, ImplementsJobLife

-----------------------------------------------------------------------------
(* Leases.  Only LeaseCommit begins an attempt, and only it gives a worker *)
(* a job.                                                                  *)
LEMMA AttemptsKept ==
    ASSUME JobInv, [JobNext]_jobVars, NEW j \in Jobs,
           ~ \E w \in Workers : LeaseCommit(w, j)
    PROVE  row'[j].attempts = row[j].attempts
<1>1. \A i \in Jobs : row[i] \in JobRow
  BY DEF JobInv, JobTypeOK
<1>2. CASE row'[j] = row[j]
  BY <1>2
<1>3. ASSUME NEW i \in Jobs, Enqueue(i) PROVE row'[j].attempts = row[j].attempts
  BY <1>3 DEF Enqueue, NoJob, JobInv, JobTypeOK, RowInv
<1>4. ASSUME NEW w \in Workers, JobCas(w) PROVE row'[j].attempts = row[j].attempts
  <2>1. row'[j] = row[j] \/ row'[j] = MovedRow(row[j], worker[w].to, w \notin Local)
    BY <1>4 DEF JobCas, JobInv, JobTypeOK
  <2> QED BY <1>1, <2>1 DEF MovedRow, JobRow
<1>5. ASSUME NEW w \in Workers, ReapCommit(w) PROVE row'[j].attempts = row[j].attempts
  <2>1. PICK to : row'[j] = row[j] \/ row'[j] = MovedRow(row[j], to, TRUE)
    BY <1>5 DEF ReapCommit
  <2> QED BY <1>1, <2>1 DEF MovedRow, JobRow
<1>6. ASSUME NEW c \in cancels, RequestCancelCommit(c)
      PROVE  row'[j].attempts = row[j].attempts
  <2>1. row'[j] = row[j] \/ row'[j] = MovedRow(row[j], "cancel_requested", FALSE)
    BY <1>6 DEF RequestCancelCommit, JobInv, JobTypeOK
  <2> QED BY <1>1, <2>1 DEF MovedRow, JobRow
<1>7. ASSUME NEW i \in Jobs, LeaseExpires(i) PROVE row'[j].attempts = row[j].attempts
  BY <1>1, <1>7 DEF LeaseExpires, JobRow, JobInv, JobTypeOK
<1>8. ASSUME NEW i \in Jobs, BackoffElapses(i) PROVE row'[j].attempts = row[j].attempts
  BY <1>1, <1>8 DEF BackoffElapses, JobRow, JobInv, JobTypeOK
<1>9. ASSUME NEW w \in Workers, NEW i \in Jobs, LeaseCommit(w, i)
      PROVE  row'[j].attempts = row[j].attempts
  BY <1>9 DEF LeaseCommit, JobInv, JobTypeOK
<1>10. CASE row'[j] # row[j]
  <2>1. \/ \E i \in Jobs : Enqueue(i) \/ LeaseExpires(i) \/ BackoffElapses(i)
        \/ \E c \in cancels : RequestCancelCommit(c)
        \/ \E w \in Workers : ReapCommit(w) \/ JobCas(w) \/ \E i \in Jobs : LeaseCommit(w, i)
    BY <1>10 DEF JobNext, jobVars, ClientStep, ClockStep, WorkerStep, RequestCancel,
                BeginCycle, ReapLoad, LeaseLoad, LeaseNothing, StartLoad, NoHandler,
                HandlerReturns, HandlerRaises, ObserveCancel, CompleteLoad, FailLoad,
                CancelLoad, Crash
  <2> QED BY <1>3, <1>4, <1>5, <1>6, <1>7, <1>8, <1>9, <2>1
<1> QED BY <1>2, <1>10

LEMMA JobKept ==
    ASSUME JobInv, [JobNext]_jobVars, NEW w \in Workers,
           ~ \E j \in Jobs : LeaseCommit(w, j), worker'[w].pc \in Working
    PROVE  /\ worker[w].pc \in Working
           /\ worker'[w].job = worker[w].job /\ worker'[w].epoch = worker[w].epoch
<1>1. JobTypeOK /\ (worker[w].pc \in Working => worker[w].job \in Jobs)
  BY DEF JobInv, WorkerInv
<1>2. CASE worker'[w] = worker[w]
  BY <1>2
<1>3. ASSUME NEW pc \in {"idle", "lease", "reap"},
             worker' = [worker EXCEPT ![w] = WorkerAt(pc, Null, 0)]
      PROVE  FALSE
  BY <1>1, <1>3 DEF WorkerAt, Working, JobTypeOK
<1>4. ASSUME Done(w) PROVE FALSE
  BY <1>1, <1>4, DoneFacts DEF Working
<1>5. ASSUME NEW pc \in Points, GoTo(w, pc)
      PROVE  worker'[w].pc = pc /\ worker'[w].job = worker[w].job
             /\ worker'[w].epoch = worker[w].epoch
  BY <1>1, <1>5, GoToFacts
<1>6. ASSUME NEW to, Load(w, to)
      PROVE  worker'[w].job = worker[w].job /\ worker'[w].epoch = worker[w].epoch
  BY <1>1, <1>6 DEF Load, WorkerAt, JobTypeOK
<1>7. CASE BeginCycle(w) \/ LeaseNothing(w) \/ Crash(w)
  BY <1>3, <1>7 DEF BeginCycle, LeaseNothing, Crash
<1>8. CASE ReapLoad(w) \/ LeaseLoad(w) \/ ReapCommit(w)
  BY <1>5, <1>8 DEF ReapLoad, LeaseLoad, ReapCommit, Points, Working
<1>9. CASE HandlerReturns(w) \/ HandlerRaises(w) \/ ObserveCancel(w) \/ JobCas(w)
  BY <1>4, <1>5, <1>9 DEF HandlerReturns, HandlerRaises, ObserveCancel, JobCas, Points, Working
<1>10. CASE StartLoad(w) \/ NoHandler(w) \/ CompleteLoad(w) \/ FailLoad(w) \/ CancelLoad(w)
  BY <1>4, <1>5, <1>6, <1>10 DEF StartLoad, NoHandler, CompleteLoad, FailLoad, CancelLoad,
                                 Points, Working
<1>11. ASSUME NEW v \in Workers \ {w}, BeginCycle(v) \/ WorkerStep(v) \/ Crash(v)
       PROVE  worker'[w] = worker[w]
  <2>1. OwnStep(v)
    BY <1>11, ResetStep, SelectStep, ReapCommitOwn, LeaseCommitOwn, HandlerStep, LoadStep
       DEF WorkerStep
  <2> QED BY <2>1 DEF OwnStep
<1>12. CASE ClientStep \/ ClockStep \/ UNCHANGED jobVars
  BY <1>2, <1>12 DEF ClientStep, ClockStep, jobVars, Enqueue, RequestCancel,
              RequestCancelCommit, LeaseExpires, BackoffElapses
<1>13. CASE BeginCycle(w) \/ WorkerStep(w) \/ Crash(w)
  BY <1>7, <1>8, <1>9, <1>10, <1>13 DEF WorkerStep
<1> QED BY <1>2, <1>11, <1>12, <1>13 DEF JobNext

LEMMA LeaseInvStep ==
    ASSUME DistinctIds, JobInv, LeaseInv, [JobNext]_jobVars
    PROVE  LeaseInv'
<1> SUFFICES ASSUME NEW w \in Workers, worker'[w].pc \in Working,
                    NEW j, j = worker'[w].job,
                    row'[j].owner = IdOf[w], row'[j].state \in Active
             PROVE  worker'[w].epoch = row'[j].attempts
  BY DEF LeaseInv
<1>1. j \in Jobs /\ RowStep(j)
  BY JobInvStep, StepEffect DEF JobInv, WorkerInv, Effect
<1>2. CASE \E i \in Jobs : LeaseCommit(w, i)
  <2>1. PICK i \in Jobs : LeaseCommit(w, i)
    BY <1>2
  <2>2. /\ worker'[w] = WorkerAt("start", i, row[i].attempts + 1)
        /\ row'[i] = LeasedRow(row[i], IdOf[w]) /\ row[i] \in JobRow
    BY <2>1 DEF LeaseCommit, JobInv, JobTypeOK
  <2>3. i = j /\ worker'[w].epoch = row[i].attempts + 1
    BY <2>2 DEF WorkerAt
  <2>4. row'[i].attempts = row[i].attempts + 1
    BY <2>2, LeasedRowFacts DEF WorkerIds
  <2> QED BY <2>3, <2>4
<1>3. CASE ~ \E i \in Jobs : LeaseCommit(w, i)
  <2>1. /\ worker[w].pc \in Working
        /\ worker'[w].job = worker[w].job /\ worker'[w].epoch = worker[w].epoch
    BY <1>3, JobKept
  <2>2. ASSUME NEW v \in Workers, LeaseCommit(v, j) PROVE FALSE
    <3>1. row'[j] = LeasedRow(row[j], IdOf[v]) /\ row[j] \in JobRow
      BY <1>1, <2>2 DEF LeaseCommit, JobInv, JobTypeOK
    <3>2. row'[j].owner = IdOf[v]
      BY <3>1, LeasedRowFacts DEF WorkerIds
    <3>3. v = w
      BY <3>2 DEF DistinctIds
    <3> QED BY <1>1, <1>3, <2>2, <3>3
  <2>3. row'[j].attempts = row[j].attempts
    BY <1>1, <2>2, AttemptsKept
  <2>4. row[j].attempts \in Nat
    BY <1>1 DEF JobInv, JobTypeOK, JobRow
  <2>5. row[j].owner = IdOf[w] /\ row[j].state \in Active
    BY <1>1, <2>3, <2>4 DEF RowStep, Same, RowMoves, Active, FailedState
  <2> QED BY <2>1, <2>3, <2>5 DEF LeaseInv
<1> QED BY <1>2, <1>3

(* With an id of its own for every process, a worker that lost its lease   *)
(* writes nothing: start, complete and fail apply only under the row's     *)
(* current attempt.  Without that hypothesis it is false: processes that   *)
(* share the default worker_id complete each other's attempts.             *)
THEOREM LostLeasesWriteNothing == ASSUME DistinctIds PROVE JobSpec => OnlyLeaseHolderWrites
<1>1. JobInit => LeaseInv
  <2> SUFFICES ASSUME JobInit, NEW w \in Workers PROVE worker[w].pc \notin Working
    BY DEF LeaseInv
  <2> QED BY DEF JobInit, WorkerAt, Working
<1>2. JobInv /\ LeaseInv /\ [JobNext]_jobVars => LeaseInv'
  BY LeaseInvStep
<1>3. ASSUME JobInv, LeaseInv, [JobNext]_jobVars, NEW w \in Workers, worker[w].pc = "cas",
             worker[w].to # "cancelled",
             row'[worker[w].job].version # row[worker[w].job].version, JobCas(w)
      PROVE  worker[w].epoch = row[worker[w].job].attempts
  <2>1. CasHolds(w)
    BY <1>3 DEF JobCas
  <2>2. WorkerInv(w)
    BY <1>3 DEF JobInv
  <2>3. /\ row[worker[w].job].owner = IdOf[w]
        /\ row[worker[w].job].state \in Active
    BY <1>3, <2>1, <2>2 DEF WorkerInv, CasInv, CasHolds, Fresh, LoadedIn, Targets, Active
  <2> QED BY <1>3, <2>3 DEF LeaseInv, Working
<1>4. JobInv /\ LeaseInv /\ [JobNext]_jobVars =>
        [\A w \in Workers :
          worker[w].pc = "cas" /\ worker[w].to # "cancelled"
              /\ row'[worker[w].job].version # row[worker[w].job].version
              /\ JobCas(w)
          => worker[w].epoch = row[worker[w].job].attempts]_jobVars
  BY <1>3
<1> QED BY <1>1, <1>2, <1>4, JobInvAlways, PTL DEF JobSpec, OnlyLeaseHolderWrites
=============================================================================
