--------------------------- MODULE Reconciliation ---------------------------
(***************************************************************************)
(* CrossStoreReconciler (backend/app/storage/reconciliation.py) and its    *)
(* worker (backend/app/jobs/reconciliation_worker.py) over the stores of   *)
(* MaterialSaga.  A sweep reads PostgreSQL, asks the other store, records  *)
(* what disagrees and, when repair is enabled, mends it; each of these is  *)
(* a step, and the saga's calls run between them when SweepOverlaps.       *)
(***************************************************************************)
EXTENDS MaterialSaga

CONSTANTS SweepAttempts,    \* max_attempts of the reconciler
          MaxSweeps,        \* bound: sweeps
          SweepOverlaps     \* may the saga's calls run during a sweep?

ASSUME SweepAssumption ==
    /\ SweepAttempts \in Nat \ {0}
    /\ MaxSweeps \in Nat
    /\ SweepOverlaps \in BOOLEAN

VARIABLES issue,     \* reconciliation_issues, by natural key
          sweep,     \* the running sweep: what it has read and still has to do
          report,    \* its report: the transitions it made
          audited,   \* audit_events of issue transitions
          sweeps     \* sweeps started so far

sweepVars == <<issue, sweep, report, audited, sweeps>>
vars == <<sagaVars, sweepVars>>

-----------------------------------------------------------------------------
IssueKinds == {"missing_object", "orphan_object", "missing_vector", "orphan_vector",
               "missing_chunk", "version_drift"}

(* The natural key: the kind and the version concerned; for version_drift, *)
(* whose resource is the material, the pointer's value (0 is null).        *)
Keys == IssueKinds \X (Versions \cup {0})

IssueRow == [state : {"none", "open", "repaired", "manual_required"},
             attempts : 0 .. SweepAttempts]

NoIssue == [state |-> "none", attempts |-> 0]

(* _LIVE_VERSION_STATUSES: versions whose bytes are expected to exist.     *)
LiveVersionStatuses == {"scanning", "indexing", "available", "superseded"}

LiveVersions == {v \in Versions : version[v].status \in LiveVersionStatuses}

ObjectRows == {v \in Versions : version[v].object}

(* Mutant: only the versions that are being served keep their objects.     *)
ClaimedByAvailable == {v \in ObjectRows : version[v].status = "available"}

(* The object rows that a live version claims.                             *)
ClaimedObjects == ObjectRows \cap LiveVersions

NoSweep == [pc |-> "idle", repair |-> FALSE, live |-> {}, claimed |-> {},
            manifests |-> {}, retrievable |-> {}, served |-> 0, todo |-> {},
            at |-> <<"missing_object", 0>>, step |-> "record"]

Checks == {"objects", "milvus", "drift"}

SweepInit ==
    /\ issue = [k \in Keys |-> NoIssue]
    /\ sweep = NoSweep
    /\ report = {}
    /\ audited = {}
    /\ sweeps = 0

-----------------------------------------------------------------------------
(* sweep, and the first select of _check_objects.                          *)
StartSweep(repair) ==
    /\ sweep.pc = "idle" /\ sweeps < MaxSweeps
    /\ SweepOverlaps \/ (call.pc = "idle" /\ withdraw = {})
    /\ sweep' = [NoSweep EXCEPT !.pc = "rows", !.repair = repair,
                                !.live = LiveVersions, !.claimed = ClaimedObjects]
    /\ sweeps' = sweeps + 1
    /\ UNCHANGED <<sagaVars, issue, report, audited>>

(* _check_objects: its second select, and the inventory of every version.  *)
CheckObjects ==
    /\ sweep.pc = "rows"
    /\ sweep' = [sweep EXCEPT !.pc = "objects",
          !.todo = ({"missing_object"} \X (sweep.live \ bytes))
                     \cup ({"orphan_object"} \X (ObjectRows \ sweep.claimed))]
    /\ UNCHANGED <<sagaVars, issue, report, audited, sweeps>>

(* _check_vectors, its session.                                            *)
ReadManifests ==
    /\ sweep.pc = "manifests"
    /\ sweep' = [sweep EXCEPT !.pc = "vectors",
          !.manifests = {v \in Existing : manifest[v].state \in {"retained", "deleting"}},
          !.retrievable = Retrievable]
    /\ UNCHANGED <<sagaVars, issue, report, audited, sweeps>>

(* _check_vectors, what Milvus holds: per manifest, and per version.       *)
CheckVectors ==
    LET Held(h) == {v \in Versions : vectors[v].held = h}
    IN  /\ sweep.pc = "vectors"
        /\ sweep' = [sweep EXCEPT !.pc = "milvus",
              !.todo = ({"missing_vector"} \X (sweep.retrievable \cap Held("none")))
                         \cup ({"missing_chunk"} \X (sweep.manifests \cap Held("part")))
                         \cup ({"orphan_vector"} \X ((Held("part") \cup Held("all")) \ sweep.manifests))]
        /\ UNCHANGED <<sagaVars, issue, report, audited, sweeps>>

(* A store that does not answer ends the sweep without a verdict.          *)
Unavailable ==
    /\ sweep.pc \in {"rows", "vectors"}
    /\ sweep' = NoSweep
    /\ report' = {}
    /\ UNCHANGED <<sagaVars, issue, audited, sweeps>>

(* _check_active_pointer.                                                  *)
CheckActivePointer ==
    LET retained == {m \in Retrievable : manifest[m].state = "retained"}
        served == IF retained = {} THEN 0 ELSE Max(retained)
    IN  /\ sweep.pc = "pointer"
        /\ sweep' = [sweep EXCEPT !.pc = "drift", !.served = served,
              !.todo = IF material.status = "available" /\ material.active # served
                         THEN {<<"version_drift", material.active>>} ELSE {}]
        /\ UNCHANGED <<sagaVars, issue, report, audited, sweeps>>

-----------------------------------------------------------------------------
(* _upsert_issue: a finding that was closed is opened again.               *)
UpsertIssue(k) ==
    /\ issue' = [issue EXCEPT ![k].state = "open"]
    /\ report' = report \cup
          {<<IF issue[k].state \in {"repaired", "manual_required"} THEN "reopened"
             ELSE "opened", k>>}

(* The kinds _record gets a repair for.                                    *)
Repairable(k) ==
    /\ sweep.repair
    /\ \/ k[1] \in {"orphan_object", "missing_vector", "orphan_vector", "version_drift"}
       \/ k[1] = "missing_chunk" /\ k[2] \in sweep.retrievable

(* _record, up to the repair.                                              *)
Record(k) ==
    /\ sweep.pc \in Checks /\ sweep.step = "record" /\ k \in sweep.todo
    /\ UpsertIssue(k)
    /\ sweep' = [sweep EXCEPT !.todo = @ \ {k}, !.at = k,
                              !.step = IF Repairable(k) THEN "repair" ELSE "record"]
    /\ UNCHANGED <<sagaVars, audited, sweeps>>

(* How a repair ends.  _resolve and _escalate close the issue; the failed  *)
(* attempt of _fail_attempt closes it once the budget is spent.            *)
Outcome(row, how) ==
    LET attempts == row.attempts + 1
    IN  CASE how = "repaired"  -> [row EXCEPT !.state = "repaired"]
          [] how = "escalated" -> [row EXCEPT !.state = "manual_required"]
          [] how = "failed"    ->
                IF attempts >= SweepAttempts
                  THEN [state |-> "manual_required", attempts |-> SweepAttempts]
                  ELSE [state |-> "open", attempts |-> attempts]

Ends(how) ==
    /\ issue' = [issue EXCEPT ![sweep.at] = Outcome(@, how)]
    /\ report' = IF how = "failed" THEN report ELSE report \cup {<<how, sweep.at>>}
    /\ sweep' = [sweep EXCEPT !.step = "record"]
    /\ UNCHANGED <<audited, sweeps>>

Repairing(kinds) == sweep.step = "repair" /\ sweep.at[1] \in kinds

(* _repair_orphan_object: the bytes first.                                 *)
RepairOrphanObject ==
    LET v == sweep.at[2]
    IN  /\ Repairing({"orphan_object"})
        /\ IF v \in ObjectRows
             THEN /\ bytes' = bytes \ {v}
                  /\ sweep' = [sweep EXCEPT !.step = "row"]
                  /\ UNCHANGED <<issue, report, audited, sweeps>>
             ELSE Ends("repaired") /\ UNCHANGED bytes
        /\ UNCHANGED <<material, version, manifest, vectors, call, withdraw, lost, faults>>

(* Then its row, which the foreign key of a version that still names it    *)
(* protects.                                                               *)
RepairObjectRow ==
    /\ sweep.step = "row"
    /\ Ends(IF sweep.at[2] \in ObjectRows THEN "failed" ELSE "repaired")
    /\ UNCHANGED sagaVars

(* _repair_withdraw_manifest: deactivate.                                  *)
RepairWithdrawManifest ==
    LET v == sweep.at[2]
    IN  /\ Repairing({"missing_vector", "missing_chunk"})
        /\ IF manifest[v].state = "none" THEN Ends("failed") /\ UNCHANGED <<manifest, vectors>>
           ELSE /\ manifest' = [manifest EXCEPT ![v].retrievable = FALSE]
                /\ vectors' = [vectors EXCEPT ![v] = SetRetrievable(@, FALSE)]
                /\ Ends("repaired")
        /\ UNCHANGED <<material, version, bytes, call, withdraw, lost, faults>>

(* _repair_orphan_vectors: what no manifest row names cannot be addressed. *)
RepairOrphanVectors ==
    LET v == sweep.at[2]
    IN  /\ Repairing({"orphan_vector"})
        /\ IF manifest[v].state = "none" THEN Ends("escalated") /\ UNCHANGED vectors
           ELSE vectors' = [vectors EXCEPT ![v] = NoVectors] /\ Ends("repaired")
        /\ UNCHANGED <<material, version, manifest, bytes, call, withdraw, lost, faults>>

(* _repair_active_pointer: to what was served when the check looked.       *)
RepairActivePointer ==
    /\ Repairing({"version_drift"})
    /\ material' = [material EXCEPT !.active = sweep.served]
    /\ Ends("repaired")
    /\ UNCHANGED <<version, manifest, bytes, vectors, call, withdraw, lost, faults>>

(* A repair that raises.                                                   *)
RepairFails ==
    /\ sweep.step = "repair"
    /\ Ends("failed")
    /\ UNCHANGED sagaVars

(* The check is done: the next one, or the worker's audit.                 *)
NextCheck ==
    /\ sweep.pc \in Checks /\ sweep.step = "record" /\ sweep.todo = {}
    /\ sweep' = [NoSweep EXCEPT !.repair = sweep.repair,
                                !.pc = CASE sweep.pc = "objects" -> "manifests"
                                         [] sweep.pc = "milvus"  -> "pointer"
                                         [] sweep.pc = "drift"   -> "audit"]
    /\ UNCHANGED <<sagaVars, issue, report, audited, sweeps>>

(* The ids the report's entries name: that of the resource.  The rows of   *)
(* reconciliation_issues have ids of their own.                            *)
IssueId(k) == <<"issue", k>>

EntryId(entry) == <<"resource", entry[2][2]>>

(* _audit_transitions: one audit event per entry whose issue is found      *)
(* under the entry's id, keyed by the issue, its state and its attempts.   *)
AuditTransitions ==
    /\ sweep.pc = "audit"
    /\ audited' = audited \cup
          {<<k, issue[k].state, issue[k].attempts>> :
             k \in {k \in Keys : \E entry \in report : IssueId(k) = EntryId(entry)}}
    /\ sweep' = NoSweep
    /\ report' = {}
    /\ UNCHANGED <<sagaVars, issue, sweeps>>

(* The worker dies.                                                        *)
SweepDies ==
    /\ sweep.pc # "idle" /\ faults < MaxFaults
    /\ faults' = faults + 1
    /\ sweep' = NoSweep
    /\ report' = {}
    /\ UNCHANGED <<material, version, manifest, bytes, vectors, call, withdraw, lost,
                   issue, audited, sweeps>>

Sweep ==
    \/ CheckObjects \/ ReadManifests \/ CheckVectors \/ CheckActivePointer
    \/ \E k \in Keys : Record(k)
    \/ RepairOrphanObject \/ RepairObjectRow \/ RepairWithdrawManifest
    \/ RepairOrphanVectors \/ RepairActivePointer \/ RepairFails
    \/ NextCheck \/ AuditTransitions

(* Without SweepOverlaps no call of the saga starts during a sweep; what   *)
(* clients and scanners do is not held back.                               *)
Unswept == SweepOverlaps \/ sweep.pc = "idle"

SagaStep ==
    /\ Unswept
    /\ \/ Advance \/ CallStep \/ RequestDelete \/ Withdraw \/ WithdrawLost
       \/ Recover \/ Crash
    /\ UNCHANGED sweepVars

ClientStep ==
    /\ \/ BeginUpload
       \/ \E v \in Versions : UploadBytes(v) \/ ScanVerdict(v) \/ StoreLoses(v)
    /\ UNCHANGED sweepVars

Init == SagaInit /\ SweepInit

Next ==
    \/ SagaStep
    \/ ClientStep
    \/ \E repair \in BOOLEAN : StartSweep(repair)
    \/ Sweep
    \/ Unavailable
    \/ SweepDies

Spec == Init /\ [][Next]_vars

-----------------------------------------------------------------------------
(* Type correctness of the issues and of the sweep's place in its pass.    *)
SweepTypeOK ==
    /\ issue \in [Keys -> IssueRow]
    /\ sweep.pc \in {"idle", "rows", "manifests", "vectors", "pointer", "audit"} \cup Checks
    /\ sweep.todo \subseteq Keys /\ sweep.at \in Keys

(* A sweep destroys nothing that is alive: it never removes the bytes of a *)
(* version whose row is live, nor rows of Milvus that are being served.    *)
RepairIsSafe ==
    [][sweep.pc # "idle" /\ sweep' # sweep =>
          /\ (bytes \ bytes') \cap LiveVersions = {}
          /\ \A v \in Served : vectors[v].held = "all" => v \in Served']_vars

(* A material stops being served only because it is deleted, because the   *)
(* very version it serves is staged again, or because a store lost rows.   *)
KeepsServing ==
    [][Served # {} /\ Served' = {} =>
          \/ withdraw # {} \/ call.deleting \/ lost' # {}
          \/ call.pc = "upsert" /\ call.v \in Served]_vars

(* A material in "deleting" never falls back: it leaves that state for     *)
(* "deleted" only, unless a new version is uploaded to it.                 *)
DeletingNeverFallsBack ==
    [][material.status = "deleting" =>
          material'.status \in {"deleting", "deleted", "pending_upload"}]_vars
=============================================================================
