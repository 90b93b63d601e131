---------------------------- MODULE MaterialSaga ----------------------------
(***************************************************************************)
(* MaterialSaga (backend/app/storage/saga.py) over the vector indexer      *)
(* (backend/app/retrieval/indexer.py), the object store and Milvus, for    *)
(* one material: its lifecycle touches three stores that share no          *)
(* transaction, and the process may die between any two of their steps.    *)
(*                                                                         *)
(* One call at a time drives a material (upload_document drains what it    *)
(* began); begin_upload of a further version, the client's PUT and the     *)
(* scanner's verdict come in at any moment, and with DeleteOverlaps so     *)
(* does request_delete.  A session that ends in the compare-and-set of the *)
(* material row is one step: every other writer moves that row, so a stale *)
(* session raises and ends its call as Crash does.  Outbox rows are not    *)
(* read by the saga and are left out.                                      *)
(***************************************************************************)
EXTENDS Naturals, FiniteSets, FiniteSetsExt

CONSTANTS MaxVersions,     \* bound: versions of the material
          MaxAttempts,     \* max_attempts of the material row
          MaxFaults,       \* bound: crashes, losses and recover calls
          DeleteOverlaps   \* may request_delete come in while a call runs?

ASSUME SagaAssumption ==
    /\ MaxVersions \in Nat \ {0}
    /\ MaxAttempts \in Nat \ {0} /\ MaxFaults \in Nat
    /\ DeleteOverlaps \in BOOLEAN

VARIABLES material,   \* the materials row
          version,    \* material_versions with their object_versions row
          manifest,   \* vector_manifests, one per version
          bytes,      \* versions whose bytes the object store holds
          vectors,    \* what Milvus holds under each version's prefix
          call,       \* the running call
          withdraw,   \* manifests request_delete still has to deactivate
          lost,       \* versions of which a store lost rows or bytes by itself
          faults      \* crashes, losses and recover calls so far

sagaVars == <<material, version, manifest, bytes, vectors, call, withdraw, lost, faults>>

Versions == 1 .. MaxVersions

-----------------------------------------------------------------------------
MaterialStatuses == {"pending_upload", "scanning", "indexing", "available",
                     "deleting", "deleted", "error"}

MaterialSagaTransitions ==
    [pending_upload |-> {"scanning", "deleting", "error"},
     scanning       |-> {"indexing", "deleting", "error"},
     indexing       |-> {"available", "deleting", "error"},
     available      |-> {"indexing", "deleting", "error"},
     deleting       |-> {"deleted", "error"},
     deleted        |-> {},
     error          |-> {"pending_upload", "scanning", "indexing", "available",
                         "deleting"}]

AssertTransition(from, to) == to \in MaterialSagaTransitions[from]

VersionStatuses == {"staging", "scanning", "indexing", "available", "quarantined",
                    "superseded"}

(* A version row; `object` and `scan` are its object_versions row.         *)
VersionRow == [status : VersionStatuses \cup {"none"}, object : BOOLEAN,
               scan : {"pending", "clean", "infected"}]

NoVersion == [status |-> "none", object |-> FALSE, scan |-> "pending"]

(* `verified` says that indexed_count equals expected_count.               *)
ManifestRow == [state : {"none", "retained", "deleting", "deleted"},
                retrievable : BOOLEAN, verified : BOOLEAN]

NoManifest == [state |-> "none", retrievable |-> FALSE, verified |-> FALSE]

(* The rows under one prefix: how many of the chunks, and their flag.      *)
VectorRows == [held : {"none", "part", "all"}, flag : BOOLEAN]

NoVectors == [held |-> "none", flag |-> FALSE]

(* The running call: its next step, the version it works on, the version   *)
(* that was active when its index step began, the manifest it demotes, the *)
(* manifests it still has to delete and the versions whose bytes go.       *)
Points == {"idle", "drain", "pending_upload", "scanning", "indexing", "deleting",
           "transition", "verify", "record", "chunks", "upsert", "stage", "count",
           "activate", "switch", "demote", "publish", "mark", "remove", "confirm",
           "objects", "finish", "purge", "park"}

Call == [pc : Points, v : Versions \cup {0}, prev : Versions \cup {0},
         old : Versions \cup {0}, todo : SUBSET Versions, objects : SUBSET Versions,
         deleting : BOOLEAN]

IdleCall == [pc |-> "idle", v |-> 0, prev |-> 0, old |-> 0, todo |-> {},
             objects |-> {}, deleting |-> FALSE]

GoTo(pc) == call' = [call EXCEPT !.pc = pc]

(* The end of a step: drain goes on with the next one.                     *)
NextStep == call' = [IdleCall EXCEPT !.pc = "drain"]

EndCall == call' = IdleCall

Existing == {v \in Versions : version[v].status # "none"}

(* _pending_version: the newest version, the one the saga is moving.       *)
Newest == Max(Existing)

Retrievable == {v \in Versions : manifest[v].retrievable}

(* resolve_scope: the manifests a search may use.                          *)
ResolveScope == {v \in Retrievable : manifest[v].state = "retained"}

(* Milvus's own search keeps to rows that carry the flag.                  *)
SearchFinds(v) == vectors[v].flag /\ vectors[v].held # "none"

(* What a reader is served.                                                *)
Served == {v \in ResolveScope : SearchFinds(v)}

(* The object store: verify_upload and read_range need the bytes; they     *)
(* may also fail because the store does not answer.                        *)
UploadVerifies(v) == v \in bytes

Readable(v) == v \in bytes

(* Milvus.  upsert_chunks overwrites the rows as not retrievable, and a    *)
(* partial write leaves earlier rows in place; set_retrievable rewrites    *)
(* the rows it finds.                                                      *)
UpsertChunks(rows, held) ==
    [held |-> IF rows.held = "all" THEN "all" ELSE held, flag |-> FALSE]

(* _query_prefix: there are rows to read and to write back.                *)
QueryPrefix(rows) == rows.held # "none"

SetRetrievable(rows, flag) ==
    IF QueryPrefix(rows) THEN [rows EXCEPT !.flag = flag] ELSE rows

CountByPrefix(v) == vectors[v].held

(* Without DeleteOverlaps the other calls wait for request_delete to end.  *)
Alone == DeleteOverlaps \/ withdraw = {}

(* _cas_material on a status move: the retry state is cleared.             *)
MoveMaterial(status, active) ==
    material' = [status |-> status, active |-> active, attempts |-> 0]

(* _cas_version: every session that moves a version moves the material     *)
(* row too, so it is that one whose compare-and-set can fail.              *)
CasVersion(v, status) == [version[v] EXCEPT !.status = status]

-----------------------------------------------------------------------------
SagaInit ==
    /\ material = [status |-> "none", active |-> 0, attempts |-> 0]
    /\ version = [v \in Versions |-> NoVersion]
    /\ manifest = [v \in Versions |-> NoManifest]
    /\ bytes = {}
    /\ vectors = [v \in Versions |-> NoVectors]
    /\ call = IdleCall
    /\ withdraw = {}
    /\ lost = {}
    /\ faults = 0

(* begin_upload: a new material, or a new version of one that has a        *)
(* version to descend from; its status is overwritten whatever it was.     *)
BeginUpload ==
    LET number == IF Existing = {} THEN 1 ELSE Newest + 1
    IN  /\ material.status = "none" \/ Existing # {}
        /\ number \in Versions
        /\ version' = [version EXCEPT ![number] = [NoVersion EXCEPT !.status = "staging"]]
        /\ MoveMaterial("pending_upload", material.active)
        /\ UNCHANGED <<manifest, bytes, vectors, call, withdraw, lost, faults>>

(* create_upload: a grant to PUT the bytes of one version at its key.      *)
Granted(v) == version[v].status = "staging"

(* The client uses its grant: the PUT lands in the object store.           *)
UploadBytes(v) ==
    /\ Granted(v)
    /\ v \notin bytes
    /\ bytes' = bytes \cup {v}
    /\ UNCHANGED <<material, version, manifest, vectors, call, withdraw, lost, faults>>

(* A scanner finds the object infected before the saga looks.              *)
ScanVerdict(v) ==
    /\ version[v].object /\ version[v].scan = "pending"
    /\ version' = [version EXCEPT ![v].scan = "infected"]
    /\ UNCHANGED <<material, manifest, bytes, vectors, call, withdraw, lost, faults>>

-----------------------------------------------------------------------------
(* drain and advance_once: dispatch on the durable status.  A terminal     *)
(* status or "error" ends the drain.                                       *)
Advance ==
    /\ call.pc \in {"idle", "drain"}
    /\ Alone
    /\ IF material.status \in {"pending_upload", "scanning", "indexing", "deleting"}
         THEN call' = [IdleCall EXCEPT !.pc = material.status,
                                       !.deleting = material.status = "deleting"]
         ELSE call.pc = "drain" /\ EndCall
    /\ UNCHANGED <<material, version, manifest, bytes, vectors, withdraw, lost, faults>>

(* A material whose rows were purged has no version: SagaStateError.       *)
NoVersions ==
    /\ call.pc \in {"pending_upload", "scanning", "indexing", "transition", "record",
                    "publish"}
    /\ Existing = {}
    /\ EndCall
    /\ UNCHANGED <<material, version, manifest, bytes, vectors, withdraw, lost, faults>>

(* _step_verify_upload, first session.                                     *)
StepVerifyLoad ==
    /\ call.pc = "pending_upload" /\ Existing # {}
    /\ call' = [call EXCEPT !.v = Newest,
                            !.pc = IF version[Newest].object THEN "transition" ELSE "verify"]
    /\ UNCHANGED <<material, version, manifest, bytes, vectors, withdraw, lost, faults>>

(* _transition to "scanning" of a version verified earlier.                *)
Transition ==
    /\ call.pc = "transition" /\ Existing # {}
    /\ IF AssertTransition(material.status, "scanning")
         THEN /\ version' = [version EXCEPT ![Newest] = CasVersion(Newest, "scanning")]
              /\ MoveMaterial("scanning", material.active)
              /\ NextStep
         ELSE EndCall /\ UNCHANGED <<material, version>>
    /\ UNCHANGED <<manifest, bytes, vectors, withdraw, lost, faults>>

(* verify_upload at the object store: the declared bytes are there, or     *)
(* they are not, or the store does not answer.                             *)
VerifyUpload ==
    /\ call.pc = "verify"
    /\ \/ UploadVerifies(call.v) /\ GoTo("record")
       \/ GoTo("park")
    /\ UNCHANGED <<material, version, manifest, bytes, vectors, withdraw, lost, faults>>

(* _step_verify_upload, last session: record the object version.  When a   *)
(* newer version appeared meanwhile, its metadata do not match the bytes.  *)
RecordObject ==
    /\ call.pc = "record" /\ Existing # {}
    /\ IF Newest = call.v
         THEN /\ version' = [version EXCEPT ![call.v].object = TRUE,
                                            ![call.v].status = "scanning"]
              /\ MoveMaterial("scanning", material.active)
              /\ NextStep
         ELSE GoTo("park") /\ UNCHANGED <<material, version>>
    /\ UNCHANGED <<manifest, bytes, vectors, withdraw, lost, faults>>

(* Mutant: the verdict of the scanner is not looked at.                    *)
ScannedIgnoresVerdict(row) ==
    [row EXCEPT !.status = "indexing", !.scan = IF @ = "pending" THEN "clean" ELSE @]

(* What _step_scan makes of the version row.                               *)
Scanned(row) ==
    IF row.scan = "infected" THEN [row EXCEPT !.status = "quarantined"]
    ELSE [row EXCEPT !.status = "indexing", !.scan = "clean"]

(* _step_scan: one session.                                                *)
StepScan ==
    /\ call.pc = "scanning" /\ Existing # {}
    /\ IF version[Newest].object
         THEN /\ version' = [version EXCEPT ![Newest] = Scanned(@)]
              /\ MoveMaterial(IF version'[Newest].status = "quarantined" THEN "error"
                                ELSE "indexing", material.active)
              /\ NextStep
         ELSE GoTo("park") /\ UNCHANGED <<material, version>>
    /\ UNCHANGED <<manifest, bytes, vectors, withdraw, lost, faults>>

-----------------------------------------------------------------------------
(* _step_index, first session.                                             *)
StepIndexLoad ==
    /\ call.pc = "indexing" /\ Existing # {}
    /\ call' = [call EXCEPT !.v = Newest, !.prev = material.active,
                            !.pc = IF version[Newest].object THEN "chunks" ELSE "park"]
    /\ UNCHANGED <<material, version, manifest, bytes, vectors, withdraw, lost, faults>>

(* The embedding version and the chunks, read back from the object store.  *)
LoadChunks ==
    /\ call.pc = "chunks"
    /\ \/ Readable(call.v) /\ GoTo("upsert")
       \/ GoTo("park")
    /\ UNCHANGED <<material, version, manifest, bytes, vectors, withdraw, lost, faults>>

(* stage, its write to Milvus: rows are overwritten as not retrievable,    *)
(* also those of a version that is being served; the write may be partial. *)
Upsert ==
    /\ call.pc = "upsert"
    /\ \E held \in {"part", "all"} :
          vectors' = [vectors EXCEPT ![call.v] = UpsertChunks(@, held)]
    /\ GoTo("stage")
    /\ UNCHANGED <<material, version, manifest, bytes, withdraw, lost, faults>>

(* _find_manifest: the unique row of the version, whatever its state.      *)
FindManifest(v) == manifest[v].state # "none"

(* stage, its manifest: a new row, or the existing one.                    *)
StageManifest ==
    /\ call.pc = "stage"
    /\ manifest' = IF FindManifest(call.v) THEN manifest
                     ELSE [manifest EXCEPT ![call.v] = [NoManifest EXCEPT !.state = "retained"]]
    /\ GoTo("count")
    /\ UNCHANGED <<material, version, bytes, vectors, withdraw, lost, faults>>

(* verify: count what Milvus holds.  The table refuses a retrievable row   *)
(* that is not complete, which ends the call.                              *)
VerifyCount ==
    LET complete == CountByPrefix(call.v) = "all"
    IN  /\ call.pc = "count"
        /\ IF manifest[call.v].retrievable /\ ~ complete
             THEN EndCall /\ UNCHANGED manifest
             ELSE /\ manifest' = [manifest EXCEPT ![call.v].verified = complete]
                  /\ GoTo(IF complete THEN "activate" ELSE "park")
        /\ UNCHANGED <<material, version, bytes, vectors, withdraw, lost, faults>>

(* activate, up to the projection: refuse a manifest that is not retained  *)
(* or not verified, return early when it is retrievable already, else flag *)
(* the rows.                                                               *)
ActivateLoad ==
    LET m == manifest[call.v]
        others == Retrievable \ {call.v}
    IN  /\ call.pc = "activate"
        /\ IF m.state # "retained" \/ ~ m.verified
             THEN EndCall /\ UNCHANGED vectors
             ELSE IF m.retrievable
               THEN GoTo("publish") /\ UNCHANGED vectors
               ELSE /\ vectors' = [vectors EXCEPT ![call.v] = SetRetrievable(@, TRUE)]
                    /\ call' = [call EXCEPT !.pc = "switch",
                                  !.old = IF others = {} THEN 0 ELSE Max(others)]
        /\ UNCHANGED <<material, version, manifest, bytes, withdraw, lost, faults>>

(* Mutant: the previous manifest is demoted in a transaction of its own.   *)
SwitchedDemotesFirst(m) ==
    IF m = call.old THEN [manifest[m] EXCEPT !.retrievable = FALSE]
    ELSE IF m = call.v /\ call.old = 0 THEN [manifest[m] EXCEPT !.retrievable = TRUE]
    ELSE manifest[m]

(* activate, its transaction: demote the old manifest, promote the new.    *)
Switched(m) ==
    IF m = call.v THEN [manifest[m] EXCEPT !.retrievable = TRUE]
    ELSE IF m = call.old THEN [manifest[m] EXCEPT !.retrievable = FALSE]
    ELSE manifest[m]

(* A manifest that request_delete touched meanwhile fails the              *)
(* compare-and-set.                                                        *)
Switch ==
    /\ call.pc = "switch"
    /\ IF call.old \in Retrievable \cup {0}
         THEN /\ manifest' = [m \in Versions |-> Switched(m)]
              /\ GoTo(IF call.old = 0 THEN "publish" ELSE "demote")
         ELSE EndCall /\ UNCHANGED manifest
    /\ UNCHANGED <<material, version, bytes, vectors, withdraw, lost, faults>>

(* activate, the old projection.                                           *)
Demote ==
    /\ call.pc = "demote"
    /\ vectors' = [vectors EXCEPT ![call.old] = SetRetrievable(@, FALSE)]
    /\ GoTo("publish")
    /\ UNCHANGED <<material, version, manifest, bytes, withdraw, lost, faults>>

(* _retire_manifests: those of the version that was active before.         *)
RetireManifests(n) ==
    IF call.prev \notin {0, n} /\ manifest[call.prev].state \notin {"none", "deleted"}
      THEN {call.prev} ELSE {}

(* _step_index, last session: the newest version, whichever that is now,   *)
(* becomes the available one, whatever the material's status is by now.    *)
Publish ==
    LET n == Newest
    IN  /\ call.pc = "publish" /\ Existing # {}
        /\ version' = [v \in Versions |->
              IF v = n THEN CasVersion(v, "available")
              ELSE IF v = call.prev /\ v \in Existing THEN CasVersion(v, "superseded")
              ELSE version[v]]
        /\ MoveMaterial("available", n)
        /\ IF RetireManifests(n) # {}
             THEN call' = [IdleCall EXCEPT !.pc = "mark", !.todo = RetireManifests(n)]
             ELSE NextStep
        /\ UNCHANGED <<manifest, bytes, vectors, withdraw, lost, faults>>

-----------------------------------------------------------------------------
(* VectorIndexer.delete of one manifest after the other: authority first,  *)
(* then the vectors, then the row.                                         *)
DeleteMark ==
    LET m == Max(call.todo)
    IN  /\ call.pc = "mark"
        /\ manifest' = [manifest EXCEPT ![m].retrievable = FALSE, ![m].state = "deleting"]
        /\ GoTo("remove")
        /\ UNCHANGED <<material, version, bytes, vectors, withdraw, lost, faults>>

(* Milvus may fail: inside _step_delete that parks, in _step_index it      *)
(* ends the call.                                                          *)
DeleteVectors ==
    /\ call.pc = "remove"
    /\ \/ vectors' = [vectors EXCEPT ![Max(call.todo)] = NoVectors] /\ GoTo("confirm")
       \/ (IF call.deleting THEN GoTo("park") ELSE EndCall) /\ UNCHANGED vectors
    /\ UNCHANGED <<material, version, manifest, bytes, withdraw, lost, faults>>

DeleteConfirm ==
    LET m == Max(call.todo)
    IN  /\ call.pc = "confirm"
        /\ manifest' = [manifest EXCEPT ![m].state = "deleted", ![m].verified = FALSE]
        /\ IF call.todo # {m} THEN call' = [call EXCEPT !.pc = "mark", !.todo = @ \ {m}]
           ELSE IF call.deleting THEN GoTo("objects")
           ELSE NextStep
        /\ UNCHANGED <<material, version, bytes, vectors, withdraw, lost, faults>>

(* _step_delete, first session.                                            *)
StepDeleteLoad ==
    LET live == {m \in Versions : manifest[m].state \in {"retained", "deleting"}}
    IN  /\ call.pc = "deleting"
        /\ call' = [call EXCEPT !.pc = IF live = {} THEN "objects" ELSE "mark",
                                !.todo = live, !.objects = Existing]
        /\ UNCHANGED <<material, version, manifest, bytes, vectors, withdraw, lost, faults>>

(* inventory: what the object store lists under the versions' keys.        *)
Inventory(held, versions) == held \cap versions

(* delete_all_versions and inventory of every version; a failure, or a PUT *)
(* that lands meanwhile, parks with part of the bytes gone.                *)
DeleteObjects ==
    /\ call.pc = "objects"
    /\ \E gone \in SUBSET Inventory(bytes, call.objects) : bytes' = bytes \ gone
    /\ GoTo(IF Inventory(bytes', call.objects) = {} THEN "finish" ELSE "park")
    /\ UNCHANGED <<material, version, manifest, vectors, withdraw, lost, faults>>

(* The material row becomes the tombstone; the other rows go afterwards.   *)
FinishDelete ==
    /\ call.pc = "finish"
    /\ MoveMaterial("deleted", 0)
    /\ GoTo("purge")
    /\ UNCHANGED <<version, manifest, bytes, vectors, withdraw, lost, faults>>

PurgeSql ==
    /\ call.pc = "purge"
    /\ version' = [v \in Versions |-> NoVersion]
    /\ manifest' = [v \in Versions |-> NoManifest]
    /\ EndCall
    /\ UNCHANGED <<material, bytes, vectors, withdraw, lost, faults>>

-----------------------------------------------------------------------------
(* _park: count the attempt; past the budget the material goes to "error", *)
(* unless it is being deleted.                                             *)
Exhausted(attempts) == attempts >= MaxAttempts /\ material.status # "deleting"

Park ==
    LET attempts == material.attempts + 1
    IN  /\ call.pc = "park"
        /\ material' = [material EXCEPT
                          !.attempts = IF attempts > MaxAttempts THEN @ ELSE attempts,
                          !.status = IF Exhausted(attempts) THEN "error" ELSE @]
        /\ EndCall
        /\ UNCHANGED <<version, manifest, bytes, vectors, withdraw, lost, faults>>

(* request_delete, its session; retrieval is withdrawn right after it.     *)
RequestDelete ==
    /\ DeleteOverlaps \/ call.pc = "idle"
    /\ withdraw = {}
    /\ material.status # "none"
    /\ AssertTransition(material.status, "deleting")
    /\ MoveMaterial("deleting", 0)
    /\ withdraw' = Retrievable
    /\ UNCHANGED <<version, manifest, bytes, vectors, call, lost, faults>>

(* deactivate: authority first, projection second.                         *)
DeactivateAuthority(m) ==
    /\ manifest[m].retrievable
    /\ manifest' = [manifest EXCEPT ![m].retrievable = FALSE]
    /\ UNCHANGED <<material, version, bytes, vectors, call, withdraw, lost, faults>>

DeactivateProjection(m) ==
    /\ ~ manifest[m].retrievable
    /\ vectors' = [vectors EXCEPT ![m] = SetRetrievable(@, FALSE)]
    /\ withdraw' = withdraw \ {m}
    /\ UNCHANGED <<material, version, manifest, bytes, call, lost, faults>>

(* The process that called request_delete dies before it has withdrawn.    *)
WithdrawLost ==
    /\ withdraw # {} /\ faults < MaxFaults
    /\ faults' = faults + 1
    /\ withdraw' = {}
    /\ UNCHANGED <<material, version, manifest, bytes, vectors, call, lost>>

(* recover: derive the step to resume at from what the stores contain.  A  *)
(* quarantined version needs a new one.                                    *)
ResumeStatus ==
    IF ResolveScope # {} THEN "available"
    ELSE IF version[Newest].object THEN "indexing"
    ELSE "pending_upload"

Recover ==
    /\ call.pc = "idle" /\ Alone /\ faults < MaxFaults
    /\ material.status = "error" /\ Existing # {}
    /\ version[Newest].status # "quarantined"
    /\ faults' = faults + 1
    /\ MoveMaterial(ResumeStatus, material.active)
    /\ UNCHANGED <<version, manifest, bytes, vectors, call, withdraw, lost>>

Crash ==
    /\ call.pc # "idle" /\ faults < MaxFaults
    /\ faults' = faults + 1
    /\ EndCall
    /\ UNCHANGED <<material, version, manifest, bytes, vectors, withdraw, lost>>

(* A store loses, by itself, the bytes or some of the rows of a version.   *)
StoreLoses(v) ==
    /\ faults < MaxFaults
    /\ faults' = faults + 1
    /\ lost' = lost \cup {v}
    /\ \/ v \in bytes /\ bytes' = bytes \ {v} /\ UNCHANGED vectors
       \/ /\ vectors[v].held = "all"
          /\ \E held \in {"none", "part"} : vectors' = [vectors EXCEPT ![v].held = held]
          /\ UNCHANGED bytes
    /\ UNCHANGED <<material, version, manifest, call, withdraw>>

-----------------------------------------------------------------------------
(* The steps of a running call.                                            *)
CallStep ==
    \/ NoVersions \/ StepVerifyLoad \/ Transition \/ VerifyUpload \/ RecordObject
    \/ StepScan
    \/ StepIndexLoad \/ LoadChunks \/ Upsert \/ StageManifest \/ VerifyCount
    \/ ActivateLoad \/ Switch \/ Demote \/ Publish
    \/ StepDeleteLoad \/ DeleteMark \/ DeleteVectors \/ DeleteConfirm
    \/ DeleteObjects \/ FinishDelete \/ PurgeSql
    \/ Park

Withdraw == \E m \in withdraw : DeactivateAuthority(m) \/ DeactivateProjection(m)

SagaNext ==
    \/ BeginUpload
    \/ \E v \in Versions : UploadBytes(v) \/ ScanVerdict(v) \/ StoreLoses(v)
    \/ Advance
    \/ CallStep
    \/ RequestDelete \/ Withdraw \/ WithdrawLost
    \/ Recover
    \/ Crash

SagaSpec == SagaInit /\ [][SagaNext]_sagaVars

-----------------------------------------------------------------------------
(* Type correctness of the rows, the stores and the running call.          *)
SagaTypeOK ==
    /\ material \in [status : MaterialStatuses \cup {"none"}, active : Versions \cup {0},
                     attempts : 0 .. MaxAttempts]
    /\ version \in [Versions -> VersionRow]
    /\ manifest \in [Versions -> ManifestRow]
    /\ bytes \subseteq Versions
    /\ vectors \in [Versions -> VectorRows]
    /\ call \in Call
    /\ withdraw \subseteq Versions
    /\ lost \subseteq Versions
    /\ faults \in 0 .. MaxFaults

(* What a reader is served was scanned clean, its bytes are in the object  *)
(* store and all its chunks are in Milvus, whatever was interrupted,       *)
(* unless a store itself lost them; and activation, retirement, recovery   *)
(* and re-runs agree on one manifest: never two are retrievable, and an    *)
(* available material has one that resolve_scope lists.                    *)
ServedIsSound ==
    /\ \A v \in Served \ lost : /\ v \in bytes
                                /\ version[v].scan = "clean"
                                /\ vectors[v].held = "all"
    /\ Cardinality(Retrievable) <= 1
    /\ material.status = "available" /\ lost = {} => ResolveScope # {}
=============================================================================
