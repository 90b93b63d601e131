----------------------------- MODULE Documents -----------------------------
(***************************************************************************)
(* Knowledge bases, their documents, FAQ drafts and the indexing of        *)
(* documents (services/document_service.py, knowledge_base_service.py,     *)
(* faq_service.py, indexing_service.py, rag/inprocess_lightrag.py).        *)
(*                                                                         *)
(* A request that reads a row, awaits and then commits what it computed    *)
(* from the read takes two steps; a request whose commit depends on        *)
(* nothing it read takes one.  A route commits first and submits the       *)
(* durable job afterwards ("submit").  A worker that runs the job takes    *)
(*   "start" -> "read" -> "claimed" -> "clear" -> "insert" -> "finish"     *)
(* and may die anywhere; the durable queue (DurableJobs) then gives the    *)
(* entry to another worker.  The text index is LightRAG, external code.    *)
(* An update of a row that is gone and an insert below a parent that is    *)
(* gone fail (foreign keys are on) and leave nothing behind.               *)
(***************************************************************************)
EXTENDS Integers, FiniteSets, FiniteSetsExt, Functions

CONSTANTS
    Kbs, Docs, Faqs,         \* primary keys
    Titles, Contents,        \* document titles, document texts (by hash)
    Users, KbAdmins,         \* callers, those with role kb_admin or sys_admin
    Requests, Workers,       \* request slots and index workers
    MaxJobs, MaxVersion,     \* bounds on index jobs and on source versions
    MaxCrashes               \* bound on worker deaths

ASSUME DocumentsAssumption ==
    /\ KbAdmins \subseteq Users
    /\ MaxJobs \in Nat /\ MaxVersion \in Nat \ {0} /\ MaxCrashes \in Nat

VARIABLES
    kb,         \* knowledge_bases rows: id -> [owner]
    doc,        \* knowledge_documents rows: id -> [kb, title, content, ver, st]
    used,       \* primary keys handed out so far
    faq,        \* faq_drafts rows: id -> [kb, src, st]
    jobs,       \* rag_index_jobs rows: number in creation order -> [doc, st]
    lastJob,    \* the newest rag_index_jobs row ever created
    due,        \* durable jobs, keyed by index job: number -> [doc, st]
    index,      \* what LightRAG holds under a document id
    request,    \* requests in flight
    worker,     \* index workers
    crashes,    \* deaths so far
    overlapped  \* history: documents two index runs were in flight for at once

docVars == <<kb, doc, used, faq, jobs, lastJob, due, index, request, worker,
             crashes, overlapped>>

Rank == [read |-> 1, write |-> 2, admin |-> 3]

\* The strongest permission of u on k: a role overrides, then the permission
\* rows: the creator holds admin, the department of the knowledge base read.
PermissionLevel(u, k) == IF u \in KbAdmins \cup {kb[k].owner} THEN Rank.admin ELSE Rank.read

Permitted(u, k, required) == k \in DOMAIN kb /\ PermissionLevel(u, k) >= Rank[required]

Idle == [pc |-> "idle"]

DocumentsInit ==
    /\ kb = <<>> /\ doc = <<>> /\ faq = <<>> /\ jobs = <<>> /\ due = <<>>
    /\ used = {} /\ lastJob = 0 /\ crashes = 0 /\ overlapped = {}
    /\ index = [d \in Docs |-> {}]
    /\ request = [r \in Requests |-> Idle]
    /\ worker = [w \in Workers |-> Idle]

Put(f, x, v) == [y \in DOMAIN f \cup {x} |-> IF y = x THEN v ELSE f[y]]
Drop(f, S) == Restrict(f, DOMAIN f \ S)

Become(r, s) == request' = [request EXCEPT ![r] = s]
Answer(r) == Become(r, Idle)
Idling(r) == request[r].pc = "idle"

\* A new rag_index_jobs row for d, and the route's next step: to submit it.
AddIndexJob(r, d) ==
    /\ lastJob < MaxJobs
    /\ lastJob' = lastJob + 1
    /\ jobs' = Put(jobs, lastJob + 1, [doc |-> d, st |-> "pending"])
    /\ Become(r, [pc |-> "submit", job |-> lastJob + 1, d |-> d])

NewDocument(d, k, t, c) ==
    /\ d \notin used
    /\ used' = used \cup {d}
    /\ doc' = Put(doc, d, [kb |-> k, title |-> t, content |-> c, ver |-> 1, st |-> "pending"])

-----------------------------------------------------------------------------
(* Knowledge bases.  Name, description and status of one are not modelled:  *)
(* none of the operations below reads them.                                 *)

CreateKnowledgeBase(u, k) ==
    /\ u \in KbAdmins /\ k \notin used
    /\ kb' = Put(kb, k, [owner |-> u])
    /\ used' = used \cup {k}
    /\ UNCHANGED <<doc, faq, jobs, lastJob, due, index, request, worker, crashes, overlapped>>

\* _purge_document_row for a set of documents: their index jobs go, links of
\* FAQ drafts to them are cleared; the text index keeps what it holds.
PurgeDocuments(D) ==
    /\ doc' = Drop(doc, D)
    /\ jobs' = Drop(jobs, {j \in DOMAIN jobs : jobs[j].doc \in D})

UnlinkFaqs(D) == [f \in DOMAIN faq |-> [faq[f] EXCEPT !.src = @ \ D]]

\* The workspace directory is removed after the commit: every index entry of
\* the knowledge base is gone with it.
DeleteKnowledgeBase(u, k) ==
    LET D == {d \in DOMAIN doc : doc[d].kb = k} IN
    /\ Permitted(u, k, "admin")
    /\ PurgeDocuments(D)
    /\ faq' = Drop(UnlinkFaqs(D), {f \in DOMAIN faq : faq[f].kb = k})
    /\ kb' = Drop(kb, {k})
    /\ index' = [d \in Docs |-> IF d \in D THEN {} ELSE index[d]]
    /\ UNCHANGED <<used, lastJob, due, request, worker, crashes, overlapped>>

-----------------------------------------------------------------------------
(* Documents.                                                               *)

SameTitle(k, t) == {d \in DOMAIN doc : doc[d].kb = k /\ doc[d].title = t}
SameContent(k, c) == {d \in DOMAIN doc : doc[d].kb = k /\ doc[d].content = c}

\* _persist_document_bytes: the bytes are stored, in the object store or on the
\* host, and no row exists yet; other requests run meanwhile.
BytesPersisted(k, t, c) == [pc |-> "create", k |-> k, t |-> t, c |-> c]

\* upload_document up to the write of the bytes.  An existing title makes it a
\* new source version, the same bytes a duplicate (409, nothing happens).
UploadRead(r, u, k, t, c) ==
    /\ Idling(r) /\ Permitted(u, k, "write")
    /\ \/ \E d \in SameTitle(k, t) :
            /\ doc[d].content # c /\ doc[d].ver < MaxVersion
            /\ Become(r, [pc |-> "replace", d |-> d, c |-> c, ver |-> doc[d].ver])
       \/ /\ SameTitle(k, t) = {} /\ SameContent(k, c) = {}
          /\ Become(r, BytesPersisted(k, t, c))
    /\ UNCHANGED <<kb, doc, used, faq, jobs, lastJob, due, index, worker, crashes, overlapped>>

\* Not the code: A replacement that leaves the index job to somebody else.
ReplaceWithoutJob(r) ==
    LET q == request[r] IN
    /\ q.pc = "replace"
    /\ doc' = [doc EXCEPT ![q.d].content = q.c, ![q.d].ver = q.ver + 1]
    /\ Answer(r)
    /\ UNCHANGED <<kb, used, faq, jobs, lastJob, due, index, worker, crashes, overlapped>>

\* The row takes the version computed from the read.
ReplaceCommit(r) ==
    LET q == request[r] IN
    /\ q.pc = "replace"
    /\ IF q.d \in DOMAIN doc
         THEN /\ doc' = [doc EXCEPT ![q.d].content = q.c, ![q.d].ver = q.ver + 1,
                                    ![q.d].st = "pending"]
              /\ AddIndexJob(r, q.d)
         ELSE Answer(r) /\ UNCHANGED <<doc, jobs, lastJob>>
    /\ UNCHANGED <<kb, used, faq, due, index, worker, crashes, overlapped>>

CreateCommit(r) ==
    LET q == request[r] IN
    /\ q.pc = "create"
    /\ IF q.k \in DOMAIN kb
         THEN \E d \in Docs : NewDocument(d, q.k, q.t, q.c) /\ AddIndexJob(r, d)
         ELSE Answer(r) /\ UNCHANGED <<doc, used, jobs, lastJob>>
    /\ UNCHANGED <<kb, faq, due, index, worker, crashes, overlapped>>

\* create_index_job: an explicit request to index again.
CreateIndexJob(r, u, d) ==
    /\ Idling(r) /\ d \in DOMAIN doc /\ Permitted(u, doc[d].kb, "write")
    /\ doc' = [doc EXCEPT ![d].st = "pending"]
    /\ AddIndexJob(r, d)
    /\ UNCHANGED <<kb, used, faq, due, index, worker, crashes, overlapped>>

\* Not the code: A submission keyed by the document: a second job of it is taken for a duplicate.
SubmitByDocument(r) ==
    LET q == request[r] IN
    /\ q.pc = "submit"
    /\ due' = IF \E e \in DOMAIN due : due[e].doc = q.d
                THEN due ELSE Put(due, q.job, [doc |-> q.d, st |-> "queued"])
    /\ Answer(r)
    /\ UNCHANGED <<kb, doc, used, faq, jobs, lastJob, index, worker, crashes, overlapped>>

\* submit_document_index: enqueue is idempotent on the index job's id.
SubmitDocumentIndex(r) ==
    LET q == request[r] IN
    /\ q.pc = "submit"
    /\ due' = IF q.job \in DOMAIN due THEN due ELSE Put(due, q.job, [doc |-> q.d, st |-> "queued"])
    /\ Answer(r)
    /\ UNCHANGED <<kb, doc, used, faq, jobs, lastJob, index, worker, crashes, overlapped>>

UpdateDocument(u, d) ==
    /\ d \in DOMAIN doc /\ Permitted(u, doc[d].kb, "write")
    /\ \E t \in Titles : doc' = [doc EXCEPT ![d].title = t]
    /\ UNCHANGED <<kb, used, faq, jobs, lastJob, due, index, request, worker, crashes, overlapped>>

DeleteDocument(u, d) ==
    /\ d \in DOMAIN doc /\ Permitted(u, doc[d].kb, "write")
    /\ PurgeDocuments({d})
    /\ faq' = UnlinkFaqs({d})
    /\ UNCHANGED <<kb, used, lastJob, due, index, request, worker, crashes, overlapped>>

-----------------------------------------------------------------------------
(* FAQ drafts.                                                              *)

GenerateFaqDraft(u, d, f) ==
    /\ d \in DOMAIN doc /\ Permitted(u, doc[d].kb, "admin") /\ f \notin used
    /\ faq' = Put(faq, f, [kb |-> doc[d].kb, src |-> {d}, st |-> "draft"])
    /\ used' = used \cup {f}
    /\ UNCHANGED <<kb, doc, jobs, lastJob, due, index, request, worker, crashes, overlapped>>

\* The read and the status check of approve_faq and reject_faq.
ReviewRead(r, u, f) ==
    /\ Idling(r) /\ f \in DOMAIN faq /\ Permitted(u, faq[f].kb, "admin")
    /\ faq[f].st \in {"draft", "pending_review"}
    /\ \E p \in {"approve", "reject"} : Become(r, [pc |-> p, f |-> f, k |-> faq[f].kb])
    /\ UNCHANGED <<kb, doc, used, faq, jobs, lastJob, due, index, worker, crashes, overlapped>>

\* An approval publishes the draft as a document of its own.
ApproveCommit(r) ==
    LET q == request[r] IN
    /\ q.pc = "approve"
    /\ IF q.f \in DOMAIN faq
         THEN /\ faq' = [faq EXCEPT ![q.f].st = "approved"]
              /\ \E d \in Docs : NewDocument(d, q.k, q.f, q.f) /\ AddIndexJob(r, d)
         ELSE Answer(r) /\ UNCHANGED <<doc, used, faq, jobs, lastJob>>
    /\ UNCHANGED <<kb, due, index, worker, crashes, overlapped>>

RejectCommit(r) ==
    LET q == request[r] IN
    /\ q.pc = "reject"
    /\ faq' = [f \in DOMAIN faq |-> IF f = q.f THEN [faq[f] EXCEPT !.st = "rejected"] ELSE faq[f]]
    /\ Answer(r)
    /\ UNCHANGED <<kb, doc, used, jobs, lastJob, due, index, worker, crashes, overlapped>>

-----------------------------------------------------------------------------
(* The index workers.                                                       *)

Step(w, s) == worker' = [worker EXCEPT ![w] = s]
PendingJobs(d) == {j \in DOMAIN jobs : jobs[j].doc = d /\ jobs[j].st = "pending"}

\* The handler returned: the durable job is complete.
Return(w, e) ==
    /\ Step(w, Idle)
    /\ due' = [due EXCEPT ![e].st = "done"]

\* A worker is given a due entry (DurableJobs!Claim) and runs the handler.
TakeEntry(w, e) ==
    /\ worker[w].pc = "idle" /\ e \in DOMAIN due /\ due[e].st = "queued"
    /\ Step(w, [pc |-> "start", e |-> e])
    /\ due' = [due EXCEPT ![e].st = "running"]
    /\ UNCHANGED <<kb, doc, used, faq, jobs, lastJob, index, request, crashes, overlapped>>

\* The candidate is the newest pending job of the document, whichever entry
\* brought the worker here.
ReadCandidate(w) ==
    LET e == worker[w].e
        d == due[e].doc IN
    /\ worker[w].pc = "start"
    /\ IF d \notin DOMAIN doc \/ PendingJobs(d) = {}
         THEN Return(w, e)
         ELSE Step(w, [pc |-> "read", e |-> e, d |-> d, job |-> Max(PendingJobs(d))])
              /\ UNCHANGED due
    /\ UNCHANGED <<kb, doc, used, faq, jobs, lastJob, index, request, crashes, overlapped>>

\* Not the code: The claim without its pending condition.
StillThere(j) == j \in DOMAIN jobs

\* claim_statement's WHERE: the row still exists and is still pending.
StillPending(j) == j \in DOMAIN jobs /\ jobs[j].st = "pending"

Indexing(w) == worker[w].pc \in {"claimed", "clear", "insert", "finish"}

ClaimJob(w) ==
    LET s == worker[w] IN
    /\ s.pc = "read"
    /\ IF StillPending(s.job)
         THEN /\ jobs' = [jobs EXCEPT ![s.job].st = "running"]
              /\ doc' = [doc EXCEPT ![s.d].st = "indexing"]
              /\ Step(w, [s EXCEPT !.pc = "claimed"])
              /\ overlapped' = overlapped \cup
                   {d \in {s.d} : \E v \in Workers \ {w} : Indexing(v) /\ worker[v].d = d}
              /\ UNCHANGED due
         ELSE Return(w, s.e) /\ UNCHANGED <<jobs, doc, overlapped>>
    /\ UNCHANGED <<kb, used, faq, lastJob, index, request, crashes>>

\* The refresh after the commit: the text that will be indexed.  It raises
\* when the document went away, and the durable job is retried.
Snapshot(w) ==
    LET s == worker[w] IN
    /\ s.pc = "claimed"
    /\ IF s.d \in DOMAIN doc
         THEN /\ Step(w, [pc |-> "clear", e |-> s.e, d |-> s.d, job |-> s.job,
                          c |-> doc[s.d].content])
              /\ UNCHANGED due
         ELSE Step(w, Idle) /\ due' = [due EXCEPT ![s.e].st = "queued"]
    /\ UNCHANGED <<kb, doc, used, faq, jobs, lastJob, index, request, crashes, overlapped>>

Finishing(s, ok) == [pc |-> "finish", e |-> s.e, d |-> s.d, job |-> s.job, ok |-> ok]

\* adelete_by_doc_id, or the adapter is unavailable or fails.
ClearIndex(w) ==
    LET s == worker[w] IN
    /\ s.pc = "clear"
    /\ \/ index' = [index EXCEPT ![s.d] = {}] /\ Step(w, [s EXCEPT !.pc = "insert"])
       \/ Step(w, Finishing(s, FALSE)) /\ UNCHANGED index
    /\ UNCHANGED <<kb, doc, used, faq, jobs, lastJob, due, request, crashes, overlapped>>

\* ainsert ignores an id it already holds.
InsertText(w) ==
    LET s == worker[w] IN
    /\ s.pc = "insert"
    /\ \/ /\ index' = [index EXCEPT ![s.d] = IF @ = {} THEN {s.c} ELSE @]
          /\ Step(w, Finishing(s, TRUE))
       \/ Step(w, Finishing(s, FALSE)) /\ UNCHANGED index
    /\ UNCHANGED <<kb, doc, used, faq, jobs, lastJob, due, request, crashes, overlapped>>

\* The outcome goes to the rows that still exist.
FinishIndex(w) ==
    LET s == worker[w] IN
    /\ s.pc = "finish"
    /\ doc' = [d \in DOMAIN doc |-> IF d = s.d
                 THEN [doc[d] EXCEPT !.st = IF s.ok THEN "indexed" ELSE "failed"] ELSE doc[d]]
    /\ jobs' = [j \in DOMAIN jobs |-> IF j = s.job
                 THEN [jobs[j] EXCEPT !.st = IF s.ok THEN "success" ELSE "failed"] ELSE jobs[j]]
    /\ Return(w, s.e)
    /\ UNCHANGED <<kb, used, faq, lastJob, index, request, crashes, overlapped>>

\* A worker dies; the lease of its entry expires and the entry is due again.
WorkerDies(w) ==
    /\ worker[w].pc # "idle" /\ crashes < MaxCrashes
    /\ crashes' = crashes + 1
    /\ due' = [due EXCEPT ![worker[w].e].st = "queued"]
    /\ Step(w, Idle)
    /\ UNCHANGED <<kb, doc, used, faq, jobs, lastJob, index, request, overlapped>>

-----------------------------------------------------------------------------
Commits(r) == ReplaceCommit(r) \/ CreateCommit(r) \/ ApproveCommit(r) \/ RejectCommit(r)

WorkerStep(w) ==
    \/ \E e \in DOMAIN due : TakeEntry(w, e)
    \/ ReadCandidate(w) \/ ClaimJob(w) \/ Snapshot(w) \/ ClearIndex(w) \/ InsertText(w)
    \/ FinishIndex(w)

Administer(u) ==
    \/ \E k \in Kbs : CreateKnowledgeBase(u, k) \/ DeleteKnowledgeBase(u, k)
    \/ \E d \in DOMAIN doc : \/ UpdateDocument(u, d) \/ DeleteDocument(u, d)
                             \/ \E f \in Faqs : GenerateFaqDraft(u, d, f)

Ask(r, u) ==
    \/ \E k \in DOMAIN kb, t \in Titles, c \in Contents : UploadRead(r, u, k, t, c)
    \/ \E d \in DOMAIN doc : CreateIndexJob(r, u, d)
    \/ \E f \in DOMAIN faq : ReviewRead(r, u, f)

DocumentsNext ==
    \/ \E u \in Users : Administer(u) \/ \E r \in Requests : Ask(r, u)
    \/ \E r \in Requests : Commits(r) \/ SubmitDocumentIndex(r)
    \/ \E w \in Workers : WorkerStep(w) \/ WorkerDies(w)

DocumentsSpec == DocumentsInit /\ [][DocumentsNext]_docVars

\* A request that reached its commit runs on to its submission, and the
\* workers keep working.
DocumentsLiveSpec ==
    /\ DocumentsSpec
    /\ \A r \in Requests : WF_docVars(SubmitDocumentIndex(r))
    /\ \A w \in Workers : WF_docVars(WorkerStep(w))

-----------------------------------------------------------------------------
\* No index job is in the hands of two workers (indexing_service.py: "exactly
\* one caller can move a pending job to running"), whatever entries brought
\* them to the document, and whichever of them died before.
OneIndexerPerJob ==
    \A v, w \in Workers :
        v # w /\ Indexing(v) /\ Indexing(w) => worker[v].job # worker[w].job

Settled(d) ==
    /\ PendingJobs(d) = {}
    /\ \A w \in Workers : worker[w].pc \in {"idle", "start"} \/ worker[w].d # d

\* When the work on a document has come to rest and the document says
\* "indexed", the index holds its current text and nothing else, however many
\* versions were uploaded while older ones were being indexed; a document two
\* index runs were in flight for at the same time is the exception, since
\* neither insert_document nor its caller takes a lock.
IndexedIsCurrent ==
    \A d \in DOMAIN doc :
        doc[d].st = "indexed" /\ Settled(d) /\ d \notin overlapped
          => index[d] = {doc[d].content}

\* Work on a document goes on: a document that waits to be indexed is picked up
\* or deleted, although every worker may die and although an entry may find
\* that another entry's worker took its job.
PendingIsPickedUp ==
    \A d \in Docs :
        (d \in DOMAIN doc /\ doc[d].st = "pending")
          ~> (d \notin DOMAIN doc \/ doc[d].st # "pending")

=============================================================================
