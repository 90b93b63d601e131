--------------------------- MODULE Storage_proofs ---------------------------
(* Proofs about what is stored to be searched: Documents, for any number   *)
(* of documents, texts, requests, index workers and deaths of workers; and *)
(* Reconciliation over MaterialSaga, for any number of versions, attempts, *)
(* faults and sweeps.                                                      *)
EXTENDS Documents, Reconciliation, FiniteSetTheorems, WellFoundedInduction, TLAPS

-----------------------------------------------------------------------------
(* A bounded set of numbers has a largest element: its distance to the     *)
(* bound is least.                                                         *)
LEMMA MaxIsThere ==
    ASSUME NEW n \in Nat, NEW S \in SUBSET (1 .. n), S # {}
    PROVE  Max(S) \in S /\ \A y \in S : y <= Max(S)
<1> DEFINE T == {n - x : x \in S}
<1>1. T \subseteq Nat /\ T # {}
  <2>1. PICK x \in S : TRUE
    OBVIOUS
  <2>2. \A y \in S : n - y \in Nat
    OBVIOUS
  <2> QED BY <2>1, <2>2
<1>2. PICK m \in T : \A k \in T : ~ (<<k, m>> \in OpToRel(<, Nat))
  <2> HIDE DEF T
  <2> QED BY <1>1, NatLessThanWellFounded, WFMin
<1>3. \A k \in T : ~ (k < m)
  <2> HIDE DEF T
  <2> QED BY <1>1, <1>2 DEF OpToRel
<1>4. PICK x \in S : m = n - x
  BY <1>2
<1>5. \A y \in S : x >= y
  BY <1>3, <1>4
<1>6. Max(S) \in S /\ \A y \in S : Max(S) >= y
  BY <1>5 DEF Max
<1> QED BY <1>6

-----------------------------------------------------------------------------
(* Documents: the inductive invariant.                                     *)

(* Rows: documents have keys that were handed out, index jobs belong to    *)
(* documents that exist.                                                   *)
DocOK(d) ==
    /\ d \in Docs /\ d \in used
    /\ DOMAIN doc[d] = {"kb", "title", "content", "ver", "st"}

JobOK(j) ==
    /\ j \in 1 .. lastJob
    /\ DOMAIN jobs[j] = {"doc", "st"}
    /\ jobs[j].doc \in DOMAIN doc

RowsOK ==
    /\ lastJob \in Nat
    /\ \A d \in DOMAIN doc : DocOK(d)
    /\ \A j \in DOMAIN jobs : JobOK(j)

(* The job a worker carries is a job of its document, and no longer        *)
(* pending once the worker has claimed it.                                 *)
Carries(w) ==
    /\ worker[w].d \in Docs /\ worker[w].d \in used
    /\ worker[w].job \in 1 .. lastJob
    /\ worker[w].job \in DOMAIN jobs =>
           /\ jobs[worker[w].job].doc = worker[w].d
           /\ Indexing(w) => jobs[worker[w].job].st # "pending"

WorkerOK(w) ==
    /\ worker[w].pc = "read" \/ Indexing(w) => Carries(w)
    /\ worker[w].pc \in {"read", "claimed"} => DOMAIN worker[w] = {"pc", "e", "d", "job"}
    /\ worker[w].pc \in {"clear", "insert"} => DOMAIN worker[w] = {"pc", "e", "d", "job", "c"}

(* Two index runs for one document are remembered.                         *)
OverlapsRecorded ==
    \A v, w \in Workers : v # w /\ Indexing(v) /\ Indexing(w) /\ worker[v].d = worker[w].d
                            => worker[w].d \in overlapped

(* The text is the document's, unless a newer job waits.                   *)
CurrentOr(d, c) == c = {doc[d].content} \/ PendingJobs(d) # {}

(* What the only index run of an existing document has achieved so far.    *)
Achieved(w, d) ==
    /\ doc[d].st # "indexed"
    /\ worker[w].pc \in {"clear", "insert"} => CurrentOr(d, {worker[w].c})
    /\ worker[w].pc = "insert" => index[d] = {}
    /\ worker[w].pc = "finish" /\ worker[w].ok => CurrentOr(d, index[d])

Progress(w) ==
    Indexing(w) /\ worker[w].d \in DOMAIN doc /\ worker[w].d \notin overlapped
        => Achieved(w, worker[w].d)

(* A document that says "indexed" is, unless a newer job waits.            *)
AtRest(d) == d \notin overlapped /\ doc[d].st = "indexed" => CurrentOr(d, index[d])

DocumentsInv ==
    /\ DOMAIN worker = Workers /\ DOMAIN index = Docs
    /\ RowsOK
    /\ \A w \in Workers : WorkerOK(w) /\ Progress(w)
    /\ OverlapsRecorded
    /\ \A d \in DOMAIN doc : AtRest(d)

-----------------------------------------------------------------------------
(* Requests: what they may do to documents whose index runs are in flight. *)

(* The jobs keep what they say; a new one has a new number.                *)
JobsOnlyCome ==
    /\ \A j \in DOMAIN jobs \cap DOMAIN jobs' : jobs'[j] = jobs[j]
    /\ \A j \in DOMAIN jobs' \ DOMAIN jobs : j > lastJob

(* A document is left alone, or waits for a job of its own.                *)
Untouched(d) ==
    /\ d \in DOMAIN doc
    /\ doc'[d].st = doc[d].st /\ doc'[d].content = doc[d].content /\ index'[d] = index[d]
    /\ PendingJobs(d) \subseteq PendingJobs(d)'

Waits(d) ==
    /\ d \in DOMAIN doc => index'[d] = index[d]
    /\ d \notin DOMAIN doc => d \notin used
    /\ doc'[d].st = "pending" /\ PendingJobs(d)' # {}

LEMMA RequestKeepsInv ==
    ASSUME DocumentsInv, worker' = worker, overlapped' = overlapped,
           DOMAIN index' = Docs, used \subseteq used', lastJob' \in Nat, lastJob <= lastJob',
           RowsOK', JobsOnlyCome, \A d \in DOMAIN doc' : Untouched(d) \/ Waits(d)
    PROVE  DocumentsInv'
<1>1. ASSUME NEW w \in Workers
      PROVE  WorkerOK(w)'
  <2>1. WorkerOK(w) /\ worker'[w] = worker[w] /\ lastJob \in Nat
    BY DEF DocumentsInv, RowsOK
  <2>2. ASSUME Carries(w)
        PROVE  Carries(w)'
    <3>1. PICK j : j = worker[w].job
      OBVIOUS
    <3>2. j \in 1 .. lastJob /\ j \in 1 .. lastJob'
      BY <2>1, <2>2, <3>1 DEF Carries
    <3>3. j \in DOMAIN jobs' => j \in DOMAIN jobs /\ jobs'[j] = jobs[j]
      BY <2>1, <3>2 DEF JobsOnlyCome
    <3> QED BY <2>1, <2>2, <3>1, <3>2, <3>3 DEF Carries, Indexing
  <2> QED BY <2>1, <2>2 DEF WorkerOK, Indexing
<1>2. ASSUME NEW w \in Workers
      PROVE  Progress(w)'
  <2>1. PICK s : s = worker[w] /\ s = worker'[w]
    OBVIOUS
  <2> SUFFICES ASSUME Indexing(w), s.d \in DOMAIN doc', s.d \notin overlapped
               PROVE  Achieved(w, s.d)'
    BY <2>1 DEF Progress, Indexing
  <2>2. Progress(w) /\ s.d \in used
    BY <2>1 DEF DocumentsInv, WorkerOK, Carries
  <2>3. CASE Untouched(s.d)
    <3>1. Achieved(w, s.d)
      BY <2>1, <2>2, <2>3 DEF Progress, Untouched
    <3> QED BY <3>1, <2>1, <2>3 DEF Achieved, Untouched, CurrentOr
  <2>4. CASE Waits(s.d)
    <3>1. s.d \in DOMAIN doc /\ index'[s.d] = index[s.d]
      BY <2>2, <2>4 DEF Waits
    <3>2. Achieved(w, s.d)
      BY <2>1, <2>2, <3>1 DEF Progress
    <3> QED BY <3>1, <3>2, <2>1, <2>4 DEF Achieved, Waits, CurrentOr
  <2> QED BY <2>3, <2>4
<1>3. OverlapsRecorded'
  BY DEF DocumentsInv, OverlapsRecorded, Indexing
<1>4. ASSUME NEW d \in DOMAIN doc'
      PROVE  AtRest(d)'
  <2>1. CASE Untouched(d)
    <3>1. AtRest(d)
      BY <2>1 DEF Untouched, DocumentsInv
    <3> QED BY <3>1, <2>1 DEF AtRest, Untouched, CurrentOr
  <2>2. CASE Waits(d)
    BY <2>2 DEF AtRest, Waits
  <2> QED BY <2>1, <2>2
<1> QED BY <1>1, <1>2, <1>3, <1>4 DEF DocumentsInv

(* Nothing happens to the documents.                                       *)
LEMMA RowsUntouched ==
    ASSUME DocumentsInv, worker' = worker, overlapped' = overlapped, index' = index,
           doc' = doc, jobs' = jobs, lastJob' = lastJob, used \subseteq used'
    PROVE  DocumentsInv'
<1>1. RowsOK'
  BY DEF DocumentsInv, RowsOK, DocOK, JobOK
<1>2. JobsOnlyCome
  BY DEF JobsOnlyCome
<1>3. \A d \in DOMAIN doc' : Untouched(d)
  BY DEF Untouched, PendingJobs
<1>4. lastJob' \in Nat /\ lastJob <= lastJob'
  BY DEF DocumentsInv, RowsOK
<1>5. DOMAIN index' = Docs
  BY DEF DocumentsInv
<1> QED BY <1>1, <1>2, <1>3, <1>4, <1>5, RequestKeepsInv

(* Documents are purged with their jobs.                                   *)
LEMMA PurgeKeepsInv ==
    ASSUME DocumentsInv, NEW D, PurgeDocuments(D), worker' = worker, overlapped' = overlapped,
           used' = used, lastJob' = lastJob,
           DOMAIN index' = Docs, \A d \in Docs \ D : index'[d] = index[d]
    PROVE  DocumentsInv'
<1>1. DOMAIN doc' = DOMAIN doc \ D /\ \A d \in DOMAIN doc' : doc'[d] = doc[d]
  BY DEF PurgeDocuments, Drop, Restrict
<1>2. DOMAIN jobs' = DOMAIN jobs \ {j \in DOMAIN jobs : jobs[j].doc \in D}
      /\ \A j \in DOMAIN jobs' : jobs'[j] = jobs[j]
  BY DEF PurgeDocuments, Drop, Restrict
<1>3. RowsOK'
  <2>1. \A d \in DOMAIN doc' : DocOK(d)'
    BY <1>1 DEF DocumentsInv, RowsOK, DocOK
  <2>2. \A j \in DOMAIN jobs' : JobOK(j)'
    BY <1>1, <1>2 DEF DocumentsInv, RowsOK, JobOK
  <2> QED BY <2>1, <2>2 DEF DocumentsInv, RowsOK
<1>4. JobsOnlyCome
  BY <1>2 DEF JobsOnlyCome
<1>5. ASSUME NEW d \in DOMAIN doc'
      PROVE  Untouched(d)
  <2>1. d \in DOMAIN doc /\ d \in Docs /\ d \notin D /\ doc'[d] = doc[d]
    BY <1>1 DEF DocumentsInv, RowsOK, DocOK
  <2>2. \A j \in PendingJobs(d) : j \in DOMAIN jobs'
    BY <2>1, <1>2 DEF PendingJobs
  <2>3. PendingJobs(d) \subseteq PendingJobs(d)'
    BY <2>2, <1>2 DEF PendingJobs
  <2> QED BY <2>1, <2>3 DEF Untouched
<1>6. lastJob' \in Nat /\ lastJob <= lastJob'
  BY DEF DocumentsInv, RowsOK
<1> QED BY <1>3, <1>4, <1>5, <1>6, RequestKeepsInv

(* A document, new or changed, gets an index job.                          *)
LEMMA JobKeepsInv ==
    ASSUME DocumentsInv, NEW r, NEW d \in Docs, AddIndexJob(r, d),
           worker' = worker, overlapped' = overlapped, index' = index,
           d \in used', used \subseteq used', d \in DOMAIN doc \/ d \notin used,
           DOMAIN doc' = DOMAIN doc \cup {d},
           \A x \in DOMAIN doc : x # d => doc'[x] = doc[x],
           DOMAIN doc'[d] = {"kb", "title", "content", "ver", "st"}, doc'[d].st = "pending"
    PROVE  DocumentsInv'
<1>0. PICK n : n = lastJob + 1
  OBVIOUS
<1>1. lastJob \in Nat /\ lastJob' = n /\ n \in Nat /\ n \notin DOMAIN jobs
  BY <1>0 DEF AddIndexJob, DocumentsInv, RowsOK, JobOK
<1>2. /\ DOMAIN jobs' = DOMAIN jobs \cup {n}
      /\ DOMAIN jobs'[n] = {"doc", "st"} /\ jobs'[n].doc = d /\ jobs'[n].st = "pending"
      /\ \A j \in DOMAIN jobs : jobs'[j] = jobs[j]
  BY <1>0, <1>1 DEF AddIndexJob, Put
<1>3. RowsOK'
  <2>1. \A x \in DOMAIN doc' : DocOK(x)'
    BY DEF DocumentsInv, RowsOK, DocOK
  <2>2. \A j \in DOMAIN jobs : JobOK(j)'
    <3>1. \A j \in 1 .. lastJob : j \in 1 .. lastJob'
      BY <1>0, <1>1
    <3> QED BY <1>2, <3>1 DEF DocumentsInv, RowsOK, JobOK
  <2>3. JobOK(n)'
    <3>1. n \in 1 .. lastJob'
      BY <1>0, <1>1
    <3> QED BY <3>1, <1>2 DEF JobOK
  <2> QED BY <2>1, <2>2, <2>3, <1>1, <1>2 DEF RowsOK
<1>4. JobsOnlyCome
  BY <1>0, <1>1, <1>2 DEF JobsOnlyCome
<1>5. ASSUME NEW x \in DOMAIN doc', x # d
      PROVE  Untouched(x)
  BY <1>2, <1>5 DEF Untouched, PendingJobs
<1>6. Waits(d)
  <2>1. n \in PendingJobs(d)'
    BY <1>2 DEF PendingJobs
  <2> QED BY <2>1 DEF Waits
<1>7. lastJob <= lastJob'
  BY <1>0, <1>1
<1>8. DOMAIN index' = Docs
  BY DEF DocumentsInv
<1> QED BY <1>1, <1>3, <1>4, <1>5, <1>6, <1>7, <1>8, RequestKeepsInv

(* Every request of an administrator or a user.                            *)
LEMMA AdministerKeepsInv ==
    ASSUME DocumentsInv, NEW u \in Users, Administer(u)
    PROVE  DocumentsInv'
<1>1. ASSUME NEW k \in Kbs, CreateKnowledgeBase(u, k)
      PROVE  DocumentsInv'
  BY <1>1, RowsUntouched DEF CreateKnowledgeBase
<1>2. ASSUME NEW k \in Kbs, DeleteKnowledgeBase(u, k)
      PROVE  DocumentsInv'
  <2>1. PICK D : D = {d \in DOMAIN doc : doc[d].kb = k}
    OBVIOUS
  <2>2. /\ PurgeDocuments(D) /\ worker' = worker /\ overlapped' = overlapped
        /\ used' = used /\ lastJob' = lastJob
        /\ index' = [d \in Docs |-> IF d \in D THEN {} ELSE index[d]]
    BY <1>2, <2>1 DEF DeleteKnowledgeBase
  <2>3. DOMAIN index' = Docs /\ \A d \in Docs \ D : index'[d] = index[d]
    BY <2>2
  <2> QED BY <2>2, <2>3, PurgeKeepsInv
<1>3. ASSUME NEW d \in DOMAIN doc, UpdateDocument(u, d)
      PROVE  DocumentsInv'
  <2>1. PICK t \in Titles : doc' = [doc EXCEPT ![d].title = t]
    BY <1>3 DEF UpdateDocument
  <2>2. /\ worker' = worker /\ overlapped' = overlapped /\ index' = index
        /\ jobs' = jobs /\ used' = used /\ lastJob' = lastJob
    BY <1>3 DEF UpdateDocument
  <2>3. /\ DOMAIN doc' = DOMAIN doc
        /\ \A x \in DOMAIN doc : /\ DOMAIN doc'[x] = DOMAIN doc[x]
                                 /\ doc'[x].st = doc[x].st /\ doc'[x].content = doc[x].content
    BY <2>1 DEF DocumentsInv, RowsOK, DocOK
  <2>4. RowsOK'
    BY <2>2, <2>3 DEF DocumentsInv, RowsOK, DocOK, JobOK
  <2>5. JobsOnlyCome
    BY <2>2 DEF JobsOnlyCome
  <2>6. \A x \in DOMAIN doc' : Untouched(x)
    BY <2>2, <2>3 DEF Untouched, PendingJobs
  <2>7. lastJob' \in Nat /\ lastJob <= lastJob' /\ DOMAIN index' = Docs
    BY <2>2 DEF DocumentsInv, RowsOK
  <2> QED BY <2>2, <2>4, <2>5, <2>6, <2>7, RequestKeepsInv
<1>4. ASSUME NEW d \in DOMAIN doc, DeleteDocument(u, d)
      PROVE  DocumentsInv'
  <2>1. DOMAIN index' = Docs /\ index' = index
    BY <1>4 DEF DeleteDocument, DocumentsInv
  <2> QED BY <1>4, <2>1, PurgeKeepsInv DEF DeleteDocument
<1>5. ASSUME NEW d \in DOMAIN doc, NEW f \in Faqs, GenerateFaqDraft(u, d, f)
      PROVE  DocumentsInv'
  BY <1>5, RowsUntouched DEF GenerateFaqDraft
<1> QED BY <1>1, <1>2, <1>3, <1>4, <1>5 DEF Administer

LEMMA AskKeepsInv ==
    ASSUME DocumentsInv, NEW r \in Requests, NEW u \in Users, Ask(r, u)
    PROVE  DocumentsInv'
<1>1. ASSUME NEW k, NEW t, NEW c, UploadRead(r, u, k, t, c)
      PROVE  DocumentsInv'
  BY <1>1, RowsUntouched DEF UploadRead
<1>2. ASSUME NEW d \in DOMAIN doc, CreateIndexJob(r, u, d)
      PROVE  DocumentsInv'
  <2>1. /\ AddIndexJob(r, d) /\ doc' = [doc EXCEPT ![d].st = "pending"]
        /\ worker' = worker /\ overlapped' = overlapped /\ index' = index /\ used' = used
    BY <1>2 DEF CreateIndexJob
  <2>2. DocOK(d)
    BY DEF DocumentsInv, RowsOK
  <2>3. DOMAIN doc' = DOMAIN doc \cup {d} /\ \A x \in DOMAIN doc : x # d => doc'[x] = doc[x]
    BY <2>1
  <2>4. DOMAIN doc'[d] = {"kb", "title", "content", "ver", "st"} /\ doc'[d].st = "pending"
    BY <2>1, <2>2 DEF DocOK
  <2> QED BY <2>1, <2>2, <2>3, <2>4, JobKeepsInv DEF DocOK
<1>3. ASSUME NEW f, ReviewRead(r, u, f)
      PROVE  DocumentsInv'
  BY <1>3, RowsUntouched DEF ReviewRead
<1> QED BY <1>1, <1>2, <1>3 DEF Ask

(* A document with a new key, and its first index job.                     *)
LEMMA NewDocumentKeepsInv ==
    ASSUME DocumentsInv, NEW r, NEW d \in Docs, NEW k, NEW t, NEW c,
           NewDocument(d, k, t, c), AddIndexJob(r, d),
           worker' = worker, overlapped' = overlapped, index' = index
    PROVE  DocumentsInv'
<1>1. d \notin used /\ used' = used \cup {d} /\ d \notin DOMAIN doc
  BY DEF NewDocument, DocumentsInv, RowsOK, DocOK
<1>2. PICK row : row = [kb |-> k, title |-> t, content |-> c, ver |-> 1, st |-> "pending"]
  OBVIOUS
<1>3. DOMAIN row = {"kb", "title", "content", "ver", "st"} /\ row.st = "pending"
  BY <1>2
<1>4. doc' = [y \in DOMAIN doc \cup {d} |-> IF y = d THEN row ELSE doc[y]]
  BY <1>2 DEF NewDocument, Put
<1>5. /\ DOMAIN doc' = DOMAIN doc \cup {d} /\ doc'[d] = row
      /\ \A x \in DOMAIN doc : x # d => doc'[x] = doc[x]
  BY <1>4
<1> QED BY <1>1, <1>3, <1>5, JobKeepsInv

LEMMA CommitsKeepInv ==
    ASSUME DocumentsInv, NEW r \in Requests, Commits(r) \/ SubmitDocumentIndex(r)
    PROVE  DocumentsInv'
<1>1. PICK q : q = request[r]
  OBVIOUS
<1>2. CASE ReplaceCommit(r)
  <2>1. worker' = worker /\ overlapped' = overlapped /\ index' = index /\ used' = used
    BY <1>2 DEF ReplaceCommit
  <2>2. CASE q.d \in DOMAIN doc
    <3>1. PICK d : d = q.d
      OBVIOUS
    <3>2. /\ d \in DOMAIN doc /\ AddIndexJob(r, d)
          /\ doc' = [doc EXCEPT ![d].content = q.c, ![d].ver = q.ver + 1, ![d].st = "pending"]
      BY <1>1, <1>2, <2>2, <3>1 DEF ReplaceCommit
    <3>3. DocOK(d)
      BY <3>2 DEF DocumentsInv, RowsOK
    <3>4. DOMAIN doc' = DOMAIN doc \cup {d} /\ \A x \in DOMAIN doc : x # d => doc'[x] = doc[x]
      BY <3>2
    <3>5. DOMAIN doc'[d] = {"kb", "title", "content", "ver", "st"} /\ doc'[d].st = "pending"
      BY <3>2, <3>3 DEF DocOK
    <3> QED BY <2>1, <3>2, <3>3, <3>4, <3>5, JobKeepsInv DEF DocOK
  <2>3. CASE q.d \notin DOMAIN doc
    <3>1. doc' = doc /\ jobs' = jobs /\ lastJob' = lastJob
      BY <1>1, <1>2, <2>3 DEF ReplaceCommit
    <3> QED BY <2>1, <3>1, RowsUntouched
  <2> QED BY <2>2, <2>3
<1>3. CASE CreateCommit(r)
  <2>1. worker' = worker /\ overlapped' = overlapped /\ index' = index
    BY <1>3 DEF CreateCommit
  <2>2. CASE q.k \in DOMAIN kb
    <3>1. PICK d \in Docs : NewDocument(d, q.k, q.t, q.c) /\ AddIndexJob(r, d)
      BY <1>1, <1>3, <2>2 DEF CreateCommit
    <3> QED BY <2>1, <3>1, NewDocumentKeepsInv
  <2>3. CASE q.k \notin DOMAIN kb
    <3>1. doc' = doc /\ jobs' = jobs /\ lastJob' = lastJob /\ used' = used
      BY <1>1, <1>3, <2>3 DEF CreateCommit
    <3> QED BY <2>1, <3>1, RowsUntouched
  <2> QED BY <2>2, <2>3
<1>4. CASE ApproveCommit(r)
  <2>1. worker' = worker /\ overlapped' = overlapped /\ index' = index
    BY <1>4 DEF ApproveCommit
  <2>2. CASE q.f \in DOMAIN faq
    <3>1. PICK d \in Docs : NewDocument(d, q.k, q.f, q.f) /\ AddIndexJob(r, d)
      BY <1>1, <1>4, <2>2 DEF ApproveCommit
    <3> QED BY <2>1, <3>1, NewDocumentKeepsInv
  <2>3. CASE q.f \notin DOMAIN faq
    <3>1. doc' = doc /\ jobs' = jobs /\ lastJob' = lastJob /\ used' = used
      BY <1>1, <1>4, <2>3 DEF ApproveCommit
    <3> QED BY <2>1, <3>1, RowsUntouched
  <2> QED BY <2>2, <2>3
<1>5. CASE RejectCommit(r)
  BY <1>5, RowsUntouched DEF RejectCommit
<1>6. CASE SubmitDocumentIndex(r)
  BY <1>6, RowsUntouched DEF SubmitDocumentIndex
<1> QED BY <1>2, <1>3, <1>4, <1>5, <1>6 DEF Commits

-----------------------------------------------------------------------------
(* The index workers.                                                      *)

(* A step of one worker that leaves every document alone: it is enough     *)
(* that the worker ends up sound and does not begin to index.              *)
LEMMA QuietStepKeepsInv ==
    ASSUME DocumentsInv, NEW w \in Workers, NEW s, Step(w, s),
           doc' = doc, jobs' = jobs, lastJob' = lastJob, used' = used, index' = index,
           overlapped' = overlapped,
           WorkerOK(w)', Progress(w)',
           Indexing(w)' => Indexing(w) /\ s.d = worker[w].d
    PROVE  DocumentsInv'
<1>1. /\ DOMAIN worker' = Workers /\ worker'[w] = s
      /\ \A v \in Workers : v # w => worker'[v] = worker[v]
  BY DEF Step, DocumentsInv
<1>2. RowsOK'
  BY DEF DocumentsInv, RowsOK, DocOK, JobOK
<1>3. ASSUME NEW v \in Workers, v # w
      PROVE  WorkerOK(v)' /\ Progress(v)'
  <2>1. worker'[v] = worker[v] /\ WorkerOK(v) /\ Progress(v)
    BY <1>1, <1>3 DEF DocumentsInv
  <2>2. WorkerOK(v)'
    BY <2>1 DEF WorkerOK, Carries, Indexing
  <2>3. Progress(v)'
    BY <2>1 DEF Progress, Achieved, CurrentOr, PendingJobs, Indexing
  <2> QED BY <2>2, <2>3
<1>4. OverlapsRecorded'
  <2>1. \A v \in Workers : Indexing(v)' => Indexing(v) /\ worker'[v].d = worker[v].d
    BY <1>1 DEF Indexing
  <2> QED BY <2>1 DEF DocumentsInv, OverlapsRecorded
<1>5. \A d \in DOMAIN doc' : AtRest(d)'
  BY DEF DocumentsInv, AtRest, CurrentOr, PendingJobs
<1>6. DOMAIN index' = Docs
  BY DEF DocumentsInv
<1> QED BY <1>1, <1>2, <1>3, <1>4, <1>5, <1>6 DEF DocumentsInv

(* A worker that goes idle.                                                *)
LEMMA IdleKeepsInv ==
    ASSUME DocumentsInv, NEW w \in Workers, Step(w, Idle),
           doc' = doc, jobs' = jobs, lastJob' = lastJob, used' = used, index' = index,
           overlapped' = overlapped
    PROVE  DocumentsInv'
<1>1. worker'[w] = Idle
  BY DEF Step, DocumentsInv
<1>2. worker'[w].pc = "idle" /\ ~ Indexing(w)'
  BY <1>1 DEF Idle, Indexing
<1>3. WorkerOK(w)' /\ Progress(w)'
  BY <1>2 DEF WorkerOK, Progress
<1> QED BY <1>2, <1>3, QuietStepKeepsInv

LEMMA TakeKeepsInv ==
    ASSUME DocumentsInv, NEW w \in Workers, NEW e, TakeEntry(w, e)
    PROVE  DocumentsInv'
<1>1. PICK s : s = [pc |-> "start", e |-> e]
  OBVIOUS
<1>2. Step(w, s) /\ worker'[w] = s /\ s.pc = "start"
  BY <1>1 DEF TakeEntry, Step, DocumentsInv
<1>3. ~ Indexing(w)'
  BY <1>2 DEF Indexing
<1>4. WorkerOK(w)' /\ Progress(w)'
  BY <1>2, <1>3 DEF WorkerOK, Progress
<1> QED BY <1>2, <1>3, <1>4, QuietStepKeepsInv DEF TakeEntry

LEMMA ReadKeepsInv ==
    ASSUME DocumentsInv, NEW w \in Workers, ReadCandidate(w)
    PROVE  DocumentsInv'
<1>1. PICK e, d : e = worker[w].e /\ d = due[e].doc
  OBVIOUS
<1>2. /\ doc' = doc /\ jobs' = jobs /\ lastJob' = lastJob /\ used' = used /\ index' = index
      /\ overlapped' = overlapped
  BY DEF ReadCandidate
<1>3. CASE d \notin DOMAIN doc \/ PendingJobs(d) = {}
  <2>1. Step(w, Idle)
    BY <1>1, <1>3 DEF ReadCandidate, Return
  <2> QED BY <1>2, <2>1, IdleKeepsInv
<1>4. CASE d \in DOMAIN doc /\ PendingJobs(d) # {}
  <2>1. PICK j, s : j = Max(PendingJobs(d)) /\ s = [pc |-> "read", e |-> e, d |-> d, job |-> j]
    OBVIOUS
  <2>2. Step(w, s)
    BY <1>1, <1>4, <2>1 DEF ReadCandidate
  <2>3. worker'[w] = s
    BY <2>2 DEF Step, DocumentsInv
  <2>4. j \in PendingJobs(d)
    <3>1. lastJob \in Nat /\ PendingJobs(d) \in SUBSET (1 .. lastJob)
      BY DEF DocumentsInv, RowsOK, JobOK, PendingJobs
    <3> QED BY <1>4, <2>1, <3>1, MaxIsThere
  <2>5. s.pc = "read" /\ s.d = d /\ s.job = j /\ DOMAIN s = {"pc", "e", "d", "job"}
    BY <2>1
  <2>6. ~ Indexing(w)'
    BY <2>3, <2>5 DEF Indexing
  <2>7. Carries(w)'
    <3>1. j \in DOMAIN jobs /\ jobs[j].doc = d /\ j \in 1 .. lastJob
      BY <2>4 DEF PendingJobs, DocumentsInv, RowsOK, JobOK
    <3>2. d \in Docs /\ d \in used
      BY <1>4 DEF DocumentsInv, RowsOK, DocOK
    <3> QED BY <1>2, <2>3, <2>5, <2>6, <3>1, <3>2 DEF Carries
  <2>8. WorkerOK(w)' /\ Progress(w)'
    BY <2>3, <2>5, <2>6, <2>7 DEF WorkerOK, Progress
  <2> QED BY <1>2, <2>2, <2>6, <2>8, QuietStepKeepsInv
<1> QED BY <1>3, <1>4

(* The refresh: the run works on the text the document has now.            *)
LEMMA SnapshotKeepsInv ==
    ASSUME DocumentsInv, NEW w \in Workers, Snapshot(w)
    PROVE  DocumentsInv'
<1>1. PICK t : t = worker[w]
  OBVIOUS
<1>2. /\ doc' = doc /\ jobs' = jobs /\ lastJob' = lastJob /\ used' = used /\ index' = index
      /\ overlapped' = overlapped /\ t.pc = "claimed"
  BY <1>1 DEF Snapshot
<1>3. CASE t.d \notin DOMAIN doc
  <2>1. Step(w, Idle)
    BY <1>1, <1>3 DEF Snapshot
  <2> QED BY <1>2, <2>1, IdleKeepsInv
<1>4. CASE t.d \in DOMAIN doc
  <2>1. PICK c, s : /\ c = doc[t.d].content
                    /\ s = [pc |-> "clear", e |-> t.e, d |-> t.d, job |-> t.job, c |-> c]
    OBVIOUS
  <2>2. Step(w, s)
    BY <1>1, <1>4, <2>1 DEF Snapshot
  <2>3. worker'[w] = s
    BY <2>2 DEF Step, DocumentsInv
  <2>4. /\ s.pc = "clear" /\ s.d = t.d /\ s.job = t.job /\ s.c = c
        /\ DOMAIN s = {"pc", "e", "d", "job", "c"}
    BY <2>1
  <2>5. Indexing(w) /\ Indexing(w)' /\ WorkerOK(w) /\ Progress(w)
    BY <1>1, <1>2, <2>3, <2>4 DEF Indexing, DocumentsInv
  <2>6. WorkerOK(w)'
    BY <1>1, <1>2, <2>3, <2>4, <2>5 DEF WorkerOK, Carries
  <2>7. ASSUME t.d \notin overlapped
        PROVE  Achieved(w, t.d)'
    <3>1. doc[t.d].st # "indexed"
      BY <1>1, <1>4, <2>5, <2>7 DEF Progress, Achieved
    <3> QED BY <3>1, <1>2, <2>1, <2>3, <2>4 DEF Achieved, CurrentOr
  <2>8. Progress(w)'
    BY <2>3, <2>4, <2>7, <1>2 DEF Progress
  <2> QED BY <1>1, <1>2, <2>2, <2>4, <2>5, <2>6, <2>8, QuietStepKeepsInv
<1> QED BY <1>3, <1>4

(* The claim.  Whoever else indexes the document is remembered; whoever    *)
(* indexes another one sees nothing of it.                                 *)
LEMMA ClaimKeepsInv ==
    ASSUME DocumentsInv, NEW w \in Workers, ClaimJob(w)
    PROVE  DocumentsInv'
<1>1. PICK t, d, j : t = worker[w] /\ d = t.d /\ j = t.job
  OBVIOUS
<1>2. t.pc = "read" /\ lastJob' = lastJob /\ used' = used /\ index' = index
  BY <1>1 DEF ClaimJob
<1>3. CASE ~ StillPending(j)
  <2>1. Step(w, Idle) /\ doc' = doc /\ jobs' = jobs /\ overlapped' = overlapped
    BY <1>1, <1>3 DEF ClaimJob, Return
  <2> QED BY <1>2, <2>1, IdleKeepsInv
<1>4. CASE StillPending(j)
  <2>1. PICK s : s = [t EXCEPT !.pc = "claimed"]
    OBVIOUS
  <2>2. /\ jobs' = [jobs EXCEPT ![j].st = "running"]
        /\ doc' = [doc EXCEPT ![d].st = "indexing"]
        /\ Step(w, s)
        /\ overlapped' = overlapped \cup
             {x \in {d} : \E v \in Workers \ {w} : Indexing(v) /\ worker[v].d = x}
    BY <1>1, <1>4, <2>1 DEF ClaimJob
  <2>3. WorkerOK(w) /\ Carries(w) /\ DOMAIN t = {"pc", "e", "d", "job"}
    BY <1>1, <1>2 DEF DocumentsInv, WorkerOK
  <2>4. s.pc = "claimed" /\ s.d = d /\ s.job = j /\ DOMAIN s = {"pc", "e", "d", "job"}
    BY <1>1, <2>1, <2>3
  <2>5. j \in DOMAIN jobs /\ jobs[j].doc = d /\ JobOK(j) /\ d \in DOMAIN doc /\ DocOK(d)
    BY <1>1, <1>4, <2>3 DEF StillPending, Carries, DocumentsInv, RowsOK, JobOK
  <2>6. /\ DOMAIN worker' = Workers /\ worker'[w] = s
        /\ \A v \in Workers : v # w => worker'[v] = worker[v]
    BY <2>2 DEF Step, DocumentsInv
  <2>7. /\ DOMAIN jobs' = DOMAIN jobs /\ jobs'[j].doc = d /\ jobs'[j].st = "running"
        /\ DOMAIN jobs'[j] = {"doc", "st"}
        /\ \A x \in DOMAIN jobs : x # j => jobs'[x] = jobs[x]
    BY <2>2, <2>5 DEF JobOK
  <2>8. /\ DOMAIN doc' = DOMAIN doc /\ doc'[d].st = "indexing" /\ DOMAIN doc'[d] = DOMAIN doc[d]
        /\ \A x \in DOMAIN doc : x # d => doc'[x] = doc[x]
    BY <2>2, <2>5 DEF DocOK
  <2>9. \A x : x # d => PendingJobs(x)' = PendingJobs(x)
    BY <2>5, <2>7 DEF PendingJobs
  <2>10. overlapped \subseteq overlapped'
    BY <2>2
  <2>11. \A v \in Workers : v # w /\ Indexing(v) /\ worker[v].d = d => d \in overlapped'
    BY <2>2
  <2>12. \A v \in Workers : v # w => (Indexing(v)' <=> Indexing(v))
    BY <2>6 DEF Indexing
  <2>13. RowsOK'
    <3>1. \A x \in DOMAIN doc' : DocOK(x)'
      BY <1>2, <2>8 DEF DocumentsInv, RowsOK, DocOK
    <3>2. \A x \in DOMAIN jobs' : JobOK(x)'
      BY <1>2, <2>5, <2>7, <2>8 DEF DocumentsInv, RowsOK, JobOK
    <3> QED BY <3>1, <3>2, <1>2 DEF DocumentsInv, RowsOK
  <2>14. ASSUME NEW v \in Workers
         PROVE  WorkerOK(v)'
    <3>1. CASE v = w
      BY <3>1, <1>1, <1>2, <2>3, <2>4, <2>6, <2>7 DEF WorkerOK, Carries
    <3>2. CASE v # w
      <4>1. worker'[v] = worker[v] /\ WorkerOK(v) /\ (Indexing(v)' <=> Indexing(v))
        BY <3>2, <2>6, <2>12 DEF DocumentsInv
      <4>2. Carries(v) => Carries(v)'
        BY <4>1, <1>2, <2>5, <2>7 DEF Carries
      <4> QED BY <4>1, <4>2 DEF WorkerOK
    <3> QED BY <3>1, <3>2
  <2>15. ASSUME NEW v \in Workers
         PROVE  Progress(v)'
    <3>1. CASE v = w
      BY <3>1, <2>4, <2>6, <2>8 DEF Progress, Achieved
    <3>2. CASE v # w
      <4>1. PICK x : x = worker[v].d
        OBVIOUS
      <4> SUFFICES ASSUME Indexing(v), x \in DOMAIN doc, x \notin overlapped'
                   PROVE  Achieved(v, x)'
        BY <4>1, <3>2, <2>6, <2>8, <2>12 DEF Progress
      <4>2. x # d /\ x \notin overlapped
        BY <4>1, <3>2, <2>10, <2>11
      <4>3. Achieved(v, x)
        BY <4>1, <4>2 DEF DocumentsInv, Progress
      <4>4. doc'[x] = doc[x] /\ PendingJobs(x)' = PendingJobs(x) /\ worker'[v] = worker[v]
        BY <3>2, <4>2, <2>6, <2>8, <2>9
      <4> QED BY <4>3, <4>4, <1>2 DEF Achieved, CurrentOr
    <3> QED BY <3>1, <3>2
  <2>16. OverlapsRecorded'
    <3> SUFFICES ASSUME NEW u \in Workers, NEW v \in Workers, u # v, Indexing(u)', Indexing(v)',
                        worker'[u].d = worker'[v].d
                 PROVE  worker'[v].d \in overlapped'
      BY DEF OverlapsRecorded
    <3>1. CASE u # w /\ v # w
      BY <3>1, <2>6, <2>10, <2>12 DEF DocumentsInv, OverlapsRecorded
    <3>2. CASE u = w
      BY <3>2, <2>4, <2>6, <2>11, <2>12
    <3>3. CASE v = w
      BY <3>3, <2>4, <2>6, <2>11, <2>12
    <3> QED BY <3>1, <3>2, <3>3
  <2>17. ASSUME NEW x \in DOMAIN doc'
         PROVE  AtRest(x)'
    <3>1. CASE x = d
      BY <3>1, <2>8 DEF AtRest
    <3>2. CASE x # d
      <4>1. AtRest(x) /\ doc'[x] = doc[x] /\ PendingJobs(x)' = PendingJobs(x)
        BY <3>2, <2>8, <2>9 DEF DocumentsInv
      <4> QED BY <4>1, <1>2, <2>10 DEF AtRest, CurrentOr
    <3> QED BY <3>1, <3>2
  <2>18. DOMAIN index' = Docs
    BY <1>2 DEF DocumentsInv
  <2> QED BY <2>6, <2>13, <2>14, <2>15, <2>16, <2>17, <2>18 DEF DocumentsInv
<1> QED BY <1>3, <1>4

(* A step of an index run on the text index.  Only this run can see it, or *)
(* the document is known to have two.                                      *)
LEMMA IndexStepKeepsInv ==
    ASSUME DocumentsInv, NEW w \in Workers, NEW s, NEW d, Step(w, s), Indexing(w),
           d = worker[w].d, s.d = d, Indexing(w)',
           doc' = doc, jobs' = jobs, lastJob' = lastJob, used' = used, overlapped' = overlapped,
           DOMAIN index' = Docs, \A x \in Docs : x # d => index'[x] = index[x],
           WorkerOK(w)', Progress(w)'
    PROVE  DocumentsInv'
<1>1. /\ DOMAIN worker' = Workers /\ worker'[w] = s
      /\ \A v \in Workers : v # w => worker'[v] = worker[v]
  BY DEF Step, DocumentsInv
<1>2. RowsOK'
  BY DEF DocumentsInv, RowsOK, DocOK, JobOK
<1>3. ASSUME NEW v \in Workers, v # w
      PROVE  WorkerOK(v)' /\ Progress(v)'
  <2>1. worker'[v] = worker[v] /\ WorkerOK(v) /\ Progress(v) /\ (Indexing(v)' <=> Indexing(v))
    BY <1>1, <1>3 DEF DocumentsInv, Indexing
  <2>2. WorkerOK(v)'
    BY <2>1 DEF WorkerOK, Carries
  <2>3. PICK x : x = worker[v].d
    OBVIOUS
  <2>4. ASSUME Indexing(v), x \in DOMAIN doc, x \notin overlapped
        PROVE  Achieved(v, x)'
    <3>1. x # d /\ x \in Docs
      BY <2>3, <2>4, <1>3 DEF DocumentsInv, OverlapsRecorded, RowsOK, DocOK
    <3>2. index'[x] = index[x]
      BY <3>1
    <3>3. Achieved(v, x)
      BY <2>1, <2>3, <2>4 DEF Progress
    <3> QED BY <3>2, <3>3, <2>1 DEF Achieved, CurrentOr, PendingJobs
  <2>5. Progress(v)'
    BY <2>1, <2>3, <2>4 DEF Progress
  <2> QED BY <2>2, <2>5
<1>4. OverlapsRecorded'
  <2>1. \A v \in Workers : (Indexing(v)' <=> Indexing(v)) /\ worker'[v].d = worker[v].d
    BY <1>1 DEF Indexing
  <2> QED BY <2>1 DEF DocumentsInv, OverlapsRecorded
<1>5. ASSUME NEW x \in DOMAIN doc'
      PROVE  AtRest(x)'
  <2>1. AtRest(x) /\ x \in Docs
    BY DEF DocumentsInv, RowsOK, DocOK
  <2>2. CASE x # d
    BY <2>1, <2>2 DEF AtRest, CurrentOr, PendingJobs
  <2>3. CASE x = d
    <3>1. x \notin overlapped => doc[x].st # "indexed"
      BY <2>3 DEF DocumentsInv, Progress, Achieved
    <3> QED BY <3>1 DEF AtRest
  <2> QED BY <2>2, <2>3
<1> QED BY <1>1, <1>2, <1>3, <1>4, <1>5 DEF DocumentsInv

(* A run that gives up its text and goes to its end without success.       *)
LEMMA FailedStepKeepsInv ==
    ASSUME DocumentsInv, NEW w \in Workers, worker[w].pc \in {"clear", "insert"},
           Step(w, Finishing(worker[w], FALSE)),
           doc' = doc, jobs' = jobs, lastJob' = lastJob, used' = used, index' = index,
           overlapped' = overlapped
    PROVE  DocumentsInv'
<1>1. PICK t, s : t = worker[w] /\ s = Finishing(t, FALSE)
  OBVIOUS
<1>2. s.pc = "finish" /\ s.d = t.d /\ s.job = t.job /\ s.ok = FALSE
  BY <1>1 DEF Finishing
<1>3. Step(w, s) /\ worker'[w] = s
  BY <1>1 DEF Step, DocumentsInv
<1>4. Indexing(w) /\ Indexing(w)' /\ WorkerOK(w) /\ Progress(w)
  BY <1>2, <1>3 DEF Indexing, DocumentsInv
<1>5. WorkerOK(w)'
  BY <1>1, <1>2, <1>3, <1>4 DEF WorkerOK, Carries
<1>6. Progress(w)'
  BY <1>1, <1>2, <1>3, <1>4 DEF Progress, Achieved
<1> QED BY <1>1, <1>2, <1>3, <1>4, <1>5, <1>6, QuietStepKeepsInv

LEMMA ClearKeepsInv ==
    ASSUME DocumentsInv, NEW w \in Workers, ClearIndex(w)
    PROVE  DocumentsInv'
<1>1. PICK t, d : t = worker[w] /\ d = t.d
  OBVIOUS
<1>2. /\ doc' = doc /\ jobs' = jobs /\ lastJob' = lastJob /\ used' = used
      /\ overlapped' = overlapped /\ t.pc = "clear"
  BY <1>1 DEF ClearIndex
<1>3. CASE Step(w, Finishing(t, FALSE)) /\ index' = index
  BY <1>1, <1>2, <1>3, FailedStepKeepsInv
<1>4. CASE index' = [index EXCEPT ![d] = {}] /\ Step(w, [t EXCEPT !.pc = "insert"])
  <2>1. PICK s : s = [t EXCEPT !.pc = "insert"]
    OBVIOUS
  <2>2. Indexing(w) /\ WorkerOK(w) /\ Progress(w) /\ DOMAIN t = {"pc", "e", "d", "job", "c"}
    BY <1>1, <1>2 DEF Indexing, DocumentsInv, WorkerOK
  <2>3. /\ s.pc = "insert" /\ s.d = d /\ s.job = t.job /\ s.c = t.c
        /\ DOMAIN s = {"pc", "e", "d", "job", "c"}
    BY <1>1, <2>1, <2>2
  <2>4. Step(w, s) /\ worker'[w] = s
    BY <1>4, <2>1 DEF Step, DocumentsInv
  <2>5. Indexing(w)'
    BY <2>3, <2>4 DEF Indexing
  <2>6. d \in Docs /\ DOMAIN index = Docs
    BY <1>1, <2>2 DEF WorkerOK, Carries, DocumentsInv
  <2>7. DOMAIN index' = Docs /\ index'[d] = {} /\ \A x \in Docs : x # d => index'[x] = index[x]
    BY <1>4, <2>6
  <2>8. WorkerOK(w)'
    BY <1>1, <1>2, <2>2, <2>3, <2>4, <2>5 DEF WorkerOK, Carries
  <2>9. ASSUME d \in DOMAIN doc, d \notin overlapped
        PROVE  Achieved(w, d)'
    <3>1. Achieved(w, d)
      BY <1>1, <2>2, <2>9 DEF Progress
    <3>2. doc[d].st # "indexed" /\ CurrentOr(d, {t.c})
      BY <3>1, <1>1, <1>2 DEF Achieved
    <3> QED BY <3>2, <1>2, <2>3, <2>4, <2>7 DEF Achieved, CurrentOr, PendingJobs
  <2>10. Progress(w)'
    BY <1>2, <2>3, <2>4, <2>9 DEF Progress
  <2> QED BY <1>1, <1>2, <2>2, <2>3, <2>4, <2>5, <2>7, <2>8, <2>10, IndexStepKeepsInv
<1> QED BY <1>1, <1>3, <1>4 DEF ClearIndex

LEMMA InsertKeepsInv ==
    ASSUME DocumentsInv, NEW w \in Workers, InsertText(w)
    PROVE  DocumentsInv'
<1>1. PICK t, d, c : t = worker[w] /\ d = t.d /\ c = t.c
  OBVIOUS
<1>2. /\ doc' = doc /\ jobs' = jobs /\ lastJob' = lastJob /\ used' = used
      /\ overlapped' = overlapped /\ t.pc = "insert"
  BY <1>1 DEF InsertText
<1>3. CASE Step(w, Finishing(t, FALSE)) /\ index' = index
  BY <1>1, <1>2, <1>3, FailedStepKeepsInv
<1>4. CASE /\ index' = [index EXCEPT ![d] = IF @ = {} THEN {c} ELSE @]
           /\ Step(w, Finishing(t, TRUE))
  <2>1. PICK s : s = Finishing(t, TRUE)
    OBVIOUS
  <2>2. Indexing(w) /\ WorkerOK(w) /\ Progress(w)
    BY <1>1, <1>2 DEF Indexing, DocumentsInv
  <2>3. s.pc = "finish" /\ s.d = d /\ s.job = t.job
    BY <1>1, <2>1 DEF Finishing
  <2>4. Step(w, s) /\ worker'[w] = s
    BY <1>4, <2>1 DEF Step, DocumentsInv
  <2>5. Indexing(w)'
    BY <2>3, <2>4 DEF Indexing
  <2>6. d \in Docs /\ DOMAIN index = Docs
    BY <1>1, <2>2 DEF WorkerOK, Carries, DocumentsInv
  <2>7. /\ DOMAIN index' = Docs /\ \A x \in Docs : x # d => index'[x] = index[x]
        /\ index[d] = {} => index'[d] = {c}
    BY <1>4, <2>6
  <2>8. WorkerOK(w)'
    BY <1>1, <1>2, <2>2, <2>3, <2>4, <2>5 DEF WorkerOK, Carries
  <2>9. ASSUME d \in DOMAIN doc, d \notin overlapped
        PROVE  Achieved(w, d)'
    <3>1. Achieved(w, d)
      BY <1>1, <2>2, <2>9 DEF Progress
    <3>2. doc[d].st # "indexed" /\ CurrentOr(d, {c}) /\ index'[d] = {c}
      BY <3>1, <1>1, <1>2, <2>7 DEF Achieved
    <3> QED BY <3>2, <1>2, <2>3, <2>4 DEF Achieved, CurrentOr, PendingJobs
  <2>10. Progress(w)'
    BY <1>2, <2>3, <2>4, <2>9 DEF Progress
  <2> QED BY <1>1, <1>2, <2>2, <2>3, <2>4, <2>5, <2>7, <2>8, <2>10, IndexStepKeepsInv
<1> QED BY <1>1, <1>3, <1>4 DEF InsertText

(* The outcome is written.  The claimed job was not pending, so no job     *)
(* stops waiting by it.                                                    *)
LEMMA FinishKeepsInv ==
    ASSUME DocumentsInv, NEW w \in Workers, FinishIndex(w)
    PROVE  DocumentsInv'
<1>1. PICK t, d, j : t = worker[w] /\ d = t.d /\ j = t.job
  OBVIOUS
<1>2. PICK a, b : a = (IF t.ok THEN "indexed" ELSE "failed") /\ b = (IF t.ok THEN "success" ELSE "failed")
  OBVIOUS
<1>3. /\ t.pc = "finish" /\ lastJob' = lastJob /\ used' = used /\ index' = index
      /\ overlapped' = overlapped /\ Step(w, Idle)
      /\ doc' = [x \in DOMAIN doc |-> IF x = d THEN [doc[x] EXCEPT !.st = a] ELSE doc[x]]
      /\ jobs' = [x \in DOMAIN jobs |-> IF x = j THEN [jobs[x] EXCEPT !.st = b] ELSE jobs[x]]
  BY <1>1, <1>2 DEF FinishIndex, Return
<1>4. b # "pending" /\ (a = "indexed" => t.ok)
  BY <1>2
<1>5. Indexing(w) /\ Carries(w) /\ Progress(w)
  BY <1>1, <1>3 DEF Indexing, DocumentsInv, WorkerOK
<1>6. /\ DOMAIN worker' = Workers /\ worker'[w] = Idle
      /\ \A v \in Workers : v # w => worker'[v] = worker[v]
  BY <1>3 DEF Step, DocumentsInv
<1>7. ~ Indexing(w)' /\ worker'[w].pc = "idle"
  BY <1>6 DEF Indexing, Idle
<1>8. \A v \in Workers : v # w => (Indexing(v)' <=> Indexing(v))
  BY <1>6 DEF Indexing
<1>9. /\ DOMAIN jobs' = DOMAIN jobs
      /\ \A x \in DOMAIN jobs : /\ DOMAIN jobs'[x] = {"doc", "st"} /\ jobs'[x].doc = jobs[x].doc
                                /\ x # j => jobs'[x].st = jobs[x].st
                                /\ x = j => jobs'[x].st # "pending"
  BY <1>3, <1>4 DEF DocumentsInv, RowsOK, JobOK
<1>10. j \in DOMAIN jobs => jobs[j].st # "pending"
  BY <1>1, <1>5 DEF Carries
<1>11. \A x : PendingJobs(x)' = PendingJobs(x)
  BY <1>9, <1>10 DEF PendingJobs
<1>12. /\ DOMAIN doc' = DOMAIN doc
       /\ \A x \in DOMAIN doc : /\ DOMAIN doc'[x] = {"kb", "title", "content", "ver", "st"}
                                /\ doc'[x].content = doc[x].content
                                /\ x # d => doc'[x] = doc[x]
                                /\ x = d => doc'[x].st = a
  BY <1>3 DEF DocumentsInv, RowsOK, DocOK
<1>13. RowsOK'
  <2>1. \A x \in DOMAIN doc' : DocOK(x)'
    BY <1>3, <1>12 DEF DocumentsInv, RowsOK, DocOK
  <2>2. \A x \in DOMAIN jobs' : JobOK(x)'
    BY <1>3, <1>9, <1>12 DEF DocumentsInv, RowsOK, JobOK
  <2> QED BY <2>1, <2>2, <1>3 DEF DocumentsInv, RowsOK
<1>14. ASSUME NEW v \in Workers
       PROVE  WorkerOK(v)' /\ Progress(v)'
  <2>1. CASE v = w
    BY <2>1, <1>7 DEF WorkerOK, Progress
  <2>2. CASE v # w
    <3>1. worker'[v] = worker[v] /\ WorkerOK(v) /\ Progress(v) /\ (Indexing(v)' <=> Indexing(v))
      BY <2>2, <1>6, <1>8 DEF DocumentsInv
    <3>2. Carries(v) => Carries(v)'
      BY <3>1, <1>3, <1>9 DEF Carries
    <3>3. WorkerOK(v)'
      BY <3>1, <3>2 DEF WorkerOK
    <3>4. PICK x : x = worker[v].d
      OBVIOUS
    <3>5. ASSUME Indexing(v), x \in DOMAIN doc, x \notin overlapped
          PROVE  Achieved(v, x)'
      <4>1. x # d
        BY <3>4, <3>5, <2>2, <1>1, <1>5 DEF DocumentsInv, OverlapsRecorded
      <4>2. Achieved(v, x)
        BY <3>1, <3>4, <3>5 DEF Progress
      <4>3. doc'[x] = doc[x] /\ PendingJobs(x)' = PendingJobs(x)
        BY <3>5, <4>1, <1>11, <1>12
      <4> QED BY <4>2, <4>3, <3>1, <1>3 DEF Achieved, CurrentOr
    <3>6. Progress(v)'
      BY <3>1, <3>4, <3>5, <1>3, <1>12 DEF Progress
    <3> QED BY <3>3, <3>6
  <2> QED BY <2>1, <2>2
<1>15. OverlapsRecorded'
  BY <1>3, <1>6, <1>7, <1>8 DEF DocumentsInv, OverlapsRecorded
<1>16. ASSUME NEW x \in DOMAIN doc'
       PROVE  AtRest(x)'
  <2>1. AtRest(x) /\ doc'[x].content = doc[x].content /\ PendingJobs(x)' = PendingJobs(x)
    BY <1>11, <1>12 DEF DocumentsInv
  <2>2. CASE x # d
    BY <2>1, <2>2, <1>3, <1>12 DEF AtRest, CurrentOr
  <2>3. CASE x = d
    <3>1. ASSUME x \notin overlapped, t.ok
          PROVE  CurrentOr(x, index[x])
      BY <2>3, <3>1, <1>1, <1>3, <1>5, <1>12 DEF Progress, Achieved
    <3>2. doc'[x].st = "indexed" => t.ok
      BY <2>3, <1>4, <1>12
    <3> QED BY <2>1, <3>1, <3>2, <1>3 DEF AtRest, CurrentOr
  <2> QED BY <2>2, <2>3
<1>17. DOMAIN index' = Docs
  BY <1>3 DEF DocumentsInv
<1> QED BY <1>6, <1>13, <1>14, <1>15, <1>16, <1>17 DEF DocumentsInv

-----------------------------------------------------------------------------
LEMMA DocumentsInitially == DocumentsInit => DocumentsInv
<1> SUFFICES ASSUME DocumentsInit
             PROVE  DocumentsInv
  OBVIOUS
<1>1. /\ DOMAIN doc = {} /\ DOMAIN jobs = {} /\ lastJob = 0
      /\ DOMAIN worker = Workers /\ DOMAIN index = Docs
  BY DEF DocumentsInit
<1>2. \A w \in Workers : worker[w].pc = "idle" /\ ~ Indexing(w)
  BY DEF DocumentsInit, Idle, Indexing
<1> QED BY <1>1, <1>2 DEF DocumentsInv, RowsOK, WorkerOK, Progress, OverlapsRecorded

LEMMA DocumentsInvKept == DocumentsInv /\ [DocumentsNext]_docVars => DocumentsInv'
<1> SUFFICES ASSUME DocumentsInv, [DocumentsNext]_docVars
             PROVE  DocumentsInv'
  OBVIOUS
<1>1. ASSUME NEW u \in Users, Administer(u) \/ \E r \in Requests : Ask(r, u)
      PROVE  DocumentsInv'
  BY <1>1, AdministerKeepsInv, AskKeepsInv
<1>2. ASSUME NEW r \in Requests, Commits(r) \/ SubmitDocumentIndex(r)
      PROVE  DocumentsInv'
  BY <1>2, CommitsKeepInv
<1>3. ASSUME NEW w \in Workers, WorkerStep(w)
      PROVE  DocumentsInv'
  BY <1>3, TakeKeepsInv, ReadKeepsInv, ClaimKeepsInv, SnapshotKeepsInv, ClearKeepsInv,
     InsertKeepsInv, FinishKeepsInv DEF WorkerStep
<1>4. ASSUME NEW w \in Workers, WorkerDies(w)
      PROVE  DocumentsInv'
  BY <1>4, IdleKeepsInv DEF WorkerDies
<1>5. CASE UNCHANGED docVars
  BY <1>5, RowsUntouched DEF docVars
<1> QED BY <1>1, <1>2, <1>3, <1>4, <1>5 DEF DocumentsNext

LEMMA DocumentsInvariant == DocumentsSpec => []DocumentsInv
<1> QED BY DocumentsInitially, DocumentsInvKept, PTL DEF DocumentsSpec

(* No index job is in the hands of two workers.  The later of two claims   *)
(* would have needed the job pending, and a claimed job never is again,    *)
(* whoever dies.  DocumentsInv does not imply it, so it is carried along   *)
(* with it.                                                                *)
JobsClaimed == DocumentsInv /\ OneIndexerPerJob

LEMMA JobsClaimedKept == JobsClaimed /\ [DocumentsNext]_docVars => JobsClaimed'
<1> SUFFICES ASSUME DocumentsInv, OneIndexerPerJob, [DocumentsNext]_docVars
             PROVE  OneIndexerPerJob'
  BY DocumentsInvKept DEF JobsClaimed
<1>1. CASE worker' = worker
  BY <1>1 DEF OneIndexerPerJob, Indexing
<1>2. ASSUME NEW w \in Workers, WorkerStep(w) \/ WorkerDies(w)
      PROVE  OneIndexerPerJob'
  <2>1. DOMAIN worker' = Workers /\ \A v \in Workers : v # w => worker'[v] = worker[v]
    BY <1>2 DEF DocumentsInv, WorkerStep, WorkerDies, TakeEntry, ReadCandidate, ClaimJob, Snapshot,
                ClearIndex, InsertText, FinishIndex, Return, Step
  <2>2. \A v \in Workers : v # w => (Indexing(v)' <=> Indexing(v))
    BY <2>1 DEF Indexing
  <2>3. CASE ~ Indexing(w)'
    BY <2>1, <2>2, <2>3 DEF OneIndexerPerJob
  <2>4. CASE Indexing(w) /\ worker'[w].job = worker[w].job
    BY <2>1, <2>2, <2>4 DEF OneIndexerPerJob
  <2>5. CASE ClaimJob(w) /\ Indexing(w)'
    <3>1. PICK t : t = worker[w]
      OBVIOUS
    <3>2. StillPending(t.job)
      <4>1. CASE ~ StillPending(t.job)
        <5>1. worker'[w] = Idle
          BY <3>1, <4>1, <2>5 DEF ClaimJob, Return, Step, DocumentsInv
        <5> QED BY <5>1, <2>5 DEF Indexing, Idle
      <4> QED BY <4>1
    <3>3. DOMAIN t = {"pc", "e", "d", "job"}
      BY <3>1, <2>5 DEF ClaimJob, DocumentsInv, WorkerOK
    <3>4. worker'[w] = [t EXCEPT !.pc = "claimed"]
      BY <3>1, <3>2, <2>5 DEF ClaimJob, Step, DocumentsInv
    <3>5. worker'[w].job = t.job
      BY <3>3, <3>4
    <3>6. \A v \in Workers : Indexing(v) => worker[v].job # t.job
      BY <3>2 DEF StillPending, DocumentsInv, WorkerOK, Carries
    <3> QED BY <2>1, <2>2, <3>5, <3>6 DEF OneIndexerPerJob
  <2>6. Indexing(w)' => ClaimJob(w) \/ (Indexing(w) /\ worker'[w].job = worker[w].job)
    <3> SUFFICES ASSUME Indexing(w)', ~ ClaimJob(w)
                 PROVE  Indexing(w) /\ worker'[w].job = worker[w].job
      OBVIOUS
    <3>1. \A s : Step(w, s) => worker'[w] = s
      BY DEF Step, DocumentsInv
    <3>2. worker'[w] # Idle
      BY DEF Indexing, Idle
    <3>3. ASSUME NEW e, TakeEntry(w, e)
          PROVE  FALSE
      <4>1. worker'[w] = [pc |-> "start", e |-> e]
        BY <3>1, <3>3 DEF TakeEntry
      <4> QED BY <4>1 DEF Indexing
    <3>4. CASE ReadCandidate(w)
      <4>1. worker'[w].pc = "read"
        BY <3>1, <3>2, <3>4 DEF ReadCandidate, Return
      <4> QED BY <4>1 DEF Indexing
    <3>5. CASE Snapshot(w)
      <4>1. worker[w].pc = "claimed" /\ worker'[w].job = worker[w].job
        BY <3>1, <3>2, <3>5 DEF Snapshot
      <4> QED BY <4>1 DEF Indexing
    <3>6. CASE ClearIndex(w) \/ InsertText(w)
      <4>1. worker[w].pc \in {"clear", "insert"} /\ DOMAIN worker[w] = {"pc", "e", "d", "job", "c"}
        BY <3>6 DEF ClearIndex, InsertText, DocumentsInv, WorkerOK
      <4>2. \/ worker'[w] = [worker[w] EXCEPT !.pc = "insert"]
            \/ \E ok : worker'[w] = Finishing(worker[w], ok)
        BY <3>1, <3>6 DEF ClearIndex, InsertText
      <4>3. ASSUME worker'[w] = [worker[w] EXCEPT !.pc = "insert"]
            PROVE  worker'[w].job = worker[w].job
        BY <4>1, <4>3
      <4>4. ASSUME NEW ok, worker'[w] = Finishing(worker[w], ok)
            PROVE  worker'[w].job = worker[w].job
        BY <4>4 DEF Finishing
      <4> QED BY <4>1, <4>2, <4>3, <4>4 DEF Indexing
    <3>7. ~ FinishIndex(w) /\ ~ WorkerDies(w)
      BY <3>1, <3>2 DEF FinishIndex, WorkerDies, Return
    <3> QED BY <1>2, <3>3, <3>4, <3>5, <3>6, <3>7 DEF WorkerStep
  <2> QED BY <2>3, <2>4, <2>5, <2>6
<1>3. worker' = worker \/ \E w \in Workers : WorkerStep(w) \/ WorkerDies(w)
  <2>1. ASSUME NEW u \in Users, Administer(u) PROVE worker' = worker
    BY <2>1 DEF Administer, CreateKnowledgeBase, DeleteKnowledgeBase, UpdateDocument,
                DeleteDocument, GenerateFaqDraft
  <2>2. ASSUME NEW r \in Requests, NEW u \in Users, Ask(r, u) PROVE worker' = worker
    BY <2>2 DEF Ask, UploadRead, CreateIndexJob, ReviewRead
  <2>3. ASSUME NEW r \in Requests, Commits(r) PROVE worker' = worker
    BY <2>3 DEF Commits, ReplaceCommit, CreateCommit, ApproveCommit, RejectCommit
  <2>4. ASSUME NEW r \in Requests, SubmitDocumentIndex(r) PROVE worker' = worker
    BY <2>4 DEF SubmitDocumentIndex
  <2> QED BY <2>1, <2>2, <2>3, <2>4 DEF DocumentsNext, docVars
<1> QED BY <1>1, <1>2, <1>3

(* Exactly one worker moves a pending index job on, with any number of     *)
(* workers, durable entries and deaths.                                    *)
THEOREM JobsHaveOneIndexer == DocumentsSpec => []OneIndexerPerJob
<1>1. DocumentsInit => JobsClaimed
  <2> SUFFICES ASSUME DocumentsInit
               PROVE  JobsClaimed
    OBVIOUS
  <2>1. \A w \in Workers : ~ Indexing(w)
    BY DEF DocumentsInit, Idle, Indexing
  <2> QED BY <2>1, DocumentsInitially DEF JobsClaimed, OneIndexerPerJob
<1>2. JobsClaimed => OneIndexerPerJob
  BY DEF JobsClaimed
<1> QED BY <1>1, <1>2, JobsClaimedKept, PTL DEF DocumentsSpec

(* A document that says "indexed", with no job waiting and no run in       *)
(* flight, is in the text index with its current text and nothing else,    *)
(* whatever was uploaded, re-indexed, deleted or died in between; the      *)
(* exception is a document two index runs were in flight for at once.      *)
THEOREM IndexStaysCurrent == DocumentsSpec => []IndexedIsCurrent
<1>1. DocumentsInv => IndexedIsCurrent
  BY DEF DocumentsInv, AtRest, CurrentOr, IndexedIsCurrent, Settled
<1> QED BY <1>1, DocumentsInvariant, PTL

-----------------------------------------------------------------------------
(* Materials: the inductive invariant.                                     *)

(* Deletions come between calls, and sweeps too.                           *)
Exclusive == DeleteOverlaps = FALSE /\ SweepOverlaps = FALSE

(* The rows of the versions: what was found clean has its object row and a *)
(* live status, and what does not exist has nothing.                       *)
VersionsOK ==
    \A v \in Versions :
        /\ version[v].status = "none" => version[v] = NoVersion /\ manifest[v].state = "none"
        /\ version[v].scan = "clean" => version[v].object /\ v \in LiveVersions

(* A retrievable manifest was verified, of a clean version whose bytes and *)
(* chunks are there; and there is at most one.                             *)
ManifestsOK ==
    /\ \A v \in Retrievable :
          /\ manifest[v].state = "retained" /\ manifest[v].verified
          /\ version[v].scan = "clean"
          /\ v \in lost \/ (v \in bytes /\ vectors[v].held = "all")
    /\ \A v, w \in Retrievable : v = w

(* The newest version, once its bytes are recorded, is clean, unless it    *)
(* waits for its scan, did not pass it, or goes with the material.         *)
NewestOK ==
    Existing # {} /\ version[Newest].object =>
        \/ version[Newest].scan = "clean"
        \/ material.status = "error" /\ version[Newest].status = "quarantined"
        \/ material.status = "scanning" /\ call.pc \in {"idle", "drain", "scanning"}
        \/ material.status \in {"deleting", "deleted"}

(* The pointer of the material names an older version while a newer one is *)
(* on its way.                                                             *)
MaterialOK ==
    /\ material.active \in Existing \cup {0}
    /\ material.status \in {"pending_upload", "scanning", "indexing", "error"} /\ Existing # {} =>
          material.active # Newest
    /\ material.status = "available" /\ lost = {} => Retrievable # {}

(* What the running call knows of the version it works on.                 *)
WorksOn == {"verify", "record", "chunks", "upsert", "stage", "count", "activate", "switch",
            "demote", "publish"}

(* The status of the material during a call: the one the step was chosen   *)
(* for, or that of an upload which began meanwhile.                        *)
StageOK ==
    LET status == material.status
    IN  /\ call.pc \in {"pending_upload", "transition", "verify", "record"} =>
              status = "pending_upload"
        /\ call.pc = "scanning" => status \in {"scanning", "pending_upload"}
        /\ call.pc \in {"indexing"} \cup (WorksOn \ {"verify", "record"}) =>
              status \in {"indexing", "pending_upload"}
        /\ call.pc = "park" => status \in {"pending_upload", "scanning", "indexing", "deleting"}
        /\ call.pc \in {"mark", "remove", "confirm"} /\ ~ call.deleting =>
              status \in {"available", "pending_upload"}
        /\ call.deleting =>
              status \in {"pending_upload", IF call.pc = "purge" THEN "deleted" ELSE "deleting"}

IndexCallOK ==
    /\ call.pc \in WorksOn => call.v \in Existing
    /\ call.pc \in {"verify", "record"} => ~ version[call.v].object
    /\ call.pc \in WorksOn \ {"verify", "record"} =>
          version[call.v].scan = "clean" /\ call.prev # call.v
    /\ call.pc \in WorksOn \ {"verify", "record", "chunks"} => call.v \in bytes \cup lost
    /\ call.pc \in {"activate", "switch"} => call.v \in lost \/ vectors[call.v].held = "all"
    /\ call.pc = "switch" =>
          /\ manifest[call.v].state = "retained" /\ manifest[call.v].verified
          /\ call.v \in lost \/ vectors[call.v].flag
          /\ Retrievable \ {call.v} \subseteq {call.old} /\ call.old # call.v
    /\ call.pc = "demote" => call.old \in Versions /\ call.old # call.v
    /\ call.pc \in {"demote", "publish"} => call.v \in Retrievable

(* What it knows of the manifests it deletes.                              *)
DeleteCallOK ==
    /\ call.deleting => call.pc \in {"deleting", "mark", "remove", "confirm", "objects", "finish",
                                     "purge", "park"}
    /\ call.pc \in {"deleting", "objects", "finish", "purge"} => call.deleting
    /\ call.pc \in {"mark", "remove", "confirm"} =>
          /\ call.todo # {} /\ call.todo \subseteq Existing
          /\ IF call.deleting THEN Retrievable \subseteq call.todo
             ELSE Retrievable \cap call.todo = {}
    /\ call.pc \in {"remove", "confirm"} => Max(call.todo) \notin Retrievable
    /\ call.pc \in {"objects", "finish", "purge"} => Retrievable = {}
    /\ call.pc = "purge" => material.active = 0
    /\ withdraw # {} => call.pc = "idle" /\ material.status \in {"deleting", "pending_upload"}

SagaInv ==
    /\ SagaTypeOK
    /\ VersionsOK /\ ManifestsOK /\ NewestOK /\ MaterialOK
    /\ StageOK /\ IndexCallOK /\ DeleteCallOK

(* A sweep: what it has read, and what it means to do about each finding.  *)
SweepRow == [pc : {"idle", "rows", "manifests", "vectors", "pointer", "audit"} \cup Checks,
             repair : BOOLEAN, live : SUBSET Versions, claimed : SUBSET Versions,
             manifests : SUBSET Versions, retrievable : SUBSET Versions,
             served : Versions \cup {0}, todo : SUBSET Keys, at : Keys,
             step : {"record", "repair", "row"}]

Pending == sweep.todo \cup (IF sweep.step = "record" THEN {} ELSE {sweep.at})

FindingOK(k) ==
    /\ k[1] = "orphan_object" => k[2] \notin LiveVersions
    /\ k[1] = "missing_vector" => k[2] \in sweep.retrievable
    /\ k[1] \in {"missing_vector", "missing_chunk"} /\ k[2] \in sweep.retrievable =>
          lost # {} /\ vectors[k[2]].held # "all"
    /\ k[1] = "orphan_vector" => k[2] \notin Retrievable
    /\ k[1] = "version_drift" =>
          /\ material.status \in {"available", "pending_upload"}
          /\ sweep.served \in Existing \cup {0}
          /\ material.status = "pending_upload" => Existing # {} /\ sweep.served # Newest

SweepOK ==
    /\ sweep \in SweepRow
    /\ sweep.pc \notin Checks => sweep.todo = {} /\ sweep.step = "record"
    /\ sweep.pc # "idle" =>
          /\ call.pc = "idle" /\ withdraw = {}
          /\ sweep.pc = "rows" => ClaimedObjects \subseteq sweep.claimed
          /\ sweep.pc = "vectors" => /\ sweep.retrievable \subseteq Retrievable
                                     /\ Retrievable \subseteq sweep.manifests
          /\ sweep.step = "repair" => Repairable(sweep.at)
          /\ \A k \in Pending : FindingOK(k)

StorageInv == SagaInv /\ SweepOK

LEMMA NewestFacts ==
    ASSUME Existing # {}
    PROVE  Newest \in Existing /\ Newest \in Versions /\ \A v \in Existing : v <= Newest
<1>1. Existing \in SUBSET (1 .. MaxVersions) /\ MaxVersions \in Nat
  BY SagaAssumption DEF Existing, Versions
<1> QED BY <1>1, MaxIsThere DEF Newest, Versions

(* The idle call, and a call that goes to another step.                    *)
LEMMA IdleCallFacts ==
    /\ IdleCall \in Call /\ IdleCall.pc = "idle" /\ ~ IdleCall.deleting
    /\ \A p \in Points : /\ [IdleCall EXCEPT !.pc = p] \in Call
                         /\ [IdleCall EXCEPT !.pc = p].pc = p
                         /\ ~ [IdleCall EXCEPT !.pc = p].deleting
BY DEF IdleCall, Call, Points

LEMMA GoToFacts ==
    ASSUME call \in Call, NEW p \in Points, GoTo(p)
    PROVE  /\ call' \in Call /\ call'.pc = p
           /\ call'.v = call.v /\ call'.prev = call.prev /\ call'.old = call.old
           /\ call'.todo = call.todo /\ call'.objects = call.objects
           /\ call'.deleting = call.deleting
BY DEF GoTo, Call

MaterialRow == [status : MaterialStatuses \cup {"none"}, active : Versions \cup {0},
                attempts : 0 .. MaxAttempts]

LEMMA MoveMaterialFacts ==
    ASSUME NEW s \in MaterialStatuses, NEW a \in Versions \cup {0}, MoveMaterial(s, a)
    PROVE  material' \in MaterialRow /\ material'.status = s /\ material'.active = a
BY SagaAssumption DEF MoveMaterial, MaterialRow

StoresKept == UNCHANGED <<version, manifest, bytes, vectors, lost>>

LEMMA StoresKeptFacts ==
    ASSUME StoresKept
    PROVE  /\ Existing' = Existing /\ Newest' = Newest /\ Retrievable' = Retrievable
           /\ LiveVersions' = LiveVersions
           /\ VersionsOK => VersionsOK'
           /\ ManifestsOK => ManifestsOK'
BY DEF StoresKept, Existing, Newest, Retrievable, LiveVersions, VersionsOK, ManifestsOK

(* Steps that leave the stores alone.                                      *)
LEMMA StoresKeptInv ==
    ASSUME SagaInv, StoresKept, material' \in MaterialRow, call' \in Call,
           withdraw' \in SUBSET Versions, faults' \in 0 .. MaxFaults,
           NewestOK', MaterialOK', StageOK', IndexCallOK', DeleteCallOK'
    PROVE  SagaInv'
<1>1. SagaTypeOK'
  BY DEF SagaInv, SagaTypeOK, StoresKept, MaterialRow
<1> QED BY <1>1, StoresKeptFacts DEF SagaInv

(* A call ends, for whatever reason.                                       *)
LEMMA EndKeeps ==
    ASSUME SagaInv, StoresKept, material' = material, withdraw' = withdraw,
           faults' \in 0 .. MaxFaults, EndCall
    PROVE  SagaInv'
<1> USE DEF SagaInv
<1>1. /\ Existing' = Existing /\ Newest' = Newest /\ Retrievable' = Retrievable
      /\ version' = version /\ lost' = lost
  BY StoresKeptFacts DEF StoresKept
<1>2. call' = IdleCall /\ call' \in Call /\ call'.pc = "idle" /\ ~ call'.deleting
  BY IdleCallFacts DEF EndCall
<1>3. NewestOK'
  BY <1>1, <1>2 DEF NewestOK
<1>4. MaterialOK'
  BY <1>1 DEF MaterialOK
<1>5. StageOK'
  BY <1>2 DEF StageOK, WorksOn
<1>6. IndexCallOK'
  BY <1>2 DEF IndexCallOK, WorksOn
<1>7. DeleteCallOK'
  BY <1>2 DEF DeleteCallOK
<1> QED
  BY <1>2, <1>3, <1>4, <1>5, <1>6, <1>7, StoresKeptInv DEF SagaTypeOK, MaterialRow

(* Steps of the call that only read.                                       *)
LEMMA AdvanceKeeps ==
    ASSUME SagaInv, Exclusive, Advance
    PROVE  SagaInv'
<1> USE DEF SagaInv
<1>0. StoresKept /\ material' = material /\ withdraw' = withdraw /\ faults' = faults
      /\ withdraw = {} /\ call.pc \in {"idle", "drain"}
  BY DEF Advance, StoresKept, Alone, Exclusive
<1>1. /\ Existing' = Existing /\ Newest' = Newest /\ Retrievable' = Retrievable
      /\ version' = version /\ lost' = lost
  BY <1>0, StoresKeptFacts DEF StoresKept
<1>a. CASE EndCall
  BY <1>0, <1>a, EndKeeps DEF SagaTypeOK
<1>b. CASE /\ material.status \in {"pending_upload", "scanning", "indexing", "deleting"}
           /\ call' = [IdleCall EXCEPT !.pc = material.status,
                                       !.deleting = material.status = "deleting"]
  <2>1. /\ call' \in Call /\ call'.pc = material.status
        /\ call'.deleting = (material.status = "deleting")
    BY <1>b DEF IdleCall, Call, Points
  <2>2. NewestOK'
    BY <1>0, <1>1, <1>b, <2>1 DEF NewestOK
  <2>3. MaterialOK'
    BY <1>0, <1>1 DEF MaterialOK
  <2>4. StageOK'
    BY <1>0, <1>b, <2>1 DEF StageOK, WorksOn
  <2>5. IndexCallOK'
    BY <1>b, <2>1 DEF IndexCallOK, WorksOn
  <2>6. DeleteCallOK'
    BY <1>0, <1>b, <2>1 DEF DeleteCallOK
  <2> QED
    BY <1>0, <2>1, <2>2, <2>3, <2>4, <2>5, <2>6, StoresKeptInv DEF SagaTypeOK, MaterialRow
<1> QED BY <1>a, <1>b DEF Advance

LEMMA ReadingKeeps ==
    ASSUME SagaInv,
           \/ NoVersions \/ StepVerifyLoad \/ VerifyUpload \/ StepIndexLoad
           \/ LoadChunks \/ StepDeleteLoad
    PROVE  SagaInv'
<1> USE DEF SagaInv
<1>0. StoresKept /\ material' = material /\ withdraw' = withdraw /\ faults' = faults
  BY DEF StoresKept, NoVersions, StepVerifyLoad, VerifyUpload, StepIndexLoad,
         LoadChunks, StepDeleteLoad
<1>1. /\ Existing' = Existing /\ Newest' = Newest /\ Retrievable' = Retrievable
      /\ version' = version /\ lost' = lost /\ bytes' = bytes
      /\ MaterialOK' /\ call \in Call
  <2>1. /\ Existing' = Existing /\ Newest' = Newest /\ Retrievable' = Retrievable
    BY <1>0, StoresKeptFacts
  <2> QED BY <1>0, <2>1 DEF MaterialOK, StoresKept, SagaTypeOK
<1>2. ASSUME call' \in Call, NewestOK', StageOK', IndexCallOK', DeleteCallOK'
      PROVE  SagaInv'
  BY <1>0, <1>1, <1>2, StoresKeptInv DEF SagaTypeOK, MaterialRow
<1>3. CASE NoVersions
  BY <1>0, <1>3, EndKeeps DEF SagaTypeOK, NoVersions
<1>4. CASE StepVerifyLoad
  <2>1. /\ call' \in Call /\ call'.v = Newest /\ call'.deleting = call.deleting
        /\ call'.pc = IF version[Newest].object THEN "transition" ELSE "verify"
        /\ Existing # {} /\ Newest \in Existing /\ call.pc = "pending_upload"
    BY <1>1, <1>4, NewestFacts DEF StepVerifyLoad, Call, Points
  <2>2. NewestOK'
    BY <1>0, <1>1, <2>1 DEF NewestOK, StageOK
  <2>3. StageOK'
    BY <1>0, <2>1 DEF StageOK, WorksOn
  <2>4. IndexCallOK'
    BY <1>1, <2>1 DEF IndexCallOK, WorksOn
  <2>5. DeleteCallOK'
    BY <1>0, <2>1 DEF DeleteCallOK
  <2> QED BY <1>2, <2>1, <2>2, <2>3, <2>4, <2>5
<1>5. CASE VerifyUpload
  <2>1. /\ call' \in Call /\ call'.v = call.v /\ call'.deleting = call.deleting
        /\ call'.pc \in {"record", "park"} /\ call.pc = "verify"
    BY <1>1, <1>5, GoToFacts DEF VerifyUpload, Points
  <2>2. NewestOK'
    BY <1>0, <1>1, <2>1 DEF NewestOK, StageOK
  <2>3. StageOK'
    BY <1>0, <2>1 DEF StageOK, WorksOn
  <2>4. IndexCallOK'
    BY <1>1, <2>1 DEF IndexCallOK, WorksOn
  <2>5. DeleteCallOK'
    BY <1>0, <2>1 DEF DeleteCallOK
  <2> QED BY <1>2, <2>1, <2>2, <2>3, <2>4, <2>5
<1>6. CASE StepIndexLoad
  <2>1. /\ call' \in Call /\ call'.v = Newest /\ call'.deleting = call.deleting
        /\ call'.prev = material.active
        /\ call'.pc = IF version[Newest].object THEN "chunks" ELSE "park"
        /\ Existing # {} /\ Newest \in Existing /\ call.pc = "indexing"
    BY <1>1, <1>6, NewestFacts DEF StepIndexLoad, Call, Points, SagaTypeOK
  <2>2. material.status \in {"indexing", "pending_upload"} /\ material.active # Newest
    BY <2>1 DEF StageOK, MaterialOK
  <2>3. NewestOK' /\ (version[Newest].object => version[Newest].scan = "clean")
    BY <1>0, <1>1, <2>1, <2>2 DEF NewestOK
  <2>4. StageOK'
    BY <1>0, <2>1, <2>2 DEF StageOK, WorksOn
  <2>5. IndexCallOK'
    BY <1>1, <2>1, <2>2, <2>3 DEF IndexCallOK, WorksOn
  <2>6. DeleteCallOK'
    BY <1>0, <2>1 DEF DeleteCallOK
  <2> QED BY <1>2, <2>1, <2>3, <2>4, <2>5, <2>6
<1>7. CASE LoadChunks
  <2>1. /\ call' \in Call /\ call'.v = call.v /\ call'.deleting = call.deleting
        /\ call'.prev = call.prev
        /\ call'.pc \in {"upsert", "park"} /\ call.pc = "chunks"
        /\ call'.pc = "upsert" => call.v \in bytes
    BY <1>1, <1>7, GoToFacts DEF LoadChunks, Points, Readable
  <2>2. NewestOK'
    BY <1>0, <1>1, <2>1 DEF NewestOK, StageOK, WorksOn
  <2>3. StageOK'
    BY <1>0, <2>1 DEF StageOK, WorksOn
  <2>4. IndexCallOK'
    BY <1>1, <2>1 DEF IndexCallOK, WorksOn
  <2>5. DeleteCallOK'
    BY <1>0, <2>1 DEF DeleteCallOK
  <2> QED BY <1>2, <2>1, <2>2, <2>3, <2>4, <2>5
<1>8. CASE StepDeleteLoad
  <2> DEFINE live == {m \in Versions : manifest[m].state \in {"retained", "deleting"}}
  <2>0. Retrievable \subseteq live /\ live \in SUBSET Versions /\ live \subseteq Existing
    BY DEF ManifestsOK, Retrievable, VersionsOK, Existing
  <2>1. /\ call' \in Call /\ call'.deleting = call.deleting /\ call'.todo = live
        /\ call'.pc = IF live = {} THEN "objects" ELSE "mark"
        /\ call.pc = "deleting"
    BY <1>1, <1>8, <2>0 DEF StepDeleteLoad, Call, Points, Existing
  <2> HIDE DEF live
  <2>2. NewestOK'
    BY <1>0, <1>1, <2>1 DEF NewestOK, StageOK, DeleteCallOK
  <2>3. StageOK'
    BY <1>0, <2>1 DEF StageOK, WorksOn, DeleteCallOK
  <2>4. IndexCallOK'
    BY <1>1, <2>1 DEF IndexCallOK, WorksOn
  <2>5. DeleteCallOK'
    BY <1>0, <1>1, <2>0, <2>1 DEF DeleteCallOK
  <2> QED BY <1>2, <2>1, <2>2, <2>3, <2>4, <2>5
<1> QED BY <1>3, <1>4, <1>5, <1>6, <1>7, <1>8

(* Steps that move the material's row only.                                *)
LEMMA MovingKeeps ==
    ASSUME SagaInv, Exclusive,
           FinishDelete \/ Park \/ RequestDelete \/ WithdrawLost \/ Recover \/ Crash
    PROVE  SagaInv'
<1> USE DEF SagaInv
<1>0. StoresKept /\ faults' \in 0 .. MaxFaults /\ material \in MaterialRow /\ call \in Call
      /\ withdraw \in SUBSET Versions
  BY SagaAssumption
     DEF StoresKept, FinishDelete, Park, RequestDelete, WithdrawLost, Recover, Crash,
         SagaTypeOK, MaterialRow
<1>1. /\ Existing' = Existing /\ Newest' = Newest /\ Retrievable' = Retrievable
      /\ version' = version /\ lost' = lost /\ bytes' = bytes
      /\ manifest' = manifest /\ vectors' = vectors
  BY <1>0, StoresKeptFacts DEF StoresKept
<1>3. CASE FinishDelete
  <2>1. /\ call' \in Call /\ call'.v = call.v /\ call'.deleting = call.deleting
        /\ call'.pc = "purge" /\ call.pc = "finish"
        /\ material' \in MaterialRow /\ material'.status = "deleted" /\ material'.active = 0
        /\ withdraw' = withdraw
    BY <1>0, <1>3, GoToFacts, MoveMaterialFacts DEF FinishDelete, Points, MaterialStatuses
  <2>2. NewestOK'
    BY <2>1 DEF NewestOK
  <2>3. MaterialOK'
    BY <2>1 DEF MaterialOK
  <2>4. StageOK'
    BY <2>1 DEF StageOK, WorksOn
  <2>5. IndexCallOK'
    BY <2>1 DEF IndexCallOK, WorksOn
  <2>6. DeleteCallOK'
    BY <1>1, <2>1 DEF DeleteCallOK
  <2> QED BY <1>0, <2>1, <2>2, <2>3, <2>4, <2>5, <2>6, StoresKeptInv
<1>4. CASE Park
  <2>1. /\ call' \in Call /\ call'.pc = "idle" /\ ~ call'.deleting /\ call.pc = "park"
        /\ material' \in MaterialRow /\ material'.active = material.active
        /\ withdraw' = withdraw
        /\ \/ material'.status = material.status
           \/ material'.status = "error" /\ material.status # "deleting"
    <3> DEFINE count == IF material.attempts + 1 > MaxAttempts THEN material.attempts
                        ELSE material.attempts + 1
               state == IF Exhausted(material.attempts + 1) THEN "error" ELSE material.status
    <3>1. material' = [material EXCEPT !.attempts = count, !.status = state]
      BY <1>4 DEF Park
    <3>2. count \in 0 .. MaxAttempts
      BY <1>0, SagaAssumption DEF MaterialRow
    <3>3. state = material.status \/ (state = "error" /\ material.status # "deleting")
      BY DEF Exhausted
    <3>4. state \in MaterialStatuses \cup {"none"}
      BY <1>0, <3>3 DEF MaterialRow, MaterialStatuses
    <3> HIDE DEF count, state
    <3>5. material' \in MaterialRow /\ material'.active = material.active /\ material'.status = state
      BY <1>0, <3>1, <3>2, <3>4 DEF MaterialRow
    <3> QED BY <1>0, <1>4, <3>3, <3>5, IdleCallFacts DEF Park, EndCall
  <2>2. NewestOK'
    BY <1>1, <2>1 DEF NewestOK, StageOK
  <2>3. MaterialOK'
    BY <1>1, <2>1 DEF MaterialOK, StageOK
  <2>4. StageOK'
    BY <2>1 DEF StageOK, WorksOn
  <2>5. IndexCallOK'
    BY <2>1 DEF IndexCallOK, WorksOn
  <2>6. DeleteCallOK'
    BY <1>1, <2>1 DEF DeleteCallOK
  <2> QED BY <1>0, <2>1, <2>2, <2>3, <2>4, <2>5, <2>6, StoresKeptInv
<1>5. CASE RequestDelete
  <2>1. /\ call' = call /\ call.pc = "idle"
        /\ material' \in MaterialRow /\ material'.status = "deleting" /\ material'.active = 0
        /\ withdraw' \in SUBSET Versions
    BY <1>0, <1>5, MoveMaterialFacts
       DEF RequestDelete, MaterialStatuses, Exclusive, Retrievable
  <2>2. NewestOK'
    BY <2>1 DEF NewestOK
  <2>3. MaterialOK'
    BY <2>1 DEF MaterialOK
  <2>4. StageOK'
    BY <2>1 DEF StageOK, WorksOn, DeleteCallOK
  <2>5. IndexCallOK'
    BY <2>1 DEF IndexCallOK, WorksOn
  <2>6. DeleteCallOK'
    BY <1>1, <2>1 DEF DeleteCallOK
  <2> QED BY <1>0, <2>1, <2>2, <2>3, <2>4, <2>5, <2>6, StoresKeptInv
<1>6. CASE WithdrawLost
  <2>1. call' = call /\ material' = material /\ withdraw' = {}
    BY <1>6 DEF WithdrawLost
  <2>2. NewestOK' /\ MaterialOK' /\ StageOK' /\ IndexCallOK' /\ DeleteCallOK'
    BY <1>1, <2>1 DEF NewestOK, MaterialOK, StageOK, IndexCallOK, DeleteCallOK
  <2> QED BY <1>0, <2>1, <2>2, StoresKeptInv
<1>7. CASE Recover
  <2>1. /\ call' = call /\ call.pc = "idle" /\ withdraw' = withdraw /\ withdraw = {}
        /\ material' \in MaterialRow /\ material'.active = material.active
        /\ material.status = "error" /\ version[Newest].status # "quarantined" /\ Existing # {}
        /\ material'.status = ResumeStatus
    BY <1>0, <1>7, MoveMaterialFacts
       DEF Recover, ResumeStatus, MaterialStatuses, Exclusive, Alone, MaterialRow
  <2>2. /\ material'.status \in {"available", "indexing", "pending_upload"}
        /\ material'.status = "available" => Retrievable # {}
    BY <2>1 DEF ResumeStatus, ResolveScope
  <2>3. NewestOK'
    BY <1>1, <2>1, <2>2 DEF NewestOK
  <2>4. MaterialOK'
    BY <1>1, <2>1, <2>2 DEF MaterialOK
  <2>5. StageOK'
    BY <2>1 DEF StageOK, WorksOn, DeleteCallOK
  <2>6. IndexCallOK'
    BY <2>1 DEF IndexCallOK, WorksOn
  <2>7. DeleteCallOK'
    BY <1>1, <2>1 DEF DeleteCallOK
  <2> QED BY <1>0, <2>1, <2>3, <2>4, <2>5, <2>6, <2>7, StoresKeptInv
<1>8. CASE Crash
  BY <1>0, <1>8, EndKeeps DEF Crash
<1> QED BY <1>3, <1>4, <1>5, <1>6, <1>7, <1>8

-----------------------------------------------------------------------------
(* Steps that write version rows.                                          *)

(* The other stores, and which version is the newest, stay as they are.    *)
LEMMA SameVersions ==
    ASSUME \A v \in Versions : version'[v].status = "none" <=> version[v].status = "none"
    PROVE  Existing' = Existing /\ Newest' = Newest
<1>1. Existing' = Existing
  BY DEF Existing
<1> QED BY <1>1 DEF Newest

LEMMA SameManifests ==
    ASSUME manifest' = manifest
    PROVE  Retrievable' = Retrievable
BY DEF Retrievable

LEMMA BeginUploadKeeps ==
    ASSUME SagaInv, BeginUpload
    PROVE  /\ SagaInv' /\ LiveVersions' = LiveVersions /\ ObjectRows' = ObjectRows
           /\ Existing \subseteq Existing' /\ Existing' # {} /\ Newest' \notin Existing \cup {0}
<1> USE DEF SagaInv
<1> DEFINE n == IF Existing = {} THEN 1 ELSE Newest + 1
<1>0. /\ n \in Versions /\ n \notin Existing
      /\ \A v \in Existing : v < n
  <2>1. CASE Existing = {}
    BY <2>1 DEF BeginUpload
  <2>2. CASE Existing # {}
    <3>1. Newest \in Nat /\ \A v \in Existing : v \in Nat /\ v <= Newest
      BY <2>2, NewestFacts DEF Versions, Existing
    <3> QED BY <2>2, <3>1 DEF BeginUpload
  <2> QED BY <2>1, <2>2
<1>1. /\ version' = [version EXCEPT ![n] = [NoVersion EXCEPT !.status = "staging"]]
      /\ manifest' = manifest /\ bytes' = bytes /\ vectors' = vectors /\ call' = call
      /\ withdraw' = withdraw /\ lost' = lost /\ faults' = faults
      /\ MoveMaterial("pending_upload", material.active)
  BY DEF BeginUpload
<1> HIDE DEF n
<1>2. /\ material' \in MaterialRow /\ material'.status = "pending_upload"
      /\ material'.active = material.active
  BY <1>1, MoveMaterialFacts DEF SagaTypeOK, MaterialStatuses
<1>3. /\ version' \in [Versions -> VersionRow]
      /\ \A v \in Versions \ {n} : version'[v] = version[v]
      /\ version'[n].status = "staging" /\ ~ version'[n].object /\ version'[n].scan = "pending"
  BY <1>0, <1>1 DEF SagaTypeOK, VersionRow, NoVersion, VersionStatuses
<1>4. version[n] = NoVersion /\ manifest[n].state = "none" /\ n \notin Retrievable
  BY <1>0 DEF Existing, VersionsOK, ManifestsOK
<1>5. Existing' = Existing \cup {n}
  BY <1>0, <1>3 DEF Existing
<1>6. Newest' = n
  <2>1. Existing' \in SUBSET (1 .. MaxVersions) /\ MaxVersions \in Nat
    BY SagaAssumption DEF Existing, Versions
  <2>2. Newest' \in Existing' /\ \A v \in Existing' : v <= Newest'
    BY <1>5, <2>1, MaxIsThere DEF Newest
  <2>3. n \in Nat /\ \A v \in Existing : v \in Nat
    BY <1>0 DEF Versions, Existing
  <2> QED BY <1>0, <1>5, <2>2, <2>3
<1>7. Retrievable' = Retrievable
  BY <1>1, SameManifests
<1>8. LiveVersions' = LiveVersions /\ ObjectRows' = ObjectRows
  BY <1>0, <1>3, <1>4 DEF LiveVersions, ObjectRows, LiveVersionStatuses, NoVersion
<1>9. VersionsOK'
  BY <1>1, <1>3, <1>8 DEF VersionsOK
<1>10. ManifestsOK'
  BY <1>1, <1>3, <1>4, <1>7 DEF ManifestsOK, Retrievable
<1>11. NewestOK'
  BY <1>3, <1>6 DEF NewestOK
<1>12. MaterialOK'
  <2>1. n # 0 /\ material.active # n
    BY <1>0 DEF MaterialOK, Versions
  <2> QED BY <1>2, <1>5, <1>6, <2>1 DEF MaterialOK
<1>13. StageOK'
  BY <1>1, <1>2 DEF StageOK, WorksOn
<1>14. IndexCallOK'
  <2>1. call.pc \in WorksOn => call.v \in Versions /\ call.v # n
    BY <1>0 DEF IndexCallOK, Existing
  <2> QED BY <1>1, <1>3, <1>5, <1>7, <2>1 DEF IndexCallOK, WorksOn
<1>15. DeleteCallOK'
  BY <1>1, <1>2, <1>5, <1>7 DEF DeleteCallOK
<1>16. SagaTypeOK'
  BY <1>1, <1>2, <1>3 DEF SagaTypeOK, MaterialRow
<1>17. n # 0
  BY <1>0 DEF Versions
<1> QED
  BY <1>0, <1>5, <1>6, <1>8, <1>9, <1>10, <1>11, <1>12, <1>13, <1>14, <1>15, <1>16, <1>17

VersionsOnly == UNCHANGED <<manifest, bytes, vectors, withdraw, lost, faults>>

(* A write that takes no version away and leaves clean what was clean.     *)
LEMMA VersionsWritten ==
    ASSUME SagaInv, VersionsOnly, version' \in [Versions -> VersionRow],
           \A v \in Versions :
              /\ version'[v].status = "none" <=> version[v].status = "none"
              /\ version'[v].status = "none" => version'[v] = NoVersion
              /\ version[v].scan = "clean" => version'[v].scan = "clean"
              /\ version'[v].scan = "clean" =>
                    version'[v].object /\ version'[v].status \in LiveVersionStatuses
    PROVE  /\ Existing' = Existing /\ Newest' = Newest /\ Retrievable' = Retrievable
           /\ VersionsOK' /\ ManifestsOK'
<1> USE DEF SagaInv, VersionsOnly
<1>1. Existing' = Existing /\ Newest' = Newest /\ Retrievable' = Retrievable
  BY SameVersions, SameManifests
<1>2. VersionsOK'
  BY DEF VersionsOK, LiveVersions
<1>3. ManifestsOK'
  BY <1>1 DEF ManifestsOK, Retrievable
<1> QED BY <1>1, <1>2, <1>3

LEMMA VersionsWrittenInv ==
    ASSUME SagaInv, VersionsOnly, version' \in [Versions -> VersionRow],
           VersionsOK', ManifestsOK', material' \in MaterialRow, call' \in Call,
           NewestOK', MaterialOK', StageOK', IndexCallOK', DeleteCallOK'
    PROVE  SagaInv'
BY DEF SagaInv, SagaTypeOK, VersionsOnly, MaterialRow

LEMMA ScanVerdictKeeps ==
    ASSUME SagaInv, NEW v \in Versions, ScanVerdict(v)
    PROVE  SagaInv' /\ Existing' = Existing /\ Newest' = Newest /\ LiveVersions' = LiveVersions
           /\ ObjectRows' = ObjectRows
<1> USE DEF SagaInv
<1>1. VersionsOnly /\ material' = material /\ call' = call
  BY DEF ScanVerdict, VersionsOnly
<1>2. /\ version' \in [Versions -> VersionRow]
      /\ \A w \in Versions : w # v => version'[w] = version[w]
      /\ version'[v].status = version[v].status /\ version'[v].object = version[v].object
      /\ version[v].object /\ version[v].scan = "pending" /\ version'[v].scan = "infected"
  BY DEF ScanVerdict, SagaTypeOK, VersionRow
<1>3. version[v].status # "none"
  BY <1>2 DEF VersionsOK, NoVersion
<1>4. /\ Existing' = Existing /\ Newest' = Newest /\ Retrievable' = Retrievable
      /\ VersionsOK' /\ ManifestsOK'
  <2>1. \A w \in Versions :
              /\ version'[w].status = "none" <=> version[w].status = "none"
              /\ version'[w].status = "none" => version'[w] = NoVersion
              /\ version[w].scan = "clean" => version'[w].scan = "clean"
              /\ version'[w].scan = "clean" =>
                    version'[w].object /\ version'[w].status \in LiveVersionStatuses
    BY <1>2, <1>3 DEF VersionsOK, LiveVersions
  <2> QED BY <1>1, <1>2, <2>1, VersionsWritten
<1>5. NewestOK'
  <2>1. Existing # {} => Newest \in Versions
    BY NewestFacts
  <2> QED BY <1>1, <1>2, <1>4, <2>1 DEF NewestOK
<1>6. MaterialOK' /\ StageOK'
  BY <1>1, <1>4 DEF MaterialOK, StageOK, VersionsOnly
<1>7. IndexCallOK'
  <2>1. call.pc \in WorksOn => call.v \in Versions
    BY DEF IndexCallOK, Existing
  <2> QED BY <1>1, <1>2, <1>4, <2>1 DEF IndexCallOK, VersionsOnly, WorksOn
<1>8. DeleteCallOK'
  BY <1>1, <1>4 DEF DeleteCallOK, VersionsOnly
<1>9. LiveVersions' = LiveVersions /\ ObjectRows' = ObjectRows
  BY <1>2 DEF LiveVersions, ObjectRows
<1> QED
  BY <1>1, <1>2, <1>4, <1>5, <1>6, <1>7, <1>8, <1>9, VersionsWrittenInv DEF SagaTypeOK, MaterialRow

(* A call that goes on with the next step of the drain.                    *)
LEMMA NextStepFacts ==
    ASSUME NextStep
    PROVE  call' \in Call /\ call'.pc = "drain" /\ ~ call'.deleting
BY IdleCallFacts DEF NextStep, Points

(* The call has set one of the version's fields and moved the material.    *)
LEMMA MovedOn ==
    ASSUME SagaInv, VersionsOnly, NextStep, NEW n \in Versions, n = Newest, Existing # {},
           NEW s \in {"scanning", "indexing", "error"}, MoveMaterial(s, material.active),
           version' \in [Versions -> VersionRow],
           \A w \in Versions : w # n => version'[w] = version[w],
           version'[n].status # "none",
           version[n].scan = "clean" => version'[n].scan = "clean",
           version'[n].scan = "clean" =>
              version'[n].object /\ version'[n].status \in LiveVersionStatuses,
           version'[n].object =>
              \/ version'[n].scan = "clean"
              \/ s = "error" /\ version'[n].status = "quarantined"
              \/ s = "scanning",
           call.pc \in {"transition", "record", "scanning"}, ~ call.deleting, 
           material.active # Newest
    PROVE  SagaInv'
<1> USE DEF SagaInv
<1>0. Newest \in Existing /\ version[n].status # "none" /\ withdraw = {}
  BY NewestFacts DEF Existing, DeleteCallOK
<1>1. /\ Existing' = Existing /\ Newest' = Newest /\ Retrievable' = Retrievable
      /\ VersionsOK' /\ ManifestsOK'
  <2>1. \A w \in Versions :
              /\ version'[w].status = "none" <=> version[w].status = "none"
              /\ version'[w].status = "none" => version'[w] = NoVersion
              /\ version[w].scan = "clean" => version'[w].scan = "clean"
              /\ version'[w].scan = "clean" =>
                    version'[w].object /\ version'[w].status \in LiveVersionStatuses
    BY <1>0 DEF VersionsOK, LiveVersions
  <2> QED BY <2>1, VersionsWritten
<1>2. call' \in Call /\ call'.pc = "drain" /\ ~ call'.deleting
  BY NextStepFacts
<1>3. /\ material' \in MaterialRow /\ material'.status = s
      /\ material'.active = material.active
  BY MoveMaterialFacts DEF SagaTypeOK, MaterialStatuses
<1>4. NewestOK'
  BY <1>1, <1>2, <1>3 DEF NewestOK
<1>5. MaterialOK'
  BY <1>1, <1>3 DEF MaterialOK, VersionsOnly
<1>6. StageOK'
  BY <1>2 DEF StageOK, WorksOn
<1>7. IndexCallOK'
  BY <1>2 DEF IndexCallOK, WorksOn
<1>8. DeleteCallOK'
  BY <1>0, <1>2 DEF DeleteCallOK, VersionsOnly
<1> QED BY <1>1, <1>2, <1>3, <1>4, <1>5, <1>6, <1>7, <1>8, VersionsWrittenInv

(* A step that finds nothing to do parks.                                  *)
LEMMA GoToParkKeeps ==
    ASSUME SagaInv, StoresKept, material' = material, withdraw' = withdraw, faults' = faults,
           GoTo("park"), ~ call.deleting,
           call.pc \in {"record", "scanning", "count", "remove"},
           material.status \in {"pending_upload", "scanning", "indexing"},
           call.pc = "scanning" => Existing # {} /\ ~ version[Newest].object
    PROVE  SagaInv'
<1> USE DEF SagaInv
<1>1. /\ call' \in Call /\ call'.pc = "park" /\ ~ call'.deleting
  BY GoToFacts DEF SagaTypeOK, Points
<1>2. /\ Existing' = Existing /\ Newest' = Newest /\ Retrievable' = Retrievable
      /\ version' = version /\ lost' = lost
  BY StoresKeptFacts DEF StoresKept
<1>3. NewestOK'
  BY <1>1, <1>2 DEF NewestOK, StageOK
<1>4. MaterialOK'
  BY <1>2 DEF MaterialOK
<1>5. StageOK'
  BY <1>1 DEF StageOK, WorksOn
<1>6. IndexCallOK'
  BY <1>1 DEF IndexCallOK, WorksOn
<1>7. DeleteCallOK'
  BY <1>1, <1>2 DEF DeleteCallOK
<1> QED
  BY <1>1, <1>3, <1>4, <1>5, <1>6, <1>7, StoresKeptInv DEF SagaTypeOK, MaterialRow

LEMMA ScanningKeeps ==
    ASSUME SagaInv, Transition \/ RecordObject \/ StepScan
    PROVE  SagaInv'
<1> USE DEF SagaInv
<1>0. /\ Existing # {} /\ Newest \in Versions /\ Newest \in Existing /\ VersionsOnly
      /\ call.pc \in {"transition", "record", "scanning"} /\ ~ call.deleting
      /\ call \in Call /\ version \in [Versions -> VersionRow]
  <2>1. Existing # {}
    BY DEF Transition, RecordObject, StepScan
  <2>2. call.pc \in {"transition", "record", "scanning"} /\ VersionsOnly
    BY DEF Transition, RecordObject, StepScan, VersionsOnly
  <2>3. ~ call.deleting
    BY <2>2 DEF DeleteCallOK
  <2> QED BY <2>1, <2>2, <2>3, NewestFacts DEF SagaTypeOK
<1>1. material.status \in {"pending_upload", "scanning"} /\ material.active # Newest
  BY <1>0 DEF StageOK, MaterialOK
<1>2. Newest \in LiveVersions => version[Newest].status \in LiveVersionStatuses
  BY DEF LiveVersions
<1>3. CASE Transition
  <2>1. AssertTransition(material.status, "scanning") <=> material.status = "pending_upload"
    BY <1>0, <1>1, <1>3 DEF AssertTransition, MaterialSagaTransitions
  <2>2. material.status = "pending_upload"
    BY <1>3 DEF Transition, StageOK
  <2>3. /\ version' = [version EXCEPT ![Newest] = CasVersion(Newest, "scanning")]
        /\ MoveMaterial("scanning", material.active) /\ NextStep
    BY <1>3, <2>1, <2>2 DEF Transition
  <2>4. /\ version' \in [Versions -> VersionRow]
        /\ \A w \in Versions : w # Newest => version'[w] = version[w]
        /\ version'[Newest].status = "scanning"
        /\ version'[Newest].scan = version[Newest].scan
        /\ version'[Newest].object = version[Newest].object
    BY <1>0, <2>3 DEF CasVersion, VersionRow, VersionStatuses
  <2> QED
    BY <1>0, <1>1, <2>3, <2>4, MovedOn DEF VersionsOK, LiveVersionStatuses
<1>4. CASE RecordObject
  <2>1. CASE Newest = call.v
    <3>1. /\ version' = [version EXCEPT ![Newest].object = TRUE, ![Newest].status = "scanning"]
          /\ MoveMaterial("scanning", material.active) /\ NextStep
      BY <1>4, <2>1 DEF RecordObject
    <3>2. /\ version' \in [Versions -> VersionRow]
          /\ \A w \in Versions : w # Newest => version'[w] = version[w]
          /\ version'[Newest].status = "scanning"
          /\ version'[Newest].scan = version[Newest].scan
          /\ version'[Newest].object
      BY <1>0, <3>1 DEF VersionRow, VersionStatuses
    <3> QED
      BY <1>0, <1>1, <3>1, <3>2, MovedOn DEF LiveVersionStatuses
  <2>2. CASE Newest # call.v
    <3>1. StoresKept /\ material' = material /\ withdraw' = withdraw /\ faults' = faults
          /\ GoTo("park") /\ call.pc = "record"
      BY <1>4, <2>2 DEF RecordObject, StoresKept
    <3> QED BY <1>0, <1>1, <3>1, GoToParkKeeps
  <2> QED BY <2>1, <2>2
<1>5. CASE StepScan
  <2>1. CASE version[Newest].object
    <3> DEFINE row == Scanned(version[Newest])
               s == IF version'[Newest].status = "quarantined" THEN "error" ELSE "indexing"
    <3>1. /\ version' = [version EXCEPT ![Newest] = row]
          /\ MoveMaterial(s, material.active) /\ NextStep
      BY <1>5, <2>1 DEF StepScan
    <3>2. /\ row \in VersionRow /\ row.object
          /\ \/ row.scan = "clean" /\ row.status = "indexing"
             \/ /\ row.scan = "infected" /\ row.status = "quarantined"
                /\ version[Newest].scan = "infected"
      BY <1>0, <2>1 DEF Scanned, VersionRow, VersionStatuses
    <3> HIDE DEF row
    <3>3. /\ version' \in [Versions -> VersionRow]
          /\ \A w \in Versions : w # Newest => version'[w] = version[w]
          /\ version'[Newest] = row
      BY <1>0, <3>1, <3>2
    <3>4. s = IF row.status = "quarantined" THEN "error" ELSE "indexing"
      BY <3>3
    <3> HIDE DEF s
    <3>5. s \in {"scanning", "indexing", "error"}
      BY <3>4
    <3> QED
      BY <1>0, <1>1, <3>1, <3>2, <3>3, <3>4, <3>5, MovedOn DEF LiveVersionStatuses
  <2>2. CASE ~ version[Newest].object
    <3>1. StoresKept /\ material' = material /\ withdraw' = withdraw /\ faults' = faults
          /\ GoTo("park") /\ call.pc = "scanning"
      BY <1>5, <2>2 DEF StepScan, StoresKept
    <3> QED BY <1>0, <1>1, <2>2, <3>1, GoToParkKeeps
  <2> QED BY <2>1, <2>2
<1> QED BY <1>3, <1>4, <1>5

LEMMA PublishKeeps ==
    ASSUME SagaInv, Publish
    PROVE  SagaInv'
<1> USE DEF SagaInv
<1> DEFINE n == Newest
<1>0. /\ Existing # {} /\ n \in Existing /\ n \in Versions /\ VersionsOnly
      /\ call.pc = "publish" /\ ~ call.deleting /\ withdraw = {}
      /\ call \in Call /\ version \in [Versions -> VersionRow]
      /\ call.v \in Retrievable /\ call.prev # call.v
      /\ material.status \in {"indexing", "pending_upload"}
  <2>1. Existing # {} /\ call.pc = "publish" /\ VersionsOnly
    BY DEF Publish, VersionsOnly
  <2> QED
    BY <2>1, NewestFacts DEF SagaTypeOK, DeleteCallOK, IndexCallOK, WorksOn, StageOK
<1>1. version' = [v \in Versions |->
                    IF v = n THEN CasVersion(v, "available")
                    ELSE IF v = call.prev /\ v \in Existing THEN CasVersion(v, "superseded")
                    ELSE version[v]]
  BY DEF Publish
<1>2. MoveMaterial("available", n)
  BY DEF Publish
<1>3. IF RetireManifests(n) # {}
        THEN call' = [IdleCall EXCEPT !.pc = "mark", !.todo = RetireManifests(n)]
        ELSE NextStep
  BY DEF Publish
<1> HIDE DEF n
<1>4. /\ version' \in [Versions -> VersionRow]
      /\ \A v \in Versions : version'[v].object = version[v].object
                            /\ version'[v].scan = version[v].scan
                            /\ \/ version'[v] = version[v] /\ v # n
                               \/ v \in Existing /\ version'[v].status \in {"available", "superseded"}
  BY <1>0, <1>1 DEF CasVersion, VersionRow, VersionStatuses
<1>5. /\ Existing' = Existing /\ Newest' = Newest /\ Retrievable' = Retrievable
      /\ VersionsOK' /\ ManifestsOK'
  <2>1. \A w \in Versions :
              /\ version'[w].status = "none" <=> version[w].status = "none"
              /\ version'[w].status = "none" => version'[w] = NoVersion
              /\ version[w].scan = "clean" => version'[w].scan = "clean"
              /\ version'[w].scan = "clean" =>
                    version'[w].object /\ version'[w].status \in LiveVersionStatuses
    BY <1>4 DEF VersionsOK, LiveVersions, LiveVersionStatuses, Existing
  <2> QED BY <1>0, <1>4, <2>1, VersionsWritten
<1>6. material' \in MaterialRow /\ material'.status = "available" /\ material'.active = n
  BY <1>0, <1>2, MoveMaterialFacts DEF MaterialStatuses
<1>7. /\ call' \in Call /\ call'.pc \in {"mark", "drain"} /\ ~ call'.deleting
      /\ call'.pc = "mark" => call'.todo = {call.prev} /\ call.prev \in Existing
  <2>1. CASE RetireManifests(n) # {}
    <3>1. RetireManifests(n) = {call.prev} /\ call.prev \in Versions
          /\ manifest[call.prev].state # "none"
      BY <1>0, <2>1 DEF RetireManifests, Call
    <3>2. call.prev \in Existing
      BY <3>1 DEF VersionsOK, Existing
    <3>3. call' = [IdleCall EXCEPT !.pc = "mark", !.todo = {call.prev}]
      BY <1>3, <2>1, <3>1
    <3> QED BY <3>1, <3>2, <3>3 DEF IdleCall, Call, Points
  <2>2. CASE RetireManifests(n) = {}
    BY <1>3, <2>2, NextStepFacts
  <2> QED BY <2>1, <2>2
<1>8. NewestOK'
  <2>1. version[Newest].object => version[Newest].scan = "clean"
    BY <1>0 DEF NewestOK
  <2> QED BY <1>0, <1>4, <1>5, <2>1 DEF NewestOK, n
<1>9. MaterialOK'
  BY <1>0, <1>5, <1>6 DEF MaterialOK
<1>10. StageOK'
  BY <1>6, <1>7 DEF StageOK, WorksOn
<1>11. IndexCallOK'
  BY <1>7 DEF IndexCallOK, WorksOn
<1>12. DeleteCallOK'
  <2>1. Retrievable \cap {call.prev} = {}
    BY <1>0 DEF ManifestsOK
  <2>2. withdraw' = {}
    BY <1>0 DEF VersionsOnly
  <2> QED BY <1>5, <1>7, <2>1, <2>2 DEF DeleteCallOK
<1> QED BY <1>0, <1>4, <1>5, <1>6, <1>7, <1>8, <1>9, <1>10, <1>11, <1>12, VersionsWrittenInv

LEMMA PurgeKeeps ==
    ASSUME SagaInv, PurgeSql
    PROVE  SagaInv'
<1> USE DEF SagaInv
<1>1. /\ version' = [v \in Versions |-> NoVersion] /\ manifest' = [v \in Versions |-> NoManifest]
      /\ UNCHANGED <<material, bytes, vectors, withdraw, lost, faults>>
      /\ EndCall /\ call.pc = "purge"
  BY DEF PurgeSql
<1>2. Existing' = {} /\ Retrievable' = {}
  BY <1>1 DEF Existing, Retrievable, NoVersion, NoManifest
<1>3. call' \in Call /\ call'.pc = "idle" /\ ~ call'.deleting
  BY <1>1, IdleCallFacts DEF EndCall
<1>4. /\ material.active = 0 /\ material.status \in {"pending_upload", "deleted"}
      /\ withdraw = {}
  BY <1>1 DEF DeleteCallOK, StageOK
<1>5. VersionsOK' /\ ManifestsOK'
  BY <1>1, <1>2 DEF VersionsOK, ManifestsOK, NoVersion, NoManifest
<1>6. NewestOK' /\ MaterialOK'
  BY <1>1, <1>2, <1>4 DEF NewestOK, MaterialOK
<1>7. StageOK' /\ IndexCallOK'
  BY <1>3 DEF StageOK, IndexCallOK, WorksOn
<1>8. DeleteCallOK'
  BY <1>1, <1>3, <1>4 DEF DeleteCallOK
<1>9. version' \in [Versions -> VersionRow] /\ manifest' \in [Versions -> ManifestRow]
  BY <1>1 DEF NoVersion, NoManifest, VersionRow, ManifestRow
<1>10. SagaTypeOK'
  BY <1>1, <1>3, <1>9 DEF SagaTypeOK
<1> QED BY <1>5, <1>6, <1>7, <1>8, <1>10

-----------------------------------------------------------------------------
(* Steps that write the object store or Milvus.                            *)

RowsKept == UNCHANGED <<material, version, manifest>>

(* What is retrievable keeps its bytes and its chunks, unless a store      *)
(* loses them.                                                             *)
LEMMA StoresWritten ==
    ASSUME SagaInv, RowsKept, bytes' \subseteq Versions, vectors' \in [Versions -> VectorRows],
           lost \subseteq lost', lost' \subseteq Versions,
           withdraw' \subseteq Versions, faults' \in 0 .. MaxFaults, call' \in Call,
           call.pc \in {"idle", "drain", "scanning"} =>
              call'.pc \in {"idle", "drain", "scanning"},
           \A v \in Retrievable :
              \/ v \in lost'
              \/ /\ v \in bytes => v \in bytes'
                 /\ vectors[v].held = "all" => vectors'[v].held = "all",
           StageOK', IndexCallOK', DeleteCallOK'
    PROVE  SagaInv'
<1> USE DEF SagaInv, RowsKept
<1>1. Existing' = Existing /\ Newest' = Newest /\ Retrievable' = Retrievable
  BY SameVersions, SameManifests
<1>2. VersionsOK'
  BY DEF VersionsOK, LiveVersions
<1>3. ManifestsOK'
  BY <1>1 DEF ManifestsOK
<1>4. NewestOK'
  BY <1>1 DEF NewestOK
<1>5. MaterialOK'
  BY <1>1 DEF MaterialOK
<1>6. SagaTypeOK'
  BY DEF SagaTypeOK
<1> QED BY <1>2, <1>3, <1>4, <1>5, <1>6

LEMMA UploadBytesKeeps ==
    ASSUME SagaInv, NEW v \in Versions, UploadBytes(v)
    PROVE  SagaInv'
<1> USE DEF SagaInv
<1>1. /\ RowsKept /\ bytes' = bytes \cup {v}
      /\ UNCHANGED <<vectors, call, withdraw, lost, faults>>
  BY DEF UploadBytes, RowsKept
<1>2. Existing' = Existing /\ Retrievable' = Retrievable
  BY <1>1, SameVersions, SameManifests DEF RowsKept
<1>3. StageOK' /\ DeleteCallOK'
  BY <1>1, <1>2 DEF StageOK, DeleteCallOK, RowsKept
<1>4. IndexCallOK'
  BY <1>1, <1>2 DEF IndexCallOK, RowsKept
<1> QED BY <1>1, <1>3, <1>4, StoresWritten DEF SagaTypeOK

LEMMA StoreLosesKeeps ==
    ASSUME SagaInv, NEW v \in Versions, StoreLoses(v)
    PROVE  SagaInv' /\ lost' # {} /\ Retrievable' = Retrievable
           /\ \A w \in Versions : vectors[w].held # "all" => vectors'[w].held # "all"
<1> USE DEF SagaInv
<1>1. /\ RowsKept /\ UNCHANGED <<call, withdraw>> /\ faults' \in 0 .. MaxFaults
      /\ lost' = lost \cup {v} /\ bytes' \subseteq Versions /\ bytes \subseteq bytes' \cup {v}
  BY SagaAssumption DEF StoreLoses, RowsKept, SagaTypeOK
<1>2. /\ vectors' \in [Versions -> VectorRows]
      /\ \A w \in Versions : w # v => vectors'[w] = vectors[w]
      /\ vectors'[v].flag = vectors[v].flag
      /\ vectors[v].held # "all" => vectors'[v].held # "all"
  BY DEF StoreLoses, SagaTypeOK, VectorRows
<1>3. Existing' = Existing /\ Retrievable' = Retrievable
  BY <1>1, SameVersions, SameManifests DEF RowsKept
<1>4. StageOK' /\ DeleteCallOK'
  BY <1>1, <1>3 DEF StageOK, DeleteCallOK, RowsKept
<1>5. IndexCallOK'
  <2>1. call.pc \in WorksOn => call.v \in Versions
    BY DEF IndexCallOK, Existing
  <2> QED BY <1>1, <1>2, <1>3, <2>1 DEF IndexCallOK, RowsKept, WorksOn
<1>6. \A w \in Retrievable : \/ w \in lost'
                             \/ /\ w \in bytes => w \in bytes'
                                /\ vectors[w].held = "all" => vectors'[w].held = "all"
  BY <1>1, <1>2 DEF Retrievable
<1>7. SagaInv'
  BY <1>1, <1>2, <1>4, <1>5, <1>6, StoresWritten DEF SagaTypeOK
<1> QED BY <1>1, <1>2, <1>3, <1>7

LEMMA DeleteObjectsKeeps ==
    ASSUME SagaInv, DeleteObjects
    PROVE  SagaInv'
<1> USE DEF SagaInv
<1> DEFINE p == IF Inventory(bytes', call.objects) = {} THEN "finish" ELSE "park"
<1>1. /\ RowsKept /\ bytes' \subseteq Versions
      /\ UNCHANGED <<vectors, withdraw, lost, faults>> /\ call.pc = "objects"
      /\ GoTo(p) /\ p \in {"finish", "park"}
  BY DEF DeleteObjects, RowsKept, SagaTypeOK
<1> HIDE DEF p
<1>2. Existing' = Existing /\ Retrievable' = Retrievable
  BY <1>1, SameVersions, SameManifests DEF RowsKept
<1>3. call' \in Call /\ call'.pc = p /\ call'.deleting /\ call.deleting /\ Retrievable = {}
  BY <1>1, GoToFacts DEF Points, SagaTypeOK, DeleteCallOK
<1>4. StageOK'
  BY <1>1, <1>3 DEF StageOK, WorksOn, RowsKept
<1>5. IndexCallOK'
  BY <1>1, <1>3 DEF IndexCallOK, WorksOn
<1>6. DeleteCallOK'
  BY <1>1, <1>2, <1>3 DEF DeleteCallOK, RowsKept
<1> QED BY <1>1, <1>3, <1>4, <1>5, <1>6, StoresWritten DEF SagaTypeOK

(* What the writes to Milvus do to the rows under a prefix.                *)
LEMMA RowsFacts ==
    ASSUME NEW rows \in VectorRows
    PROVE  /\ \A flag \in BOOLEAN :
                 /\ SetRetrievable(rows, flag) \in VectorRows
                 /\ SetRetrievable(rows, flag).held = rows.held
                 /\ rows.held = "all" => SetRetrievable(rows, flag).flag = flag
           /\ \A held \in {"part", "all"} :
                 /\ UpsertChunks(rows, held) \in VectorRows
                 /\ rows.held = "all" => UpsertChunks(rows, held).held = "all"
           /\ NoVectors \in VectorRows
BY DEF SetRetrievable, QueryPrefix, UpsertChunks, NoVectors, VectorRows

LEMMA IndexVectorsKeep ==
    ASSUME SagaInv, Upsert \/ ActivateLoad \/ Demote
    PROVE  SagaInv'
<1> USE DEF SagaInv
<1>0. /\ RowsKept /\ UNCHANGED <<bytes, withdraw, lost, faults>>
      /\ call.pc \in {"upsert", "activate", "demote"} /\ call \in Call
      /\ vectors \in [Versions -> VectorRows]
  BY DEF Upsert, ActivateLoad, Demote, RowsKept, SagaTypeOK
<1>1. /\ Existing' = Existing /\ Retrievable' = Retrievable
      /\ call.v \in Existing /\ call.v \in Versions /\ ~ call.deleting /\ withdraw = {}
      /\ material.status \in {"indexing", "pending_upload"}
      /\ version[call.v].scan = "clean" /\ call.prev # call.v /\ call.v \in bytes \cup lost
  <2>1. Existing' = Existing /\ Retrievable' = Retrievable
    BY <1>0, SameVersions, SameManifests DEF RowsKept
  <2>2. call.pc \in WorksOn \ {"verify", "record", "chunks"}
    BY <1>0 DEF WorksOn
  <2> QED BY <1>0, <2>1, <2>2 DEF IndexCallOK, StageOK, DeleteCallOK, Existing
<1>2. ASSUME call' \in Call, call'.pc \in {"stage", "switch", "publish"}, ~ call'.deleting,
             call'.v = call.v, call'.prev = call.prev, IndexCallOK',
             NEW w \in Versions, NEW row \in VectorRows,
             vectors' = [vectors EXCEPT ![w] = row] \/ vectors' = vectors,
             vectors[w].held = "all" => row.held = "all"
      PROVE  SagaInv'
  <2>1. StageOK'
    BY <1>0, <1>1, <1>2 DEF StageOK, WorksOn, RowsKept
  <2>2. DeleteCallOK'
    BY <1>0, <1>1, <1>2 DEF DeleteCallOK
  <2>3. vectors' \in [Versions -> VectorRows]
        /\ \A v \in Versions : vectors[v].held = "all" => vectors'[v].held = "all"
    BY <1>0, <1>2
  <2> QED BY <1>0, <1>2, <2>1, <2>2, <2>3, StoresWritten DEF SagaTypeOK, Retrievable
<1>3. CASE Upsert
  <2>1. PICK held \in {"part", "all"} :
              vectors' = [vectors EXCEPT ![call.v] = UpsertChunks(vectors[call.v], held)]
    BY <1>3 DEF Upsert
  <2>2. /\ call' \in Call /\ call'.pc = "stage" /\ ~ call'.deleting /\ call'.v = call.v
        /\ call'.prev = call.prev
    BY <1>0, <1>1, <1>3, GoToFacts DEF Upsert, Points
  <2>3. IndexCallOK'
    BY <1>0, <1>1, <2>2 DEF IndexCallOK, WorksOn, RowsKept
  <2>4. vectors[call.v] \in VectorRows
    BY <1>0, <1>1
  <2> QED BY <1>1, <1>2, <2>1, <2>2, <2>3, <2>4, RowsFacts
<1>4. CASE ActivateLoad
  <2> DEFINE m == manifest[call.v]
             others == Retrievable \ {call.v}
             old == IF others = {} THEN 0 ELSE Max(others)
  <2>1. CASE m.state # "retained" \/ ~ m.verified
    <3>1. EndCall /\ StoresKept
      BY <1>0, <1>4, <2>1 DEF ActivateLoad, StoresKept, RowsKept
    <3> QED BY <1>0, <3>1, EndKeeps DEF RowsKept, SagaTypeOK
  <2>2. CASE m.state = "retained" /\ m.verified /\ m.retrievable
    <3>1. GoTo("publish") /\ vectors' = vectors
      BY <1>4, <2>2 DEF ActivateLoad
    <3>2. /\ call' \in Call /\ call'.pc = "publish" /\ ~ call'.deleting /\ call'.v = call.v
          /\ call'.prev = call.prev
      BY <1>0, <1>1, <3>1, GoToFacts DEF Points
    <3>3. call.v \in Retrievable
      BY <1>1, <2>2 DEF Retrievable
    <3>4. IndexCallOK'
      BY <1>0, <1>1, <3>2, <3>3 DEF IndexCallOK, WorksOn, RowsKept
    <3> QED BY <1>0, <1>1, <1>2, <3>1, <3>2, <3>4
  <2>3. CASE m.state = "retained" /\ m.verified /\ ~ m.retrievable
    <3>1. /\ vectors' = [vectors EXCEPT ![call.v] = SetRetrievable(vectors[call.v], TRUE)]
          /\ call' = [call EXCEPT !.pc = "switch", !.old = old]
      BY <1>4, <2>3 DEF ActivateLoad
    <3>2. /\ old \in Versions \cup {0} /\ old # call.v /\ others \subseteq {old}
      <4>1. CASE others = {}
        BY <1>1, <4>1 DEF Versions
      <4>2. CASE others # {}
        <5>1. others \in SUBSET (1 .. MaxVersions) /\ MaxVersions \in Nat
          BY SagaAssumption DEF Retrievable, Versions
        <5>2. Max(others) \in others
          BY <4>2, <5>1, MaxIsThere
        <5> QED BY <4>2, <5>2 DEF ManifestsOK, Retrievable
      <4> QED BY <4>1, <4>2
    <3> HIDE DEF old
    <3>3. /\ call' \in Call /\ call'.pc = "switch" /\ ~ call'.deleting /\ call'.v = call.v
          /\ call'.prev = call.prev /\ call'.old = old
      BY <1>0, <1>1, <3>1, <3>2 DEF Call, Points
    <3>4. vectors[call.v] \in VectorRows
      BY <1>0, <1>1
    <3>5. vectors'[call.v] = SetRetrievable(vectors[call.v], TRUE)
      BY <1>0, <1>1, <3>1
    <3>6. call.v \in lost \/ vectors[call.v].held = "all"
      BY <1>4 DEF ActivateLoad, IndexCallOK
    <3>7. call.v \in lost \/ (vectors'[call.v].held = "all" /\ vectors'[call.v].flag)
      BY <3>4, <3>5, <3>6, RowsFacts
    <3>8. IndexCallOK'
      BY <1>0, <1>1, <2>3, <3>2, <3>3, <3>7 DEF IndexCallOK, WorksOn, RowsKept
    <3> QED BY <1>1, <1>2, <3>1, <3>3, <3>4, <3>8, RowsFacts
  <2> QED BY <2>1, <2>2, <2>3
<1>5. CASE Demote
  <2>1. /\ call.old \in Versions
        /\ vectors' = [vectors EXCEPT ![call.old] = SetRetrievable(vectors[call.old], FALSE)]
        /\ call.v \in Retrievable
    BY <1>5 DEF Demote, IndexCallOK
  <2>2. /\ call' \in Call /\ call'.pc = "publish" /\ ~ call'.deleting /\ call'.v = call.v
        /\ call'.prev = call.prev
    BY <1>0, <1>1, <1>5, GoToFacts DEF Demote, Points
  <2>3. IndexCallOK'
    BY <1>0, <1>1, <2>1, <2>2 DEF IndexCallOK, WorksOn, RowsKept
  <2>4. vectors[call.old] \in VectorRows
    BY <1>0, <2>1
  <2> QED BY <1>2, <2>1, <2>2, <2>3, <2>4, RowsFacts
<1> QED BY <1>3, <1>4, <1>5

(* The manifest a deletion is at.                                          *)
LEMMA TodoFacts ==
    ASSUME SagaInv, call.pc \in {"mark", "remove", "confirm"}
    PROVE  Max(call.todo) \in call.todo /\ Max(call.todo) \in Existing /\ Max(call.todo) \in Versions
<1>1. call.todo # {} /\ call.todo \subseteq Existing
  BY DEF SagaInv, DeleteCallOK
<1>2. call.todo \in SUBSET (1 .. MaxVersions) /\ MaxVersions \in Nat
  BY <1>1, SagaAssumption DEF Existing, Versions
<1>3. Max(call.todo) \in call.todo
  BY <1>1, <1>2, MaxIsThere
<1> QED BY <1>1, <1>3 DEF Existing

LEMMA DeleteVectorsKeeps ==
    ASSUME SagaInv, DeleteVectors
    PROVE  SagaInv'
<1> USE DEF SagaInv
<1> DEFINE m == Max(call.todo)
<1>0. /\ RowsKept /\ UNCHANGED <<bytes, withdraw, lost, faults>> /\ call.pc = "remove"
      /\ call \in Call /\ vectors \in [Versions -> VectorRows]
  BY DEF DeleteVectors, RowsKept, SagaTypeOK
<1>1. /\ m \in Versions /\ m \notin Retrievable /\ withdraw = {}
      /\ Existing' = Existing /\ Retrievable' = Retrievable
  BY <1>0, TodoFacts, SameVersions, SameManifests DEF RowsKept, DeleteCallOK
<1>2. CASE vectors' = [vectors EXCEPT ![m] = NoVectors] /\ GoTo("confirm")
  <2> HIDE DEF m
  <2>1. /\ call' \in Call /\ call'.pc = "confirm" /\ call'.deleting = call.deleting
        /\ call'.todo = call.todo
    BY <1>0, <1>2, GoToFacts DEF Points
  <2>2. StageOK'
    BY <1>0, <2>1 DEF StageOK, WorksOn, RowsKept
  <2>3. IndexCallOK'
    BY <2>1 DEF IndexCallOK, WorksOn
  <2>4. DeleteCallOK'
    BY <1>0, <1>1, <2>1 DEF DeleteCallOK, m
  <2>5. vectors' \in [Versions -> VectorRows]
        /\ \A v \in Retrievable : vectors[v].held = "all" => vectors'[v].held = "all"
    <3>1. NoVectors \in VectorRows
      BY DEF NoVectors, VectorRows
    <3>2. \A v \in Retrievable : v \in Versions /\ v # m
      BY <1>1 DEF Retrievable
    <3> QED BY <1>0, <1>1, <1>2, <3>1, <3>2
  <2> QED BY <1>0, <2>1, <2>2, <2>3, <2>4, <2>5, StoresWritten DEF SagaTypeOK
<1>3. CASE call.deleting /\ GoTo("park") /\ vectors' = vectors
  <2>1. /\ call' \in Call /\ call'.pc = "park" /\ call'.deleting
    BY <1>0, <1>3, GoToFacts DEF Points
  <2>2. StageOK'
    BY <1>0, <1>3, <2>1 DEF StageOK, WorksOn, RowsKept
  <2>3. IndexCallOK'
    BY <2>1 DEF IndexCallOK, WorksOn
  <2>4. DeleteCallOK'
    BY <1>0, <1>1, <2>1 DEF DeleteCallOK
  <2> QED BY <1>0, <1>3, <2>1, <2>2, <2>3, <2>4, StoresWritten DEF SagaTypeOK
<1>4. CASE EndCall /\ vectors' = vectors
  <2>1. StoresKept
    BY <1>0, <1>4 DEF StoresKept, RowsKept
  <2> QED BY <1>0, <1>4, <2>1, EndKeeps DEF RowsKept, SagaTypeOK
<1> QED BY <1>2, <1>3, <1>4 DEF DeleteVectors

LEMMA DeactivateProjectionKeeps ==
    ASSUME SagaInv, NEW m \in withdraw, DeactivateProjection(m)
    PROVE  SagaInv'
<1> USE DEF SagaInv
<1>0. /\ RowsKept /\ UNCHANGED <<bytes, call, lost, faults>> /\ m \in Versions
      /\ vectors' = [vectors EXCEPT ![m] = SetRetrievable(vectors[m], FALSE)]
      /\ withdraw' = withdraw \ {m} /\ vectors \in [Versions -> VectorRows]
  BY DEF DeactivateProjection, RowsKept, SagaTypeOK
<1>1. Existing' = Existing /\ Retrievable' = Retrievable /\ call.pc = "idle"
      /\ material.status \in {"deleting", "pending_upload"}
  BY <1>0, SameVersions, SameManifests DEF RowsKept, DeleteCallOK
<1>2. /\ vectors' \in [Versions -> VectorRows]
      /\ \A v \in Versions : vectors'[v].held = vectors[v].held
  <2>1. SetRetrievable(vectors[m], FALSE) \in VectorRows
        /\ SetRetrievable(vectors[m], FALSE).held = vectors[m].held
    BY <1>0, RowsFacts
  <2> QED BY <1>0, <2>1
<1>3. StageOK' /\ IndexCallOK'
  BY <1>0, <1>1 DEF StageOK, IndexCallOK, WorksOn, RowsKept
<1>4. DeleteCallOK'
  BY <1>0, <1>1 DEF DeleteCallOK, RowsKept
<1> QED BY <1>0, <1>2, <1>3, <1>4, StoresWritten DEF SagaTypeOK, Retrievable

-----------------------------------------------------------------------------
(* Steps that write manifest rows.                                         *)
ManifestsOnly == UNCHANGED <<material, version, bytes, vectors, withdraw, lost, faults>>

LEMMA ManifestsWritten ==
    ASSUME SagaInv, ManifestsOnly, manifest' \in [Versions -> ManifestRow], call' \in Call,
           \A v \in Versions : version[v].status = "none" => manifest'[v].state = "none",
           ManifestsOK', Retrievable = {} \/ Retrievable' # {}
              \/ lost # {} \/ material.status # "available",
           call'.pc \in {"idle", "drain", "scanning"}
              \/ call.pc \notin {"idle", "drain", "scanning"},
           StageOK', IndexCallOK', DeleteCallOK'
    PROVE  SagaInv'
<1> USE DEF SagaInv, ManifestsOnly
<1>1. Existing' = Existing /\ Newest' = Newest
  BY SameVersions
<1>2. VersionsOK'
  BY DEF VersionsOK, LiveVersions
<1>3. NewestOK'
  BY <1>1 DEF NewestOK
<1>4. MaterialOK'
  BY <1>1 DEF MaterialOK
<1>5. SagaTypeOK'
  BY DEF SagaTypeOK
<1> QED BY <1>2, <1>3, <1>4, <1>5

LEMMA IndexManifestsKeep ==
    ASSUME SagaInv, StageManifest \/ VerifyCount \/ Switch
    PROVE  SagaInv'
<1> USE DEF SagaInv
<1>0. /\ ManifestsOnly /\ call.pc \in {"stage", "count", "switch"} /\ call \in Call
      /\ manifest \in [Versions -> ManifestRow]
  BY DEF StageManifest, VerifyCount, Switch, ManifestsOnly, SagaTypeOK
<1>1. /\ Existing' = Existing
      /\ call.v \in Existing /\ call.v \in Versions /\ ~ call.deleting /\ withdraw = {}
      /\ version[call.v].status # "none"
      /\ material.status \in {"indexing", "pending_upload"}
      /\ version[call.v].scan = "clean" /\ call.prev # call.v /\ call.v \in bytes \cup lost
  <2>1. Existing' = Existing
    BY <1>0, SameVersions DEF ManifestsOnly
  <2>2. call.pc \in WorksOn \ {"verify", "record", "chunks"}
    BY <1>0 DEF WorksOn
  <2> QED BY <1>0, <2>1, <2>2 DEF IndexCallOK, StageOK, DeleteCallOK, Existing
<1>2. ASSUME call' \in Call, call'.pc \in {"count", "activate", "demote", "publish", "park"},
             ~ call'.deleting, manifest' \in [Versions -> ManifestRow],
             \A v \in Versions : version[v].status = "none" => manifest'[v].state = "none",
             ManifestsOK', IndexCallOK'
      PROVE  SagaInv'
  <2>1. StageOK'
    BY <1>0, <1>1, <1>2 DEF StageOK, WorksOn, ManifestsOnly
  <2>2. DeleteCallOK'
    BY <1>0, <1>1, <1>2 DEF DeleteCallOK, ManifestsOnly
  <2> QED BY <1>0, <1>1, <1>2, <2>1, <2>2, ManifestsWritten
<1>3. CASE StageManifest
  <2>1. /\ call' \in Call /\ call'.pc = "count" /\ ~ call'.deleting /\ call'.v = call.v
        /\ call'.prev = call.prev
    BY <1>0, <1>1, <1>3, GoToFacts DEF StageManifest, Points
  <2>2. /\ manifest' \in [Versions -> ManifestRow]
        /\ \A v \in Versions : \/ manifest'[v] = manifest[v]
                               \/ /\ v = call.v /\ manifest[v].state = "none"
                                  /\ ~ manifest'[v].retrievable
    BY <1>0, <1>1, <1>3 DEF StageManifest, FindManifest, NoManifest, ManifestRow
  <2>3. /\ Retrievable' = Retrievable
        /\ \A v \in Retrievable : manifest'[v] = manifest[v]
    BY <2>2 DEF Retrievable, ManifestsOK
  <2>4. ManifestsOK'
    BY <1>0, <2>3 DEF ManifestsOK, ManifestsOnly
  <2>5. IndexCallOK'
    BY <1>0, <1>1, <2>1 DEF IndexCallOK, WorksOn, ManifestsOnly
  <2> QED BY <1>1, <1>2, <2>1, <2>2, <2>4, <2>5 DEF VersionsOK
<1>4. CASE VerifyCount
  <2> DEFINE complete == vectors[call.v].held = "all"
  <2>1. CASE manifest[call.v].retrievable /\ ~ complete
    <3>1. EndCall /\ StoresKept
      BY <1>0, <1>4, <2>1 DEF VerifyCount, CountByPrefix, StoresKept, ManifestsOnly
    <3> QED BY <1>0, <3>1, EndKeeps DEF ManifestsOnly, SagaTypeOK
  <2>2. CASE ~ (manifest[call.v].retrievable /\ ~ complete)
    <3>1. /\ manifest' = [manifest EXCEPT ![call.v].verified = complete]
          /\ GoTo(IF complete THEN "activate" ELSE "park")
      BY <1>4, <2>2 DEF VerifyCount, CountByPrefix
    <3>2. complete \in BOOLEAN
      OBVIOUS
    <3>3. /\ call' \in Call /\ call'.pc = (IF complete THEN "activate" ELSE "park")
          /\ ~ call'.deleting /\ call'.v = call.v /\ call'.prev = call.prev
      BY <1>0, <1>1, <3>1, GoToFacts DEF Points
    <3>4. /\ manifest' \in [Versions -> ManifestRow]
          /\ \A v \in Versions : v # call.v => manifest'[v] = manifest[v]
          /\ manifest'[call.v].state = manifest[call.v].state
          /\ manifest'[call.v].retrievable = manifest[call.v].retrievable
          /\ manifest'[call.v].verified <=> complete
      <4> HIDE DEF complete
      <4> QED BY <1>0, <1>1, <3>1, <3>2 DEF ManifestRow
    <3>5. Retrievable' = Retrievable
      BY <3>4 DEF Retrievable
    <3>6. ManifestsOK'
      BY <1>0, <2>2, <3>4, <3>5 DEF ManifestsOK, ManifestsOnly, Retrievable
    <3>7. IndexCallOK'
      BY <1>0, <1>1, <3>3 DEF IndexCallOK, WorksOn, ManifestsOnly
    <3>8. \A v \in Versions : version[v].status = "none" => manifest'[v].state = "none"
      BY <1>1, <3>4 DEF VersionsOK
    <3> QED BY <1>2, <3>3, <3>4, <3>6, <3>7, <3>8
  <2> QED BY <2>1, <2>2
<1>5. CASE Switch
  <2>0. /\ manifest[call.v].state = "retained" /\ manifest[call.v].verified
        /\ Retrievable \ {call.v} \subseteq {call.old} /\ call.old # call.v
        /\ call.v \in lost \/ vectors[call.v].held = "all"
    BY <1>5 DEF Switch, IndexCallOK
  <2>1. CASE call.old \notin Retrievable \cup {0}
    <3>1. EndCall /\ StoresKept
      BY <1>0, <1>5, <2>1 DEF Switch, StoresKept, ManifestsOnly
    <3> QED BY <1>0, <3>1, EndKeeps DEF ManifestsOnly, SagaTypeOK
  <2>2. CASE call.old \in Retrievable \cup {0}
    <3>1. /\ manifest' = [m \in Versions |-> Switched(m)]
          /\ GoTo(IF call.old = 0 THEN "publish" ELSE "demote")
      BY <1>5, <2>2 DEF Switch
    <3>2. /\ call' \in Call /\ call'.pc = (IF call.old = 0 THEN "publish" ELSE "demote")
          /\ ~ call'.deleting /\ call'.v = call.v /\ call'.prev = call.prev
          /\ call'.old = call.old
      BY <1>0, <1>1, <3>1, GoToFacts DEF Points
    <3>3. /\ manifest' \in [Versions -> ManifestRow]
          /\ \A m \in Versions : /\ manifest'[m].state = manifest[m].state
                                 /\ manifest'[m].verified = manifest[m].verified
                                 /\ m \notin {call.v, call.old} => manifest'[m] = manifest[m]
          /\ manifest'[call.v].retrievable
          /\ call.old \in Versions => ~ manifest'[call.old].retrievable
      BY <1>0, <1>1, <2>0, <3>1 DEF Switched, ManifestRow
    <3>4. Retrievable' = {call.v}
      BY <1>1, <2>0, <3>3 DEF Retrievable
    <3>5. ManifestsOK'
      BY <1>0, <1>1, <2>0, <3>3, <3>4 DEF ManifestsOK, ManifestsOnly
    <3>6. call.old # 0 => call.old \in Versions
      BY <2>2 DEF Retrievable
    <3>7. IndexCallOK'
      BY <1>0, <1>1, <2>0, <3>2, <3>4, <3>6 DEF IndexCallOK, WorksOn, ManifestsOnly
    <3>8. \A v \in Versions : version[v].status = "none" => manifest'[v].state = "none"
      BY <3>3 DEF VersionsOK
    <3> QED BY <1>2, <3>2, <3>3, <3>5, <3>7, <3>8
  <2> QED BY <2>1, <2>2
<1> QED BY <1>3, <1>4, <1>5

LEMMA DeleteManifestsKeep ==
    ASSUME SagaInv, DeleteMark \/ DeleteConfirm
    PROVE  SagaInv'
<1> USE DEF SagaInv
<1> DEFINE m == Max(call.todo)
<1>0. /\ ManifestsOnly /\ call.pc \in {"mark", "confirm"} /\ call \in Call
      /\ manifest \in [Versions -> ManifestRow]
  BY DEF DeleteMark, DeleteConfirm, ManifestsOnly, SagaTypeOK
<1>1. /\ Existing' = Existing /\ m \in call.todo /\ m \in Existing /\ m \in Versions
      /\ version[m].status # "none" /\ withdraw = {} /\ call.todo \subseteq Existing
      /\ IF call.deleting THEN Retrievable \subseteq call.todo
         ELSE Retrievable \cap call.todo = {}
      /\ call.deleting => material.status # "available"
  <2>1. Existing' = Existing
    BY <1>0, SameVersions DEF ManifestsOnly
  <2>2. m \in call.todo /\ m \in Existing /\ m \in Versions
    BY <1>0, TodoFacts
  <2> QED BY <1>0, <2>1, <2>2 DEF DeleteCallOK, StageOK, Existing
<1>2. CASE DeleteMark
  <2>1. /\ manifest' = [manifest EXCEPT ![m].retrievable = FALSE, ![m].state = "deleting"]
        /\ GoTo("remove") /\ call.pc = "mark"
    BY <1>2 DEF DeleteMark
  <2> HIDE DEF m
  <2>2. /\ call' \in Call /\ call'.pc = "remove" /\ call'.deleting = call.deleting
        /\ call'.todo = call.todo
    BY <1>0, <2>1, GoToFacts DEF Points
  <2>3. /\ manifest' \in [Versions -> ManifestRow]
        /\ \A v \in Versions : v # m => manifest'[v] = manifest[v]
        /\ ~ manifest'[m].retrievable
    BY <1>0, <1>1, <2>1 DEF ManifestRow
  <2>4. Retrievable' = Retrievable \ {m}
    BY <2>3 DEF Retrievable
  <2>5. ManifestsOK'
    BY <1>0, <2>3, <2>4 DEF ManifestsOK, ManifestsOnly, Retrievable
  <2>6. Retrievable' # {} \/ Retrievable = {} \/ material.status # "available"
    BY <1>1, <2>4
  <2>7. StageOK'
    BY <1>0, <2>1, <2>2 DEF StageOK, WorksOn, ManifestsOnly
  <2>8. IndexCallOK'
    BY <2>2 DEF IndexCallOK, WorksOn
  <2>9. DeleteCallOK'
    BY <1>0, <1>1, <2>1, <2>2, <2>4 DEF DeleteCallOK, ManifestsOnly, m
  <2>10. \A v \in Versions : version[v].status = "none" => manifest'[v].state = "none"
    BY <1>1, <2>3 DEF VersionsOK
  <2> QED BY <1>0, <2>2, <2>3, <2>5, <2>6, <2>7, <2>8, <2>9, <2>10, ManifestsWritten
<1>3. CASE DeleteConfirm
  <2>1. /\ manifest' = [manifest EXCEPT ![m].state = "deleted", ![m].verified = FALSE]
        /\ call.pc = "confirm"
        /\ IF call.todo # {m} THEN call' = [call EXCEPT !.pc = "mark", !.todo = call.todo \ {m}]
           ELSE IF call.deleting THEN GoTo("objects")
           ELSE NextStep
    BY <1>3 DEF DeleteConfirm
  <2>2. m \notin Retrievable
    BY <2>1 DEF DeleteCallOK
  <2> HIDE DEF m
  <2>3. /\ manifest' \in [Versions -> ManifestRow]
        /\ \A v \in Versions : v # m => manifest'[v] = manifest[v]
        /\ manifest'[m].retrievable = manifest[m].retrievable
    BY <1>0, <1>1, <2>1 DEF ManifestRow
  <2>4. Retrievable' = Retrievable
    BY <2>3 DEF Retrievable
  <2>5. ManifestsOK'
    <3>1. \A v \in Retrievable : v \in Versions /\ manifest'[v] = manifest[v]
      BY <2>2, <2>3 DEF Retrievable
    <3> QED BY <1>0, <2>4, <3>1 DEF ManifestsOK, ManifestsOnly
  <2>6. \A v \in Versions : version[v].status = "none" => manifest'[v].state = "none"
    BY <1>1, <2>3 DEF VersionsOK
  <2>7. \/ /\ call' \in Call /\ call'.pc = "mark" /\ call'.deleting = call.deleting
           /\ call'.todo = call.todo \ {m} /\ call.todo # {m}
        \/ /\ call' \in Call /\ call'.pc = "objects" /\ call'.deleting /\ call.deleting
           /\ call.todo = {m}
        \/ /\ call' \in Call /\ call'.pc = "drain" /\ ~ call'.deleting
    <3>1. CASE call.todo # {m}
      <4>1. call.todo \ {m} \in SUBSET Versions
        BY <1>0 DEF Call
      <4>2. call' = [call EXCEPT !.pc = "mark", !.todo = call.todo \ {m}]
        BY <2>1, <3>1
      <4> QED BY <1>0, <3>1, <4>1, <4>2 DEF Call, Points
    <3>2. CASE call.todo = {m} /\ call.deleting
      BY <1>0, <2>1, <3>2, GoToFacts DEF Points
    <3>3. CASE call.todo = {m} /\ ~ call.deleting
      BY <2>1, <3>3, NextStepFacts
    <3> QED BY <3>1, <3>2, <3>3
  <2>8. StageOK'
    BY <1>0, <2>1, <2>7 DEF StageOK, WorksOn, ManifestsOnly
  <2>9. IndexCallOK'
    BY <2>7 DEF IndexCallOK, WorksOn
  <2>10. DeleteCallOK'
    BY <1>0, <1>1, <2>2, <2>4, <2>7 DEF DeleteCallOK, ManifestsOnly
  <2> QED BY <1>0, <2>1, <2>3, <2>4, <2>5, <2>6, <2>7, <2>8, <2>9, <2>10, ManifestsWritten
<1> QED BY <1>2, <1>3

LEMMA DeactivateAuthorityKeeps ==
    ASSUME SagaInv, NEW m \in withdraw, DeactivateAuthority(m)
    PROVE  SagaInv'
<1> USE DEF SagaInv
<1>0. /\ ManifestsOnly /\ call' = call /\ m \in Versions
      /\ manifest' = [manifest EXCEPT ![m].retrievable = FALSE]
      /\ manifest \in [Versions -> ManifestRow]
  BY DEF DeactivateAuthority, ManifestsOnly, SagaTypeOK
<1>1. Existing' = Existing /\ call.pc = "idle" /\ ~ call.deleting
      /\ material.status \in {"deleting", "pending_upload"}
  BY <1>0, SameVersions DEF ManifestsOnly, DeleteCallOK
<1>2. /\ manifest' \in [Versions -> ManifestRow]
      /\ \A v \in Versions : v # m => manifest'[v] = manifest[v]
      /\ ~ manifest'[m].retrievable /\ manifest'[m].state = manifest[m].state
  BY <1>0 DEF ManifestRow
<1>3. Retrievable' = Retrievable \ {m}
  BY <1>2 DEF Retrievable
<1>4. ManifestsOK'
  BY <1>0, <1>2, <1>3 DEF ManifestsOK, ManifestsOnly, Retrievable
<1>5. StageOK' /\ IndexCallOK'
  BY <1>0, <1>1 DEF StageOK, IndexCallOK, WorksOn
<1>6. DeleteCallOK'
  BY <1>0, <1>1 DEF DeleteCallOK, ManifestsOnly
<1>7. \A v \in Versions : version[v].status = "none" => manifest'[v].state = "none"
  BY <1>2 DEF VersionsOK
<1> QED BY <1>0, <1>1, <1>2, <1>4, <1>5, <1>6, <1>7, ManifestsWritten DEF SagaTypeOK

LEMMA SagaInitInv ==
    ASSUME SagaInit
    PROVE  SagaInv
<1> USE DEF SagaInit
<1>1. Existing = {} /\ Retrievable = {}
  BY DEF Existing, Retrievable, NoVersion, NoManifest
<1>2. call \in Call /\ call.pc = "idle" /\ ~ call.deleting
  BY IdleCallFacts
<1>3. VersionsOK /\ ManifestsOK
  BY <1>1 DEF VersionsOK, ManifestsOK, NoVersion, NoManifest
<1>4. NewestOK /\ MaterialOK
  BY <1>1 DEF NewestOK, MaterialOK
<1>5. StageOK /\ IndexCallOK /\ DeleteCallOK
  BY <1>2 DEF StageOK, IndexCallOK, DeleteCallOK, WorksOn
<1>6. SagaTypeOK
  BY <1>2, SagaAssumption
     DEF SagaTypeOK, NoVersion, NoManifest, NoVectors, VersionRow, ManifestRow, VectorRows
<1> QED BY <1>3, <1>4, <1>5, <1>6 DEF SagaInv

LEMMA CallStepKeeps ==
    ASSUME SagaInv, Exclusive, CallStep
    PROVE  SagaInv'
BY ReadingKeeps, MovingKeeps, ScanningKeeps, PublishKeeps, PurgeKeeps, DeleteObjectsKeeps,
   IndexVectorsKeep, DeleteVectorsKeeps, IndexManifestsKeep, DeleteManifestsKeep
   DEF CallStep

LEMMA WithdrawKeeps ==
    ASSUME SagaInv, Withdraw
    PROVE  SagaInv'
BY DeactivateAuthorityKeeps, DeactivateProjectionKeeps DEF Withdraw

-----------------------------------------------------------------------------
(* The sweep.                                                              *)

LEMMA NoSweepFacts ==
    /\ NoSweep \in SweepRow /\ NoSweep.pc = "idle" /\ NoSweep.todo = {}
    /\ NoSweep.step = "record"
<1>1. <<"missing_object", 0>> \in Keys
  BY DEF Keys, IssueKinds
<1> QED BY <1>1 DEF NoSweep, SweepRow

LEMMA FreshSweepOK ==
    ASSUME sweep' = NoSweep
    PROVE  SweepOK'
BY NoSweepFacts DEF SweepOK

LEMMA SweepInitOK ==
    ASSUME SweepInit
    PROVE  SweepOK
BY NoSweepFacts DEF SweepInit, SweepOK

(* Without overlap the saga moves only while no sweep runs.                *)
LEMMA SagaStepKeeps ==
    ASSUME StorageInv, Exclusive, SagaStep
    PROVE  StorageInv'
<1> USE DEF StorageInv
<1>1. SagaInv'
  BY AdvanceKeeps, CallStepKeeps, MovingKeeps, WithdrawKeeps DEF SagaStep
<1>2. sweep' = sweep /\ sweep.pc = "idle"
  BY DEF SagaStep, Unswept, Exclusive, sweepVars
<1> QED BY <1>1, <1>2 DEF SweepOK

(* A sweep that goes on while the stores change below it.                  *)
LEMMA SweepGoesOn ==
    ASSUME SweepOK, UNCHANGED <<sweep, call, withdraw>>,
           ClaimedObjects' = ClaimedObjects, LiveVersions' = LiveVersions,
           Retrievable' = Retrievable, \A k \in Pending : FindingOK(k) => FindingOK(k)'
    PROVE  SweepOK'
<1>1. Pending' = Pending
  BY DEF Pending
<1>2. \A k \in Pending : Repairable(k)' = Repairable(k)
  BY DEF Repairable
<1> QED BY <1>1, <1>2 DEF SweepOK, Repairable

LEMMA ClientStepKeeps ==
    ASSUME StorageInv, ClientStep
    PROVE  StorageInv'
<1> USE DEF StorageInv
<1>0. sweep' = sweep /\ sweep \in SweepRow
  BY DEF ClientStep, sweepVars, SweepOK
<1>1. CASE BeginUpload
  <2>1. /\ SagaInv' /\ LiveVersions' = LiveVersions /\ ObjectRows' = ObjectRows
        /\ Existing \subseteq Existing' /\ Existing' # {} /\ Newest' \notin Existing \cup {0}
    BY <1>1, BeginUploadKeeps
  <2>2. /\ UNCHANGED <<manifest, vectors, call, withdraw, lost>>
        /\ material'.status = "pending_upload"
    BY <1>1 DEF BeginUpload, MoveMaterial
  <2>3. Retrievable' = Retrievable /\ ClaimedObjects' = ClaimedObjects
    BY <2>1, <2>2, SameManifests DEF ClaimedObjects
  <2>4. \A k \in Pending : FindingOK(k) => FindingOK(k)'
    BY <1>0, <2>1, <2>2, <2>3 DEF FindingOK
  <2> QED BY <1>0, <2>1, <2>2, <2>3, <2>4, SweepGoesOn
<1>2. ASSUME NEW v \in Versions, UploadBytes(v)
      PROVE  StorageInv'
  <2>1. SagaInv' /\ UNCHANGED <<material, version, manifest, vectors, call, withdraw, lost>>
    BY <1>2, UploadBytesKeeps DEF UploadBytes
  <2>2. /\ Retrievable' = Retrievable /\ ClaimedObjects' = ClaimedObjects
        /\ LiveVersions' = LiveVersions /\ Existing' = Existing /\ Newest' = Newest
    BY <2>1, SameManifests, SameVersions DEF ClaimedObjects, ObjectRows, LiveVersions
  <2>3. \A k \in Pending : FindingOK(k) => FindingOK(k)'
    BY <1>0, <2>1, <2>2 DEF FindingOK
  <2> QED BY <1>0, <2>1, <2>2, <2>3, SweepGoesOn
<1>3. ASSUME NEW v \in Versions, ScanVerdict(v)
      PROVE  StorageInv'
  <2>1. /\ SagaInv' /\ LiveVersions' = LiveVersions /\ ObjectRows' = ObjectRows
        /\ Existing' = Existing /\ Newest' = Newest
    BY <1>3, ScanVerdictKeeps
  <2>2. UNCHANGED <<material, manifest, vectors, call, withdraw, lost>>
    BY <1>3 DEF ScanVerdict
  <2>3. Retrievable' = Retrievable /\ ClaimedObjects' = ClaimedObjects
    BY <2>1, <2>2, SameManifests DEF ClaimedObjects
  <2>4. \A k \in Pending : FindingOK(k) => FindingOK(k)'
    BY <1>0, <2>1, <2>2, <2>3 DEF FindingOK
  <2> QED BY <1>0, <2>1, <2>2, <2>3, <2>4, SweepGoesOn
<1>4. ASSUME NEW v \in Versions, StoreLoses(v)
      PROVE  StorageInv'
  <2>1. /\ SagaInv' /\ lost' # {} /\ Retrievable' = Retrievable
        /\ \A w \in Versions : vectors[w].held # "all" => vectors'[w].held # "all"
    BY <1>4, StoreLosesKeeps
  <2>2. UNCHANGED <<material, version, manifest, call, withdraw>>
    BY <1>4 DEF StoreLoses
  <2>3. /\ ClaimedObjects' = ClaimedObjects
        /\ LiveVersions' = LiveVersions /\ Existing' = Existing /\ Newest' = Newest
    BY <2>2, SameVersions DEF ClaimedObjects, ObjectRows, LiveVersions
  <2>4. sweep.retrievable \subseteq Versions
    BY <1>0 DEF SweepRow
  <2>5. \A k \in Pending : FindingOK(k) => FindingOK(k)'
    BY <1>0, <2>1, <2>2, <2>3, <2>4 DEF FindingOK
  <2> QED BY <1>0, <2>1, <2>2, <2>3, <2>5, SweepGoesOn
<1> QED BY <1>1, <1>2, <1>3, <1>4 DEF ClientStep

LEMMA SagaUnchanged ==
    ASSUME SagaInv, UNCHANGED sagaVars
    PROVE  /\ SagaInv' /\ Retrievable' = Retrievable /\ ClaimedObjects' = ClaimedObjects
           /\ LiveVersions' = LiveVersions /\ Existing' = Existing /\ Newest' = Newest
<1> USE DEF sagaVars
<1>1. Retrievable' = Retrievable /\ Existing' = Existing /\ Newest' = Newest
  BY SameManifests, SameVersions
<1>2. LiveVersions' = LiveVersions /\ ClaimedObjects' = ClaimedObjects
  BY DEF LiveVersions, ClaimedObjects, ObjectRows
<1>3. /\ StoresKept /\ material' \in MaterialRow /\ call' \in Call
      /\ withdraw' \in SUBSET Versions /\ faults' \in 0 .. MaxFaults
  BY DEF StoresKept, SagaInv, SagaTypeOK, MaterialRow
<1>4. NewestOK' /\ MaterialOK' /\ StageOK' /\ IndexCallOK' /\ DeleteCallOK'
  BY <1>1 DEF SagaInv, NewestOK, MaterialOK, StageOK, IndexCallOK, DeleteCallOK
<1>5. SagaInv'
  BY <1>3, <1>4, StoresKeptInv
<1> QED BY <1>1, <1>2, <1>5

(* What a finding says does not depend on the sweep's place in its pass.   *)
LEMMA SameFinding ==
    ASSUME UNCHANGED sagaVars, NEW k, sweep'.retrievable = sweep.retrievable,
           sweep'.served = sweep.served, FindingOK(k)
    PROVE  FindingOK(k)'
<1>1. Retrievable' = Retrievable /\ Existing' = Existing /\ Newest' = Newest
  BY SameManifests, SameVersions DEF sagaVars
<1>2. LiveVersions' = LiveVersions
  BY DEF LiveVersions, sagaVars
<1> QED BY <1>1, <1>2 DEF FindingOK, sagaVars

(* A sweep between two repairs.                                            *)
LEMMA BetweenRepairs ==
    ASSUME sweep' \in SweepRow, call'.pc = "idle", withdraw' = {}, sweep'.step = "record",
           sweep'.pc \in Checks \/ sweep'.todo = {},
           sweep'.pc = "rows" => ClaimedObjects' \subseteq sweep'.claimed,
           sweep'.pc = "vectors" => /\ sweep'.retrievable \subseteq Retrievable'
                                    /\ Retrievable' \subseteq sweep'.manifests,
           \A k \in sweep'.todo : FindingOK(k)'
    PROVE  SweepOK'
<1>1. Pending' = sweep'.todo
  BY DEF Pending
<1> QED BY <1>1 DEF SweepOK

LEMMA SweepReadsKeep ==
    ASSUME StorageInv, Exclusive,
           \/ \E repair \in BOOLEAN : StartSweep(repair)
           \/ CheckObjects \/ ReadManifests \/ CheckVectors \/ CheckActivePointer \/ NextCheck
    PROVE  StorageInv'
<1> USE DEF StorageInv
<1>0. /\ UNCHANGED sagaVars /\ sweep \in SweepRow
      /\ call' = call /\ withdraw' = withdraw
  BY DEF StartSweep, CheckObjects, ReadManifests, CheckVectors, CheckActivePointer, NextCheck,
         SweepOK, sagaVars
<1>1. /\ SagaInv' /\ Retrievable' = Retrievable /\ ClaimedObjects' = ClaimedObjects
      /\ LiveVersions' = LiveVersions /\ Existing' = Existing /\ Newest' = Newest
  BY <1>0, SagaUnchanged
<1>2. ASSUME NEW repair \in BOOLEAN, StartSweep(repair)
      PROVE  SweepOK'
  <2>1. sweep' = [NoSweep EXCEPT !.pc = "rows", !.repair = repair, !.live = LiveVersions,
                                 !.claimed = ClaimedObjects]
        /\ call.pc = "idle" /\ withdraw = {}
    BY <1>2 DEF StartSweep, Exclusive
  <2>2. LiveVersions \in SUBSET Versions /\ ClaimedObjects \in SUBSET Versions
    BY DEF LiveVersions, ClaimedObjects
  <2>3. /\ sweep' \in SweepRow /\ sweep'.pc = "rows" /\ sweep'.claimed = ClaimedObjects
        /\ sweep'.todo = {} /\ sweep'.step = "record"
    BY <2>1, <2>2, NoSweepFacts DEF SweepRow
  <2> QED BY BetweenRepairs, <1>0, <1>1, <2>1, <2>3 DEF Checks
<1>3. CASE CheckObjects
  <2> DEFINE todo == ({"missing_object"} \X (sweep.live \ bytes))
                       \cup ({"orphan_object"} \X (ObjectRows \ sweep.claimed))
  <2>1. sweep' = [sweep EXCEPT !.pc = "objects", !.todo = todo] /\ sweep.pc = "rows"
    BY <1>3 DEF CheckObjects
  <2>2. todo \in SUBSET Keys
    BY <1>0 DEF Keys, IssueKinds, SweepRow, ObjectRows
  <2>3. \A k \in todo : /\ k[1] \in {"missing_object", "orphan_object"}
                        /\ k[1] = "orphan_object" => k[2] \in ObjectRows \ sweep.claimed
    OBVIOUS
  <2> HIDE DEF todo
  <2>4. /\ sweep' \in SweepRow /\ sweep'.pc = "objects" /\ sweep'.todo = todo
        /\ sweep'.step = "record" /\ sweep.step = "record"
    BY <1>0, <2>1, <2>2 DEF SweepRow, Checks, SweepOK
  <2>5. call.pc = "idle" /\ withdraw = {}
    BY <2>1 DEF SweepOK
  <2>6. \A k \in todo : FindingOK(k)'
    BY <1>1, <2>1, <2>3 DEF FindingOK, SweepOK, ClaimedObjects
  <2> QED BY BetweenRepairs, <1>0, <1>1, <2>4, <2>5, <2>6 DEF Checks
<1>4. CASE ReadManifests
  <2> DEFINE found == {v \in Existing : manifest[v].state \in {"retained", "deleting"}}
  <2>1. sweep' = [sweep EXCEPT !.pc = "vectors", !.manifests = found,
                               !.retrievable = Retrievable] /\ sweep.pc = "manifests"
    BY <1>4 DEF ReadManifests
  <2>2. found \in SUBSET Versions /\ Retrievable \in SUBSET Versions /\ Retrievable \subseteq found
    BY DEF Existing, Retrievable, SagaInv, ManifestsOK, VersionsOK
  <2> HIDE DEF found
  <2>3. sweep.todo = {} /\ sweep.step = "record" /\ call.pc = "idle" /\ withdraw = {}
    BY <2>1 DEF SweepOK, Checks
  <2>4. /\ sweep' \in SweepRow /\ sweep'.pc = "vectors" /\ sweep'.manifests = found
        /\ sweep'.retrievable = Retrievable /\ sweep'.todo = {} /\ sweep'.step = "record"
    BY <1>0, <2>1, <2>2, <2>3 DEF SweepRow
  <2> QED BY BetweenRepairs, <1>0, <1>1, <2>2, <2>3, <2>4 DEF Checks
<1>5. CASE CheckVectors
  <2> DEFINE Held(h) == {v \in Versions : vectors[v].held = h}
             todo == ({"missing_vector"} \X (sweep.retrievable \cap Held("none")))
                       \cup ({"missing_chunk"} \X (sweep.manifests \cap Held("part")))
                       \cup ({"orphan_vector"} \X ((Held("part") \cup Held("all")) \ sweep.manifests))
  <2>1. sweep' = [sweep EXCEPT !.pc = "milvus", !.todo = todo] /\ sweep.pc = "vectors"
    BY <1>5 DEF CheckVectors
  <2>2. todo \in SUBSET Keys
    BY <1>0 DEF Keys, IssueKinds, SweepRow
  <2>3. \A k \in todo :
           \/ k[1] = "missing_vector" /\ k[2] \in sweep.retrievable /\ vectors[k[2]].held # "all"
           \/ k[1] = "missing_chunk" /\ vectors[k[2]].held # "all"
           \/ k[1] = "orphan_vector" /\ k[2] \notin sweep.manifests
    OBVIOUS
  <2> HIDE DEF todo
  <2>4. /\ sweep' \in SweepRow /\ sweep'.pc = "milvus" /\ sweep'.todo = todo
        /\ sweep'.step = "record" /\ sweep'.retrievable = sweep.retrievable
    BY <1>0, <2>1, <2>2 DEF SweepRow, Checks, SweepOK
  <2>5. /\ sweep.retrievable \subseteq Retrievable /\ Retrievable \subseteq sweep.manifests
        /\ call.pc = "idle" /\ withdraw = {}
    BY <2>1 DEF SweepOK
  <2>6. \A v \in sweep.retrievable : vectors[v].held # "all" => lost # {}
    BY <2>5 DEF SagaInv, ManifestsOK
  <2>7. \A k \in todo : FindingOK(k)'
    BY <1>0, <1>1, <2>3, <2>4, <2>5, <2>6 DEF FindingOK, sagaVars
  <2> QED BY BetweenRepairs, <1>0, <1>1, <2>4, <2>5, <2>7 DEF Checks
<1>6. CASE CheckActivePointer
  <2> DEFINE retained == {m \in Retrievable : manifest[m].state = "retained"}
             served == IF retained = {} THEN 0 ELSE Max(retained)
             todo == IF material.status = "available" /\ material.active # served
                         THEN {<<"version_drift", material.active>>} ELSE {}
  <2>1. sweep' = [sweep EXCEPT !.pc = "drift", !.served = served, !.todo = todo]
        /\ sweep.pc = "pointer"
    BY <1>6 DEF CheckActivePointer
  <2>2. served \in Existing \cup {0} /\ served \in Versions \cup {0}
    <3>1. CASE retained # {}
      <4>1. retained \in SUBSET (1 .. MaxVersions) /\ MaxVersions \in Nat
        BY SagaAssumption DEF Retrievable, Versions
      <4>2. Max(retained) \in retained
        BY <3>1, <4>1, MaxIsThere
      <4> QED BY <3>1, <4>2 DEF Retrievable, SagaInv, VersionsOK, Existing
    <3> QED BY <3>1
  <2> HIDE DEF served
  <2>3. todo \in SUBSET Keys
    BY DEF Keys, IssueKinds, SagaInv, SagaTypeOK
  <2>4. \A k \in todo : k[1] = "version_drift" /\ material.status = "available"
    OBVIOUS
  <2> HIDE DEF todo
  <2>5. /\ sweep' \in SweepRow /\ sweep'.pc = "drift" /\ sweep'.todo = todo
        /\ sweep'.step = "record" /\ sweep'.served = served
    BY <1>0, <2>1, <2>2, <2>3 DEF SweepRow, Checks, SweepOK
  <2>6. call.pc = "idle" /\ withdraw = {}
    BY <2>1 DEF SweepOK
  <2>7. \A k \in todo : FindingOK(k)'
    BY <1>0, <1>1, <2>2, <2>4, <2>5 DEF FindingOK, sagaVars
  <2> QED BY BetweenRepairs, <1>0, <1>1, <2>5, <2>6, <2>7 DEF Checks
<1>7. CASE NextCheck
  <2> DEFINE p == CASE sweep.pc = "objects" -> "manifests"
                    [] sweep.pc = "milvus"  -> "pointer"
                    [] sweep.pc = "drift"   -> "audit"
  <2>1. /\ sweep' = [NoSweep EXCEPT !.repair = sweep.repair, !.pc = p]
        /\ sweep.pc \in {"objects", "milvus", "drift"}
    BY <1>7 DEF NextCheck, Checks
  <2>2. p \in {"manifests", "pointer", "audit"}
    BY <2>1
  <2> HIDE DEF p
  <2>3. /\ sweep' \in SweepRow /\ sweep'.pc = p /\ sweep'.todo = {} /\ sweep'.step = "record"
    BY <1>0, <2>1, <2>2, NoSweepFacts DEF SweepRow
  <2>4. call.pc = "idle" /\ withdraw = {}
    BY <2>1 DEF SweepOK
  <2> QED BY BetweenRepairs, <1>0, <1>1, <2>2, <2>3, <2>4 DEF Checks
<1> QED BY <1>1, <1>2, <1>3, <1>4, <1>5, <1>6, <1>7

LEMMA RecordKeeps ==
    ASSUME StorageInv, NEW k \in Keys, Record(k)
    PROVE  StorageInv'
<1> USE DEF StorageInv
<1> DEFINE step == IF Repairable(k) THEN "repair" ELSE "record"
<1>1. /\ UNCHANGED sagaVars /\ sweep \in SweepRow /\ call' = call /\ withdraw' = withdraw
      /\ sweep.pc \in Checks /\ k \in sweep.todo
      /\ sweep' = [sweep EXCEPT !.todo = sweep.todo \ {k}, !.at = k, !.step = step]
  BY DEF Record, SweepOK, sagaVars
<1>2. SagaInv'
  BY <1>1, SagaUnchanged
<1>3. step \in {"record", "repair"} /\ (step = "repair" => Repairable(k))
  OBVIOUS
<1> HIDE DEF step
<1>4. /\ sweep' \in SweepRow /\ sweep'.pc = sweep.pc /\ sweep'.todo = sweep.todo \ {k}
      /\ sweep'.at = k /\ sweep'.step = step /\ sweep'.repair = sweep.repair
      /\ sweep'.retrievable = sweep.retrievable /\ sweep'.served = sweep.served
  <2>1. sweep.todo \ {k} \in SUBSET Keys
    BY <1>1 DEF SweepRow
  <2> QED BY <1>1, <1>3, <2>1 DEF SweepRow
<1>5. sweep'.step = "repair" => Repairable(sweep.at)'
  BY <1>3, <1>4 DEF Repairable
<1>6. \A j \in Pending' : j \in Pending
  BY <1>1, <1>4 DEF Pending
<1>7. \A j \in Pending' : FindingOK(j)'
  <2>1. \A j \in Pending' : FindingOK(j)
    BY <1>1, <1>6 DEF SweepOK, Checks
  <2> QED BY <1>1, <1>4, <2>1, SameFinding
<1>8. call.pc = "idle" /\ withdraw = {} /\ sweep.pc \notin {"idle", "rows", "vectors"}
  BY <1>1 DEF SweepOK, Checks
<1>9. SweepOK'
  BY <1>1, <1>4, <1>5, <1>7, <1>8 DEF SweepOK
<1> QED BY <1>2, <1>9

(* A repair that ends, or has done its first half.                         *)
LEMMA RepairEnds ==
    ASSUME SweepOK, sweep.step \in {"repair", "row"}, UNCHANGED <<call, withdraw>>,
           NEW step \in {"record", "row"}, sweep' = [sweep EXCEPT !.step = step],
           \A k \in Pending : FindingOK(k) => FindingOK(k)'
    PROVE  SweepOK'
<1>1. sweep \in SweepRow /\ (sweep.pc \in Checks \/ sweep.pc = "idle")
  BY DEF SweepOK
<1>2. /\ sweep' \in SweepRow /\ sweep'.pc = sweep.pc /\ sweep'.todo = sweep.todo
      /\ sweep'.at = sweep.at /\ sweep'.step = step
  BY <1>1 DEF SweepRow
<1>3. Pending' \subseteq Pending
  BY <1>2 DEF Pending
<1> QED BY <1>1, <1>2, <1>3 DEF SweepOK, Checks

(* While a finding is repaired.                                            *)
LEMMA RepairFacts ==
    ASSUME StorageInv, sweep.step \in {"repair", "row"}
    PROVE  /\ sweep.pc \in Checks /\ sweep \in SweepRow /\ FindingOK(sweep.at) /\ sweep.at \in Pending
           /\ sweep.step = "repair" => Repairable(sweep.at)
           /\ call.pc = "idle" /\ withdraw = {} /\ ~ call.deleting
           /\ sweep.at[2] \in Versions \cup {0} /\ sweep.retrievable \subseteq Versions
<1>1. sweep.at \in Pending /\ sweep \in SweepRow /\ sweep.pc \in Checks
  BY DEF Pending, StorageInv, SweepOK
<1>2. sweep.at[2] \in Versions \cup {0} /\ sweep.retrievable \subseteq Versions
  BY <1>1 DEF SweepRow, Keys
<1>3. call.pc = "idle" /\ withdraw = {}
  BY <1>1 DEF StorageInv, SweepOK, Checks
<1>4. ~ call.deleting
  BY <1>3 DEF StorageInv, SagaInv, DeleteCallOK
<1> QED BY <1>1, <1>2, <1>3, <1>4 DEF StorageInv, SweepOK, Checks


(* The repairs that only close their issue.                                *)
LEMMA RepairClosedKeeps ==
    ASSUME StorageInv, RepairObjectRow \/ RepairFails
    PROVE  StorageInv'
<1> USE DEF StorageInv
<1>1. /\ UNCHANGED sagaVars /\ UNCHANGED <<call, withdraw>> /\ sweep.step \in {"repair", "row"}
      /\ sweep' = [sweep EXCEPT !.step = "record"]
  BY DEF RepairObjectRow, RepairFails, Ends, sagaVars
<1>2. SagaInv' /\ sweep \in SweepRow
  BY <1>1, SagaUnchanged DEF SweepOK
<1>3. sweep'.retrievable = sweep.retrievable /\ sweep'.served = sweep.served
  BY <1>1, <1>2 DEF SweepRow
<1>4. \A k \in Pending : FindingOK(k) => FindingOK(k)'
  BY <1>1, <1>3, SameFinding
<1> QED BY <1>1, <1>2, <1>4, RepairEnds

LEMMA RepairOrphanObjectKeeps ==
    ASSUME StorageInv, RepairOrphanObject
    PROVE  /\ StorageInv' /\ sweep.at[2] \notin LiveVersions
           /\ bytes \ bytes' \subseteq {sweep.at[2]} /\ UNCHANGED <<version, manifest, vectors>>
<1> USE DEF StorageInv
<1> DEFINE v == sweep.at[2]
<1>0. /\ UNCHANGED <<material, version, manifest, vectors, call, withdraw, lost, faults>>
      /\ sweep.step = "repair" /\ sweep.at[1] = "orphan_object"
      /\ \E step \in {"record", "row"} : sweep' = [sweep EXCEPT !.step = step]
      /\ bytes' \subseteq bytes /\ bytes \ bytes' \subseteq {v}
  BY DEF RepairOrphanObject, Repairing, Ends
<1>1. /\ v \notin LiveVersions /\ sweep \in SweepRow /\ call.pc = "idle"
  BY <1>0, RepairFacts DEF FindingOK
<1> HIDE DEF v
<1>2. v \notin Retrievable
  BY <1>1 DEF SagaInv, ManifestsOK, VersionsOK, Retrievable
<1>3. /\ Existing' = Existing /\ Newest' = Newest /\ Retrievable' = Retrievable
      /\ LiveVersions' = LiveVersions
  BY <1>0, SameVersions, SameManifests DEF LiveVersions
<1>4. StageOK' /\ DeleteCallOK'
  BY <1>0, <1>3 DEF SagaInv, StageOK, DeleteCallOK
<1>5. IndexCallOK'
  BY <1>0, <1>1 DEF IndexCallOK, WorksOn
<1>6. SagaInv'
  BY <1>0, <1>2, <1>4, <1>5, StoresWritten DEF SagaInv, SagaTypeOK, RowsKept
<1>7. sweep'.retrievable = sweep.retrievable /\ sweep'.served = sweep.served
  BY <1>0, <1>1 DEF SweepRow
<1>8. \A k \in Pending : FindingOK(k) => FindingOK(k)'
  BY <1>0, <1>3, <1>7 DEF FindingOK
<1>9. SweepOK'
  BY <1>0, <1>8, RepairEnds
<1> QED BY <1>0, <1>1, <1>6, <1>9 DEF v

LEMMA RepairOrphanVectorsKeeps ==
    ASSUME StorageInv, RepairOrphanVectors
    PROVE  /\ StorageInv' /\ sweep.at[2] \notin Retrievable /\ UNCHANGED <<bytes, manifest>>
           /\ \A w \in Versions : w # sweep.at[2] => vectors'[w] = vectors[w]
<1> USE DEF StorageInv
<1> DEFINE v == sweep.at[2]
<1>0. /\ UNCHANGED <<material, version, manifest, bytes, call, withdraw, lost, faults>>
      /\ sweep.step = "repair" /\ sweep.at[1] = "orphan_vector"
      /\ sweep' = [sweep EXCEPT !.step = "record"]
      /\ vectors' = vectors \/ vectors' = [vectors EXCEPT ![v] = NoVectors]
  BY DEF RepairOrphanVectors, Repairing, Ends
<1>1. /\ v \notin Retrievable /\ sweep \in SweepRow /\ call.pc = "idle"
      /\ sweep.retrievable \subseteq Versions
  BY <1>0, RepairFacts DEF FindingOK
<1> HIDE DEF v
<1>2. /\ vectors' \in [Versions -> VectorRows]
      /\ \A w \in Versions : /\ w # v => vectors'[w] = vectors[w]
                             /\ vectors[w].held # "all" => vectors'[w].held # "all"
  <2>1. vectors \in [Versions -> VectorRows]
    BY DEF SagaInv, SagaTypeOK
  <2>2. NoVectors \in VectorRows /\ NoVectors.held = "none"
    BY DEF NoVectors, VectorRows
  <2>3. CASE vectors' = vectors
    BY <2>1, <2>3
  <2>4. CASE vectors' = [vectors EXCEPT ![v] = NoVectors]
    BY <2>1, <2>2, <2>4
  <2> QED BY <1>0, <2>3, <2>4
<1>3. /\ Existing' = Existing /\ Newest' = Newest /\ Retrievable' = Retrievable
      /\ LiveVersions' = LiveVersions
  BY <1>0, SameVersions, SameManifests DEF LiveVersions
<1>4. StageOK' /\ DeleteCallOK'
  BY <1>0, <1>3 DEF SagaInv, StageOK, DeleteCallOK
<1>5. IndexCallOK'
  BY <1>0, <1>1 DEF IndexCallOK, WorksOn
<1>6. SagaInv'
  BY <1>0, <1>1, <1>2, <1>4, <1>5, StoresWritten
     DEF SagaInv, SagaTypeOK, RowsKept, Retrievable
<1>7. sweep'.retrievable = sweep.retrievable /\ sweep'.served = sweep.served
  BY <1>0, <1>1 DEF SweepRow
<1>8. \A k \in Pending : FindingOK(k) => FindingOK(k)'
  BY <1>0, <1>1, <1>2, <1>3, <1>7 DEF FindingOK
<1>9. SweepOK'
  BY <1>0, <1>8, RepairEnds
<1> QED BY <1>0, <1>1, <1>2, <1>6, <1>9 DEF v

LEMMA RepairActivePointerKeeps ==
    ASSUME StorageInv, RepairActivePointer
    PROVE  StorageInv'
<1> USE DEF StorageInv
<1>0. /\ UNCHANGED <<version, manifest, bytes, vectors, call, withdraw, lost, faults>>
      /\ material' = [material EXCEPT !.active = sweep.served]
      /\ sweep.step = "repair" /\ sweep.at[1] = "version_drift"
      /\ sweep' = [sweep EXCEPT !.step = "record"]
  BY DEF RepairActivePointer, Repairing, Ends
<1>1. /\ FindingOK(sweep.at) /\ sweep \in SweepRow /\ call.pc = "idle" /\ ~ call.deleting
      /\ withdraw = {}
  BY <1>0, RepairFacts
<1>2. /\ material.status \in {"available", "pending_upload"}
      /\ sweep.served \in Existing \cup {0}
      /\ material.status = "pending_upload" => Existing # {} /\ sweep.served # Newest
  BY <1>0, <1>1 DEF FindingOK
<1>3. /\ material' \in MaterialRow /\ material'.status = material.status
      /\ material'.active = sweep.served
  BY <1>0, <1>1 DEF SagaInv, SagaTypeOK, MaterialRow, SweepRow
<1>4. StoresKept /\ Existing' = Existing /\ Newest' = Newest /\ Retrievable' = Retrievable
      /\ LiveVersions' = LiveVersions
  BY <1>0, StoresKeptFacts DEF StoresKept
<1>5. NewestOK'
  BY <1>0, <1>3, <1>4 DEF SagaInv, NewestOK
<1>6. MaterialOK'
  BY <1>0, <1>2, <1>3, <1>4 DEF SagaInv, MaterialOK
<1>7. StageOK' /\ IndexCallOK'
  BY <1>0, <1>1 DEF StageOK, IndexCallOK, WorksOn
<1>8. DeleteCallOK'
  BY <1>0, <1>1 DEF DeleteCallOK
<1>9. SagaInv'
  BY <1>0, <1>3, <1>4, <1>5, <1>6, <1>7, <1>8, StoresKeptInv DEF SagaInv, SagaTypeOK
<1>10. sweep'.retrievable = sweep.retrievable /\ sweep'.served = sweep.served
  BY <1>0, <1>1 DEF SweepRow
<1>11. \A k \in Pending : FindingOK(k) => FindingOK(k)'
  BY <1>0, <1>3, <1>4, <1>10 DEF FindingOK
<1>12. SweepOK'
  BY <1>0, <1>11, RepairEnds
<1> QED BY <1>9, <1>12

LEMMA RepairWithdrawManifestKeeps ==
    ASSUME StorageInv, RepairWithdrawManifest
    PROVE  /\ StorageInv' /\ bytes' = bytes /\ lost' # {} /\ vectors[sweep.at[2]].held # "all"
           /\ \A w \in Versions : w # sweep.at[2] =>
                 vectors'[w] = vectors[w] /\ manifest'[w] = manifest[w]
<1> USE DEF StorageInv
<1> DEFINE v == sweep.at[2]
<1>0. /\ UNCHANGED <<material, version, bytes, call, withdraw, lost, faults>>
      /\ sweep.step = "repair" /\ sweep.at[1] \in {"missing_vector", "missing_chunk"}
      /\ sweep' = [sweep EXCEPT !.step = "record"]
      /\ \/ UNCHANGED <<manifest, vectors>>
         \/ /\ manifest' = [manifest EXCEPT ![v].retrievable = FALSE]
            /\ vectors' = [vectors EXCEPT ![v] = SetRetrievable(vectors[v], FALSE)]
  BY DEF RepairWithdrawManifest, Repairing, Ends
<1>1. /\ FindingOK(sweep.at) /\ sweep \in SweepRow /\ Repairable(sweep.at)
      /\ call.pc = "idle" /\ ~ call.deleting /\ withdraw = {}
      /\ sweep.retrievable \subseteq Versions
  BY <1>0, RepairFacts
<1>2. v \in sweep.retrievable /\ v \in Versions /\ lost # {} /\ vectors[v].held # "all"
  BY <1>0, <1>1 DEF FindingOK, Repairable
<1> HIDE DEF v
<1>3. manifest \in [Versions -> ManifestRow] /\ vectors \in [Versions -> VectorRows]
  BY DEF SagaInv, SagaTypeOK
<1>4. /\ manifest' \in [Versions -> ManifestRow]
      /\ \A w \in Versions : /\ w # v => manifest'[w] = manifest[w]
                             /\ manifest'[w].state = manifest[w].state
                             /\ manifest'[w].verified = manifest[w].verified
                             /\ manifest'[w].retrievable => manifest[w].retrievable
  <2>1. CASE manifest' = manifest
    BY <1>3, <2>1
  <2>2. CASE manifest' = [manifest EXCEPT ![v].retrievable = FALSE]
    <3>1. /\ manifest' \in [Versions -> ManifestRow]
          /\ \A w \in Versions : w # v => manifest'[w] = manifest[w]
      BY <1>2, <1>3, <2>2 DEF ManifestRow
    <3>2. /\ manifest'[v].state = manifest[v].state /\ ~ manifest'[v].retrievable
          /\ manifest'[v].verified = manifest[v].verified
      BY <1>2, <1>3, <2>2 DEF ManifestRow
    <3> QED BY <3>1, <3>2
  <2> QED BY <1>0, <2>1, <2>2
<1>5. /\ vectors' \in [Versions -> VectorRows]
      /\ \A w \in Versions : /\ w # v => vectors'[w] = vectors[w]
                             /\ vectors'[w].held = vectors[w].held
  <2>1. SetRetrievable(vectors[v], FALSE) \in VectorRows
        /\ SetRetrievable(vectors[v], FALSE).held = vectors[v].held
    BY <1>2, <1>3, RowsFacts
  <2> QED BY <1>0, <1>2, <1>3, <2>1
<1>6. /\ Existing' = Existing /\ Newest' = Newest /\ Retrievable' \subseteq Retrievable
      /\ LiveVersions' = LiveVersions
  BY <1>0, <1>4, SameVersions DEF LiveVersions, Retrievable
<1>7. VersionsOK'
  BY <1>0, <1>4, <1>6 DEF SagaInv, VersionsOK
<1>8. ManifestsOK'
  BY <1>0, <1>4, <1>5, <1>6 DEF SagaInv, ManifestsOK, Retrievable
<1>9. NewestOK' /\ MaterialOK'
  BY <1>0, <1>2, <1>6 DEF SagaInv, NewestOK, MaterialOK
<1>10. StageOK' /\ IndexCallOK'
  BY <1>0, <1>1 DEF StageOK, IndexCallOK, WorksOn
<1>11. DeleteCallOK'
  BY <1>0, <1>1 DEF DeleteCallOK
<1>12. SagaInv'
  BY <1>0, <1>4, <1>5, <1>7, <1>8, <1>9, <1>10, <1>11 DEF SagaInv, SagaTypeOK
<1>13. sweep'.retrievable = sweep.retrievable /\ sweep'.served = sweep.served
  BY <1>0, <1>1 DEF SweepRow
<1>14. \A k \in Pending : FindingOK(k) => FindingOK(k)'
  BY <1>0, <1>1, <1>5, <1>6, <1>13 DEF FindingOK
<1>15. SweepOK'
  BY <1>0, <1>14, RepairEnds
<1> QED BY <1>0, <1>2, <1>4, <1>5, <1>12, <1>15 DEF v

LEMMA SweepEndsKeep ==
    ASSUME StorageInv, Unavailable \/ AuditTransitions \/ SweepDies
    PROVE  StorageInv'
<1> USE DEF StorageInv
<1>1. /\ UNCHANGED <<material, version, manifest, bytes, vectors, call, withdraw, lost>>
      /\ faults' \in 0 .. MaxFaults /\ sweep' = NoSweep
  BY SagaAssumption
     DEF Unavailable, AuditTransitions, SweepDies, sagaVars, SagaInv, SagaTypeOK
<1>2. StoresKept /\ Existing' = Existing /\ Newest' = Newest /\ Retrievable' = Retrievable
  BY <1>1, StoresKeptFacts DEF StoresKept
<1>3. NewestOK' /\ MaterialOK' /\ StageOK' /\ IndexCallOK' /\ DeleteCallOK'
  BY <1>1, <1>2 DEF SagaInv, NewestOK, MaterialOK, StageOK, IndexCallOK, DeleteCallOK
<1>4. SagaInv'
  BY <1>1, <1>2, <1>3, StoresKeptInv DEF SagaInv, SagaTypeOK, MaterialRow
<1> QED BY <1>1, <1>4, FreshSweepOK

-----------------------------------------------------------------------------
LEMMA StorageInitInv ==
    ASSUME Init
    PROVE  StorageInv
BY SagaInitInv, SweepInitOK DEF Init, StorageInv

LEMMA StorageNextInv ==
    ASSUME StorageInv, Exclusive, Next
    PROVE  StorageInv'
<1>1. CASE Sweep
  BY <1>1, SweepReadsKeep, RecordKeeps, RepairOrphanObjectKeeps, RepairClosedKeeps,
     RepairWithdrawManifestKeeps, RepairOrphanVectorsKeeps, RepairActivePointerKeeps,
     SweepEndsKeep
     DEF Sweep
<1> QED BY <1>1, SagaStepKeeps, ClientStepKeeps, SweepReadsKeep, SweepEndsKeep DEF Next

LEMMA StorageStutterInv ==
    ASSUME StorageInv, UNCHANGED vars
    PROVE  StorageInv'
<1> USE DEF StorageInv, vars, sweepVars
<1>1. SagaInv' /\ Retrievable' = Retrievable /\ ClaimedObjects' = ClaimedObjects
      /\ LiveVersions' = LiveVersions
  BY SagaUnchanged
<1>2. \A k \in Pending : FindingOK(k) => FindingOK(k)'
  BY SameFinding
<1> QED BY <1>1, <1>2, SweepGoesOn DEF sagaVars

(* Whatever begin_upload, drain, recover, request_delete, the client, the  *)
(* scanner and the reconciler do in turn, and wherever one of them dies,   *)
(* the rows, the two other stores and the running call or sweep fit        *)
(* together as StorageInv says; deletions and sweeps come between calls.   *)
THEOREM StorageIsSafe ==
    ASSUME Exclusive
    PROVE  Spec => []StorageInv
<1>1. Init => StorageInv
  BY StorageInitInv
<1>2. StorageInv /\ [Next]_vars => StorageInv'
  BY StorageNextInv, StorageStutterInv
<1> QED BY <1>1, <1>2, PTL DEF Spec

LEMMA InvIsSound ==
    ASSUME StorageInv
    PROVE  ServedIsSound
<1> USE DEF StorageInv, SagaInv
<1>1. \A v \in Served \ lost : v \in bytes /\ version[v].scan = "clean" /\ vectors[v].held = "all"
  BY DEF Served, ResolveScope, ManifestsOK
<1>2. Cardinality(Retrievable) <= 1
  <2>1. CASE Retrievable = {}
    BY <2>1, FS_EmptySet
  <2>2. CASE Retrievable # {}
    <3>1. PICK v \in Retrievable : TRUE
      BY <2>2
    <3>2. Retrievable = {v}
      BY <3>1 DEF ManifestsOK
    <3> QED BY <3>2, FS_Singleton
  <2> QED BY <2>1, <2>2
<1>3. material.status = "available" /\ lost = {} => ResolveScope # {}
  BY DEF MaterialOK, ManifestsOK, ResolveScope
<1> QED BY <1>1, <1>2, <1>3 DEF ServedIsSound

(* What a search is served was scanned clean, has its bytes and all its    *)
(* chunks unless a store lost them; one manifest at most is retrievable,   *)
(* and an available material has one: activate's single transaction,       *)
(* _retire_manifests, recover and _step_delete agree, for any number of    *)
(* versions, crashes and retries.                                          *)
THEOREM MaterialsAreSound ==
    ASSUME Exclusive
    PROVE  Spec => []ServedIsSound
<1>1. StorageInv => ServedIsSound
  BY InvIsSound
<1> QED BY <1>1, StorageIsSafe, PTL

-----------------------------------------------------------------------------
(* What a step leaves served.                                              *)
LEMMA SameServed ==
    ASSUME NEW v \in Versions, manifest'[v].retrievable = manifest[v].retrievable,
           manifest'[v].state = manifest[v].state, vectors'[v] = vectors[v]
    PROVE  v \in Served' <=> v \in Served
BY DEF Served, ResolveScope, Retrievable, SearchFinds

LEMMA UnchangedServed ==
    ASSUME UNCHANGED <<manifest, vectors>>
    PROVE  Served' = Served
BY DEF Served, ResolveScope, Retrievable, SearchFinds

LEMMA ServedFacts ==
    Served \subseteq Retrievable /\ Served \subseteq Versions
BY DEF Served, ResolveScope, Retrievable

LEMMA RepairStepIsSafe ==
    ASSUME StorageInv, Exclusive, Next, sweep.pc # "idle", sweep' # sweep
    PROVE  /\ (bytes \ bytes') \cap LiveVersions = {}
           /\ \A v \in Served : vectors[v].held = "all" => v \in Served'
<1>1. CASE RepairOrphanObject
  <2>1. /\ sweep.at[2] \notin LiveVersions /\ bytes \ bytes' \subseteq {sweep.at[2]}
        /\ UNCHANGED <<version, manifest, vectors>>
    BY <1>1, RepairOrphanObjectKeeps
  <2> QED BY <2>1, UnchangedServed
<1>2. CASE RepairWithdrawManifest
  <2>1. /\ bytes' = bytes /\ vectors[sweep.at[2]].held # "all"
        /\ \A w \in Versions : w # sweep.at[2] =>
                 vectors'[w] = vectors[w] /\ manifest'[w] = manifest[w]
    BY <1>2, RepairWithdrawManifestKeeps
  <2>2. \A w \in Versions : w # sweep.at[2] => (w \in Served' <=> w \in Served)
    BY <2>1, SameServed
  <2> QED BY <2>1, <2>2, ServedFacts
<1>3. CASE RepairOrphanVectors
  <2>1. /\ sweep.at[2] \notin Retrievable /\ UNCHANGED <<bytes, manifest>>
        /\ \A w \in Versions : w # sweep.at[2] => vectors'[w] = vectors[w]
    BY <1>3, RepairOrphanVectorsKeeps
  <2>2. \A w \in Versions : w # sweep.at[2] => (w \in Served' <=> w \in Served)
    BY <2>1, SameServed
  <2> QED BY <2>1, <2>2, ServedFacts
<1>4. ASSUME UNCHANGED <<bytes, manifest, vectors>>
      PROVE  /\ (bytes \ bytes') \cap LiveVersions = {}
             /\ \A v \in Served : vectors[v].held = "all" => v \in Served'
  BY <1>4, UnchangedServed
<1>5. sweep' = sweep \/ RepairOrphanObject \/ RepairWithdrawManifest \/ RepairOrphanVectors
      \/ UNCHANGED <<bytes, manifest, vectors>>
  <2>1. CASE SagaStep \/ ClientStep
    BY <2>1 DEF SagaStep, ClientStep, sweepVars
  <2>2. CASE \E repair \in BOOLEAN : StartSweep(repair)
    BY <2>2 DEF StartSweep, sagaVars
  <2>3. CASE Sweep
    BY <2>3
       DEF Sweep, CheckObjects, ReadManifests, CheckVectors, CheckActivePointer, Record,
           RepairObjectRow, RepairActivePointer, RepairFails, NextCheck, AuditTransitions, sagaVars
  <2>4. CASE Unavailable \/ SweepDies
    BY <2>4 DEF Unavailable, SweepDies, sagaVars
  <2> QED BY <2>1, <2>2, <2>3, <2>4 DEF Next
<1> QED BY <1>1, <1>2, <1>3, <1>4, <1>5

(* CrossStoreReconciler destroys nothing alive: its repairs remove neither *)
(* the bytes of a live version nor complete rows that are being served,    *)
(* although uploads and scanner verdicts come in between its check and its *)
(* repair.                                                                 *)
THEOREM SweepsAreSafe ==
    ASSUME Exclusive
    PROVE  Spec => RepairIsSafe
<1> DEFINE Safe == sweep.pc # "idle" /\ sweep' # sweep =>
                     /\ (bytes \ bytes') \cap LiveVersions = {}
                     /\ \A v \in Served : vectors[v].held = "all" => v \in Served'
<1>1. StorageInv /\ [Next]_vars => [Safe]_vars
  BY RepairStepIsSafe
<1>2. Spec => [][Safe]_vars
  BY <1>1, StorageIsSafe, PTL DEF Spec
<1> QED BY <1>2 DEF RepairIsSafe

-----------------------------------------------------------------------------
(* A step that may stop the serving has a reason to.                       *)
Excused == \/ withdraw # {} \/ call.deleting \/ lost' # {}
           \/ call.pc = "upsert" /\ call.v \in Served

StillServed == Served # {} /\ Served' = {} => Excused

LEMMA UpsertStillServes ==
    ASSUME SagaInv, Upsert
    PROVE  StillServed
<1>1. PICK held \in {"part", "all"} :
            vectors' = [vectors EXCEPT ![call.v] = UpsertChunks(vectors[call.v], held)]
  BY DEF Upsert
<1>2. manifest' = manifest /\ call.pc = "upsert" /\ vectors \in [Versions -> VectorRows]
  BY DEF Upsert, SagaInv, SagaTypeOK
<1>3. \A w \in Versions : w # call.v => vectors'[w] = vectors[w]
  BY <1>1, <1>2
<1>4. \A w \in Versions : w # call.v => (w \in Served' <=> w \in Served)
  BY <1>2, <1>3, SameServed
<1> QED BY <1>2, <1>4, ServedFacts DEF StillServed, Excused

LEMMA IndexingStillServes ==
    ASSUME SagaInv, StageManifest \/ VerifyCount \/ ActivateLoad \/ Switch \/ Demote
    PROVE  StillServed
<1> USE DEF SagaInv
<1>0. /\ vectors \in [Versions -> VectorRows] /\ manifest \in [Versions -> ManifestRow]
      /\ call.pc \in {"stage", "count", "activate", "switch", "demote"}
      /\ call.v \in Versions /\ lost' = lost
  <2>1. call.pc \in {"stage", "count", "activate", "switch", "demote"}
    BY DEF StageManifest, VerifyCount, ActivateLoad, Switch, Demote
  <2>2. call.v \in Versions
    BY <2>1 DEF IndexCallOK, WorksOn, Existing
  <2> QED
    BY <2>1, <2>2 DEF StageManifest, VerifyCount, ActivateLoad, Switch, Demote, SagaTypeOK
<1>1. CASE StageManifest
  <2>1. vectors' = vectors
        /\ \A w \in Versions : \/ manifest'[w] = manifest[w]
                               \/ manifest[w].state = "none" /\ w = call.v
    BY <1>0, <1>1 DEF StageManifest, FindManifest
  <2>2. \A w \in Served : manifest'[w] = manifest[w] /\ vectors'[w] = vectors[w]
    BY <2>1 DEF Served, ResolveScope, Retrievable
  <2> QED BY <2>2, ServedFacts, SameServed DEF StillServed
<1>2. CASE VerifyCount
  <2>1. vectors' = vectors
        /\ \A w \in Versions : /\ manifest'[w].retrievable = manifest[w].retrievable
                               /\ manifest'[w].state = manifest[w].state
    BY <1>0, <1>2 DEF VerifyCount, ManifestRow
  <2> QED BY <2>1, ServedFacts, SameServed DEF StillServed
<1>3. CASE ActivateLoad
  <2>1. manifest' = manifest
        /\ \/ vectors' = vectors
           \/ vectors' = [vectors EXCEPT ![call.v] = SetRetrievable(vectors[call.v], TRUE)]
    BY <1>3 DEF ActivateLoad
  <2>2. CASE vectors' = vectors
    BY <2>1, <2>2, UnchangedServed DEF StillServed
  <2>3. CASE vectors' = [vectors EXCEPT ![call.v] = SetRetrievable(vectors[call.v], TRUE)]
    <3>1. /\ \A w \in Versions : w # call.v => vectors'[w] = vectors[w]
          /\ vectors'[call.v] = SetRetrievable(vectors[call.v], TRUE)
          /\ vectors[call.v] \in VectorRows
      BY <1>0, <2>3
    <3>2. vectors[call.v].held # "none" =>
            vectors'[call.v].flag /\ vectors'[call.v].held # "none"
      BY <3>1 DEF SetRetrievable, QueryPrefix, VectorRows
    <3>3. Served \subseteq Served'
      BY <1>0, <2>1, <3>1, <3>2 DEF Served, ResolveScope, Retrievable, SearchFinds
    <3> QED BY <3>3 DEF StillServed
  <2> QED BY <2>1, <2>2, <2>3
<1>4. CASE Switch
  <2>0. /\ manifest[call.v].state = "retained"
        /\ call.v \in lost \/ (vectors[call.v].held = "all" /\ vectors[call.v].flag)
        /\ vectors' = vectors
    BY <1>4 DEF Switch, IndexCallOK
  <2>1. CASE manifest' = manifest
    BY <2>0, <2>1, UnchangedServed DEF StillServed
  <2>2. CASE manifest' = [m \in Versions |-> Switched(m)]
    <3>1. manifest'[call.v].retrievable /\ manifest'[call.v].state = "retained"
      BY <1>0, <2>0, <2>2 DEF Switched, ManifestRow
    <3>2. call.v \in lost \/ call.v \in Served'
      BY <1>0, <2>0, <3>1 DEF Served, ResolveScope, Retrievable, SearchFinds
    <3> QED BY <1>0, <3>2 DEF StillServed, Excused
  <2> QED BY <1>4, <2>1, <2>2 DEF Switch
<1>5. CASE Demote
  <2>1. /\ call.v \in Retrievable /\ call.old # call.v /\ manifest' = manifest
        /\ vectors' = [vectors EXCEPT ![call.old] = SetRetrievable(vectors[call.old], FALSE)]
    BY <1>5 DEF Demote, IndexCallOK
  <2>2. call.old \notin Served
    BY <2>1, ServedFacts DEF ManifestsOK
  <2>3. \A w \in Served : vectors'[w] = vectors[w] /\ manifest'[w] = manifest[w]
    BY <1>0, <2>1, <2>2, ServedFacts
  <2> QED BY <2>3, ServedFacts, SameServed DEF StillServed
<1> QED BY <1>1, <1>2, <1>3, <1>4, <1>5

LEMMA DeletingStillServes ==
    ASSUME SagaInv, DeleteMark \/ DeleteVectors \/ DeleteConfirm \/ PurgeSql
    PROVE  StillServed
<1> USE DEF SagaInv
<1> DEFINE m == Max(call.todo)
<1>0. vectors \in [Versions -> VectorRows] /\ manifest \in [Versions -> ManifestRow]
  BY DEF SagaTypeOK
<1>1. CASE call.deleting
  BY <1>1 DEF StillServed, Excused
<1>2. CASE PurgeSql
  BY <1>1, <1>2 DEF PurgeSql, DeleteCallOK
<1>3. CASE ~ call.deleting /\ (DeleteMark \/ DeleteVectors \/ DeleteConfirm)
  <2>1. call.pc \in {"mark", "remove", "confirm"}
    BY <1>3 DEF DeleteMark, DeleteVectors, DeleteConfirm
  <2>2. m \in Versions /\ m \notin Retrievable
    BY <1>3, <2>1, TodoFacts DEF DeleteCallOK
  <2>3. \A w \in Versions : w # m => manifest'[w] = manifest[w] /\ vectors'[w] = vectors[w]
    <3>1. CASE DeleteMark
      BY <1>0, <3>1 DEF DeleteMark
    <3>2. CASE DeleteVectors
      BY <1>0, <3>2 DEF DeleteVectors
    <3>3. CASE DeleteConfirm
      BY <1>0, <3>3 DEF DeleteConfirm
    <3> QED BY <1>3, <3>1, <3>2, <3>3
  <2> HIDE DEF m
  <2>4. \A w \in Served : w \in Versions /\ w # m
    BY <2>2, ServedFacts
  <2> QED BY <2>3, <2>4, SameServed DEF StillServed
<1> QED BY <1>1, <1>2, <1>3

LEMMA CallStillServes ==
    ASSUME SagaInv, CallStep
    PROVE  StillServed
<1>1. CASE \/ NoVersions \/ StepVerifyLoad \/ Transition \/ VerifyUpload \/ RecordObject
           \/ StepScan \/ StepIndexLoad \/ LoadChunks \/ Publish \/ StepDeleteLoad
           \/ DeleteObjects \/ FinishDelete \/ Park
  <2>1. UNCHANGED <<manifest, vectors>>
    BY <1>1
       DEF NoVersions, StepVerifyLoad, Transition, VerifyUpload, RecordObject, StepScan,
           StepIndexLoad, LoadChunks, Publish, StepDeleteLoad, DeleteObjects, FinishDelete, Park
  <2> QED BY <2>1, UnchangedServed DEF StillServed
<1> QED
  BY <1>1, UpsertStillServes, IndexingStillServes, DeletingStillServes DEF CallStep

LEMMA StepStillServes ==
    ASSUME StorageInv, Exclusive, Next
    PROVE  StillServed
<1> USE DEF StorageInv
<1>1. ASSUME UNCHANGED <<manifest, vectors>>
      PROVE  StillServed
  BY <1>1, UnchangedServed DEF StillServed
<1>2. CASE SagaStep
  <2>1. CASE Withdraw
    <3>1. withdraw # {}
      BY <2>1 DEF Withdraw
    <3> QED BY <3>1 DEF StillServed, Excused
  <2>2. CASE Advance \/ RequestDelete \/ WithdrawLost \/ Recover \/ Crash
    BY <1>1, <2>2 DEF Advance, RequestDelete, WithdrawLost, Recover, Crash
  <2> QED BY <1>2, <2>1, <2>2, CallStillServes DEF SagaStep
<1>3. CASE ClientStep
  <2>1. ASSUME NEW v \in Versions, StoreLoses(v)
        PROVE  StillServed
    <3>1. lost' # {}
      BY <2>1 DEF StoreLoses
    <3> QED BY <3>1 DEF StillServed, Excused
  <2> QED BY <1>1, <1>3, <2>1 DEF ClientStep, BeginUpload, UploadBytes, ScanVerdict
<1>4. CASE RepairWithdrawManifest
  BY <1>4, RepairWithdrawManifestKeeps DEF StillServed, Excused
<1>5. CASE RepairOrphanVectors
  <2>1. /\ sweep.at[2] \notin Retrievable /\ UNCHANGED <<bytes, manifest>>
        /\ \A w \in Versions : w # sweep.at[2] => vectors'[w] = vectors[w]
    BY <1>5, RepairOrphanVectorsKeeps
  <2>2. \A w \in Versions : w # sweep.at[2] => (w \in Served' <=> w \in Served)
    BY <2>1, SameServed
  <2> QED BY <2>1, <2>2, ServedFacts DEF StillServed
<1>6. SagaStep \/ ClientStep \/ RepairWithdrawManifest \/ RepairOrphanVectors
      \/ UNCHANGED <<manifest, vectors>>
  <2>1. CASE \E repair \in BOOLEAN : StartSweep(repair)
    BY <2>1 DEF StartSweep, sagaVars
  <2>2. CASE Sweep
    BY <2>2
       DEF Sweep, CheckObjects, ReadManifests, CheckVectors, CheckActivePointer, Record,
           RepairOrphanObject, RepairObjectRow, RepairActivePointer, RepairFails, NextCheck,
           AuditTransitions, sagaVars
  <2>3. CASE Unavailable \/ SweepDies
    BY <2>3 DEF Unavailable, SweepDies, sagaVars
  <2> QED BY <2>1, <2>2, <2>3 DEF Next
<1> QED BY <1>1, <1>2, <1>3, <1>4, <1>5, <1>6

(* No step of the saga, of recover or of a sweep stops the serving of a    *)
(* material, unless it is deleted, the version it serves is staged again   *)
(* or a store lost rows: activate flags the new rows before it switches,   *)
(* and demotes the old ones after.                                         *)
THEOREM MaterialsKeepServing ==
    ASSUME Exclusive
    PROVE  Spec => KeepsServing
<1> DEFINE Kept == Served # {} /\ Served' = {} =>
                     \/ withdraw # {} \/ call.deleting \/ lost' # {}
                     \/ call.pc = "upsert" /\ call.v \in Served
<1>1. StorageInv /\ [Next]_vars => [Kept]_vars
  BY StepStillServes DEF StillServed, Excused
<1>2. Spec => [][Kept]_vars
  BY <1>1, StorageIsSafe, PTL DEF Spec
<1> QED BY <1>2 DEF KeepsServing

-----------------------------------------------------------------------------
DeletingStays == material.status = "deleting" =>
                    material'.status \in {"deleting", "deleted", "pending_upload"}

LEMMA CallKeepsDeleting ==
    ASSUME SagaInv, CallStep
    PROVE  DeletingStays
<1> USE DEF SagaInv, DeletingStays
<1>1. CASE FinishDelete
  BY <1>1 DEF FinishDelete, MoveMaterial
<1>2. CASE Park
  <2>1. material' = [material EXCEPT
          !.attempts = IF material.attempts + 1 > MaxAttempts THEN material.attempts
                       ELSE material.attempts + 1,
          !.status = IF Exhausted(material.attempts + 1) THEN "error" ELSE material.status]
    BY <1>2 DEF Park
  <2>2. material.status = "deleting" => ~ Exhausted(material.attempts + 1)
    BY DEF Exhausted
  <2> QED BY <2>1, <2>2 DEF SagaTypeOK
<1>3. CASE Transition \/ RecordObject \/ StepScan \/ Publish
  BY <1>3 DEF Transition, RecordObject, StepScan, Publish, StageOK, WorksOn
<1>4. CASE ~ (FinishDelete \/ Park \/ Transition \/ RecordObject \/ StepScan \/ Publish)
  BY <1>4
     DEF CallStep, NoVersions, StepVerifyLoad, VerifyUpload, StepIndexLoad, LoadChunks, Upsert,
         StageManifest, VerifyCount, ActivateLoad, Switch, Demote, StepDeleteLoad, DeleteMark,
         DeleteVectors, DeleteConfirm, DeleteObjects, PurgeSql
<1> QED BY <1>1, <1>2, <1>3, <1>4

LEMMA StepKeepsDeleting ==
    ASSUME StorageInv, Next
    PROVE  DeletingStays
<1> USE DEF StorageInv, DeletingStays
<1>1. CASE SagaStep
  <2>1. CASE RequestDelete
    BY <2>1 DEF RequestDelete, MoveMaterial
  <2>2. CASE Advance \/ Withdraw \/ WithdrawLost \/ Recover \/ Crash
    BY <2>2 DEF Advance, Withdraw, DeactivateAuthority, DeactivateProjection, WithdrawLost,
                Recover, Crash
  <2> QED BY <1>1, <2>1, <2>2, CallKeepsDeleting DEF SagaStep
<1>2. CASE ClientStep
  <2>1. CASE BeginUpload
    BY <2>1 DEF BeginUpload, MoveMaterial
  <2> QED BY <1>2, <2>1 DEF ClientStep, UploadBytes, ScanVerdict, StoreLoses
<1>3. CASE RepairActivePointer
  BY <1>3 DEF RepairActivePointer, SagaInv, SagaTypeOK
<1>4. SagaStep \/ ClientStep \/ RepairActivePointer \/ material' = material
  <2>1. CASE \E repair \in BOOLEAN : StartSweep(repair)
    BY <2>1 DEF StartSweep, sagaVars
  <2>2. CASE Sweep
    BY <2>2
       DEF Sweep, CheckObjects, ReadManifests, CheckVectors, CheckActivePointer, Record,
           RepairOrphanObject, RepairObjectRow, RepairWithdrawManifest, RepairOrphanVectors,
           RepairFails, NextCheck, AuditTransitions, sagaVars
  <2>3. CASE Unavailable \/ SweepDies
    BY <2>3 DEF Unavailable, SweepDies, sagaVars
  <2> QED BY <2>1, <2>2, <2>3 DEF Next
<1> QED BY <1>1, <1>2, <1>3, <1>4

(* A material in "deleting" leaves that status only for "deleted", or      *)
(* because a new version is uploaded: no late step of another call, no     *)
(* exhausted retry and no recover takes it back.                           *)
THEOREM DeletionsGoThrough ==
    ASSUME Exclusive
    PROVE  Spec => DeletingNeverFallsBack
<1>1. StorageInv /\ [Next]_vars =>
        [material.status = "deleting" =>
            material'.status \in {"deleting", "deleted", "pending_upload"}]_vars
  BY StepKeepsDeleting DEF DeletingStays
<1>2. Spec => [][material.status = "deleting" =>
                    material'.status \in {"deleting", "deleted", "pending_upload"}]_vars
  BY <1>1, StorageIsSafe, PTL DEF Spec
<1> QED BY <1>2 DEF DeletingNeverFallsBack
=============================================================================
