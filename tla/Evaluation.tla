----------------------------- MODULE Evaluation -----------------------------
(***************************************************************************)
(* Evaluation datasets and evaluation runs (services/eval_service.py,      *)
(* evals/eval_runner.py, services/enterprise_eval_dataset.py,              *)
(* services/eval_dataset_import.py).                                       *)
(*                                                                         *)
(* A retrieval item names its gold documents in a JSON column, so nothing  *)
(* but the code keeps it in step with the documents: purging a document    *)
(* scrubs the items, seeding the built-in suite repairs them, a clean-up   *)
(* drops the stale ones.  Seeding, importing and creating an item read the *)
(* documents first and commit their references later.  A run is a durable  *)
(* job; its worker commits the results and then the report, and may die or *)
(* lose its lease in between, in which case the job is executed again.     *)
(* A document is <<name, generation>>: uploading it again after a purge    *)
(* gives it a new primary key.                                             *)
(***************************************************************************)
EXTENDS Integers, FiniteSets, Functions

CONSTANTS
    Policies,        \* documents of the built-in suite
    Cases, Gold,     \* its cases and their gold documents; none: a negative
    Handmade,        \* items administrators create or import
    Questions,       \* answer cases administrators create
    Pages,           \* documents of the ordinary knowledge base
    Runs,            \* evaluation runs
    Workers,         \* job workers
    Selections,      \* what administrators ask a run for: [items, cases, types]
    MaxGeneration,   \* bound on the uploads of each document
    MaxLosses        \* bound on deaths and expired leases

ASSUME EvaluationAssumption ==
    /\ Gold \in [Cases -> SUBSET Policies]
    /\ \A a \in Selections : /\ a.items \subseteq Cases \cup Handmade /\ IsFiniteSet(a.items)
                             /\ a.cases \subseteq Questions /\ IsFiniteSet(a.cases)
                             /\ a.types \subseteq {"retrieval", "rag_answer", "ragas"}
    /\ MaxGeneration \in [Policies \cup Pages -> Nat] /\ MaxLosses \in Nat

VARIABLES
    live,      \* knowledge_documents: <<name, generation>>
    gen,       \* how often a name was uploaded
    items,     \* retrieval_eval_items: case or handmade -> [gold, scope, on, neg]
    cases,     \* eval_cases: the answer cases that exist; no operation removes one
    writer,    \* the dataset request in flight
    raced,     \* history: items committed with a document purged since the read
    runs,      \* eval_runs: id -> [st, ask, total, rows]; rows: its eval_results
    entry,     \* the run's durable job: "none", "queued", "running" or "done"
    worker,    \* evaluation workers
    losses     \* deaths and expired leases so far

evalVars == <<live, gen, items, cases, writer, raced, runs, entry, worker, losses>>

Names == Policies \cup Pages
Idle == [pc |-> "idle"]
Done == {"success", "failed", "skipped"}

EvaluationInit ==
    /\ live = {} /\ items = <<>> /\ cases = {} /\ raced = {} /\ runs = <<>> /\ losses = 0
    /\ gen = [n \in Names |-> 0]
    /\ writer = Idle
    /\ entry = [e \in Runs |-> "none"]
    /\ worker = [w \in Workers |-> Idle]

-----------------------------------------------------------------------------
(* Documents.                                                               *)

UploadPage(n) ==
    /\ n \in Pages /\ ~ \E g \in 1 .. gen[n] : <<n, g>> \in live
    /\ gen[n] < MaxGeneration[n]
    /\ gen' = [gen EXCEPT ![n] = @ + 1]
    /\ live' = live \cup {<<n, gen[n] + 1>>}
    /\ UNCHANGED <<cases, items, writer, raced, runs, entry, worker, losses>>

\* Not the code: the items keep the purged documents.
NothingScrubbed(D) == items

\* What purging the documents D leaves of the items: an item loses the gold in
\* D, and is deleted when that was all of it.
Scrubbed(D) ==
    LET cut == [i \in DOMAIN items |-> [items[i] EXCEPT !.gold = @ \ D]] IN
    Restrict(cut, {i \in DOMAIN items : items[i].gold \cap D = {} \/ cut[i].gold # {}})

PurgeDocument(d) ==
    /\ d \in live
    /\ live' = live \ {d}
    /\ items' = Scrubbed({d})
    /\ UNCHANGED <<gen, cases, writer, raced, runs, entry, worker, losses>>

\* Deleting a knowledge base purges its documents and deletes the items that
\* name no other knowledge base.
DeleteKnowledgeBase(scope, D) ==
    LET rest == Scrubbed(D) IN
    /\ live' = live \ D
    /\ items' = Restrict(rest, {i \in DOMAIN rest : rest[i].scope # scope})
    /\ UNCHANGED <<gen, cases, writer, raced, runs, entry, worker, losses>>

-----------------------------------------------------------------------------
(* Dataset writers.                                                         *)

\* create_retrieval_item and import_crud_dataset: the gold documents are looked
\* up, the item is committed later.
ItemRead(i, D) ==
    /\ writer = Idle /\ i \in Handmade \ DOMAIN items
    /\ D # {} /\ D \subseteq live /\ {d[1] : d \in D} \subseteq Pages
    /\ writer' = [pc |-> "item", i |-> i, gold |-> D]
    /\ UNCHANGED <<live, gen, items, cases, raced, runs, entry, worker, losses>>

\* A new row is enabled; a negative one is judged by refusal and has no gold.
RetrievalEvalItem(gold, scope, neg) == [gold |-> gold, scope |-> scope, on |-> TRUE, neg |-> neg]

Write(new) ==
    /\ items' = [i \in DOMAIN new \cup DOMAIN items |-> IF i \in DOMAIN new THEN new[i] ELSE items[i]]
    /\ raced' = (raced \ DOMAIN new) \cup {i \in DOMAIN new : ~ new[i].gold \subseteq live'}
    /\ writer' = Idle

ItemCommit ==
    /\ writer.pc = "item"
    /\ UNCHANGED <<live, gen, cases, runs, entry, worker, losses>>
    /\ Write([i \in {writer.i} |-> RetrievalEvalItem(writer.gold, "own", FALSE)])

CreateEvalCase(q) ==
    /\ q \notin cases
    /\ cases' = cases \cup {q}
    /\ UNCHANGED <<live, gen, items, writer, raced, runs, entry, worker, losses>>

\* seed_enterprise_eval_dataset: documents of the suite that exist are reused ...
SeedRead ==
    /\ writer = Idle
    /\ \A p \in Policies : gen[p] < MaxGeneration[p] \/ <<p, gen[p]>> \in live
    /\ writer' = [pc |-> "seed", have |-> {d \in live : d[1] \in Policies}]
    /\ UNCHANGED <<live, gen, items, cases, raced, runs, entry, worker, losses>>

\* ... the others are created, and every case gets its item back: created, or
\* rewritten with the gold of this seeding and enabled again.
SeedCommit ==
    LET missing == {p \in Policies : \A d \in writer.have : d[1] # p}
        fresh == {<<p, gen[p] + 1>> : p \in missing}
        gold(c) == {d \in writer.have \cup fresh : d[1] \in Gold[c]} IN
    /\ writer.pc = "seed" /\ \A p \in missing : gen[p] < MaxGeneration[p]
    /\ live' = live \cup fresh
    /\ gen' = [n \in Names |-> IF n \in missing THEN gen[n] + 1 ELSE gen[n]]
    /\ Write([c \in Cases |-> RetrievalEvalItem(gold(c), "suite", Gold[c] = {})])
    /\ UNCHANGED <<cases, runs, entry, worker, losses>>

\* _is_stale_retrieval_item; negatives have no gold on purpose.
Stale(i) == ~ items[i].neg /\ (items[i].gold = {} \/ ~ items[i].gold \subseteq live)

\* cleanup_eval_dataset: stale items go, items outside the evaluation knowledge
\* bases are disabled.
Cleanup ==
    LET kept == Restrict(items, {i \in DOMAIN items : ~ Stale(i)}) IN
    /\ items' = [i \in DOMAIN kept |-> [kept[i] EXCEPT !.on = @ /\ kept[i].scope # "own"]]
    /\ raced' = raced \cap DOMAIN kept
    /\ UNCHANGED <<live, gen, cases, writer, runs, entry, worker, losses>>

-----------------------------------------------------------------------------
(* Runs.                                                                    *)

\* validate_selection: something is selected, and each type has what it scores.
Scores(a, types) == a.types \cap types # {}
ValidSelection(a) ==
    /\ a.types # {} /\ (a.cases # {} \/ a.items # {})
    /\ Scores(a, {"retrieval"}) => a.items # {}
    /\ Scores(a, {"rag_answer", "ragas"}) => a.cases # {}

EvalRun(a) == [st |-> "pending", ask |-> a, total |-> 0, rows |-> 0]

\* create_eval_run: every selected item exists and is enabled, every selected
\* case exists; cases are enabled when they are created and stay so.
CreateRun(e, a) ==
    /\ e \notin DOMAIN runs /\ entry[e] = "none"
    /\ ValidSelection(a) /\ a.cases \subseteq cases
    /\ \A i \in a.items : i \in DOMAIN items /\ items[i].on
    /\ runs' = [x \in DOMAIN runs \cup {e} |-> IF x = e THEN EvalRun(a) ELSE runs[x]]
    /\ UNCHANGED <<live, gen, items, cases, writer, raced, entry, worker, losses>>

\* submit_eval_run: the durable job is keyed by the run.
SubmitRun(e) ==
    /\ e \in DOMAIN runs /\ entry[e] = "none"
    /\ entry' = [entry EXCEPT ![e] = "queued"]
    /\ UNCHANGED <<live, gen, items, cases, writer, raced, runs, worker, losses>>

\* delete_eval_run: the results go with the run.
DeleteRun(e) ==
    /\ e \in DOMAIN runs /\ entry[e] # "none"
    /\ runs' = Restrict(runs, DOMAIN runs \ {e})
    /\ UNCHANGED <<live, gen, items, cases, writer, raced, entry, worker, losses>>

Step(w, s) == worker' = [worker EXCEPT ![w] = s]

\* The handler returned.
Return(w, e) ==
    /\ Step(w, Idle)
    /\ entry' = [entry EXCEPT ![e] = "done"]

TakeRun(w, e) ==
    /\ worker[w] = Idle /\ entry[e] = "queued"
    /\ entry' = [entry EXCEPT ![e] = "running"]
    /\ Step(w, [pc |-> "begin", e |-> e])
    /\ UNCHANGED <<live, gen, items, cases, writer, raced, runs, losses>>

\* calculate_retrieval_metrics: without gold there is nothing to score; a
\* negative is scored by the evidence gate instead.
MetricsStatus(item) == IF item.neg \/ item.gold # {} THEN "completed" ELSE "skipped"

\* EvalRunner.run: the items and cases that still exist are copied, whatever the
\* status.  Of the items, the scorable ones matter apart.
BeginRun(w) ==
    LET e == worker[w].e
        a == runs[e].ask
        found == IF Scores(a, {"retrieval"}) THEN a.items \cap DOMAIN items ELSE {}
        asked == IF Scores(a, {"rag_answer", "ragas"}) THEN a.cases ELSE {} IN
    /\ worker[w].pc = "begin"
    /\ IF e \in DOMAIN runs
         THEN /\ runs' = [runs EXCEPT ![e].st = "running"]
              /\ Step(w, [pc |-> "score", e |-> e, ask |-> a, cases |-> Cardinality(asked),
                          items |-> Cardinality({i \in found : MetricsStatus(items[i]) = "completed"}),
                          blank |-> Cardinality({i \in found : MetricsStatus(items[i]) = "skipped"})])
              /\ UNCHANGED entry
         ELSE Return(w, e) /\ UNCHANGED runs
    /\ UNCHANGED <<live, gen, items, cases, writer, raced, losses>>

\* What n items come to, as <<completed, failed, skipped>>: retrieving for one
\* may raise, and is then its failure.
ItemOutcomes(n, blank) ==
    {<<n - f, f + g, blank - g>> : f \in 0 .. n, g \in 0 .. blank}

\* The optional scorer completes, by a proxy when it cannot run, or has no
\* answer or no contexts to score.
RagasStatuses == {"completed", "skipped"}

\* An answer case: its knowledge base may be gone or the pipeline raise; an
\* answer that was asked for is complete whatever the optional scorer says.
CaseStatuses(a) ==
    {"failed"} \cup (IF "rag_answer" \in a.types THEN {"completed"} ELSE RagasStatuses)

CaseOutcomes(n, a) ==
    {x \in (0 .. n) \X (0 .. n) \X (0 .. n) :
       x[1] + x[2] + x[3] = n /\ (x[3] > 0 => "skipped" \in CaseStatuses(a))}

Verdict(completed, failed) ==
    IF completed > 0 THEN "success" ELSE IF failed > 0 THEN "failed" ELSE "skipped"

\* The items and the cases are scored one after the other; a failure costs one.
Score(w) ==
    LET s == worker[w] IN
    /\ s.pc = "score"
    /\ \E x \in ItemOutcomes(s.items, s.blank), y \in CaseOutcomes(s.cases, s.ask) :
         Step(w, [pc |-> "results", e |-> s.e, n |-> s.items + s.blank + s.cases,
                  st |-> Verdict(x[1] + y[1], x[2] + y[2])])
    /\ UNCHANGED <<live, gen, items, cases, writer, raced, runs, entry, losses>>

\* Not the code: the report is committed before the results.
ReportFirst(w) ==
    LET s == worker[w] IN
    /\ s.pc = "results"
    /\ IF s.e \in DOMAIN runs
         THEN /\ runs' = [runs EXCEPT ![s.e].st = s.st, ![s.e].total = s.n]
              /\ Step(w, [s EXCEPT !.pc = "report"]) /\ UNCHANGED entry
         ELSE Return(w, s.e) /\ UNCHANGED runs
    /\ UNCHANGED <<live, gen, items, cases, writer, raced, losses>>

\* The results need the run (foreign key); without it execute_eval_run's
\* handler finds no run to mark and returns.
CommitResults(w) ==
    LET s == worker[w] IN
    /\ s.pc = "results"
    /\ IF s.e \in DOMAIN runs
         THEN /\ runs' = [runs EXCEPT ![s.e].rows = @ + s.n]
              /\ Step(w, [s EXCEPT !.pc = "report"]) /\ UNCHANGED entry
         ELSE Return(w, s.e) /\ UNCHANGED runs
    /\ UNCHANGED <<live, gen, items, cases, writer, raced, losses>>

CommitReport(w) ==
    LET s == worker[w] IN
    /\ s.pc = "report"
    /\ runs' = [e \in DOMAIN runs |-> IF e = s.e
                  THEN [runs[e] EXCEPT !.st = s.st, !.total = s.n] ELSE runs[e]]
    /\ Return(w, s.e)
    /\ UNCHANGED <<live, gen, items, cases, writer, raced, losses>>

\* Not the code: an error in a run is only logged.
ErrorIgnored(w) ==
    /\ worker[w].pc \in {"score", "results", "report"}
    /\ Return(w, worker[w].e)
    /\ UNCHANGED <<live, gen, items, cases, writer, raced, runs, losses>>

\* execute_eval_run's handler: what run raised marks the run failed, unless it
\* is settled.
RunRaises(w) ==
    LET s == worker[w] IN
    /\ s.pc \in {"score", "results", "report"}
    /\ runs' = [e \in DOMAIN runs |-> IF e = s.e /\ runs[e].st \notin Done
                  THEN [runs[e] EXCEPT !.st = "failed"] ELSE runs[e]]
    /\ Return(w, s.e)
    /\ UNCHANGED <<live, gen, items, cases, writer, raced, losses>>

\* The lease of the job expires, because the worker died or because it is slow
\* and goes on: the job is due again.
LeaseLost(w) ==
    /\ worker[w].pc # "idle" /\ losses < MaxLosses /\ entry[worker[w].e] = "running"
    /\ losses' = losses + 1
    /\ entry' = [entry EXCEPT ![worker[w].e] = "queued"]
    /\ Step(w, Idle) \/ UNCHANGED worker
    /\ UNCHANGED <<live, gen, items, cases, writer, raced, runs>>

-----------------------------------------------------------------------------
Dataset ==
    \/ \E n \in Pages : UploadPage(n)
    \/ \E d \in live : PurgeDocument(d)
    \/ DeleteKnowledgeBase("suite", {d \in live : d[1] \in Policies})
    \/ DeleteKnowledgeBase("own", {d \in live : d[1] \in Pages})
    \/ \E i \in Handmade, D \in SUBSET live : ItemRead(i, D)
    \/ \E q \in Questions : CreateEvalCase(q)
    \/ ItemCommit \/ SeedRead \/ SeedCommit \/ Cleanup

Work(w) ==
    \/ \E e \in Runs : TakeRun(w, e)
    \/ BeginRun(w) \/ Score(w) \/ CommitResults(w) \/ CommitReport(w) \/ RunRaises(w)

EvaluationNext ==
    \/ Dataset
    \/ \E e \in Runs : SubmitRun(e) \/ DeleteRun(e) \/ \E a \in Selections : CreateRun(e, a)
    \/ \E w \in Workers : Work(w) \/ LeaseLost(w)

EvaluationSpec == EvaluationInit /\ [][EvaluationNext]_evalVars

\* The route submits what it created, and the workers keep working.
EvaluationLiveSpec ==
    /\ EvaluationSpec
    /\ \A e \in Runs : WF_evalVars(SubmitRun(e))
    /\ \A w \in Workers : WF_evalVars(Work(w))

-----------------------------------------------------------------------------
\* Purged documents leave the datasets: an item names live documents only,
\* through every order of purges, knowledge-base deletions, seedings and
\* clean-ups, so that no run scores a guaranteed miss.  The exception is an item
\* whose writer had looked a document up before it was purged; seeding again
\* heals one of the suite.
GoldIsLive == \A i \in DOMAIN items \ raced : items[i].gold \subseteq live

\* A report never counts results that are not stored: the results are committed
\* first, and a second execution only adds to them.
ReportedResultsExist == \A e \in DOMAIN runs : runs[e].rows >= runs[e].total

\* Every run comes to an end or is deleted, although workers die, lose their
\* lease or fail, and although its items and their documents may be gone.
RunSettles ==
    \A e \in Runs : (e \in DOMAIN runs /\ runs[e].st \notin Done)
                      ~> (e \notin DOMAIN runs \/ runs[e].st \in Done)
=============================================================================
