------------------------- MODULE Evaluation_proofs -------------------------
(* Proofs about Evaluation, for every suite, every set of items, runs and  *)
(* workers, and any number of uploads and lost leases.                     *)
EXTENDS Evaluation, FiniteSetTheorems, TLAPS

-----------------------------------------------------------------------------
(* The inductive invariants.                                               *)

(* A dataset row.                                                          *)
ItemOK(i) == DOMAIN items[i] = {"gold", "scope", "on", "neg"}

(* The datasets: what GoldIsLive says, about rows that are records.        *)
DatasetInv == (\A i \in DOMAIN items : ItemOK(i)) /\ GoldIsLive

(* A run is a record, was asked for with a selection, and its report       *)
(* counts results that are stored.                                         *)
RunOK(e) ==
    /\ DOMAIN runs[e] = {"st", "ask", "total", "rows"}
    /\ runs[e].ask \in Selections
    /\ runs[e].rows \in Nat /\ runs[e].total \in Nat
    /\ runs[e].rows >= runs[e].total

(* What a worker holds at each step.  Its run was submitted, so the run's  *)
(* id cannot be taken by another run; one that is about to report has      *)
(* stored what it will report, and what is stored only grows or goes with  *)
(* the run.                                                                *)
Holding(w) ==
    /\ worker[w].pc # "idle" => worker[w].e \in Runs /\ entry[worker[w].e] # "none"
    /\ worker[w].pc = "score" => /\ worker[w].items \in Nat /\ worker[w].blank \in Nat
                                 /\ worker[w].cases \in Nat
    /\ worker[w].pc \in {"results", "report"} => /\ DOMAIN worker[w] = {"pc", "e", "n", "st"}
                                                 /\ worker[w].n \in Nat
    /\ worker[w].pc = "report" /\ worker[w].e \in DOMAIN runs =>
           runs[worker[w].e].rows >= worker[w].n

RunsInv ==
    /\ DOMAIN worker = Workers /\ DOMAIN entry = Runs
    /\ \A e \in DOMAIN runs : RunOK(e)
    /\ \A w \in Workers : Holding(w)

EvaluationInv == DatasetInv /\ RunsInv

-----------------------------------------------------------------------------
(* The datasets.                                                           *)

(* What purging a set of live documents leaves names live documents only.  *)
LEMMA ScrubbedIsLive ==
    ASSUME DatasetInv, NEW D
    PROVE  /\ DOMAIN Scrubbed(D) \subseteq DOMAIN items
           /\ \A i \in DOMAIN Scrubbed(D) :
                /\ DOMAIN Scrubbed(D)[i] = {"gold", "scope", "on", "neg"}
                /\ Scrubbed(D)[i].gold = items[i].gold \ D
<1> DEFINE cut == [i \in DOMAIN items |-> [items[i] EXCEPT !.gold = @ \ D]]
<1> DEFINE keep == {i \in DOMAIN items : items[i].gold \cap D = {} \/ cut[i].gold # {}}
<1>1. \A i \in DOMAIN items : /\ DOMAIN cut[i] = {"gold", "scope", "on", "neg"}
                              /\ cut[i].gold = items[i].gold \ D
  BY DEF DatasetInv, ItemOK
<1>2. Scrubbed(D) = [i \in keep |-> cut[i]]
  BY DEF Scrubbed, Restrict
<1>3. keep \subseteq DOMAIN items
  OBVIOUS
<1> HIDE DEF cut, keep
<1> QED BY <1>1, <1>2, <1>3

(* Purging a document, or the documents of a knowledge base.               *)
LEMMA PurgeKeepsDatasets ==
    ASSUME DatasetInv, NEW D, NEW S, S \subseteq DOMAIN Scrubbed(D),
           live' = live \ D, items' = [i \in S |-> Scrubbed(D)[i]], raced' = raced
    PROVE  DatasetInv'
<1>1. DOMAIN items' = S /\ S \subseteq DOMAIN items
  BY ScrubbedIsLive
<1>2. \A i \in S : /\ DOMAIN items'[i] = {"gold", "scope", "on", "neg"}
                   /\ items'[i].gold = items[i].gold \ D
  <2> DEFINE rest == Scrubbed(D)
  <2>1. \A i \in S : items'[i] = rest[i] /\ i \in DOMAIN rest
    OBVIOUS
  <2>2. \A i \in DOMAIN rest : /\ DOMAIN rest[i] = {"gold", "scope", "on", "neg"}
                               /\ rest[i].gold = items[i].gold \ D
    BY ScrubbedIsLive
  <2> HIDE DEF rest
  <2> QED BY <2>1, <2>2
<1>3. \A i \in S \ raced : items[i].gold \subseteq live
  BY <1>1 DEF DatasetInv, GoldIsLive
<1>4. \A i \in S \ raced : items'[i].gold \subseteq live'
  <2> SUFFICES ASSUME NEW i \in S \ raced
               PROVE  items'[i].gold \subseteq live'
    OBVIOUS
  <2>1. items'[i].gold = items[i].gold \ D /\ items[i].gold \subseteq live
    BY <1>2, <1>3
  <2> QED BY <2>1
<1> QED BY <1>1, <1>2, <1>4 DEF DatasetInv, ItemOK, GoldIsLive

(* Committing rows: one whose gold was purged since it was read is the     *)
(* exception GoldIsLive makes.                                             *)
LEMMA WriteKeepsDatasets ==
    ASSUME DatasetInv, NEW new, Write(new), live \subseteq live',
           \A i \in DOMAIN new : DOMAIN new[i] = {"gold", "scope", "on", "neg"}
    PROVE  DatasetInv'
<1>1. /\ DOMAIN items' = DOMAIN new \cup DOMAIN items
      /\ \A i \in DOMAIN new : items'[i] = new[i]
      /\ \A i \in DOMAIN items : i \notin DOMAIN new => items'[i] = items[i]
  BY DEF Write
<1>2. raced' = (raced \ DOMAIN new) \cup {i \in DOMAIN new : ~ new[i].gold \subseteq live'}
  BY DEF Write
<1>3. \A i \in DOMAIN items' : DOMAIN items'[i] = {"gold", "scope", "on", "neg"}
  BY <1>1 DEF DatasetInv, ItemOK
<1>4. \A i \in DOMAIN items' \ raced' : items'[i].gold \subseteq live'
  <2> SUFFICES ASSUME NEW i \in DOMAIN items', i \notin raced'
               PROVE  items'[i].gold \subseteq live'
    OBVIOUS
  <2>1. CASE i \in DOMAIN new
    BY <2>1, <1>1, <1>2
  <2>2. CASE i \notin DOMAIN new
    <3>1. i \in DOMAIN items /\ i \notin raced /\ items'[i] = items[i]
      BY <2>2, <1>1, <1>2
    <3>2. items[i].gold \subseteq live
      BY <3>1 DEF DatasetInv, GoldIsLive
    <3> QED BY <3>1, <3>2
  <2> QED BY <2>1, <2>2
<1> QED BY <1>3, <1>4 DEF DatasetInv, ItemOK, GoldIsLive

(* A clean-up drops and disables rows; it leaves their gold alone.         *)
LEMMA CleanupKeepsDatasets ==
    ASSUME DatasetInv, Cleanup
    PROVE  DatasetInv'
<1> DEFINE K == {i \in DOMAIN items : ~ Stale(i)}
<1> DEFINE kept == Restrict(items, K)
<1>1. DOMAIN kept = K /\ K \subseteq DOMAIN items /\ \A i \in K : kept[i] = items[i]
  BY DEF Restrict
<1>2. /\ items' = [i \in DOMAIN kept |-> [kept[i] EXCEPT !.on = @ /\ kept[i].scope # "own"]]
      /\ raced' = raced \cap DOMAIN kept /\ live' = live
  BY DEF Cleanup
<1> HIDE DEF kept, K
<1>3. \A i \in K : DOMAIN items[i] = {"gold", "scope", "on", "neg"}
  BY <1>1 DEF DatasetInv, ItemOK
<1>4. DOMAIN items' = K
  BY <1>1, <1>2
<1>5. \A i \in K : items'[i] = [items[i] EXCEPT !.on = items[i].on /\ items[i].scope # "own"]
  BY <1>1, <1>2, <1>3
<1>6. \A i \in K : /\ DOMAIN items'[i] = {"gold", "scope", "on", "neg"}
                   /\ items'[i].gold = items[i].gold
  BY <1>3, <1>5
<1>7. \A i \in K \ raced' : items'[i].gold \subseteq live'
  BY <1>1, <1>2, <1>6 DEF DatasetInv, GoldIsLive
<1> QED BY <1>4, <1>6, <1>7 DEF DatasetInv, ItemOK, GoldIsLive

(* Every dataset operation keeps the datasets sound.                       *)
LEMMA DatasetStep ==
    ASSUME DatasetInv, Dataset
    PROVE  DatasetInv'
<1>1. ASSUME NEW n \in Pages, UploadPage(n)
      PROVE  DatasetInv'
  BY <1>1 DEF UploadPage, DatasetInv, ItemOK, GoldIsLive
<1>2. ASSUME NEW d \in live, PurgeDocument(d)
      PROVE  DatasetInv'
  <2>1. live' = live \ {d} /\ items' = Scrubbed({d}) /\ raced' = raced
    BY <1>2 DEF PurgeDocument
  <2>2. Scrubbed({d}) = [i \in DOMAIN Scrubbed({d}) |-> Scrubbed({d})[i]]
    BY DEF Scrubbed, Restrict
  <2> QED BY <2>1, <2>2, PurgeKeepsDatasets
<1>3. ASSUME NEW scope, NEW D, DeleteKnowledgeBase(scope, D)
      PROVE  DatasetInv'
  <2> DEFINE S == {i \in DOMAIN Scrubbed(D) : Scrubbed(D)[i].scope # scope}
  <2>1. live' = live \ D /\ items' = [i \in S |-> Scrubbed(D)[i]] /\ raced' = raced
    BY <1>3 DEF DeleteKnowledgeBase, Restrict
  <2>2. S \subseteq DOMAIN Scrubbed(D)
    OBVIOUS
  <2> HIDE DEF S
  <2> QED BY <2>1, <2>2, PurgeKeepsDatasets
<1>4. ASSUME NEW i \in Handmade, NEW D \in SUBSET live, ItemRead(i, D)
      PROVE  DatasetInv'
  BY <1>4 DEF ItemRead, DatasetInv, ItemOK, GoldIsLive
<1>5. ASSUME NEW q \in Questions, CreateEvalCase(q)
      PROVE  DatasetInv'
  BY <1>5 DEF CreateEvalCase, DatasetInv, ItemOK, GoldIsLive
<1>6. ASSUME ItemCommit
      PROVE  DatasetInv'
  <2> DEFINE new == [i \in {writer.i} |-> RetrievalEvalItem(writer.gold, "own", FALSE)]
  <2>1. Write(new) /\ live \subseteq live'
    BY <1>6 DEF ItemCommit
  <2>2. \A i \in DOMAIN new : DOMAIN new[i] = {"gold", "scope", "on", "neg"}
    BY DEF RetrievalEvalItem
  <2> HIDE DEF new
  <2> QED BY <2>1, <2>2, WriteKeepsDatasets
<1>7. ASSUME SeedRead
      PROVE  DatasetInv'
  BY <1>7 DEF SeedRead, DatasetInv, ItemOK, GoldIsLive
<1>8. ASSUME SeedCommit
      PROVE  DatasetInv'
  <2> DEFINE missing == {p \in Policies : \A d \in writer.have : d[1] # p}
  <2> DEFINE fresh == {<<p, gen[p] + 1>> : p \in missing}
  <2> DEFINE gold(c) == {d \in writer.have \cup fresh : d[1] \in Gold[c]}
  <2> DEFINE new == [c \in Cases |-> RetrievalEvalItem(gold(c), "suite", Gold[c] = {})]
  <2>1. Write(new) /\ live' = live \cup fresh
    BY <1>8 DEF SeedCommit
  <2>2. \A i \in DOMAIN new : DOMAIN new[i] = {"gold", "scope", "on", "neg"}
    <3> HIDE DEF gold
    <3> QED BY DEF RetrievalEvalItem
  <2> HIDE DEF new, fresh
  <2> QED BY <2>1, <2>2, WriteKeepsDatasets
<1> QED BY <1>1, <1>2, <1>3, <1>4, <1>5, <1>6, <1>7, <1>8, CleanupKeepsDatasets DEF Dataset

-----------------------------------------------------------------------------
(* The runs.                                                               *)

(* Nothing a dataset operation does reaches the runs.                      *)
LEMMA DatasetLeavesRuns ==
    ASSUME RunsInv, Dataset
    PROVE  RunsInv'
<1>1. runs' = runs /\ entry' = entry /\ worker' = worker
  BY DEF Dataset, UploadPage, PurgeDocument, DeleteKnowledgeBase, ItemRead, CreateEvalCase,
         ItemCommit, SeedRead, SeedCommit, Cleanup
<1> QED BY <1>1 DEF RunsInv, RunOK, Holding

(* Creating, submitting and deleting runs.                                 *)
LEMMA RequestKeepsRuns ==
    ASSUME RunsInv, NEW e \in Runs,
           SubmitRun(e) \/ DeleteRun(e) \/ \E a \in Selections : CreateRun(e, a)
    PROVE  RunsInv'
<1>1. ASSUME SubmitRun(e)
      PROVE  RunsInv'
  <2>1. runs' = runs /\ worker' = worker /\ entry' = [entry EXCEPT ![e] = "queued"]
    BY <1>1 DEF SubmitRun
  <2>2. DOMAIN entry' = Runs /\ \A x \in Runs : entry[x] # "none" => entry'[x] # "none"
    BY <2>1 DEF RunsInv
  <2> QED BY <2>1, <2>2 DEF RunsInv, RunOK, Holding
<1>2. ASSUME DeleteRun(e)
      PROVE  RunsInv'
  <2>1. entry' = entry /\ worker' = worker /\ runs' = [x \in DOMAIN runs \ {e} |-> runs[x]]
    BY <1>2 DEF DeleteRun, Restrict
  <2>2. DOMAIN runs' \subseteq DOMAIN runs /\ \A x \in DOMAIN runs' : runs'[x] = runs[x]
    BY <2>1
  <2>3. \A x \in DOMAIN runs' : RunOK(x)'
    BY <2>2 DEF RunsInv, RunOK
  <2>4. \A w \in Workers : Holding(w)'
    BY <2>1, <2>2 DEF RunsInv, Holding
  <2> QED BY <2>1, <2>3, <2>4 DEF RunsInv
<1>3. ASSUME NEW a \in Selections, CreateRun(e, a)
      PROVE  RunsInv'
  <2>1. /\ entry' = entry /\ worker' = worker /\ entry[e] = "none"
        /\ runs' = [x \in DOMAIN runs \cup {e} |-> IF x = e THEN EvalRun(a) ELSE runs[x]]
    BY <1>3 DEF CreateRun
  <2>2. DOMAIN runs' = DOMAIN runs \cup {e} /\ runs'[e] = EvalRun(a)
    BY <2>1
  <2>3. \A x \in DOMAIN runs' : x # e => x \in DOMAIN runs /\ runs'[x] = runs[x]
    BY <2>1
  <2>4. \A x \in DOMAIN runs' : RunOK(x)'
    BY <2>2, <2>3 DEF RunsInv, RunOK, EvalRun
  <2>5. \A w \in Workers : worker[w].pc # "idle" => worker[w].e # e
    BY <2>1 DEF RunsInv, Holding
  <2>6. \A w \in Workers : Holding(w)'
    BY <2>1, <2>3, <2>5 DEF RunsInv, Holding
  <2> QED BY <2>1, <2>4, <2>6 DEF RunsInv
<1> QED BY <1>1, <1>2, <1>3

(* A step of one worker: it is enough that the runs it touches stay sound  *)
(* and keep their results, that no job goes back to never having been      *)
(* submitted, and that the worker itself ends up sound.                    *)
LEMMA WorkerKeepsRuns ==
    ASSUME RunsInv, NEW w \in Workers, NEW s,
           Step(w, s),
           DOMAIN entry' = Runs, \A e \in Runs : entry[e] # "none" => entry'[e] # "none",
           DOMAIN runs' = DOMAIN runs,
           \A e \in DOMAIN runs : RunOK(e)' /\ runs'[e].rows >= runs[e].rows,
           Holding(w)'
    PROVE  RunsInv'
<1>1. DOMAIN worker' = Workers /\ \A v \in Workers : v # w => worker'[v] = worker[v]
  BY DEF Step, RunsInv
<1>2. ASSUME NEW v \in Workers, v # w
      PROVE  Holding(v)'
  <2>1. worker'[v] = worker[v] /\ Holding(v)
    BY <1>1, <1>2 DEF RunsInv
  <2>2. ASSUME worker[v].pc = "report", worker[v].e \in DOMAIN runs
        PROVE  runs'[worker[v].e].rows >= worker[v].n
    <3> DEFINE e == worker[v].e
    <3>1. runs[e].rows >= worker[v].n /\ worker[v].n \in Nat
      BY <2>1, <2>2 DEF Holding
    <3>2. runs'[e].rows >= runs[e].rows /\ runs'[e].rows \in Nat /\ runs[e].rows \in Nat
      BY <2>2 DEF RunsInv, RunOK
    <3> HIDE DEF e
    <3> QED BY <3>1, <3>2 DEF e
  <2> QED BY <2>1, <2>2 DEF Holding
<1> QED BY <1>1, <1>2 DEF RunsInv

(* The runs untouched.                                                     *)
LEMMA RunsUntouched ==
    ASSUME RunsInv, runs' = runs
    PROVE  DOMAIN runs' = DOMAIN runs /\ \A e \in DOMAIN runs : RunOK(e)' /\ runs'[e].rows >= runs[e].rows
BY DEF RunsInv, RunOK

(* A handler that returns leaves its worker idle.                          *)
LEMMA ReturnKeepsRuns ==
    ASSUME RunsInv, NEW w \in Workers, NEW e \in Runs, Return(w, e),
           DOMAIN runs' = DOMAIN runs,
           \A x \in DOMAIN runs : RunOK(x)' /\ runs'[x].rows >= runs[x].rows
    PROVE  RunsInv'
<1>1. DOMAIN entry' = Runs /\ \A x \in Runs : entry[x] # "none" => entry'[x] # "none"
  BY DEF Return, RunsInv
<1>2. Step(w, Idle) /\ worker'[w] = Idle
  BY DEF Return, Step, RunsInv
<1>3. Holding(w)'
  BY <1>2 DEF Holding, Idle
<1> QED BY <1>1, <1>2, <1>3, WorkerKeepsRuns

(* The counts a run starts with are numbers: its selection is finite.      *)
LEMMA CountsAreNumbers ==
    ASSUME NEW S, NEW T \in SUBSET S, IsFiniteSet(S)
    PROVE  Cardinality(T) \in Nat
BY FS_Subset, FS_CardinalityType

(* The handler starts.                                                     *)
LEMMA BeginKeepsRuns ==
    ASSUME RunsInv, NEW w \in Workers, BeginRun(w)
    PROVE  RunsInv'
<1> DEFINE e == worker[w].e
<1> DEFINE a == runs[e].ask
<1> DEFINE found == IF Scores(a, {"retrieval"}) THEN a.items \cap DOMAIN items ELSE {}
<1> DEFINE asked == IF Scores(a, {"rag_answer", "ragas"}) THEN a.cases ELSE {}
<1> DEFINE hits == {i \in found : MetricsStatus(items[i]) = "completed"}
<1> DEFINE blanks == {i \in found : MetricsStatus(items[i]) = "skipped"}
<1>1. worker[w].pc = "begin" /\ e \in Runs /\ entry[e] # "none"
  BY DEF BeginRun, RunsInv, Holding
<1>2. CASE e \notin DOMAIN runs
  <2>1. Return(w, e) /\ runs' = runs
    BY <1>2 DEF BeginRun
  <2> HIDE DEF e
  <2> QED BY <2>1, <1>1, RunsUntouched, ReturnKeepsRuns
<1>3. CASE e \in DOMAIN runs
  <2> DEFINE s == [pc |-> "score", e |-> e, ask |-> a, cases |-> Cardinality(asked),
                   items |-> Cardinality(hits), blank |-> Cardinality(blanks)]
  <2>1. runs' = [runs EXCEPT ![e].st = "running"] /\ Step(w, s) /\ entry' = entry
    BY <1>3 DEF BeginRun
  <2>2. a \in Selections
    BY <1>3 DEF RunsInv, RunOK
  <2>3. IsFiniteSet(a.items) /\ IsFiniteSet(a.cases)
    <3> HIDE DEF a
    <3> QED BY <2>2, EvaluationAssumption
  <2>4. hits \in SUBSET a.items /\ blanks \in SUBSET a.items /\ asked \in SUBSET a.cases
    <3> HIDE DEF a
    <3> QED OBVIOUS
  <2>5. Cardinality(hits) \in Nat /\ Cardinality(blanks) \in Nat /\ Cardinality(asked) \in Nat
    <3> HIDE DEF hits, blanks, asked, a
    <3> QED BY <2>3, <2>4, CountsAreNumbers
  <2> HIDE DEF hits, blanks, asked, a
  <2>6. worker'[w] = s
    <3> HIDE DEF s, e
    <3> QED BY <2>1 DEF Step, RunsInv
  <2>7. /\ s.pc = "score" /\ s.e = e /\ s.items = Cardinality(hits)
        /\ s.blank = Cardinality(blanks) /\ s.cases = Cardinality(asked)
    OBVIOUS
  <2> HIDE DEF s, e
  <2>8. Holding(w)'
    BY <2>1, <2>5, <2>6, <2>7, <1>1 DEF Holding
  <2>9. DOMAIN runs' = DOMAIN runs /\ \A x \in DOMAIN runs : x # e => runs'[x] = runs[x]
    BY <2>1
  <2>10. /\ DOMAIN runs'[e] = DOMAIN runs[e] /\ runs'[e].rows = runs[e].rows
         /\ runs'[e].total = runs[e].total /\ runs'[e].ask = runs[e].ask
    BY <2>1, <1>3 DEF RunsInv, RunOK
  <2>11. \A x \in DOMAIN runs : RunOK(x)' /\ runs'[x].rows >= runs[x].rows
    BY <2>9, <2>10, <1>3 DEF RunsInv, RunOK
  <2>12. DOMAIN entry' = Runs /\ \A x \in Runs : entry[x] # "none" => entry'[x] # "none"
    BY <2>1 DEF RunsInv
  <2> QED BY <2>1, <2>8, <2>9, <2>11, <2>12, WorkerKeepsRuns
<1> QED BY <1>2, <1>3

(* The results are stored, with the run; the report will count them.       *)
LEMMA ResultsKeepRuns ==
    ASSUME RunsInv, NEW w \in Workers, CommitResults(w)
    PROVE  RunsInv'
<1> DEFINE s == worker[w]
<1> DEFINE e == worker[w].e
<1>1. s.pc = "results" /\ e \in Runs /\ entry[e] # "none" /\ s.n \in Nat
      /\ DOMAIN s = {"pc", "e", "n", "st"}
  BY DEF CommitResults, RunsInv, Holding
<1>2. CASE e \notin DOMAIN runs
  <2>1. Return(w, e) /\ runs' = runs
    BY <1>2 DEF CommitResults
  <2> HIDE DEF e
  <2> QED BY <2>1, <1>1, RunsUntouched, ReturnKeepsRuns
<1>3. CASE e \in DOMAIN runs
  <2>1. /\ runs' = [runs EXCEPT ![e].rows = @ + s.n] /\ entry' = entry
        /\ Step(w, [s EXCEPT !.pc = "report"])
    BY <1>3 DEF CommitResults
  <2>2. PICK t : t = [s EXCEPT !.pc = "report"]
    OBVIOUS
  <2>3. t.pc = "report" /\ t.e = e /\ t.n = s.n /\ DOMAIN t = {"pc", "e", "n", "st"}
    BY <2>2, <1>1
  <2>4. worker'[w] = t
    BY <2>1, <2>2 DEF Step, RunsInv
  <2>5. RunOK(e)
    BY <1>3 DEF RunsInv
  <2>6. PICK n : n = s.n
    OBVIOUS
  <2>7. PICK x : x = e
    OBVIOUS
  <2>8. Step(w, t) /\ runs' = [runs EXCEPT ![x].rows = @ + n]
    BY <2>1, <2>2, <2>6, <2>7
  <2>9. /\ n \in Nat /\ x \in DOMAIN runs /\ RunOK(x) /\ t.pc = "report" /\ t.e = x /\ t.n = n
        /\ x \in Runs /\ entry[x] # "none"
    BY <2>3, <2>5, <2>6, <2>7, <1>1, <1>3
  <2> HIDE DEF s, e
  <2>10. DOMAIN runs' = DOMAIN runs /\ \A y \in DOMAIN runs : y # x => runs'[y] = runs[y]
    BY <2>8
  <2>11. /\ DOMAIN runs'[x] = DOMAIN runs[x] /\ runs'[x].rows = runs[x].rows + n
         /\ runs'[x].total = runs[x].total /\ runs'[x].ask = runs[x].ask
    BY <2>8, <2>9 DEF RunOK
  <2>12. RunOK(x)' /\ runs'[x].rows >= runs[x].rows /\ runs'[x].rows >= n
    <3>1. runs[x].rows \in Nat /\ runs[x].total \in Nat /\ runs[x].rows >= runs[x].total
      BY <2>9 DEF RunOK
    <3>2. /\ runs'[x].rows \in Nat /\ runs'[x].rows >= runs[x].total
          /\ runs'[x].rows >= runs[x].rows /\ runs'[x].rows >= n
      BY <3>1, <2>9, <2>11
    <3> QED BY <3>1, <3>2, <2>9, <2>11 DEF RunOK
  <2>13. \A y \in DOMAIN runs : RunOK(y)' /\ runs'[y].rows >= runs[y].rows
    BY <2>10, <2>12 DEF RunsInv, RunOK
  <2>14. Holding(w)'
    BY <2>1, <2>3, <2>4, <2>9, <2>12 DEF Holding
  <2>15. DOMAIN entry' = Runs /\ \A y \in Runs : entry[y] # "none" => entry'[y] # "none"
    BY <2>1 DEF RunsInv
  <2> QED BY <2>8, <2>10, <2>13, <2>14, <2>15, WorkerKeepsRuns
<1> QED BY <1>2, <1>3

(* The report counts what CommitResults stored.                            *)
LEMMA ReportKeepsRuns ==
    ASSUME RunsInv, NEW w \in Workers, CommitReport(w)
    PROVE  RunsInv'
<1>1. PICK s : s = worker[w]
  OBVIOUS
<1>2. /\ s.pc = "report" /\ s.e \in Runs /\ s.n \in Nat
      /\ s.e \in DOMAIN runs => runs[s.e].rows >= s.n
  BY <1>1 DEF CommitReport, RunsInv, Holding
<1>3. /\ Return(w, s.e)
      /\ runs' = [e \in DOMAIN runs |-> IF e = s.e
                    THEN [runs[e] EXCEPT !.st = s.st, !.total = s.n] ELSE runs[e]]
  BY <1>1 DEF CommitReport
<1>4. DOMAIN runs' = DOMAIN runs
  BY <1>3
<1>5. ASSUME NEW e \in DOMAIN runs
      PROVE  RunOK(e)' /\ runs'[e].rows >= runs[e].rows
  <2>1. RunOK(e)
    BY DEF RunsInv
  <2>2. CASE e # s.e
    <3>1. runs'[e] = runs[e]
      BY <2>2, <1>3
    <3> QED BY <2>1, <3>1 DEF RunOK
  <2>3. CASE e = s.e
    <3>1. runs'[e] = [runs[e] EXCEPT !.st = s.st, !.total = s.n]
      BY <2>3, <1>3
    <3>2. /\ DOMAIN runs'[e] = DOMAIN runs[e] /\ runs'[e].rows = runs[e].rows
          /\ runs'[e].total = s.n /\ runs'[e].ask = runs[e].ask
      BY <3>1, <2>1 DEF RunOK
    <3> QED BY <3>2, <2>1, <2>3, <1>2 DEF RunOK
  <2> QED BY <2>2, <2>3
<1> QED BY <1>2, <1>3, <1>4, <1>5, ReturnKeepsRuns

(* An error changes the status of the run only.                            *)
LEMMA ErrorKeepsRuns ==
    ASSUME RunsInv, NEW w \in Workers, RunRaises(w)
    PROVE  RunsInv'
<1>1. PICK s : s = worker[w]
  OBVIOUS
<1>2. s.e \in Runs /\ Return(w, s.e)
  BY <1>1 DEF RunRaises, RunsInv, Holding
<1>3. runs' = [e \in DOMAIN runs |-> IF e = s.e /\ runs[e].st \notin Done
                 THEN [runs[e] EXCEPT !.st = "failed"] ELSE runs[e]]
  BY <1>1 DEF RunRaises
<1>4. DOMAIN runs' = DOMAIN runs
  BY <1>3
<1>5. ASSUME NEW e \in DOMAIN runs
      PROVE  RunOK(e)' /\ runs'[e].rows >= runs[e].rows
  <2>1. RunOK(e)
    BY DEF RunsInv
  <2>2. runs'[e] = runs[e] \/ runs'[e] = [runs[e] EXCEPT !.st = "failed"]
    BY <1>3
  <2>3. /\ DOMAIN runs'[e] = DOMAIN runs[e] /\ runs'[e].rows = runs[e].rows
        /\ runs'[e].total = runs[e].total /\ runs'[e].ask = runs[e].ask
    BY <2>1, <2>2 DEF RunOK
  <2> QED BY <2>1, <2>3 DEF RunOK
<1> QED BY <1>2, <1>4, <1>5, ReturnKeepsRuns

(* Taking a job, scoring and losing a lease leave the runs alone.          *)
LEMMA QuietStepKeepsRuns ==
    ASSUME RunsInv, NEW w \in Workers,
           (\E e \in Runs : TakeRun(w, e)) \/ Score(w) \/ LeaseLost(w)
    PROVE  RunsInv'
<1>1. ASSUME NEW e \in Runs, TakeRun(w, e)
      PROVE  RunsInv'
  <2> DEFINE s == [pc |-> "begin", e |-> e]
  <2>1. Step(w, s) /\ entry' = [entry EXCEPT ![e] = "running"] /\ runs' = runs
    BY <1>1 DEF TakeRun
  <2>2. /\ DOMAIN entry' = Runs /\ entry'[e] # "none"
        /\ \A x \in Runs : entry[x] # "none" => entry'[x] # "none"
    BY <2>1 DEF RunsInv
  <2>3. worker'[w] = s
    BY <2>1 DEF Step, RunsInv
  <2>4. Holding(w)'
    BY <2>2, <2>3 DEF Holding
  <2> HIDE DEF s
  <2> QED BY <2>1, <2>2, <2>4, RunsUntouched, WorkerKeepsRuns
<1>2. ASSUME Score(w)
      PROVE  RunsInv'
  <2> DEFINE n == worker[w].items + worker[w].blank + worker[w].cases
  <2>1. PICK v : Step(w, [pc |-> "results", e |-> worker[w].e, n |-> n, st |-> v])
    BY <1>2 DEF Score
  <2>2. PICK s : s = [pc |-> "results", e |-> worker[w].e, n |-> n, st |-> v]
    OBVIOUS
  <2>3. /\ worker[w].pc = "score" /\ n \in Nat /\ worker[w].e \in Runs
        /\ entry[worker[w].e] # "none" /\ runs' = runs /\ entry' = entry
    BY <1>2 DEF Score, RunsInv, Holding
  <2>4. Step(w, s) /\ worker'[w] = s
    BY <2>1, <2>2 DEF Step, RunsInv
  <2>5. s.pc = "results" /\ s.e = worker[w].e /\ s.n \in Nat /\ DOMAIN s = {"pc", "e", "n", "st"}
    <3> HIDE DEF n
    <3> QED BY <2>2, <2>3
  <2>6. Holding(w)'
    BY <2>3, <2>4, <2>5 DEF Holding
  <2>7. DOMAIN entry' = Runs /\ \A x \in Runs : entry[x] # "none" => entry'[x] # "none"
    BY <2>3 DEF RunsInv
  <2> QED BY <2>3, <2>4, <2>6, <2>7, RunsUntouched, WorkerKeepsRuns
<1>3. ASSUME LeaseLost(w)
      PROVE  RunsInv'
  <2>1. PICK e : e = worker[w].e
    OBVIOUS
  <2>2. e \in Runs /\ entry' = [entry EXCEPT ![e] = "queued"] /\ runs' = runs
    BY <1>3, <2>1 DEF LeaseLost, RunsInv, Holding
  <2>3. DOMAIN entry' = Runs /\ \A x \in Runs : entry[x] # "none" => entry'[x] # "none"
    BY <2>2 DEF RunsInv
  <2>4. CASE Step(w, Idle)
    <3>1. worker'[w] = Idle
      BY <2>4 DEF Step, RunsInv
    <3>2. Holding(w)'
      BY <3>1 DEF Holding, Idle
    <3> QED BY <2>2, <2>3, <2>4, <3>2, RunsUntouched, WorkerKeepsRuns
  <2>5. CASE worker' = worker
    BY <2>2, <2>3, <2>5 DEF RunsInv, RunOK, Holding
  <2> QED BY <1>3, <2>4, <2>5 DEF LeaseLost
<1> QED BY <1>1, <1>2, <1>3

-----------------------------------------------------------------------------
LEMMA EvaluationInitially == EvaluationInit => EvaluationInv
<1> SUFFICES ASSUME EvaluationInit
             PROVE  EvaluationInv
  OBVIOUS
<1>1. DatasetInv
  BY DEF EvaluationInit, DatasetInv, GoldIsLive
<1>2. RunsInv
  BY DEF EvaluationInit, RunsInv, Holding, Idle
<1> QED BY <1>1, <1>2 DEF EvaluationInv

(* Runs and workers do not touch the datasets.                             *)
LEMMA RunsLeaveDatasets ==
    ASSUME DatasetInv, live' = live, items' = items, raced' = raced
    PROVE  DatasetInv'
BY DEF DatasetInv, ItemOK, GoldIsLive

LEMMA EvaluationInvKept == EvaluationInv /\ [EvaluationNext]_evalVars => EvaluationInv'
<1> SUFFICES ASSUME EvaluationInv, [EvaluationNext]_evalVars
             PROVE  EvaluationInv'
  OBVIOUS
<1> USE DEF EvaluationInv
<1>1. CASE Dataset
  BY <1>1, DatasetStep, DatasetLeavesRuns
<1>2. ASSUME NEW e \in Runs, SubmitRun(e) \/ DeleteRun(e) \/ \E a \in Selections : CreateRun(e, a)
      PROVE  EvaluationInv'
  <2>1. live' = live /\ items' = items /\ raced' = raced
    BY <1>2 DEF SubmitRun, DeleteRun, CreateRun
  <2> QED BY <1>2, <2>1, RequestKeepsRuns, RunsLeaveDatasets
<1>3. ASSUME NEW w \in Workers, Work(w) \/ LeaseLost(w)
      PROVE  EvaluationInv'
  <2>1. live' = live /\ items' = items /\ raced' = raced
    BY <1>3 DEF Work, TakeRun, BeginRun, Score, CommitResults, CommitReport, RunRaises, LeaseLost
  <2>2. RunsInv'
    BY <1>3, BeginKeepsRuns, ResultsKeepRuns, ReportKeepsRuns, ErrorKeepsRuns, QuietStepKeepsRuns
       DEF Work
  <2> QED BY <2>1, <2>2, RunsLeaveDatasets
<1>4. CASE UNCHANGED evalVars
  BY <1>4, RunsLeaveDatasets DEF evalVars, RunsInv, RunOK, Holding
<1> QED BY <1>1, <1>2, <1>3, <1>4 DEF EvaluationNext

LEMMA EvaluationInvariant == EvaluationSpec => []EvaluationInv
<1> QED BY EvaluationInitially, EvaluationInvKept, PTL DEF EvaluationSpec

(* An item names live documents only, whatever is uploaded, purged,        *)
(* seeded, imported or cleaned up in which order; the exception is an item *)
(* whose document was purged between its writer's read and its commit.     *)
THEOREM DatasetsStayLive == EvaluationSpec => []GoldIsLive
<1>1. EvaluationInv => GoldIsLive
  BY DEF EvaluationInv, DatasetInv
<1> QED BY <1>1, EvaluationInvariant, PTL

(* The report of a run never counts results that are not stored, with any  *)
(* number of workers executing the run again after lost leases, and with   *)
(* the run deleted under their hands.                                      *)
THEOREM ReportsCountStoredResults == EvaluationSpec => []ReportedResultsExist
<1>1. EvaluationInv => ReportedResultsExist
  BY DEF EvaluationInv, RunsInv, RunOK, ReportedResultsExist
<1> QED BY <1>1, EvaluationInvariant, PTL
=============================================================================
