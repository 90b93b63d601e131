---------------------------- MODULE TurnPipeline ----------------------------
(***************************************************************************)
(* One chat turn: AgentPipeline (backend/app/agents/pipeline.py) driven by *)
(* the graph route -> tot? -> execute (backend/app/graph/nodes.py), with   *)
(* the plan executor, the tool loop, the reflection loop, the compliance   *)
(* gate and the turn's budgets.  The model, the retriever and the skills   *)
(* are external: they answer anything of their type, or raise.             *)
(*                                                                         *)
(* Texts are abstracted to what the gates read in them: their citation     *)
(* markers, whether their numbers occur in the evidence, whether they are  *)
(* a refusal.  Evidence is a set of documents; OnTopic are those that      *)
(* share words with the question.                                          *)
(***************************************************************************)
EXTENDS Integers, FiniteSets, Sequences, SequencesExt

CONSTANTS Docs, OnTopic,          \* what retrieval can return, and the on-topic part
          Question, Queries,      \* the original question, and every retrieval query
          Proposals,              \* plans that the router's model or the user may write
          MaxSteps,               \* CHAT_PLAN_MAX_STEPS
          MaxLLM, MaxRetrieval, MaxTool,     \* the turn budget
          ReflectionRounds, ToolRounds       \* CHAT_REFLECTION_MAX_ROUNDS, CHAT_TOOL_MAX_ROUNDS

NoQuery == "no query"
Kinds == {"retrieve", "skill", "tool", "verify", "answer"}
StepStatus == {"pending", "running", "success", "skipped", "error"}
NewSteps == [kind : Kinds, query : Queries \cup {NoQuery}, deps : SUBSET Nat, status : {"pending"}]

ASSUME TurnAssumption ==
    /\ OnTopic \subseteq Docs /\ IsFiniteSet(Docs)
    /\ Question \in Queries /\ NoQuery \notin Queries
    /\ Proposals \subseteq Seq(NewSteps)
    /\ {MaxSteps, MaxLLM, MaxRetrieval, MaxTool, ToolRounds} \subseteq Nat \ {0}
    /\ ReflectionRounds \in 0 .. 3

VARIABLES req,       \* the call: a chat or an evaluation, and has it knowledge bases?
          pc,        \* the stage the turn is in
          plan,      \* TurnState.plan: the steps and their statuses
          route,     \* RouterResult: mode, need_skill, the rewritten query; use_l2
          waves,     \* waves of steps still to run (L2)
          flight,    \* the steps of the current wave: where each one is
          bag,       \* RetrievalResult.evidence of the turn
          query,     \* the query of the L1 retrieval
          answer,    \* AnswerResult.answer
          verdict,   \* ComplianceResult
          rounds,    \* rounds of the tool loop, then of the reflection loop
          spent,     \* TurnBudget: calls reserved
          ledger,    \* TurnState.errors: the step outcomes and codes recorded
          status     \* TurnState.status, or failed: run() raised

vars == <<req, pc, plan, route, waves, flight, bag, query, answer, verdict, rounds,
          spent, ledger, status>>

Step(k, q, d) == [kind |-> k, query |-> q, deps |-> d, status |-> "pending"]

Modes == {"cot_direct", "cot_steps", "tot_select"}

(* What an answer text looks like to the gates.                            *)
Texts == [kind : {"model"}, cites : {"none", "valid", "dangling"},
          grounded : BOOLEAN, refusal : BOOLEAN]
Empty == [kind |-> "empty", cites |-> "none", grounded |-> TRUE, refusal |-> FALSE]
HARD_REFUSE_ANSWER == [Empty EXCEPT !.kind = "hard_refuse", !.refusal = TRUE]
NO_EVIDENCE_DISCLAIMER == [Empty EXCEPT !.kind = "disclaimed"]

Idle == [at |-> "idle", query |-> NoQuery, ev |-> {}, status |-> "pending"]
NoVerdict == [decision |-> "none", passed |-> FALSE]

Multi == route.mode # "cot_direct"

TurnTypeOK ==
    /\ \A i \in DOMAIN plan : plan[i].kind \in Kinds /\ plan[i].status \in StepStatus
    /\ route.mode \in Modes
    /\ bag \subseteq Docs
    /\ answer \in Texts \cup {Empty, HARD_REFUSE_ANSWER, NO_EVIDENCE_DISCLAIMER}
    /\ verdict.decision \in {"none", "PASS", "REVISE", "REFUSE"}
    /\ spent \in [{"llm", "retrieval", "tool"} -> 0 .. MaxLLM + MaxRetrieval + MaxTool]
    /\ status \in {"running", "completed", "awaiting_plan_selection", "failed"}

-----------------------------------------------------------------------------
(* The plan.                                                               *)

(* _ensure_answer_tail: at most MaxSteps steps, one of them an answer.     *)
EnsureAnswerTail(steps) ==
    LET cut == SubSeq(steps, 1, IF Len(steps) < MaxSteps THEN Len(steps) ELSE MaxSteps)
    IN IF steps = <<>> \/ \E i \in DOMAIN steps : steps[i].kind = "answer" THEN cut
       ELSE IF Len(steps) >= MaxSteps
            THEN [cut EXCEPT ![MaxSteps] = Step("answer", NoQuery, {})]
            ELSE Append(steps, Step("answer", NoQuery, {}))

(* _default_plan_for_task.                                                 *)
DefaultPlan(q, skill) ==
    <<Step("retrieve", q, {})>>
    \o (IF skill THEN <<Step("skill", q, {})>> ELSE <<>>)
    \o <<Step("answer", NoQuery, {})>>

(* _heuristic_route: no steps, no rewrite; the difficulty hint is the      *)
(* question's own (should_be_branched, should_be_multi_step).              *)
HeuristicRoute(hint, skill) ==
    [steps |-> <<>>, difficulty |-> hint, skill |-> skill, rewrite |-> Question]

(* RouterAgent.run's coercions of the model's JSON: no steps for a simple  *)
(* question, and two steps or more are never simple.                       *)
CoerceRoute(steps, difficulty, skill, rewrite) ==
    LET kept == IF difficulty = "simple" THEN <<>> ELSE steps
    IN [steps |-> kept, difficulty |-> difficulty, skill |-> skill, rewrite |-> rewrite]

(* normalize_plan: numbered steps of the user first, then the router's,    *)
(* then the default plan of a question that looks multi-step.              *)
NormalizePlan(numbered, hint, rr) ==
    LET coerced == SubSeq(rr.steps, 1, IF Len(rr.steps) < MaxSteps THEN Len(rr.steps) ELSE MaxSteps)
        branched == rr.difficulty = "branched" \/ hint = "branched"
        mode == IF branched THEN "tot_select" ELSE "cot_steps"
    IN IF Len(numbered) >= 2
       THEN [mode |-> "cot_steps", steps |-> EnsureAnswerTail(numbered)]
       ELSE IF Len(coerced) >= 2
       THEN [mode |-> mode, steps |-> EnsureAnswerTail(coerced)]
       ELSE IF hint # "simple" \/ branched
       THEN [mode |-> mode, steps |-> EnsureAnswerTail(DefaultPlan(rr.rewrite, rr.skill))]
       ELSE [mode |-> "cot_direct", steps |-> <<>>]

(* _heuristic_options: the templates offered when the model is not there,  *)
(* the first one recommended: one retrieval, two in parallel, skill first. *)
HeuristicOptions(q, skill) ==
    LET Second == CHOOSE r \in Queries : Queries # {q} => r # q
        Tail2(n) == IF skill THEN <<Step("skill", q, 1 .. n)>> ELSE <<>>
    IN <<EnsureAnswerTail(<<Step("retrieve", q, {})>> \o Tail2(1)),
         EnsureAnswerTail(<<Step("retrieve", q, {}), Step("retrieve", Second, {})>> \o Tail2(2)),
         EnsureAnswerTail(<<Step("retrieve", q, {}), Step("skill", q, {1})>>)>>

(* _normalize_option_steps of an option that the model wrote.              *)
NormalizeOption(p, q, skill) ==
    EnsureAnswerTail(IF Len(p) < 2 THEN DefaultPlan(q, skill) ELSE p)

(* _coerce_options_from_llm: the plans of the options that the model wrote; *)
(* too few options count as none.                                          *)
CoerceOptions(q, skill) == {NormalizeOption(p, q, skill) : p \in Proposals \cup {<<>>}}

(* generate_plan_options: the plans that may be put before the user.       *)
GeneratePlanOptions(q, skill) == CoerceOptions(q, skill) \cup Range(HeuristicOptions(q, skill))

(* should_use_plan_executor: two steps that do work, or more.              *)
ShouldUsePlanExecutor(steps) ==
    Cardinality({i \in DOMAIN steps : steps[i].kind \notin {"answer", "verify"}}) >= 2

(* infer_dependencies.                                                     *)
InferDependencies(steps) ==
    [i \in DOMAIN steps |->
        LET explicit == (steps[i].deps \cap DOMAIN steps) \ {i}
            Prior(ks) == {j \in 1 .. i - 1 : steps[j].kind \in ks}
            last == IF i > 1 THEN {i - 1} ELSE {}
            same == {j \in Prior({"retrieve"}) :
                        steps[i].query # NoQuery /\ steps[j].query = steps[i].query}
        IN IF explicit # {} THEN explicit
           ELSE IF steps[i].kind \in {"answer", "verify"}
           THEN IF Prior({"retrieve", "skill", "tool"}) # {}
                THEN Prior({"retrieve", "skill", "tool"}) ELSE last
           ELSE IF steps[i].kind \in {"skill", "tool"}
           THEN IF Prior({"retrieve"}) # {} THEN Prior({"retrieve"}) ELSE last
           ELSE IF same # {} THEN {Min(same)}
           ELSE IF steps[i].query = NoQuery /\ Prior({"retrieve"}) # {}
           THEN {Max(Prior({"retrieve"}))}
           ELSE {}]

Parallelizable == {"retrieve", "skill"}

(* Mutant: a batch also takes in the steps that must run alone.            *)
OneBatch(steps, ready) == <<ready>>

(* The waves of the steps that are ready together: runs of parallelizable  *)
(* steps in plan order, and the others each alone.                         *)
Batches(steps, ready) ==
    LET alone == {i \in ready : steps[i].kind \notin Parallelizable}
        Batch(i) == IF i \in alone THEN {i}
                    ELSE {j \in ready \ alone : \A k \in alone : (k < i) = (k < j)}
        batches == {Batch(i) : i \in ready}
    IN  [n \in 1 .. Cardinality(batches) |->
            CHOOSE b \in batches : Cardinality({c \in batches : Min(c) <= Min(b)}) = n]

(* One step after the other, in plan order.                                *)
Serially(rest) == [n \in 1 .. Cardinality(rest) |-> {SetToSortSeq(rest, <)[n]}]

(* build_execution_waves: Kahn's algorithm; a cycle is flushed serially.   *)
BuildExecutionWaves(steps, deps) ==
    LET all == DOMAIN steps
        W[done \in SUBSET all] ==
            LET ready == {i \in all \ done : deps[i] \subseteq done}
            IN IF done = all THEN <<>>
               ELSE IF ready = {} THEN Serially(all \ done)
               ELSE Batches(steps, ready) \o W[done \cup ready]
    IN W[{}]

(* A plan whose dependencies can be met: among any steps there is one that *)
(* waits for none of them.                                                 *)
Acyclic(deps) ==
    \A S \in SUBSET DOMAIN deps : S # {} => \E i \in S : deps[i] \cap S = {}

(* _emit_plan_kind: the pending and running steps of a kind.               *)
SetKind(steps, k, s) ==
    [i \in DOMAIN steps |->
        IF steps[i].kind = k /\ steps[i].status \in {"pending", "running"}
        THEN [steps[i] EXCEPT !.status = s] ELSE steps[i]]

(* record_step_outcome for the steps of a kind that have a status.         *)
OutcomesOf(steps, k, s) ==
    {<<i, s>> : i \in {j \in DOMAIN steps : steps[j].kind = k /\ steps[j].status = s}}

-----------------------------------------------------------------------------
(* TurnBudget.reserve.                                                     *)
Budget == [llm |-> MaxLLM, retrieval |-> MaxRetrieval, tool |-> MaxTool]

CanReserve(k) == spent[k] < Budget[k]

Reserve(k) == CanReserve(k) /\ spent' = [spent EXCEPT ![k] = @ + 1]

(* A call that gives nothing: refused by the budget, or made and raised.   *)
Lost(k) == IF CanReserve(k) THEN Reserve(k) ELSE UNCHANGED spent

(* run() raises: the turn's limits, the retriever, or the model behind the *)
(* answer.  Nothing of the turn is returned.                               *)
Raise ==
    /\ pc' = "done" /\ status' = "failed"
    /\ UNCHANGED <<plan, route, waves, flight, bag, query, answer, verdict, rounds, ledger>>

Timeout == status = "running" /\ Raise /\ UNCHANGED spent

(* A chat pauses for the user (hitl), has tools, skills and reflection; an *)
(* evaluation has none of them and always has knowledge bases.  hard is    *)
(* CHAT_HARD_REFUSE_WITHOUT_EVIDENCE.                                      *)
Requests == [chat : BOOLEAN, kbs : BOOLEAN, hard : BOOLEAN]

TurnInit ==
    /\ req \in {q \in Requests : q.chat \/ q.kbs}
    /\ \/ pc = "route" /\ plan = <<>> /\ route = [mode |-> "cot_direct", l2 |-> FALSE,
                                                  skill |-> FALSE, rewrite |-> Question]
       \/ \E p \in UNION {GeneratePlanOptions(Question, skill) : skill \in BOOLEAN} :
            /\ req.chat           \* the user has selected an option
            /\ pc = "execute" /\ plan = p
            /\ route = [mode |-> "tot_select", skill |-> FALSE, rewrite |-> Question,
                        l2 |-> ShouldUsePlanExecutor(p)]
    /\ waves = <<>> /\ flight = <<>> /\ bag = {} /\ query = Question
    /\ answer = Empty /\ verdict = NoVerdict /\ rounds = 0
    /\ spent = [k \in {"llm", "retrieval", "tool"} |-> 0]
    /\ ledger = {} /\ status = "running"

-----------------------------------------------------------------------------
(* chat_route_node: the router, then normalize_plan.                       *)
Routed(numbered, hint, rr) ==
    LET n == NormalizePlan(numbered, hint, rr)
    IN /\ plan' = n.steps
       /\ route' = [mode |-> n.mode, l2 |-> ShouldUsePlanExecutor(n.steps),
                    skill |-> rr.skill, rewrite |-> rr.rewrite]
       /\ pc' = IF n.mode = "tot_select" THEN "tot" ELSE "execute"
       /\ UNCHANGED <<waves, flight, bag, query, answer, verdict, rounds, ledger, status>>

Difficulties == {"simple", "multi_step", "branched"}

(* should_be_branched is never true of a question with numbered steps.     *)
Route ==
    /\ pc = "route"
    /\ \E numbered \in Proposals \cup {<<>>}, hint \in Difficulties, skill \in BOOLEAN :
         /\ numbered # <<>> => hint = "multi_step"
         /\ \/ Lost("llm") /\ Routed(numbered, hint, HeuristicRoute(hint, skill))
            \/ /\ numbered = <<>> /\ Reserve("llm")
               /\ \E steps \in Proposals \cup {<<>>}, d \in Difficulties, rw \in Queries :
                    Routed(numbered, hint, CoerceRoute(steps, d, skill, rw))

(* chat_tot_node: the candidate plans; a chat stops here and asks, an      *)
(* evaluation takes the recommended one.                                   *)
BranchTot ==
    /\ pc = "tot"
    /\ \/ /\ req.chat
          /\ Lost("llm")
          /\ pc' = "done" /\ status' = "awaiting_plan_selection"
          /\ UNCHANGED <<plan, route>>
       \/ /\ ~req.chat
          /\ \/ Lost("llm") /\ plan' = Head(HeuristicOptions(route.rewrite, route.skill))
             \/ Reserve("llm") /\ plan' \in CoerceOptions(route.rewrite, route.skill)
          /\ route' = [route EXCEPT !.l2 = ShouldUsePlanExecutor(plan')]
          /\ pc' = "execute" /\ UNCHANGED status
    /\ UNCHANGED <<waves, flight, bag, query, answer, verdict, rounds, ledger>>

(* _execute_plan: the executor's waves, or the single retrieval of L1 with *)
(* the plan's main query or the router's rewrite.                          *)
Execute ==
    /\ pc = "execute"
    /\ IF route.l2
       THEN /\ pc' = "wave"
            /\ waves' = BuildExecutionWaves(plan, InferDependencies(plan))
            /\ flight' = [i \in DOMAIN plan |-> Idle]
            /\ UNCHANGED <<plan, query>>
       ELSE LET asks == {i \in DOMAIN plan : plan[i].kind # "answer" /\ plan[i].query # NoQuery}
                main == {i \in asks : plan[i].kind = "retrieve"}
            IN /\ pc' = "retrieve"
               /\ query' = IF Multi
                           THEN IF main # {} THEN plan[Min(main)].query
                                ELSE IF asks # {} THEN plan[Min(asks)].query ELSE Question
                           ELSE route.rewrite
               /\ plan' = SetKind(plan, "retrieve", "running")
               /\ UNCHANGED <<waves, flight>>
    /\ UNCHANGED <<route, bag, answer, verdict, rounds, spent, ledger, status>>

-----------------------------------------------------------------------------
(* assess_retrieval_quality: evidence supports the question when any of it *)
(* is about the question; otherwise it is off topic.                       *)
Supported(ev) == ev \cap OnTopic # {}

(* Off-topic evidence is dropped, and so is what a refusal leaves.         *)
Accepted(ev) == IF Supported(ev) THEN ev ELSE {}

Retrieved(ev) ==
    /\ bag' = ev
    /\ plan' = SetKind(plan, "retrieve", IF ev # {} THEN "success" ELSE "error")
    /\ ledger' = ledger \cup (IF ev # {} THEN {} ELSE OutcomesOf(plan', "retrieve", "error"))
    /\ pc' = "skills"
    /\ UNCHANGED <<route, waves, flight, query, answer, verdict, rounds, status>>

(* The L1 retrieval: one retry, with the query the request came with;      *)
(* none at all without knowledge bases.                                    *)
Retrieve ==
    /\ pc = "retrieve"
    /\ \/ ~req.kbs /\ Retrieved({}) /\ UNCHANGED spent
       \/ req.kbs /\ Lost("retrieval") /\ Raise
       \/ /\ req.kbs /\ Reserve("retrieval")
          /\ \E ev \in SUBSET Docs :
               IF ~Supported(ev) /\ query # Question
               THEN /\ query' = Question
                    /\ UNCHANGED <<pc, plan, route, waves, flight, bag, answer, verdict,
                                   rounds, ledger, status>>
               ELSE Retrieved(Accepted(ev))

(* The skill stage of L1, when the request has skills on (enable): it      *)
(* runs, suggests or finds nothing.                                        *)
Skills ==
    /\ pc = "skills"
    /\ \E enable \in BOOLEAN, found \in BOOLEAN :
         LET need == req.chat /\ enable /\ (route.skill \/ \E i \in DOMAIN plan : plan[i].kind = "skill")
             s == IF ~need THEN "skipped" ELSE IF found THEN "success" ELSE "error"
             tools == SetKind(SetKind(plan, "skill", s), "tool",
                              IF req.chat THEN "success" ELSE "skipped")
         IN /\ plan' = IF Multi THEN tools ELSE plan
            /\ ledger' = ledger \cup
                 (IF Multi /\ s # "success" THEN OutcomesOf(plan', "skill", s) ELSE {})
    /\ pc' = "answer"
    /\ UNCHANGED <<route, waves, flight, bag, query, answer, verdict, rounds, spent, status>>

-----------------------------------------------------------------------------
(* PlanExecutor.run: the steps of a wave run concurrently.                 *)
StartWave ==
    /\ pc = "wave" /\ waves # <<>>
    /\ flight' = [i \in DOMAIN plan |->
                    IF i \in Head(waves)
                    THEN [Idle EXCEPT !.at = "ready",
                                      !.query = IF plan[i].query = NoQuery THEN route.rewrite
                                                ELSE plan[i].query]
                    ELSE Idle]
    /\ plan' = [i \in DOMAIN plan |->
                    IF i \in Head(waves) THEN [plan[i] EXCEPT !.status = "running"] ELSE plan[i]]
    /\ pc' = "running"
    /\ UNCHANGED <<route, waves, bag, query, answer, verdict, rounds, spent, ledger, status>>

Land(i, s, ev) == flight' = [flight EXCEPT ![i].at = "landed", ![i].status = s, ![i].ev = ev]

flightless == <<plan, route, waves, bag, query, answer, verdict, rounds, ledger, status>>

(* run_one, a retrieve step: the call goes out ...                         *)
StepRetrieve(i) ==
    /\ pc = "running" /\ flight[i].at = "ready" /\ plan[i].kind = "retrieve"
    /\ \/ ~req.kbs /\ Land(i, "error", {}) /\ UNCHANGED <<pc, spent, flightless>>
       \/ req.kbs /\ ~CanReserve("retrieval") /\ Raise /\ UNCHANGED spent
       \/ /\ req.kbs /\ Reserve("retrieval")
          /\ flight' = [flight EXCEPT ![i].at = "out"]
          /\ UNCHANGED <<pc, flightless>>

(* ... and comes back: accepted, dropped, or asked again with the original *)
(* question; when it raises, gather raises and the turn fails.             *)
StepRetrieved(i) ==
    /\ pc = "running" /\ flight[i].at = "out"
    /\ \/ Raise
       \/ \E ev \in SUBSET Docs :
            /\ IF ~Supported(ev) /\ flight[i].query # Question
               THEN flight' = [flight EXCEPT ![i].at = "ready", ![i].query = Question]
               ELSE Land(i, IF Accepted(ev) # {} THEN "success" ELSE "error", Accepted(ev))
            /\ UNCHANGED <<pc, flightless>>
    /\ UNCHANGED spent

(* What a skill step may end in: skipped when skills are off or no skill   *)
(* matches, an error without evidence; else execute_one runs it, and skips *)
(* a comparison of fewer than two excerpts.                                *)
SkillOutcomes ==
    {"skipped"} \cup
    (IF ~req.chat THEN {} ELSE IF bag = {} THEN {"error"} ELSE {"success", "error"})

(* run_one, the other kinds: a tool is a marker, verify looks at the       *)
(* evidence gathered so far.                                               *)
StepLocal(i) ==
    /\ pc = "running" /\ flight[i].at = "ready" /\ plan[i].kind # "retrieve"
    /\ \/ plan[i].kind = "skill" /\ \E s \in SkillOutcomes : Land(i, s, {})
       \/ plan[i].kind = "tool" /\ Land(i, "skipped", {})
       \/ plan[i].kind = "verify" /\ Land(i, IF bag = {} THEN "error" ELSE "success", {})
       \/ plan[i].kind = "answer" /\ Land(i, "success", {})
    /\ UNCHANGED <<pc, spent, flightless>>

(* Mutant: only the errors of a wave are recorded, not what was skipped.   *)
RecordErrors(w) == {<<i, flight[i].status>> : i \in {j \in w : flight[j].status = "error"}}

(* Non-success outcomes of a wave, as record_step_outcome files them.      *)
WaveOutcomes(w) == {<<i, flight[i].status>> : i \in {j \in w : flight[j].status # "success"}}

(* The wave is over: its side effects are applied in plan order.           *)
EndWave ==
    /\ pc = "running"
    /\ \A i \in Head(waves) : flight[i].at = "landed"
    /\ bag' = bag \cup UNION {flight[i].ev : i \in DOMAIN flight}
    /\ plan' = [i \in DOMAIN plan |->
                    IF i \in Head(waves) THEN [plan[i] EXCEPT !.status = flight[i].status]
                    ELSE plan[i]]
    /\ ledger' = ledger \cup WaveOutcomes(Head(waves))
    /\ waves' = Tail(waves)
    /\ flight' = [i \in DOMAIN plan |-> Idle]
    /\ pc' = IF Tail(waves) = <<>> THEN "answer" ELSE "wave"
    /\ UNCHANGED <<route, query, answer, verdict, rounds, spent, status>>

-----------------------------------------------------------------------------
(* AnswerAgent.                                                            *)
Answered(a) ==
    /\ answer' = a /\ rounds' = 0 /\ pc' = "critique"
    /\ plan' = SetKind(plan, "answer", "success")
    /\ UNCHANGED <<route, waves, flight, bag, query, verdict, ledger, status>>

(* _run_without_evidence: a refusal, or a disclaimed answer of the model.  *)
AnswerWithoutEvidence ==
    /\ pc = "answer" /\ bag = {}
    /\ \/ req.hard /\ Answered(HARD_REFUSE_ANSWER) /\ UNCHANGED spent
       \/ ~req.hard /\ Lost("llm") /\ Answered(HARD_REFUSE_ANSWER)
       \/ ~req.hard /\ Reserve("llm") /\ Answered(NO_EVIDENCE_DISCLAIMER)

(* The model's text; after ToolRounds rounds a last call without tools.    *)
AnswerText ==
    /\ pc = "answer" /\ bag # {}
    /\ \/ Lost("llm") /\ Raise
       \/ Reserve("llm") /\ \E t \in Texts : Answered(t)

(* ChatToolExecutor.execute: a call is executed, refused by the budget or  *)
(* fails.  kb.search spends the turn's retrieval budget and degrades when  *)
(* there is none left; what it finds is for the model to read only.        *)
ToolCall(search) ==
    [spent EXCEPT !.tool = IF CanReserve("tool") THEN @ + 1 ELSE @,
                  !.retrieval = IF search /\ CanReserve("tool") /\ CanReserve("retrieval")
                                THEN @ + 1 ELSE @]

(* A round of the tool loop: the outcome goes back to the model.           *)
ToolRound ==
    /\ pc = "answer" /\ bag # {} /\ req.chat /\ rounds < ToolRounds
    /\ CanReserve("llm")
    /\ \E search \in BOOLEAN :
         spent' = [ToolCall(search) EXCEPT !.llm = @ + 1]
    /\ rounds' = rounds + 1
    /\ UNCHANGED <<pc, plan, route, waves, flight, bag, query, answer, verdict, ledger, status>>

-----------------------------------------------------------------------------
(* ReflectionLoop.run.  should_run_reflection: evidence, an answer that is *)
(* not a refusal, and a high-stakes turn (several steps, risk, a skill or  *)
(* low confidence).                                                        *)
MayReflect == req.chat /\ ReflectionRounds > 0 /\ bag # {} /\ ~answer.refusal

SkipReflection ==
    /\ pc = "critique" /\ rounds = 0
    /\ ~MayReflect \/ ~Multi
    /\ pc' = "comply"
    /\ UNCHANGED <<plan, route, waves, flight, bag, query, answer, verdict, rounds, spent,
                   ledger, status>>

(* CritiqueAgent.evaluate: an answer that cannot be read is fail-open, and *)
(* so is a critic that cannot be asked.                                    *)
Verdicts == IF CanReserve("llm") THEN {"PASS", "NEEDS_IMPROVEMENT"} ELSE {"PASS"}

(* ImproveAgent.improve: a rewritten draft, or the draft as it was.        *)
Improved == IF CanReserve("llm") THEN Texts \cup {answer} ELSE {answer}

(* Mutant: a critic that cannot be asked fails the draft, and the round is *)
(* not counted.                                                            *)
CritiqueFailClosed ==
    /\ pc = "critique" /\ (MayReflect \/ rounds > 0)
    /\ Lost("llm")
    /\ pc' \in {"improve", "comply"}
    /\ UNCHANGED <<plan, route, waves, flight, bag, query, answer, verdict, rounds, ledger, status>>

(* The critic: it passes the draft, is fail-open when it cannot be asked   *)
(* or read, and never improves after the last round.                       *)
Critique ==
    /\ pc = "critique" /\ (MayReflect \/ rounds > 0)
    /\ Lost("llm")
    /\ \E v \in Verdicts :
         pc' = IF v = "NEEDS_IMPROVEMENT" /\ rounds + 1 < ReflectionRounds
               THEN "improve" ELSE "comply"
    /\ rounds' = rounds + 1
    /\ UNCHANGED <<plan, route, waves, flight, bag, query, answer, verdict, ledger, status>>

(* The editor rewrites the draft, or leaves it as it is.                   *)
Improve ==
    /\ pc = "improve"
    /\ Lost("llm")
    /\ answer' \in Improved
    /\ pc' = "critique"
    /\ UNCHANGED <<plan, route, waves, flight, bag, query, verdict, rounds, ledger, status>>

-----------------------------------------------------------------------------
(* ComplianceAgent.run.                                                    *)
RefuseCodes(a, ev) ==
    (IF a.kind = "empty" THEN {"EMPTY_ANSWER"} ELSE {})
    \cup (IF ev = {} THEN {"NO_RELIABLE_EVIDENCE"} ELSE {})
    \cup (IF ev # {} /\ a.cites = "dangling" THEN {"DANGLING_CITATIONS"} ELSE {})

ReviseCodes(a, ev) ==
    (IF ev # {} /\ a.cites = "none" /\ ~a.refusal THEN {"MISSING_CITATION_MARKERS"} ELSE {})
    \cup (IF ev # {} /\ ~a.grounded THEN {"UNGROUNDED_NUMERIC_CLAIMS"} ELSE {})

Compliance(a, ev) ==
    LET d == IF RefuseCodes(a, ev) # {} THEN "REFUSE"
             ELSE IF ReviseCodes(a, ev) # {} THEN "REVISE" ELSE "PASS"
    IN [decision |-> d, passed |-> d = "PASS"]

(* The gate, with one directed revision of a draft that may be mended ...  *)
Comply ==
    /\ pc = "comply"
    /\ verdict' = Compliance(answer, bag)
    /\ plan' = SetKind(plan, "verify", "running")
    /\ pc' = IF verdict'.decision = "REVISE" THEN "revise" ELSE "release"
    /\ UNCHANGED <<route, waves, flight, bag, query, answer, rounds, spent, ledger, status>>

(* Mutant: the revised draft is released on the verdict of the old one.    *)
ReviseUnchecked ==
    /\ pc = "revise"
    /\ Lost("llm")
    /\ answer' \in Improved
    /\ verdict' = [decision |-> "PASS", passed |-> TRUE]
    /\ pc' = "release"
    /\ UNCHANGED <<plan, route, waves, flight, bag, query, rounds, ledger, status>>

Revise ==
    /\ pc = "revise"
    /\ Lost("llm")
    /\ answer' \in Improved
    /\ LET v == Compliance(answer', bag)
       IN verdict' = IF v.decision = "REVISE" THEN [v EXCEPT !.decision = "REFUSE"] ELSE v
    /\ pc' = "release"
    /\ UNCHANGED <<plan, route, waves, flight, bag, query, rounds, ledger, status>>

(* ... and the release: a refused draft is replaced by the safe refusal,   *)
(* and the steps that nothing ran are closed.                              *)
Release ==
    /\ pc = "release"
    /\ answer' = IF verdict.decision = "REFUSE" /\ bag # {} THEN HARD_REFUSE_ANSWER ELSE answer
    /\ LET v == SetKind(plan, "verify", IF verdict.passed THEN "success" ELSE "error")
           open == {i \in DOMAIN v : v[i].status = "pending"}
       IN /\ plan' = [i \in DOMAIN v |->
                        IF i \in open THEN [v[i] EXCEPT !.status = "skipped"] ELSE v[i]]
          /\ ledger' = ledger \cup {<<i, "skipped">> : i \in open}
                       \cup OutcomesOf(v, "verify", "error")
    /\ pc' = "done" /\ status' = "completed"
    /\ UNCHANGED <<route, waves, flight, bag, query, verdict, rounds, spent>>

Finished == pc = "done" /\ UNCHANGED vars

Stages ==
    \/ Route \/ BranchTot \/ Execute \/ Retrieve \/ Skills
    \/ StartWave \/ EndWave
    \/ \E i \in DOMAIN plan : StepRetrieve(i) \/ StepRetrieved(i) \/ StepLocal(i)
    \/ AnswerWithoutEvidence \/ AnswerText \/ ToolRound
    \/ SkipReflection \/ Critique \/ Improve \/ Comply \/ Revise \/ Release

Next == (Stages \/ Timeout \/ Finished) /\ UNCHANGED req

(* Every awaited call returns or raises: the clients have timeouts of      *)
(* their own.  The turn's timeout is not assumed to fire.                  *)
Spec == TurnInit /\ [][Next]_vars /\ WF_vars(Stages /\ UNCHANGED req)

-----------------------------------------------------------------------------
(* The release gate: "never publish a draft that failed citation/grounding *)
(* checks".  Whatever the reflection and revision rounds did to the draft, *)
(* a completed turn with evidence gives the safe refusal or a text that    *)
(* passes the checks as it stands, and one without evidence never claims   *)
(* to have passed.  The evidence gates of L1 and of every parallel step of *)
(* L2 see to it that some of the evidence is about the question.           *)
ReleasedIsSound ==
    status = "completed" =>
        IF bag = {} THEN ~verdict.passed /\ answer.kind # "model"
        ELSE Supported(bag) /\ (answer = HARD_REFUSE_ANSWER \/ Compliance(answer, bag).decision = "PASS")

(* The plan executor runs a step only when every step it depends on has    *)
(* ended, and verify, answer and tool steps alone, unless the plan's       *)
(* dependencies form a cycle.                                              *)
StepsWaitTheirTurn ==
    route.l2 /\ pc = "running" /\ Acyclic(InferDependencies(plan)) =>
        \A i \in Head(waves) :
            /\ \A d \in InferDependencies(plan)[i] : plan[d].status \notin {"pending", "running"}
            /\ plan[i].kind \notin Parallelizable => Head(waves) = {i}

(* "Success and failure both land in this object": when the turn completes *)
(* every step of the plan has ended and each one that did not succeed is   *)
(* in the ledger, the tool markers of a turn without tools excepted.       *)
OutcomesAreRecorded ==
    status = "completed" =>
        \A i \in DOMAIN plan :
            /\ plan[i].status \in {"success", "skipped", "error"}
            /\ plan[i].status # "success" /\ (plan[i].kind = "tool" => route.l2) => <<i, plan[i].status>> \in ledger

(* Every turn ends, with an answer, a question to the user or an error:    *)
(* a cyclic plan, a spent budget or a critic that never passes does not    *)
(* keep it going.                                                          *)
TurnEnds == <>(status # "running")
=============================================================================
