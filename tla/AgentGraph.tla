----------------------------- MODULE AgentGraph -----------------------------
(***************************************************************************)
(* One run of the shared graph (backend/app/graph/): the nodes that chat,  *)
(* stream and eval traverse, from the request to the answer, as functions  *)
(* of the graph's state.  A node that raises ends the run, whose caller    *)
(* sees the exception.  The approval branch of the graph is not here: both *)
(* callers of build_graph pass requires_approval = False.                  *)
(***************************************************************************)
EXTENDS Naturals, FiniteSets, Sequences, SequencesExt

CONSTANTS Tenant,       \* the tenant of the request
          Corpus,       \* the candidates retrieval may return
          MaxFound      \* bound: candidates one retrieval returns

(* EvidenceCandidate; the relevance is in hundredths.                      *)
Candidate == [id : STRING, tenant : STRING, relevance : 0 .. 100,
              retrievable : BOOLEAN, source : {"knowledge_base", "memory"}]

(* An evidence id names one candidate: the gate records what it accepted,  *)
(* generate finds it again and a run cites it, by the id alone.            *)
ASSUME GraphAssumption ==
    /\ Corpus \subseteq Candidate
    /\ \A c, d \in Corpus : c.id = d.id => c = d
    /\ MaxFound \in Nat

(* RELEVANCE_THRESHOLD and _POLICY_SOURCE_TYPES.                           *)
RelevanceThreshold == 50
PolicySourceTypes == {"knowledge_base"}

(* GraphRunRequest, with what its dependencies will do: the list retrieval *)
(* returns and which node's dependency, if any, raises.                    *)
Request == [blank : BOOLEAN, found : SeqOf(Corpus, MaxFound),
            fault : {"none", "memory_load", "rewrite", "retrieve", "generate"}]

(* The state _run_graph starts from.                                       *)
GraphState0(request) ==
    [request |-> request, status |-> "none", candidates |-> <<>>, gate |-> "none",
     accepted |-> {}, answer |-> "none", evidence |-> {}, raised |-> FALSE]

-----------------------------------------------------------------------------
Raise(g) == [g EXCEPT !.raised = TRUE]

Validate(g) == IF g.request.blank THEN Raise(g) ELSE [g EXCEPT !.status = "running"]

(* memory_load and rewrite only shape the wording: memory is no candidate. *)
MemoryLoad(g) == g
Rewrite(g) == g

Retrieve(g) == [g EXCEPT !.candidates = g.request.found]

(* The most relevant first, and a stable sort: the place of a candidate is *)
(* the number of candidates that come no later.                            *)
NoLater(s, i) ==
    {j \in DOMAIN s : \/ s[j].relevance > s[i].relevance
                      \/ s[j].relevance = s[i].relevance /\ j <= i}

ByRelevance(s) ==
    [k \in DOMAIN s |-> s[CHOOSE i \in DOMAIN s : Cardinality(NoLater(s, i)) = k]]

Rerank(g) == [g EXCEPT !.candidates = ByRelevance(@)]

(* Not the code: the tenant is left to the store's own filter.             *)
IsAcceptableAnyTenant(c) ==
    c.retrievable /\ c.source \in PolicySourceTypes /\ c.relevance >= RelevanceThreshold

(* _is_acceptable and evaluate_evidence_gate.                              *)
IsAcceptable(c) ==
    /\ c.tenant = Tenant
    /\ c.retrievable
    /\ c.source \in PolicySourceTypes
    /\ c.relevance >= RelevanceThreshold

EvaluateEvidenceGate(candidates) == {c.id : c \in {c \in Range(candidates) : IsAcceptable(c)}}

EvidenceGate(g) ==
    LET accepted == EvaluateEvidenceGate(g.candidates)
    IN  [g EXCEPT !.accepted = accepted,
                  !.gate = IF accepted # {} THEN "supported" ELSE "insufficient_evidence"]

(* No tool is asked for without an approval.                               *)
PlanOrTool(g) == g

(* An unsupported question is refused without asking the provider.         *)
Generate(g) ==
    IF g.gate # "supported"
      THEN [g EXCEPT !.answer = "refusal", !.evidence = {}]
      ELSE [g EXCEPT !.answer = "grounded", !.evidence = g.accepted]

Writeback(g) == g

Finalize(g) == [g EXCEPT !.status = IF g.gate # "none" THEN "succeeded" ELSE "failed"]

-----------------------------------------------------------------------------
SharedNodeSequence ==
    <<"validate", "memory_load", "rewrite", "retrieve", "rerank", "evidence_gate",
      "plan_or_tool", "generate", "writeback", "finalize">>

(* The provider is called, and can fail, only for a supported question.    *)
Faulty(n, g) == n = g.request.fault /\ (n = "generate" => g.gate = "supported")

Node(n, g) ==
    CASE n = "validate"       -> Validate(g)
      [] n = "memory_load"    -> MemoryLoad(g)
      [] n = "rewrite"        -> Rewrite(g)
      [] n = "retrieve"       -> Retrieve(g)
      [] n = "rerank"         -> Rerank(g)
      [] n = "evidence_gate"  -> EvidenceGate(g)
      [] n = "plan_or_tool"   -> PlanOrTool(g)
      [] n = "generate"       -> Generate(g)
      [] n = "writeback"      -> Writeback(g)
      [] n = "finalize"       -> Finalize(g)

Visit(n, g) ==
    IF g.raised THEN g ELSE IF Faulty(n, g) THEN Raise(g) ELSE Node(n, g)

(* build_graph: the edges lead through the nodes in that order.            *)
RunGraph(request) ==
    LET after[n \in 0 .. Len(SharedNodeSequence)] ==
          IF n = 0 THEN GraphState0(request) ELSE Visit(SharedNodeSequence[n], after[n - 1])
    IN  after[Len(SharedNodeSequence)]
=============================================================================
