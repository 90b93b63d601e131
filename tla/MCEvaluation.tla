---------------------------- MODULE MCEvaluation ----------------------------
(* Evaluation for TLC: a case with one gold document, a negative, one answer case.        *)
EXTENDS Evaluation, TLC

CONSTANTS p1, q1, c1, c2, i1, k1

MCGold == (c1 :> {p1}) @@ (c2 :> {})
MCSelections ==
    {[items |-> {c1}, cases |-> {}, types |-> {"retrieval"}],
     [items |-> {}, cases |-> {k1}, types |-> {"ragas"}],
     [items |-> {c1, c2, i1}, cases |-> {k1}, types |-> {"retrieval", "rag_answer"}]}
MCMaxGeneration == (p1 :> 2) @@ (q1 :> 1)
=============================================================================
