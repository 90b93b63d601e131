--------------------------- MODULE MCTurnPipeline ---------------------------
(* A bounded instance of TurnPipeline: two documents, one of them on topic, *)
(* and plans with parallel retrievals, a skill, a tool and verify step, a   *)
(* forward dependency and a cycle.                                          *)
EXTENDS TurnPipeline

MCProposals ==
    {<<Step("retrieve", "q1", {}), Step("retrieve", Question, {}), Step("skill", NoQuery, {}),
       Step("verify", NoQuery, {})>>,
     <<Step("retrieve", "q1", {2}), Step("tool", NoQuery, {1})>>,
     <<Step("verify", NoQuery, {}), Step("retrieve", NoQuery, {3}), Step("retrieve", "q1", {})>>,
     <<Step("retrieve", "q1", {}), Step("verify", NoQuery, {})>>,
     <<Step("tool", NoQuery, {}), Step("answer", NoQuery, {})>>}
=============================================================================
