--------------------------- MODULE MCConversation ---------------------------
(* A bounded instance of Conversation: three requests over a conversation  *)
(* that one of them creates, a window of one turn.                         *)
EXTENDS Conversation, TLC

TurnSymmetry == Permutations(Turns)

(* A preference that is kept, one whose policy the extractor missed, and a *)
(* fact that is kept for a while.                                          *)
MCEvents ==
    {[type |-> "preference", salience |-> "high", policy |-> FALSE, terms |-> FALSE],
     [type |-> "preference", salience |-> "high", policy |-> FALSE, terms |-> TRUE],
     [type |-> "conversation_fact", salience |-> "medium", policy |-> FALSE, terms |-> TRUE]}
=============================================================================
