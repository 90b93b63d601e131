---------------------------- MODULE Conversation ----------------------------
(***************************************************************************)
(* Conversations: the two-request chat protocol (ask, then select or       *)
(* cancel a proposed plan) of backend/app/services/chat_service.py, and    *)
(* the memory written after a turn (agents/memory_agent.py).               *)
(*                                                                         *)
(* A turn is one request.  It reads and writes through one session whose   *)
(* uncommitted rows are its own; the model call, the tools and the memory  *)
(* extraction are awaited, and other requests run in between.  The         *)
(* pipeline itself is the subject of TurnPipeline: here it ends with an    *)
(* answer, a pending plan or an error.                                     *)
(***************************************************************************)
EXTENDS Integers, FiniteSets

CONSTANTS Turns,               \* the requests; the question of a turn is named after it
          Conversations,
          FreshConversation,   \* one that does not exist yet: an ask without an id creates it
          WindowTurns,         \* MEMORY_STM_WINDOW_TURNS
          CompressTurns,       \* MEMORY_COMPRESS_TURN_THRESHOLD
          Events,              \* what the memory extractor may find in a turn
          Strangers,           \* other owners: members and their conversations
          MaxForgotten         \* bound: memories that are deleted or expire

None == "none"

ASSUME ConversationAssumption ==
    /\ IsFiniteSet(Turns) /\ FreshConversation \in Conversations
    /\ None \notin Conversations
    /\ WindowTurns \in Nat /\ CompressTurns \in Nat \ {0} /\ MaxForgotten \in Nat

VARIABLES standing,   \* Conversation.status, "none" before it is committed
          msgs,       \* committed rows of messages, by id
          logs,       \* committed rows of ai_query_logs
          memory,     \* committed rows of memory_items
          summary,    \* Conversation.summary: compressed_message_ids
          turn,       \* the requests
          clock,      \* created_at of the next message
          forgotten   \* memories that were deleted or expired, a bound's count

conversationVars == <<standing, msgs, logs, memory, summary, turn, clock, forgotten>>

UserMsg(t) == <<t, "user">>
AsstMsg(t) == <<t, "assistant">>

(* A message row.  question: what it asks or answers; by: the turn that    *)
(* wrote its text.                                                         *)
Row(c, role, st, q, t, at) ==
    [conv |-> c, role |-> role, st |-> st, question |-> q, by |-> t, at |-> at,
     expired |-> FALSE]

(* A query log: the turn is its id.                                        *)
Log(t, c, q) == [id |-> t, conv |-> c, question |-> q]

NoTurn == [pc |-> "idle", kind |-> None, conv |-> None, question |-> None, stub |-> None,
           source |-> None, at |-> 0, unsaved |-> FALSE, recalled |-> {}, prev |-> {},
           fold |-> {}]

(* A row of memory_items: its owner is the member, or a conversation, and  *)
(* terms tells whether its text names policy terms.                        *)
Item(type, owner, terms, expires) ==
    [type |-> type, owner |-> owner, terms |-> terms, expires |-> expires]

ConversationTypeOK ==
    /\ standing \in [Conversations -> {"none", "active", "deleted"}]
    /\ \A m \in DOMAIN msgs :
         /\ msgs[m].role \in {"user", "assistant"}
         /\ msgs[m].st \in {"sent", "awaiting_plan_selection", "cancelled", "completed"}
    /\ \A t \in Turns : turn[t].pc \in {"idle", "pipeline", "cancel", "writeback", "compress",
                                         "fold", "done"}

ConversationInit ==
    /\ standing = [c \in Conversations |-> IF c = FreshConversation THEN "none" ELSE "active"]
    /\ msgs = [m \in {} |-> None]
    /\ logs = {}
    /\ memory = {Item("user_preference", o, FALSE, "never") : o \in Strangers}
    /\ summary = [c \in Conversations |-> {}]
    /\ turn = [t \in Turns |-> NoTurn]
    /\ clock = 1 /\ forgotten = 0

Of(c, role) == {m \in DOMAIN msgs : msgs[m].conv = c /\ msgs[m].role = role}

Latest(ms) == CHOOSE m \in ms : \A n \in ms : msgs[n].at <= msgs[m].at

With(m, row) == [n \in DOMAIN msgs \cup {m} |-> IF n = m THEN row ELSE msgs[n]]

To(t, p) == turn' = [turn EXCEPT ![t].pc = p]

(* The request is over, and what it held is gone.                          *)
End(t) == turn' = [turn EXCEPT ![t] = [NoTurn EXCEPT !.pc = "done", !.conv = turn[t].conv]]

-----------------------------------------------------------------------------
(* MemoryAgent.load: what a turn is shown.                                 *)

(* list_for_owner: expired rows are left out here.                         *)
ListForOwner(owner, types) ==
    {m \in memory : m.owner = owner /\ m.type \in types /\ m.expires # "past"}

(* list_fixed_memories, within its limits.                                 *)
FixedMemories == ListForOwner("member", {"user_preference", "entity"})

SearchableTypes == {"long_term_event", "entity", "user_preference", "conversation_summary"}

(* search_memories_scored: how the rows rank is not modelled; all of them  *)
(* may be relevant to the question and among the best.                     *)
SearchMemories(c) ==
    ListForOwner("member", SearchableTypes) \cup ListForOwner(c, SearchableTypes)

(* The heat of what is shown is bookkeeping; when a row was deleted        *)
(* meanwhile it raises, and the turn ends as in Fail.                      *)
WorkingSet(c) == FixedMemories \cup SearchMemories(c)

-----------------------------------------------------------------------------
(* Request A.  The user's message, and a new conversation, are flushed but *)
(* not committed.                                                          *)
Ask(t, c) ==
    /\ turn[t].pc = "idle"
    /\ \/ standing[c] = "active"
       \/ standing[c] = "none" /\ \A u \in Turns : turn[u].conv # c
    /\ turn' = [turn EXCEPT ![t] = [NoTurn EXCEPT !.pc = "pipeline", !.kind = "ask",
                    !.conv = c, !.question = t, !.source = UserMsg(t), !.at = clock,
                    !.unsaved = TRUE, !.recalled = WorkingSet(c)]]
    /\ clock' = clock + 1
    /\ UNCHANGED <<standing, msgs, logs, memory, summary, forgotten>>

(* _find_awaiting_assistant_message and the expiry check: the latest       *)
(* message of the conversation that awaits a selection.                    *)
Pending(c) ==
    LET a == {m \in Of(c, "assistant") : msgs[m].st = "awaiting_plan_selection"}
    IN IF a = {} \/ msgs[Latest(a)].expired THEN {} ELSE {Latest(a)}

(* The question that was stored with the pending plan.                     *)
StoredQuestion(m) == msgs[m].question

(* Request B: the plan is loaded and, after the pipeline, the stub becomes *)
(* the answer.  The message named as its source is the latest of the user. *)
Select(t, c) ==
    /\ turn[t].pc = "idle" /\ standing[c] = "active"
    /\ \E m \in Pending(c) :
         turn' = [turn EXCEPT ![t] = [NoTurn EXCEPT !.pc = "pipeline", !.kind = "select",
                    !.conv = c, !.question = StoredQuestion(m), !.stub = m,
                    !.source = Latest(Of(c, "user")), !.recalled = WorkingSet(c)]]
    /\ UNCHANGED <<standing, msgs, logs, memory, summary, clock, forgotten>>

(* Request B, cancelling: the plan is loaded ...                           *)
Cancel(t, c) ==
    /\ turn[t].pc = "idle" /\ standing[c] = "active"
    /\ \E m \in Pending(c) :
         turn' = [turn EXCEPT ![t] = [NoTurn EXCEPT !.pc = "cancel", !.kind = "cancel",
                    !.conv = c, !.stub = m]]
    /\ UNCHANGED <<standing, msgs, logs, memory, summary, clock, forgotten>>

(* ... and marked.                                                         *)
CancelCommit(t) ==
    /\ turn[t].pc = "cancel"
    /\ msgs' = [msgs EXCEPT ![turn[t].stub].st = "cancelled", ![turn[t].stub].by = t]
    /\ End(t)
    /\ UNCHANGED <<standing, logs, memory, summary, clock, forgotten>>

-----------------------------------------------------------------------------
(* What a commit of the turn's session makes visible.                      *)
Saved(t) ==
    IF turn[t].unsaved
    THEN With(UserMsg(t), Row(turn[t].conv, "user", "sent", t, t, turn[t].at)) ELSE msgs

(* Mutant: the conversation is written back as it was read.                *)
WholeRow(t) == [standing EXCEPT ![turn[t].conv] = "active"]

(* A commit inserts a new conversation, and writes only updated_at of one  *)
(* that is there.                                                          *)
Committed(t) ==
    [standing EXCEPT ![turn[t].conv] = IF @ = "none" THEN "active" ELSE @]

(* ToolRegistry.run and SkillRegistry.run log their call with a commit of  *)
(* the turn's own session.                                                 *)
ToolCommits(t) ==
    /\ turn[t].pc = "pipeline"
    /\ turn[t].unsaved
    /\ msgs' = Saved(t) /\ standing' = Committed(t)
    /\ turn' = [turn EXCEPT ![t].unsaved = FALSE]
    /\ UNCHANGED <<logs, memory, summary, clock, forgotten>>

(* When that commit fails it is rolled back, the question with it, and the *)
(* tool's error goes to the model.                                         *)
ToolRollsBack(t) ==
    /\ turn[t].pc = "pipeline"
    /\ turn[t].unsaved
    /\ turn' = [turn EXCEPT ![t].unsaved = FALSE]
    /\ UNCHANGED <<standing, msgs, logs, memory, summary, clock, forgotten>>

(* The pipeline raises, the final commit fails, the client goes away or    *)
(* the process dies: the session is rolled back.                           *)
Fail(t) ==
    /\ turn[t].pc \in {"pipeline", "cancel"}
    /\ End(t)
    /\ UNCHANGED <<standing, msgs, logs, memory, summary, clock, forgotten>>

(* The pipeline asks for a selection: the stub is stored with its plan.    *)
(* Tools run only once a plan is being executed, so the question is saved  *)
(* with it.                                                                *)
AwaitSelection(t) ==
    /\ turn[t].pc = "pipeline" /\ turn[t].kind = "ask" /\ turn[t].unsaved
    /\ LET row == Row(turn[t].conv, "assistant", "awaiting_plan_selection",
                      turn[t].question, t, clock)
       IN msgs' = [m \in DOMAIN Saved(t) \cup {AsstMsg(t)} |->
                     IF m = AsstMsg(t) THEN row ELSE Saved(t)[m]]
    /\ standing' = Committed(t) /\ clock' = clock + 1
    /\ End(t)
    /\ UNCHANGED <<logs, memory, summary, forgotten>>

(* The pending plan's time runs out.                                       *)
Expire(m) ==
    /\ msgs[m].st = "awaiting_plan_selection" /\ ~msgs[m].expired
    /\ msgs' = [msgs EXCEPT ![m].expired = TRUE]
    /\ UNCHANGED <<standing, logs, memory, summary, turn, clock, forgotten>>

(* The message that carries the answer: the stub of a selection, or new.   *)
AnswerRow(t) ==
    IF turn[t].kind = "select" THEN turn[t].stub ELSE AsstMsg(t)

(* Mutant: the resolved plan keeps the query log that it has.              *)
LogOnce(t) ==
    IF \E l \in logs : l.question = turn[t].question THEN logs
    ELSE logs \cup {Log(t, turn[t].conv, turn[t].question)}

LogWritten(t) == logs \cup {Log(t, turn[t].conv, turn[t].question)}

(* Mutant: the question is taken to be there.                              *)
SourceAssumed(t) == TRUE

(* session.refresh(user_message): it raises for a row that was rolled back.*)
SourceStored(t) == turn[t].source \in DOMAIN Saved(t)

(* The completed path: the question, the answer and the query log in one   *)
(* commit.  A question that a failed tool audit took away is not there to  *)
(* be refreshed: the request ends with an error, without memory.           *)
Complete(t) ==
    /\ turn[t].pc = "pipeline"
    /\ LET at == IF turn[t].kind = "select" THEN msgs[turn[t].stub].at ELSE clock
           row == Row(turn[t].conv, "assistant", "completed", turn[t].question, t, at)
       IN msgs' = [m \in DOMAIN Saved(t) \cup {AnswerRow(t)} |->
                     IF m = AnswerRow(t) THEN row ELSE Saved(t)[m]]
    /\ logs' = LogWritten(t)
    /\ standing' = Committed(t)
    /\ clock' = clock + 1
    /\ IF SourceStored(t)
         THEN turn' = [turn EXCEPT ![t].pc = "writeback", ![t].unsaved = FALSE,
                                   ![t].recalled = {}, ![t].prev = summary[turn[t].conv]]
         ELSE End(t)
    /\ UNCHANGED <<memory, summary, forgotten>>

-----------------------------------------------------------------------------
(* MemoryAgent.writeback.                                                  *)

(* An event of the extractor: salience is low below the long-term          *)
(* threshold, medium below 0.7, high from 0.75 on; policy is the           *)
(* extractor's word for it, terms whether its text names policy terms.     *)
EventTypes == [type : {"preference", "entity_update", "decision", "conversation_fact"},
               salience : {"low", "medium", "high"}, policy : BOOLEAN, terms : BOOLEAN]

(* write_memory: "policy facts cannot be stored as user preferences".      *)
WriteMemory(type, owner, terms, expires) ==
    IF type = "user_preference" /\ terms THEN {} ELSE {Item(type, owner, terms, expires)}

(* find_similar_preference: rows stand for what they say.                  *)
FindSimilarPreference == ListForOwner("member", {"user_preference"})

(* upsert_entity: one row for the entity, its facts merged into it.        *)
UpsertEntity(terms) ==
    IF ListForOwner("member", {"entity"}) # {} THEN {} ELSE WriteMemory("entity", "member", terms, "never")

(* Facts and decisions are kept for long when they are salient enough.     *)
KeptForLong(e) ==
    /\ e.salience = "low" => ~(e.policy \/ e.type = "conversation_fact")
    /\ e.policy /\ e.type = "conversation_fact" => e.salience = "high"

(* _ttl_expiry is for plain facts below 0.7.                               *)
Expiry(e) == IF e.type = "conversation_fact" /\ e.salience # "high" THEN "later" ELSE "never"

(* What is kept of an event.                                               *)
Remembered(e) ==
    CASE e.type = "preference" ->
           IF e.policy \/ FindSimilarPreference # {} THEN {}
           ELSE WriteMemory("user_preference", "member", e.terms, "never")
      [] e.type = "entity_update" -> UpsertEntity(e.terms)
      [] OTHER ->
           IF KeptForLong(e) THEN WriteMemory("long_term_event", "member", e.terms, Expiry(e)) ELSE {}

(* The trail of the turn, which names its messages.                        *)
Trail(t) ==
    [type |-> "conversation_summary", owner |-> turn[t].conv, terms |-> FALSE, expires |-> "never",
     turn |-> t, source |-> turn[t].source, answer |-> AnswerRow(t)]

(* One unit of work; its failure is only a warning.                        *)
Writeback(t) ==
    /\ turn[t].pc = "writeback"
    /\ \E e \in Events : memory' = memory \cup Remembered(e) \cup {Trail(t)}
    /\ To(t, "compress")
    /\ UNCHANGED <<standing, msgs, logs, summary, clock, forgotten>>

WritebackFails(t) ==
    /\ turn[t].pc \in {"writeback", "compress", "fold"}
    /\ End(t)
    /\ UNCHANGED <<standing, msgs, logs, memory, summary, clock, forgotten>>

(* load_recent_messages: the messages a turn is shown.                     *)
Window(c) ==
    LET all == Of(c, "user") \cup Of(c, "assistant")
    IN {m \in all : Cardinality({n \in all : msgs[n].at > msgs[m].at}) < 2 * WindowTurns}

(* Mutant: the window is counted in messages here, and in turns there.     *)
OutsideHalfWindow(c) ==
    LET all == Of(c, "user") \cup Of(c, "assistant")
    IN {m \in all : Cardinality({n \in all : msgs[n].at > msgs[m].at}) >= WindowTurns}

(* messages_outside_window, written apart from load_recent_messages.       *)
OutsideWindow(c) ==
    LET all == Of(c, "user") \cup Of(c, "assistant")
        keep == 2 * WindowTurns
    IN {m \in all : keep # 0 /\ Cardinality({n \in all : msgs[n].at < msgs[m].at})
                               < Cardinality(all) - keep}

(* _maybe_compress_window: the older messages are read ...                 *)
CompressRead(t) ==
    /\ turn[t].pc = "compress"
    /\ LET older == OutsideWindow(turn[t].conv)
           due == older # {} /\ Cardinality(older) + 2 * WindowTurns > 2 * CompressTurns
                  /\ ~(older \subseteq turn[t].prev)
       IN IF due THEN turn' = [turn EXCEPT ![t].pc = "fold", ![t].fold = turn[t].prev \cup older]
                 ELSE End(t)
    /\ UNCHANGED <<standing, msgs, logs, memory, summary, clock, forgotten>>

(* ... and, when the model has summed them up, written over the summary.   *)
CompressWrite(t) ==
    /\ turn[t].pc = "fold"
    /\ memory' = memory \cup {Item("short_term_summary", turn[t].conv, FALSE, "never")}
    /\ summary' = [summary EXCEPT ![turn[t].conv] = turn[t].fold]
    /\ End(t)
    /\ UNCHANGED <<standing, msgs, logs, clock, forgotten>>

-----------------------------------------------------------------------------
(* delete_conversation, of the owner: a soft delete.                       *)
Delete(c) ==
    /\ standing[c] = "active"
    /\ standing' = [standing EXCEPT ![c] = "deleted"]
    /\ UNCHANGED <<msgs, logs, memory, summary, turn, clock, forgotten>>

(* list_for_user and get_for_user: a member manages the rows that are the  *)
(* member's or a conversation's of the member, deleted ones too.           *)
Manageable == {m \in memory : m.owner = "member" \/ m.owner \in Conversations}

(* DELETE /api/memory/{id}.                                                *)
DeleteMemory(m) ==
    /\ forgotten < MaxForgotten /\ forgotten' = forgotten + 1
    /\ m \in Manageable
    /\ memory' = memory \ {m}
    /\ UNCHANGED <<standing, msgs, logs, summary, turn, clock>>

(* A row's time runs out.                                                  *)
MemoryExpires(m) ==
    /\ forgotten < MaxForgotten /\ forgotten' = forgotten + 1
    /\ m.expires = "later"
    /\ memory' = (memory \ {m}) \cup {[m EXCEPT !.expires = "past"]}
    /\ UNCHANGED <<standing, msgs, logs, summary, turn, clock>>

AtRest == (\A t \in Turns : turn[t].pc \in {"idle", "done"}) /\ UNCHANGED conversationVars

ConversationNext ==
    \/ \E t \in Turns, c \in Conversations : Ask(t, c) \/ Select(t, c) \/ Cancel(t, c)
    \/ \E t \in Turns :
         \/ CancelCommit(t) \/ ToolCommits(t) \/ ToolRollsBack(t) \/ Fail(t)
         \/ AwaitSelection(t) \/ Complete(t)
         \/ Writeback(t) \/ WritebackFails(t) \/ CompressRead(t) \/ CompressWrite(t)
    \/ \E m \in DOMAIN msgs : Expire(m)
    \/ \E c \in Conversations : Delete(c)
    \/ \E m \in memory : DeleteMemory(m) \/ MemoryExpires(m)
    \/ AtRest

ConversationSpec == ConversationInit /\ [][ConversationNext]_conversationVars

-----------------------------------------------------------------------------
(* An answer shown in a conversation is the one in the query log that it   *)
(* names, whichever of two requests resolved the plan last, and a plan     *)
(* selected after other questions were asked still answers the question it *)
(* was proposed for.                                                       *)
AnswersAreLogged ==
    \A m \in DOMAIN msgs :
        /\ msgs[m].st = "completed" => Log(msgs[m].by, msgs[m].conv, msgs[m].question) \in logs
        /\ msgs[m].role = "assistant" => msgs[m].question = m[1]

(* A deleted conversation stays deleted, whatever turn was under way, and  *)
(* only a turn that was under way adds to it.                              *)
DeletedIsFinal ==
    [][\A c \in Conversations : standing[c] = "deleted" =>
         /\ standing'[c] = "deleted"
         /\ \A t \in Turns : turn[t].pc = "idle" => turn'[t].conv # c]_conversationVars

(* Memory is written only about answers that were stored, and names a      *)
(* stored question as its source; "policy facts cannot be stored as user   *)
(* preferences", even when the extractor does not recognise them; and a    *)
(* turn is shown nothing of another member, or of another conversation.    *)
MemoryHasSource ==
    /\ \A m \in memory :
        /\ m.type = "user_preference" => ~m.terms
        /\ m.type = "conversation_summary" =>
              /\ m.source \in DOMAIN msgs /\ m.answer \in DOMAIN msgs
              /\ msgs[m.source].conv = m.owner /\ msgs[m.answer].conv = m.owner
              /\ \E l \in logs : l.id = m.turn
    /\ \A t \in Turns : \A m \in turn[t].recalled :
        m.owner \in {"member", turn[t].conv} /\ m.expires # "past"

(* What is folded into the rolling summary is never what the window still  *)
(* shows, with turns that overlap and rows that arrive out of order.       *)
CompressedIsOld == \A c \in Conversations : summary[c] \cap Window(c) = {}

(* "Find original user message (last user before stub)": the source of the *)
(* memory of a selected plan is the question that it answers.              *)
SourceIsItsQuestion ==
    \A m \in memory : m.type = "conversation_summary" =>
        msgs[m.source].question = msgs[m.answer].question
=============================================================================
