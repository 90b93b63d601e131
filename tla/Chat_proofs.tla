----------------------------- MODULE Chat_proofs -----------------------------
(***************************************************************************)
(* Proofs about a chat: Conversation for any number of requests,           *)
(* conversations, events and window sizes, and TurnPipeline for any plans, *)
(* documents and budgets.                                                  *)
(***************************************************************************)
EXTENDS TurnPipeline, Conversation, FiniteSetTheorems, SequenceTheorems,
        WellFoundedInduction, TLAPS

-----------------------------------------------------------------------------
(* Conversation: the inductive invariant.  A request works on what it read *)
(* earlier, so the properties need what it still knows of the tables.      *)

MessageFields == {"conv", "role", "st", "question", "by", "at", "expired"}
TurnFields == {"pc", "kind", "conv", "question", "stub", "source", "at", "unsaved",
               "recalled", "prev", "fold"}
ItemFields == {"type", "owner", "terms", "expires"}
TrailFields == ItemFields \cup {"turn", "source", "answer"}

(* A message is named after the turn that inserted it and belongs to that  *)
(* turn's conversation; a pending plan was stored together with the        *)
(* question it was proposed for.                                           *)
MessageOK(m) ==
    /\ m \in Turns \X {"user", "assistant"}
    /\ DOMAIN msgs[m] = MessageFields
    /\ msgs[m].role = m[2]
    /\ turn[m[1]].pc # "idle" /\ msgs[m].conv = turn[m[1]].conv
    /\ msgs[m].at \in Nat /\ msgs[m].at < clock
    /\ m[2] = "assistant" => msgs[m].question = m[1]
    /\ msgs[m].st = "completed" => Log(msgs[m].by, msgs[m].conv, msgs[m].question) \in logs
    /\ msgs[m].st = "awaiting_plan_selection" => UserMsg(m[1]) \in DOMAIN msgs

(* No two messages have the same time.                                     *)
TimesDiffer == \A m, n \in DOMAIN msgs : m # n => msgs[m].at # msgs[n].at

MessagesOK == (\A m \in DOMAIN msgs : MessageOK(m)) /\ TimesDiffer

(* The messages of a conversation that came after m.                       *)
After(c, m) == {n \in DOMAIN msgs : msgs[n].conv = c /\ msgs[n].at > msgs[m].at}

(* Messages of conversation c that have left its window, and for good:     *)
(* messages are only added.                                                *)
Old(c, S) ==
    \A m \in S : /\ m \in DOMAIN msgs /\ msgs[m].conv = c
                 /\ Cardinality(After(c, m)) >= 2 * WindowTurns

InConversation(m, c) == m \in DOMAIN msgs /\ msgs[m].conv = c

(* A question that is still only in its turn's session.                    *)
UnsavedOK(t) ==
    turn[t].unsaved =>
        /\ turn[t].pc = "pipeline" /\ turn[t].kind = "ask"
        /\ UserMsg(t) \notin DOMAIN msgs
        /\ turn[t].at \in Nat /\ turn[t].at < clock
        /\ \A m \in DOMAIN msgs : msgs[m].at # turn[t].at
        /\ \A u \in Turns : u # t /\ turn[u].unsaved => turn[u].at # turn[t].at

(* What a request knows in the pipeline: a new question has no answer yet, *)
(* a selection has the stub and the question that was stored with it.      *)
PipelineOK(t) ==
    turn[t].pc = "pipeline" =>
        \/ /\ turn[t].kind = "ask" /\ turn[t].question = t /\ turn[t].source = UserMsg(t)
           /\ AsstMsg(t) \notin DOMAIN msgs
        \/ /\ turn[t].kind = "select" /\ ~turn[t].unsaved
           /\ InConversation(turn[t].stub, turn[t].conv)
           /\ turn[t].stub[2] = "assistant" /\ turn[t].question = turn[t].stub[1]
           /\ InConversation(turn[t].source, turn[t].conv)

(* What it knows afterwards.                                               *)
LaterOK(t) ==
    /\ turn[t].pc = "cancel" => /\ InConversation(turn[t].stub, turn[t].conv)
                                /\ turn[t].stub[2] = "assistant"
    /\ turn[t].pc = "writeback" => /\ InConversation(turn[t].source, turn[t].conv)
                                   /\ InConversation(AnswerRow(t), turn[t].conv)
                                   /\ \E l \in logs : l.id = t
    /\ turn[t].pc \in {"writeback", "compress"} => Old(turn[t].conv, turn[t].prev)
    /\ turn[t].pc = "fold" => Old(turn[t].conv, turn[t].fold)

RecalledOK(t) ==
    \A m \in turn[t].recalled : m.owner \in {"member", turn[t].conv} /\ m.expires # "past"

TurnOK(t) ==
    /\ DOMAIN turn[t] = TurnFields /\ turn[t].unsaved \in BOOLEAN
    /\ turn[t].pc = "idle" => turn[t].conv = None
    /\ turn[t].pc # "idle" => turn[t].conv \in Conversations
    /\ UnsavedOK(t) /\ PipelineOK(t) /\ LaterOK(t) /\ RecalledOK(t)

(* A row of memory: no policy facts among the preferences, and a trail     *)
(* names messages of its conversation and a turn with a query log.         *)
MemoryOK(m) ==
    /\ m.type = "user_preference" => ~m.terms
    /\ IF m.type = "conversation_summary"
       THEN /\ DOMAIN m = TrailFields
            /\ InConversation(m.source, m.owner) /\ InConversation(m.answer, m.owner)
            /\ \E l \in logs : l.id = m.turn
       ELSE DOMAIN m = ItemFields

TablesOK ==
    /\ DOMAIN standing = Conversations /\ DOMAIN turn = Turns
    /\ DOMAIN summary = Conversations /\ clock \in Nat

ConversationInv ==
    /\ TablesOK /\ MessagesOK
    /\ \A t \in Turns : TurnOK(t)
    /\ \A m \in memory : MemoryOK(m)
    /\ \A c \in Conversations : Old(c, summary[c])

-----------------------------------------------------------------------------
(* Facts about messages.                                                   *)

LEMMA MessagesAreFinite ==
    ASSUME NEW D, D \subseteq Turns \X {"user", "assistant"}
    PROVE  IsFiniteSet(D)
<1>1. IsFiniteSet({"user", "assistant"})
  <2>1. IsFiniteSet({"user"})
    BY FS_Singleton
  <2>2. IsFiniteSet({"user"} \cup {"assistant"})
    BY <2>1, FS_AddElement
  <2>3. {"user"} \cup {"assistant"} = {"user", "assistant"}
    OBVIOUS
  <2> QED BY <2>2, <2>3
<1>2. IsFiniteSet(Turns \X {"user", "assistant"})
  BY <1>1, FS_Product, ConversationAssumption
<1> QED BY <1>2, FS_Subset

(* A set of messages has a latest one: its distance to the clock is least. *)
LEMMA LatestIsThere ==
    ASSUME MessagesOK, clock \in Nat, NEW S, S \subseteq DOMAIN msgs, S # {}
    PROVE  Latest(S) \in S
<1> DEFINE T == {clock - msgs[m].at : m \in S}
<1>1. \A m \in S : msgs[m].at \in Nat /\ msgs[m].at < clock
  BY DEF MessagesOK, MessageOK
<1>2. T \subseteq Nat /\ T # {}
  <2>1. PICK x \in S : TRUE
    OBVIOUS
  <2>2. \A y \in S : clock - msgs[y].at \in Nat
    BY <1>1
  <2> QED BY <2>1, <2>2
<1>3. PICK d \in T : \A k \in T : ~ (<<k, d>> \in OpToRel(<, Nat))
  <2> HIDE DEF T
  <2> QED BY <1>2, NatLessThanWellFounded, WFMin
<1>4. \A k \in T : ~ (k < d)
  <2> HIDE DEF T
  <2> QED BY <1>2, <1>3 DEF OpToRel
<1>5. PICK x \in S : d = clock - msgs[x].at
  BY <1>3
<1>6. ASSUME NEW n \in S
      PROVE  msgs[n].at <= msgs[x].at
  <2>1. ~ (clock - msgs[n].at < d)
    BY <1>4
  <2> QED BY <1>1, <1>5, <2>1
<1> QED BY <1>6 DEF Latest

(* Messages are never taken away, and keep their conversation and time.    *)
Grows ==
    /\ DOMAIN msgs \subseteq DOMAIN msgs'
    /\ \A m \in DOMAIN msgs : msgs'[m].conv = msgs[m].conv /\ msgs'[m].at = msgs[m].at
    /\ logs \subseteq logs'

(* Then what has left the window stays outside.                            *)
LEMMA OldStays ==
    ASSUME Grows, MessagesOK, MessagesOK', NEW c, NEW S, Old(c, S)
    PROVE  Old(c, S)'
<1> SUFFICES ASSUME NEW m \in S
             PROVE  /\ m \in DOMAIN msgs' /\ msgs'[m].conv = c
                    /\ Cardinality(After(c, m)') >= 2 * WindowTurns
  BY DEF Old
<1>1. m \in DOMAIN msgs /\ msgs[m].conv = c /\ Cardinality(After(c, m)) >= 2 * WindowTurns
  BY DEF Old
<1>2. IsFiniteSet(DOMAIN msgs) /\ IsFiniteSet(DOMAIN msgs')
  <2>1. /\ DOMAIN msgs \subseteq Turns \X {"user", "assistant"}
        /\ DOMAIN msgs' \subseteq Turns \X {"user", "assistant"}
    BY DEF MessagesOK, MessageOK
  <2> QED BY <2>1, MessagesAreFinite
<1>3. After(c, m) \in SUBSET (After(c, m)') /\ After(c, m)' \in SUBSET DOMAIN msgs'
  BY <1>1 DEF After, Grows
<1>4. IsFiniteSet(After(c, m)')
  BY <1>2, <1>3, FS_Subset
<1>5. IsFiniteSet(After(c, m)) /\ Cardinality(After(c, m)) <= Cardinality(After(c, m)')
  BY <1>3, <1>4, FS_Subset
<1>6. Cardinality(After(c, m)) \in Nat /\ Cardinality(After(c, m)') \in Nat
  BY <1>4, <1>5, FS_CardinalityType
<1> QED BY <1>1, <1>5, <1>6, ConversationAssumption DEF Grows

(* messages_outside_window takes messages that load_recent_messages has    *)
(* left behind, although the two count from opposite ends.                 *)
LEMMA OutsideIsOld ==
    ASSUME MessagesOK, NEW c
    PROVE  Old(c, OutsideWindow(c))
<1> DEFINE all == {m \in DOMAIN msgs : msgs[m].conv = c}
<1>1. Of(c, "user") \cup Of(c, "assistant") = all
  BY DEF Of, MessagesOK, MessageOK
<1> SUFFICES ASSUME NEW m \in OutsideWindow(c)
             PROVE  /\ m \in DOMAIN msgs /\ msgs[m].conv = c
                    /\ Cardinality(After(c, m)) >= 2 * WindowTurns
  BY DEF Old
<1> DEFINE before == {n \in all : msgs[n].at < msgs[m].at}
<1>2. m \in all /\ Cardinality(before) < Cardinality(all) - 2 * WindowTurns
  BY <1>1 DEF OutsideWindow
<1>3. IsFiniteSet(DOMAIN msgs) /\ \A n \in DOMAIN msgs : msgs[n].at \in Nat
  <2>1. DOMAIN msgs \subseteq Turns \X {"user", "assistant"}
    BY DEF MessagesOK, MessageOK
  <2> QED BY <2>1, MessagesAreFinite DEF MessagesOK, MessageOK
<1>4. all \in SUBSET DOMAIN msgs /\ before \in SUBSET all /\ After(c, m) \in SUBSET all
  BY DEF After
<1>5. all = (before \cup {m}) \cup After(c, m)
  <2>1. \A n \in all : n = m \/ msgs[n].at < msgs[m].at \/ msgs[n].at > msgs[m].at
    BY <1>2, <1>3 DEF MessagesOK, TimesDiffer
  <2> QED BY <1>2, <2>1 DEF After
<1> HIDE DEF all, before
<1>6. IsFiniteSet(all)
  BY <1>3, <1>4, FS_Subset
<1>7. IsFiniteSet(before) /\ IsFiniteSet(After(c, m))
  BY <1>4, <1>6, FS_Subset
<1>8. IsFiniteSet(before \cup {m}) /\ Cardinality(before \cup {m}) <= Cardinality(before) + 1
  <2>1. IsFiniteSet(before \cup {m})
    BY <1>7, FS_AddElement
  <2>2. Cardinality(before) \in Nat
    BY <1>7, FS_CardinalityType
  <2>3. Cardinality(before \cup {m}) =
           IF m \in before THEN Cardinality(before) ELSE Cardinality(before) + 1
    BY <1>7, FS_AddElement
  <2> QED BY <2>1, <2>2, <2>3
<1>9. IsFiniteSet((before \cup {m}) \cap After(c, m))
  BY <1>8, FS_Subset
<1>10. /\ Cardinality(all) \in Nat /\ Cardinality(before) \in Nat
       /\ Cardinality(After(c, m)) \in Nat /\ Cardinality(before \cup {m}) \in Nat
       /\ Cardinality((before \cup {m}) \cap After(c, m)) \in Nat
  BY <1>6, <1>7, <1>8, <1>9, FS_CardinalityType
<1>11. Cardinality(all) = Cardinality(before \cup {m}) + Cardinality(After(c, m))
                          - Cardinality((before \cup {m}) \cap After(c, m))
  BY <1>5, <1>7, <1>8, FS_Union
<1>12. Cardinality(After(c, m)) >= 2 * WindowTurns
  BY <1>2, <1>8, <1>10, <1>11, ConversationAssumption
<1> QED BY <1>2, <1>12 DEF all

-----------------------------------------------------------------------------
(* A step of request t: what the other requests and the tables need.       *)

(* A request that has begun stays in its conversation.                     *)
Stays(t) == turn[t].pc # "idle" => turn'[t].pc # "idle" /\ turn'[t].conv = turn[t].conv

(* Only t moves; the messages it adds are named after it, at a time that   *)
(* no unsaved question of another request has.                             *)
Alone(t) ==
    /\ DOMAIN turn' = Turns /\ \A u \in Turns : u # t => turn'[u] = turn[u]
    /\ Stays(t)
    /\ clock' \in Nat /\ clock <= clock'
    /\ \A m \in DOMAIN msgs' \ DOMAIN msgs :
          /\ m[1] = t
          /\ \A u \in Turns : u # t /\ turn[u].unsaved => msgs'[m].at # turn[u].at
    /\ turn'[t].unsaved => \A u \in Turns : u # t /\ turn[u].unsaved => turn[u].at # turn'[t].at

LEMMA OthersStay ==
    ASSUME ConversationInv, MessagesOK', Grows, NEW t \in Turns, Alone(t),
           NEW u \in Turns, u # t
    PROVE  TurnOK(u)'
<1>1. TurnOK(u) /\ turn'[u] = turn[u] /\ clock \in Nat
  BY DEF ConversationInv, TablesOK, Alone
<1>2. \A m \in DOMAIN msgs' \ DOMAIN msgs : m # UserMsg(u) /\ m # AsstMsg(u)
  BY DEF Alone, UserMsg, AsstMsg
<1>3. UnsavedOK(u)'
  <2> SUFFICES ASSUME turn[u].unsaved
               PROVE  UnsavedOK(u)'
    BY <1>1 DEF UnsavedOK
  <2>1. /\ turn[u].pc = "pipeline" /\ turn[u].kind = "ask"
        /\ UserMsg(u) \notin DOMAIN msgs /\ turn[u].at \in Nat /\ turn[u].at < clock
        /\ \A m \in DOMAIN msgs : msgs[m].at # turn[u].at
        /\ \A v \in Turns : v # u /\ turn[v].unsaved => turn[v].at # turn[u].at
    BY <1>1 DEF TurnOK, UnsavedOK
  <2>2. UserMsg(u) \notin DOMAIN msgs'
    BY <1>2, <2>1
  <2>3. turn[u].at < clock'
    BY <1>1, <2>1 DEF Alone
  <2>4. \A m \in DOMAIN msgs' : msgs'[m].at # turn[u].at
    BY <2>1 DEF Alone, Grows
  <2>5. \A v \in Turns : v # u /\ turn'[v].unsaved => turn'[v].at # turn[u].at
    BY <2>1 DEF Alone
  <2>6. UserMsg(u)' = UserMsg(u)
    BY DEF UserMsg
  <2> QED BY <1>1, <2>1, <2>2, <2>3, <2>4, <2>5, <2>6 DEF UnsavedOK
<1>4. \A m, c : InConversation(m, c) => m \in DOMAIN msgs' /\ msgs'[m].conv = c
  BY DEF InConversation, Grows
<1>5. PipelineOK(u)'
  BY <1>1, <1>2, <1>4 DEF TurnOK, PipelineOK, InConversation, UserMsg, AsstMsg
<1>6. LaterOK(u)'
  <2>1. PICK w : w = turn[u] /\ w = turn'[u]
    BY <1>1
  <2>2. w.pc = "cancel" => InConversation(w.stub, w.conv)' /\ w.stub[2] = "assistant"
    BY <1>1, <1>4, <2>1 DEF TurnOK, LaterOK, InConversation
  <2>3. w.pc = "writeback" => InConversation(w.source, w.conv)' /\ \E l \in logs' : l.id = u
    BY <1>1, <1>4, <2>1 DEF TurnOK, LaterOK, InConversation, Grows
  <2>4. w.pc = "writeback" => InConversation(AnswerRow(u), w.conv)'
    BY <1>1, <1>4, <2>1 DEF TurnOK, LaterOK, InConversation, AnswerRow, AsstMsg
  <2>5. w.pc \in {"writeback", "compress"} => Old(w.conv, w.prev)'
    <3>1. w.pc \in {"writeback", "compress"} => Old(w.conv, w.prev)
      BY <1>1, <2>1 DEF TurnOK, LaterOK
    <3> QED BY <3>1, OldStays DEF ConversationInv
  <2>6. w.pc = "fold" => Old(w.conv, w.fold)'
    <3>1. w.pc = "fold" => Old(w.conv, w.fold)
      BY <1>1, <2>1 DEF TurnOK, LaterOK
    <3> QED BY <3>1, OldStays DEF ConversationInv
  <2> QED BY <2>1, <2>2, <2>3, <2>4, <2>5, <2>6 DEF LaterOK
<1>7. RecalledOK(u)'
  BY <1>1 DEF TurnOK, RecalledOK
<1> QED BY <1>1, <1>3, <1>5, <1>6, <1>7 DEF TurnOK

(* The memory and the summaries that are there.                            *)
LEMMA MemoryStays ==
    ASSUME ConversationInv, Grows, NEW m \in memory
    PROVE  MemoryOK(m)'
<1>1. MemoryOK(m)
  BY DEF ConversationInv
<1> QED BY <1>1 DEF MemoryOK, InConversation, Grows

LEMMA SummariesStay ==
    ASSUME ConversationInv, Grows, MessagesOK', summary' = summary
    PROVE  \A c \in Conversations : Old(c, summary[c])'
<1> SUFFICES ASSUME NEW c \in Conversations
             PROVE  Old(c, summary[c])'
  OBVIOUS
<1>1. PICK S : S = summary[c] /\ S = summary'[c]
  OBVIOUS
<1>2. Old(c, S) /\ MessagesOK
  BY <1>1 DEF ConversationInv
<1>3. Old(c, S)'
  BY <1>2, OldStays
<1> QED BY <1>1, <1>3

(* So a step of t keeps the invariant if it leaves t and the messages in   *)
(* order.                                                                  *)
LEMMA RequestKeepsInv ==
    ASSUME ConversationInv, NEW t \in Turns, Alone(t), Grows, MessagesOK', TurnOK(t)',
           memory' \subseteq memory, summary' = summary, DOMAIN standing' = Conversations
    PROVE  ConversationInv'
<1>1. \A u \in Turns : TurnOK(u)'
  BY OthersStay
<1>2. \A m \in memory' : MemoryOK(m)'
  BY MemoryStays
<1>3. \A c \in Conversations : Old(c, summary[c])'
  BY SummariesStay
<1>4. TablesOK'
  BY DEF ConversationInv, TablesOK, Alone
<1> QED BY <1>1, <1>2, <1>3, <1>4 DEF ConversationInv

(* A message that the step leaves as it is.                                *)
LEMMA MessageStays ==
    ASSUME ConversationInv, NEW t \in Turns, Alone(t), NEW m \in DOMAIN msgs,
           msgs'[m] = msgs[m], DOMAIN msgs \subseteq DOMAIN msgs', logs \subseteq logs'
    PROVE  MessageOK(m)'
<1>1. MessageOK(m) /\ clock \in Nat /\ \A u \in Turns : Stays(u)
  BY DEF ConversationInv, MessagesOK, TablesOK, Alone, Stays
<1>2. m[1] \in Turns
  BY <1>1 DEF MessageOK
<1>3. turn'[m[1]].pc # "idle" /\ turn'[m[1]].conv = turn[m[1]].conv
  BY <1>1, <1>2 DEF MessageOK, Stays
<1>4. msgs[m].at < clock'
  BY <1>1 DEF MessageOK, Alone
<1> QED BY <1>1, <1>3, <1>4 DEF MessageOK, UserMsg, Log

LEMMA NoMessage ==
    ASSUME ConversationInv, NEW t \in Turns, Alone(t), msgs' = msgs, logs \subseteq logs'
    PROVE  MessagesOK' /\ Grows
<1>1. \A m \in DOMAIN msgs' : MessageOK(m)'
  BY MessageStays
<1>2. TimesDiffer'
  BY DEF ConversationInv, MessagesOK, TimesDiffer
<1> QED BY <1>1, <1>2 DEF MessagesOK, Grows

(* The request is over.                                                    *)
LEMMA EndKeeps ==
    ASSUME ConversationInv, NEW t \in Turns, turn[t].pc # "idle", End(t)
    PROVE  /\ TurnOK(t)' /\ Stays(t) /\ DOMAIN turn' = Turns
           /\ ~turn'[t].unsaved
           /\ \A u \in Turns : u # t => turn'[u] = turn[u]
<1>1. DOMAIN turn = Turns /\ turn[t].conv \in Conversations
  BY DEF ConversationInv, TablesOK, TurnOK
<1>2. turn'[t] = [NoTurn EXCEPT !.pc = "done", !.conv = turn[t].conv]
  BY <1>1 DEF End
<1>3. /\ DOMAIN turn'[t] = TurnFields
      /\ turn'[t].pc = "done" /\ turn'[t].conv = turn[t].conv /\ turn'[t].unsaved = FALSE
      /\ turn'[t].recalled = {}
  BY <1>2 DEF NoTurn, TurnFields
<1>4. TurnOK(t)'
  BY <1>1, <1>3 DEF TurnOK, UnsavedOK, PipelineOK, LaterOK, RecalledOK
<1> QED BY <1>1, <1>3, <1>4 DEF End, Stays

LEMMA QuietEndKeeps ==
    ASSUME ConversationInv, NEW t \in Turns, turn[t].pc # "idle", End(t), msgs' = msgs,
           logs' = logs, clock' = clock, standing' = standing, memory' = memory,
           summary' = summary
    PROVE  ConversationInv'
<1>1. Alone(t) /\ TurnOK(t)'
  BY EndKeeps DEF ConversationInv, TablesOK, Alone
<1>2. MessagesOK' /\ Grows
  BY <1>1, NoMessage
<1>3. DOMAIN standing' = Conversations
  BY DEF ConversationInv, TablesOK
<1> QED BY <1>1, <1>2, <1>3, RequestKeepsInv

-----------------------------------------------------------------------------
(* One lemma per action.                                                   *)

LEMMA RecallOK ==
    ASSUME NEW c, NEW m \in WorkingSet(c)
    PROVE  m.owner \in {"member", c} /\ m.expires # "past"
BY DEF WorkingSet, FixedMemories, SearchMemories, ListForOwner

LEMMA AskKeeps ==
    ASSUME ConversationInv, NEW t \in Turns, NEW c \in Conversations, Ask(t, c)
    PROVE  ConversationInv'
<1>1. DOMAIN turn = Turns /\ turn[t].pc = "idle" /\ clock \in Nat /\ msgs' = msgs
  BY DEF ConversationInv, TablesOK, Ask
<1>2. PICK w : w = [NoTurn EXCEPT !.pc = "pipeline", !.kind = "ask",
                    !.conv = c, !.question = t, !.source = UserMsg(t), !.at = clock,
                    !.unsaved = TRUE, !.recalled = WorkingSet(c)]
  OBVIOUS
<1>3. turn'[t] = w /\ DOMAIN turn' = Turns /\ \A u \in Turns : u # t => turn'[u] = turn[u]
  BY <1>1, <1>2 DEF Ask
<1>4. /\ DOMAIN w = TurnFields /\ w.pc = "pipeline" /\ w.kind = "ask" /\ w.conv = c
      /\ w.question = t /\ w.source = UserMsg(t) /\ w.at = clock /\ w.unsaved = TRUE
      /\ w.recalled = WorkingSet(c)
  BY <1>2 DEF NoTurn, TurnFields
<1>5. \A u \in Turns : turn[u].unsaved => turn[u].at \in Nat /\ turn[u].at < clock
  BY DEF ConversationInv, TurnOK, UnsavedOK
<1>6. Alone(t)
  BY <1>1, <1>3, <1>4, <1>5 DEF Alone, Stays, Ask
<1>7. MessagesOK' /\ Grows
  BY <1>1, <1>6, NoMessage DEF Ask
<1>8. TurnOK(t)'
  <2>1. \A m \in DOMAIN msgs : m[1] # t /\ msgs[m].at \in Nat /\ msgs[m].at < clock
    BY <1>1 DEF ConversationInv, MessagesOK, MessageOK
  <2>2. UserMsg(t) \notin DOMAIN msgs /\ AsstMsg(t) \notin DOMAIN msgs
    BY <2>1 DEF UserMsg, AsstMsg
  <2>3. \A m \in DOMAIN msgs : msgs[m].at # clock
    BY <1>1, <2>1
  <2>4. UnsavedOK(t)'
    <3>1. clock < clock' /\ clock' \in Nat
      BY <1>1 DEF Ask
    <3>2. \A u \in Turns : u # t /\ turn'[u].unsaved => turn'[u].at # clock
      BY <1>1, <1>3, <1>5
    <3> QED BY <1>1, <1>3, <1>4, <2>2, <2>3, <3>1, <3>2 DEF UnsavedOK, UserMsg
  <2>5. PipelineOK(t)'
    BY <1>1, <1>3, <1>4, <2>2 DEF PipelineOK, UserMsg, AsstMsg
  <2>6. LaterOK(t)'
    BY <1>3, <1>4 DEF LaterOK
  <2>7. RecalledOK(t)'
    BY <1>3, <1>4, RecallOK DEF RecalledOK
  <2> QED BY <1>3, <1>4, <2>4, <2>5, <2>6, <2>7 DEF TurnOK
<1> QED BY <1>6, <1>7, <1>8, RequestKeepsInv DEF ConversationInv, TablesOK, Ask

(* The pending plan of a conversation is a stub of it, and the question it *)
(* was proposed for is there.                                              *)
LEMMA PendingIsThere ==
    ASSUME ConversationInv, NEW c, NEW m \in Pending(c)
    PROVE  /\ InConversation(m, c) /\ m[2] = "assistant" /\ msgs[m].question = m[1]
           /\ InConversation(Latest(Of(c, "user")), c)
<1> DEFINE a == {n \in Of(c, "assistant") : msgs[n].st = "awaiting_plan_selection"}
<1>1. MessagesOK /\ clock \in Nat
  BY DEF ConversationInv, TablesOK
<1>2. a # {} /\ m = Latest(a) /\ a \subseteq DOMAIN msgs
  BY DEF Pending, Of
<1>3. m \in a
  <2> HIDE DEF a
  <2> QED BY <1>1, <1>2, LatestIsThere
<1>4. /\ m \in DOMAIN msgs /\ msgs[m].conv = c /\ msgs[m].role = "assistant"
      /\ msgs[m].st = "awaiting_plan_selection"
  BY <1>3 DEF Of
<1>5. MessageOK(m)
  BY <1>1, <1>4 DEF MessagesOK
<1>6. UserMsg(m[1]) \in DOMAIN msgs
  BY <1>4, <1>5 DEF MessageOK
<1>7. MessageOK(UserMsg(m[1]))
  BY <1>1, <1>6 DEF MessagesOK
<1>8. UserMsg(m[1]) \in Of(c, "user")
  BY <1>4, <1>5, <1>6, <1>7 DEF MessageOK, UserMsg, Of
<1>9. Latest(Of(c, "user")) \in Of(c, "user")
  <2>1. Of(c, "user") \subseteq DOMAIN msgs
    BY DEF Of
  <2> QED BY <1>1, <1>8, <2>1, LatestIsThere
<1>10. InConversation(Latest(Of(c, "user")), c)
  BY <1>9 DEF Of, InConversation
<1> QED BY <1>4, <1>5, <1>10 DEF MessageOK, InConversation

LEMMA SelectKeeps ==
    ASSUME ConversationInv, NEW t \in Turns, NEW c \in Conversations, Select(t, c)
    PROVE  ConversationInv'
<1>1. /\ DOMAIN turn = Turns /\ turn[t].pc = "idle" /\ clock \in Nat
      /\ msgs' = msgs /\ clock' = clock
  BY DEF ConversationInv, TablesOK, Select
<1>2. PICK m \in Pending(c) :
         turn' = [turn EXCEPT ![t] = [NoTurn EXCEPT !.pc = "pipeline", !.kind = "select",
                    !.conv = c, !.question = StoredQuestion(m), !.stub = m,
                    !.source = Latest(Of(c, "user")), !.recalled = WorkingSet(c)]]
  BY DEF Select
<1>3. PICK w : w = [NoTurn EXCEPT !.pc = "pipeline", !.kind = "select",
                    !.conv = c, !.question = StoredQuestion(m), !.stub = m,
                    !.source = Latest(Of(c, "user")), !.recalled = WorkingSet(c)]
  OBVIOUS
<1>4. turn'[t] = w /\ DOMAIN turn' = Turns /\ \A u \in Turns : u # t => turn'[u] = turn[u]
  BY <1>1, <1>2, <1>3
<1>5. /\ DOMAIN w = TurnFields /\ w.pc = "pipeline" /\ w.kind = "select" /\ w.conv = c
      /\ w.question = msgs[m].question /\ w.source = Latest(Of(c, "user")) /\ w.stub = m
      /\ w.unsaved = FALSE /\ w.recalled = WorkingSet(c)
  BY <1>3 DEF NoTurn, TurnFields, StoredQuestion
<1>6. Alone(t)
  BY <1>1, <1>4, <1>5 DEF Alone, Stays
<1>7. MessagesOK' /\ Grows
  BY <1>1, <1>6, NoMessage DEF Select
<1>8. TurnOK(t)'
  <2>1. /\ InConversation(w.stub, w.conv)' /\ w.stub[2] = "assistant"
        /\ w.question = w.stub[1] /\ InConversation(w.source, w.conv)'
    BY <1>1, <1>5, PendingIsThere DEF InConversation
  <2>2. RecalledOK(t)'
    BY <1>4, <1>5, RecallOK DEF RecalledOK
  <2>3. PipelineOK(t)'
    BY <1>4, <1>5, <2>1 DEF PipelineOK, InConversation
  <2>4. UnsavedOK(t)' /\ LaterOK(t)'
    BY <1>4, <1>5 DEF UnsavedOK, LaterOK
  <2> QED BY <1>4, <1>5, <2>2, <2>3, <2>4 DEF TurnOK
<1> QED BY <1>6, <1>7, <1>8, RequestKeepsInv DEF ConversationInv, TablesOK, Select

LEMMA CancelKeeps ==
    ASSUME ConversationInv, NEW t \in Turns, NEW c \in Conversations, Cancel(t, c)
    PROVE  ConversationInv'
<1>1. /\ DOMAIN turn = Turns /\ turn[t].pc = "idle" /\ clock \in Nat
      /\ msgs' = msgs /\ clock' = clock
  BY DEF ConversationInv, TablesOK, Cancel
<1>2. PICK m \in Pending(c) :
         turn' = [turn EXCEPT ![t] = [NoTurn EXCEPT !.pc = "cancel", !.kind = "cancel",
                    !.conv = c, !.stub = m]]
  BY DEF Cancel
<1>3. PICK w : w = [NoTurn EXCEPT !.pc = "cancel", !.kind = "cancel", !.conv = c, !.stub = m]
  OBVIOUS
<1>4. turn'[t] = w /\ DOMAIN turn' = Turns /\ \A u \in Turns : u # t => turn'[u] = turn[u]
  BY <1>1, <1>2, <1>3
<1>5. /\ DOMAIN w = TurnFields /\ w.pc = "cancel" /\ w.conv = c /\ w.stub = m
      /\ w.unsaved = FALSE /\ w.recalled = {}
  BY <1>3 DEF NoTurn, TurnFields
<1>6. Alone(t)
  BY <1>1, <1>4, <1>5 DEF Alone, Stays
<1>7. MessagesOK' /\ Grows
  BY <1>1, <1>6, NoMessage DEF Cancel
<1>8. TurnOK(t)'
  <2>1. InConversation(w.stub, w.conv)' /\ w.stub[2] = "assistant"
    BY <1>1, <1>5, PendingIsThere DEF InConversation
  <2>2. UnsavedOK(t)' /\ LaterOK(t)' /\ PipelineOK(t)' /\ RecalledOK(t)'
    BY <1>4, <1>5, <2>1 DEF UnsavedOK, LaterOK, PipelineOK, RecalledOK, InConversation
  <2> QED BY <1>4, <1>5, <2>2 DEF TurnOK
<1> QED BY <1>6, <1>7, <1>8, RequestKeepsInv DEF ConversationInv, TablesOK, Cancel

LEMMA ToolRollsBackKeeps ==
    ASSUME ConversationInv, NEW t \in Turns, ToolRollsBack(t)
    PROVE  ConversationInv'
<1>1. DOMAIN turn = Turns /\ turn[t].pc = "pipeline" /\ clock \in Nat /\ msgs' = msgs
      /\ TurnOK(t)
  BY DEF ConversationInv, TablesOK, ToolRollsBack
<1>2. PICK w : w = [turn[t] EXCEPT !.unsaved = FALSE]
  OBVIOUS
<1>3. turn'[t] = w /\ DOMAIN turn' = Turns /\ \A u \in Turns : u # t => turn'[u] = turn[u]
  BY <1>1, <1>2 DEF ToolRollsBack
<1>4. /\ DOMAIN w = TurnFields /\ w.unsaved = FALSE
      /\ \A f \in TurnFields : f # "unsaved" => w[f] = turn[t][f]
  BY <1>1, <1>2 DEF TurnOK, TurnFields
<1>5. /\ w.pc = "pipeline" /\ w.kind = turn[t].kind /\ w.conv = turn[t].conv
      /\ w.question = turn[t].question /\ w.stub = turn[t].stub /\ w.source = turn[t].source
      /\ w.recalled = turn[t].recalled
  BY <1>1, <1>4 DEF TurnFields
<1>6. Alone(t)
  BY <1>1, <1>3, <1>4, <1>5 DEF Alone, Stays, ToolRollsBack
<1>7. MessagesOK' /\ Grows
  BY <1>1, <1>6, NoMessage DEF ToolRollsBack
<1>8. TurnOK(t)'
  BY <1>1, <1>3, <1>4, <1>5 DEF TurnOK, UnsavedOK, PipelineOK, LaterOK, RecalledOK,
                                 InConversation, UserMsg, AsstMsg
<1> QED BY <1>6, <1>7, <1>8, RequestKeepsInv DEF ConversationInv, TablesOK, ToolRollsBack

(* What a commit of the session of t adds.                                 *)
LEMMA SavedRows ==
    ASSUME NEW t
    PROVE  /\ ~turn[t].unsaved => Saved(t) = msgs
           /\ turn[t].unsaved =>
                 /\ DOMAIN Saved(t) = DOMAIN msgs \cup {UserMsg(t)}
                 /\ \A m \in DOMAIN msgs : m # UserMsg(t) => Saved(t)[m] = msgs[m]
                 /\ Saved(t)[UserMsg(t)] = Row(turn[t].conv, "user", "sent", t, t, turn[t].at)
<1>1. CASE turn[t].unsaved
  <2>1. PICK k, w : k = UserMsg(t) /\ w = Row(turn[t].conv, "user", "sent", t, t, turn[t].at)
    OBVIOUS
  <2>2. Saved(t) = [n \in DOMAIN msgs \cup {k} |-> IF n = k THEN w ELSE msgs[n]]
    BY <1>1, <2>1 DEF Saved, With
  <2> QED BY <1>1, <2>1, <2>2
<1>2. CASE ~turn[t].unsaved
  BY <1>2 DEF Saved
<1> QED BY <1>1, <1>2

LEMMA SaveKeeps ==
    ASSUME ConversationInv, NEW t \in Turns, turn[t].pc = "pipeline",
           NEW X, \A a, b \in X : a = b,
           DOMAIN msgs' = DOMAIN Saved(t) \cup X,
           \A m \in DOMAIN Saved(t) \ X : msgs'[m] = Saved(t)[m],
           \A a \in X :
              /\ a # UserMsg(t) /\ MessageOK(a)'
              /\ \/ a \in DOMAIN msgs /\ msgs'[a].conv = msgs[a].conv /\ msgs'[a].at = msgs[a].at
                 \/ a \notin DOMAIN msgs /\ a[1] = t /\ msgs'[a].at = clock,
           DOMAIN turn' = Turns, \A u \in Turns : u # t => turn'[u] = turn[u], Stays(t),
           ~turn'[t].unsaved, clock' \in Nat, clock <= clock', logs \subseteq logs'
    PROVE  Alone(t) /\ MessagesOK' /\ Grows
<1>1. TurnOK(t) /\ MessagesOK /\ clock \in Nat
  BY DEF ConversationInv, TablesOK
<1>2. \A m \in DOMAIN msgs \ X : msgs'[m] = msgs[m]
  <2>1. turn[t].unsaved => UserMsg(t) \notin DOMAIN msgs
    BY <1>1 DEF TurnOK, UnsavedOK
  <2> QED BY <2>1, SavedRows
<1>3. \A m \in DOMAIN msgs' \ DOMAIN msgs : m \in X \/ (turn[t].unsaved /\ m = UserMsg(t))
  <2>1. CASE turn[t].unsaved
    <3>1. DOMAIN msgs' = (DOMAIN msgs \cup {UserMsg(t)}) \cup X
      BY <2>1, SavedRows
    <3> QED BY <2>1, <3>1
  <2>2. CASE ~turn[t].unsaved
    <3>1. DOMAIN msgs' = DOMAIN msgs \cup X
      BY <2>2, SavedRows
    <3> QED BY <3>1
  <2> QED BY <2>1, <2>2
<1>4. turn[t].unsaved => /\ UserMsg(t) \in DOMAIN msgs'
                         /\ msgs'[UserMsg(t)] = Row(turn[t].conv, "user", "sent", t, t, turn[t].at)
  BY SavedRows
<1>5. turn[t].unsaved => /\ turn[t].at \in Nat /\ turn[t].at < clock
                         /\ \A m \in DOMAIN msgs : msgs[m].at # turn[t].at
                         /\ \A u \in Turns : u # t /\ turn[u].unsaved => turn[u].at # turn[t].at
  BY <1>1 DEF TurnOK, UnsavedOK
<1>6. turn[t].unsaved => msgs'[UserMsg(t)].at = turn[t].at
  BY <1>4 DEF Row
<1>7. \A u \in Turns : turn[u].unsaved => turn[u].at \in Nat /\ turn[u].at < clock
  BY DEF ConversationInv, TurnOK, UnsavedOK
<1>8. Alone(t)
  <2>1. ASSUME NEW m \in DOMAIN msgs' \ DOMAIN msgs
        PROVE  /\ m[1] = t
               /\ \A u \in Turns : u # t /\ turn[u].unsaved => msgs'[m].at # turn[u].at
    <3>1. CASE m \in X
      BY <1>1, <1>7, <3>1
    <3>2. CASE turn[t].unsaved /\ m = UserMsg(t)
      BY <1>5, <1>6, <3>2 DEF UserMsg
    <3> QED BY <1>3, <3>1, <3>2
  <2> QED BY <2>1 DEF Alone
<1>9. DOMAIN msgs \subseteq DOMAIN msgs'
  BY SavedRows
<1>10. Grows
  BY <1>2, <1>9 DEF Grows
<1>11. \A m \in DOMAIN msgs' : MessageOK(m)'
  <2>1. ASSUME turn[t].unsaved
        PROVE  MessageOK(UserMsg(t))'
    <3>1. PICK w : w = msgs'[UserMsg(t)]
      OBVIOUS
    <3>2. /\ DOMAIN w = MessageFields /\ w.conv = turn[t].conv /\ w.role = "user"
          /\ w.st = "sent" /\ w.at = turn[t].at
      BY <1>4, <2>1, <3>1 DEF Row, MessageFields
    <3>3. turn[t].at < clock'
      BY <1>1, <1>5, <2>1
    <3>4. turn'[t].pc # "idle" /\ turn'[t].conv = turn[t].conv
      BY DEF Stays
    <3> QED BY <1>5, <2>1, <3>1, <3>2, <3>3, <3>4 DEF MessageOK, UserMsg
  <2>2. ASSUME NEW m \in DOMAIN msgs \ X
        PROVE  MessageOK(m)'
    BY <1>2, <1>8, <1>9, MessageStays
  <2> QED BY <1>3, <2>1, <2>2
<1>12. TimesDiffer'
  <2> SUFFICES ASSUME NEW m \in DOMAIN msgs', NEW n \in DOMAIN msgs', m # n
               PROVE  msgs'[m].at # msgs'[n].at
    BY DEF TimesDiffer
  <2>1. \A k \in DOMAIN msgs : msgs'[k].at = msgs[k].at /\ msgs[k].at \in Nat /\ msgs[k].at < clock
    BY <1>1, <1>10 DEF Grows, MessagesOK, MessageOK
  <2>2. \A k \in DOMAIN msgs' \ DOMAIN msgs :
           \/ k \in X /\ msgs'[k].at = clock
           \/ turn[t].unsaved /\ k = UserMsg(t) /\ msgs'[k].at = turn[t].at
    BY <1>3, <1>6
  <2>3. CASE m \in DOMAIN msgs /\ n \in DOMAIN msgs
    BY <1>1, <2>1, <2>3 DEF MessagesOK, TimesDiffer
  <2>4. CASE m \in DOMAIN msgs /\ n \notin DOMAIN msgs
    BY <1>1, <1>5, <2>1, <2>2, <2>4
  <2>5. CASE m \notin DOMAIN msgs /\ n \in DOMAIN msgs
    BY <1>1, <1>5, <2>1, <2>2, <2>5
  <2>6. CASE m \notin DOMAIN msgs /\ n \notin DOMAIN msgs
    BY <1>1, <1>5, <2>2, <2>6
  <2> QED BY <2>3, <2>4, <2>5, <2>6
<1> QED BY <1>8, <1>10, <1>11, <1>12 DEF MessagesOK

LEMMA ToolCommitsKeeps ==
    ASSUME ConversationInv, NEW t \in Turns, ToolCommits(t)
    PROVE  ConversationInv'
<1>1. /\ DOMAIN turn = Turns /\ turn[t].pc = "pipeline" /\ clock \in Nat /\ TurnOK(t)
      /\ turn[t].kind = "ask" /\ msgs' = Saved(t) /\ clock' = clock /\ logs' = logs
  BY DEF ConversationInv, TablesOK, ToolCommits, TurnOK, UnsavedOK
<1>2. PICK w : w = [turn[t] EXCEPT !.unsaved = FALSE]
  OBVIOUS
<1>3. turn'[t] = w /\ DOMAIN turn' = Turns /\ \A u \in Turns : u # t => turn'[u] = turn[u]
  BY <1>1, <1>2 DEF ToolCommits
<1>4. /\ DOMAIN w = TurnFields /\ w.unsaved = FALSE
      /\ \A f \in TurnFields : f # "unsaved" => w[f] = turn[t][f]
  BY <1>1, <1>2 DEF TurnOK, TurnFields
<1>5. /\ w.pc = "pipeline" /\ w.kind = "ask" /\ w.conv = turn[t].conv
      /\ w.question = turn[t].question /\ w.source = turn[t].source
      /\ w.recalled = turn[t].recalled
  BY <1>1, <1>4 DEF TurnFields
<1>6. Stays(t)
  BY <1>3, <1>5 DEF Stays
<1>7. Alone(t) /\ MessagesOK' /\ Grows
  <2>1. PICK X : X = {}
    OBVIOUS
  <2>2. /\ DOMAIN msgs' = DOMAIN Saved(t) \cup X
        /\ \A m \in DOMAIN Saved(t) \ X : msgs'[m] = Saved(t)[m]
        /\ \A a, b \in X : a = b
    BY <1>1, <2>1
  <2> QED BY <1>1, <1>3, <1>4, <1>6, <2>1, <2>2, SaveKeeps
<1>8. TurnOK(t)'
  <2>1. AsstMsg(t) \notin DOMAIN msgs'
    <3>1. AsstMsg(t) \notin DOMAIN msgs
      BY <1>1 DEF TurnOK, PipelineOK
    <3>2. AsstMsg(t) # UserMsg(t)
      BY DEF AsstMsg, UserMsg
    <3>3. DOMAIN msgs' = DOMAIN msgs \cup {UserMsg(t)}
      BY <1>1, SavedRows DEF ToolCommits
    <3> QED BY <3>1, <3>2, <3>3
  <2>2. PipelineOK(t)'
    BY <1>1, <1>3, <1>5, <2>1 DEF TurnOK, PipelineOK, UserMsg, AsstMsg
  <2>3. UnsavedOK(t)' /\ LaterOK(t)' /\ RecalledOK(t)'
    BY <1>1, <1>3, <1>4, <1>5 DEF UnsavedOK, LaterOK, TurnOK, RecalledOK
  <2> QED BY <1>1, <1>3, <1>4, <1>5, <2>2, <2>3 DEF TurnOK
<1>9. DOMAIN standing' = Conversations
  BY DEF ConversationInv, TablesOK, ToolCommits, Committed
<1> QED BY <1>7, <1>8, <1>9, RequestKeepsInv DEF ToolCommits

LEMMA AwaitSelectionKeeps ==
    ASSUME ConversationInv, NEW t \in Turns, AwaitSelection(t)
    PROVE  ConversationInv'
<1>1. /\ DOMAIN turn = Turns /\ turn[t].pc = "pipeline" /\ turn[t].kind = "ask"
      /\ turn[t].unsaved /\ clock \in Nat /\ TurnOK(t) /\ End(t)
      /\ clock' = clock + 1 /\ logs' = logs /\ turn[t].pc # "idle"
  BY DEF ConversationInv, TablesOK, AwaitSelection
<1>2. turn[t].question = t /\ AsstMsg(t) \notin DOMAIN msgs /\ AsstMsg(t) # UserMsg(t)
  BY <1>1 DEF TurnOK, PipelineOK, AsstMsg, UserMsg
<1>3. PICK w : w = Row(turn[t].conv, "assistant", "awaiting_plan_selection", t, t, clock)
  OBVIOUS
<1>4. msgs' = [m \in DOMAIN Saved(t) \cup {AsstMsg(t)} |->
                 IF m = AsstMsg(t) THEN w ELSE Saved(t)[m]]
  BY <1>2, <1>3 DEF AwaitSelection
<1>5. /\ DOMAIN w = MessageFields /\ w.conv = turn[t].conv /\ w.role = "assistant"
      /\ w.st = "awaiting_plan_selection" /\ w.question = t /\ w.at = clock
  BY <1>3 DEF Row, MessageFields
<1>6. /\ TurnOK(t)' /\ Stays(t) /\ DOMAIN turn' = Turns /\ ~turn'[t].unsaved
      /\ \A u \in Turns : u # t => turn'[u] = turn[u]
  BY <1>1, EndKeeps
<1>7. MessageOK(AsstMsg(t))'
  <2>1. UserMsg(t) \in DOMAIN msgs' /\ AsstMsg(t) \in DOMAIN msgs' /\ msgs'[AsstMsg(t)] = w
    BY <1>1, <1>2, <1>4, SavedRows
  <2>2. turn'[t].pc # "idle" /\ turn'[t].conv = turn[t].conv
    BY <1>1, <1>6 DEF Stays
  <2> QED BY <1>1, <1>5, <2>1, <2>2 DEF MessageOK, AsstMsg, UserMsg
<1>8. Alone(t) /\ MessagesOK' /\ Grows
  <2>1. PICK X : X = {AsstMsg(t)}
    OBVIOUS
  <2>2. /\ DOMAIN msgs' = DOMAIN Saved(t) \cup X
        /\ \A m \in DOMAIN Saved(t) \ X : msgs'[m] = Saved(t)[m]
        /\ \A a, b \in X : a = b
    BY <1>4, <2>1
  <2>3. \A a \in X : /\ a # UserMsg(t) /\ a \notin DOMAIN msgs /\ a[1] = t
                     /\ msgs'[a].at = clock
    BY <1>2, <1>4, <1>5, <2>1 DEF AsstMsg
  <2>4. \A a \in X : MessageOK(a)'
    BY <1>7, <2>1 DEF AsstMsg
  <2>5. clock' \in Nat /\ clock <= clock'
    BY <1>1
  <2> QED BY <1>1, <1>6, <2>2, <2>3, <2>4, <2>5, SaveKeeps
<1>9. DOMAIN standing' = Conversations
  BY DEF ConversationInv, TablesOK, AwaitSelection, Committed
<1> QED BY <1>6, <1>8, <1>9, RequestKeepsInv DEF AwaitSelection

(* The answer is a new message of t, or the stub that t has read; a stub   *)
(* keeps its place in the conversation.                                    *)
LEMMA CompleteKeeps ==
    ASSUME ConversationInv, NEW t \in Turns, Complete(t)
    PROVE  ConversationInv'
<1>1. /\ DOMAIN turn = Turns /\ turn[t].pc = "pipeline" /\ clock \in Nat /\ TurnOK(t)
      /\ MessagesOK /\ clock' = clock + 1 /\ turn[t].pc # "idle" /\ summary' = summary
      /\ DOMAIN summary = Conversations /\ turn[t].conv \in Conversations
      /\ logs' = logs \cup {Log(t, turn[t].conv, turn[t].question)}
  BY DEF ConversationInv, TablesOK, Complete, LogWritten, TurnOK
<1>2. PICK at, a : /\ at = IF turn[t].kind = "select" THEN msgs[turn[t].stub].at ELSE clock
                   /\ a = AnswerRow(t)
  OBVIOUS
<1>3. PICK w : w = Row(turn[t].conv, "assistant", "completed", turn[t].question, t, at)
  OBVIOUS
<1>4. msgs' = [m \in DOMAIN Saved(t) \cup {a} |-> IF m = a THEN w ELSE Saved(t)[m]]
  BY <1>2, <1>3 DEF Complete
<1>5. /\ DOMAIN w = MessageFields /\ w.conv = turn[t].conv /\ w.role = "assistant"
      /\ w.st = "completed" /\ w.question = turn[t].question /\ w.by = t /\ w.at = at
  BY <1>3 DEF Row, MessageFields
<1>6. \/ /\ turn[t].kind = "ask" /\ turn[t].question = t /\ a = AsstMsg(t)
         /\ a \notin DOMAIN msgs /\ at = clock
      \/ /\ turn[t].kind = "select" /\ ~turn[t].unsaved
         /\ a \in DOMAIN msgs /\ msgs[a].conv = turn[t].conv /\ a[2] = "assistant"
         /\ turn[t].question = a[1] /\ at = msgs[a].at
  BY <1>1, <1>2 DEF TurnOK, PipelineOK, AnswerRow, InConversation
<1>7. /\ a \in Turns \X {"user", "assistant"} /\ a[2] = "assistant" /\ turn[t].question = a[1]
      /\ a # UserMsg(t) /\ at \in Nat /\ at < clock'
  <2>1. CASE a = AsstMsg(t) /\ turn[t].question = t /\ at = clock
    BY <1>1, <2>1 DEF AsstMsg, UserMsg
  <2>2. CASE a \in DOMAIN msgs /\ a[2] = "assistant" /\ turn[t].question = a[1] /\ at = msgs[a].at
    <3>1. MessageOK(a)
      BY <1>1, <2>2 DEF MessagesOK
    <3>2. at \in Nat /\ at < clock'
      BY <1>1, <2>2, <3>1 DEF MessageOK
    <3>3. a # UserMsg(t)
      BY <2>2 DEF UserMsg
    <3> QED BY <2>2, <3>1, <3>2, <3>3 DEF MessageOK
  <2> QED BY <1>6, <2>1, <2>2
<1>8. /\ Stays(t) /\ DOMAIN turn' = Turns /\ ~turn'[t].unsaved
      /\ \A u \in Turns : u # t => turn'[u] = turn[u]
  <2>1. CASE SourceStored(t)
    <3>1. turn' = [turn EXCEPT ![t].pc = "writeback", ![t].unsaved = FALSE,
                               ![t].recalled = {}, ![t].prev = summary[turn[t].conv]]
      BY <2>1 DEF Complete
    <3> QED BY <1>1, <3>1 DEF Stays, TurnOK, TurnFields
  <2>2. CASE ~SourceStored(t)
    BY <1>1, <2>2, EndKeeps DEF Complete
  <2> QED BY <2>1, <2>2
<1>9. MessageOK(a)'
  <2>1. a \in DOMAIN msgs' /\ msgs'[a] = w
    BY <1>4
  <2>2. turn'[a[1]].pc # "idle" /\ turn'[a[1]].conv = turn[t].conv
    <3>1. CASE a[1] = t
      BY <1>1, <1>8, <3>1 DEF Stays
    <3>2. CASE a[1] # t
      <4>1. a \in DOMAIN msgs /\ msgs[a].conv = turn[t].conv /\ MessageOK(a)
        BY <1>1, <1>6, <3>2 DEF AsstMsg, MessagesOK
      <4> QED BY <1>7, <1>8, <3>2, <4>1 DEF MessageOK
    <3> QED BY <3>1, <3>2
  <2>3. Log(w.by, w.conv, w.question) \in logs'
    BY <1>1, <1>5
  <2> QED BY <1>5, <1>7, <2>1, <2>2, <2>3 DEF MessageOK
<1>10. Alone(t) /\ MessagesOK' /\ Grows
  <2>1. PICK X : X = {a}
    OBVIOUS
  <2>2. /\ DOMAIN msgs' = DOMAIN Saved(t) \cup X
        /\ \A m \in DOMAIN Saved(t) \ X : msgs'[m] = Saved(t)[m]
        /\ \A b, d \in X : b = d
    BY <1>4, <2>1
  <2>3. /\ a # UserMsg(t) /\ MessageOK(a)'
        /\ \/ a \in DOMAIN msgs /\ msgs'[a].conv = msgs[a].conv /\ msgs'[a].at = msgs[a].at
           \/ a \notin DOMAIN msgs /\ a[1] = t /\ msgs'[a].at = clock
    <3>1. msgs'[a] = w
      BY <1>4
    <3> QED BY <1>5, <1>6, <1>7, <1>9, <3>1
  <2>4. clock' \in Nat /\ clock <= clock'
    BY <1>1
  <2>5. \A b \in X : /\ b # UserMsg(t) /\ MessageOK(b)'
                     /\ \/ b \in DOMAIN msgs /\ msgs'[b].conv = msgs[b].conv /\ msgs'[b].at = msgs[b].at
                        \/ b \notin DOMAIN msgs /\ b[1] = t /\ msgs'[b].at = clock
    BY <2>1, <2>3
  <2> QED BY <1>1, <1>8, <2>2, <2>4, <2>5, SaveKeeps
<1>11. TurnOK(t)'
  <2>1. CASE SourceStored(t)
    <3>1. PICK v : v = turn'[t]
      OBVIOUS
    <3>2. /\ DOMAIN v = TurnFields /\ v.pc = "writeback" /\ v.unsaved = FALSE /\ v.recalled = {}
          /\ v.prev = summary[turn[t].conv] /\ v.conv = turn[t].conv /\ v.kind = turn[t].kind
          /\ v.source = turn[t].source /\ v.stub = turn[t].stub
      BY <1>1, <2>1, <3>1 DEF Complete, TurnOK, TurnFields
    <3>3. v.source \in DOMAIN msgs' /\ msgs'[v.source].conv = v.conv
      <4>1. v.source \in DOMAIN msgs'
        BY <1>4, <2>1, <3>2 DEF SourceStored
      <4>2. CASE turn[t].kind = "ask"
        <5>1. v.source = UserMsg(t) /\ MessageOK(UserMsg(t))'
          BY <1>1, <1>10, <3>2, <4>1, <4>2 DEF TurnOK, PipelineOK, MessagesOK
        <5> QED BY <3>1, <4>1, <5>1 DEF MessageOK, UserMsg
      <4>3. CASE turn[t].kind = "select"
        <5>1. InConversation(turn[t].source, turn[t].conv)
          BY <1>1, <4>3 DEF TurnOK, PipelineOK
        <5> QED BY <1>10, <3>2, <5>1 DEF InConversation, Grows
      <4> QED BY <1>6, <4>1, <4>2, <4>3
    <3>4. AnswerRow(t)' = a
      BY <1>2, <3>1, <3>2 DEF AnswerRow, AsstMsg
    <3>5. a \in DOMAIN msgs' /\ msgs'[a].conv = v.conv
      BY <1>4, <1>5, <3>2
    <3>6. \E l \in logs' : l.id = t
      <4>1. Log(t, turn[t].conv, turn[t].question).id = t
        BY DEF Log
      <4> QED BY <1>1, <4>1
    <3>7. Old(v.conv, v.prev)'
      <4>1. PICK c, S : c = v.conv /\ S = v.prev
        OBVIOUS
      <4>2. Old(c, S)
        BY <1>1, <3>2, <4>1 DEF ConversationInv
      <4>3. Old(c, S)'
        BY <1>1, <1>10, <4>2, OldStays
      <4> QED BY <4>1, <4>3
    <3>8. LaterOK(t)'
      BY <3>1, <3>2, <3>3, <3>4, <3>5, <3>6, <3>7 DEF LaterOK, InConversation
    <3> QED BY <1>1, <3>1, <3>2, <3>8 DEF TurnOK, UnsavedOK, PipelineOK, RecalledOK
  <2>2. CASE ~SourceStored(t)
    BY <1>1, <2>2, EndKeeps DEF Complete
  <2> QED BY <2>1, <2>2
<1>12. DOMAIN standing' = Conversations
  BY DEF ConversationInv, TablesOK, Complete, Committed
<1> QED BY <1>10, <1>11, <1>12, RequestKeepsInv DEF Complete

(* A change to one message that leaves it where it is.                     *)
LEMMA CancelCommitKeeps ==
    ASSUME ConversationInv, NEW t \in Turns, CancelCommit(t)
    PROVE  ConversationInv'
<1>1. /\ clock \in Nat /\ TurnOK(t) /\ MessagesOK /\ turn[t].pc = "cancel" /\ End(t)
      /\ clock' = clock /\ logs' = logs /\ turn[t].pc # "idle"
  BY DEF ConversationInv, TablesOK, CancelCommit
<1>2. PICK k : k = turn[t].stub
  OBVIOUS
<1>3. k \in DOMAIN msgs /\ DOMAIN msgs[k] = MessageFields
  BY <1>1, <1>2 DEF TurnOK, LaterOK, InConversation, MessagesOK, MessageOK
<1>4. /\ DOMAIN msgs' = DOMAIN msgs /\ \A m \in DOMAIN msgs : m # k => msgs'[m] = msgs[m]
      /\ DOMAIN msgs'[k] = MessageFields /\ msgs'[k].st = "cancelled"
      /\ msgs'[k].conv = msgs[k].conv /\ msgs'[k].role = msgs[k].role
      /\ msgs'[k].at = msgs[k].at /\ msgs'[k].question = msgs[k].question
  BY <1>2, <1>3 DEF CancelCommit, MessageFields
<1>5. Alone(t) /\ TurnOK(t)'
  BY <1>1, <1>4, EndKeeps DEF Alone
<1>6. Grows
  BY <1>1, <1>4 DEF Grows
<1>7. MessagesOK'
  <2>1. \A m \in DOMAIN msgs : m # k => MessageOK(m)'
    BY <1>1, <1>4, <1>5, MessageStays
  <2>2. MessageOK(k)'
    <3>1. MessageOK(k)
      BY <1>1, <1>3 DEF MessagesOK
    <3>2. k[1] \in Turns /\ Stays(k[1])
      BY <1>5, <3>1 DEF MessageOK, Alone, Stays
    <3> QED BY <1>1, <1>3, <1>4, <3>1, <3>2 DEF MessageOK, Stays
  <2>3. TimesDiffer'
    BY <1>1, <1>4 DEF MessagesOK, TimesDiffer
  <2> QED BY <1>4, <2>1, <2>2, <2>3 DEF MessagesOK
<1>8. DOMAIN standing' = Conversations
  BY DEF ConversationInv, TablesOK, CancelCommit
<1> QED BY <1>5, <1>6, <1>7, <1>8, RequestKeepsInv DEF CancelCommit

(* Steps that no request takes: every request and every message stays as   *)
(* it is, but for the expiry of a plan.                                    *)
LEMMA BackgroundKeepsRequests ==
    ASSUME ConversationInv, turn' = turn, clock' = clock, logs' = logs, Grows, MessagesOK',
           DOMAIN msgs' = DOMAIN msgs
    PROVE  \A t \in Turns : TurnOK(t)'
<1> SUFFICES ASSUME NEW t \in Turns
             PROVE  TurnOK(t)'
  OBVIOUS
<1>1. TurnOK(t) /\ MessagesOK
  BY DEF ConversationInv
<1>2. \A m, c : InConversation(m, c) => InConversation(m, c)'
  BY DEF InConversation, Grows
<1>3. UnsavedOK(t)'
  BY <1>1 DEF TurnOK, UnsavedOK, Grows, UserMsg
<1>4. PipelineOK(t)'
  BY <1>1 DEF TurnOK, PipelineOK, InConversation, Grows, UserMsg, AsstMsg
<1>5. LaterOK(t)'
  <2>1. PICK w : w = turn[t] /\ w = turn'[t]
    OBVIOUS
  <2>2. w.pc \in {"writeback", "compress"} => Old(w.conv, w.prev)'
    <3>1. w.pc \in {"writeback", "compress"} => Old(w.conv, w.prev)
      BY <1>1, <2>1 DEF TurnOK, LaterOK
    <3> QED BY <1>1, <3>1, OldStays
  <2>3. w.pc = "fold" => Old(w.conv, w.fold)'
    <3>1. w.pc = "fold" => Old(w.conv, w.fold)
      BY <1>1, <2>1 DEF TurnOK, LaterOK
    <3> QED BY <1>1, <3>1, OldStays
  <2>4. w.pc = "cancel" => InConversation(w.stub, w.conv)' /\ w.stub[2] = "assistant"
    BY <1>1, <2>1 DEF TurnOK, LaterOK, InConversation, Grows
  <2>5. w.pc = "writeback" => /\ InConversation(w.source, w.conv)'
                              /\ InConversation(AnswerRow(t), w.conv)'
                              /\ \E l \in logs' : l.id = t
    BY <1>1, <2>1 DEF TurnOK, LaterOK, InConversation, Grows, AnswerRow, AsstMsg
  <2> QED BY <2>1, <2>2, <2>3, <2>4, <2>5 DEF LaterOK
<1> QED BY <1>1, <1>3, <1>4, <1>5 DEF TurnOK, RecalledOK

LEMMA ExpireKeeps ==
    ASSUME ConversationInv, NEW k \in DOMAIN msgs, Expire(k)
    PROVE  ConversationInv'
<1>1. MessagesOK /\ MessageOK(k) /\ UNCHANGED <<standing, logs, memory, summary, turn, clock>>
  BY DEF ConversationInv, MessagesOK, Expire
<1>2. /\ DOMAIN msgs' = DOMAIN msgs /\ \A m \in DOMAIN msgs : m # k => msgs'[m] = msgs[m]
      /\ DOMAIN msgs'[k] = MessageFields
      /\ \A f \in MessageFields : f # "expired" => msgs'[k][f] = msgs[k][f]
  BY <1>1 DEF Expire, MessageOK, MessageFields
<1>3. /\ msgs'[k].conv = msgs[k].conv /\ msgs'[k].role = msgs[k].role
      /\ msgs'[k].at = msgs[k].at /\ msgs'[k].question = msgs[k].question
      /\ msgs'[k].st = msgs[k].st /\ msgs'[k].by = msgs[k].by
  BY <1>2 DEF MessageFields
<1>4. Grows
  BY <1>1, <1>2, <1>3 DEF Grows
<1>5. MessagesOK'
  <2>1. ASSUME NEW m \in DOMAIN msgs, m # k
        PROVE  MessageOK(m)'
    <3>1. MessageOK(m) /\ msgs'[m] = msgs[m]
      BY <1>1, <1>2, <2>1 DEF MessagesOK
    <3> QED BY <1>1, <1>2, <3>1 DEF MessageOK, Log, UserMsg
  <2>2. MessageOK(k)'
    BY <1>1, <1>2, <1>3 DEF MessageOK, Log, UserMsg
  <2>3. TimesDiffer'
    BY <1>1, <1>2, <1>3 DEF MessagesOK, TimesDiffer
  <2> QED BY <1>2, <2>1, <2>2, <2>3 DEF MessagesOK
<1>6. \A t \in Turns : TurnOK(t)'
  BY <1>1, <1>2, <1>4, <1>5, BackgroundKeepsRequests
<1>7. \A m \in memory' : MemoryOK(m)'
  BY <1>1, <1>4, MemoryStays
<1>8. \A c \in Conversations : Old(c, summary[c])'
  BY <1>1, <1>4, <1>5, SummariesStay
<1>9. TablesOK'
  BY <1>1 DEF ConversationInv, TablesOK
<1> QED BY <1>5, <1>6, <1>7, <1>8, <1>9 DEF ConversationInv

(* What an event leaves is no trail, and no preference that names policy.  *)
LEMMA RememberedOK ==
    ASSUME NEW e, NEW m \in Remembered(e)
    PROVE  /\ DOMAIN m = ItemFields /\ m.type # "conversation_summary"
           /\ m.type = "user_preference" => ~m.terms
<1>1. PICK type, owner, expires :
         /\ type \in {"user_preference", "entity", "long_term_event"}
         /\ m \in WriteMemory(type, owner, e.terms, expires)
  <2>1. CASE e.type = "preference"
    BY <2>1 DEF Remembered
  <2>2. CASE e.type = "entity_update"
    BY <2>2 DEF Remembered, UpsertEntity
  <2>3. CASE e.type # "preference" /\ e.type # "entity_update"
    BY <2>3 DEF Remembered
  <2> QED BY <2>1, <2>2, <2>3
<1>2. m = Item(type, owner, e.terms, expires) /\ ~(type = "user_preference" /\ e.terms)
  BY <1>1 DEF WriteMemory
<1>3. DOMAIN m = ItemFields /\ m.type = type /\ m.terms = e.terms
  BY <1>2 DEF Item, ItemFields
<1> QED BY <1>1, <1>2, <1>3

LEMMA WritebackKeeps ==
    ASSUME ConversationInv, NEW t \in Turns, Writeback(t)
    PROVE  ConversationInv'
<1>1. /\ TurnOK(t) /\ turn[t].pc = "writeback" /\ msgs' = msgs /\ logs' = logs
      /\ clock' = clock /\ clock \in Nat /\ summary' = summary /\ standing' = standing
      /\ DOMAIN turn = Turns /\ turn' = [turn EXCEPT ![t].pc = "compress"]
  BY DEF ConversationInv, TablesOK, Writeback, To
<1>2. PICK w : w = turn'[t]
  OBVIOUS
<1>3. /\ DOMAIN w = TurnFields /\ w.pc = "compress" /\ w.conv = turn[t].conv
      /\ w.unsaved = turn[t].unsaved /\ w.recalled = turn[t].recalled /\ w.prev = turn[t].prev
  BY <1>1, <1>2 DEF TurnOK, TurnFields
<1>4. ~turn[t].unsaved
  BY <1>1 DEF TurnOK, UnsavedOK
<1>5. Alone(t)
  BY <1>1, <1>2, <1>3, <1>4 DEF Alone, Stays
<1>6. MessagesOK' /\ Grows
  BY <1>1, <1>5, NoMessage
<1>7. TurnOK(t)'
  <2>1. Old(w.conv, w.prev)'
    <3>1. PICK c, S : c = w.conv /\ S = w.prev
      OBVIOUS
    <3>2. Old(c, S)
      BY <1>1, <1>3, <3>1 DEF TurnOK, LaterOK
    <3>3. Old(c, S)'
      BY <1>6, <3>2, OldStays DEF ConversationInv
    <3> QED BY <3>1, <3>3
  <2>2. LaterOK(t)'
    BY <1>2, <1>3, <2>1 DEF LaterOK
  <2> QED BY <1>1, <1>2, <1>3, <1>4, <2>2 DEF TurnOK, UnsavedOK, PipelineOK, RecalledOK
<1>8. \A m \in memory' : MemoryOK(m)'
  <2>1. PICK e \in Events : memory' = memory \cup Remembered(e) \cup {Trail(t)}
    BY DEF Writeback
  <2>2. \A m \in memory : MemoryOK(m)'
    BY <1>6, MemoryStays
  <2>3. \A m \in Remembered(e) : MemoryOK(m)'
    BY RememberedOK DEF MemoryOK
  <2>4. PICK m : m = Trail(t)
    OBVIOUS
  <2>5. MemoryOK(m)'
    <3>1. /\ DOMAIN m = TrailFields /\ m.type = "conversation_summary" /\ m.owner = turn[t].conv
          /\ m.source = turn[t].source /\ m.answer = AnswerRow(t) /\ m.turn = t
      BY <2>4 DEF Trail, TrailFields, ItemFields
    <3>2. /\ InConversation(m.source, m.owner) /\ InConversation(m.answer, m.owner)
          /\ \E l \in logs : l.id = m.turn
      BY <1>1, <3>1 DEF TurnOK, LaterOK
    <3> QED BY <1>1, <3>1, <3>2 DEF MemoryOK, InConversation
  <2> QED BY <2>1, <2>2, <2>3, <2>4, <2>5
<1>9. \A u \in Turns : TurnOK(u)'
  BY <1>5, <1>6, <1>7, OthersStay
<1>10. \A c \in Conversations : Old(c, summary[c])'
  BY <1>1, <1>6, SummariesStay
<1>11. TablesOK'
  BY <1>1, <1>5 DEF ConversationInv, TablesOK, Alone
<1> QED BY <1>6, <1>8, <1>9, <1>10, <1>11 DEF ConversationInv

LEMMA CompressReadKeeps ==
    ASSUME ConversationInv, NEW t \in Turns, CompressRead(t)
    PROVE  ConversationInv'
<1>1. /\ TurnOK(t) /\ turn[t].pc = "compress" /\ msgs' = msgs /\ logs' = logs /\ memory' = memory
      /\ clock' = clock /\ clock \in Nat /\ summary' = summary /\ standing' = standing
      /\ DOMAIN turn = Turns /\ turn[t].pc # "idle" /\ MessagesOK
      /\ DOMAIN standing = Conversations
  BY DEF ConversationInv, TablesOK, CompressRead
<1>2. CASE End(t)
  BY <1>1, <1>2, QuietEndKeeps
<1>3. CASE turn' = [turn EXCEPT ![t].pc = "fold",
                                ![t].fold = turn[t].prev \cup OutsideWindow(turn[t].conv)]
  <2>1. PICK w, S : w = turn'[t] /\ S = turn[t].prev \cup OutsideWindow(turn[t].conv)
    OBVIOUS
  <2>2. /\ DOMAIN w = TurnFields /\ w.pc = "fold" /\ w.conv = turn[t].conv
        /\ w.unsaved = turn[t].unsaved /\ w.recalled = turn[t].recalled /\ w.fold = S
    BY <1>1, <1>3, <2>1 DEF TurnOK, TurnFields
  <2>3. ~turn[t].unsaved
    BY <1>1 DEF TurnOK, UnsavedOK
  <2>4. Alone(t)
    BY <1>1, <1>3, <2>1, <2>2, <2>3 DEF Alone, Stays
  <2>5. MessagesOK' /\ Grows
    BY <1>1, <2>4, NoMessage
  <2>6. LaterOK(t)'
    <3>1. PICK c : c = w.conv
      OBVIOUS
    <3>2. Old(c, turn[t].prev) /\ Old(c, OutsideWindow(c))
      BY <1>1, <2>2, <3>1, OutsideIsOld DEF TurnOK, LaterOK
    <3>3. Old(c, S)
      BY <2>1, <2>2, <3>1, <3>2 DEF Old
    <3>4. Old(c, S)'
      BY <1>1, <2>5, <3>3, OldStays
    <3> QED BY <2>1, <2>2, <3>1, <3>4 DEF LaterOK
  <2>7. TurnOK(t)'
    BY <1>1, <2>1, <2>2, <2>3, <2>6 DEF TurnOK, UnsavedOK, PipelineOK, RecalledOK
  <2> QED BY <1>1, <2>4, <2>5, <2>7, RequestKeepsInv
<1> QED BY <1>2, <1>3 DEF CompressRead

LEMMA CompressWriteKeeps ==
    ASSUME ConversationInv, NEW t \in Turns, CompressWrite(t)
    PROVE  ConversationInv'
<1>1. /\ TurnOK(t) /\ turn[t].pc = "fold" /\ msgs' = msgs /\ logs' = logs /\ End(t)
      /\ clock' = clock /\ clock \in Nat /\ standing' = standing /\ TablesOK
      /\ turn[t].pc # "idle" /\ MessagesOK
      /\ summary' = [summary EXCEPT ![turn[t].conv] = turn[t].fold]
      /\ memory' = memory \cup {Item("short_term_summary", turn[t].conv, FALSE, "never")}
  BY DEF ConversationInv, TablesOK, CompressWrite
<1>2. Alone(t) /\ TurnOK(t)'
  BY <1>1, EndKeeps DEF Alone
<1>3. MessagesOK' /\ Grows
  BY <1>1, <1>2, NoMessage
<1>4. \A u \in Turns : TurnOK(u)'
  BY <1>2, <1>3, OthersStay
<1>5. \A m \in memory' : MemoryOK(m)'
  <2>1. PICK m : m = Item("short_term_summary", turn[t].conv, FALSE, "never")
    OBVIOUS
  <2>2. DOMAIN m = ItemFields /\ m.type = "short_term_summary"
    BY <2>1 DEF Item, ItemFields
  <2>3. MemoryOK(m)'
    BY <2>2 DEF MemoryOK
  <2> QED BY <1>1, <1>3, <2>1, <2>3, MemoryStays
<1>6. \A c \in Conversations : Old(c, summary[c])'
  <2> SUFFICES ASSUME NEW c \in Conversations
               PROVE  Old(c, summary[c])'
    OBVIOUS
  <2>1. PICK S : S = summary'[c]
    OBVIOUS
  <2>2. Old(c, S)
    BY <1>1, <2>1 DEF ConversationInv, TablesOK, TurnOK, LaterOK
  <2>3. Old(c, S)'
    BY <1>1, <1>3, <2>2, OldStays
  <2> QED BY <2>1, <2>3
<1>7. TablesOK'
  BY <1>1, <1>2 DEF TablesOK, Alone
<1> QED BY <1>3, <1>4, <1>5, <1>6, <1>7 DEF ConversationInv

(* Deletions and expiries.                                                 *)
LEMMA TidyingKeeps ==
    ASSUME ConversationInv, UNCHANGED <<msgs, logs, summary, turn, clock>>,
           DOMAIN standing' = Conversations,
           \A m \in memory' : m \in memory
                              \/ \E n \in memory : n.expires = "later" /\ m = [n EXCEPT !.expires = "past"]
    PROVE  ConversationInv'
<1>1. MessagesOK /\ TablesOK
  BY DEF ConversationInv
<1>2. Grows /\ MessagesOK'
  BY <1>1 DEF Grows, MessagesOK, MessageOK, TimesDiffer, Log, UserMsg
<1>3. \A t \in Turns : TurnOK(t)'
  BY <1>2, BackgroundKeepsRequests
<1>4. \A m \in memory' : MemoryOK(m)'
  <2> SUFFICES ASSUME NEW m \in memory'
               PROVE  MemoryOK(m)'
    OBVIOUS
  <2>1. CASE m \in memory
    BY <1>2, <2>1, MemoryStays
  <2>2. ASSUME NEW n \in memory, m = [n EXCEPT !.expires = "past"]
        PROVE  MemoryOK(m)'
    <3>1. MemoryOK(n)'
      BY <1>2, MemoryStays
    <3>2. DOMAIN m = DOMAIN n /\ \A f \in DOMAIN n : f # "expires" => m[f] = n[f]
      BY <2>2
    <3>3. DOMAIN n \in {ItemFields, TrailFields}
      BY <3>1 DEF MemoryOK
    <3>4. m.type = n.type /\ m.terms = n.terms /\ m.owner = n.owner
      BY <3>2, <3>3 DEF ItemFields, TrailFields
    <3>5. DOMAIN n = TrailFields => m.source = n.source /\ m.answer = n.answer /\ m.turn = n.turn
      BY <3>2 DEF ItemFields, TrailFields
    <3> QED BY <3>1, <3>2, <3>4, <3>5 DEF MemoryOK
  <2> QED BY <2>1, <2>2
<1>5. \A c \in Conversations : Old(c, summary[c])'
  BY <1>2, SummariesStay
<1>6. TablesOK'
  BY <1>1 DEF TablesOK
<1> QED BY <1>2, <1>3, <1>4, <1>5, <1>6 DEF ConversationInv

-----------------------------------------------------------------------------
(* The theorems about Conversation.                                        *)

LEMMA ConversationInitInv == ConversationInit => ConversationInv
<1> SUFFICES ASSUME ConversationInit PROVE ConversationInv
  OBVIOUS
<1> USE DEF ConversationInit
<1>1. TablesOK /\ DOMAIN msgs = {}
  BY DEF TablesOK
<1>2. MessagesOK
  BY <1>1 DEF MessagesOK, TimesDiffer
<1>3. ASSUME NEW t \in Turns
      PROVE  TurnOK(t)
  <2>1. /\ DOMAIN turn[t] = TurnFields /\ turn[t].pc = "idle" /\ turn[t].conv = None
        /\ turn[t].unsaved = FALSE /\ turn[t].recalled = {}
    BY DEF NoTurn, TurnFields
  <2> QED BY <2>1 DEF TurnOK, UnsavedOK, PipelineOK, LaterOK, RecalledOK
<1>4. ASSUME NEW m \in memory
      PROVE  MemoryOK(m)
  <2>1. DOMAIN m = ItemFields /\ m.type = "user_preference" /\ m.terms = FALSE
    BY DEF Item, ItemFields
  <2> QED BY <2>1 DEF MemoryOK
<1>5. \A c \in Conversations : Old(c, summary[c])
  BY DEF Old
<1> QED BY <1>1, <1>2, <1>3, <1>4, <1>5 DEF ConversationInv

LEMMA ConversationNextInv ==
    ConversationInv /\ [ConversationNext]_conversationVars => ConversationInv'
<1> SUFFICES ASSUME ConversationInv, [ConversationNext]_conversationVars PROVE ConversationInv'
  OBVIOUS
<1>1. ASSUME NEW t \in Turns, NEW c \in Conversations, Ask(t, c) \/ Select(t, c) \/ Cancel(t, c)
      PROVE  ConversationInv'
  BY <1>1, AskKeeps, SelectKeeps, CancelKeeps
<1>2. ASSUME NEW t \in Turns, ToolCommits(t) \/ ToolRollsBack(t) \/ AwaitSelection(t) \/ Complete(t)
      PROVE  ConversationInv'
  BY <1>2, ToolCommitsKeeps, ToolRollsBackKeeps, AwaitSelectionKeeps, CompleteKeeps
<1>3. ASSUME NEW t \in Turns, Fail(t) \/ WritebackFails(t)
      PROVE  ConversationInv'
  BY <1>3, QuietEndKeeps DEF Fail, WritebackFails
<1>4. ASSUME NEW t \in Turns, CancelCommit(t) \/ Writeback(t) \/ CompressRead(t) \/ CompressWrite(t)
      PROVE  ConversationInv'
  BY <1>4, CancelCommitKeeps, WritebackKeeps, CompressReadKeeps, CompressWriteKeeps
<1>5. ASSUME NEW m \in DOMAIN msgs, Expire(m)
      PROVE  ConversationInv'
  BY <1>5, ExpireKeeps
<1>6. DOMAIN standing = Conversations
  BY DEF ConversationInv, TablesOK
<1>7. ASSUME NEW c \in Conversations, Delete(c)
      PROVE  ConversationInv'
  BY <1>6, <1>7, TidyingKeeps DEF Delete
<1>8. ASSUME NEW m \in memory, DeleteMemory(m) \/ MemoryExpires(m)
      PROVE  ConversationInv'
  BY <1>6, <1>8, TidyingKeeps DEF DeleteMemory, MemoryExpires
<1>9. CASE UNCHANGED conversationVars
  BY <1>6, <1>9, TidyingKeeps DEF conversationVars
<1> QED BY <1>1, <1>2, <1>3, <1>4, <1>5, <1>7, <1>8, <1>9 DEF ConversationNext, AtRest

(* The inductive invariant holds in every conversation.                    *)
THEOREM ConversationInvariant == ConversationSpec => []ConversationInv
BY ConversationInitInv, ConversationNextInv, PTL DEF ConversationSpec

(* For any number of interleaved requests, an answer that is shown is the  *)
(* one that the query log has, and answers the question that its plan was  *)
(* proposed for.                                                           *)
THEOREM AnswersStayLogged == ConversationSpec => []AnswersAreLogged
<1>1. ConversationInv => AnswersAreLogged
  BY DEF ConversationInv, MessagesOK, MessageOK, AnswersAreLogged
<1> QED BY <1>1, ConversationInvariant, PTL

(* Whatever the extractor finds, memory names stored messages of its own   *)
(* conversation, preferences are no policy, and a turn is shown nothing of *)
(* others.                                                                 *)
THEOREM MemoryKeepsItsSource == ConversationSpec => []MemoryHasSource
<1>1. ConversationInv => MemoryHasSource
  <2> SUFFICES ASSUME ConversationInv PROVE MemoryHasSource
    OBVIOUS
  <2>1. \A m \in memory :
          /\ m.type = "user_preference" => ~m.terms
          /\ m.type = "conversation_summary" =>
                /\ m.source \in DOMAIN msgs /\ m.answer \in DOMAIN msgs
                /\ msgs[m.source].conv = m.owner /\ msgs[m.answer].conv = m.owner
                /\ \E l \in logs : l.id = m.turn
    BY DEF ConversationInv, MemoryOK, InConversation
  <2>2. \A t \in Turns : \A m \in turn[t].recalled :
          m.owner \in {"member", turn[t].conv} /\ m.expires # "past"
    BY DEF ConversationInv, TurnOK, RecalledOK
  <2> QED BY <2>1, <2>2 DEF MemoryHasSource
<1> QED BY <1>1, ConversationInvariant, PTL

(* For every window and threshold, what was folded into the summary has    *)
(* left the window for good, although the summary is written back from an  *)
(* earlier reading.                                                        *)
THEOREM SummaryStaysOld == ConversationSpec => []CompressedIsOld
<1>1. ConversationInv => CompressedIsOld
  <2> SUFFICES ASSUME ConversationInv, NEW c \in Conversations,
                      NEW m \in summary[c] \cap Window(c)
               PROVE  FALSE
    BY DEF CompressedIsOld
  <2>1. MessagesOK /\ Old(c, summary[c])
    BY DEF ConversationInv
  <2>2. Of(c, "user") \cup Of(c, "assistant") = {n \in DOMAIN msgs : msgs[n].conv = c}
    BY <2>1 DEF Of, MessagesOK, MessageOK
  <2>3. Cardinality({n \in {k \in DOMAIN msgs : msgs[k].conv = c} : msgs[n].at > msgs[m].at})
          < 2 * WindowTurns
    BY <2>2 DEF Window
  <2>4. {n \in {k \in DOMAIN msgs : msgs[k].conv = c} : msgs[n].at > msgs[m].at} = After(c, m)
    BY DEF After
  <2>5. IsFiniteSet(After(c, m))
    <3>1. DOMAIN msgs \subseteq Turns \X {"user", "assistant"}
      BY <2>1 DEF MessagesOK, MessageOK
    <3>2. After(c, m) \subseteq Turns \X {"user", "assistant"}
      BY <3>1 DEF After
    <3> QED BY <3>2, MessagesAreFinite
  <2>6. Cardinality(After(c, m)) \in Nat
    BY <2>5, FS_CardinalityType
  <2>7. Cardinality(After(c, m)) >= 2 * WindowTurns
    BY <2>1 DEF Old
  <2>8. Cardinality(After(c, m)) < 2 * WindowTurns
    BY <2>3, <2>4, Zenon
  <2>9. 2 * WindowTurns \in Int
    BY ConversationAssumption
  <2> HIDE DEF After
  <2> QED BY <2>6, <2>7, <2>8, <2>9
<1> QED BY <1>1, ConversationInvariant, PTL

(* A deleted conversation stays deleted, whatever was under way, and no    *)
(* new request enters it.                                                  *)
THEOREM DeletedForGood == ConversationSpec => DeletedIsFinal
<1>1. ConversationInv /\ [ConversationNext]_conversationVars =>
        [\A c \in Conversations : standing[c] = "deleted" =>
           /\ standing'[c] = "deleted"
           /\ \A t \in Turns : turn[t].pc = "idle" => turn'[t].conv # c]_conversationVars
  <2> SUFFICES ASSUME ConversationInv, ConversationNext,
                      NEW c \in Conversations, standing[c] = "deleted"
               PROVE  /\ standing'[c] = "deleted"
                      /\ \A t \in Turns : turn[t].pc = "idle" => turn'[t].conv # c
    OBVIOUS
  <2>1. DOMAIN standing = Conversations /\ DOMAIN turn = Turns
    BY DEF ConversationInv, TablesOK
  <2>2. standing'[c] = "deleted"
    <3>1. CASE UNCHANGED standing
      BY <3>1
    <3>2. ASSUME NEW t \in Turns, standing' = Committed(t)
          PROVE  standing'[c] = "deleted"
      BY <2>1, <3>2 DEF Committed
    <3>3. ASSUME NEW d \in Conversations, Delete(d)
          PROVE  standing'[c] = "deleted"
      BY <2>1, <3>3 DEF Delete
    <3> QED BY <3>1, <3>2, <3>3
          DEF ConversationNext, Ask, Select, Cancel, CancelCommit, ToolCommits, ToolRollsBack,
              Fail, AwaitSelection, Complete, Writeback, WritebackFails, CompressRead,
              CompressWrite, Expire, DeleteMemory, MemoryExpires, AtRest, conversationVars
  <2>3. ASSUME NEW t \in Turns, turn[t].pc = "idle"
        PROVE  turn'[t].conv # c
    <3>1. turn[t].conv # c
      BY <2>3, ConversationAssumption DEF ConversationInv, TurnOK
    <3>2. CASE turn'[t] = turn[t]
      BY <3>1, <3>2
    <3>3. ASSUME NEW d \in Conversations, Ask(t, d) \/ Select(t, d) \/ Cancel(t, d)
          PROVE  turn'[t].conv # c
      <4>1. d # c
        BY <3>3 DEF Ask, Select, Cancel
      <4>2. turn'[t].conv = d
        BY <2>1, <3>3 DEF Ask, Select, Cancel, NoTurn
      <4> QED BY <4>1, <4>2
    <3>4. ASSUME NEW u \in Turns, u # t,
                 \/ \E d \in Conversations : Ask(u, d) \/ Select(u, d) \/ Cancel(u, d)
                 \/ CancelCommit(u) \/ ToolCommits(u) \/ ToolRollsBack(u) \/ Fail(u)
                 \/ AwaitSelection(u) \/ Complete(u)
                 \/ Writeback(u) \/ WritebackFails(u) \/ CompressRead(u) \/ CompressWrite(u)
          PROVE  turn'[t] = turn[t]
      BY <2>1, <3>4 DEF Ask, Select, Cancel, CancelCommit, ToolCommits, ToolRollsBack, Fail,
              AwaitSelection, Complete, Writeback, WritebackFails, CompressRead, CompressWrite,
              End, To
    <3>5. ~ \/ CancelCommit(t) \/ ToolCommits(t) \/ ToolRollsBack(t) \/ Fail(t)
            \/ AwaitSelection(t) \/ Complete(t)
            \/ Writeback(t) \/ WritebackFails(t) \/ CompressRead(t) \/ CompressWrite(t)
      BY <2>3 DEF CancelCommit, ToolCommits, ToolRollsBack, Fail,
              AwaitSelection, Complete, Writeback, WritebackFails, CompressRead, CompressWrite
    <3> QED BY <3>2, <3>3, <3>4, <3>5
          DEF ConversationNext, Expire, Delete, DeleteMemory, MemoryExpires, AtRest,
              conversationVars
  <2> QED BY <2>2, <2>3
<1> QED BY <1>1, ConversationInvariant, PTL DEF ConversationSpec, DeletedIsFinal

-----------------------------------------------------------------------------
(* TurnPipeline: the plan that a turn starts with.                         *)

(* Any list of new steps, closed with an answer or cut to the limit, is a  *)
(* list of new steps.                                                      *)
LEMMA AnswerTailIsNew ==
    ASSUME NEW p \in Seq(NewSteps)
    PROVE  EnsureAnswerTail(p) \in Seq(NewSteps)
<1> DEFINE n == IF Len(p) < MaxSteps THEN Len(p) ELSE MaxSteps
           cut == SubSeq(p, 1, n)
           a == Step("answer", NoQuery, {})
<1>1. MaxSteps \in Nat /\ MaxSteps >= 1 /\ n \in Nat /\ n <= Len(p)
  BY TurnAssumption
<1>2. \A i \in 1 .. n : p[i] \in NewSteps
  BY <1>1
<1>3. cut \in Seq(NewSteps)
  <2> HIDE DEF n
  <2> QED BY <1>1, <1>2, SubSeqProperties
<1>4. a \in NewSteps
  BY DEF Step, NewSteps, Kinds
<1>5. [cut EXCEPT ![MaxSteps] = a] \in Seq(NewSteps)
  <2> HIDE DEF cut, a
  <2>1. cut \in [1 .. Len(cut) -> NewSteps] /\ Len(cut) \in Nat
    BY <1>3
  <2>2. [cut EXCEPT ![MaxSteps] = a] \in [1 .. Len(cut) -> NewSteps]
    BY <1>4, <2>1
  <2> QED BY <2>1, <2>2
<1>6. Append(p, a) \in Seq(NewSteps)
  <2> HIDE DEF a
  <2> QED BY <1>4, AppendProperties
<1> QED BY <1>3, <1>5, <1>6 DEF EnsureAnswerTail

LEMMA StepIsNew ==
    ASSUME NEW k \in Kinds, NEW q \in Queries \cup {NoQuery}, NEW d \in SUBSET Nat
    PROVE  Step(k, q, d) \in NewSteps
BY DEF Step, NewSteps

LEMMA OneStepIsNew ==
    ASSUME NEW s \in NewSteps
    PROVE  <<s>> \in Seq(NewSteps)
OBVIOUS

LEMMA DefaultPlanIsNew ==
    ASSUME NEW q \in Queries, NEW skill
    PROVE  DefaultPlan(q, skill) \in Seq(NewSteps)
<1> DEFINE r == <<Step("retrieve", q, {})>>
           k == IF skill THEN <<Step("skill", q, {})>> ELSE <<>>
           a == <<Step("answer", NoQuery, {})>>
<1>1. r \in Seq(NewSteps)
  BY StepIsNew DEF Kinds
<1>2. k \in Seq(NewSteps)
  BY StepIsNew DEF Kinds
<1>3. a \in Seq(NewSteps)
  BY StepIsNew DEF Kinds
<1>4. DefaultPlan(q, skill) = (r \o k) \o a
  BY DEF DefaultPlan
<1> HIDE DEF r, k, a
<1>5. r \o k \in Seq(NewSteps)
  BY <1>1, <1>2, ConcatProperties
<1> QED BY <1>3, <1>4, <1>5, ConcatProperties

LEMMA FirstOptionIsNew ==
    ASSUME NEW q \in Queries, NEW skill
    PROVE  /\ HeuristicOptions(q, skill)[1] \in Seq(NewSteps)
           /\ HeuristicOptions(q, skill)[2] \in Seq(NewSteps)
           /\ HeuristicOptions(q, skill)[3] \in Seq(NewSteps)
           /\ DOMAIN HeuristicOptions(q, skill) = 1 .. 3
           /\ Head(HeuristicOptions(q, skill)) = HeuristicOptions(q, skill)[1]
<1> DEFINE Second == CHOOSE r \in Queries : Queries # {q} => r # q
           T(n) == IF skill THEN <<Step("skill", q, 1 .. n)>> ELSE <<>>
           p1 == <<Step("retrieve", q, {})>>
           p2 == <<Step("retrieve", q, {}), Step("retrieve", Second, {})>>
           p3 == <<Step("retrieve", q, {}), Step("skill", q, {1})>>
<1>1. Second \in Queries
  <2>1. \E r \in Queries : Queries # {q} => r # q
    OBVIOUS
  <2> QED BY <2>1
<1> HIDE DEF Second
<1>2. p1 \in Seq(NewSteps) /\ p2 \in Seq(NewSteps) /\ p3 \in Seq(NewSteps)
  <2>1. Step("retrieve", q, {}) \in NewSteps
    BY StepIsNew DEF Kinds
  <2>2. Step("retrieve", Second, {}) \in NewSteps
    BY <1>1, StepIsNew DEF Kinds
  <2>3. Step("skill", q, {1}) \in NewSteps
    BY StepIsNew DEF Kinds
  <2> QED BY <2>1, <2>2, <2>3
<1>3. T(1) \in Seq(NewSteps) /\ T(2) \in Seq(NewSteps)
  <2>1. \A n \in 1 .. 2 : Step("skill", q, 1 .. n) \in NewSteps
    BY StepIsNew DEF Kinds
  <2> QED BY <2>1
<1>4. HeuristicOptions(q, skill) =
        <<EnsureAnswerTail(p1 \o T(1)), EnsureAnswerTail(p2 \o T(2)), EnsureAnswerTail(p3)>>
  BY DEF HeuristicOptions, Second
<1> HIDE DEF p1, p2, p3, T
<1>5. p1 \o T(1) \in Seq(NewSteps) /\ p2 \o T(2) \in Seq(NewSteps)
  BY <1>2, <1>3, ConcatProperties
<1>6. /\ EnsureAnswerTail(p1 \o T(1)) \in Seq(NewSteps)
      /\ EnsureAnswerTail(p2 \o T(2)) \in Seq(NewSteps)
      /\ EnsureAnswerTail(p3) \in Seq(NewSteps)
  BY <1>2, <1>5, AnswerTailIsNew
<1> QED BY <1>4, <1>6

LEMMA CoercedOptionsAreNew ==
    ASSUME NEW q \in Queries, NEW skill, NEW p \in CoerceOptions(q, skill)
    PROVE  p \in Seq(NewSteps)
<1>1. PICK r \in Proposals \cup {<<>>} : p = NormalizeOption(r, q, skill)
  BY DEF CoerceOptions
<1>2. r \in Seq(NewSteps)
  <2>1. Proposals \subseteq Seq(NewSteps) /\ <<>> \in Seq(NewSteps)
    BY TurnAssumption, EmptySeq
  <2> QED BY <2>1, Zenon
<1> QED BY <1>1, <1>2, DefaultPlanIsNew, AnswerTailIsNew DEF NormalizeOption

LEMMA OptionsAreNew ==
    ASSUME NEW q \in Queries, NEW skill, NEW p \in GeneratePlanOptions(q, skill)
    PROVE  p \in Seq(NewSteps)
<1>1. p \in CoerceOptions(q, skill) \/ \E i \in 1 .. 3 : p = HeuristicOptions(q, skill)[i]
  BY FirstOptionIsNew DEF GeneratePlanOptions, Range
<1> QED BY <1>1, CoercedOptionsAreNew, FirstOptionIsNew

LEMMA NormalizedIsNew ==
    ASSUME NEW numbered \in Seq(NewSteps), NEW hint, NEW rr,
           rr.steps \in Seq(NewSteps), rr.rewrite \in Queries
    PROVE  NormalizePlan(numbered, hint, rr).steps \in Seq(NewSteps)
<1> DEFINE n == IF Len(rr.steps) < MaxSteps THEN Len(rr.steps) ELSE MaxSteps
           coerced == SubSeq(rr.steps, 1, n)
<1>1. n \in Nat /\ n <= Len(rr.steps)
  BY TurnAssumption
<1>2. \A i \in 1 .. n : rr.steps[i] \in NewSteps
  BY <1>1
<1>3. coerced \in Seq(NewSteps)
  <2> HIDE DEF n
  <2> QED BY <1>1, <1>2, SubSeqProperties
<1>4. EnsureAnswerTail(coerced) \in Seq(NewSteps)
  BY <1>3, AnswerTailIsNew
<1>5. EnsureAnswerTail(numbered) \in Seq(NewSteps)
  BY AnswerTailIsNew
<1>6. EnsureAnswerTail(DefaultPlan(rr.rewrite, rr.skill)) \in Seq(NewSteps)
  BY DefaultPlanIsNew, AnswerTailIsNew
<1> QED BY <1>4, <1>5, <1>6 DEF NormalizePlan

-----------------------------------------------------------------------------
(* The inductive invariant of a turn.                                      *)

StepFields == {"kind", "query", "deps", "status"}

(* Who is working on a step that is running.                               *)
InHand(i) ==
    \/ pc = "retrieve" /\ plan[i].kind = "retrieve"
    \/ pc = "running" /\ i \in Head(waves)
    \/ pc \in {"revise", "release"} /\ plan[i].kind = "verify"
    \/ status = "failed"

(* A step that ended without success is in the ledger; so is every one,    *)
(* but for the tool markers of L1.                                         *)
Filed(i) == <<i, plan[i].status>> \in ledger \/ (plan[i].kind = "tool" /\ ~route.l2)

StepOK(i) ==
    /\ DOMAIN plan[i] = StepFields /\ plan[i].status \in StepStatus
    /\ plan[i].status = "running" => InHand(i)
    /\ plan[i].status \in {"skipped", "error"} => Filed(i)
    /\ status = "completed" => plan[i].status # "pending"

PlanOK ==
    /\ DOMAIN route = {"mode", "l2", "skill", "rewrite"} /\ route.rewrite \in Queries
    /\ \A i \in DOMAIN plan : StepOK(i)

(* What the evidence gates let through.                                    *)
Sound(ev) == ev = {} \/ Supported(ev)

FlightOK ==
    /\ pc \in {"retrieve", "skills"} => ~route.l2
    /\ pc \in {"wave", "running"} => DOMAIN flight = DOMAIN plan
    /\ \A i \in DOMAIN flight :
         /\ DOMAIN flight[i] = {"at", "query", "ev", "status"}
         /\ Sound(flight[i].ev)
         /\ flight[i].at = "landed" => flight[i].status \in {"success", "skipped", "error"}

(* Without evidence no text of the model is ever a draft: the reflection   *)
(* and the directed revision only run on evidence.                         *)
DraftOK ==
    /\ Sound(bag)
    /\ pc \in {"improve", "revise"} => bag # {}
    /\ pc = "critique" /\ bag = {} => rounds = 0
    /\ pc \in {"critique", "improve", "comply", "revise", "release"} /\ bag = {} =>
         answer.kind # "model"

(* The verdict that the release acts on is about the draft it releases.    *)
VerdictOK ==
    /\ pc = "done" <=> status # "running"
    /\ pc = "release" =>
         /\ verdict.decision \in {"PASS", "REFUSE"}
         /\ verdict.passed = (verdict.decision = "PASS")
         /\ verdict.decision = "PASS" => bag # {} /\ Compliance(answer, bag).decision = "PASS"
    /\ ReleasedIsSound

PipelineInv == PlanOK /\ FlightOK /\ DraftOK /\ VerdictOK

(* A new plan, in whatever stage the turn is.                              *)
LEMMA NewPlanOK ==
    ASSUME NEW p \in Seq(NewSteps), NEW i \in DOMAIN p
    PROVE  DOMAIN p[i] = StepFields /\ p[i].status = "pending"
<1>1. p[i] \in NewSteps
  OBVIOUS
<1> QED BY <1>1 DEF NewSteps, StepFields

(* What _emit_plan_kind does to a step.                                    *)
LEMMA SetKindOf ==
    ASSUME NEW p, NEW k, NEW s, NEW i \in DOMAIN p, DOMAIN p[i] = StepFields
    PROVE  /\ DOMAIN SetKind(p, k, s)[i] = StepFields
           /\ SetKind(p, k, s)[i].kind = p[i].kind
           /\ SetKind(p, k, s)[i].status =
                IF p[i].kind = k /\ p[i].status \in {"pending", "running"} THEN s
                ELSE p[i].status
BY DEF SetKind, StepFields

LEMMA SetKindDomain ==
    ASSUME NEW p, NEW k, NEW s
    PROVE  DOMAIN SetKind(p, k, s) = DOMAIN p
BY DEF SetKind

LEMMA TurnInitInv == TurnInit => PipelineInv
<1> SUFFICES ASSUME TurnInit PROVE PipelineInv
  OBVIOUS
<1>1. plan \in Seq(NewSteps)
  <2>1. CASE plan = <<>>
    BY <2>1, EmptySeq
  <2>2. CASE \E skill \in BOOLEAN : plan \in GeneratePlanOptions(Question, skill)
    BY <2>2, TurnAssumption, OptionsAreNew
  <2> QED BY <2>1, <2>2 DEF TurnInit
<1>2. DOMAIN route = {"mode", "l2", "skill", "rewrite"} /\ route.rewrite = Question
  BY DEF TurnInit
<1>3. PlanOK
  BY <1>1, <1>2, NewPlanOK, TurnAssumption DEF PlanOK, StepOK, StepStatus, TurnInit
<1>4. FlightOK /\ DraftOK /\ VerdictOK
  BY DEF TurnInit, FlightOK, DraftOK, VerdictOK, Sound, ReleasedIsSound
<1> QED BY <1>3, <1>4 DEF PipelineInv

LEMMA RaiseInv ==
    ASSUME PipelineInv, Raise
    PROVE  PipelineInv'
<1>1. PlanOK'
  BY DEF PipelineInv, PlanOK, StepOK, InHand, Filed, Raise
<1>2. FlightOK' /\ DraftOK'
  BY DEF PipelineInv, FlightOK, DraftOK, Raise
<1>3. VerdictOK'
  BY DEF VerdictOK, Raise, ReleasedIsSound
<1> QED BY <1>1, <1>2, <1>3 DEF PipelineInv

(* A plan that is put in place before any step has run.                    *)
LEMMA PlanPlaced ==
    ASSUME PipelineInv, plan' \in Seq(NewSteps), pc \in {"route", "tot"},
           pc' \in {"tot", "execute"},
           DOMAIN route' = {"mode", "l2", "skill", "rewrite"}, route'.rewrite \in Queries,
           UNCHANGED <<waves, flight, bag, query, answer, verdict, rounds, ledger, status>>
    PROVE  PipelineInv'
<1>0. status # "completed"
  BY DEF PipelineInv, VerdictOK
<1>1. PlanOK'
  BY <1>0, NewPlanOK DEF PlanOK, StepOK, StepStatus
<1>2. FlightOK' /\ DraftOK'
  BY DEF PipelineInv, FlightOK, DraftOK
<1>3. VerdictOK'
  BY DEF PipelineInv, VerdictOK, ReleasedIsSound
<1> QED BY <1>1, <1>2, <1>3 DEF PipelineInv

LEMMA RoutePlans ==
    ASSUME Route
    PROVE  /\ plan' \in Seq(NewSteps) /\ pc = "route" /\ pc' \in {"tot", "execute"}
           /\ DOMAIN route' = {"mode", "l2", "skill", "rewrite"} /\ route'.rewrite \in Queries
           /\ UNCHANGED <<waves, flight, bag, query, answer, verdict, rounds, ledger, status>>
<1>1. PICK numbered, hint, rr :
        /\ numbered \in Proposals \cup {<<>>}
        /\ rr.steps \in Proposals \cup {<<>>} /\ rr.rewrite \in Queries
        /\ Routed(numbered, hint, rr)
  <2>1. ASSUME NEW numbered \in Proposals \cup {<<>>}, NEW hint, NEW skill,
               Routed(numbered, hint, HeuristicRoute(hint, skill))
        PROVE  \E rr : /\ rr.steps \in Proposals \cup {<<>>} /\ rr.rewrite \in Queries
                       /\ Routed(numbered, hint, rr)
    <3>1. /\ HeuristicRoute(hint, skill).steps = <<>>
          /\ HeuristicRoute(hint, skill).rewrite = Question
      BY DEF HeuristicRoute
    <3> QED BY <2>1, <3>1, TurnAssumption
  <2>2. ASSUME NEW numbered \in Proposals \cup {<<>>}, NEW hint, NEW skill,
               NEW steps \in Proposals \cup {<<>>}, NEW d, NEW rw \in Queries,
               Routed(numbered, hint, CoerceRoute(steps, d, skill, rw))
        PROVE  \E rr : /\ rr.steps \in Proposals \cup {<<>>} /\ rr.rewrite \in Queries
                       /\ Routed(numbered, hint, rr)
    <3>1. /\ CoerceRoute(steps, d, skill, rw).steps \in Proposals \cup {<<>>}
          /\ CoerceRoute(steps, d, skill, rw).rewrite = rw
      BY DEF CoerceRoute
    <3> QED BY <2>2, <3>1
  <2> QED BY <2>1, <2>2 DEF Route
<1>2. numbered \in Seq(NewSteps) /\ rr.steps \in Seq(NewSteps)
  <2>1. Proposals \subseteq Seq(NewSteps) /\ <<>> \in Seq(NewSteps)
    BY TurnAssumption, EmptySeq
  <2> QED BY <1>1, <2>1, Zenon
<1>3. plan' \in Seq(NewSteps)
  <2>1. NormalizePlan(numbered, hint, rr).steps \in Seq(NewSteps)
    BY <1>1, <1>2, NormalizedIsNew
  <2> QED BY <1>1, <2>1 DEF Routed
<1>4. /\ pc' \in {"tot", "execute"}
      /\ DOMAIN route' = {"mode", "l2", "skill", "rewrite"} /\ route'.rewrite \in Queries
      /\ UNCHANGED <<waves, flight, bag, query, answer, verdict, rounds, ledger, status>>
  BY <1>1 DEF Routed
<1>5. pc = "route"
  BY DEF Route
<1> QED BY <1>3, <1>4, <1>5

LEMMA RouteInv ==
    ASSUME PipelineInv, Route
    PROVE  PipelineInv'
BY RoutePlans, PlanPlaced

LEMMA BranchPlans ==
    ASSUME PlanOK, BranchTot
    PROVE  plan' = plan \/ plan' \in Seq(NewSteps)
<1>1. route.rewrite \in Queries
  BY DEF PlanOK
<1> QED BY <1>1, FirstOptionIsNew, CoercedOptionsAreNew DEF BranchTot

LEMMA BranchTotInv ==
    ASSUME PipelineInv, BranchTot
    PROVE  PipelineInv'
<1>1. pc = "tot" /\ UNCHANGED <<waves, flight, bag, query, answer, verdict, rounds, ledger>>
  BY DEF BranchTot
<1>2. CASE pc' = "done" /\ status' = "awaiting_plan_selection" /\ UNCHANGED <<plan, route>>
  <2>0. status = "running"
    BY <1>1 DEF PipelineInv, VerdictOK
  <2>1. PlanOK'
    BY <1>1, <1>2, <2>0 DEF PipelineInv, PlanOK, StepOK, InHand, Filed
  <2>2. FlightOK' /\ DraftOK'
    BY <1>1, <1>2 DEF PipelineInv, FlightOK, DraftOK
  <2>3. VerdictOK'
    BY <1>2 DEF VerdictOK, ReleasedIsSound
  <2> QED BY <2>1, <2>2, <2>3 DEF PipelineInv
<1>3. CASE /\ \/ plan' = Head(HeuristicOptions(route.rewrite, route.skill))
              \/ plan' \in CoerceOptions(route.rewrite, route.skill)
           /\ route' = [route EXCEPT !.l2 = ShouldUsePlanExecutor(plan')]
           /\ pc' = "execute" /\ UNCHANGED status
  <2>1. route.rewrite \in Queries /\ DOMAIN route = {"mode", "l2", "skill", "rewrite"}
    BY DEF PipelineInv, PlanOK
  <2>2. plan' \in Seq(NewSteps)
    BY <1>3, <2>1, FirstOptionIsNew, CoercedOptionsAreNew
  <2>3. DOMAIN route' = {"mode", "l2", "skill", "rewrite"} /\ route'.rewrite \in Queries
    BY <1>3, <2>1
  <2> QED BY <1>1, <1>3, <2>2, <2>3, PlanPlaced
<1> QED BY <1>2, <1>3 DEF BranchTot

(* A stage that leaves the plan alone, and in which no step is running or  *)
(* the running ones stay in the same hands.                                *)
LEMMA PlanKept ==
    ASSUME PlanOK, UNCHANGED <<plan, route, ledger, status>>,
           \/ pc \notin {"retrieve", "running", "revise", "release"}
           \/ UNCHANGED <<pc, waves>>
           \/ pc = "revise" /\ pc' = "release"
    PROVE  PlanOK'
BY DEF PlanOK, StepOK, InHand, Filed

(* A stage that neither ends the turn nor gives a verdict to release on.   *)
LEMMA VerdictKept ==
    ASSUME VerdictOK, pc # "done", pc' \notin {"done", "release"}, UNCHANGED status
    PROVE  VerdictOK'
BY DEF VerdictOK, ReleasedIsSound

LEMMA FlightKept ==
    ASSUME FlightOK, UNCHANGED <<flight, route>>,
           pc' \in {"retrieve", "skills"} => pc \in {"retrieve", "skills"},
           pc' \in {"wave", "running"} => pc = pc' /\ UNCHANGED plan
    PROVE  FlightOK'
BY DEF FlightOK

(* Setting the status of a kind, in the terms of the invariant.            *)
LEMMA SetKindOK ==
    ASSUME PlanOK, NEW k, NEW s \in StepStatus, UNCHANGED <<route, status>>, ledger \subseteq ledger',
           status = "running",
           plan' = SetKind(plan, k, s),
           s = "running" =>
             \/ k = "retrieve" /\ pc' = "retrieve"
             \/ k = "verify" /\ pc' \in {"revise", "release"},
           s \in {"skipped", "error"} => OutcomesOf(plan', k, s) \subseteq ledger',
           \/ pc \notin {"retrieve", "running", "revise", "release"}
           \/ pc = "retrieve" /\ k = "retrieve"
    PROVE  PlanOK'
<1> SUFFICES ASSUME NEW i \in DOMAIN plan
             PROVE  StepOK(i)'
  BY SetKindDomain DEF PlanOK
<1>1. StepOK(i) /\ i \in DOMAIN plan'
  BY SetKindDomain DEF PlanOK
<1>2. /\ DOMAIN plan'[i] = StepFields
      /\ plan'[i].kind = plan[i].kind
      /\ plan'[i].status = IF plan[i].kind = k /\ plan[i].status \in {"pending", "running"}
                           THEN s ELSE plan[i].status
  BY <1>1, SetKindOf DEF StepOK
<1>3. plan'[i].status \in StepStatus
  BY <1>1, <1>2 DEF StepOK
<1>4. CASE plan[i].kind = k /\ plan[i].status \in {"pending", "running"}
  <2>1. s \in {"skipped", "error"} => <<i, s>> \in ledger'
    BY <1>1, <1>2, <1>4 DEF OutcomesOf
  <2> QED BY <1>2, <1>3, <1>4, <2>1 DEF StepOK, InHand, Filed
<1>5. CASE ~(plan[i].kind = k /\ plan[i].status \in {"pending", "running"})
  <2>1. plan'[i].status = plan[i].status
    BY <1>2, <1>5
  <2>2. plan[i].status # "running"
    BY <1>1, <1>5 DEF StepOK, InHand
  <2> QED BY <1>1, <1>2, <2>1, <2>2 DEF StepOK, InHand, Filed
<1> QED BY <1>4, <1>5

LEMMA ExecuteInv ==
    ASSUME PipelineInv, Execute
    PROVE  PipelineInv'
<1>0. /\ pc = "execute" /\ UNCHANGED <<route, bag, answer, verdict, rounds, ledger, status>>
      /\ PlanOK /\ FlightOK /\ DraftOK /\ VerdictOK /\ status = "running"
  BY DEF Execute, PipelineInv, VerdictOK
<1>1. DraftOK' /\ VerdictOK'
  <2>1. pc' \in {"wave", "retrieve"}
    BY DEF Execute
  <2> QED BY <1>0, <2>1, VerdictKept DEF DraftOK
<1>2. CASE route.l2
  <2>1. pc' = "wave" /\ UNCHANGED plan /\ flight' = [i \in DOMAIN plan |-> Idle]
    BY <1>2 DEF Execute
  <2>2. FlightOK'
    BY <2>1 DEF FlightOK, Idle, Sound
  <2>3. PlanOK'
    BY <1>0, <2>1, PlanKept
  <2> QED BY <1>1, <2>2, <2>3 DEF PipelineInv
<1>3. CASE ~route.l2
  <2>1. pc' = "retrieve" /\ UNCHANGED flight /\ plan' = SetKind(plan, "retrieve", "running")
    BY <1>3 DEF Execute
  <2>2. FlightOK'
    BY <1>0, <1>3, <2>1 DEF FlightOK
  <2>3. PlanOK'
    BY <1>0, <2>1, SetKindOK DEF StepStatus
  <2> QED BY <1>1, <2>2, <2>3 DEF PipelineInv
<1> QED BY <1>2, <1>3

LEMMA RetrieveInv ==
    ASSUME PipelineInv, Retrieve
    PROVE  PipelineInv'
<1>0. pc = "retrieve" /\ PlanOK /\ FlightOK /\ DraftOK /\ VerdictOK /\ status = "running"
  BY DEF Retrieve, PipelineInv, VerdictOK
<1>1. ASSUME NEW ev, Sound(ev), Retrieved(ev)
      PROVE  PipelineInv'
  <2> DEFINE s == IF ev # {} THEN "success" ELSE "error"
  <2>1. /\ pc' = "skills" /\ bag' = ev /\ plan' = SetKind(plan, "retrieve", s)
        /\ s \in {"skipped", "error"} => OutcomesOf(plan', "retrieve", s) \subseteq ledger'
        /\ ledger \subseteq ledger' /\ s \in StepStatus /\ s # "running"
        /\ UNCHANGED <<route, flight, status>>
    BY <1>1 DEF Retrieved, StepStatus
  <2> HIDE DEF s
  <2>2. PlanOK'
    BY <1>0, <2>1, SetKindOK
  <2>3. FlightOK' /\ VerdictOK'
    BY <1>0, <2>1, FlightKept, VerdictKept
  <2>4. DraftOK'
    BY <1>1, <2>1 DEF DraftOK, Sound
  <2> QED BY <2>2, <2>3, <2>4 DEF PipelineInv
<1>2. CASE /\ query' = Question
           /\ UNCHANGED <<pc, plan, route, waves, flight, bag, answer, verdict, rounds, ledger,
                          status>>
  <2>1. PlanOK' /\ FlightOK' /\ VerdictOK'
    BY <1>0, <1>2, PlanKept, FlightKept, VerdictKept
  <2>2. DraftOK'
    BY <1>0, <1>2 DEF DraftOK
  <2> QED BY <2>1, <2>2 DEF PipelineInv
<1>3. Sound({}) /\ \A ev : Sound(Accepted(ev))
  BY DEF Sound, Accepted
<1> QED BY <1>1, <1>2, <1>3, RaiseInv DEF Retrieve

LEMMA SkillsInv ==
    ASSUME PipelineInv, Skills
    PROVE  PipelineInv'
<1>0. /\ pc = "skills" /\ PlanOK /\ FlightOK /\ DraftOK /\ VerdictOK /\ status = "running"
      /\ pc' = "answer"
      /\ UNCHANGED <<route, waves, flight, bag, query, answer, verdict, rounds, spent, status>>
  BY DEF Skills, PipelineInv, VerdictOK
<1>1. FlightOK' /\ VerdictOK' /\ DraftOK'
  BY <1>0, FlightKept, VerdictKept DEF DraftOK
<1>2. PICK s \in {"skipped", "success", "error"}, t \in {"success", "skipped"} :
        /\ plan' = IF Multi THEN SetKind(SetKind(plan, "skill", s), "tool", t) ELSE plan
        /\ ledger' = ledger \cup
             (IF Multi /\ s # "success" THEN OutcomesOf(plan', "skill", s) ELSE {})
  BY DEF Skills
<1>3. PlanOK'
  <2>1. CASE ~Multi
    <3>1. UNCHANGED <<plan, ledger>>
      BY <1>2, <2>1
    <3> QED BY <1>0, <3>1, PlanKept
  <2>2. CASE Multi
    <3> DEFINE p == SetKind(plan, "skill", s)
    <3>1. plan' = SetKind(p, "tool", t) /\ DOMAIN p = DOMAIN plan /\ DOMAIN plan' = DOMAIN plan
      BY <1>2, <2>2, SetKindDomain
    <3> SUFFICES ASSUME NEW i \in DOMAIN plan
                 PROVE  StepOK(i)'
      BY <1>0, <3>1 DEF PlanOK
    <3>2. StepOK(i)
      BY <1>0 DEF PlanOK
    <3>3. /\ DOMAIN p[i] = StepFields
          /\ p[i].kind = plan[i].kind
          /\ p[i].status = IF plan[i].kind = "skill" /\ plan[i].status \in {"pending", "running"}
                           THEN s ELSE plan[i].status
      BY <3>2, SetKindOf DEF StepOK
    <3> HIDE DEF p
    <3>4. /\ DOMAIN plan'[i] = StepFields
          /\ plan'[i].kind = p[i].kind
          /\ plan'[i].status = IF p[i].kind = "tool" /\ p[i].status \in {"pending", "running"}
                               THEN t ELSE p[i].status
      BY <3>1, <3>3, SetKindOf
    <3>5. plan[i].status # "running"
      BY <1>0, <3>2 DEF StepOK, InHand
    <3>6. CASE plan[i].status \in {"skipped", "success", "error"}
      BY <1>0, <1>2, <3>2, <3>3, <3>4, <3>6 DEF StepOK, InHand, Filed
    <3>7. CASE plan[i].status = "pending" /\ plan[i].kind = "skill"
      <4>1. plan'[i].status = s /\ plan'[i].kind = "skill"
        BY <3>3, <3>4, <3>7
      <4>2. s # "success" => <<i, s>> \in ledger'
        BY <1>2, <2>2, <3>1, <4>1 DEF OutcomesOf
      <4> QED BY <1>0, <3>4, <4>1, <4>2 DEF StepOK, StepStatus, Filed
    <3>8. CASE plan[i].status = "pending" /\ plan[i].kind = "tool"
      <4>1. plan'[i].status = t /\ plan'[i].kind = "tool"
        BY <3>3, <3>4, <3>8
      <4>2. ~route'.l2
        BY <1>0 DEF FlightOK
      <4> QED BY <1>0, <3>4, <4>1, <4>2 DEF StepOK, StepStatus, Filed
    <3>9. CASE plan[i].status = "pending" /\ plan[i].kind \notin {"skill", "tool"}
      BY <1>0, <3>3, <3>4, <3>9 DEF StepOK, StepStatus
    <3> QED BY <3>2, <3>5, <3>6, <3>7, <3>8, <3>9 DEF StepOK, StepStatus
  <2> QED BY <2>1, <2>2
<1> QED BY <1>1, <1>3 DEF PipelineInv

LEMMA StartWaveInv ==
    ASSUME PipelineInv, StartWave
    PROVE  PipelineInv'
<1>0. /\ pc = "wave" /\ PlanOK /\ FlightOK /\ DraftOK /\ VerdictOK /\ status = "running"
      /\ pc' = "running"
      /\ UNCHANGED <<route, waves, bag, query, answer, verdict, rounds, spent, ledger, status>>
  BY DEF StartWave, PipelineInv, VerdictOK
<1>1. VerdictOK' /\ DraftOK'
  BY <1>0, VerdictKept DEF DraftOK
<1>2. FlightOK'
  <2>1. /\ DOMAIN flight' = DOMAIN plan /\ DOMAIN plan' = DOMAIN plan
        /\ \A i \in DOMAIN plan : \/ flight'[i] = Idle
                                  \/ \E q : flight'[i] = [Idle EXCEPT !.at = "ready", !.query = q]
    BY DEF StartWave
  <2>2. ASSUME NEW i \in DOMAIN plan
        PROVE  /\ DOMAIN flight'[i] = {"at", "query", "ev", "status"}
               /\ flight'[i].ev = {} /\ flight'[i].at # "landed"
    <3>1. CASE flight'[i] = Idle
      BY <3>1 DEF Idle
    <3>2. ASSUME NEW q, flight'[i] = [Idle EXCEPT !.at = "ready", !.query = q]
          PROVE  /\ DOMAIN flight'[i] = {"at", "query", "ev", "status"}
                 /\ flight'[i].ev = {} /\ flight'[i].at # "landed"
      <4>1. DOMAIN Idle = {"at", "query", "ev", "status"} /\ Idle.ev = {}
        BY DEF Idle
      <4> QED BY <3>2, <4>1
    <3> QED BY <2>1, <3>1, <3>2
  <2> QED BY <1>0, <2>1, <2>2 DEF FlightOK, Sound
<1>3. PlanOK'
  <2> SUFFICES ASSUME NEW i \in DOMAIN plan
               PROVE  StepOK(i)'
    BY <1>0 DEF PlanOK, StartWave
  <2>1. /\ DOMAIN plan[i] = StepFields /\ StepOK(i)
        /\ plan'[i] = IF i \in Head(waves) THEN [plan[i] EXCEPT !.status = "running"] ELSE plan[i]
    BY <1>0 DEF PlanOK, StepOK, StartWave
  <2>2. CASE i \in Head(waves)
    <3>1. DOMAIN plan'[i] = StepFields /\ plan'[i].status = "running"
      BY <2>1, <2>2 DEF StepFields
    <3> QED BY <1>0, <2>2, <3>1 DEF StepOK, StepStatus, InHand
  <2>3. CASE i \notin Head(waves)
    <3>1. plan'[i] = plan[i]
      BY <2>1, <2>3
    <3> QED BY <1>0, <2>1, <3>1 DEF StepOK, InHand, Filed
  <2> QED BY <2>2, <2>3
<1> QED BY <1>1, <1>2, <1>3 DEF PipelineInv

(* A step of a wave moves: the rest of the turn waits for the wave.        *)
LEMMA FlightMoves ==
    ASSUME PipelineInv, pc = "running", UNCHANGED <<pc, flightless>>, FlightOK'
    PROVE  PipelineInv'
<1>1. /\ PlanOK /\ DraftOK /\ VerdictOK
      /\ UNCHANGED <<plan, route, waves, bag, query, answer, verdict, rounds, ledger, status>>
  BY DEF PipelineInv, flightless
<1>2. PlanOK' /\ VerdictOK'
  BY <1>1, PlanKept, VerdictKept
<1>3. DraftOK'
  BY <1>1 DEF DraftOK
<1> QED BY <1>2, <1>3 DEF PipelineInv

LEMMA LandOK ==
    ASSUME FlightOK, NEW i, NEW s \in {"success", "skipped", "error"}, NEW ev, Sound(ev),
           Land(i, s, ev), UNCHANGED <<pc, plan, route>>
    PROVE  FlightOK'
<1>1. DOMAIN flight' = DOMAIN flight
  BY DEF Land
<1>2. ASSUME NEW j \in DOMAIN flight
      PROVE  /\ DOMAIN flight'[j] = {"at", "query", "ev", "status"}
             /\ Sound(flight'[j].ev)
             /\ flight'[j].at = "landed" => flight'[j].status \in {"success", "skipped", "error"}
  <2>1. CASE j = i
    <3>1. DOMAIN flight[i] = {"at", "query", "ev", "status"}
      BY <2>1 DEF FlightOK
    <3>2. /\ DOMAIN flight'[i] = DOMAIN flight[i]
          /\ flight'[i].ev = ev /\ flight'[i].status = s
      BY <2>1, <3>1 DEF Land
    <3> QED BY <2>1, <3>1, <3>2
  <2>2. CASE j # i
    <3>1. flight'[j] = flight[j]
      BY <2>2 DEF Land
    <3> QED BY <3>1 DEF FlightOK
  <2> QED BY <2>1, <2>2
<1> QED BY <1>1, <1>2 DEF FlightOK, Sound

(* A step that goes out, or is asked again, has not landed.                *)
LEMMA AloftOK ==
    ASSUME FlightOK, NEW i, NEW q, NEW a \in {"out", "ready"}, UNCHANGED <<pc, plan, route>>,
           \/ flight' = [flight EXCEPT ![i].at = a]
           \/ flight' = [flight EXCEPT ![i].at = a, ![i].query = q]
    PROVE  FlightOK'
<1>1. DOMAIN flight' = DOMAIN flight
  OBVIOUS
<1>2. ASSUME NEW j \in DOMAIN flight
      PROVE  /\ DOMAIN flight'[j] = {"at", "query", "ev", "status"}
             /\ Sound(flight'[j].ev)
             /\ flight'[j].at = "landed" => flight'[j].status \in {"success", "skipped", "error"}
  <2>1. CASE j = i
    <3>1. DOMAIN flight[i] = {"at", "query", "ev", "status"} /\ Sound(flight[i].ev)
      BY <2>1 DEF FlightOK
    <3>2. /\ DOMAIN flight'[i] = DOMAIN flight[i]
          /\ flight'[i].ev = flight[i].ev /\ flight'[i].at = a
      BY <2>1, <3>1
    <3> QED BY <2>1, <3>1, <3>2
  <2>2. CASE j # i
    <3>1. flight'[j] = flight[j]
      BY <2>2
    <3> QED BY <3>1 DEF FlightOK
  <2> QED BY <2>1, <2>2
<1> QED BY <1>1, <1>2 DEF FlightOK, Sound

LEMMA StepRetrieveInv ==
    ASSUME PipelineInv, NEW i \in DOMAIN plan, StepRetrieve(i)
    PROVE  PipelineInv'
<1>0. pc = "running" /\ FlightOK /\ Sound({})
  BY DEF PipelineInv, StepRetrieve, Sound
<1>1. CASE Land(i, "error", {}) /\ UNCHANGED <<pc, spent, flightless>>
  <2>1. UNCHANGED <<pc, plan, route, flightless>>
    BY <1>1 DEF flightless
  <2>2. FlightOK'
    BY <1>0, <1>1, <2>1, LandOK
  <2> QED BY <1>0, <2>1, <2>2, FlightMoves
<1>2. CASE flight' = [flight EXCEPT ![i].at = "out"] /\ UNCHANGED <<pc, flightless>>
  <2>1. UNCHANGED <<pc, plan, route, flightless>>
    BY <1>2 DEF flightless
  <2>2. FlightOK'
    BY <1>0, <1>2, <2>1, AloftOK
  <2> QED BY <1>0, <2>1, <2>2, FlightMoves
<1> QED BY <1>1, <1>2, RaiseInv DEF StepRetrieve

LEMMA StepRetrievedInv ==
    ASSUME PipelineInv, NEW i \in DOMAIN plan, StepRetrieved(i)
    PROVE  PipelineInv'
<1>0. pc = "running" /\ FlightOK /\ \A ev : Sound(Accepted(ev))
  BY DEF PipelineInv, StepRetrieved, Sound, Accepted
<1>1. ASSUME NEW ev, UNCHANGED <<pc, flightless>>,
             Land(i, IF Accepted(ev) # {} THEN "success" ELSE "error", Accepted(ev))
      PROVE  PipelineInv'
  <2>1. UNCHANGED <<pc, plan, route, flightless>>
    BY <1>1 DEF flightless
  <2>2. FlightOK'
    BY <1>0, <1>1, <2>1, LandOK
  <2> QED BY <1>0, <2>1, <2>2, FlightMoves
<1>2. CASE /\ flight' = [flight EXCEPT ![i].at = "ready", ![i].query = Question]
           /\ UNCHANGED <<pc, flightless>>
  <2>1. UNCHANGED <<pc, plan, route, flightless>>
    BY <1>2 DEF flightless
  <2>2. FlightOK'
    BY <1>0, <1>2, <2>1, AloftOK
  <2> QED BY <1>0, <2>1, <2>2, FlightMoves
<1> QED BY <1>1, <1>2, RaiseInv DEF StepRetrieved

LEMMA StepLocalInv ==
    ASSUME PipelineInv, NEW i \in DOMAIN plan, StepLocal(i)
    PROVE  PipelineInv'
<1>0. pc = "running" /\ FlightOK /\ Sound({}) /\ UNCHANGED <<pc, flightless>>
  BY DEF PipelineInv, StepLocal, Sound
<1>1. UNCHANGED <<pc, plan, route, flightless>>
  BY <1>0 DEF flightless
<1>2. PICK s \in {"success", "skipped", "error"} : Land(i, s, {})
  BY DEF StepLocal, SkillOutcomes
<1>3. FlightOK'
  BY <1>0, <1>1, <1>2, LandOK
<1> QED BY <1>0, <1>1, <1>3, FlightMoves

LEMMA EndWaveInv ==
    ASSUME PipelineInv, EndWave
    PROVE  PipelineInv'
<1>0. /\ pc = "running" /\ PlanOK /\ FlightOK /\ DraftOK /\ VerdictOK /\ status = "running"
      /\ pc' \in {"answer", "wave"} /\ ledger \subseteq ledger'
      /\ UNCHANGED <<route, query, answer, verdict, rounds, spent, status>>
  BY DEF EndWave, PipelineInv, VerdictOK
<1>1. VerdictOK'
  BY <1>0, VerdictKept
<1>2. DraftOK'
  <2>1. bag' = bag \cup UNION {flight[i].ev : i \in DOMAIN flight}
    BY DEF EndWave
  <2>2. Sound(bag) /\ \A i \in DOMAIN flight : Sound(flight[i].ev)
    BY <1>0 DEF DraftOK, FlightOK
  <2>3. Sound(bag')
    BY <2>1, <2>2 DEF Sound, Supported
  <2> QED BY <1>0, <2>3 DEF DraftOK, Sound
<1>3. FlightOK'
  <2>1. flight' = [i \in DOMAIN plan |-> Idle] /\ DOMAIN plan' = DOMAIN plan
    BY DEF EndWave
  <2> QED BY <1>0, <2>1 DEF FlightOK, Idle, Sound
<1>4. PlanOK'
  <2> SUFFICES ASSUME NEW i \in DOMAIN plan
               PROVE  StepOK(i)'
    BY <1>0 DEF PlanOK, EndWave
  <2>1. /\ DOMAIN plan[i] = StepFields /\ StepOK(i)
        /\ plan'[i] = IF i \in Head(waves) THEN [plan[i] EXCEPT !.status = flight[i].status]
                      ELSE plan[i]
    BY <1>0 DEF PlanOK, StepOK, EndWave
  <2>2. CASE i \in Head(waves)
    <3>1. DOMAIN plan'[i] = StepFields /\ plan'[i].status = flight[i].status
      BY <2>1, <2>2 DEF StepFields
    <3>2. flight[i].status \in {"success", "skipped", "error"}
      BY <1>0, <2>2 DEF EndWave, FlightOK
    <3>3. flight[i].status # "success" => <<i, flight[i].status>> \in ledger'
      BY <2>2 DEF EndWave, WaveOutcomes
    <3> QED BY <1>0, <3>1, <3>2, <3>3 DEF StepOK, StepStatus, Filed
  <2>3. CASE i \notin Head(waves)
    <3>1. plan'[i] = plan[i] /\ plan[i].status # "running"
      BY <1>0, <2>1, <2>3 DEF StepOK, InHand
    <3> QED BY <1>0, <2>1, <3>1 DEF StepOK, Filed
  <2> QED BY <2>2, <2>3
<1> QED BY <1>1, <1>2, <1>3, <1>4 DEF PipelineInv

LEMMA RefusalsAreNotTheModel ==
    HARD_REFUSE_ANSWER.kind # "model" /\ NO_EVIDENCE_DISCLAIMER.kind # "model"
<1>1. DOMAIN Empty = {"kind", "cites", "grounded", "refusal"}
  BY DEF Empty
<1> QED BY <1>1 DEF HARD_REFUSE_ANSWER, NO_EVIDENCE_DISCLAIMER

(* The draft of the answer stage.                                          *)
LEMMA AnsweredOK ==
    ASSUME PipelineInv, pc = "answer", NEW a, Answered(a), bag = {} => a.kind # "model"
    PROVE  PipelineInv'
<1>0. /\ PlanOK /\ FlightOK /\ DraftOK /\ VerdictOK /\ status = "running"
      /\ answer' = a /\ rounds' = 0 /\ pc' = "critique"
      /\ plan' = SetKind(plan, "answer", "success")
      /\ UNCHANGED <<route, waves, flight, bag, query, verdict, ledger, status>>
  BY DEF PipelineInv, VerdictOK, Answered
<1>1. PlanOK'
  BY <1>0, SetKindOK DEF StepStatus
<1>2. FlightOK' /\ VerdictOK'
  BY <1>0, FlightKept, VerdictKept
<1>3. DraftOK'
  BY <1>0 DEF DraftOK, Sound
<1> QED BY <1>1, <1>2, <1>3 DEF PipelineInv

LEMMA AnswerWithoutEvidenceInv ==
    ASSUME PipelineInv, AnswerWithoutEvidence
    PROVE  PipelineInv'
<1>1. /\ pc = "answer" /\ bag = {}
      /\ Answered(HARD_REFUSE_ANSWER) \/ Answered(NO_EVIDENCE_DISCLAIMER)
  BY DEF AnswerWithoutEvidence
<1> QED BY <1>1, RefusalsAreNotTheModel, AnsweredOK

LEMMA AnswerTextInv ==
    ASSUME PipelineInv, AnswerText
    PROVE  PipelineInv'
<1>1. pc = "answer" /\ bag # {} /\ (Raise \/ \E t \in Texts : Answered(t))
  BY DEF AnswerText
<1> QED BY <1>1, RaiseInv, AnsweredOK

LEMMA ToolRoundInv ==
    ASSUME PipelineInv, ToolRound
    PROVE  PipelineInv'
<1>0. /\ PlanOK /\ FlightOK /\ DraftOK /\ VerdictOK /\ pc = "answer"
      /\ UNCHANGED <<pc, plan, route, waves, flight, bag, query, answer, verdict, ledger, status>>
  BY DEF PipelineInv, ToolRound
<1>1. PlanOK' /\ FlightOK' /\ VerdictOK'
  BY <1>0, PlanKept, FlightKept, VerdictKept
<1>2. DraftOK'
  BY <1>0 DEF DraftOK
<1> QED BY <1>1, <1>2 DEF PipelineInv

LEMMA ReflectionInv ==
    ASSUME PipelineInv, SkipReflection \/ Critique \/ Improve
    PROVE  PipelineInv'
<1>0. /\ PlanOK /\ FlightOK /\ DraftOK /\ VerdictOK /\ pc \in {"critique", "improve"}
      /\ pc' \in {"critique", "improve", "comply"}
      /\ UNCHANGED <<plan, route, waves, flight, bag, query, verdict, ledger, status>>
  BY DEF PipelineInv, SkipReflection, Critique, Improve
<1>1. PlanOK' /\ FlightOK' /\ VerdictOK'
  BY <1>0, PlanKept, FlightKept, VerdictKept
<1>2. CASE bag = {}
  <2>1. SkipReflection
    BY <1>0, <1>2 DEF DraftOK, Critique, Improve, MayReflect
  <2>2. DraftOK'
    BY <1>0, <1>2, <2>1 DEF DraftOK, SkipReflection
  <2> QED BY <1>1, <2>2 DEF PipelineInv
<1>3. CASE bag # {}
  <2>1. DraftOK'
    BY <1>0, <1>3 DEF DraftOK
  <2> QED BY <1>1, <2>1 DEF PipelineInv
<1> QED BY <1>2, <1>3

(* The gate's verdicts.                                                    *)
LEMMA ComplianceOf ==
    ASSUME NEW a, NEW ev
    PROVE  /\ Compliance(a, ev).decision \in {"PASS", "REVISE", "REFUSE"}
           /\ Compliance(a, ev).passed = (Compliance(a, ev).decision = "PASS")
           /\ DOMAIN Compliance(a, ev) = {"decision", "passed"}
           /\ ev = {} => Compliance(a, ev).decision = "REFUSE"
<1>1. ev = {} => RefuseCodes(a, ev) # {}
  BY DEF RefuseCodes
<1> QED BY <1>1 DEF Compliance

LEMMA ComplyInv ==
    ASSUME PipelineInv, Comply
    PROVE  PipelineInv'
<1>0. /\ PlanOK /\ FlightOK /\ DraftOK /\ VerdictOK /\ pc = "comply" /\ status = "running"
      /\ verdict' = Compliance(answer, bag)
      /\ plan' = SetKind(plan, "verify", "running")
      /\ pc' = IF verdict'.decision = "REVISE" THEN "revise" ELSE "release"
      /\ UNCHANGED <<route, waves, flight, bag, query, answer, rounds, spent, ledger, status>>
  BY DEF PipelineInv, VerdictOK, Comply
<1>1. PlanOK'
  BY <1>0, SetKindOK DEF StepStatus
<1>2. FlightOK'
  BY <1>0, FlightKept
<1>3. DraftOK'
  BY <1>0, ComplianceOf DEF DraftOK
<1>4. VerdictOK'
  BY <1>0, ComplianceOf DEF VerdictOK, ReleasedIsSound
<1> QED BY <1>1, <1>2, <1>3, <1>4 DEF PipelineInv

LEMMA ReviseInv ==
    ASSUME PipelineInv, Revise
    PROVE  PipelineInv'
<1> DEFINE v == Compliance(answer', bag)
<1>0. /\ PlanOK /\ FlightOK /\ DraftOK /\ VerdictOK /\ pc = "revise" /\ status = "running"
      /\ verdict' = IF v.decision = "REVISE" THEN [v EXCEPT !.decision = "REFUSE"] ELSE v
      /\ pc' = "release"
      /\ UNCHANGED <<plan, route, waves, flight, bag, query, rounds, ledger, status>>
  BY DEF PipelineInv, VerdictOK, Revise
<1>1. PlanOK'
  BY <1>0, PlanKept
<1>2. FlightOK'
  BY <1>0, FlightKept
<1>3. DraftOK'
  BY <1>0 DEF DraftOK
<1>4. /\ v.decision \in {"PASS", "REVISE", "REFUSE"} /\ v.passed = (v.decision = "PASS")
      /\ DOMAIN v = {"decision", "passed"}
  BY ComplianceOf
<1>5. Compliance(answer, bag)' = v /\ bag # {}
  BY <1>0 DEF DraftOK
<1> HIDE DEF v
<1>6. /\ verdict'.decision \in {"PASS", "REFUSE"}
      /\ verdict'.passed = (verdict'.decision = "PASS")
      /\ verdict'.decision = "PASS" => v.decision = "PASS"
  <2>1. CASE v.decision = "REVISE"
    BY <1>0, <1>4, <2>1
  <2>2. CASE v.decision # "REVISE"
    BY <1>0, <1>4, <2>2
  <2> QED BY <2>1, <2>2
<1>7. VerdictOK'
  BY <1>0, <1>5, <1>6 DEF VerdictOK, ReleasedIsSound
<1> QED BY <1>1, <1>2, <1>3, <1>7 DEF PipelineInv

LEMMA ReleaseInv ==
    ASSUME PipelineInv, Release
    PROVE  PipelineInv'
<1>0. /\ PlanOK /\ FlightOK /\ DraftOK /\ VerdictOK /\ pc = "release" /\ status = "running"
      /\ answer' = IF verdict.decision = "REFUSE" /\ bag # {} THEN HARD_REFUSE_ANSWER ELSE answer
      /\ pc' = "done" /\ status' = "completed"
      /\ UNCHANGED <<route, waves, flight, bag, query, verdict, rounds, spent>>
  BY DEF PipelineInv, VerdictOK, Release
<1>1. FlightOK'
  BY <1>0, FlightKept
<1>2. DraftOK'
  BY <1>0 DEF DraftOK, Sound
<1>3. VerdictOK'
  <2>1. /\ verdict.decision \in {"PASS", "REFUSE"}
        /\ verdict.passed = (verdict.decision = "PASS")
        /\ verdict.decision = "PASS" => bag # {} /\ Compliance(answer, bag).decision = "PASS"
    BY <1>0 DEF VerdictOK
  <2>2. CASE bag = {}
    BY <1>0, <2>1, <2>2 DEF VerdictOK, ReleasedIsSound, DraftOK
  <2>3. CASE bag # {}
    <3>1. Supported(bag')
      BY <1>0, <2>3 DEF DraftOK, Sound
    <3>2. answer' = HARD_REFUSE_ANSWER \/ Compliance(answer', bag').decision = "PASS"
      BY <1>0, <2>1, <2>3
    <3> QED BY <1>0, <2>3, <3>1, <3>2 DEF VerdictOK, ReleasedIsSound
  <2> QED BY <2>2, <2>3
<1>4. PlanOK'
  <2> DEFINE e == IF verdict.passed THEN "success" ELSE "error"
             v == SetKind(plan, "verify", e)
             open == {i \in DOMAIN v : v[i].status = "pending"}
  <2>1. /\ plan' = [i \in DOMAIN v |-> IF i \in open THEN [v[i] EXCEPT !.status = "skipped"] ELSE v[i]]
        /\ ledger' = (ledger \cup {<<i, "skipped">> : i \in open}) \cup OutcomesOf(v, "verify", "error")
    BY DEF Release
  <2>2. DOMAIN v = DOMAIN plan /\ e \in {"success", "error"}
    BY SetKindDomain
  <2> SUFFICES ASSUME NEW i \in DOMAIN plan
               PROVE  StepOK(i)'
    BY <1>0, <2>1, <2>2 DEF PlanOK
  <2>3. StepOK(i)
    BY <1>0 DEF PlanOK
  <2>4. /\ DOMAIN v[i] = StepFields /\ v[i].kind = plan[i].kind
        /\ v[i].status = IF plan[i].kind = "verify" /\ plan[i].status \in {"pending", "running"}
                         THEN e ELSE plan[i].status
    BY <2>3, SetKindOf DEF StepOK
  <2> HIDE DEF v, e
  <2>5. v[i].status \in StepStatus \ {"running"}
    BY <1>0, <2>2, <2>3, <2>4 DEF StepOK, StepStatus, InHand
  <2>6. CASE v[i].status = "pending"
    <3>1. DOMAIN plan'[i] = StepFields /\ plan'[i].status = "skipped"
      BY <2>1, <2>2, <2>4, <2>6 DEF StepFields
    <3>2. <<i, "skipped">> \in ledger'
      BY <2>1, <2>2, <2>6
    <3> QED BY <3>1, <3>2 DEF StepOK, StepStatus, Filed
  <2>7. CASE v[i].status # "pending"
    <3>1. plan'[i] = v[i]
      BY <2>1, <2>2, <2>7
    <3>2. v[i].status \in {"skipped", "error"} =>
            <<i, v[i].status>> \in ledger' \/ (v[i].kind = "tool" /\ ~route'.l2)
      <4>1. CASE plan[i].kind = "verify" /\ plan[i].status \in {"pending", "running"}
        BY <2>1, <2>2, <2>4, <4>1 DEF OutcomesOf
      <4>2. CASE ~(plan[i].kind = "verify" /\ plan[i].status \in {"pending", "running"})
        BY <1>0, <2>1, <2>3, <2>4, <4>2 DEF StepOK, Filed
      <4> QED BY <4>1, <4>2
    <3> QED BY <2>4, <2>5, <2>7, <3>1, <3>2 DEF StepOK, StepStatus, Filed
  <2> QED BY <2>6, <2>7
<1> QED BY <1>1, <1>2, <1>3, <1>4 DEF PipelineInv

LEMMA PipelineStutters ==
    ASSUME PipelineInv, UNCHANGED vars
    PROVE  PipelineInv'
<1>1. PlanOK'
  BY DEF vars, PipelineInv, PlanOK, StepOK, InHand, Filed
<1>2. FlightOK' /\ DraftOK' /\ VerdictOK'
  BY DEF vars, PipelineInv, FlightOK, DraftOK, VerdictOK, ReleasedIsSound
<1> QED BY <1>1, <1>2 DEF PipelineInv

(* Every stage of a turn keeps the invariant.                              *)
THEOREM PipelineInvariant == Spec => []PipelineInv
<1>1. PipelineInv /\ [Next]_vars => PipelineInv'
  <2> SUFFICES ASSUME PipelineInv, [Next]_vars
               PROVE  PipelineInv'
    OBVIOUS
  <2>1. CASE Stages
    BY <2>1, RouteInv, BranchTotInv, ExecuteInv, RetrieveInv, SkillsInv, StartWaveInv,
       EndWaveInv, StepRetrieveInv, StepRetrievedInv, StepLocalInv, AnswerWithoutEvidenceInv,
       AnswerTextInv, ToolRoundInv, ReflectionInv, ComplyInv, ReviseInv, ReleaseInv
       DEF Stages
  <2>2. CASE Timeout
    BY <2>2, RaiseInv DEF Timeout
  <2>3. CASE Finished \/ UNCHANGED vars
    BY <2>3, PipelineStutters DEF Finished
  <2> QED BY <2>1, <2>2, <2>3 DEF Next
<1> QED BY <1>1, TurnInitInv, PTL DEF Spec

(* Whatever the router, the retriever, the critic and the editor answer,   *)
(* and wherever a budget runs out, a completed turn publishes the safe     *)
(* refusal or a draft that passes the gate as it stands.                   *)
THEOREM ReleasesAreSound == Spec => []ReleasedIsSound
<1>1. PipelineInv => ReleasedIsSound
  BY DEF PipelineInv, VerdictOK
<1> QED BY <1>1, PipelineInvariant, PTL

(* When a turn completes, every step of its plan has ended and the ones    *)
(* that did not succeed are in the ledger, for any plan.                   *)
THEOREM OutcomesStayRecorded == Spec => []OutcomesAreRecorded
<1>1. PipelineInv => OutcomesAreRecorded
  <2> SUFFICES ASSUME PipelineInv, status = "completed", NEW i \in DOMAIN plan
               PROVE  /\ plan[i].status \in {"success", "skipped", "error"}
                      /\ plan[i].status # "success" /\ (plan[i].kind = "tool" => route.l2)
                           => <<i, plan[i].status>> \in ledger
    BY DEF OutcomesAreRecorded
  <2>1. StepOK(i) /\ pc = "done"
    BY DEF PipelineInv, PlanOK, VerdictOK
  <2> QED BY <2>1 DEF StepOK, StepStatus, InHand, Filed
<1> QED BY <1>1, PipelineInvariant, PTL

-----------------------------------------------------------------------------
(* The plan executor: the waves that Kahn's algorithm makes of a plan.     *)

LEMMA LeastOf ==
    ASSUME NEW S, S \subseteq Nat, S # {}
    PROVE  Min(S) \in S /\ \A y \in S : Min(S) <= y
<1>1. PICK d \in S : \A k \in S : ~ (<<k, d>> \in OpToRel(<, Nat))
  BY NatLessThanWellFounded, WFMin
<1>2. \A k \in S : d <= k
  <2>1. \A k \in S : k \in Nat /\ d \in Nat
    OBVIOUS
  <2>2. \A k \in S : ~ (k < d)
    BY <1>1, <2>1 DEF OpToRel
  <2> QED BY <2>1, <2>2
<1> QED BY <1>2 DEF Min

LEMMA GreatestOf ==
    ASSUME NEW n \in Nat, NEW S, S \subseteq 1 .. n, S # {}
    PROVE  Max(S) \in S
<1> DEFINE T == {n - x : x \in S}
<1>1. T \subseteq Nat /\ T # {}
  <2>1. PICK x \in S : TRUE
    OBVIOUS
  <2>2. n - x \in T
    OBVIOUS
  <2>3. \A y \in S : n - y \in Nat
    OBVIOUS
  <2> QED BY <2>2, <2>3
<1>2. PICK d \in T : \A k \in T : d <= k
  <2> HIDE DEF T
  <2> QED BY <1>1, LeastOf
<1>3. PICK x \in S : d = n - x
  OBVIOUS
<1>4. \A y \in S : x >= y
  <2> TAKE y \in S
  <2>1. d <= n - y
    BY <1>2
  <2> QED BY <1>3, <2>1
<1> QED BY <1>4 DEF Max

(* Disjoint sets in the order of their least members: each has a place of  *)
(* its own, so every place is taken.                                       *)
LEMMA InOrder ==
    ASSUME NEW B, IsFiniteSet(B), \A b \in B : b \subseteq Nat /\ b # {},
           \A b, c \in B : b # c => b \cap c = {}
    PROVE  LET N == Cardinality(B)
               s == [n \in 1 .. N |-> CHOOSE b \in B : Cardinality({c \in B : Min(c) <= Min(b)}) = n]
           IN  /\ s \in Seq(B) /\ Len(s) = N
               /\ \A b \in B : \E n \in 1 .. N : s[n] = b
<1> DEFINE N == Cardinality(B)
           Upto(b) == {c \in B : Min(c) <= Min(b)}
           s == [n \in 1 .. N |-> CHOOSE b \in B : Cardinality(Upto(b)) = n]
           place == [b \in B |-> Cardinality(Upto(b))]
<1>1. N \in Nat
  BY FS_CardinalityType
<1>2. \A b \in B : Min(b) \in b /\ Min(b) \in Nat
  BY LeastOf
<1>3. \A b, c \in B : b # c => Min(b) # Min(c)
  BY <1>2
<1>4. \A b \in B : /\ Upto(b) \subseteq B /\ b \in Upto(b)
                   /\ IsFiniteSet(Upto(b)) /\ Cardinality(Upto(b)) \in 1 .. N
  <2> TAKE b \in B
  <2>1. Upto(b) \subseteq B /\ b \in Upto(b)
    BY <1>2
  <2> HIDE DEF Upto
  <2>2. IsFiniteSet(Upto(b)) /\ Cardinality(Upto(b)) <= N
    BY <2>1, FS_Subset
  <2>3. Cardinality(Upto(b)) \in Nat /\ Cardinality(Upto(b)) # 0
    BY <2>1, <2>2, FS_CardinalityType, FS_EmptySet
  <2> QED BY <1>1, <2>1, <2>2, <2>3
<1>5. ASSUME NEW b \in B, NEW c \in B, b # c
      PROVE  Cardinality(Upto(b)) # Cardinality(Upto(c))
  <2>1. ASSUME NEW x \in B, NEW y \in B, Min(x) < Min(y)
        PROVE  Cardinality(Upto(x)) # Cardinality(Upto(y))
    <3>1. Upto(x) \subseteq Upto(y) /\ y \notin Upto(x)
      BY <1>2, <2>1
    <3>2. y \in Upto(y)
      BY <1>4
    <3> HIDE DEF Upto
    <3> QED BY <1>4, <3>1, <3>2, FS_Subset
  <2>2. Min(b) < Min(c) \/ Min(c) < Min(b)
    BY <1>2, <1>3, <1>5
  <2> HIDE DEF Upto
  <2> QED BY <2>1, <2>2
<1> HIDE DEF Upto
<1>6. place \in Injection(B, 1 .. N)
  BY <1>4, <1>5 DEF Injection, IsInjective
<1>7. IsFiniteSet(1 .. N) /\ Cardinality(1 .. N) = N
  BY <1>1, FS_Interval
<1>8. place \in Surjection(B, 1 .. N)
  <2> HIDE DEF place, N
  <2>1. Cardinality(B) = Cardinality(1 .. N)
    BY <1>7 DEF N
  <2> QED BY <1>6, <1>7, <2>1, FS_Injection
<1>9. \A n \in 1 .. N : \E b \in B : Cardinality(Upto(b)) = n
  BY <1>8 DEF Surjection
<1>10. \A n \in 1 .. N : s[n] \in B /\ Cardinality(Upto(s[n])) = n
  BY <1>9
<1>11. s \in Seq(B) /\ Len(s) = N
  <2>1. s \in [1 .. N -> B]
    BY <1>10
  <2> HIDE DEF s, N
  <2> QED BY <1>1, <2>1
<1>12. ASSUME NEW b \in B
       PROVE  \E n \in 1 .. N : s[n] = b
  <2> DEFINE p == Cardinality(Upto(b))
  <2>1. p \in 1 .. N
    BY <1>4
  <2>2. s[p] \in B /\ Cardinality(Upto(s[p])) = p
    BY <1>10, <2>1
  <2>3. s[p] = b
    <3> HIDE DEF s
    <3> QED BY <1>5, <2>2
  <2> HIDE DEF s, p, N
  <2> QED BY <2>1, <2>3
<1> HIDE DEF N, s
<1>13. s \in Seq(B) /\ Len(s) = N /\ \A b \in B : \E n \in 1 .. N : s[n] = b
  BY <1>11, <1>12
<1> QED BY <1>13 DEF N, s, Upto
BatchesOf(w, ready, steps) ==
    /\ w \in Seq(SUBSET ready)
    /\ \A i \in ready : \E k \in 1 .. Len(w) : i \in w[k]
    /\ \A k \in 1 .. Len(w) : \A i \in w[k] :
          steps[i].kind \notin Parallelizable => w[k] = {i}

(* The batches of the ready steps hold them all, and a step that may not   *)
(* share a wave is in one of its own.                                      *)
LEMMA BatchesHold ==
    ASSUME NEW n \in Nat, NEW steps, NEW ready, ready \subseteq 1 .. n
    PROVE  BatchesOf(Batches(steps, ready), ready, steps)
<1> DEFINE alone == {i \in ready : steps[i].kind \notin Parallelizable}
           Batch(i) == IF i \in alone THEN {i}
                       ELSE {j \in ready \ alone : \A k \in alone : (k < i) = (k < j)}
           B == {Batch(i) : i \in ready}
           s == [m \in 1 .. Cardinality(B) |->
                   CHOOSE b \in B : Cardinality({c \in B : Min(c) <= Min(b)}) = m]
<1>1. Batches(steps, ready) = s
  BY DEF Batches
<1>2. \A i \in ready : i \in Batch(i) /\ Batch(i) \subseteq ready
  OBVIOUS
<1>3. \A i \in ready : \A j \in Batch(i) :
         /\ Batch(j) = Batch(i)
         /\ steps[j].kind \notin Parallelizable => Batch(i) = {j}
  <2> TAKE i \in ready
  <2> TAKE j \in Batch(i)
  <2>1. CASE i \in alone
    BY <2>1
  <2>2. CASE i \notin alone
    <3>1. j \in ready /\ j \notin alone /\ \A k \in alone : (k < i) = (k < j)
      BY <2>2
    <3>2. Batch(j) = {l \in ready \ alone : \A k \in alone : (k < j) = (k < l)}
      BY <3>1
    <3>3. Batch(i) = {l \in ready \ alone : \A k \in alone : (k < i) = (k < l)}
      BY <2>2
    <3> HIDE DEF Batch
    <3>4. Batch(j) = Batch(i)
      BY <3>1, <3>2, <3>3
    <3> QED BY <3>1, <3>4
  <2> QED BY <2>1, <2>2
<1> HIDE DEF Batch
<1>4. IsFiniteSet(ready)
  <2>1. IsFiniteSet(1 .. n)
    BY FS_Interval
  <2> QED BY <2>1, FS_Subset
<1>5. IsFiniteSet(B)
  <2>1. B \subseteq SUBSET ready
    BY <1>2
  <2> HIDE DEF B
  <2> QED BY <1>4, <2>1, FS_SUBSET, FS_Subset
<1>6. \A b \in B : b \subseteq Nat /\ b # {} /\ b \subseteq ready
  <2>1. ready \subseteq Nat
    OBVIOUS
  <2> SUFFICES ASSUME NEW i \in ready
               PROVE  Batch(i) \subseteq Nat /\ Batch(i) # {} /\ Batch(i) \subseteq ready
    OBVIOUS
  <2> QED BY <1>2, <2>1
<1>7. \A b, c \in B : b # c => b \cap c = {}
  <2> SUFFICES ASSUME NEW i \in ready, NEW j \in ready, NEW x \in Batch(i) \cap Batch(j)
               PROVE  Batch(i) = Batch(j)
    OBVIOUS
  <2> QED BY <1>3
<1> DEFINE N == Cardinality(B)
<1>8. s \in Seq(B) /\ Len(s) = N /\ \A b \in B : \E k \in 1 .. N : s[k] = b
  <2> HIDE DEF B
  <2> QED BY <1>5, <1>6, <1>7, InOrder
<1> HIDE DEF s, N
<1>9. N \in Nat /\ \A k \in 1 .. N : s[k] \in B
  <2>1. N = Len(s) /\ s \in Seq(B)
    BY <1>8
  <2> HIDE DEF B
  <2> QED BY <2>1
<1>10. s \in Seq(SUBSET ready)
  <2>1. B \subseteq SUBSET ready
    BY <1>6
  <2>2. s = [k \in 1 .. N |-> s[k]]
    <3> HIDE DEF B
    <3> QED BY <1>8
  <2> HIDE DEF B
  <2>3. s \in [1 .. N -> SUBSET ready]
    BY <1>9, <2>1, <2>2
  <2> QED BY <1>9, <2>3
<1>11. ASSUME NEW i \in ready
       PROVE  \E k \in 1 .. Len(s) : i \in s[k]
  <2>1. Batch(i) \in B
    OBVIOUS
  <2>2. PICK k \in 1 .. N : s[k] = Batch(i)
    BY <1>8, <2>1
  <2> QED BY <1>2, <1>8, <2>2
<1>12. ASSUME NEW k \in 1 .. Len(s), NEW i \in s[k], steps[i].kind \notin Parallelizable
       PROVE  s[k] = {i}
  <2>1. s[k] \in B
    BY <1>8, <1>9
  <2>2. PICK j \in ready : s[k] = Batch(j)
    BY <2>1
  <2> QED BY <1>3, <1>12, <2>2
<1> QED BY <1>1, <1>10, <1>11, <1>12 DEF BatchesOf

(* Every place that is no stop leads to one nearer to the end.             *)
Nearing(D, rank, N, stop, next) ==
    /\ rank \in [D -> Nat] /\ N \in Nat /\ \A d \in D : rank[d] <= N
    /\ \A d \in D : d \notin stop => next[d] \in D /\ rank[next[d]] < rank[d]

IsChain(f, D, stop, base, pre, next) ==
    f = [d \in D |-> IF d \in stop THEN base[d] ELSE pre[d] \o f[next[d]]]

(* A function that is defined from its value at a place nearer to the end  *)
(* exists: it does on the places up to any distance.                       *)
LEMMA ChainDefined ==
    ASSUME NEW D, NEW rank, NEW N, NEW stop, NEW base, NEW pre, NEW next,
           Nearing(D, rank, N, stop, next)
    PROVE  \E f : IsChain(f, D, stop, base, pre, next)
<1> DEFINE Near(n) == {d \in D : rank[d] <= n}
           Good(f, n) == f = [d \in Near(n) |-> IF d \in stop THEN base[d] ELSE pre[d] \o f[next[d]]]
           T == {n \in Nat : ~ \E f : Good(f, n)}
<1>0. /\ rank \in [D -> Nat] /\ N \in Nat /\ \A d \in D : rank[d] <= N
      /\ \A d \in D : d \notin stop => next[d] \in D /\ rank[next[d]] < rank[d]
  BY DEF Nearing
<1>1. T = {}
  <2> SUFFICES ASSUME T # {} PROVE FALSE
    OBVIOUS
  <2>1. T \subseteq Nat
    OBVIOUS
  <2>2. PICK n \in T : \A k \in T : n <= k
    <3> HIDE DEF T
    <3> QED BY <2>1, LeastOf
  <2>3. n \in Nat /\ ~ \E f : Good(f, n)
    OBVIOUS
  <2>4. \A d \in D : rank[d] \in Nat
    BY <1>0
  <2>5. CASE n = 0
    <3>1. \A d \in Near(n) : d \in stop
      BY <1>0, <2>4, <2>5
    <3> DEFINE f == [d \in Near(n) |-> base[d]]
    <3>2. Good(f, n)
      BY <3>1
    <3> QED BY <2>3, <3>2
  <2>6. CASE n # 0
    <3>1. n - 1 \in Nat /\ n - 1 \notin T
      <4>1. n - 1 \in Nat /\ ~ (n <= n - 1)
        BY <2>3, <2>6
      <4> HIDE DEF T
      <4> QED BY <2>2, <4>1
    <3>2. PICK g : Good(g, n - 1)
      BY <3>1
    <3> DEFINE f == [d \in Near(n) |-> IF d \in stop THEN base[d] ELSE pre[d] \o g[next[d]]]
    <3>3. ASSUME NEW d \in Near(n), d \notin stop
          PROVE  f[next[d]] = g[next[d]]
      <4>1. next[d] \in Near(n - 1) /\ next[d] \in Near(n)
        <5>1. d \in D /\ rank[d] <= n /\ next[d] \in D /\ rank[next[d]] < rank[d]
          BY <1>0, <3>3
        <5>2. rank[d] \in Nat /\ rank[next[d]] \in Nat
          BY <2>4, <5>1
        <5> QED BY <2>3, <5>1, <5>2
      <4> HIDE DEF Near
      <4> QED BY <3>2, <4>1
    <3>4. Good(f, n)
      <4> HIDE DEF Near
      <4> QED BY <3>3
    <3> HIDE DEF Good
    <3> QED BY <2>3, <3>4
  <2> QED BY <2>5, <2>6
<1>2. PICK f : Good(f, N)
  BY <1>0, <1>1
<1>3. Near(N) = D
  BY <1>0
<1> HIDE DEF Near
<1> QED BY <1>2, <1>3 DEF IsChain
(* Waves of the steps in X: all of them, each after what it depends on, a  *)
(* step that may not share a wave alone.                                   *)
InTurn(w, X, steps, deps) ==
    /\ w \in Seq(SUBSET X)
    /\ \A i \in X : \E k \in 1 .. Len(w) : i \in w[k]
    /\ \A k \in 1 .. Len(w) : \A i \in w[k] :
          /\ steps[i].kind \notin Parallelizable => w[k] = {i}
          /\ \A m \in k .. Len(w) : deps[i] \cap w[m] = {}

LEMMA SeqWider ==
    ASSUME NEW S, NEW U, S \subseteq U, NEW s \in Seq(S)
    PROVE  s \in Seq(U)
<1>1. Len(s) \in Nat /\ \A k \in 1 .. Len(s) : s[k] \in U
  OBVIOUS
<1>2. s = [k \in 1 .. Len(s) |-> s[k]]
  OBVIOUS
<1>3. s \in [1 .. Len(s) -> U]
  BY <1>1, <1>2
<1> QED BY <1>1, <1>3

LEMMA TurnsJoin ==
    ASSUME NEW n \in Nat, NEW steps, NEW deps, NEW done, NEW ready,
           done \subseteq 1 .. n, ready \subseteq (1 .. n) \ done,
           \A i \in ready : deps[i] \subseteq done,
           NEW w, InTurn(w, (1 .. n) \ (done \cup ready), steps, deps)
    PROVE  InTurn(Batches(steps, ready) \o w, (1 .. n) \ done, steps, deps)
<1> DEFINE a == Batches(steps, ready)
           X == (1 .. n) \ done
           Y == (1 .. n) \ (done \cup ready)
           v == a \o w
           p == Len(a)
           q == Len(w)
<1>1. /\ a \in Seq(SUBSET ready)
      /\ \A i \in ready : \E k \in 1 .. p : i \in a[k]
      /\ \A k \in 1 .. p : \A i \in a[k] : steps[i].kind \notin Parallelizable => a[k] = {i}
  <2>1. ready \subseteq 1 .. n
    OBVIOUS
  <2>2. BatchesOf(a, ready, steps)
    BY <2>1, BatchesHold
  <2> QED BY <2>2 DEF BatchesOf
<1>2. /\ w \in Seq(SUBSET Y)
      /\ \A i \in Y : \E k \in 1 .. q : i \in w[k]
      /\ \A k \in 1 .. q : \A i \in w[k] :
            /\ steps[i].kind \notin Parallelizable => w[k] = {i}
            /\ \A m \in k .. q : deps[i] \cap w[m] = {}
  BY DEF InTurn
<1>3. ready \subseteq X /\ Y \subseteq X /\ X = ready \cup Y
  OBVIOUS
<1> HIDE DEF a, X, Y
<1>4. p \in Nat /\ q \in Nat
  BY <1>1, <1>2
<1>5. /\ \A k \in 1 .. p : a[k] \subseteq ready
      /\ \A k \in 1 .. q : w[k] \subseteq Y
  BY <1>1, <1>2
<1>6. /\ v \in Seq(SUBSET X) /\ Len(v) = p + q
      /\ \A k \in 1 .. p : v[k] = a[k]
      /\ \A k \in 1 .. q : v[p + k] = w[k]
  <2>1. a \in Seq(SUBSET X) /\ w \in Seq(SUBSET X)
    <3>1. SUBSET ready \subseteq SUBSET X /\ SUBSET Y \subseteq SUBSET X
      BY <1>3
    <3> QED BY <1>1, <1>2, <3>1, SeqWider
  <2> QED BY <2>1, ConcatProperties
<1> HIDE DEF v, p, q
<1>7. \A k \in 1 .. p + q : k \in 1 .. p \/ \E l \in 1 .. q : k = p + l
  <2> SUFFICES ASSUME NEW k \in 1 .. p + q, k \notin 1 .. p
               PROVE  \E l \in 1 .. q : k = p + l
    OBVIOUS
  <2>1. k - p \in 1 .. q /\ k = p + (k - p)
    BY <1>4
  <2> QED BY <2>1
<1>8. \A k \in 1 .. p : k \in 1 .. p + q
  BY <1>4
<1>9. \A l \in 1 .. q : p + l \in 1 .. p + q
  BY <1>4
<1>10. ASSUME NEW i \in X
       PROVE  \E k \in 1 .. Len(v) : i \in v[k]
  <2>1. CASE i \in ready
    <3>1. PICK k \in 1 .. p : i \in a[k]
      BY <1>1, <2>1
    <3> QED BY <1>6, <1>8, <3>1
  <2>2. CASE i \in Y
    <3>1. PICK k \in 1 .. q : i \in w[k]
      BY <1>2, <2>2
    <3> QED BY <1>6, <1>9, <3>1
  <2> QED BY <1>3, <2>1, <2>2
<1>11. \A m \in 1 .. p + q : v[m] \cap done = {}
  <2>1. ready \cap done = {} /\ Y \cap done = {}
    BY DEF Y
  <2> SUFFICES ASSUME NEW m \in 1 .. p + q
               PROVE  v[m] \cap done = {}
    OBVIOUS
  <2>2. CASE m \in 1 .. p
    BY <1>5, <1>6, <2>1, <2>2
  <2>3. ASSUME NEW l \in 1 .. q, m = p + l
        PROVE  v[m] \cap done = {}
    BY <1>5, <1>6, <2>1, <2>3
  <2> QED BY <1>7, <2>2, <2>3
<1>12. ASSUME NEW k \in 1 .. Len(v), NEW i \in v[k]
       PROVE  /\ steps[i].kind \notin Parallelizable => v[k] = {i}
              /\ \A m \in k .. Len(v) : deps[i] \cap v[m] = {}
  <2>1. CASE k \in 1 .. p
    <3>1. i \in a[k] /\ i \in ready /\ v[k] = a[k]
      BY <1>5, <1>6, <1>12, <2>1
    <3>2. ASSUME NEW m \in k .. Len(v)
          PROVE  deps[i] \cap v[m] = {}
      <4>1. m \in 1 .. p + q
        BY <1>4, <1>6, <2>1
      <4> QED BY <1>11, <3>1, <4>1
    <3> QED BY <1>1, <2>1, <3>1, <3>2
  <2>2. ASSUME NEW l \in 1 .. q, k = p + l
        PROVE  /\ steps[i].kind \notin Parallelizable => v[k] = {i}
               /\ \A m \in k .. Len(v) : deps[i] \cap v[m] = {}
    <3>1. i \in w[l] /\ v[k] = w[l]
      BY <1>6, <1>12, <2>2
    <3>2. ASSUME NEW m \in k .. Len(v)
          PROVE  deps[i] \cap v[m] = {}
      <4>1. m - p \in l .. q /\ m - p \in 1 .. q /\ m = p + (m - p)
        BY <1>4, <1>6, <2>2
      <4>2. v[m] = w[m - p]
        BY <1>6, <4>1
      <4> QED BY <1>2, <3>1, <4>1, <4>2
    <3> QED BY <1>2, <3>1, <3>2
  <2> QED BY <1>6, <1>7, <2>1, <2>2
<1>13. InTurn(v, X, steps, deps)
  BY <1>6, <1>10, <1>12 DEF InTurn
<1> QED BY <1>13 DEF v, X, a

(* Kahn's algorithm: the waves of a plan whose dependencies can be met     *)
(* hold every step, and each after all it depends on.                      *)
LEMMA WavesInTurn ==
    ASSUME NEW n \in Nat, NEW steps, DOMAIN steps = 1 .. n,
           NEW deps, DOMAIN deps = 1 .. n, \A i \in 1 .. n : deps[i] \subseteq 1 .. n,
           Acyclic(deps)
    PROVE  InTurn(BuildExecutionWaves(steps, deps), 1 .. n, steps, deps)
<1> DEFINE all == 1 .. n
           D == SUBSET all
           Ready(done) == {i \in all \ done : deps[i] \subseteq done}
           F(f) == [done \in D |->
                      IF done = all THEN <<>>
                      ELSE IF Ready(done) = {} THEN Serially(all \ done)
                      ELSE Batches(steps, Ready(done)) \o f[done \cup Ready(done)]]
           W == CHOOSE f : f = F(f)
           rank == [d \in D |-> Cardinality(all \ d)]
           stop == {d \in D : d = all \/ Ready(d) = {}}
           base == [d \in D |-> IF d = all THEN <<>> ELSE Serially(all \ d)]
           pre == [d \in D |-> Batches(steps, Ready(d))]
           next == [d \in D |-> d \cup Ready(d)]
<1>1. BuildExecutionWaves(steps, deps) = W[{}]
  BY DEF BuildExecutionWaves
<1>2. IsFiniteSet(all) /\ Cardinality(all) = n
  BY FS_Interval
<1>3. \A d \in D : IsFiniteSet(all \ d) /\ Cardinality(all \ d) \in Nat /\ Cardinality(all \ d) <= n
  <2> SUFFICES ASSUME NEW d \in D
               PROVE  IsFiniteSet(all \ d) /\ Cardinality(all \ d) \in Nat /\ Cardinality(all \ d) <= n
    OBVIOUS
  <2>1. all \ d \subseteq all
    OBVIOUS
  <2> QED BY <1>2, <2>1, FS_Subset, FS_CardinalityType
<1>4. ASSUME NEW d \in D, Ready(d) # {}
      PROVE  /\ d \cup Ready(d) \in D
             /\ Cardinality(all \ (d \cup Ready(d))) < Cardinality(all \ d)
  <2> DEFINE e == d \cup Ready(d)
  <2>1. e \in D /\ all \ e \subseteq all \ d /\ all \ e # all \ d
    BY <1>4
  <2>2. Cardinality(all \ e) <= Cardinality(all \ d)
    BY <1>3, <2>1, FS_Subset
  <2>3. Cardinality(all \ e) # Cardinality(all \ d)
    BY <1>3, <2>1, FS_Subset
  <2> HIDE DEF e
  <2>4. Cardinality(all \ e) < Cardinality(all \ d)
    <3>1. Cardinality(all \ e) \in Nat /\ Cardinality(all \ d) \in Nat
      BY <1>3, <2>1
    <3> HIDE DEF all
    <3> QED BY <2>2, <2>3, <3>1
  <2> QED BY <2>1, <2>4 DEF e
<1> HIDE DEF all, Ready
<1>5. rank \in [D -> Nat] /\ \A d \in D : rank[d] <= n
  BY <1>3
<1>6. \A d \in D : d \notin stop => next[d] \in D /\ rank[next[d]] < rank[d]
  BY <1>4
<1>7. \E f : IsChain(f, D, stop, base, pre, next)
  <2> HIDE DEF D, rank, stop, base, pre, next
  <2>1. Nearing(D, rank, n, stop, next)
    BY <1>5, <1>6 DEF Nearing
  <2> QED BY <2>1, ChainDefined
<1>8. \E f : f = F(f)
  <2>1. PICK f : f = [d \in D |-> IF d \in stop THEN base[d] ELSE pre[d] \o f[next[d]]]
    BY <1>7 DEF IsChain
  <2>2. \A d \in D : (IF d \in stop THEN base[d] ELSE pre[d] \o f[next[d]]) =
                     IF d = all THEN <<>>
                     ELSE IF Ready(d) = {} THEN Serially(all \ d)
                     ELSE Batches(steps, Ready(d)) \o f[d \cup Ready(d)]
    OBVIOUS
  <2> HIDE DEF stop, base, pre, next
  <2>3. f = F(f)
    BY <2>1, <2>2
  <2> QED BY <2>3
<1>9. W = F(W)
  BY <1>8
<1> HIDE DEF W
<1> DEFINE T == {rank[d] : d \in {c \in D : ~ InTurn(W[c], all \ c, steps, deps)}}
<1>10. T = {}
  <2> SUFFICES ASSUME T # {} PROVE FALSE
    OBVIOUS
  <2>1. T \subseteq Nat
    BY <1>5
  <2>2. PICK r \in T : \A k \in T : r <= k
    <3> HIDE DEF T
    <3> QED BY <2>1, LeastOf
  <2>3. PICK d \in D : r = rank[d] /\ ~ InTurn(W[d], all \ d, steps, deps)
    OBVIOUS
  <2>4. CASE d = all
    <3>1. W[d] = <<>> /\ all \ d = {}
      BY <1>9, <2>4
    <3>2. InTurn(<<>>, {}, steps, deps)
      <4>1. <<>> \in Seq(SUBSET {}) /\ Len(<<>>) = 0
        OBVIOUS
      <4>2. \A k \in 1 .. Len(<<>>) : FALSE
        BY <4>1
      <4> QED BY <4>1, <4>2 DEF InTurn
    <3> QED BY <2>3, <3>1, <3>2
  <2>5. CASE d # all
    <3>1. Ready(d) # {}
      <4>1. PICK i \in all \ d : deps[i] \cap (all \ d) = {}
        <5>1. all \ d # {} /\ all \ d \in SUBSET DOMAIN deps
          BY <2>5 DEF all
        <5> QED BY <5>1 DEF Acyclic
      <4>2. deps[i] \subseteq all
        BY DEF all
      <4>3. i \in Ready(d)
        BY <4>1, <4>2 DEF Ready
      <4> QED BY <4>3
    <3> DEFINE e == d \cup Ready(d)
    <3>2. e \in D /\ rank[e] < rank[d]
      BY <1>4, <3>1
    <3>3. W[d] = Batches(steps, Ready(d)) \o W[e]
      BY <1>9, <2>5, <3>1
    <3>4. InTurn(W[e], all \ e, steps, deps)
      <4> SUFFICES ASSUME ~ InTurn(W[e], all \ e, steps, deps) PROVE FALSE
        OBVIOUS
      <4>1. rank[e] \in T
        BY <3>2
      <4>2. rank[d] <= rank[e] /\ rank[d] \in Nat /\ rank[e] \in Nat
        <5> HIDE DEF rank, T, e
        <5> QED BY <1>5, <2>2, <2>3, <3>2, <4>1
      <4> QED BY <3>2, <4>2
    <3>5. /\ d \subseteq 1 .. n /\ Ready(d) \subseteq (1 .. n) \ d
          /\ \A i \in Ready(d) : deps[i] \subseteq d
      BY DEF all, Ready
    <3>6. InTurn(Batches(steps, Ready(d)) \o W[e], (1 .. n) \ d, steps, deps)
      <4>1. InTurn(W[e], (1 .. n) \ (d \cup Ready(d)), steps, deps)
        BY <3>4 DEF all
      <4> HIDE DEF e
      <4> QED BY <3>5, <4>1, TurnsJoin
    <3> QED BY <2>3, <3>3, <3>6 DEF all
  <2> QED BY <2>4, <2>5
<1>11. InTurn(W[{}], all \ {}, steps, deps)
  BY <1>10
<1>12. all \ {} = 1 .. n
  BY DEF all
<1> QED BY <1>1, <1>11, <1>12

(* What the executor waits for is in the plan.                             *)
LEMMA DependenciesInPlan ==
    ASSUME NEW n \in Nat, NEW p, DOMAIN p = 1 .. n
    PROVE  /\ DOMAIN InferDependencies(p) = 1 .. n
           /\ \A i \in 1 .. n : InferDependencies(p)[i] \subseteq 1 .. n
<1>1. DOMAIN InferDependencies(p) = 1 .. n
  BY DEF InferDependencies
<1>2. ASSUME NEW i \in 1 .. n
      PROVE  InferDependencies(p)[i] \subseteq 1 .. n
  <2> DEFINE explicit == (p[i].deps \cap DOMAIN p) \ {i}
             Prior(ks) == {j \in 1 .. i - 1 : p[j].kind \in ks}
             last == IF i > 1 THEN {i - 1} ELSE {}
             same == {j \in Prior({"retrieve"}) : p[i].query # NoQuery /\ p[j].query = p[i].query}
             d == InferDependencies(p)[i]
  <2>1. d = IF explicit # {} THEN explicit
            ELSE IF p[i].kind \in {"answer", "verify"}
            THEN IF Prior({"retrieve", "skill", "tool"}) # {}
                 THEN Prior({"retrieve", "skill", "tool"}) ELSE last
            ELSE IF p[i].kind \in {"skill", "tool"}
            THEN IF Prior({"retrieve"}) # {} THEN Prior({"retrieve"}) ELSE last
            ELSE IF same # {} THEN {Min(same)}
            ELSE IF p[i].query = NoQuery /\ Prior({"retrieve"}) # {}
            THEN {Max(Prior({"retrieve"}))}
            ELSE {}
    BY DEF InferDependencies
  <2>2. 1 .. i - 1 \subseteq 1 .. n /\ last \subseteq 1 .. n /\ explicit \subseteq 1 .. n
    OBVIOUS
  <2>3. \A ks : Prior(ks) \subseteq 1 .. n
    BY <2>2
  <2>4. same # {} => Min(same) \in same
    <3>1. same \subseteq Nat
      BY <2>3
    <3> HIDE DEF same
    <3> QED BY <3>1, LeastOf
  <2>5. same \subseteq 1 .. n
    BY <2>3
  <2>6. Prior({"retrieve"}) # {} => Max(Prior({"retrieve"})) \in Prior({"retrieve"})
    <3> HIDE DEF Prior
    <3> QED BY <2>3, GreatestOf
  <2> HIDE DEF explicit, Prior, last, same, d
  <2>7. d \subseteq 1 .. n
    <3>1. CASE explicit # {}
      BY <2>1, <2>2, <3>1
    <3>2. CASE explicit = {} /\ p[i].kind \in {"answer", "verify"}
      BY <2>1, <2>2, <2>3, <3>2
    <3>3. CASE /\ explicit = {} /\ p[i].kind \notin {"answer", "verify"}
               /\ p[i].kind \in {"skill", "tool"}
      BY <2>1, <2>2, <2>3, <3>3
    <3>4. CASE /\ explicit = {} /\ p[i].kind \notin {"answer", "verify"}
               /\ p[i].kind \notin {"skill", "tool"}
      <4>1. CASE same # {}
        BY <2>1, <2>4, <2>5, <3>4, <4>1
      <4>2. CASE same = {} /\ p[i].query = NoQuery /\ Prior({"retrieve"}) # {}
        BY <2>1, <2>3, <2>6, <3>4, <4>2
      <4>3. CASE same = {} /\ ~ (p[i].query = NoQuery /\ Prior({"retrieve"}) # {})
        BY <2>1, <3>4, <4>3
      <4> QED BY <4>1, <4>2, <4>3
    <3> QED BY <3>1, <3>2, <3>3, <3>4
  <2> QED BY <2>7 DEF d
<1> QED BY <1>1, <1>2

(* The dependencies do not change with the statuses of the steps.          *)
LEMMA SameDependencies ==
    ASSUME NEW n \in Nat, NEW p, NEW q, DOMAIN p = 1 .. n, DOMAIN q = 1 .. n,
           \A i \in 1 .. n : /\ p[i].kind = q[i].kind /\ p[i].query = q[i].query
                             /\ p[i].deps = q[i].deps
    PROVE  InferDependencies(p) = InferDependencies(q)
<1>1. ASSUME NEW i \in 1 .. n
      PROVE  InferDependencies(p)[i] = InferDependencies(q)[i]
  <2>1. \A j \in 1 .. i - 1 : j \in 1 .. n
    OBVIOUS
  <2>2. \A ks : {j \in 1 .. i - 1 : p[j].kind \in ks} = {j \in 1 .. i - 1 : q[j].kind \in ks}
    BY <2>1
  <2>3. {j \in {j \in 1 .. i - 1 : p[j].kind \in {"retrieve"}} :
            p[i].query # NoQuery /\ p[j].query = p[i].query} =
        {j \in {j \in 1 .. i - 1 : q[j].kind \in {"retrieve"}} :
            q[i].query # NoQuery /\ q[j].query = q[i].query}
    BY <2>1
  <2>4. p[i].kind = q[i].kind /\ p[i].query = q[i].query /\ p[i].deps = q[i].deps
    OBVIOUS
  <2> QED BY <2>2, <2>3, <2>4 DEF InferDependencies
<1>2. /\ InferDependencies(p) = [i \in 1 .. n |-> InferDependencies(p)[i]]
      /\ InferDependencies(q) = [i \in 1 .. n |-> InferDependencies(q)[i]]
  BY DEF InferDependencies
<1> QED BY <1>1, <1>2
-----------------------------------------------------------------------------
(* The waves that are still to run.                                        *)

PlanSized == \E n \in Nat : DOMAIN plan = 1 .. n

(* Every step that has not ended is in a wave still to run, and none of    *)
(* the waves from a step's own on holds a step that it depends on.         *)
WavesOK ==
    pc \in {"wave", "running"} /\ Acyclic(InferDependencies(plan)) =>
        /\ pc = "running" => waves # <<>>
        /\ waves \in Seq(SUBSET DOMAIN plan)
        /\ \A i \in DOMAIN plan : plan[i].status \in {"pending", "running"} =>
              \E k \in 1 .. Len(waves) : i \in waves[k]
        /\ \A k \in 1 .. Len(waves) : \A i \in waves[k] :
              /\ plan[i].kind \notin Parallelizable => waves[k] = {i}
              /\ \A m \in k .. Len(waves) : InferDependencies(plan)[i] \cap waves[m] = {}

ExecutorInv == PlanSized /\ WavesOK

LEMMA NewPlanSized ==
    ASSUME NEW p \in Seq(NewSteps)
    PROVE  \E n \in Nat : DOMAIN p = 1 .. n
OBVIOUS

LEMMA ExecutorInit == TurnInit => ExecutorInv
<1> SUFFICES ASSUME TurnInit PROVE ExecutorInv
  OBVIOUS
<1>1. plan \in Seq(NewSteps)
  <2>1. CASE plan = <<>>
    BY <2>1, EmptySeq
  <2>2. CASE \E skill \in BOOLEAN : plan \in GeneratePlanOptions(Question, skill)
    BY <2>2, TurnAssumption, OptionsAreNew
  <2> QED BY <2>1, <2>2 DEF TurnInit
<1>2. PlanSized
  BY <1>1, NewPlanSized DEF PlanSized
<1>3. pc \notin {"wave", "running"}
  BY DEF TurnInit
<1> QED BY <1>2, <1>3 DEF ExecutorInv, WavesOK

(* Setting statuses of steps keeps the dependencies.                       *)
LEMMA StatusesMove ==
    ASSUME PlanOK, PlanSized, DOMAIN plan' = DOMAIN plan,
           \A i \in DOMAIN plan : \/ plan'[i] = plan[i]
                                  \/ \E s : plan'[i] = [plan[i] EXCEPT !.status = s]
    PROVE  /\ PlanSized' /\ InferDependencies(plan)' = InferDependencies(plan)
           /\ \A i \in DOMAIN plan : plan'[i].kind = plan[i].kind
<1>1. PICK n \in Nat : DOMAIN plan = 1 .. n
  BY DEF PlanSized
<1>2. ASSUME NEW i \in DOMAIN plan
      PROVE  /\ plan'[i].kind = plan[i].kind /\ plan'[i].query = plan[i].query
             /\ plan'[i].deps = plan[i].deps
  <2>1. DOMAIN plan[i] = {"kind", "query", "deps", "status"}
    BY DEF PlanOK, StepOK, StepFields
  <2>2. ASSUME NEW s, plan'[i] = [plan[i] EXCEPT !.status = s]
        PROVE  /\ plan'[i].kind = plan[i].kind /\ plan'[i].query = plan[i].query
               /\ plan'[i].deps = plan[i].deps
    BY <2>1, <2>2
  <2> QED BY <2>2
<1>3. InferDependencies(plan') = InferDependencies(plan)
  BY <1>1, <1>2, SameDependencies
<1> QED BY <1>1, <1>2, <1>3 DEF PlanSized

LEMMA ExecuteWaves ==
    ASSUME PipelineInv, ExecutorInv, Execute
    PROVE  ExecutorInv'
<1>1. CASE ~ route.l2
  <2>1. pc' = "retrieve" /\ DOMAIN plan' = DOMAIN plan
    BY <1>1, SetKindDomain DEF Execute
  <2> QED BY <2>1 DEF ExecutorInv, PlanSized, WavesOK
<1>2. CASE route.l2
  <2>1. /\ pc' = "wave" /\ plan' = plan
        /\ waves' = BuildExecutionWaves(plan, InferDependencies(plan))
    BY <1>2 DEF Execute
  <2>2. PICK n \in Nat : DOMAIN plan = 1 .. n
    BY DEF ExecutorInv, PlanSized
  <2>3. ASSUME Acyclic(InferDependencies(plan))
        PROVE  InTurn(waves', DOMAIN plan, plan, InferDependencies(plan))
    BY <2>1, <2>2, <2>3, DependenciesInPlan, WavesInTurn
  <2>4. PlanSized'
    BY <2>1, <2>2 DEF PlanSized
  <2>5. WavesOK'
    <3> SUFFICES ASSUME Acyclic(InferDependencies(plan))
                 PROVE  /\ waves' \in Seq(SUBSET DOMAIN plan)
                        /\ \A i \in DOMAIN plan : \E k \in 1 .. Len(waves') : i \in waves'[k]
                        /\ \A k \in 1 .. Len(waves') : \A i \in waves'[k] :
                              /\ plan[i].kind \notin Parallelizable => waves'[k] = {i}
                              /\ \A m \in k .. Len(waves') :
                                    InferDependencies(plan)[i] \cap waves'[m] = {}
      BY <2>1 DEF WavesOK
    <3> QED BY <2>3 DEF InTurn
  <2> QED BY <2>4, <2>5 DEF ExecutorInv
<1> QED BY <1>1, <1>2

LEMMA StartWaveWaves ==
    ASSUME PipelineInv, ExecutorInv, StartWave
    PROVE  ExecutorInv'
<1>1. /\ PlanOK /\ pc = "wave" /\ pc' = "running" /\ waves # <<>> /\ waves' = waves
      /\ DOMAIN plan' = DOMAIN plan
      /\ \A i \in DOMAIN plan : plan'[i] = IF i \in Head(waves)
                                           THEN [plan[i] EXCEPT !.status = "running"] ELSE plan[i]
  BY DEF StartWave, PipelineInv
<1>2. /\ PlanSized' /\ InferDependencies(plan)' = InferDependencies(plan)
      /\ \A i \in DOMAIN plan : plan'[i].kind = plan[i].kind
  BY <1>1, StatusesMove DEF ExecutorInv
<1>3. WavesOK'
  <2> SUFFICES ASSUME Acyclic(InferDependencies(plan))
               PROVE  /\ waves \in Seq(SUBSET DOMAIN plan)
                      /\ \A i \in DOMAIN plan : plan'[i].status \in {"pending", "running"} =>
                            \E k \in 1 .. Len(waves) : i \in waves[k]
                      /\ \A k \in 1 .. Len(waves) : \A i \in waves[k] :
                            /\ plan'[i].kind \notin Parallelizable => waves[k] = {i}
                            /\ \A m \in k .. Len(waves) :
                                  InferDependencies(plan)[i] \cap waves[m] = {}
    BY <1>1, <1>2 DEF WavesOK
  <2>1. /\ waves \in Seq(SUBSET DOMAIN plan)
        /\ \A i \in DOMAIN plan : plan[i].status \in {"pending", "running"} =>
              \E k \in 1 .. Len(waves) : i \in waves[k]
        /\ \A k \in 1 .. Len(waves) : \A i \in waves[k] :
              /\ plan[i].kind \notin Parallelizable => waves[k] = {i}
              /\ \A m \in k .. Len(waves) : InferDependencies(plan)[i] \cap waves[m] = {}
    BY <1>1 DEF ExecutorInv, WavesOK
  <2>2. Head(waves) = waves[1] /\ 1 \in 1 .. Len(waves)
    BY <1>1, <2>1
  <2>3. ASSUME NEW i \in DOMAIN plan, plan'[i].status \in {"pending", "running"}
        PROVE  \E k \in 1 .. Len(waves) : i \in waves[k]
    <3>1. CASE i \in Head(waves)
      BY <2>2, <3>1
    <3>2. CASE i \notin Head(waves)
      BY <1>1, <2>1, <2>3, <3>2
    <3> QED BY <3>1, <3>2
  <2>4. \A k \in 1 .. Len(waves) : waves[k] \subseteq DOMAIN plan
    BY <2>1
  <2> QED BY <1>2, <2>1, <2>3, <2>4
<1> QED BY <1>2, <1>3 DEF ExecutorInv

LEMMA EndWaveWaves ==
    ASSUME PipelineInv, ExecutorInv, EndWave
    PROVE  ExecutorInv'
<1>1. /\ PlanOK /\ pc = "running" /\ waves' = Tail(waves)
      /\ pc' = IF Tail(waves) = <<>> THEN "answer" ELSE "wave"
      /\ DOMAIN plan' = DOMAIN plan
      /\ \A i \in DOMAIN plan : plan'[i] = IF i \in Head(waves)
                                THEN [plan[i] EXCEPT !.status = flight[i].status] ELSE plan[i]
  BY DEF EndWave, PipelineInv
<1>2. /\ PlanSized' /\ InferDependencies(plan)' = InferDependencies(plan)
      /\ \A i \in DOMAIN plan : plan'[i].kind = plan[i].kind
  BY <1>1, StatusesMove DEF ExecutorInv
<1>3. \A i \in DOMAIN plan : i \in Head(waves) => plan'[i].status \notin {"pending", "running"}
  <2> SUFFICES ASSUME NEW i \in DOMAIN plan, i \in Head(waves)
               PROVE  plan'[i].status \notin {"pending", "running"}
    OBVIOUS
  <2>1. DOMAIN plan[i] = StepFields
    BY <1>1 DEF PlanOK, StepOK
  <2>2. plan'[i].status = flight[i].status
    BY <1>1, <2>1 DEF StepFields
  <2>3. flight[i].status \in {"success", "skipped", "error"}
    BY <1>1 DEF EndWave, PipelineInv, FlightOK
  <2> QED BY <2>2, <2>3
<1>4. WavesOK'
  <2> DEFINE t == Tail(waves)
  <2> SUFFICES ASSUME Acyclic(InferDependencies(plan))
               PROVE  /\ t \in Seq(SUBSET DOMAIN plan)
                      /\ \A i \in DOMAIN plan : plan'[i].status \in {"pending", "running"} =>
                            \E k \in 1 .. Len(t) : i \in t[k]
                      /\ \A k \in 1 .. Len(t) : \A i \in t[k] :
                            /\ plan'[i].kind \notin Parallelizable => t[k] = {i}
                            /\ \A m \in k .. Len(t) :
                                  InferDependencies(plan)[i] \cap t[m] = {}
    BY <1>1, <1>2 DEF WavesOK
  <2>1. /\ waves \in Seq(SUBSET DOMAIN plan) /\ waves # <<>>
        /\ \A i \in DOMAIN plan : plan[i].status \in {"pending", "running"} =>
              \E k \in 1 .. Len(waves) : i \in waves[k]
        /\ \A k \in 1 .. Len(waves) : \A i \in waves[k] :
              /\ plan[i].kind \notin Parallelizable => waves[k] = {i}
              /\ \A m \in k .. Len(waves) : InferDependencies(plan)[i] \cap waves[m] = {}
    BY <1>1 DEF ExecutorInv, WavesOK
  <2>2. /\ Head(waves) = waves[1] /\ t \in Seq(SUBSET DOMAIN plan) /\ Len(t) = Len(waves) - 1
        /\ Len(waves) \in Nat /\ \A k \in 1 .. Len(t) : t[k] = waves[k + 1]
    BY <2>1
  <2> HIDE DEF t
  <2>3. ASSUME NEW i \in DOMAIN plan, plan'[i].status \in {"pending", "running"}
        PROVE  \E k \in 1 .. Len(t) : i \in t[k]
    <3>1. i \notin waves[1] /\ plan[i].status \in {"pending", "running"}
      BY <1>1, <1>3, <2>2, <2>3
    <3>2. PICK k \in 1 .. Len(waves) : i \in waves[k]
      BY <2>1, <3>1
    <3>3. k - 1 \in 1 .. Len(t) /\ (k - 1) + 1 = k
      BY <2>2, <3>1, <3>2
    <3> QED BY <2>2, <3>2, <3>3
  <2>4. ASSUME NEW k \in 1 .. Len(t), NEW i \in t[k]
        PROVE  /\ plan'[i].kind \notin Parallelizable => t[k] = {i}
               /\ \A m \in k .. Len(t) : InferDependencies(plan)[i] \cap t[m] = {}
    <3>1. k + 1 \in 1 .. Len(waves) /\ t[k] = waves[k + 1]
      BY <2>2
    <3>2. i \in DOMAIN plan /\ plan'[i].kind = plan[i].kind
      BY <1>2, <2>2, <2>4
    <3>3. ASSUME NEW m \in k .. Len(t)
          PROVE  InferDependencies(plan)[i] \cap t[m] = {}
      <4>1. m + 1 \in k + 1 .. Len(waves) /\ m \in 1 .. Len(t)
        BY <2>2
      <4>2. t[m] = waves[m + 1]
        BY <2>2, <4>1
      <4> QED BY <2>1, <2>4, <3>1, <4>1, <4>2
    <3> QED BY <2>1, <2>4, <3>1, <3>2, <3>3
  <2> QED BY <2>2, <2>3, <2>4
<1> QED BY <1>2, <1>4 DEF ExecutorInv

(* The other stages keep the plan's size and run no wave, or change        *)
(* neither the plan nor the waves.                                         *)
LEMMA ElsewhereWaves ==
    ASSUME ExecutorInv,
           \/ UNCHANGED <<pc, plan, waves>>
           \/ /\ pc' \notin {"wave", "running"}
              /\ DOMAIN plan' = DOMAIN plan \/ plan' \in Seq(NewSteps)
    PROVE  ExecutorInv'
<1>1. CASE UNCHANGED <<pc, plan, waves>>
  BY <1>1 DEF ExecutorInv, PlanSized, WavesOK
<1>2. CASE pc' \notin {"wave", "running"} /\ DOMAIN plan' = DOMAIN plan
  BY <1>2 DEF ExecutorInv, PlanSized, WavesOK
<1>3. CASE pc' \notin {"wave", "running"} /\ plan' \in Seq(NewSteps)
  BY <1>3, NewPlanSized DEF ExecutorInv, PlanSized, WavesOK
<1> QED BY <1>1, <1>2, <1>3

LEMMA StagesWaves ==
    ASSUME PipelineInv, ExecutorInv, Stages
    PROVE  ExecutorInv'
<1>1. CASE Route \/ BranchTot
  <2>1. plan' = plan \/ plan' \in Seq(NewSteps)
    BY <1>1, RoutePlans, BranchPlans DEF PipelineInv
  <2>2. pc' \notin {"wave", "running"}
    BY <1>1, RoutePlans DEF BranchTot
  <2> QED BY <2>1, <2>2, ElsewhereWaves
<1>2. CASE Retrieve \/ Skills
  <2>1. DOMAIN plan' = DOMAIN plan
    BY <1>2, SetKindDomain DEF Retrieve, Retrieved, Raise, Skills
  <2>2. pc' \notin {"wave", "running"}
    BY <1>2 DEF Retrieve, Retrieved, Raise, Skills
  <2> QED BY <2>1, <2>2, ElsewhereWaves
<1>3. ASSUME NEW i \in DOMAIN plan, StepRetrieve(i) \/ StepRetrieved(i) \/ StepLocal(i)
      PROVE  ExecutorInv'
  <2>1. \/ UNCHANGED <<pc, plan, waves>>
        \/ pc' = "done" /\ UNCHANGED plan
    BY <1>3 DEF StepRetrieve, StepRetrieved, StepLocal, Raise, flightless
  <2> QED BY <2>1, ElsewhereWaves
<1>4. CASE AnswerWithoutEvidence \/ AnswerText \/ ToolRound
  <2>1. DOMAIN plan' = DOMAIN plan
    BY <1>4, SetKindDomain DEF AnswerWithoutEvidence, AnswerText, ToolRound, Answered, Raise
  <2>2. pc' \notin {"wave", "running"}
    BY <1>4 DEF AnswerWithoutEvidence, AnswerText, ToolRound, Answered, Raise
  <2> QED BY <2>1, <2>2, ElsewhereWaves
<1>5. CASE SkipReflection \/ Critique \/ Improve \/ Revise
  <2>1. pc' \notin {"wave", "running"} /\ plan' = plan
    BY <1>5 DEF SkipReflection, Critique, Improve, Revise
  <2> QED BY <2>1, ElsewhereWaves
<1>6. CASE Comply \/ Release
  <2>1. DOMAIN plan' = DOMAIN plan
    BY <1>6, SetKindDomain DEF Comply, Release
  <2>2. pc' \notin {"wave", "running"}
    BY <1>6 DEF Comply, Release
  <2> QED BY <2>1, <2>2, ElsewhereWaves
<1> QED BY <1>1, <1>2, <1>3, <1>4, <1>5, <1>6, ExecuteWaves, StartWaveWaves, EndWaveWaves
        DEF Stages

(* PlanExecutor: whatever plan the router, the model or the user wrote, if *)
(* its dependencies can be met at all a step runs only after every step it *)
(* depends on has ended, and verify, answer and tool steps run alone.      *)
THEOREM StepsTakeTurns == Spec => []StepsWaitTheirTurn
<1>1. PipelineInv /\ ExecutorInv /\ [Next]_vars => ExecutorInv'
  <2> SUFFICES ASSUME PipelineInv, ExecutorInv, [Next]_vars
               PROVE  ExecutorInv'
    OBVIOUS
  <2>1. CASE Stages
    BY <2>1, StagesWaves
  <2>2. CASE Timeout
    BY <2>2, ElsewhereWaves DEF Timeout, Raise
  <2>3. CASE Finished \/ UNCHANGED vars
    BY <2>3, ElsewhereWaves DEF Finished, vars
  <2> QED BY <2>1, <2>2, <2>3 DEF Next
<1>2. PipelineInv /\ ExecutorInv => StepsWaitTheirTurn
  <2> SUFFICES ASSUME PipelineInv, ExecutorInv, pc = "running",
                      Acyclic(InferDependencies(plan)), NEW i \in Head(waves)
               PROVE  /\ \A d \in InferDependencies(plan)[i] :
                            plan[d].status \notin {"pending", "running"}
                      /\ plan[i].kind \notin Parallelizable => Head(waves) = {i}
    BY DEF StepsWaitTheirTurn
  <2>1. /\ waves \in Seq(SUBSET DOMAIN plan) /\ waves # <<>>
        /\ \A j \in DOMAIN plan : plan[j].status \in {"pending", "running"} =>
              \E k \in 1 .. Len(waves) : j \in waves[k]
        /\ \A k \in 1 .. Len(waves) : \A j \in waves[k] :
              /\ plan[j].kind \notin Parallelizable => waves[k] = {j}
              /\ \A m \in k .. Len(waves) : InferDependencies(plan)[j] \cap waves[m] = {}
    BY DEF ExecutorInv, WavesOK
  <2>2. Head(waves) = waves[1] /\ 1 \in 1 .. Len(waves) /\ i \in waves[1] /\ i \in DOMAIN plan
    BY <2>1
  <2>3. PICK n \in Nat : DOMAIN plan = 1 .. n
    BY DEF ExecutorInv, PlanSized
  <2>4. ASSUME NEW d \in InferDependencies(plan)[i]
        PROVE  plan[d].status \notin {"pending", "running"}
    <3>1. d \in DOMAIN plan
      BY <2>2, <2>3, DependenciesInPlan
    <3>2. \A m \in 1 .. Len(waves) : d \notin waves[m]
      BY <2>1, <2>2
    <3> QED BY <2>1, <3>1, <3>2
  <2> QED BY <2>1, <2>2, <2>4
<1> QED BY <1>1, <1>2, ExecutorInit, PipelineInvariant, PTL DEF Spec

=============================================================================
