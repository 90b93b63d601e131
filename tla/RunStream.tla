------------------------------ MODULE RunStream ------------------------------
(***************************************************************************)
(* The event stream of a run (backend/app/sse/, GET /api/v2/runs/{id}/     *)
(* events) over the durable job behind it.  A worker announces what it has *)
(* just written to the job row, as a separate and best-effort step, on a   *)
(* bounded and expiring Redis stream.  A client replays what is retained   *)
(* after the last id it holds, then follows the stream live, and comes     *)
(* back with its Last-Event-ID whenever the connection breaks.             *)
(*                                                                         *)
(* Stream ids are the positions of the entries: what matters is that they  *)
(* grow.  Milestones of a durable graph run have ids of another kind.      *)
(***************************************************************************)
EXTENDS JobLife, AgentGraph, FiniteSets, FiniteSetsExt

CONSTANTS Local,        \* the owners that are in-process drains: no cancel poll
          MaxEvents,    \* max_events: entries the stream retains
          MaxConnects,  \* bound: connections the client opens
          Durable       \* an id "d<sequence>" of a milestone

ASSUME StreamAssumption ==
    /\ Local \subseteq Owners
    /\ MaxEvents \in Nat \ {0} /\ MaxConnects \in Nat
    /\ Durable \notin Nat

VARIABLES
    worker,      \* where every worker is with its attempt at the job
    log,         \* every entry ever added to the stream, by id
    first,       \* the earliest id retained; beyond the log when none is
    announcing,  \* the event a worker is about to publish
    agentRun,    \* the committed agent_runs row of a graph run, and its events
    conn,        \* the client's connection
    client,      \* what the client received
    connects     \* connections opened so far

jobVars == <<lifeVars, worker>>
connVars == <<conn, client, connects>>
vars == <<jobVars, log, first, announcing, agentRun, connVars>>

-----------------------------------------------------------------------------
RunEvents == {"started", "succeeded", "failed", "cancelled"}
TerminalEvents == RunEvents \ {"started"}

(* JOB_STATE_TO_RUN_EVENT.                                                 *)
RunEventOf(s) == IF s = "terminal_failed" THEN "failed" ELSE s

Retained == first .. Len(log)

(* A connection: the Last-Event-ID it came with, whether the job could     *)
(* still emit when the route read it, the ids read and not yet sent, the   *)
(* id it follows the stream from, whether that is "$" instead, and the id  *)
(* a blocking read waits beyond.                                           *)
ConnPoints == {"none", "replay", "gapcheck", "snapshot", "emit", "tail", "blocked",
               "deliver", "closed", "broken"}

Conn == [pc : ConnPoints, after : Nat \cup {Durable}, live : BOOLEAN,
         buf : SUBSET Nat, last : Nat, dollar : BOOLEAN, wait : Nat]

NoConn == [pc |-> "none", after |-> 0, live |-> FALSE, buf |-> {}, last |-> 0,
           dollar |-> FALSE, wait |-> 0]

(* The client: its Last-Event-ID, the ids it was sent, the ids it was told *)
(* to recover from a snapshot, and those lost with no connection at fault. *)
Client == [last : Nat \cup {Durable}, seen : SUBSET Nat, told : BOOLEAN,
           excused : SUBSET Nat]

-----------------------------------------------------------------------------
(* The producer.                                                           *)

(* LocalJobRunner._run_one.  A worker takes the job from its lease to the  *)
(* write that ends its attempt; the write and its announcement are two     *)
(* steps, and a worker that is announcing does nothing else.  One that     *)
(* lost its lease goes on until a write of its own is refused.             *)

At(w, pc) == worker[w] = pc /\ announcing[w] = "none"

Moves(w, pc, event) ==
    /\ worker' = [worker EXCEPT ![w] = pc]
    /\ announcing' = [announcing EXCEPT ![w] = event]
    /\ UNCHANGED <<log, first, agentRun, connVars>>

Lease(w) ==
    /\ At(w, "idle")
    /\ Leased(w)
    /\ Moves(w, "start", "none")

(* start, then run.started; a refused start ends in a refused fail.        *)
Start(w) ==
    /\ At(w, "start")
    /\ \/ Started(w) /\ Moves(w, "handler", "started")
       \/ ~ (state = "leased" /\ owner = w) /\ Moves(w, "fail", "none") /\ UNCHANGED lifeVars

(* The handler of the job's kind returns or raises.                        *)
HandlerEnds(w) ==
    /\ At(w, "handler")
    /\ \/ Moves(w, IF w \notin Local /\ state = "cancel_requested" THEN "cancel" ELSE "complete", "none")
       \/ Moves(w, "fail", "none")
    /\ UNCHANGED lifeVars

(* The poll of _run_with_cancellation.                                     *)
ObserveCancel(w) ==
    /\ At(w, "handler") /\ w \notin Local /\ state = "cancel_requested"
    /\ Moves(w, "cancel", "none")
    /\ UNCHANGED lifeVars

(* Not the code: success is announced whatever complete answered.          *)
CompleteUnchecked(w) ==
    /\ At(w, "complete")
    /\ \/ Completed(w) /\ Moves(w, "idle", "succeeded")
       \/ ~ (state = "running" /\ owner = w) /\ UNCHANGED lifeVars
             /\ Moves(w, "idle", "succeeded")

(* complete, then run.succeeded: also when the job had succeeded already,  *)
(* but not when complete refused.                                          *)
Complete(w) ==
    /\ At(w, "complete")
    /\ \/ Completed(w) /\ Moves(w, "idle", "succeeded")
       \/ ~ (state = "running" /\ owner = w) /\ UNCHANGED lifeVars
             /\ Moves(w, "idle", IF state = "succeeded" THEN "succeeded" ELSE "none")

(* _safe_fail: "only a terminal failure ends the run".                     *)
AnnouncedFailure(outcome) == IF outcome = "terminal_failed" THEN "failed" ELSE "none"

(* fail after a handler that raised, or for a kind without a handler.      *)
Fail(w) ==
    \/ At(w, "fail") /\ Failed(w, Outcome) /\ Moves(w, "idle", AnnouncedFailure(Outcome))
    \/ At(w, "start") /\ Failed(w, "terminal_failed") /\ Moves(w, "idle", AnnouncedFailure("terminal_failed"))
    \/ At(w, "fail") /\ ~ (state \in Held /\ owner = w) /\ UNCHANGED lifeVars /\ Moves(w, "idle", "none")

(* _safe_finalize_cancel swallows a refusal, and run.cancelled follows.    *)
FinalizeCancel(w) ==
    /\ At(w, "cancel")
    /\ Cancelled \/ (state # "cancel_requested" /\ UNCHANGED lifeVars)
    /\ Moves(w, "idle", "cancelled")

Silently == UNCHANGED <<worker, announcing, log, first, agentRun, connVars>>

(* POST /runs and POST /runs/{id}/cancel; the latter is refused once the   *)
(* job is over, and is no second step once it is requested.                *)
CreateRun == Enqueued /\ Silently
CancelRun == CancelRequested /\ Silently

(* A peer's reap of the lease announces nothing, even when it gives the    *)
(* job up.                                                                 *)
Reap == Reaped /\ Silently

(* kill -9, before or after the attempt's last write.                      *)
WorkerDies(w) ==
    /\ worker[w] # "idle" \/ announcing[w] # "none"
    /\ Moves(w, "idle", "none")
    /\ UNCHANGED lifeVars

(* Entries dropped under a connection that is past its gap check and has   *)
(* not read them: the client has no way to learn of these.                 *)
Overrun(newFirst) ==
    IF conn.pc \in {"emit", "tail", "blocked", "deliver"}
      THEN {i \in first .. newFirst - 1 : i > conn.last /\ i \notin conn.buf}
      ELSE {}

Drop(newFirst) ==
    /\ first' = newFirst
    /\ client' = [client EXCEPT !.excused = @ \cup Overrun(newFirst)]

(* RunEventStream.publish: append and trim to the bound, in one command.   *)
PublishEvent(w) ==
    /\ announcing[w] # "none"
    /\ announcing' = [announcing EXCEPT ![w] = "none"]
    /\ log' = Append(log, announcing[w])
    /\ Drop(Max({first, Len(log) + 2 - MaxEvents}))
    /\ UNCHANGED <<jobVars, agentRun, conn, connects>>

(* _publish_lifecycle swallows a failed publish.                           *)
PublishFails(w) ==
    /\ announcing[w] # "none"
    /\ announcing' = [announcing EXCEPT ![w] = "none"]
    /\ UNCHANGED <<jobVars, log, first, agentRun, conn, client, connects>>

(* The stream's TTL passes, or Redis is flushed.                           *)
StreamExpires ==
    /\ Retained # {}
    /\ Drop(Len(log) + 1)
    /\ UNCHANGED <<jobVars, log, announcing, agentRun, conn, connects>>

-----------------------------------------------------------------------------
(* The durable graph run: GraphService.run with a unit of work.  All of it *)
(* is one transaction, so the writes are values and only the last is seen. *)

RunStatuses == {"queued", "running", "waiting_approval", "cancel_requested",
    "cancelled", "succeeded", "recoverable_failed", "terminal_failed", "timed_out"}
TerminalRunStatuses == {"cancelled", "succeeded", "terminal_failed", "timed_out"}

NoAgentRun == [status |-> "none", version |-> 0, events |-> <<>>, gate |-> "none",
               answer |-> "none", cited |-> {}]

(* AgentRunRepository.create.                                              *)
CreateAgentRun == [NoAgentRun EXCEPT !.status = "queued", !.version = 1]

(* AgentRunRepository.set_status: NoAgentRun when it raises.               *)
SetStatus(r, status, version) ==
    IF r.status \in TerminalRunStatuses \/ status \notin RunStatuses \/ r.version # version
      THEN NoAgentRun
      ELSE [r EXCEPT !.status = status, !.version = @ + 1]

SetEvidenceGate(r, gate, version) ==
    IF r.version # version THEN NoAgentRun ELSE [r EXCEPT !.gate = gate, !.version = @ + 1]

SetResultSnapshot(r, answer, version) ==
    IF r.version # version THEN NoAgentRun ELSE [r EXCEPT !.answer = answer, !.version = @ + 1]

(* RunEventRepository.append at the next free sequence number.             *)
AppendMilestone(r, type) == [r EXCEPT !.events = Append(@, type)]

(* The payload of the gate's milestone.                                    *)
CiteEvidence(r, evidence) == [r EXCEPT !.cited = evidence]

(* run(), around the graph's final state g: an exception, of the graph or  *)
(* of a compare-and-set, rolls all of it back.                             *)
GraphTransaction(g) ==
    LET running  == AppendMilestone(SetStatus(CreateAgentRun, "running", 1), "run.created")
        gated    == CiteEvidence(AppendMilestone(SetEvidenceGate(running, g.gate, 2), "evidence.gate"),
                                 g.evidence)
        answered == SetResultSnapshot(gated, g.answer, 3)
        ended    == SetStatus(answered, g.status, 4)
    IN  IF g.raised \/ ended = NoAgentRun
          THEN NoAgentRun
          ELSE AppendMilestone(ended, "run.finalized")

(* What the requests of the model leave behind.                            *)
GraphOutcomes == {GraphTransaction(RunGraph(request)) : request \in Request}

(* Only one agent_runs row may have the run's public id; a request whose   *)
(* run raised may be sent again.                                           *)
GraphRun ==
    /\ agentRun = NoAgentRun
    /\ state # "none"
    /\ agentRun' \in GraphOutcomes
    /\ UNCHANGED <<jobVars, log, first, announcing, conn, client, connects>>

-----------------------------------------------------------------------------
(* The consumer: one SSE connection of one client.                         *)

(* stream_run_events: the job is read once, before anything is streamed.   *)
Connect ==
    /\ conn.pc \in {"none", "closed", "broken"}
    /\ connects < MaxConnects
    /\ state # "none"
    /\ connects' = connects + 1
    /\ conn' = [NoConn EXCEPT !.pc = "replay", !.after = client.last,
                              !.live = state \notin Finished]
    /\ UNCHANGED <<jobVars, log, first, announcing, agentRun, client>>

(* The client goes away, or the network breaks, at any point.              *)
Disconnect ==
    /\ conn.pc \notin {"none", "closed", "broken"}
    /\ conn' = NoConn
    /\ UNCHANGED <<jobVars, log, first, announcing, agentRun, client, connects>>

(* XRANGE and XREAD: entries after an id, itself excluded.                 *)
After(id) == {i \in Retained : i > id}

(* replay: the XRANGE.  "0" starts at the beginning and has no gap; an id  *)
(* that is no stream id is refused by Redis and breaks the connection.     *)
ReplayRead ==
    /\ conn.pc = "replay"
    /\ IF conn.after = Durable
         THEN /\ conn' = [NoConn EXCEPT !.pc = "broken"]
              /\ UNCHANGED client
         ELSE /\ conn' = [conn EXCEPT !.pc = IF conn.after = 0 THEN "emit" ELSE "gapcheck",
                                      !.buf = After(conn.after), !.last = conn.after]
              /\ client' = [client EXCEPT !.excused =
                              IF conn.after = 0 THEN @ \cup 1 .. first - 1 ELSE @]
    /\ UNCHANGED <<jobVars, log, first, announcing, agentRun, connects>>

(* _has_gap: nothing is retained, or only entries after the resume point.  *)
HasGap(id) == Retained = {} \/ first > id

(* replay: the gap check, a second command; a gap is told to the client.   *)
GapCheck ==
    /\ conn.pc = "gapcheck"
    /\ IF HasGap(conn.after)
         THEN /\ conn' = [conn EXCEPT !.pc = "snapshot", !.buf = {}, !.dollar = TRUE]
              /\ client' = [client EXCEPT !.told = TRUE]
         ELSE /\ conn' = [conn EXCEPT !.pc = "emit"]
              /\ UNCHANGED client
    /\ UNCHANGED <<jobVars, log, first, announcing, agentRun, connects>>

(* The durable milestones in place of the backlog; none of their types is  *)
(* a terminal one.                                                         *)
ReadSnapshot ==
    /\ conn.pc = "snapshot"
    /\ conn' = [conn EXCEPT !.pc = IF conn.live THEN "tail" ELSE "closed"]
    /\ client' = [client EXCEPT !.last = IF agentRun.events = <<>> THEN @ ELSE Durable]
    /\ UNCHANGED <<jobVars, log, first, announcing, agentRun, connects>>

(* One frame of what was read is sent; in the tail a terminal event is the *)
(* last one.                                                               *)
EmitFrame ==
    LET i == Min(conn.buf)
    IN  /\ conn.pc \in {"emit", "deliver"} /\ conn.buf # {}
        /\ conn' = IF conn.pc = "deliver" /\ log[i] \in TerminalEvents
                     THEN [NoConn EXCEPT !.pc = "closed"]
                     ELSE [conn EXCEPT !.buf = @ \ {i}, !.last = i]
        /\ client' = [client EXCEPT !.last = i, !.seen = @ \cup {i}]
        /\ UNCHANGED <<jobVars, log, first, announcing, agentRun, connects>>

(* Not the code: the live tail starts at the end of the stream.            *)
HandOffAtEnd == [conn EXCEPT !.pc = "tail", !.dollar = TRUE]

(* Not the code: the live tail starts where the client resumed.            *)
HandOffAtResume == [conn EXCEPT !.pc = "tail", !.last = conn.after]

(* live_tail_factory(start), from the last id replayed.                    *)
HandOff == [conn EXCEPT !.pc = "tail"]

(* The replay is sent: a run whose terminal event was in it, or that was   *)
(* finished when the route read it, is closed; else it is followed live.   *)
ReplayDone ==
    /\ conn.pc = "emit" /\ conn.buf = {}
    /\ conn' = IF conn.live /\ \A i \in client.seen : i > conn.after => log[i] \notin TerminalEvents
                 THEN HandOff
                 ELSE [NoConn EXCEPT !.pc = "closed"]
    /\ UNCHANGED <<jobVars, log, first, announcing, agentRun, client, connects>>

(* tail: an XREAD is issued; "$" means the end of the stream as it is now. *)
TailBlocks ==
    /\ \/ conn.pc = "tail"
       \/ conn.pc = "deliver" /\ conn.buf = {}
    /\ conn' = [conn EXCEPT !.pc = "blocked",
                            !.wait = IF conn.dollar THEN Len(log) ELSE conn.last]
    /\ UNCHANGED <<jobVars, log, first, announcing, agentRun, client, connects>>

(* Entries beyond the id have been there or arrive.                        *)
TailReads ==
    /\ conn.pc = "blocked" /\ After(conn.wait) # {}
    /\ conn' = [conn EXCEPT !.pc = "deliver", !.buf = After(conn.wait), !.wait = 0,
                            !.dollar = FALSE]
    /\ UNCHANGED <<jobVars, log, first, announcing, agentRun, client, connects>>

(* None arrived within block_ms: a heartbeat frame, and the next XREAD.    *)
Heartbeat ==
    /\ conn.pc = "blocked" /\ After(conn.wait) = {}
    /\ conn' = [conn EXCEPT !.pc = "tail", !.wait = 0]
    /\ UNCHANGED <<jobVars, log, first, announcing, agentRun, client, connects>>

-----------------------------------------------------------------------------
StreamInit ==
    /\ LifeInit
    /\ worker = [w \in Owners |-> "idle"]
    /\ log = <<>> /\ first = 1
    /\ announcing = [w \in Owners |-> "none"]
    /\ agentRun = NoAgentRun
    /\ conn = NoConn
    /\ client = [last |-> 0, seen |-> {}, told |-> FALSE, excused |-> {}]
    /\ connects = 0

ConnStep ==
    \/ ReplayRead \/ GapCheck \/ ReadSnapshot \/ EmitFrame \/ ReplayDone
    \/ TailBlocks \/ TailReads \/ Heartbeat

StreamNext ==
    \/ CreateRun \/ CancelRun \/ Reap
    \/ \E w \in Owners :
          \/ Lease(w) \/ Start(w) \/ HandlerEnds(w) \/ ObserveCancel(w)
          \/ Complete(w) \/ Fail(w) \/ FinalizeCancel(w) \/ WorkerDies(w)
          \/ PublishEvent(w) \/ PublishFails(w)
    \/ StreamExpires
    \/ GraphRun
    \/ Connect \/ Disconnect \/ ConnStep

StreamSpec == StreamInit /\ [][StreamNext]_vars

-----------------------------------------------------------------------------
(* Type invariant of the stream and the connection.                        *)
StreamTypeOK ==
    /\ worker \in [Owners -> {"idle", "start", "handler", "complete", "fail", "cancel"}]
    /\ log \in Seq(RunEvents) /\ first \in 1 .. Len(log) + 1
    /\ announcing \in [Owners -> RunEvents \cup {"none"}]
    /\ conn \in Conn
    /\ client \in Client

(* sse/stream.py: a resumed replay reports a gap "rather than skip         *)
(* milestones silently".  Whatever the client has been sent, it was sent   *)
(* everything before it too, or it was told that its resume point is gone, *)
(* or the entry was dropped before its first connection or under one that  *)
(* was already past the gap check.                                         *)
NoSilentGap ==
    client.told \/ \A i \in client.seen : 1 .. i \subseteq client.seen \cup client.excused

(* "The replay->live handoff neither drops nor duplicates an event": ids   *)
(* reach the client in strictly growing order across the replay, the live  *)
(* tail and every reconnection.                                            *)
SentInOrder ==
    [][client'.last \notin {client.last, Durable} =>
          \A k \in client.seen : k < client'.last]_vars

(* A terminal event on the stream names the state the job row ended in,    *)
(* though it is published after the commit, by workers that may have lost  *)
(* their lease meanwhile; and the server ends a connection only when the   *)
(* run is over, so a client that sees the end need not come back.          *)
TerminalEventIsTrue ==
    /\ \A i \in 1 .. Len(log) : log[i] \in TerminalEvents =>
           state \in Finished /\ log[i] = RunEventOf(state)
    /\ conn.pc = "closed" => state \in Finished

(* A graph run that a snapshot can serve is whole: it ended, with all of   *)
(* its milestones, and it answered if and only if it cites policies, all   *)
(* of them relevant and of its own tenant, whatever retrieval returned and *)
(* whichever node raised.                                                  *)
SnapshotIsWhole ==
    agentRun # NoAgentRun =>
        /\ agentRun.status = "succeeded"
        /\ agentRun.events = <<"run.created", "evidence.gate", "run.finalized">>
        /\ (agentRun.answer = "grounded") = (agentRun.cited # {})
        /\ \A c \in Corpus : c.id \in agentRun.cited =>
              c.tenant = Tenant /\ c.source # "memory" /\ c.relevance >= RelevanceThreshold
=============================================================================
