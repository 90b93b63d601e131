----------------------------- MODULE OutboxRelay -----------------------------
(***************************************************************************)
(* OutboxPublisher (backend/app/jobs/publisher.py) under OutboxRelayLoop   *)
(* (relay.py): several relays carry outbox rows to the broker.             *)
(*                                                                         *)
(* A pass claims a batch in one transaction, then publishes the claims one *)
(* after the other and writes each outcome in a session of its own.  An    *)
(* error that escapes the pass (the database, not the transport) abandons  *)
(* what is left of the batch, exactly as a crash of the process does.      *)
(***************************************************************************)
EXTENDS Naturals, FiniteSets

CONSTANTS Events,        \* outbox rows
          Relays,        \* processes running the relay loop
          Null,          \* no event at hand
          BatchSize,     \* rows claimed per pass
          MaxAttempts,   \* failed publishes before a row is dead-lettered
          MaxAborts      \* bound: passes that end abnormally

ASSUME RelayAssumption ==
    /\ Null \notin Events
    /\ BatchSize \in Nat \ {0}
    /\ MaxAttempts \in Nat \ {0}

VARIABLES event,      \* outbox_events
          relay,      \* control state of every relay
          published,  \* how often the broker confirmed an event
          aborts      \* passes that ended abnormally so far

relayVars == <<event, relay, published, aborts>>

-----------------------------------------------------------------------------
DeliveryStates == {"pending", "publishing", "delivered", "dead_letter"}

EventRow == [state : DeliveryStates \cup {"none"}, version : Nat, attempts : Nat,
             available : BOOLEAN]

(* `claims` are the rows selected and later claimed by the pass, `seen`    *)
(* the versions loaded, `ev` and `ok` the publish whose outcome is being   *)
(* written.                                                                *)
Relay == [pc : {"idle", "claim", "publish", "mark", "cas"}, claims : SUBSET Events,
          seen : [Events -> Nat], ev : Events \cup {Null}, ok : BOOLEAN]

NothingSeen == [e \in Events |-> 0]

IdleRelay == [pc |-> "idle", claims |-> {}, seen |-> NothingSeen, ev |-> Null, ok |-> FALSE]

Claimable == {e \in Events : event[e].state = "pending" /\ event[e].available}

RelayInit ==
    /\ event = [e \in Events |-> [state |-> "none", version |-> 0, attempts |-> 0,
                                  available |-> FALSE]]
    /\ relay = [r \in Relays |-> IdleRelay]
    /\ published = [e \in Events |-> 0]
    /\ aborts = 0

(* A business transaction commits its outbox row (JobService._emit).       *)
Emit(e) ==
    /\ event[e].state = "none"
    /\ event' = [event EXCEPT ![e] = [state |-> "pending", version |-> 1, attempts |-> 0,
                                      available |-> TRUE]]
    /\ UNCHANGED <<relay, published, aborts>>

(* _claim_batch, its select: the oldest BatchSize rows that are due.       *)
ClaimLoad(r) ==
    /\ relay[r].pc = "idle"
    /\ \E S \in SUBSET Claimable :
          /\ S # {}
          /\ Cardinality(S) = BatchSize
                \/ (Cardinality(S) < BatchSize /\ S = Claimable)
          /\ relay' = [relay EXCEPT ![r] =
                [IdleRelay EXCEPT !.pc = "claim", !.claims = S,
                     !.seen = [e \in Events |-> IF e \in S THEN event[e].version ELSE 0]]]
    /\ UNCHANGED <<event, published, aborts>>

(* Mutant: the claim's UPDATE has no WHERE version = expected.             *)
WonAll(r) == relay[r].claims

(* _cas claims a row if its version has not moved; a lost row is skipped.  *)
Won(r) == {e \in relay[r].claims : event[e].version = relay[r].seen[e]}

ClaimCommit(r) ==
    /\ relay[r].pc = "claim"
    /\ event' = [e \in Events |->
                    IF e \in Won(r)
                      THEN [event[e] EXCEPT !.state = "publishing", !.version = @ + 1]
                      ELSE event[e]]
    /\ relay' = [relay EXCEPT ![r] = IF Won(r) = {} THEN IdleRelay
                    ELSE [IdleRelay EXCEPT !.pc = "publish", !.claims = Won(r)]]
    /\ UNCHANGED <<published, aborts>>

(* transport.publish on the next claim: the broker confirms, or it raises. *)
(* A raise leaves open whether the broker took the message.                *)
Publish(r, e, ok) ==
    /\ relay[r].pc = "publish"
    /\ e \in relay[r].claims
    /\ published' \in {[published EXCEPT ![e] = @ + 1]} \cup
                      (IF ok THEN {} ELSE {published})
    /\ relay' = [relay EXCEPT ![r].pc = "mark", ![r].ev = e, ![r].ok = ok]
    /\ UNCHANGED <<event, aborts>>

(* What follows when the outcome of a claim is written: the next claim.    *)
NextClaim(r) ==
    LET rest == relay[r].claims \ {relay[r].ev}
    IN  IF rest = {} THEN IdleRelay
        ELSE [IdleRelay EXCEPT !.pc = "publish", !.claims = rest]

(* _mark_delivered and _record_failure, their load.                        *)
MarkLoad(r) ==
    LET e == relay[r].ev
    IN  /\ relay[r].pc = "mark"
        /\ relay' = [relay EXCEPT ![r] =
                       IF relay[r].ok /\ event[e].state = "delivered" THEN NextClaim(r)
                       ELSE [relay[r] EXCEPT !.pc = "cas", !.seen[e] = event[e].version]]
        /\ UNCHANGED <<event, published, aborts>>

(* Mutant: the budget test is off by one.                                  *)
MarkedRowOneMore(row, ok) ==
    LET attempts == row.attempts + 1
    IN  [state     |-> IF ok THEN "delivered"
                       ELSE IF attempts > MaxAttempts THEN "dead_letter" ELSE "pending",
         version   |-> row.version + 1,
         attempts  |-> attempts,
         available |-> FALSE]

(* Mutant: a failed publish counts the attempt but keeps the claim's state.*)
MarkedRowKeepsState(row, ok) ==
    [row EXCEPT !.state = IF ok THEN "delivered" ELSE @, !.version = @ + 1,
                !.attempts = @ + 1]

(* The row an outcome leads to: delivered; or pending again, due after the *)
(* backoff; or dead-lettered when the budget is spent.                     *)
MarkedRow(row, ok) ==
    LET attempts == row.attempts + 1
    IN  [state     |-> IF ok THEN "delivered"
                       ELSE IF attempts >= MaxAttempts THEN "dead_letter" ELSE "pending",
         version   |-> row.version + 1,
         attempts  |-> attempts,
         available |-> IF ok \/ attempts >= MaxAttempts THEN row.available ELSE FALSE]

(* The compare-and-set of the outcome; a lost one is ignored.              *)
MarkCommit(r) ==
    LET e == relay[r].ev
    IN  /\ relay[r].pc = "cas"
        /\ event' = IF event[e].version = relay[r].seen[e]
                      THEN [event EXCEPT ![e] = MarkedRow(@, relay[r].ok)]
                      ELSE event
        /\ relay' = [relay EXCEPT ![r] = NextClaim(r)]
        /\ UNCHANGED <<published, aborts>>

(* The backoff of a failed publish elapses.                                *)
BackoffElapses(e) ==
    /\ event[e].state = "pending" /\ ~ event[e].available
    /\ event' = [event EXCEPT ![e].available = TRUE]
    /\ UNCHANGED <<relay, published, aborts>>

(* The process dies, or a database error ends the pass.                    *)
Abort(r) ==
    /\ relay[r].pc # "idle"
    /\ aborts < MaxAborts
    /\ aborts' = aborts + 1
    /\ relay' = [relay EXCEPT ![r] = IdleRelay]
    /\ UNCHANGED <<event, published>>

-----------------------------------------------------------------------------
RelayStep(r) ==
    \/ ClaimLoad(r) \/ ClaimCommit(r) \/ MarkLoad(r) \/ MarkCommit(r)
    \/ \E e \in Events, ok \in BOOLEAN : Publish(r, e, ok)

RelayNext ==
    \/ \E e \in Events : Emit(e) \/ BackoffElapses(e)
    \/ \E r \in Relays : RelayStep(r) \/ Abort(r)

RelaySpec == RelayInit /\ [][RelayNext]_relayVars

(* The loop of every relay runs for ever, and backoffs elapse.             *)
RelayLiveSpec ==
    /\ RelaySpec
    /\ \A r \in Relays : WF_relayVars(RelayStep(r))
    /\ \A e \in Events : WF_relayVars(BackoffElapses(e))

-----------------------------------------------------------------------------
(* Type invariant of the outbox and the relays.                            *)
RelayTypeOK ==
    /\ event \in [Events -> EventRow]
    /\ relay \in [Relays -> Relay]
    /\ published \in [Events -> Nat]
    /\ aborts \in Nat

Holds(r, e) == relay[r].pc \in {"publish", "mark", "cas"} /\ e \in relay[r].claims

(* A row in "publishing" belongs to one pass: two relays never hold a claim *)
(* on the same row, whatever they selected, and a claimed row stays in      *)
(* "publishing" until its holder writes the outcome.                        *)
ClaimsAreExclusive ==
    /\ \A r, s \in Relays, e \in Events : Holds(r, e) /\ Holds(s, e) => r = s
    /\ \A r \in Relays, e \in Events : Holds(r, e) => event[e].state = "publishing"

(* "delivered after a broker publisher-confirm or dead_letter after the     *)
(* bounded retry budget": a row marked delivered has been confirmed, and a  *)
(* row is given up only after max_attempts failed publishes.                *)
DeliveryIsTrue ==
    \A e \in Events :
        /\ event[e].state = "delivered" => published[e] > 0
        /\ event[e].state = "dead_letter" => event[e].attempts = MaxAttempts
        /\ event[e].attempts <= MaxAttempts

(* Relaying settles every row, through lost claims, failed publishes and    *)
(* backoffs, unless a pass ends abnormally.                                 *)
EventsSettle ==
    \A e \in Events : event[e].state = "pending" ~>
                          event[e].state \in {"delivered", "dead_letter"} \/ aborts > 0

(* "Across a crash between publish and mark, a row is re-published rather   *)
(* than lost": a claimed row does not stay in "publishing" for ever.        *)
PublishingIsReclaimed ==
    \A e \in Events : event[e].state = "publishing" ~> event[e].state # "publishing"
=============================================================================
