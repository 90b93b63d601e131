---------------------------- MODULE Delivery_proofs ----------------------------
(***************************************************************************)
(* Proofs about what leaves the jobs: OutboxRelay for any number of events *)
(* and relays, and RunStream for any number of workers, entries retained   *)
(* and reconnections.                                                      *)
(***************************************************************************)
EXTENDS OutboxRelay, RunStream, FiniteSetTheorems, SequenceTheorems,
        WellFoundedInduction, TLAPS

-----------------------------------------------------------------------------
(* The inductive invariant.                                                *)

(* A row that exists has been written at least once.                       *)
RowVersioned(e) == IF event[e].state = "none" THEN event[e].version = 0
                   ELSE event[e].version >= 1

(* What a row's delivery state says about its attempts and the broker.     *)
RowTold(e) ==
    /\ event[e].state = "delivered" => published[e] > 0
    /\ event[e].state = "dead_letter" => event[e].attempts = MaxAttempts
    /\ event[e].state \in {"none", "pending", "publishing"} => event[e].attempts < MaxAttempts
    /\ event[e].attempts <= MaxAttempts

(* A claim whose compare-and-set will hold has read the row as it is now,  *)
(* and it was pending then: versions only grow.                            *)
SoundSelection(r) ==
    relay[r].pc = "claim" =>
        \A e \in relay[r].claims :
            /\ relay[r].seen[e] >= 1
            /\ relay[r].seen[e] <= event[e].version
            /\ relay[r].seen[e] = event[e].version => event[e].state = "pending"

(* The publish whose outcome is being written is one of the claims, and a  *)
(* confirmation was really received.                                       *)
SoundOutcome(r) ==
    relay[r].pc \in {"mark", "cas"} =>
        /\ relay[r].ev \in relay[r].claims
        /\ relay[r].ok => published[relay[r].ev] > 0

RelayInv ==
    /\ RelayTypeOK
    /\ \A e \in Events : RowVersioned(e) /\ RowTold(e)
    /\ \A r \in Relays : SoundSelection(r) /\ SoundOutcome(r)
    /\ ClaimsAreExclusive

-----------------------------------------------------------------------------
(* What MarkCommit makes of a held row.                                    *)
LEMMA MarkedRowType ==
    ASSUME NEW row \in EventRow, NEW ok \in BOOLEAN
    PROVE  /\ MarkedRow(row, ok) \in EventRow
           /\ MarkedRow(row, ok).version = row.version + 1
           /\ MarkedRow(row, ok).state # "none"
           /\ ok => MarkedRow(row, ok).state = "delivered"
           /\ ~ ok => MarkedRow(row, ok).state # "delivered"
<1>1. MarkedRow(row, ok).available \in BOOLEAN
  BY DEF MarkedRow, EventRow
<1>2. MarkedRow(row, ok).state \in DeliveryStates
  BY DEF MarkedRow, DeliveryStates
<1>3. MarkedRow(row, ok).version = row.version + 1 /\ MarkedRow(row, ok).attempts = row.attempts + 1
  BY DEF MarkedRow
<1>4. row.version \in Nat /\ row.attempts \in Nat
  BY DEF EventRow
<1>5. MarkedRow(row, ok) = [state |-> MarkedRow(row, ok).state,
                           version |-> MarkedRow(row, ok).version,
                           attempts |-> MarkedRow(row, ok).attempts,
                           available |-> MarkedRow(row, ok).available]
  BY DEF MarkedRow
<1>6. MarkedRow(row, ok) \in EventRow
  BY <1>1, <1>2, <1>3, <1>4, <1>5 DEF EventRow
<1> QED BY <1>3, <1>6 DEF MarkedRow, DeliveryStates

(* What ClaimCommit makes of a row it wins.                                *)
LEMMA ClaimedRowType ==
    ASSUME NEW row \in EventRow
    PROVE  [row EXCEPT !.state = "publishing", !.version = @ + 1] \in EventRow
<1>1. "publishing" \in DeliveryStates \cup {"none"}
  BY DEF DeliveryStates
<1>2. row.version + 1 \in Nat
  BY DEF EventRow
<1> QED BY <1>1, <1>2 DEF EventRow

(* The next claim of a batch is what is left of it, or nothing.            *)
LEMMA NextClaimType ==
    ASSUME RelayTypeOK, NEW r \in Relays
    PROVE  /\ NextClaim(r) \in Relay
           /\ NextClaim(r).pc \in {"idle", "publish"}
           /\ NextClaim(r).claims = relay[r].claims \ {relay[r].ev}
BY DEF RelayTypeOK, Relay, NextClaim, IdleRelay, NothingSeen

(* An idle relay has the declared shape.                                   *)
LEMMA IdleRelayType ==
    IdleRelay \in Relay /\ IdleRelay.pc = "idle" /\ IdleRelay.claims = {}
BY DEF IdleRelay, Relay, NothingSeen

(* A step of the relays preserves the type invariant.                      *)
LEMMA RelayTypeStep ==
    ASSUME RelayTypeOK, \A r \in Relays : SoundOutcome(r), [RelayNext]_relayVars
    PROVE  RelayTypeOK'
<1>1. ASSUME NEW e \in Events, Emit(e) PROVE RelayTypeOK'
  BY <1>1 DEF Emit, RelayTypeOK, EventRow, DeliveryStates
<1>2. ASSUME NEW e \in Events, BackoffElapses(e) PROVE RelayTypeOK'
  BY <1>2 DEF BackoffElapses, RelayTypeOK, EventRow
<1>3. ASSUME NEW r \in Relays, ClaimLoad(r) PROVE RelayTypeOK'
  <2>1. PICK S \in SUBSET Claimable : relay' = [relay EXCEPT ![r] =
                [IdleRelay EXCEPT !.pc = "claim", !.claims = S,
                     !.seen = [e \in Events |-> IF e \in S THEN event[e].version ELSE 0]]]
    BY <1>3 DEF ClaimLoad
  <2>2. [e \in Events |-> IF e \in S THEN event[e].version ELSE 0] \in [Events -> Nat]
    BY DEF RelayTypeOK, EventRow
  <2>3. S \in SUBSET Events
    BY DEF Claimable
  <2>4. relay'[r] \in Relay
    BY <2>1, <2>2, <2>3 DEF IdleRelay, Relay, RelayTypeOK
  <2>5. relay' \in [Relays -> Relay]
    BY <2>1, <2>4 DEF RelayTypeOK
  <2> QED BY <1>3, <2>5 DEF ClaimLoad, RelayTypeOK
<1>4. ASSUME NEW r \in Relays, ClaimCommit(r) PROVE RelayTypeOK'
  <2>1. event' \in [Events -> EventRow]
    <3> SUFFICES ASSUME NEW e \in Events PROVE event'[e] \in EventRow
      BY <1>4 DEF ClaimCommit
    <3>1. event[e] \in EventRow
      BY DEF RelayTypeOK
    <3>2. [event[e] EXCEPT !.state = "publishing", !.version = @ + 1] \in EventRow
      BY <3>1, ClaimedRowType
    <3> QED BY <1>4, <3>1, <3>2 DEF ClaimCommit
  <2>2. Won(r) \in SUBSET Events
    BY DEF Won, RelayTypeOK, Relay
  <2>3. relay' \in [Relays -> Relay]
    BY <1>4, <2>2, IdleRelayType DEF ClaimCommit, RelayTypeOK, Relay, IdleRelay, NothingSeen
  <2> QED BY <1>4, <2>1, <2>3 DEF ClaimCommit, RelayTypeOK
<1>5. ASSUME NEW r \in Relays, NEW e \in Events, NEW ok \in BOOLEAN, Publish(r, e, ok)
      PROVE  RelayTypeOK'
  <2>1. published' \in [Events -> Nat]
    BY <1>5 DEF Publish, RelayTypeOK
  <2>2. relay' \in [Relays -> Relay]
    <3>1. [relay[r] EXCEPT !.pc = "mark", !.ev = e, !.ok = ok] \in Relay
      BY DEF RelayTypeOK, Relay
    <3>2. relay' = [relay EXCEPT ![r] = [relay[r] EXCEPT !.pc = "mark", !.ev = e, !.ok = ok]]
      BY <1>5 DEF Publish, RelayTypeOK, Relay
    <3> QED BY <3>1, <3>2 DEF RelayTypeOK
  <2> QED BY <1>5, <2>1, <2>2 DEF Publish, RelayTypeOK
<1>6. ASSUME NEW r \in Relays, MarkLoad(r) PROVE RelayTypeOK'
  <2>1. relay' \in [Relays -> Relay]
    <3>1. relay[r].ev \in Events
      BY <1>6 DEF MarkLoad, SoundOutcome, RelayTypeOK, Relay
    <3>2. [relay[r] EXCEPT !.pc = "cas", !.seen[relay[r].ev] = event[relay[r].ev].version]
             \in Relay
      BY <3>1 DEF RelayTypeOK, Relay, EventRow
    <3> QED BY <1>6, <3>2, NextClaimType DEF MarkLoad, RelayTypeOK
  <2> QED BY <1>6, <2>1 DEF MarkLoad, RelayTypeOK
<1>7. ASSUME NEW r \in Relays, MarkCommit(r) PROVE RelayTypeOK'
  <2>1. relay' \in [Relays -> Relay]
    BY <1>7, NextClaimType DEF MarkCommit, RelayTypeOK
  <2>2. event' \in [Events -> EventRow]
    <3>1. relay[r].ok \in BOOLEAN
      BY DEF RelayTypeOK, Relay
    <3>2. \A e \in Events : MarkedRow(event[e], relay[r].ok) \in EventRow
      BY <3>1, MarkedRowType DEF RelayTypeOK
    <3> QED BY <1>7, <3>2 DEF MarkCommit, RelayTypeOK
  <2> QED BY <1>7, <2>1, <2>2 DEF MarkCommit, RelayTypeOK
<1>8. ASSUME NEW r \in Relays, Abort(r) PROVE RelayTypeOK'
  BY <1>8, IdleRelayType DEF Abort, RelayTypeOK
<1>9. CASE UNCHANGED relayVars
  BY <1>9 DEF relayVars, RelayTypeOK
<1> QED BY <1>1, <1>2, <1>3, <1>4, <1>5, <1>6, <1>7, <1>8, <1>9 DEF RelayNext, RelayStep

-----------------------------------------------------------------------------
(* One step of one action preserves the parts that speak of the rows, of   *)
(* the selections, of the outcomes and of the claims.                      *)

RelayFacts ==
    /\ \A e \in Events : RowVersioned(e) /\ RowTold(e)
    /\ \A r \in Relays : SoundSelection(r) /\ SoundOutcome(r)
    /\ ClaimsAreExclusive

(* Emit: no selection and no claim can be about a row that is not there.   *)
LEMMA EmitStep ==
    ASSUME RelayInv, NEW e \in Events, Emit(e)
    PROVE  RelayFacts'
<1>1. relay' = relay /\ published' = published
  BY DEF Emit
<1>2. event[e].state = "none" /\ event[e].version = 0
  BY DEF Emit, RelayInv, RowVersioned
<1>3. /\ event'[e].state = "pending" /\ event'[e].version = 1 /\ event'[e].attempts = 0
      /\ \A f \in Events \ {e} : event'[f] = event[f]
  BY DEF Emit, RelayInv, RelayTypeOK
<1>4. \A f \in Events : RowVersioned(f)' /\ RowTold(f)'
  BY <1>1, <1>3, RelayAssumption DEF RelayInv, RowVersioned, RowTold
<1>5. ASSUME NEW r \in Relays PROVE SoundSelection(r)' /\ SoundOutcome(r)'
  <2>1. relay[r].pc = "claim" => e \notin relay[r].claims
    BY <1>2 DEF RelayInv, SoundSelection, RelayTypeOK, Relay
  <2>2. relay[r].claims \subseteq Events
    BY DEF RelayInv, RelayTypeOK, Relay
  <2> QED BY <1>1, <1>3, <2>1, <2>2 DEF RelayInv, SoundSelection, SoundOutcome
<1>6. ClaimsAreExclusive'
  BY <1>1, <1>2, <1>3 DEF RelayInv, ClaimsAreExclusive, Holds
<1> QED BY <1>4, <1>5, <1>6 DEF RelayFacts

(* BackoffElapses changes no state and no version.                         *)
LEMMA BackoffStep ==
    ASSUME RelayInv, NEW e \in Events, BackoffElapses(e)
    PROVE  RelayFacts'
<1>1. relay' = relay /\ published' = published
  BY DEF BackoffElapses
<1>2. \A f \in Events : /\ event'[f].state = event[f].state
                        /\ event'[f].version = event[f].version
                        /\ event'[f].attempts = event[f].attempts
  BY DEF BackoffElapses, RelayInv, RelayTypeOK, EventRow
<1>3. \A f \in Events : RowVersioned(f)' /\ RowTold(f)'
  BY <1>1, <1>2 DEF RelayInv, RowVersioned, RowTold
<1>4. ASSUME NEW r \in Relays PROVE SoundSelection(r)' /\ SoundOutcome(r)'
  <2>1. relay[r].claims \subseteq Events
    BY DEF RelayInv, RelayTypeOK, Relay
  <2> QED BY <1>1, <1>2, <2>1 DEF RelayInv, SoundSelection, SoundOutcome
<1>5. ClaimsAreExclusive'
  BY <1>1, <1>2 DEF RelayInv, ClaimsAreExclusive, Holds
<1> QED BY <1>3, <1>4, <1>5 DEF RelayFacts

(* ClaimLoad selects pending rows at their current version.                *)
LEMMA ClaimLoadStep ==
    ASSUME RelayInv, NEW r \in Relays, ClaimLoad(r)
    PROVE  RelayFacts'
<1>1. event' = event /\ published' = published
  BY DEF ClaimLoad
<1>2. PICK S \in SUBSET Claimable : relay' = [relay EXCEPT ![r] =
                [IdleRelay EXCEPT !.pc = "claim", !.claims = S,
                     !.seen = [e \in Events |-> IF e \in S THEN event[e].version ELSE 0]]]
  BY DEF ClaimLoad
<1>3. /\ relay'[r].pc = "claim" /\ relay'[r].claims = S
      /\ \A e \in S : relay'[r].seen[e] = event[e].version
      /\ \A s \in Relays \ {r} : relay'[s] = relay[s]
  BY <1>2 DEF RelayInv, RelayTypeOK, IdleRelay, Claimable
<1>4. \A f \in Events : RowVersioned(f)' /\ RowTold(f)'
  BY <1>1 DEF RelayInv, RowVersioned, RowTold
<1>5. \A e \in S : /\ event[e].state = "pending" /\ event[e].version \in Nat
                   /\ event[e].version >= 1
  BY DEF Claimable, RelayInv, RowVersioned, RelayTypeOK, EventRow
<1>6. SoundSelection(r)' /\ SoundOutcome(r)'
  BY <1>1, <1>3, <1>5 DEF SoundSelection, SoundOutcome
<1>7. \A s \in Relays \ {r} : SoundSelection(s)' /\ SoundOutcome(s)'
  BY <1>1, <1>3 DEF RelayInv, SoundSelection, SoundOutcome
<1>8. \A s \in Relays, e \in Events : Holds(s, e)' => s # r /\ Holds(s, e)
  BY <1>3 DEF Holds
<1>9. ClaimsAreExclusive'
  BY <1>1, <1>8 DEF RelayInv, ClaimsAreExclusive
<1> QED BY <1>4, <1>6, <1>7, <1>9 DEF RelayFacts

(* ClaimCommit: the rows it wins were pending until now, so nobody holds   *)
(* them, and every other selection of them is now stale.                   *)
LEMMA ClaimCommitStep ==
    ASSUME RelayInv, NEW r \in Relays, ClaimCommit(r)
    PROVE  RelayFacts'
<1> DEFINE W == Won(r)
<1>1. published' = published
  BY DEF ClaimCommit
<1>2. \A e \in W : /\ e \in Events /\ event[e].state = "pending"
                   /\ event'[e].state = "publishing"
                   /\ event'[e].version = event[e].version + 1
                   /\ event'[e].attempts = event[e].attempts
  <2> SUFFICES ASSUME NEW e \in W
               PROVE  /\ e \in Events /\ event[e].state = "pending"
                      /\ event'[e].state = "publishing"
                      /\ event'[e].version = event[e].version + 1
                      /\ event'[e].attempts = event[e].attempts
    OBVIOUS
  <2>1. e \in Events /\ event[e].state = "pending"
    BY DEF Won, ClaimCommit, RelayInv, SoundSelection, RelayTypeOK, Relay
  <2>2. event'[e] = [event[e] EXCEPT !.state = "publishing", !.version = @ + 1]
    BY <2>1 DEF ClaimCommit
  <2>3. event[e] \in EventRow
    BY <2>1 DEF RelayInv, RelayTypeOK
  <2> QED BY <2>1, <2>2, <2>3 DEF EventRow
<1>3. \A e \in Events \ W : event'[e] = event[e]
  BY DEF ClaimCommit
<1>4. /\ \A s \in Relays \ {r} : relay'[s] = relay[s]
      /\ relay'[r].pc \in {"idle", "publish"} /\ relay'[r].claims = W
  BY DEF ClaimCommit, RelayInv, RelayTypeOK, IdleRelay
<1>5. \A e \in Events : event[e].version \in Nat
  BY DEF RelayInv, RelayTypeOK, EventRow
<1>6. \A f \in Events : RowVersioned(f)' /\ RowTold(f)'
  BY <1>1, <1>2, <1>3, <1>5 DEF RelayInv, RowVersioned, RowTold
<1>7. SoundSelection(r)' /\ SoundOutcome(r)'
  BY <1>4 DEF SoundSelection, SoundOutcome
<1>8. ASSUME NEW s \in Relays \ {r} PROVE SoundSelection(s)' /\ SoundOutcome(s)'
  <2>1. relay[s].claims \subseteq Events /\ relay[s].seen \in [Events -> Nat]
    BY DEF RelayInv, RelayTypeOK, Relay
  <2>2. relay'[s] = relay[s] /\ SoundSelection(s) /\ SoundOutcome(s)
    BY <1>4 DEF RelayInv
  <2>3. \A e \in relay[s].claims :
           relay[s].seen[e] <= event[e].version =>
              /\ relay[s].seen[e] <= event'[e].version
              /\ e \in W => relay[s].seen[e] # event'[e].version
    BY <1>2, <1>3, <1>5, <2>1
  <2> QED BY <1>1, <1>3, <2>1, <2>2, <2>3 DEF SoundSelection, SoundOutcome
<1>9. \A e \in W, s \in Relays : ~ Holds(s, e)
  BY <1>2 DEF RelayInv, ClaimsAreExclusive
<1>10. \A s \in Relays, e \in Events :
          Holds(s, e)' => (s = r /\ e \in W) \/ (s # r /\ Holds(s, e) /\ e \notin W)
  BY <1>4, <1>9 DEF Holds
<1>11. ClaimsAreExclusive'
  BY <1>2, <1>3, <1>10 DEF RelayInv, ClaimsAreExclusive
<1> QED BY <1>6, <1>7, <1>8, <1>11 DEF RelayFacts

(* Publish: a confirmation counts at the broker before it is written.      *)
LEMMA PublishStep ==
    ASSUME RelayInv, NEW r \in Relays, NEW e \in Events, NEW ok \in BOOLEAN,
           Publish(r, e, ok)
    PROVE  RelayFacts'
<1>1. event' = event
  BY DEF Publish
<1>2. /\ \A f \in Events : published[f] \in Nat /\ published'[f] \in Nat
      /\ \A f \in Events : published'[f] >= published[f]
      /\ ok => published'[e] > 0
  BY DEF Publish, RelayInv, RelayTypeOK
<1>3. /\ \A s \in Relays \ {r} : relay'[s] = relay[s]
      /\ relay[r].pc = "publish" /\ e \in relay[r].claims
      /\ relay'[r].pc = "mark" /\ relay'[r].claims = relay[r].claims
      /\ relay'[r].ev = e /\ relay'[r].ok = ok
  BY DEF Publish, RelayInv, RelayTypeOK, Relay
<1>4. \A f \in Events : RowVersioned(f)' /\ RowTold(f)'
  BY <1>1, <1>2 DEF RelayInv, RowVersioned, RowTold
<1>5. SoundSelection(r)' /\ SoundOutcome(r)'
  BY <1>2, <1>3 DEF SoundSelection, SoundOutcome
<1>6. ASSUME NEW s \in Relays \ {r} PROVE SoundSelection(s)' /\ SoundOutcome(s)'
  <2>1. relay[s].claims \subseteq Events
    BY DEF RelayInv, RelayTypeOK, Relay
  <2> QED BY <1>1, <1>2, <1>3, <2>1 DEF RelayInv, SoundSelection, SoundOutcome
<1>7. \A s \in Relays, f \in Events : Holds(s, f)' => Holds(s, f)
  BY <1>3 DEF Holds
<1>8. ClaimsAreExclusive'
  BY <1>1, <1>7 DEF RelayInv, ClaimsAreExclusive
<1> QED BY <1>4, <1>5, <1>6, <1>8 DEF RelayFacts

(* MarkLoad: the relay keeps the claim, or goes on to the next one.        *)
LEMMA MarkLoadStep ==
    ASSUME RelayInv, NEW r \in Relays, MarkLoad(r)
    PROVE  RelayFacts'
<1>1. event' = event /\ published' = published
  BY DEF MarkLoad
<1>2. /\ \A s \in Relays \ {r} : relay'[s] = relay[s]
      /\ relay[r].pc = "mark"
      /\ \/ relay'[r] = NextClaim(r)
         \/ relay'[r].pc = "cas" /\ relay'[r].claims = relay[r].claims
               /\ relay'[r].ev = relay[r].ev /\ relay'[r].ok = relay[r].ok
  BY DEF MarkLoad, RelayInv, RelayTypeOK, Relay
<1>3. /\ NextClaim(r).pc \in {"idle", "publish"}
      /\ NextClaim(r).claims = relay[r].claims \ {relay[r].ev}
  BY NextClaimType DEF RelayInv
<1>4. \A f \in Events : RowVersioned(f)' /\ RowTold(f)'
  BY <1>1 DEF RelayInv, RowVersioned, RowTold
<1>5. SoundSelection(r)' /\ SoundOutcome(r)'
  BY <1>1, <1>2, <1>3 DEF RelayInv, SoundSelection, SoundOutcome
<1>6. \A s \in Relays \ {r} : SoundSelection(s)' /\ SoundOutcome(s)'
  BY <1>1, <1>2 DEF RelayInv, SoundSelection, SoundOutcome
<1>7. \A s \in Relays, f \in Events : Holds(s, f)' => Holds(s, f)
  BY <1>2, <1>3 DEF Holds
<1>8. ClaimsAreExclusive'
  BY <1>1, <1>7 DEF RelayInv, ClaimsAreExclusive
<1> QED BY <1>4, <1>5, <1>6, <1>8 DEF RelayFacts

(* MarkCommit: only the holder moves a row out of "publishing", and it     *)
(* gives the claim up in the same step.                                    *)
LEMMA MarkCommitStep ==
    ASSUME RelayInv, NEW r \in Relays, MarkCommit(r)
    PROVE  RelayFacts'
<1>0. PICK e \in Events : e = relay[r].ev
  BY DEF MarkCommit, RelayInv, RelayTypeOK, Relay, SoundOutcome
<1> DEFINE new == MarkedRow(event[e], relay[r].ok)
<1>1. published' = published
  BY DEF MarkCommit
<1>2. /\ \A s \in Relays \ {r} : relay'[s] = relay[s]
      /\ relay[r].pc = "cas" /\ relay'[r] = NextClaim(r)
  BY DEF MarkCommit, RelayInv, RelayTypeOK
<1>3. /\ NextClaim(r).pc \in {"idle", "publish"}
      /\ NextClaim(r).claims = relay[r].claims \ {e}
  BY <1>0, NextClaimType DEF RelayInv
<1>4. e \in Events /\ e \in relay[r].claims /\ relay[r].ok \in BOOLEAN
      /\ (relay[r].ok => published[e] > 0)
  BY <1>0, <1>2 DEF RelayInv, RelayTypeOK, Relay, SoundOutcome
<1>5. Holds(r, e) /\ event[e].state = "publishing" /\ event[e] \in EventRow
  BY <1>2, <1>4 DEF RelayInv, ClaimsAreExclusive, Holds, RelayTypeOK
<1>6. /\ \A f \in Events \ {e} : event'[f] = event[f]
      /\ event'[e] = event[e] \/ event'[e] = new
  BY <1>0 DEF MarkCommit, RelayInv, RelayTypeOK
<1>7. new.version = event[e].version + 1 /\ new.state # "none"
  BY <1>4, <1>5, MarkedRowType
<1>8. event[e].version \in Nat /\ event[e].version >= 1 /\ event[e].attempts \in Nat
      /\ event[e].attempts < MaxAttempts
  BY <1>4, <1>5 DEF RelayInv, RowVersioned, RowTold, EventRow
<1>9. /\ new.attempts = event[e].attempts + 1
      /\ new.state = "delivered" => relay[r].ok
      /\ new.state = "dead_letter" => new.attempts >= MaxAttempts
      /\ new.state = "pending" => ~ (new.attempts >= MaxAttempts)
      /\ new.state # "publishing"
  BY DEF MarkedRow
<1>10. RowVersioned(e)' /\ RowTold(e)'
  <2>1. CASE event'[e] = event[e]
    BY <1>1, <1>4, <2>1 DEF RelayInv, RowVersioned, RowTold
  <2>2. CASE event'[e] = new
    <3>1. new.attempts <= MaxAttempts /\ (new.attempts >= MaxAttempts => new.attempts = MaxAttempts)
      BY <1>8, <1>9, RelayAssumption
    <3>2. new.state = "pending" => new.attempts < MaxAttempts
      BY <1>8, <1>9, RelayAssumption
    <3> HIDE DEF new
    <3>3. RowVersioned(e)'
      BY <1>7, <1>8, <2>2 DEF RowVersioned
    <3>4. RowTold(e)'
      BY <1>1, <1>4, <1>7, <1>9, <2>2, <3>1, <3>2, MarkedRowType DEF RowTold, EventRow, DeliveryStates
    <3> QED BY <3>3, <3>4
  <2> QED BY <1>6, <2>1, <2>2
<1>11. \A f \in Events : RowVersioned(f)' /\ RowTold(f)'
  BY <1>1, <1>6, <1>10 DEF RelayInv, RowVersioned, RowTold
<1>12. SoundSelection(r)' /\ SoundOutcome(r)'
  BY <1>2, <1>3 DEF SoundSelection, SoundOutcome
<1>13. ASSUME NEW s \in Relays \ {r} PROVE SoundSelection(s)' /\ SoundOutcome(s)'
  <2>1. relay[s].claims \subseteq Events /\ relay[s].seen \in [Events -> Nat]
    BY DEF RelayInv, RelayTypeOK, Relay
  <2>2. relay'[s] = relay[s] /\ SoundSelection(s) /\ SoundOutcome(s)
    BY <1>2 DEF RelayInv
  <2>3. relay[s].pc = "claim" /\ e \in relay[s].claims =>
           relay[s].seen[e] <= event'[e].version /\ relay[s].seen[e] # event'[e].version
    <3> HIDE DEF new
    <3> QED BY <1>5, <1>6, <1>7, <1>8, <2>1, <2>2 DEF SoundSelection
  <2> QED BY <1>1, <1>6, <2>1, <2>2, <2>3 DEF SoundSelection, SoundOutcome
<1>14. \A s \in Relays, f \in Events : Holds(s, f)' => Holds(s, f) /\ f # e
  BY <1>2, <1>3, <1>4, <1>5 DEF RelayInv, ClaimsAreExclusive, Holds
<1>15. ClaimsAreExclusive'
  BY <1>6, <1>14 DEF RelayInv, ClaimsAreExclusive
<1> QED BY <1>11, <1>12, <1>13, <1>15 DEF RelayFacts

(* Abort: an abandoned claim is held by nobody.                            *)
LEMMA AbortStep ==
    ASSUME RelayInv, NEW r \in Relays, Abort(r)
    PROVE  RelayFacts'
<1>1. event' = event /\ published' = published
  BY DEF Abort
<1>2. /\ \A s \in Relays \ {r} : relay'[s] = relay[s]
      /\ relay'[r].pc = "idle" /\ relay'[r].claims = {}
  BY IdleRelayType DEF Abort, RelayInv, RelayTypeOK
<1>3. \A f \in Events : RowVersioned(f)' /\ RowTold(f)'
  BY <1>1 DEF RelayInv, RowVersioned, RowTold
<1>4. \A s \in Relays : SoundSelection(s)' /\ SoundOutcome(s)'
  BY <1>1, <1>2 DEF RelayInv, SoundSelection, SoundOutcome
<1>5. \A s \in Relays, f \in Events : Holds(s, f)' => Holds(s, f)
  BY <1>2 DEF Holds
<1>6. ClaimsAreExclusive'
  BY <1>1, <1>5 DEF RelayInv, ClaimsAreExclusive
<1> QED BY <1>3, <1>4, <1>6 DEF RelayFacts

-----------------------------------------------------------------------------
(* The invariant holds initially.                                          *)
LEMMA RelayInvInit == RelayInit => RelayInv
<1> SUFFICES ASSUME RelayInit PROVE RelayInv
  OBVIOUS
<1>1. RelayTypeOK
  BY IdleRelayType DEF RelayInit, RelayTypeOK, EventRow
<1>2. \A e \in Events : RowVersioned(e) /\ RowTold(e)
  BY RelayAssumption DEF RelayInit, RowVersioned, RowTold
<1>3. \A r \in Relays : relay[r].pc = "idle"
  BY IdleRelayType DEF RelayInit
<1> QED BY <1>1, <1>2, <1>3
        DEF RelayInv, SoundSelection, SoundOutcome, ClaimsAreExclusive, Holds

(* Every step preserves it.                                                *)
LEMMA RelayInvStep == RelayInv /\ [RelayNext]_relayVars => RelayInv'
<1> SUFFICES ASSUME RelayInv, [RelayNext]_relayVars PROVE RelayInv'
  OBVIOUS
<1>1. RelayTypeOK'
  BY RelayTypeStep DEF RelayInv
<1>2. CASE UNCHANGED relayVars
  BY <1>2, <1>1 DEF relayVars, RelayInv, RowVersioned, RowTold, SoundSelection,
                    SoundOutcome, ClaimsAreExclusive, Holds
<1>3. CASE RelayNext
  <2>1. RelayFacts'
    BY <1>3, EmitStep, BackoffStep, ClaimLoadStep, ClaimCommitStep, PublishStep,
       MarkLoadStep, MarkCommitStep, AbortStep DEF RelayNext, RelayStep
  <2> QED BY <1>1, <2>1 DEF RelayFacts, RelayInv
<1> QED BY <1>2, <1>3

(* Rows, relays and the broker's counts always have the declared shape.    *)
THEOREM RelayTypeCorrect == RelaySpec => []RelayTypeOK
<1>1. RelayInv => RelayTypeOK
  BY DEF RelayInv
<1> QED BY <1>1, RelayInvInit, RelayInvStep, PTL DEF RelaySpec

(* However many relays select the same rows and however passes end, a row  *)
(* in "publishing" has one holder at most (_claim_batch, _cas).            *)
THEOREM RelaysShareNoClaim == RelaySpec => []ClaimsAreExclusive
<1>1. RelayInv => ClaimsAreExclusive
  BY DEF RelayInv
<1> QED BY <1>1, RelayInvInit, RelayInvStep, PTL DEF RelaySpec

(* A row marked delivered was confirmed by the broker, and a row is        *)
(* dead-lettered after exactly max_attempts failed publishes               *)
(* (_mark_delivered, _record_failure).                                     *)
THEOREM RelaysTellTheTruth == RelaySpec => []DeliveryIsTrue
<1>1. RelayInv => DeliveryIsTrue
  BY DEF RelayInv, RowTold, DeliveryIsTrue
<1> QED BY <1>1, RelayInvInit, RelayInvStep, PTL DEF RelaySpec

-----------------------------------------------------------------------------
(* RunStream: the inductive invariant.                                     *)

(* A terminal event names the state that the job ended in.                 *)
Announced(e) == e \in TerminalEvents => state \in Finished /\ e = RunEventOf(state)

Open == conn.pc \notin {"none", "closed", "broken"}
Following == conn.pc \in {"emit", "tail", "blocked", "deliver"}

(* The producer: what is announced, and what was, is true, and so is the   *)
(* cancellation that a worker is about to finalize.                        *)
ProducerOK ==
    /\ DOMAIN worker = Owners /\ DOMAIN announcing = Owners
    /\ \A w \in Owners : announcing[w] \in RunEvents \cup {"none"} /\ Announced(announcing[w])
    /\ \A w \in Owners : worker[w] = "cancel" => state \in {"cancel_requested", "cancelled"}
    /\ log \in Seq(RunEvents) /\ first \in Nat /\ 1 <= first /\ first <= Len(log) + 1
    /\ \A i \in 1 .. Len(log) : Announced(log[i])

ConnFields == {"pc", "after", "live", "buf", "last", "dollar", "wait"}
ClientFields == {"last", "seen", "told", "excused"}

(* What the connection holds lies on the stream, beyond what it has sent.  *)
ConnOK ==
    /\ DOMAIN conn = ConnFields /\ DOMAIN client = ClientFields
    /\ conn.pc \in ConnPoints
    /\ client.last \in (0 .. Len(log)) \cup {Durable}
    /\ client.seen \subseteq 1 .. Len(log)
    /\ conn.last \in 0 .. Len(log)
    /\ conn.buf \subseteq conn.last + 1 .. Len(log)
    /\ conn.pc \in {"replay", "snapshot", "tail", "blocked"} => conn.buf = {}
    /\ conn.pc = "blocked" => conn.wait \in conn.last .. Len(log)
    /\ Open /\ ~conn.live => state \in Finished
    /\ conn.pc = "closed" => state \in Finished

(* A client's place is the last id it was sent, and a connection's place   *)
(* is the client's: ids reach it in growing order.                         *)
OrderOK ==
    /\ client.last # Durable => \A k \in client.seen : k <= client.last
    /\ conn.pc = "replay" => conn.after = client.last
    /\ conn.pc \in {"gapcheck", "snapshot"} => conn.after \in Nat /\ conn.last = conn.after
    /\ Open /\ conn.pc # "replay" => \A k \in client.seen : k <= conn.last

(* What the client need not be sent any more.                              *)
Settled == client.seen \cup client.excused

(* A client that was told of no gap: what lies before its place, before    *)
(* the connection's, and between that and what the connection holds or     *)
(* may still read, is settled.                                             *)
GapOK ==
    ~client.told =>
        /\ \A i \in client.seen : 1 .. i \subseteq Settled
        /\ client.last # Durable /\ 1 .. client.last \subseteq Settled
        /\ conn.pc \in {"gapcheck", "emit", "tail", "blocked", "deliver"} =>
             1 .. conn.last \subseteq Settled
        /\ conn.pc = "gapcheck" =>
             \A b \in conn.buf : \A i \in conn.last + 1 .. b : i \in conn.buf \/ i < first
        /\ ~conn.dollar
        /\ Following =>
             /\ \A b \in conn.buf : \A i \in conn.last + 1 .. b : i \in conn.buf \cup client.excused
             /\ \A i \in conn.last + 1 .. first - 1 : i \in conn.buf \cup client.excused
        /\ conn.pc = "blocked" => conn.wait = conn.last
        /\ conn.pc # "snapshot"

StreamInv == ProducerOK /\ ConnOK /\ OrderOK /\ GapOK

-----------------------------------------------------------------------------
(* The producer.  No operation of a job leaves a finished state, or takes  *)
(* a cancellation back.                                                    *)
LifeKept ==
    /\ state \in Finished => state' = state
    /\ state \in {"cancel_requested", "cancelled"} =>
         state' \in {"cancel_requested", "cancelled"}

LEMMA LifeStepsKeep ==
    /\ Enqueued \/ Reaped \/ CancelRequested \/ Cancelled \/ UNCHANGED lifeVars => LifeKept
    /\ \A w : Leased(w) \/ Started(w) \/ Completed(w) \/ (\E o : Failed(w, o)) => LifeKept
BY DEF Enqueued, Reaped, CancelRequested, Cancelled, Leased, Started, Completed, Failed,
       LifeKept, Finished, Waiting, Held, lifeVars

(* A step of the producer that leaves the stream and the client alone.     *)
LEMMA StreamKept ==
    ASSUME StreamInv, LifeKept, UNCHANGED <<log, first, connVars>>,
           DOMAIN worker' = Owners, DOMAIN announcing' = Owners,
           \A w \in Owners :
              /\ announcing'[w] \in RunEvents \cup {"none"}
              /\ announcing'[w] \in TerminalEvents =>
                   state' \in Finished /\ announcing'[w] = RunEventOf(state')
              /\ worker'[w] = "cancel" => state' \in {"cancel_requested", "cancelled"}
    PROVE  StreamInv'
<1>0. UNCHANGED <<conn, client>>
  BY DEF connVars
<1>1. ProducerOK'
  BY DEF StreamInv, ProducerOK, Announced, LifeKept
<1>2. ConnOK'
  BY <1>0 DEF StreamInv, ConnOK, LifeKept, Open
<1>3. OrderOK'
  BY <1>0 DEF StreamInv, OrderOK, Open
<1>4. GapOK'
  BY <1>0 DEF StreamInv, GapOK, Settled, Following
<1> QED BY <1>1, <1>2, <1>3, <1>4 DEF StreamInv

LEMMA MovesKeep ==
    ASSUME StreamInv, NEW w \in Owners, NEW p, NEW e \in RunEvents \cup {"none"},
           Moves(w, p, e), LifeKept,
           e \in TerminalEvents => state' \in Finished /\ e = RunEventOf(state'),
           p = "cancel" => state' \in {"cancel_requested", "cancelled"}
    PROVE  StreamInv'
<1>1. /\ UNCHANGED <<log, first, connVars>>
      /\ worker' = [worker EXCEPT ![w] = p] /\ announcing' = [announcing EXCEPT ![w] = e]
      /\ ProducerOK
  BY DEF Moves, StreamInv
<1>2. DOMAIN worker' = Owners /\ DOMAIN announcing' = Owners
  BY <1>1 DEF ProducerOK
<1>3. ASSUME NEW o \in Owners
      PROVE  /\ announcing'[o] \in RunEvents \cup {"none"}
             /\ announcing'[o] \in TerminalEvents =>
                  state' \in Finished /\ announcing'[o] = RunEventOf(state')
             /\ worker'[o] = "cancel" => state' \in {"cancel_requested", "cancelled"}
  <2>1. CASE o = w
    <3>1. worker'[o] = p /\ announcing'[o] = e
      BY <1>1, <2>1 DEF ProducerOK
    <3> QED BY <3>1
  <2>2. CASE o # w
    <3>1. worker'[o] = worker[o] /\ announcing'[o] = announcing[o]
      BY <1>1, <2>2 DEF ProducerOK
    <3> QED BY <1>1, <3>1 DEF ProducerOK, Announced, LifeKept
  <2> QED BY <2>1, <2>2
<1> QED BY <1>1, <1>2, <1>3, StreamKept

LEMMA SilentKeeps ==
    ASSUME StreamInv, LifeKept, UNCHANGED <<worker, announcing, log, first, connVars>>
    PROVE  StreamInv'
BY StreamKept DEF StreamInv, ProducerOK, Announced, LifeKept

LEMMA EventsOfStates ==
    /\ {"started", "succeeded", "failed", "cancelled"} = RunEvents
    /\ {"succeeded", "failed", "cancelled"} = TerminalEvents
    /\ RunEventOf("succeeded") = "succeeded" /\ RunEventOf("terminal_failed") = "failed"
    /\ RunEventOf("cancelled") = "cancelled"
    /\ {"succeeded", "terminal_failed", "cancelled"} = Finished
BY DEF RunEvents, TerminalEvents, RunEventOf, Finished

LEMMA AttemptInv ==
    ASSUME StreamInv, NEW w \in Owners, Lease(w) \/ Start(w) \/ HandlerEnds(w) \/ ObserveCancel(w)
    PROVE  StreamInv'
<1>1. CASE Lease(w)
  <2>1. LifeKept /\ Moves(w, "start", "none")
    BY <1>1, LifeStepsKeep DEF Lease
  <2> QED BY <2>1, EventsOfStates, MovesKeep
<1>2. CASE Start(w)
  <2>1. LifeKept /\ (Moves(w, "handler", "started") \/ Moves(w, "fail", "none"))
    BY <1>2, LifeStepsKeep DEF Start
  <2> QED BY <2>1, EventsOfStates, MovesKeep
<1>3. CASE HandlerEnds(w)
  <2>1. /\ LifeKept /\ state' = state
        /\ \E p : Moves(w, p, "none") /\ (p = "cancel" => state = "cancel_requested")
    BY <1>3, LifeStepsKeep DEF HandlerEnds, lifeVars
  <2> QED BY <2>1, EventsOfStates, MovesKeep
<1>4. CASE ObserveCancel(w)
  <2>1. LifeKept /\ state' = "cancel_requested" /\ Moves(w, "cancel", "none")
    BY <1>4, LifeStepsKeep DEF ObserveCancel, lifeVars
  <2> QED BY <2>1, EventsOfStates, MovesKeep
<1> QED BY <1>1, <1>2, <1>3, <1>4

LEMMA CompleteInv ==
    ASSUME StreamInv, NEW w \in Owners, Complete(w)
    PROVE  StreamInv'
<1>1. PICK e \in {"succeeded", "none"} :
        LifeKept /\ Moves(w, "idle", e) /\ (e = "succeeded" => state' = "succeeded")
  BY LifeStepsKeep DEF Complete, Completed, lifeVars
<1> QED BY <1>1, EventsOfStates, MovesKeep

LEMMA FailInv ==
    ASSUME StreamInv, NEW w \in Owners, Fail(w)
    PROVE  StreamInv'
<1>1. PICK e \in {"failed", "none"} :
        LifeKept /\ Moves(w, "idle", e) /\ (e = "failed" => state' = "terminal_failed")
  BY LifeStepsKeep DEF Fail, Failed, AnnouncedFailure
<1> QED BY <1>1, EventsOfStates, MovesKeep

LEMMA FinalizeCancelInv ==
    ASSUME StreamInv, NEW w \in Owners, FinalizeCancel(w)
    PROVE  StreamInv'
<1>1. state \in {"cancel_requested", "cancelled"}
  BY DEF FinalizeCancel, At, StreamInv, ProducerOK
<1>2. LifeKept /\ Moves(w, "idle", "cancelled") /\ state' = "cancelled"
  BY <1>1, LifeStepsKeep DEF FinalizeCancel, Cancelled, lifeVars
<1> QED BY <1>2, EventsOfStates, MovesKeep

LEMMA JobStepInv ==
    ASSUME StreamInv,
           \/ CreateRun \/ CancelRun \/ Reap
           \/ \E w \in Owners :
                 \/ Lease(w) \/ Start(w) \/ HandlerEnds(w) \/ ObserveCancel(w)
                 \/ Complete(w) \/ Fail(w) \/ FinalizeCancel(w) \/ WorkerDies(w)
    PROVE  StreamInv'
<1>1. CASE CreateRun \/ CancelRun \/ Reap
  <2>1. LifeKept /\ UNCHANGED <<worker, announcing, log, first, connVars>>
    BY <1>1, LifeStepsKeep DEF CreateRun, CancelRun, Reap, Silently
  <2> QED BY <2>1, SilentKeeps
<1>2. ASSUME NEW w \in Owners, WorkerDies(w)
      PROVE  StreamInv'
  <2>1. LifeKept /\ Moves(w, "idle", "none")
    BY <1>2, LifeStepsKeep DEF WorkerDies
  <2> QED BY <2>1, EventsOfStates, MovesKeep
<1> QED BY <1>1, <1>2, AttemptInv, CompleteInv, FailInv, FinalizeCancelInv

-----------------------------------------------------------------------------
(* The stream.  Entries are added at its end and dropped at its start, and *)
(* those that a connection beyond its gap check has not read are excused.  *)
LEMMA StreamMoves ==
    ASSUME StreamInv, UNCHANGED <<conn, lifeVars>>, first' \in Nat, Len(log') \in Nat,
           first <= first', first' <= Len(log') + 1, Len(log) <= Len(log'),
           client' = [client EXCEPT !.excused = @ \cup Overrun(first')]
    PROVE  ConnOK' /\ OrderOK' /\ GapOK'
<1>0. /\ ProducerOK /\ ConnOK /\ OrderOK /\ GapOK /\ conn' = conn /\ state' = state
      /\ Len(log) \in Nat /\ first \in Nat
  BY DEF StreamInv, lifeVars, ProducerOK
<1>1. /\ DOMAIN client' = ClientFields /\ client'.last = client.last /\ client'.told = client.told
      /\ client'.seen = client.seen /\ client'.excused = client.excused \cup Overrun(first')
  BY <1>0 DEF ConnOK, ClientFields
<1>2. ConnOK'
  <2>1. /\ client.last \in (0 .. Len(log')) \cup {Durable} /\ client.seen \subseteq 1 .. Len(log')
        /\ conn.last \in 0 .. Len(log') /\ conn.buf \subseteq conn.last + 1 .. Len(log')
        /\ conn.pc = "blocked" => conn.wait \in conn.last .. Len(log')
    BY <1>0 DEF ConnOK
  <2> QED BY <1>0, <1>1, <2>1 DEF ConnOK, Open
<1>3. OrderOK'
  BY <1>0, <1>1 DEF OrderOK, Open
<1>4. GapOK'
  <2> SUFFICES ASSUME ~client'.told
               PROVE  GapOK'
    BY DEF GapOK
  <2>1. /\ Settled \subseteq Settled' /\ client.excused \subseteq client'.excused /\ ~client.told
    BY <1>1 DEF Settled
  <2>2. ASSUME Following, NEW i \in conn.last + 1 .. first' - 1
        PROVE  i \in conn.buf \cup client'.excused
    <3>1. conn.last \in Nat
      BY <1>0 DEF ConnOK
    <3>2. CASE i < first
      BY <1>0, <2>1, <2>2, <3>1, <3>2 DEF GapOK
    <3>3. CASE i >= first
      <4>1. i \in first .. first' - 1 /\ i > conn.last
        BY <1>0, <2>2, <3>1, <3>3
      <4> QED BY <1>1, <2>2, <4>1 DEF Overrun, Following
    <3> QED BY <1>0, <3>1, <3>2, <3>3
  <2>3. ASSUME conn.pc = "gapcheck", NEW b \in conn.buf, NEW i \in conn.last + 1 .. b
        PROVE  i \in conn.buf \/ i < first'
    <3>1. conn.last \in Nat /\ b \in Nat
      BY <1>0 DEF ConnOK
    <3>2. i \in conn.buf \/ i < first
      BY <1>0, <2>1, <2>3 DEF GapOK
    <3> QED BY <1>0, <3>1, <3>2
  <2>4. /\ \A i \in client.seen : 1 .. i \subseteq Settled'
        /\ client.last # Durable /\ 1 .. client.last \subseteq Settled'
        /\ conn.pc \in {"gapcheck", "emit", "tail", "blocked", "deliver"} =>
             1 .. conn.last \subseteq Settled'
        /\ ~conn.dollar
        /\ conn.pc = "blocked" => conn.wait = conn.last
        /\ conn.pc # "snapshot"
    BY <1>0, <2>1 DEF GapOK
  <2>5. ASSUME Following, NEW b \in conn.buf, NEW i \in conn.last + 1 .. b
        PROVE  i \in conn.buf \cup client'.excused
    BY <1>0, <2>1, <2>5 DEF GapOK
  <2>6. Following' = Following
    BY <1>0 DEF Following
  <2> QED BY <1>0, <1>1, <2>2, <2>3, <2>4, <2>5, <2>6 DEF GapOK
<1> QED BY <1>2, <1>3, <1>4

LEMMA PublishInv ==
    ASSUME StreamInv, NEW w \in Owners, PublishEvent(w)
    PROVE  StreamInv'
<1> DEFINE e == announcing[w]
           n == Len(log) + 2 - MaxEvents
<1>0. /\ ProducerOK /\ log \in Seq(RunEvents) /\ Len(log) \in Nat /\ first \in Nat /\ n \in Int
      /\ e \in RunEvents /\ Announced(e)
      /\ log' = Append(log, e) /\ announcing' = [announcing EXCEPT ![w] = "none"]
      /\ first' = Max({first, n}) /\ client' = [client EXCEPT !.excused = @ \cup Overrun(first')]
      /\ UNCHANGED <<lifeVars, worker, conn>>
  BY StreamAssumption DEF PublishEvent, Drop, StreamInv, ProducerOK, jobVars
<1>1. /\ log' \in Seq(RunEvents) /\ Len(log') = Len(log) + 1
      /\ \A i \in 1 .. Len(log') : log'[i] = log[i] \/ (i = Len(log') /\ log'[i] = e)
      /\ \A i \in 1 .. Len(log') : i # Len(log') => i \in 1 .. Len(log) /\ log'[i] = log[i]
  BY <1>0
<1>2. first' \in {first, n} /\ first <= first' /\ n <= first'
  <2>1. \E x \in {first, n} : \A y \in {first, n} : x >= y
    <3>1. CASE first >= n
      BY <1>0, <3>1
    <3>2. CASE n >= first
      BY <1>0, <3>2
    <3> HIDE DEF n
    <3> QED BY <1>0, <3>1, <3>2
  <2> HIDE DEF n
  <2>2. first' \in {first, n} /\ \A y \in {first, n} : first' >= y
    BY <1>0, <2>1 DEF Max
  <2> QED BY <1>0, <2>2
<1>3. first' \in Nat /\ 1 <= first' /\ first' <= Len(log') + 1
  <2>1. n <= Len(log) + 1 /\ 1 <= first /\ first <= Len(log) + 1
    BY <1>0, StreamAssumption DEF ProducerOK
  <2> HIDE DEF n
  <2> QED BY <1>0, <1>1, <1>2, <2>1
<1>4. ConnOK' /\ OrderOK' /\ GapOK'
  <2>1. UNCHANGED <<conn, lifeVars>> /\ Len(log') \in Nat /\ Len(log) <= Len(log')
    BY <1>0, <1>1
  <2> QED BY <1>0, <1>2, <1>3, <2>1, StreamMoves
<1>5. ProducerOK'
  <2>1. state' = state /\ worker' = worker
    BY <1>0 DEF lifeVars
  <2>2. /\ DOMAIN announcing' = Owners
        /\ \A o \in Owners : announcing'[o] = announcing[o] \/ announcing'[o] = "none"
    BY <1>0 DEF ProducerOK
  <2>3. \A o \in Owners : announcing'[o] \in RunEvents \cup {"none"} /\ Announced(announcing[o])'
    BY <1>0, <2>1, <2>2, EventsOfStates DEF ProducerOK, Announced
  <2>4. ASSUME NEW i \in 1 .. Len(log')
        PROVE  Announced(log[i])'
    <3>1. CASE i = Len(log')
      BY <1>0, <1>1, <2>1, <3>1 DEF Announced
    <3>2. CASE i # Len(log')
      <4>1. i \in 1 .. Len(log) /\ log'[i] = log[i]
        BY <1>1, <3>2
      <4> QED BY <1>0, <2>1, <4>1 DEF ProducerOK, Announced
    <3> QED BY <3>1, <3>2
  <2> QED BY <1>0, <1>1, <1>3, <2>1, <2>2, <2>3, <2>4 DEF ProducerOK
<1> QED BY <1>4, <1>5 DEF StreamInv

LEMMA PublishFailsInv ==
    ASSUME StreamInv, NEW w \in Owners, PublishFails(w)
    PROVE  StreamInv'
<1>1. /\ UNCHANGED <<worker, log, first, connVars>> /\ LifeKept /\ state' = state
      /\ announcing' = [announcing EXCEPT ![w] = "none"]
  BY LifeStepsKeep DEF PublishFails, jobVars, connVars, lifeVars
<1>2. /\ DOMAIN announcing' = Owners /\ DOMAIN worker' = Owners
      /\ \A o \in Owners : announcing'[o] = announcing[o] \/ announcing'[o] = "none"
  BY <1>1 DEF StreamInv, ProducerOK
<1>3. \A o \in Owners :
        /\ announcing'[o] \in RunEvents \cup {"none"}
        /\ announcing'[o] \in TerminalEvents =>
             state' \in Finished /\ announcing'[o] = RunEventOf(state')
        /\ worker'[o] = "cancel" => state' \in {"cancel_requested", "cancelled"}
  BY <1>1, <1>2, EventsOfStates DEF StreamInv, ProducerOK, Announced
<1> QED BY <1>1, <1>2, <1>3, StreamKept

LEMMA StreamExpiresInv ==
    ASSUME StreamInv, StreamExpires
    PROVE  StreamInv'
<1>0. /\ UNCHANGED <<lifeVars, worker, log, announcing, conn>> /\ first' = Len(log) + 1
      /\ client' = [client EXCEPT !.excused = @ \cup Overrun(first')]
      /\ Len(log) \in Nat /\ first \in Nat /\ first <= Len(log) + 1 /\ ProducerOK
  BY DEF StreamExpires, Drop, jobVars, StreamInv, ProducerOK
<1>1. ConnOK' /\ OrderOK' /\ GapOK'
  <2>1. UNCHANGED <<conn, lifeVars>> /\ first' \in Nat /\ first <= first'
    BY <1>0
  <2> QED BY <1>0, <2>1, StreamMoves
<1>2. ProducerOK'
  BY <1>0 DEF ProducerOK, Announced, lifeVars
<1> QED BY <1>1, <1>2 DEF StreamInv

-----------------------------------------------------------------------------
(* The connection.                                                         *)
LEMMA LeastId ==
    ASSUME NEW S \in SUBSET Nat, S # {}
    PROVE  Min(S) \in S /\ \A y \in S : Min(S) <= y
<1>1. PICK x \in S : \A y \in S : ~ (<<y, x>> \in OpToRel(<, Nat))
  BY NatLessThanWellFounded, WFMin
<1>2. ASSUME NEW y \in S
      PROVE  x <= y
  <2>1. ~ (y < x)
    BY <1>1 DEF OpToRel
  <2>2. x \in Nat /\ y \in Nat
    OBVIOUS
  <2> QED BY <2>1, <2>2
<1> QED BY <1>1, <1>2 DEF Min

(* A step of the connection leaves the producer alone.                     *)
LEMMA ProducerKept ==
    ASSUME ProducerOK, UNCHANGED <<jobVars, log, first, announcing>>
    PROVE  ProducerOK'
BY DEF ProducerOK, Announced, jobVars, lifeVars

(* No connection, for one reason or another.                               *)
LEMMA ConnectionEnds ==
    ASSUME StreamInv, NEW p \in {"none", "closed", "broken"}, conn' = [NoConn EXCEPT !.pc = p],
           p = "closed" => state \in Finished,
           UNCHANGED <<jobVars, log, first, announcing, client>>
    PROVE  StreamInv'
<1>0. /\ ProducerOK /\ ConnOK /\ OrderOK /\ GapOK /\ Len(log) \in Nat /\ state' = state
      /\ UNCHANGED <<log, client>>
  BY DEF StreamInv, ProducerOK, jobVars, lifeVars
<1>1. /\ DOMAIN conn' = ConnFields /\ conn'.pc = p /\ conn'.buf = {} /\ conn'.last = 0
      /\ ~conn'.dollar
  BY DEF NoConn, ConnFields
<1>2. ConnOK'
  BY <1>0, <1>1 DEF ConnOK, ConnPoints, Open
<1>3. OrderOK'
  BY <1>0, <1>1 DEF OrderOK, Open
<1>4. GapOK'
  BY <1>0, <1>1 DEF GapOK, Settled, Following
<1>5. ProducerOK'
  BY <1>0, ProducerKept
<1> QED BY <1>2, <1>3, <1>4, <1>5 DEF StreamInv

LEMMA ConnectInv ==
    ASSUME StreamInv, Connect
    PROVE  StreamInv'
<1>0. /\ ProducerOK /\ ConnOK /\ OrderOK /\ GapOK /\ Len(log) \in Nat /\ state' = state
      /\ UNCHANGED <<jobVars, log, first, announcing, client>>
      /\ conn' = [NoConn EXCEPT !.pc = "replay", !.after = client.last,
                                !.live = state \notin Finished]
  BY DEF StreamInv, ProducerOK, Connect, jobVars, lifeVars
<1>1. /\ DOMAIN conn' = ConnFields /\ conn'.pc = "replay" /\ conn'.buf = {} /\ conn'.last = 0
      /\ conn'.after = client.last /\ conn'.live = (state \notin Finished)
      /\ ~conn'.dollar
  <2>1. DOMAIN NoConn = ConnFields /\ NoConn.buf = {} /\ NoConn.last = 0 /\ ~NoConn.dollar
    BY DEF NoConn, ConnFields
  <2> QED BY <1>0, <2>1 DEF ConnFields
<1>2. ConnOK'
  <2>1. ~conn'.live => state' \in Finished
    BY <1>0, <1>1, Zenon
  <2> QED BY <1>0, <1>1, <2>1 DEF ConnOK, ConnPoints
<1>3. OrderOK'
  BY <1>0, <1>1 DEF OrderOK, Open
<1>4. GapOK'
  BY <1>0, <1>1 DEF GapOK, Settled, Following
<1>5. ProducerOK'
  BY <1>0, ProducerKept
<1> QED BY <1>2, <1>3, <1>4, <1>5 DEF StreamInv

LEMMA DisconnectInv ==
    ASSUME StreamInv, Disconnect
    PROVE  StreamInv'
<1>1. conn' = [NoConn EXCEPT !.pc = "none"]
  BY DEF Disconnect, NoConn
<1> QED BY <1>1, ConnectionEnds DEF Disconnect

(* What an XRANGE or XREAD after an id returns.                            *)
LEMMA AfterIs ==
    ASSUME ProducerOK, NEW id \in Nat
    PROVE  /\ After(id) \subseteq id + 1 .. Len(log)
           /\ \A b \in After(id) : \A i \in id + 1 .. b : i \in After(id) \/ i < first
BY DEF After, Retained, ProducerOK

LEMMA ReplayReadInv ==
    ASSUME StreamInv, ReplayRead
    PROVE  StreamInv'
<1>0. /\ ProducerOK /\ ConnOK /\ OrderOK /\ GapOK /\ Len(log) \in Nat /\ state' = state
      /\ UNCHANGED <<jobVars, log, first, announcing>> /\ conn.pc = "replay"
      /\ conn.after = client.last /\ first \in Nat /\ 1 <= first
  BY DEF StreamInv, ProducerOK, ReplayRead, jobVars, lifeVars, OrderOK
<1>1. CASE conn.after = Durable
  <2>1. conn' = [NoConn EXCEPT !.pc = "broken"] /\ UNCHANGED client
    BY <1>1 DEF ReplayRead
  <2> QED BY <1>0, <2>1, ConnectionEnds
<1>2. CASE conn.after # Durable
  <2> DEFINE a == conn.after
  <2>1. a \in 0 .. Len(log) /\ a \in Nat /\ a = client.last
    BY <1>0, <1>2 DEF ConnOK
  <2>2. /\ conn' = [conn EXCEPT !.pc = IF a = 0 THEN "emit" ELSE "gapcheck", !.buf = After(a), !.last = a]
        /\ client' = [client EXCEPT !.excused = IF a = 0 THEN @ \cup 1 .. first - 1 ELSE @]
    BY <1>2 DEF ReplayRead
  <2>3. /\ DOMAIN conn' = ConnFields /\ conn'.buf = After(a) /\ conn'.last = a /\ conn'.after = a
        /\ conn'.pc = (IF a = 0 THEN "emit" ELSE "gapcheck")
        /\ conn'.live = conn.live /\ conn'.dollar = conn.dollar
        /\ DOMAIN client' = ClientFields /\ client'.last = client.last /\ client'.seen = client.seen
        /\ client'.told = client.told
        /\ client'.excused = (IF a = 0 THEN client.excused \cup 1 .. first - 1 ELSE client.excused)
    BY <1>0, <2>2 DEF ConnOK, ConnFields, ClientFields
  <2>4. /\ After(a) \subseteq a + 1 .. Len(log)
        /\ \A b \in After(a) : \A i \in a + 1 .. b : i \in After(a) \/ i < first
    BY <1>0, <2>1, AfterIs
  <2> HIDE DEF a
  <2>5. ConnOK'
    BY <1>0, <2>1, <2>3, <2>4 DEF ConnOK, ConnPoints, Open
  <2>6. OrderOK'
    BY <1>0, <1>2, <2>1, <2>3 DEF OrderOK, Open
  <2>7. GapOK'
    <3> SUFFICES ASSUME ~client'.told
                 PROVE  GapOK'
      BY DEF GapOK
    <3>1. /\ Settled \subseteq Settled' /\ ~client.told
      BY <2>3 DEF Settled
    <3>2. /\ \A i \in client.seen : 1 .. i \subseteq Settled'
          /\ client.last # Durable /\ 1 .. a \subseteq Settled'
      BY <1>0, <2>1, <3>1 DEF GapOK
    <3>3. CASE a # 0
      BY <1>0, <2>1, <2>3, <2>4, <3>1, <3>2, <3>3 DEF GapOK, Following
    <3>4. CASE a = 0
      <4>1. \A i \in 1 .. first - 1 : i \in client'.excused
        BY <2>3, <3>4
      <4>2. ASSUME NEW b \in After(a), NEW i \in a + 1 .. b
            PROVE  i \in After(a) \cup client'.excused
        <5>1. b \in Nat /\ i \in Nat /\ 1 <= i
          BY <1>0, <2>4, <3>4
        <5> QED BY <1>0, <2>4, <4>1, <5>1
      <4> QED BY <1>0, <2>1, <2>3, <3>1, <3>2, <3>4, <4>1, <4>2 DEF GapOK, Following
    <3> QED BY <3>3, <3>4
  <2>8. ProducerOK'
    BY <1>0, ProducerKept
  <2> QED BY <2>5, <2>6, <2>7, <2>8 DEF StreamInv
<1> QED BY <1>1, <1>2

LEMMA GapCheckInv ==
    ASSUME StreamInv, GapCheck
    PROVE  StreamInv'
<1>0. /\ ProducerOK /\ ConnOK /\ OrderOK /\ GapOK /\ Len(log) \in Nat /\ state' = state
      /\ UNCHANGED <<jobVars, log, first, announcing>> /\ conn.pc = "gapcheck"
      /\ conn.after \in Nat /\ conn.last = conn.after /\ first \in Nat
  BY DEF StreamInv, ProducerOK, GapCheck, jobVars, lifeVars, OrderOK
<1>1. ProducerOK'
  BY <1>0, ProducerKept
<1>2. CASE HasGap(conn.after)
  <2>1. /\ conn' = [conn EXCEPT !.pc = "snapshot", !.buf = {}, !.dollar = TRUE]
        /\ client' = [client EXCEPT !.told = TRUE]
    BY <1>2 DEF GapCheck
  <2>2. /\ DOMAIN conn' = ConnFields /\ conn'.pc = "snapshot" /\ conn'.buf = {}
        /\ conn'.last = conn.last /\ conn'.after = conn.after /\ conn'.live = conn.live
        /\ DOMAIN client' = ClientFields /\ client'.last = client.last
        /\ client'.seen = client.seen /\ client'.told
    BY <1>0, <2>1 DEF ConnOK, ConnFields, ClientFields
  <2>3. ConnOK' /\ OrderOK' /\ GapOK'
    BY <1>0, <2>2 DEF ConnOK, ConnPoints, OrderOK, GapOK, Open
  <2> QED BY <1>1, <2>3 DEF StreamInv
<1>3. CASE ~HasGap(conn.after)
  <2>1. conn' = [conn EXCEPT !.pc = "emit"] /\ client' = client /\ first <= conn.last
    BY <1>0, <1>3 DEF GapCheck, HasGap
  <2>2. /\ DOMAIN conn' = ConnFields /\ conn'.pc = "emit" /\ conn'.buf = conn.buf
        /\ conn'.last = conn.last /\ conn'.live = conn.live /\ conn'.dollar = conn.dollar
    BY <1>0, <2>1 DEF ConnOK, ConnFields
  <2>3. ConnOK' /\ OrderOK'
    BY <1>0, <2>1, <2>2 DEF ConnOK, ConnPoints, OrderOK, Open
  <2>4. GapOK'
    <3> SUFFICES ASSUME ~client.told
                 PROVE  GapOK'
      BY <2>1 DEF GapOK
    <3>1. ASSUME NEW b \in conn.buf, NEW i \in conn.last + 1 .. b
          PROVE  i \in conn.buf
      <4>1. i \in conn.buf \/ i < first
        BY <1>0 DEF GapOK
      <4>2. b \in Nat
        BY <1>0 DEF ConnOK
      <4> QED BY <1>0, <2>1, <4>1, <4>2
    <3>2. conn.last + 1 .. first - 1 = {}
      BY <1>0, <2>1
    <3> QED BY <1>0, <2>1, <2>2, <3>1, <3>2 DEF GapOK, Settled, Following
  <2> QED BY <1>1, <2>3, <2>4 DEF StreamInv
<1> QED BY <1>2, <1>3

LEMMA ReadSnapshotInv ==
    ASSUME StreamInv, ReadSnapshot
    PROVE  StreamInv'
<1>0. /\ ProducerOK /\ ConnOK /\ OrderOK /\ GapOK /\ Len(log) \in Nat /\ state' = state
      /\ UNCHANGED <<jobVars, log, first, announcing>> /\ conn.pc = "snapshot" /\ client.told
      /\ conn' = [conn EXCEPT !.pc = IF conn.live THEN "tail" ELSE "closed"]
      /\ client' = [client EXCEPT !.last = IF agentRun.events = <<>> THEN @ ELSE Durable]
  BY DEF StreamInv, ProducerOK, ReadSnapshot, jobVars, lifeVars, GapOK
<1>1. ProducerOK'
  BY <1>0, ProducerKept
<1>2. /\ DOMAIN conn' = ConnFields /\ conn'.pc \in {"tail", "closed"} /\ conn'.buf = conn.buf
      /\ conn'.pc = "closed" => ~conn.live
      /\ conn'.last = conn.last /\ conn'.live = conn.live
      /\ DOMAIN client' = ClientFields /\ client'.last \in {client.last, Durable}
      /\ client'.seen = client.seen /\ client'.told = client.told
  BY <1>0 DEF ConnOK, ConnFields, ClientFields
<1>3. ConnOK' /\ OrderOK' /\ GapOK'
  BY <1>0, <1>2 DEF ConnOK, ConnPoints, OrderOK, GapOK, Open
<1> QED BY <1>1, <1>3 DEF StreamInv

LEMMA EmitFrameInv ==
    ASSUME StreamInv, EmitFrame
    PROVE  StreamInv'
<1> DEFINE m == Min(conn.buf)
<1>0. /\ ProducerOK /\ ConnOK /\ OrderOK /\ GapOK /\ Len(log) \in Nat /\ state' = state
      /\ UNCHANGED <<jobVars, log, first, announcing>> /\ conn.pc \in {"emit", "deliver"}
      /\ conn.buf # {} /\ client' = [client EXCEPT !.last = m, !.seen = @ \cup {m}]
      /\ first \in Nat /\ conn.last \in Nat
  BY DEF StreamInv, ProducerOK, EmitFrame, jobVars, lifeVars, ConnOK
<1>1. ProducerOK'
  BY <1>0, ProducerKept
<1>2. m \in conn.buf /\ (\A y \in conn.buf : m <= y) /\ m \in conn.last + 1 .. Len(log)
  <2>1. conn.buf \in SUBSET Nat /\ conn.buf \subseteq conn.last + 1 .. Len(log)
    BY <1>0 DEF ConnOK
  <2> QED BY <1>0, <2>1, LeastId
<1>3. /\ DOMAIN client' = ClientFields /\ client'.last = m /\ client'.seen = client.seen \cup {m}
      /\ client'.told = client.told /\ client'.excused = client.excused
  BY <1>0 DEF ConnOK, ClientFields
<1>4. \/ conn' = [NoConn EXCEPT !.pc = "closed"] /\ log[m] \in TerminalEvents
      \/ conn' = [conn EXCEPT !.buf = @ \ {m}, !.last = m]
  BY DEF EmitFrame
<1> HIDE DEF m
<1>5. \A k \in client'.seen : k <= m
  <2>1. \A k \in client.seen : k \in Nat /\ k <= conn.last
    BY <1>0 DEF OrderOK, ConnOK, Open
  <2> QED BY <1>0, <1>2, <1>3, <2>1
<1>6. client'.last \in 0 .. Len(log) /\ client'.seen \subseteq 1 .. Len(log) /\ client'.last # Durable
  BY <1>0, <1>2, <1>3, StreamAssumption DEF ConnOK
<1>7. ASSUME ~client'.told
      PROVE  1 .. m \subseteq Settled' /\ \A k \in client'.seen : 1 .. k \subseteq Settled'
  <2>1. /\ ~client.told /\ Settled' = Settled \cup {m}
    BY <1>3, <1>7 DEF Settled
  <2>2. ASSUME NEW i \in 1 .. m
        PROVE  i \in Settled'
    <3>1. CASE i <= conn.last
      <4>1. i \in 1 .. conn.last
        BY <1>0, <1>2, <3>1
      <4> QED BY <1>0, <2>1, <4>1 DEF GapOK
    <3>2. CASE conn.last < i /\ i < m
      <4>1. i \in conn.last + 1 .. m /\ i \notin conn.buf
        BY <1>0, <1>2, <3>2
      <4>2. i \in client.excused
        BY <1>0, <1>2, <2>1, <4>1 DEF GapOK, Following
      <4> QED BY <2>1, <4>2 DEF Settled
    <3>3. CASE i = m
      BY <2>1, <3>3
    <3> QED BY <1>0, <1>2, <3>1, <3>2, <3>3
  <2>3. \A k \in client.seen : 1 .. k \subseteq Settled'
    BY <1>0, <2>1 DEF GapOK
  <2> QED BY <1>3, <2>2, <2>3
<1>8. CASE conn' = [NoConn EXCEPT !.pc = "closed"] /\ log[m] \in TerminalEvents
  <2>1. /\ DOMAIN conn' = ConnFields /\ conn'.pc = "closed" /\ conn'.buf = {} /\ conn'.last = 0
        /\ ~conn'.dollar
    BY <1>8 DEF NoConn, ConnFields
  <2>2. state \in Finished
    BY <1>0, <1>2, <1>8 DEF ProducerOK, Announced
  <2>3. ConnOK'
    BY <1>0, <1>3, <1>6, <2>1, <2>2 DEF ConnOK, ConnPoints, Open
  <2>4. OrderOK'
    BY <1>3, <1>5, <2>1 DEF OrderOK, Open
  <2>5. GapOK'
    BY <1>3, <1>6, <1>7, <2>1 DEF GapOK, Following
  <2> QED BY <1>1, <2>3, <2>4, <2>5 DEF StreamInv
<1>9. CASE conn' = [conn EXCEPT !.buf = @ \ {m}, !.last = m]
  <2>1. /\ DOMAIN conn' = ConnFields /\ conn'.pc = conn.pc /\ conn'.buf = conn.buf \ {m}
        /\ conn'.last = m /\ conn'.live = conn.live /\ conn'.dollar = conn.dollar
    BY <1>0, <1>9 DEF ConnOK, ConnFields
  <2>2. ConnOK'
    <3>1. conn'.buf \subseteq m + 1 .. Len(log)
      <4> SUFFICES ASSUME NEW y \in conn.buf \ {m}
                   PROVE  y \in m + 1 .. Len(log)
        BY <2>1
      <4>1. y \in conn.last + 1 .. Len(log) /\ m <= y
        BY <1>0, <1>2 DEF ConnOK
      <4> QED BY <1>0, <1>2, <4>1
    <3>2. conn'.last \in 0 .. Len(log)
      BY <1>0, <1>2, <2>1
    <3> QED BY <1>0, <1>3, <1>6, <2>1, <3>1, <3>2 DEF ConnOK, Open
  <2>3. OrderOK'
    BY <1>0, <1>3, <1>5, <2>1 DEF OrderOK
  <2>4. GapOK'
    <3> SUFFICES ASSUME ~client'.told
                 PROVE  GapOK'
      BY DEF GapOK
    <3>1. ASSUME NEW b \in conn.buf \ {m}, NEW i \in m + 1 .. b
          PROVE  i \in (conn.buf \ {m}) \cup client'.excused
      <4>1. i \in conn.last + 1 .. b /\ i # m
        <5>1. b \in Nat
          BY <1>0 DEF ConnOK
        <5> QED BY <1>0, <1>2, <5>1
      <4> QED BY <1>0, <1>3, <4>1 DEF GapOK, Following
    <3>2. ASSUME NEW i \in m + 1 .. first - 1
          PROVE  i \in (conn.buf \ {m}) \cup client'.excused
      <4>1. i \in conn.last + 1 .. first - 1 /\ i # m
        BY <1>0, <1>2
      <4> QED BY <1>0, <1>3, <4>1 DEF GapOK, Following
    <3>3. 1 .. m \subseteq Settled' /\ \A k \in client'.seen : 1 .. k \subseteq Settled'
      BY <1>7
    <3> QED BY <1>0, <1>3, <1>6, <2>1, <3>1, <3>2, <3>3 DEF GapOK, Following
  <2> QED BY <1>1, <2>2, <2>3, <2>4 DEF StreamInv
<1> QED BY <1>4, <1>8, <1>9

(* The connection moves along the stream: it holds a new batch, or none.   *)
LEMMA TailMoves ==
    ASSUME StreamInv, UNCHANGED <<jobVars, log, first, announcing, client>>,
           DOMAIN conn' = ConnFields, conn'.last = conn.last, conn'.live = conn.live,
           conn.pc \in {"emit", "tail", "blocked", "deliver"},
           \/ conn'.pc = "tail" /\ conn'.buf = {}
           \/ conn'.pc = "blocked" /\ conn'.buf = {} /\ conn'.wait \in conn.last .. Len(log)
           \/ conn'.pc = "deliver" /\ conn'.buf \subseteq conn.last + 1 .. Len(log),
           ~client.told =>
             /\ ~conn'.dollar /\ (conn'.pc = "blocked" => conn'.wait = conn.last)
             /\ conn.buf \subseteq conn'.buf
             /\ \A b \in conn'.buf : \A i \in conn.last + 1 .. b : i \in conn'.buf \/ i < first
    PROVE  StreamInv'
<1>0. /\ ProducerOK /\ ConnOK /\ OrderOK /\ GapOK /\ Len(log) \in Nat /\ state' = state
      /\ client' = client /\ log' = log /\ first' = first /\ first \in Nat /\ conn.last \in Nat
  BY DEF StreamInv, ProducerOK, jobVars, lifeVars, ConnOK
<1>1. ProducerOK'
  BY <1>0, ProducerKept
<1>2. ConnOK'
  BY <1>0 DEF ConnOK, ConnPoints, Open
<1>3. OrderOK'
  BY <1>0 DEF OrderOK, Open
<1>4. GapOK'
  <2> SUFFICES ASSUME ~client.told
               PROVE  GapOK'
    BY <1>0 DEF GapOK
  <2>1. ASSUME NEW i \in conn.last + 1 .. first - 1
        PROVE  i \in conn'.buf \cup client.excused
    BY <1>0 DEF GapOK, Following
  <2>2. ASSUME NEW b \in conn'.buf, NEW i \in conn.last + 1 .. b
        PROVE  i \in conn'.buf \cup client.excused
    <3>1. b \in Nat
      BY <1>0
    <3>2. CASE i < first
      <4>1. i \in conn.last + 1 .. first - 1
        BY <1>0, <3>1, <3>2
      <4> QED BY <2>1, <4>1
    <3>3. CASE i \in conn'.buf
      BY <3>3
    <3> QED BY <3>2, <3>3
  <2>3. /\ \A i \in client.seen : 1 .. i \subseteq Settled'
        /\ client.last # Durable /\ 1 .. client.last \subseteq Settled'
        /\ 1 .. conn.last \subseteq Settled'
    BY <1>0 DEF GapOK, Settled
  <2> QED BY <1>0, <2>1, <2>2, <2>3 DEF GapOK, Following
<1> QED BY <1>1, <1>2, <1>3, <1>4 DEF StreamInv

LEMMA ReplayDoneInv ==
    ASSUME StreamInv, ReplayDone
    PROVE  StreamInv'
<1>0. /\ ProducerOK /\ ConnOK /\ conn.pc = "emit" /\ conn.buf = {}
      /\ UNCHANGED <<jobVars, log, first, announcing, client>>
  BY DEF StreamInv, ReplayDone
<1>1. CASE conn' = HandOff
  <2>1. /\ DOMAIN conn' = ConnFields /\ conn'.pc = "tail" /\ conn'.buf = {}
        /\ conn'.last = conn.last /\ conn'.live = conn.live /\ conn'.dollar = conn.dollar
    BY <1>0, <1>1 DEF HandOff, ConnOK, ConnFields
  <2>2. ~client.told => ~conn.dollar
    BY DEF StreamInv, GapOK
  <2> QED BY <1>0, <2>1, <2>2, TailMoves
<1>2. CASE /\ conn' = [NoConn EXCEPT !.pc = "closed"]
           /\ ~conn.live \/ \E i \in client.seen : log[i] \in TerminalEvents
  <2>1. state \in Finished
    BY <1>0, <1>2 DEF ConnOK, Open, ProducerOK, Announced
  <2> QED BY <1>0, <1>2, <2>1, ConnectionEnds
<1> QED BY <1>1, <1>2 DEF ReplayDone

LEMMA TailInv ==
    ASSUME StreamInv, TailBlocks \/ TailReads \/ Heartbeat
    PROVE  StreamInv'
<1>0. /\ ProducerOK /\ ConnOK /\ DOMAIN conn = ConnFields /\ conn.pc \in {"tail", "blocked", "deliver"}
      /\ conn.buf = {} /\ conn.last \in 0 .. Len(log) /\ Len(log) \in Nat
      /\ UNCHANGED <<jobVars, log, first, announcing, client>>
      /\ ~client.told => ~conn.dollar
  BY DEF StreamInv, ProducerOK, ConnOK, TailBlocks, TailReads, Heartbeat, GapOK
<1>1. CASE TailBlocks
  <2> DEFINE n == IF conn.dollar THEN Len(log) ELSE conn.last
  <2>1. /\ DOMAIN conn' = ConnFields /\ conn'.pc = "blocked" /\ conn'.buf = {} /\ conn'.wait = n
        /\ conn'.last = conn.last /\ conn'.live = conn.live /\ conn'.dollar = conn.dollar
    BY <1>0, <1>1 DEF TailBlocks, ConnFields
  <2>2. n \in conn.last .. Len(log) /\ (~client.told => n = conn.last)
    BY <1>0
  <2> HIDE DEF n
  <2> QED BY <1>0, <2>1, <2>2, TailMoves
<1>2. CASE TailReads
  <2>1. /\ DOMAIN conn' = ConnFields /\ conn'.pc = "deliver" /\ conn'.buf = After(conn.wait)
        /\ conn'.last = conn.last /\ conn'.live = conn.live /\ ~conn'.dollar
    BY <1>0, <1>2 DEF TailReads, ConnFields
  <2>2. conn.wait \in conn.last .. Len(log) /\ (~client.told => conn.wait = conn.last)
    BY <1>2 DEF TailReads, StreamInv, ConnOK, GapOK
  <2>3. conn.wait \in Nat
    BY <1>0, <2>2
  <2>4. /\ After(conn.wait) \subseteq conn.wait + 1 .. Len(log)
        /\ \A b \in After(conn.wait) : \A i \in conn.wait + 1 .. b : i \in After(conn.wait) \/ i < first
    BY <1>0, <2>3, AfterIs
  <2>5. conn'.buf \subseteq conn.last + 1 .. Len(log)
    BY <1>0, <2>1, <2>2, <2>4
  <2> QED BY <1>0, <2>1, <2>2, <2>4, <2>5, TailMoves
<1>3. CASE Heartbeat
  <2>1. /\ DOMAIN conn' = ConnFields /\ conn'.pc = "tail" /\ conn'.buf = {}
        /\ conn'.last = conn.last /\ conn'.live = conn.live /\ conn'.dollar = conn.dollar
    BY <1>0, <1>3 DEF Heartbeat, ConnFields
  <2> QED BY <1>0, <2>1, TailMoves
<1> QED BY <1>1, <1>2, <1>3

-----------------------------------------------------------------------------
LEMMA StreamInitInv == StreamInit => StreamInv
<1> SUFFICES ASSUME StreamInit PROVE StreamInv
  OBVIOUS
<1>1. /\ DOMAIN conn = ConnFields /\ conn.pc = "none" /\ conn.buf = {} /\ conn.last = 0
      /\ ~conn.dollar
  BY DEF StreamInit, NoConn, ConnFields
<1>2. /\ DOMAIN client = ClientFields /\ client.last = 0 /\ client.seen = {}
  BY DEF StreamInit, ClientFields
<1>3. log = <<>> /\ log \in Seq(RunEvents) /\ Len(log) = 0 /\ first = 1
  BY DEF StreamInit
<1>4. ProducerOK
  BY <1>3, EventsOfStates DEF StreamInit, ProducerOK, Announced
<1>5. ConnOK /\ OrderOK
  BY <1>1, <1>2, <1>3 DEF ConnOK, OrderOK, ConnPoints, Open
<1>6. GapOK
  BY <1>1, <1>2, StreamAssumption DEF GapOK, Following
<1> QED BY <1>4, <1>5, <1>6 DEF StreamInv

(* Every step of the workers, the stream and the connection keeps it.      *)
LEMMA StreamNextInv ==
    ASSUME StreamInv, [StreamNext]_vars
    PROVE  StreamInv'
<1>1. CASE ConnStep
  BY <1>1, ReplayReadInv, GapCheckInv, ReadSnapshotInv, EmitFrameInv, ReplayDoneInv, TailInv
     DEF ConnStep
<1>2. CASE GraphRun \/ UNCHANGED vars
  <2>1. UNCHANGED <<lifeVars, worker, announcing, log, first, connVars>>
    BY <1>2 DEF GraphRun, vars, jobVars, connVars
  <2> QED BY <2>1, LifeStepsKeep, SilentKeeps
<1>3. CASE Connect \/ Disconnect \/ StreamExpires
  BY <1>3, ConnectInv, DisconnectInv, StreamExpiresInv
<1>4. CASE \E w \in Owners : PublishEvent(w) \/ PublishFails(w)
  BY <1>4, PublishInv, PublishFailsInv
<1> QED BY <1>1, <1>2, <1>3, <1>4, JobStepInv DEF StreamNext

THEOREM StreamInvariant == StreamSpec => []StreamInv
BY StreamInitInv, StreamNextInv, PTL DEF StreamSpec

(* For any number of workers, entries retained, and reconnections: what a  *)
(* client was sent has no hole before it, unless it was told of a gap or   *)
(* the entry was dropped before it came or under its feet.                 *)
THEOREM GapsAreTold == StreamSpec => []NoSilentGap
<1>1. StreamInv => NoSilentGap
  BY DEF StreamInv, GapOK, Settled, NoSilentGap
<1> QED BY <1>1, StreamInvariant, PTL

(* Ids reach the client in growing order, across the replay, the live tail *)
(* and every reconnection.                                                 *)
THEOREM IdsOnlyGrow == StreamSpec => SentInOrder
<1>1. StreamInv /\ [StreamNext]_vars =>
        [client'.last \notin {client.last, Durable} =>
             \A k \in client.seen : k < client'.last]_vars
  <2> SUFFICES ASSUME StreamInv, StreamNext, client'.last \notin {client.last, Durable},
                      NEW k \in client.seen
               PROVE  k < client'.last
    OBVIOUS
  <2>0. ConnOK /\ DOMAIN client = ClientFields
    BY DEF StreamInv, ConnOK
  <2>1. EmitFrame
    <3>1. ASSUME NEW e, client' = [client EXCEPT !.excused = e]
          PROVE  FALSE
      BY <2>0, <3>1 DEF ClientFields
    <3>2. ASSUME NEW e, client' = [client EXCEPT !.told = e]
          PROVE  FALSE
      BY <2>0, <3>2 DEF ClientFields
    <3>3. client' # client
      OBVIOUS
    <3>4. CASE ReadSnapshot
      <4>1. client' = [client EXCEPT !.last = IF agentRun.events = <<>> THEN @ ELSE Durable]
        BY <3>4 DEF ReadSnapshot
      <4> QED BY <2>0, <4>1 DEF ClientFields
    <3>5. ~ReplayRead /\ ~GapCheck
      BY <3>1, <3>2, <3>3 DEF ReplayRead, GapCheck
    <3>6. ~StreamExpires /\ \A w \in Owners : ~PublishEvent(w)
      BY <3>1 DEF StreamExpires, PublishEvent, Drop
    <3>7. CASE \E w \in Owners :
                 \/ Lease(w) \/ Start(w) \/ HandlerEnds(w) \/ ObserveCancel(w)
                 \/ Complete(w) \/ Fail(w) \/ FinalizeCancel(w) \/ WorkerDies(w)
      <4>1. UNCHANGED connVars
        BY <3>7 DEF Lease, Start, HandlerEnds, ObserveCancel, Complete, Fail, FinalizeCancel,
                    WorkerDies, Moves
      <4> QED BY <3>3, <4>1 DEF connVars
    <3>8. CASE CreateRun \/ CancelRun \/ Reap
      BY <3>3, <3>8 DEF CreateRun, CancelRun, Reap, Silently, connVars
    <3>9. CASE \/ GraphRun \/ Connect \/ Disconnect \/ ReplayDone \/ TailBlocks \/ TailReads
               \/ Heartbeat \/ \E w \in Owners : PublishFails(w)
      BY <3>3, <3>9 DEF GraphRun, Connect, Disconnect, ReplayDone, TailBlocks, TailReads,
                        Heartbeat, PublishFails
    <3> QED BY <3>4, <3>5, <3>6, <3>7, <3>8, <3>9 DEF StreamNext, ConnStep
  <2> DEFINE m == Min(conn.buf)
  <2>2. client'.last = m /\ conn.buf # {} /\ conn.pc \in {"emit", "deliver"}
    BY <2>0, <2>1 DEF EmitFrame, ClientFields
  <2>3. /\ conn.buf \in SUBSET Nat /\ conn.buf \subseteq conn.last + 1 .. Len(log)
        /\ conn.last \in Nat /\ k \in Nat /\ Len(log) \in Nat
    BY DEF StreamInv, ConnOK, ProducerOK
  <2>4. m \in conn.last + 1 .. Len(log)
    BY <2>2, <2>3, LeastId
  <2>5. k <= conn.last
    BY <2>2 DEF StreamInv, OrderOK, Open
  <2> HIDE DEF m
  <2> QED BY <2>2, <2>3, <2>4, <2>5
<1> QED BY <1>1, StreamInvariant, PTL DEF StreamSpec, SentInOrder

(* No worker, however late, puts a terminal event on the stream that the   *)
(* job row contradicts, and no connection is ended before the run is.      *)
THEOREM TerminalEventsAreTrue == StreamSpec => []TerminalEventIsTrue
<1>1. StreamInv => TerminalEventIsTrue
  BY DEF StreamInv, ProducerOK, ConnOK, Announced, TerminalEventIsTrue
<1> QED BY <1>1, StreamInvariant, PTL

-----------------------------------------------------------------------------
(* The run that a snapshot serves: the graph from request to answer, and   *)
(* the transaction that records it.                                        *)

(* Sorting neither loses nor invents a candidate: the places of the        *)
(* candidates are all different, so they are all the places there are.     *)
LEMMA SortingKeeps ==
    ASSUME NEW n \in Nat, NEW s \in [1 .. n -> Corpus]
    PROVE  /\ DOMAIN ByRelevance(s) = 1 .. n
           /\ Range(ByRelevance(s)) = Range(s)
<1> DEFINE S == 1 .. n
           place == [i \in S |-> Cardinality(NoLater(s, i))]
<1>1. IsFiniteSet(S) /\ Cardinality(S) = n
  BY FS_Interval
<1>2. \A i \in S : s[i].relevance \in Int /\ i \in Int
  <2>1. \A c \in Corpus : c.relevance \in 0 .. 100
    BY GraphAssumption DEF Candidate
  <2>2. \A i \in S : s[i] \in Corpus /\ i \in Int
    OBVIOUS
  <2>3. \A x \in 0 .. 100 : x \in Int
    OBVIOUS
  <2> HIDE DEF S
  <2> QED BY <2>1, <2>2, <2>3, Zenon
<1>3. \A i \in S : NoLater(s, i) \in SUBSET S /\ i \in NoLater(s, i)
  BY <1>2 DEF NoLater
<1>4. \A i \in S : /\ IsFiniteSet(NoLater(s, i)) /\ Cardinality(NoLater(s, i)) \in Nat
                   /\ Cardinality(NoLater(s, i)) <= n
                   /\ Cardinality(NoLater(s, i)) # 0
  BY <1>1, <1>3, FS_Subset, FS_CardinalityType, FS_EmptySet
<1>5. place \in [S -> S]
  BY <1>4
<1>6. ASSUME NEW i \in S, NEW j \in S, i # j
      PROVE  Cardinality(NoLater(s, i)) # Cardinality(NoLater(s, j))
  <2>1. CASE i \notin NoLater(s, j)
    <3>1. NoLater(s, j) \subseteq NoLater(s, i)
      BY <1>2, <1>6, <2>1 DEF NoLater
    <3> QED BY <1>3, <1>4, <2>1, <3>1, FS_Subset
  <2>2. CASE j \notin NoLater(s, i)
    <3>1. NoLater(s, i) \subseteq NoLater(s, j)
      BY <1>2, <1>6, <2>2 DEF NoLater
    <3> QED BY <1>3, <1>4, <2>2, <3>1, FS_Subset
  <2>3. ~ (i \in NoLater(s, j) /\ j \in NoLater(s, i))
    BY <1>2, <1>6 DEF NoLater
  <2> QED BY <2>1, <2>2, <2>3
<1>7. place \in Surjection(S, S)
  <2>1. place \in Injection(S, S)
    BY <1>5, <1>6 DEF Injection, IsInjective
  <2> HIDE DEF place, S
  <2> QED BY <1>1, <2>1, FS_Injection
<1>8. \A k \in S : \E i \in S : Cardinality(NoLater(s, i)) = k
  BY <1>5, <1>7 DEF Surjection
<1>9. DOMAIN s = S /\ DOMAIN ByRelevance(s) = S
  BY DEF ByRelevance
<1>10. \A k \in S : \E i \in S : Cardinality(NoLater(s, i)) = k /\ ByRelevance(s)[k] = s[i]
  BY <1>8, <1>9 DEF ByRelevance
<1>11. \A i \in S : \E k \in S : ByRelevance(s)[k] = s[i]
  <2> SUFFICES ASSUME NEW i \in S
               PROVE  \E k \in S : ByRelevance(s)[k] = s[i]
    OBVIOUS
  <2> DEFINE p == Cardinality(NoLater(s, i))
  <2>1. p \in S
    BY <1>4
  <2>2. PICK j \in S : Cardinality(NoLater(s, j)) = p /\ ByRelevance(s)[p] = s[j]
    BY <1>10, <2>1
  <2>3. j = i
    BY <1>6, <2>2
  <2>4. ByRelevance(s)[p] = s[i]
    BY <2>2, <2>3
  <2> HIDE DEF S, p
  <2> QED BY <2>1, <2>4, Zenon
<1>12. Range(ByRelevance(s)) = {ByRelevance(s)[k] : k \in S} /\ Range(s) = {s[k] : k \in S}
  BY <1>9 DEF Range
<1>13. ASSUME NEW x
       PROVE  (\E k \in S : x = ByRelevance(s)[k]) <=> (\E i \in S : x = s[i])
  <2> HIDE DEF S, place
  <2>1. ASSUME NEW k \in S, x = ByRelevance(s)[k]
        PROVE  \E i \in S : x = s[i]
    BY <1>10, <2>1, Zenon
  <2>2. ASSUME NEW i \in S, x = s[i]
        PROVE  \E k \in S : x = ByRelevance(s)[k]
    BY <1>11, <2>2, Zenon
  <2> QED BY <2>1, <2>2, Zenon
<1> HIDE DEF place
<1>14. Range(ByRelevance(s)) = Range(s)
  <2> HIDE DEF S
  <2> QED BY <1>12, <1>13, Zenon
<1> QED BY <1>9, <1>14, Zenon

(* The graph's state after every node, written out.                        *)
LEMMA RunGraphSteps ==
    ASSUME NEW request
    PROVE  \E after :
              /\ RunGraph(request) = after[10]
              /\ after[0] = GraphState0(request)
              /\ \A n \in 1 .. 10 : after[n] = Visit(SharedNodeSequence[n], after[n - 1])
<1> DEFINE F(after) == [n \in 0 .. Len(SharedNodeSequence) |->
             IF n = 0 THEN GraphState0(request) ELSE Visit(SharedNodeSequence[n], after[n - 1])]
           f == CHOOSE after : after = F(after)
           g0  == GraphState0(request)
           g1  == Visit("validate", g0)
           g2  == Visit("memory_load", g1)
           g3  == Visit("rewrite", g2)
           g4  == Visit("retrieve", g3)
           g5  == Visit("rerank", g4)
           g6  == Visit("evidence_gate", g5)
           g7  == Visit("plan_or_tool", g6)
           g8  == Visit("generate", g7)
           g9  == Visit("writeback", g8)
           g10 == Visit("finalize", g9)
           G   == <<g1, g2, g3, g4, g5, g6, g7, g8, g9, g10>>
           w   == [n \in 0 .. 10 |-> IF n = 0 THEN g0 ELSE G[n]]
<1>0. Len(SharedNodeSequence) = 10
  BY DEF SharedNodeSequence
<1>1. RunGraph(request) = f[10]
  BY <1>0 DEF RunGraph
<1>2. w = F(w)
  <2>1. /\ w[0] = g0 /\ w[1] = g1 /\ w[2] = g2 /\ w[3] = g3 /\ w[4] = g4 /\ w[5] = g5
        /\ w[6] = g6 /\ w[7] = g7 /\ w[8] = g8 /\ w[9] = g9 /\ w[10] = g10
    <3> HIDE DEF g0, g1, g2, g3, g4, g5, g6, g7, g8, g9, g10
    <3> QED OBVIOUS
  <2>2. \A n \in 0 .. 10 : n \in {0, 1, 2, 3, 4, 5, 6, 7, 8, 9, 10}
    OBVIOUS
  <2>3. ASSUME NEW n \in 1 .. 10
        PROVE  w[n] = Visit(SharedNodeSequence[n], w[n - 1])
    <3> HIDE DEF w, G
    <3>1. CASE n = 1
      BY <2>1, <3>1 DEF SharedNodeSequence
    <3>2. CASE n = 2
      BY <2>1, <3>2 DEF SharedNodeSequence
    <3>3. CASE n = 3
      BY <2>1, <3>3 DEF SharedNodeSequence
    <3>4. CASE n = 4
      BY <2>1, <3>4 DEF SharedNodeSequence
    <3>5. CASE n = 5
      BY <2>1, <3>5 DEF SharedNodeSequence
    <3>6. CASE n = 6
      BY <2>1, <3>6 DEF SharedNodeSequence
    <3>7. CASE n = 7
      BY <2>1, <3>7 DEF SharedNodeSequence
    <3>8. CASE n = 8
      BY <2>1, <3>8 DEF SharedNodeSequence
    <3>9. CASE n = 9
      BY <2>1, <3>9 DEF SharedNodeSequence
    <3>10. CASE n = 10
      BY <2>1, <3>10 DEF SharedNodeSequence
    <3> QED BY <2>2, <3>1, <3>2, <3>3, <3>4, <3>5, <3>6, <3>7, <3>8, <3>9, <3>10
  <2>4. w = [n \in 0 .. 10 |-> w[n]]
    OBVIOUS
  <2> HIDE DEF w, g0
  <2>5. \A n \in 0 .. 10 :
           w[n] = IF n = 0 THEN g0 ELSE Visit(SharedNodeSequence[n], w[n - 1])
    <3>1. \A n \in 0 .. 10 : n # 0 => n \in 1 .. 10
      OBVIOUS
    <3> QED BY <2>1, <2>3, <3>1
  <2> QED BY <1>0, <2>4, <2>5 DEF g0
<1>3. f = F(f)
  <2> HIDE DEF w
  <2> QED BY <1>2
<1>4. f[0] = GraphState0(request)
  <2> HIDE DEF f
  <2>1. 0 \in 0 .. Len(SharedNodeSequence)
    BY <1>0
  <2> QED BY <1>3, <2>1
<1>5. ASSUME NEW n \in 1 .. 10
      PROVE  f[n] = Visit(SharedNodeSequence[n], f[n - 1])
  <2>1. n \in 0 .. Len(SharedNodeSequence) /\ n # 0
    BY <1>0
  <2> HIDE DEF f
  <2> QED BY <1>3, <2>1
<1> HIDE DEF f
<1> QED BY <1>1, <1>4, <1>5

-----------------------------------------------------------------------------
(* The ids that may be cited.                                              *)
CitableIds == {c.id : c \in {d \in Corpus : IsAcceptable(d)}}

Gates == {"none", "supported", "insufficient_evidence"}
Answers == {"none", "refusal", "grounded"}

(* The state of a graph, whatever nodes it went through.                   *)
GraphState ==
    [request : Request, status : {"none", "running", "succeeded", "failed"},
     candidates : SeqOf(Corpus, MaxFound),
     gate : Gates, accepted : SUBSET CitableIds, answer : Answers,
     evidence : SUBSET CitableIds, raised : BOOLEAN]

(* The gate decided by what it accepted.                                   *)
Gated(g) ==
    /\ g.gate # "none"
    /\ (g.gate = "supported") = (g.accepted # {})

(* The answer is grounded exactly when it cites something.                 *)
Answered(g) == Gated(g) /\ (g.answer = "grounded") = (g.evidence # {})

LEMMA SortedCandidates ==
    ASSUME NEW s \in SeqOf(Corpus, MaxFound)
    PROVE  ByRelevance(s) \in SeqOf(Corpus, MaxFound)
<1>1. PICK n \in 0 .. MaxFound : s \in [1 .. n -> Corpus]
  BY DEF SeqOf
<1>2. n \in Nat
  BY GraphAssumption
<1>3. DOMAIN ByRelevance(s) = 1 .. n /\ Range(ByRelevance(s)) = Range(s)
  BY <1>1, <1>2, SortingKeeps
<1>4. DOMAIN s = 1 .. n
  BY <1>1
<1>5. ASSUME NEW k \in 1 .. n
      PROVE  ByRelevance(s)[k] \in Corpus
  <2>1. ByRelevance(s)[k] \in Range(s)
    BY <1>3 DEF Range
  <2> QED BY <1>1, <1>4, <2>1 DEF Range
<1>6. ByRelevance(s) = [k \in 1 .. n |-> ByRelevance(s)[k]]
  BY <1>4 DEF ByRelevance
<1>7. ByRelevance(s) \in [1 .. n -> Corpus]
  BY <1>5, <1>6
<1> QED BY <1>1, <1>7 DEF SeqOf

(* Every id the gate accepts is one that may be cited.                     *)
LEMMA GateAcceptsCitable ==
    ASSUME NEW s \in SeqOf(Corpus, MaxFound)
    PROVE  EvaluateEvidenceGate(s) \in SUBSET CitableIds
<1>1. PICK n \in 0 .. MaxFound : s \in [1 .. n -> Corpus]
  BY DEF SeqOf
<1>2. Range(s) \subseteq Corpus
  BY <1>1 DEF Range
<1> QED BY <1>2 DEF EvaluateEvidenceGate, CitableIds

(* What visiting a node does: nothing once the run raised.                 *)
LEMMA Visits ==
    ASSUME NEW g \in GraphState
    PROVE  /\ \A n : g.raised => Visit(n, g) = g
           /\ \A n : ~ g.raised /\ Faulty(n, g) => Visit(n, g) = Raise(g)
           /\ ~ g.raised /\ ~ Faulty("validate", g) => Visit("validate", g) = Validate(g)
           /\ ~ g.raised /\ ~ Faulty("memory_load", g) => Visit("memory_load", g) = g
           /\ ~ g.raised /\ ~ Faulty("rewrite", g) => Visit("rewrite", g) = g
           /\ ~ g.raised /\ ~ Faulty("retrieve", g) => Visit("retrieve", g) = Retrieve(g)
           /\ ~ g.raised /\ ~ Faulty("rerank", g) => Visit("rerank", g) = Rerank(g)
           /\ ~ g.raised /\ ~ Faulty("evidence_gate", g) =>
                 Visit("evidence_gate", g) = EvidenceGate(g)
           /\ ~ g.raised /\ ~ Faulty("plan_or_tool", g) => Visit("plan_or_tool", g) = g
           /\ ~ g.raised /\ ~ Faulty("generate", g) => Visit("generate", g) = Generate(g)
           /\ ~ g.raised /\ ~ Faulty("writeback", g) => Visit("writeback", g) = g
           /\ ~ g.raised /\ ~ Faulty("finalize", g) => Visit("finalize", g) = Finalize(g)
<1>2. \A n : g.raised => Visit(n, g) = g
  BY DEF Visit
<1>4. \A n : ~ g.raised /\ Faulty(n, g) => Visit(n, g) = Raise(g)
  BY DEF Visit
<1>5. ~ g.raised /\ ~ Faulty("validate", g) => Visit("validate", g) = Validate(g)
  BY DEF Visit, Node
<1>6. ~ g.raised /\ ~ Faulty("memory_load", g) => Visit("memory_load", g) = g
  BY DEF Visit, Node, MemoryLoad
<1>7. ~ g.raised /\ ~ Faulty("rewrite", g) => Visit("rewrite", g) = g
  BY DEF Visit, Node, Rewrite
<1>8. ~ g.raised /\ ~ Faulty("retrieve", g) => Visit("retrieve", g) = Retrieve(g)
  BY DEF Visit, Node
<1>9. ~ g.raised /\ ~ Faulty("rerank", g) => Visit("rerank", g) = Rerank(g)
  BY DEF Visit, Node
<1>10. ~ g.raised /\ ~ Faulty("evidence_gate", g) => Visit("evidence_gate", g) = EvidenceGate(g)
  BY DEF Visit, Node
<1>11. ~ g.raised /\ ~ Faulty("plan_or_tool", g) => Visit("plan_or_tool", g) = g
  BY DEF Visit, Node, PlanOrTool
<1>12. ~ g.raised /\ ~ Faulty("generate", g) => Visit("generate", g) = Generate(g)
  BY DEF Visit, Node
<1>13. ~ g.raised /\ ~ Faulty("writeback", g) => Visit("writeback", g) = g
  BY DEF Visit, Node, Writeback
<1>14. ~ g.raised /\ ~ Faulty("finalize", g) => Visit("finalize", g) = Finalize(g)
  BY DEF Visit, Node
<1> QED BY <1>2, <1>4, <1>5, <1>6, <1>7, <1>8, <1>9, <1>10, <1>11, <1>12, <1>13, <1>14

LEMMA NodeTypes ==
    ASSUME NEW g \in GraphState
    PROVE  /\ Raise(g) \in GraphState /\ Raise(g).raised
           /\ Validate(g) \in GraphState
           /\ Retrieve(g) \in GraphState
           /\ Rerank(g) \in GraphState
           /\ EvidenceGate(g) \in GraphState /\ Gated(EvidenceGate(g))
           /\ Generate(g) \in GraphState /\ (Gated(g) => Answered(Generate(g)))
           /\ Finalize(g) \in GraphState
           /\ Answered(g) => Answered(Finalize(g)) /\ Finalize(g).status = "succeeded"
<1>1. Raise(g) \in GraphState /\ Raise(g).raised
  BY DEF GraphState, Raise
<1>2. Validate(g) \in GraphState
  BY <1>1 DEF GraphState, Validate
<1>3. Retrieve(g) \in GraphState
  BY DEF GraphState, Retrieve, Request
<1>4. Rerank(g) \in GraphState
  BY SortedCandidates DEF GraphState, Rerank
<1>5. EvidenceGate(g) \in GraphState /\ Gated(EvidenceGate(g))
  <2> DEFINE a == EvaluateEvidenceGate(g.candidates)
  <2>1. a \in SUBSET CitableIds
    BY GateAcceptsCitable DEF GraphState
  <2>2. EvidenceGate(g) = [g EXCEPT !.accepted = a,
                             !.gate = IF a # {} THEN "supported" ELSE "insufficient_evidence"]
    BY DEF EvidenceGate
  <2> HIDE DEF a
  <2> QED BY <2>1, <2>2 DEF GraphState, Gates, Gated
<1>6. Generate(g) \in GraphState /\ (Gated(g) => Answered(Generate(g)))
  BY DEF GraphState, Gates, Answers, Generate, Gated, Answered
<1>7. /\ Finalize(g) \in GraphState
      /\ Answered(g) => Answered(Finalize(g)) /\ Finalize(g).status = "succeeded"
  BY DEF GraphState, Finalize, Gated, Answered
<1> QED BY <1>1, <1>2, <1>3, <1>4, <1>5, <1>6, <1>7

(* A run that did not raise succeeded, and its answer is grounded exactly  *)
(* when it cites something.                                                *)
LEMMA GraphResult ==
    ASSUME NEW request \in Request
    PROVE  LET g == RunGraph(request)
           IN  g \in GraphState /\ (~ g.raised => Answered(g) /\ g.status = "succeeded")
<1>1. PICK after :
         /\ RunGraph(request) = after[10]
         /\ after[0] = GraphState0(request)
         /\ \A n \in 1 .. 10 : after[n] = Visit(SharedNodeSequence[n], after[n - 1])
  BY RunGraphSteps
<1>2. /\ after[1] = Visit("validate", after[0])
      /\ after[2] = Visit("memory_load", after[1])
      /\ after[3] = Visit("rewrite", after[2])
      /\ after[4] = Visit("retrieve", after[3])
      /\ after[5] = Visit("rerank", after[4])
      /\ after[6] = Visit("evidence_gate", after[5])
      /\ after[7] = Visit("plan_or_tool", after[6])
      /\ after[8] = Visit("generate", after[7])
      /\ after[9] = Visit("writeback", after[8])
      /\ after[10] = Visit("finalize", after[9])
  BY <1>1 DEF SharedNodeSequence
<1>3. after[0] \in GraphState
  <2>1. <<>> \in SeqOf(Corpus, MaxFound)
    <3>1. 0 \in 0 .. MaxFound
      BY GraphAssumption
    <3>2. <<>> \in [1 .. 0 -> Corpus]
      OBVIOUS
    <3> QED BY <3>1, <3>2 DEF SeqOf
  <2> QED BY <1>1, <2>1 DEF GraphState0, GraphState, Gates, Answers
<1>4. after[1] \in GraphState
  BY <1>2, <1>3, Visits, NodeTypes
<1>5. after[2] \in GraphState /\ after[3] \in GraphState
  BY <1>2, <1>4, Visits, NodeTypes
<1>6. after[4] \in GraphState
  BY <1>2, <1>5, Visits, NodeTypes
<1>7. after[5] \in GraphState
  BY <1>2, <1>6, Visits, NodeTypes
<1>8. after[6] \in GraphState /\ (after[6].raised \/ Gated(after[6]))
  BY <1>2, <1>7, Visits, NodeTypes
<1>9. after[7] \in GraphState /\ (after[7].raised \/ Gated(after[7]))
  BY <1>2, <1>8, Visits, NodeTypes
<1>10. after[8] \in GraphState /\ (after[8].raised \/ Answered(after[8]))
  BY <1>2, <1>9, Visits, NodeTypes
<1>11. after[9] \in GraphState /\ (after[9].raised \/ Answered(after[9]))
  BY <1>2, <1>10, Visits, NodeTypes
<1>12. /\ after[10] \in GraphState
       /\ after[10].raised \/ (Answered(after[10]) /\ after[10].status = "succeeded")
  BY <1>2, <1>11, Visits, NodeTypes
<1> QED BY <1>1, <1>12

(* Three entries appended one after the other.                             *)
LEMMA ThreeAppended ==
    ASSUME NEW S, NEW a \in S, NEW b \in S, NEW c \in S
    PROVE  /\ Append(<<>>, a) = <<a>>
           /\ Append(<<a>>, b) = <<a, b>>
           /\ Append(<<a, b>>, c) = <<a, b, c>>
<1>1. <<>> \in Seq(S) /\ Len(<<>>) = 0
  OBVIOUS
<1>2. <<a>> \in Seq(S) /\ Len(<<a>>) = 1 /\ <<a>>[1] = a
  OBVIOUS
<1>3. <<a, b>> \in Seq(S) /\ Len(<<a, b>>) = 2 /\ <<a, b>>[1] = a /\ <<a, b>>[2] = b
  OBVIOUS
<1>4. /\ <<a, b, c>> \in Seq(S) /\ Len(<<a, b, c>>) = 3
      /\ <<a, b, c>>[1] = a /\ <<a, b, c>>[2] = b /\ <<a, b, c>>[3] = c
  OBVIOUS
<1>5. Append(<<>>, a) = <<a>>
  BY <1>1, <1>2, AppendProperties, SeqEqual
<1>6. Append(<<a>>, b) = <<a, b>>
  <2> DEFINE u == Append(<<a>>, b)
             t == <<a, b>>
  <2>1. u \in Seq(S) /\ Len(u) = 2 /\ u[1] = a /\ u[2] = b
    BY <1>2, AppendProperties
  <2>2. \A i \in 1 .. 2 : u[i] = t[i]
    <3> HIDE DEF u, t
    <3>1. t[1] = a /\ t[2] = b
      BY <1>3 DEF t
    <3>2. \A i \in 1 .. 2 : i = 1 \/ i = 2
      OBVIOUS
    <3> QED BY <2>1, <3>1, <3>2
  <2>3. t \in Seq(S) /\ Len(t) = 2
    BY <1>3
  <2> HIDE DEF u, t
  <2>4. u = t
    BY <2>1, <2>2, <2>3, SeqEqual
  <2> QED BY <2>4 DEF u, t
<1>7. Append(<<a, b>>, c) = <<a, b, c>>
  <2> DEFINE u == Append(<<a, b>>, c)
             t == <<a, b, c>>
  <2>1. u \in Seq(S) /\ Len(u) = 3 /\ u[1] = a /\ u[2] = b /\ u[3] = c
    BY <1>3, AppendProperties
  <2>2. \A i \in 1 .. 3 : u[i] = t[i]
    <3> HIDE DEF u, t
    <3>1. t[1] = a /\ t[2] = b /\ t[3] = c
      BY <1>4 DEF t
    <3>2. \A i \in 1 .. 3 : i = 1 \/ i = 2 \/ i = 3
      OBVIOUS
    <3> QED BY <2>1, <3>1, <3>2
  <2>3. t \in Seq(S) /\ Len(t) = 3
    BY <1>4
  <2> HIDE DEF u, t
  <2>4. u = t
    BY <2>1, <2>2, <2>3, SeqEqual
  <2> QED BY <2>4 DEF u, t
<1> QED BY <1>5, <1>6, <1>7

(* The row while its transaction writes it.                                *)
Milestones == {"run.created", "evidence.gate", "run.finalized"}
RunRow == [status : RunStatuses \cup {"none"}, version : Nat, events : Seq(Milestones),
           gate : Gates, answer : Answers, cited : SUBSET CitableIds]

LEMMA RowCreated ==
    /\ CreateAgentRun \in RunRow /\ CreateAgentRun.status = "queued"
    /\ CreateAgentRun.version = 1 /\ CreateAgentRun.events = <<>>
<1>1. /\ {} \in SUBSET CitableIds /\ <<>> \in Seq(Milestones) /\ 0 \in Nat /\ 1 \in Nat
      /\ "none" \in Gates /\ "none" \in Answers /\ "none" \in RunStatuses \cup {"none"}
      /\ "queued" \in RunStatuses \cup {"none"}
  BY DEF Gates, Answers, RunStatuses
<1>2. NoAgentRun \in RunRow /\ NoAgentRun.events = <<>>
  BY <1>1 DEF NoAgentRun, RunRow
<1>3. CreateAgentRun = [NoAgentRun EXCEPT !.status = "queued", !.version = 1]
  BY DEF CreateAgentRun
<1> HIDE DEF NoAgentRun
<1> QED BY <1>1, <1>2, <1>3 DEF RunRow

LEMMA MilestoneAppended ==
    ASSUME NEW r \in RunRow, NEW type \in Milestones
    PROVE  LET q == AppendMilestone(r, type)
           IN  /\ q \in RunRow /\ q.events = Append(r.events, type)
               /\ q.status = r.status /\ q.version = r.version /\ q.gate = r.gate
               /\ q.answer = r.answer /\ q.cited = r.cited
<1>1. Append(r.events, type) \in Seq(Milestones)
  BY DEF RunRow
<1> QED BY <1>1 DEF AppendMilestone, RunRow

LEMMA StatusSet ==
    ASSUME NEW r \in RunRow, NEW status \in RunStatuses, r.status \notin TerminalRunStatuses
    PROVE  LET q == SetStatus(r, status, r.version)
           IN  /\ q \in RunRow /\ q.status = status /\ q.version = r.version + 1
               /\ q.events = r.events /\ q.gate = r.gate
               /\ q.answer = r.answer /\ q.cited = r.cited
<1>1. r.version + 1 \in Nat
  BY DEF RunRow
<1>2. SetStatus(r, status, r.version) = [r EXCEPT !.status = status, !.version = r.version + 1]
  BY DEF SetStatus
<1> QED BY <1>1, <1>2 DEF RunRow

LEMMA GateSet ==
    ASSUME NEW r \in RunRow, NEW gate \in Gates
    PROVE  LET q == SetEvidenceGate(r, gate, r.version)
           IN  /\ q \in RunRow /\ q.gate = gate /\ q.version = r.version + 1
               /\ q.status = r.status /\ q.events = r.events /\ q.answer = r.answer
<1>1. r.version + 1 \in Nat
  BY DEF RunRow
<1>2. SetEvidenceGate(r, gate, r.version) = [r EXCEPT !.gate = gate, !.version = r.version + 1]
  BY DEF SetEvidenceGate
<1> QED BY <1>1, <1>2 DEF RunRow

LEMMA EvidenceCited ==
    ASSUME NEW r \in RunRow, NEW evidence \in SUBSET CitableIds
    PROVE  LET q == CiteEvidence(r, evidence)
           IN  /\ q \in RunRow /\ q.cited = evidence /\ q.version = r.version
               /\ q.status = r.status /\ q.events = r.events /\ q.answer = r.answer
BY DEF CiteEvidence, RunRow

LEMMA SnapshotSet ==
    ASSUME NEW r \in RunRow, NEW answer \in Answers
    PROVE  LET q == SetResultSnapshot(r, answer, r.version)
           IN  /\ q \in RunRow /\ q.answer = answer /\ q.version = r.version + 1
               /\ q.cited = r.cited /\ q.status = r.status /\ q.events = r.events
<1>1. r.version + 1 \in Nat
  BY DEF RunRow
<1>2. SetResultSnapshot(r, answer, r.version) =
        [r EXCEPT !.answer = answer, !.version = r.version + 1]
  BY DEF SetResultSnapshot
<1> QED BY <1>1, <1>2 DEF RunRow

(* What the transaction commits of a graph's final state.                  *)
LEMMA Committed ==
    ASSUME NEW g \in GraphState, GraphTransaction(g) # NoAgentRun, g.status = "succeeded"
    PROVE  LET r == GraphTransaction(g)
           IN  /\ r.status = "succeeded" /\ r.answer = g.answer /\ r.cited = g.evidence
               /\ r.events = <<"run.created", "evidence.gate", "run.finalized">>
<1>1. ~ g.raised
  BY DEF GraphTransaction
<1>2. g.gate \in Gates /\ g.answer \in Answers /\ g.evidence \in SUBSET CitableIds
  BY DEF GraphState
<1>3. /\ "running" \in RunStatuses /\ "succeeded" \in RunStatuses
      /\ "running" \notin TerminalRunStatuses /\ "queued" \notin TerminalRunStatuses
      /\ "run.created" \in Milestones /\ "evidence.gate" \in Milestones
      /\ "run.finalized" \in Milestones
  BY DEF RunStatuses, TerminalRunStatuses, Milestones
<1> DEFINE started  == SetStatus(CreateAgentRun, "running", 1)
           running  == AppendMilestone(started, "run.created")
           decided  == SetEvidenceGate(running, g.gate, 2)
           marked   == AppendMilestone(decided, "evidence.gate")
           gated    == CiteEvidence(marked, g.evidence)
           answered == SetResultSnapshot(gated, g.answer, 3)
           ended    == SetStatus(answered, g.status, 4)
<1>4. GraphTransaction(g) = AppendMilestone(ended, "run.finalized")
  BY <1>1 DEF GraphTransaction
<1>5. /\ started \in RunRow /\ started.status = "running" /\ started.version = 2
      /\ started.events = <<>>
  BY <1>3, RowCreated, StatusSet
<1> HIDE DEF started
<1>6. /\ running \in RunRow /\ running.status = "running" /\ running.version = 2
      /\ running.events = <<"run.created">>
  BY <1>3, <1>5, MilestoneAppended, ThreeAppended
<1> HIDE DEF running
<1>7. /\ decided \in RunRow /\ decided.status = "running" /\ decided.version = 3
      /\ decided.events = <<"run.created">>
  BY <1>2, <1>6, GateSet
<1> HIDE DEF decided
<1>8. /\ marked \in RunRow /\ marked.status = "running" /\ marked.version = 3
      /\ marked.events = <<"run.created", "evidence.gate">>
  <2>1. Append(decided.events, "evidence.gate") = <<"run.created", "evidence.gate">>
    BY <1>3, <1>7, ThreeAppended
  <2>2. /\ marked \in RunRow /\ marked.status = decided.status
        /\ marked.version = decided.version
        /\ marked.events = Append(decided.events, "evidence.gate")
    BY <1>3, <1>7, MilestoneAppended
  <2> QED BY <1>7, <2>1, <2>2
<1> HIDE DEF marked
<1>9. /\ gated \in RunRow /\ gated.status = "running" /\ gated.version = 3
      /\ gated.events = <<"run.created", "evidence.gate">> /\ gated.cited = g.evidence
  BY <1>2, <1>8, EvidenceCited
<1> HIDE DEF gated
<1>10. /\ answered \in RunRow /\ answered.status = "running" /\ answered.version = 4
       /\ answered.events = <<"run.created", "evidence.gate">> /\ answered.cited = g.evidence
       /\ answered.answer = g.answer
  BY <1>2, <1>9, SnapshotSet
<1> HIDE DEF answered
<1>11. /\ ended \in RunRow /\ ended.status = "succeeded"
       /\ ended.events = <<"run.created", "evidence.gate">> /\ ended.cited = g.evidence
       /\ ended.answer = g.answer
  BY <1>3, <1>10, StatusSet
<1> HIDE DEF ended
<1>12. Append(ended.events, "run.finalized") = <<"run.created", "evidence.gate", "run.finalized">>
  BY <1>3, <1>11, ThreeAppended
<1> DEFINE final == AppendMilestone(ended, "run.finalized")
<1>13. /\ final.status = ended.status /\ final.answer = ended.answer
       /\ final.cited = ended.cited /\ final.events = Append(ended.events, "run.finalized")
  BY <1>3, <1>11, MilestoneAppended
<1> HIDE DEF final
<1>14. GraphTransaction(g) = final
  BY <1>4 DEF final
<1> QED BY <1>11, <1>12, <1>13, <1>14

(* Every outcome of a request is whole.                                    *)
LEMMA OutcomesAreWhole ==
    ASSUME NEW r \in GraphOutcomes, r # NoAgentRun
    PROVE  /\ r.status = "succeeded"
           /\ r.events = <<"run.created", "evidence.gate", "run.finalized">>
           /\ (r.answer = "grounded") = (r.cited # {})
           /\ \A c \in Corpus : c.id \in r.cited =>
                 c.tenant = Tenant /\ c.source # "memory" /\ c.relevance >= RelevanceThreshold
<1>1. PICK request \in Request : r = GraphTransaction(RunGraph(request))
  BY DEF GraphOutcomes
<1> DEFINE g == RunGraph(request)
<1>2. g \in GraphState /\ (~ g.raised => Answered(g) /\ g.status = "succeeded")
  BY GraphResult
<1> HIDE DEF g
<1>3. ~ g.raised
  BY <1>1 DEF GraphTransaction, g
<1>4. /\ r.status = "succeeded" /\ r.answer = g.answer /\ r.cited = g.evidence
      /\ r.events = <<"run.created", "evidence.gate", "run.finalized">>
  BY <1>1, <1>2, <1>3, Committed DEF g
<1>5. ASSUME NEW c \in Corpus, c.id \in g.evidence
      PROVE  IsAcceptable(c)
  <2>1. g.evidence \subseteq CitableIds
    BY <1>2 DEF GraphState
  <2>2. PICK d \in Corpus : IsAcceptable(d) /\ d.id = c.id
    BY <1>5, <2>1 DEF CitableIds
  <2> QED BY <2>2, GraphAssumption
<1>6. \A c \in Corpus : IsAcceptable(c) =>
         c.tenant = Tenant /\ c.source # "memory" /\ c.relevance >= RelevanceThreshold
  BY DEF IsAcceptable, PolicySourceTypes
<1> QED BY <1>2, <1>3, <1>4, <1>5, <1>6 DEF Answered

(* No step but the run's own writes the row.                               *)
LEMMA RowWrittenOnce ==
    ASSUME StreamNext, ~ GraphRun
    PROVE  agentRun' = agentRun
<1>1. CASE CreateRun \/ CancelRun \/ Reap
  BY <1>1 DEF CreateRun, CancelRun, Reap, Silently
<1>2. ASSUME NEW w \in Owners,
             \/ Lease(w) \/ Start(w) \/ HandlerEnds(w) \/ ObserveCancel(w)
             \/ Complete(w) \/ Fail(w) \/ FinalizeCancel(w) \/ WorkerDies(w)
             \/ PublishEvent(w) \/ PublishFails(w)
      PROVE  agentRun' = agentRun
  BY <1>2 DEF Lease, Start, HandlerEnds, ObserveCancel, Complete, Fail, FinalizeCancel,
              WorkerDies, PublishEvent, PublishFails, Moves
<1>3. CASE StreamExpires \/ Connect \/ Disconnect \/ ConnStep
  BY <1>3 DEF StreamExpires, Connect, Disconnect, ConnStep, ReplayRead, GapCheck, ReadSnapshot,
              EmitFrame, ReplayDone, TailBlocks, TailReads, Heartbeat
<1> QED BY <1>1, <1>2, <1>3 DEF StreamNext

(* GraphService.run: whatever retrieval returns, however it is ordered and *)
(* whichever node raises, a committed run is whole; this is about every    *)
(* corpus, and lists of candidates of any length.                          *)
THEOREM SnapshotsAreWhole == StreamSpec => []SnapshotIsWhole
<1>1. StreamInit => SnapshotIsWhole
  BY DEF StreamInit, SnapshotIsWhole
<1>2. SnapshotIsWhole /\ [StreamNext]_vars => SnapshotIsWhole'
  <2> SUFFICES ASSUME SnapshotIsWhole, [StreamNext]_vars
               PROVE  SnapshotIsWhole'
    OBVIOUS
  <2>1. CASE agentRun' = agentRun
    BY <2>1 DEF SnapshotIsWhole
  <2>2. CASE GraphRun
    <3>1. agentRun' \in GraphOutcomes
      BY <2>2 DEF GraphRun
    <3> QED BY <3>1, OutcomesAreWhole DEF SnapshotIsWhole
  <2>3. CASE UNCHANGED vars
    BY <2>1, <2>3 DEF vars
  <2> QED BY <2>1, <2>2, <2>3, RowWrittenOnce
<1> QED BY <1>1, <1>2, PTL DEF StreamSpec

=============================================================================
