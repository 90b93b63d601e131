------------------------------ MODULE Approvals ------------------------------
(***************************************************************************)
(* ApprovalService (backend/app/approvals/service.py): change sets and the *)
(* human approvals bound to their action digest.                           *)
(*                                                                         *)
(* Every service call is a database session that loads rows, checks them   *)
(* and later writes them with a version compare-and-set.  The load and the *)
(* compare-and-set are separate steps here, so other sessions commit       *)
(* between them.  A session that passed its checks is a record in `txns`   *)
(* (approval writes) or `requests` (new approvals) holding the versions it *)
(* loaded; its commit either applies or, when a version moved, raises and  *)
(* rolls back.  A crash drops it.                                          *)
(*                                                                         *)
(* Digests stand for SHA-256 over the canonical action (digest.py): equal  *)
(* inputs have equal digests and the digests of different inputs differ.   *)
(***************************************************************************)
EXTENDS Naturals, FiniteSets

CONSTANTS ChangeSets,   \* change set rows
          ApprovalIds,  \* approval rows
          Digests,      \* action digests
          Users,        \* people who may decide
          Null,         \* the column value NULL
          MaxTxns       \* bound: sessions open at the same time

ASSUME NullAssumption == Null \notin Users \cup Digests \cup ChangeSets \cup ApprovalIds

VARIABLES changeSet,   \* change_sets: state and version of every row
          approval,    \* approval_requests: one record per row
          content,     \* digest of what each change set would do if sent now
          due,         \* approvals whose expires_at lies in the past
          authority,   \* users the authority check accepts now
          txns,        \* approval sessions between load and compare-and-set
          requests     \* request_approval sessions between load and compare-and-set

approvalVars == <<changeSet, approval, content, due, authority, txns, requests>>

-----------------------------------------------------------------------------
(* Rows.  An absent row has status or state "none" and version 0.          *)

ChangeSetStates == {"none", "ready", "awaiting_approval", "approved",
                    "rejected", "invalidated"}

ApprovalStatuses == {"pending", "approved", "rejected", "expired",
                     "invalidated", "consumed"}

ApprovalTransitions ==
    [pending     |-> {"approved", "rejected", "expired", "invalidated"},
     approved    |-> {"consumed", "invalidated", "expired"},
     rejected    |-> {}, expired |-> {}, invalidated |-> {}, consumed |-> {}]

ChangeSetRow == [state : ChangeSetStates, version : Nat]

ApprovalRow == [status : ApprovalStatuses \cup {"none"}, version : Nat,
                digest : Digests \cup {Null}, cs : ChangeSets \cup {Null},
                by : Users \cup {Null}]

NoApproval == [status |-> "none", version |-> 0, digest |-> Null, cs |-> Null,
               by |-> Null]

(* seen[a] is the version loaded for approval a, 0 when the session does   *)
(* not touch a.                                                            *)
Txn == [to : ApprovalStatuses, seen : [ApprovalIds -> Nat],
        by : Users \cup {Null}]

RequestTxn == [id : ApprovalIds, cs : ChangeSets, seen : Nat, digest : Digests]

Exists(a) == approval[a].status # "none"

Touched(t) == {a \in ApprovalIds : t.seen[a] # 0}

(* Sessions on one approval, as loaded now.                                *)
SeenNow(S) == [a \in ApprovalIds |-> IF a \in S THEN approval[a].version ELSE 0]

Room == Cardinality(txns) + Cardinality(requests) < MaxTxns

-----------------------------------------------------------------------------
ApprovalInit ==
    /\ changeSet = [c \in ChangeSets |-> [state |-> "none", version |-> 0]]
    /\ approval = [a \in ApprovalIds |-> NoApproval]
    /\ content \in [ChangeSets -> Digests]
    /\ due = {}
    /\ authority = Users
    /\ txns = {}
    /\ requests = {}

(* create_change_set: validation of the items is a refusal without effect; *)
(* an accepted change set is inserted in state "ready".                    *)
CreateChangeSet(c) ==
    /\ changeSet[c].state = "none"
    /\ changeSet' = [changeSet EXCEPT ![c] = [state |-> "ready", version |-> 1]]
    /\ UNCHANGED <<approval, content, due, authority, txns, requests>>

(* request_approval up to the compare-and-set of the change set.           *)
RequestApproval(a, c) ==
    /\ Room
    /\ ~ Exists(a)
    /\ changeSet[c].state = "ready"
    /\ \A r \in requests : r.id # a
    /\ requests' = requests \cup {[id |-> a, cs |-> c, digest |-> content[c],
                                   seen |-> changeSet[c].version]}
    /\ UNCHANGED <<changeSet, approval, content, due, authority, txns>>

(* Mutant: the compare-and-set of the change set drops its version test.   *)
RequestApprovalCommitNoCas(r) ==
    /\ requests' = requests \ {r}
    /\ approval' = [approval EXCEPT ![r.id] =
                      [status |-> "pending", version |-> 1, digest |-> r.digest,
                       cs |-> r.cs, by |-> Null]]
    /\ changeSet' = [changeSet EXCEPT ![r.cs] = [state |-> "awaiting_approval",
                                                 version |-> @.version + 1]]
    /\ UNCHANGED <<content, due, authority, txns>>

CasChangeSet(c, state) ==
    [changeSet EXCEPT ![c] = [state |-> state, version |-> @.version + 1]]

(* request_approval's commit: the approval row and the change set's move   *)
(* to awaiting_approval are one transaction; a moved version rolls back.   *)
RequestApprovalCommit(r) ==
    /\ requests' = requests \ {r}
    /\ IF changeSet[r.cs].version = r.seen
         THEN /\ approval' = [approval EXCEPT ![r.id] =
                                [status |-> "pending", version |-> 1, digest |-> r.digest,
                                 cs |-> r.cs, by |-> Null]]
              /\ changeSet' = CasChangeSet(r.cs, "awaiting_approval")
         ELSE UNCHANGED <<approval, changeSet>>
    /\ UNCHANGED <<content, due, authority, txns>>

Open(t) ==
    /\ Room
    /\ txns' = txns \cup {t}
    /\ UNCHANGED <<changeSet, approval, content, due, authority, requests>>

(* Mutant: decide does not test that the approval is still pending.        *)
DecideAgain(a, user, verdict, version, digest) ==
    /\ user \in authority
    /\ approval[a].version = version
    /\ \/ a \in due /\ Open([to |-> "expired", seen |-> SeenNow({a}), by |-> Null])
       \/ /\ a \notin due
          /\ digest = approval[a].digest
          /\ Open([to |-> verdict, seen |-> SeenNow({a}), by |-> user])

(* decide, up to its compare-and-set: authority, then version, pending,    *)
(* expiry and digest, in that order.  An expired row is moved to "expired" *)
(* instead of being decided.                                               *)
Decide(a, user, verdict, version, digest) ==
    /\ user \in authority
    /\ approval[a].version = version
    /\ approval[a].status = "pending"
    /\ \/ a \in due /\ Open([to |-> "expired", seen |-> SeenNow({a}), by |-> Null])
       \/ /\ a \notin due
          /\ digest = approval[a].digest
          /\ Open([to |-> verdict, seen |-> SeenNow({a}), by |-> user])

(* invalidate_if_changed, up to its compare-and-set.                       *)
InvalidateIfChanged(a) ==
    /\ approval[a].status \in {"pending", "approved"}
    /\ content[approval[a].cs] # approval[a].digest
    /\ Open([to |-> "invalidated", seen |-> SeenNow({a}), by |-> Null])

(* expire_due: one session for every live approval past its deadline.      *)
ExpireDue ==
    LET rows == {a \in due : approval[a].status \in {"pending", "approved"}}
    IN  /\ rows # {}
        /\ Open([to |-> "expired", seen |-> SeenNow(rows), by |-> Null])

(* Mutant: an invalidation moves the approval only, as an expiry does.     *)
NextChangeSetKeepsInvalidated(c, to) ==
    IF to \in {"approved", "rejected"} THEN CasChangeSet(c, to) ELSE changeSet

(* What the commit of t does to the change set of an approval it moves:    *)
(* a decision carries over, an invalidation only from a live state, an     *)
(* expiry leaves the change set alone.                                     *)
NextChangeSet(c, to) ==
    CASE to \in {"approved", "rejected"} -> CasChangeSet(c, to)
      [] to = "invalidated" /\ changeSet[c].state \in {"awaiting_approval", "approved"}
                 -> CasChangeSet(c, to)
      [] OTHER   -> changeSet

(* _cas_approval holds for every row of the session, or it raises and the  *)
(* whole session rolls back.                                               *)
CasHolds(t) == \A a \in Touched(t) : approval[a].version = t.seen[a]

ApplyApproval(t) ==
    [a \in ApprovalIds |->
        IF a \in Touched(t)
          THEN [approval[a] EXCEPT !.status = t.to, !.version = @ + 1,
                                   !.by = IF t.by = Null THEN @ ELSE t.by]
          ELSE approval[a]]

CommitTxn(t) ==
    /\ txns' = txns \ {t}
    /\ \/ /\ CasHolds(t)
          /\ approval' = ApplyApproval(t)
          /\ IF t.to = "expired"
               THEN UNCHANGED changeSet
               ELSE \E a \in Touched(t) : changeSet' = NextChangeSet(approval[a].cs, t.to)
       \/ ~ CasHolds(t) /\ UNCHANGED <<approval, changeSet>>
    /\ UNCHANGED <<content, due, authority, requests>>

(* The process or its connection dies: an open session rolls back.         *)
LoseTxn(t) ==
    /\ txns' = txns \ {t}
    /\ UNCHANGED <<changeSet, approval, content, due, authority, requests>>

LoseRequest(r) ==
    /\ requests' = requests \ {r}
    /\ UNCHANGED <<changeSet, approval, content, due, authority, txns>>

(* Environment: the bound inputs are edited, a deadline passes, a grant    *)
(* changes.                                                                *)
EditBoundInput(c, d) ==
    /\ content[c] # d
    /\ content' = [content EXCEPT ![c] = d]
    /\ UNCHANGED <<changeSet, approval, due, authority, txns, requests>>

DeadlinePasses(a) ==
    /\ Exists(a) /\ a \notin due
    /\ due' = due \cup {a}
    /\ UNCHANGED <<changeSet, approval, content, authority, txns, requests>>

ChangeAuthority(u) ==
    /\ authority' = IF u \in authority THEN authority \ {u} ELSE authority \cup {u}
    /\ UNCHANGED <<changeSet, approval, content, due, txns, requests>>

ApprovalStep ==
    \/ \E c \in ChangeSets : CreateChangeSet(c)
    \/ \E a \in ApprovalIds, c \in ChangeSets : RequestApproval(a, c)
    \/ \E r \in requests : RequestApprovalCommit(r)
    \/ \E a \in ApprovalIds, u \in Users, v \in {"approved", "rejected"},
          d \in Digests :
            \E version \in 1 .. approval[a].version : Decide(a, u, v, version, d)
    \/ \E a \in ApprovalIds : InvalidateIfChanged(a)
    \/ ExpireDue
    \/ \E t \in txns : CommitTxn(t)
    \/ \E t \in txns : LoseTxn(t)
    \/ \E r \in requests : LoseRequest(r)
    \/ \E c \in ChangeSets, d \in Digests : EditBoundInput(c, d)
    \/ \E a \in ApprovalIds : DeadlinePasses(a)
    \/ \E u \in Users : ChangeAuthority(u)

ApprovalSpec == ApprovalInit /\ [][ApprovalStep]_approvalVars

-----------------------------------------------------------------------------
(* Type invariant: the tables hold rows and sessions of the declared shape. *)
ApprovalTypeOK ==
    /\ changeSet \in [ChangeSets -> ChangeSetRow]
    /\ approval \in [ApprovalIds -> ApprovalRow]
    /\ content \in [ChangeSets -> Digests]
    /\ due \subseteq ApprovalIds
    /\ authority \subseteq Users
    /\ txns \subseteq Txn
    /\ requests \subseteq RequestTxn

(* "A change set cannot have two live approvals racing" (request_approval): *)
(* whatever concurrent requesters, deciders, invalidations and sweeps do,   *)
(* at most one approval row ever exists for a change set.                   *)
OneApprovalPerChangeSet ==
    \A a, b \in ApprovalIds :
        Exists(a) /\ Exists(b) /\ approval[a].cs = approval[b].cs => a = b

(* The change set and its approval tell the same story: decide, reject and  *)
(* invalidate move both rows; expiry (decide's expired branch, expire_due)  *)
(* moves only the approval, so a change set whose approval expired keeps    *)
(* the state it had.                                                        *)
ChangeSetAgrees ==
    \A a \in ApprovalIds : Exists(a) =>
        LET s == changeSet[approval[a].cs].state
            status == approval[a].status
        IN  /\ status = "pending" => s = "awaiting_approval"
            /\ status \in {"approved", "consumed"} => s = "approved"
            /\ status = "expired" => s \in {"awaiting_approval", "approved"}
            /\ status \in {"rejected", "invalidated"} => s = status

(* What the decisions of a change set rest on: it has one approval, and the *)
(* two rows tell one story, although each session writes them from versions *)
(* that it loaded before others wrote.                                      *)
RowsTellOneStory == OneApprovalPerChangeSet /\ ChangeSetAgrees

(* Every step of an approval follows APPROVAL_TRANSITIONS, although         *)
(* expire_due and the expired branch of decide never consult the table: a   *)
(* terminal approval is never reopened and a decision is made only once.    *)
LegalApprovalSteps ==
    [][\A a \in ApprovalIds :
          LET from == approval[a].status
              to   == approval'[a].status
          IN  \/ to = from
              \/ from = "none" /\ to = "pending"
              \/ from # "none" /\ to \in ApprovalTransitions[from]]_approvalVars
=============================================================================
