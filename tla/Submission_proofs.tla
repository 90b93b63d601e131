-------------------------- MODULE Submission_proofs --------------------------
(* Proofs about Approvals and Submission, for any number of approvals,     *)
(* users, sessions, callers, crashes and attempts: the safety properties   *)
(* and the refinement of GovernedAction.                                   *)
EXTENDS Submission, FiniteSetTheorems, TLAPS

-----------------------------------------------------------------------------
(* The approval service by itself.                                         *)

(* The snapshot a session takes has the declared shape.                    *)
LEMMA SeenNowType ==
    ASSUME ApprovalTypeOK, NEW S
    PROVE  SeenNow(S) \in [ApprovalIds -> Nat]
BY DEF ApprovalTypeOK, SeenNow, ApprovalRow

(* The change set table keeps its shape under the compare-and-set.         *)
LEMMA CasChangeSetType ==
    ASSUME ApprovalTypeOK, NEW c, NEW s \in ChangeSetStates
    PROVE  CasChangeSet(c, s) \in [ChangeSets -> ChangeSetRow]
<1>1. \A k \in ChangeSets : changeSet[k] \in ChangeSetRow
  BY DEF ApprovalTypeOK
<1>2. CASE c \in ChangeSets
  <2>1. [state |-> s, version |-> changeSet[c].version + 1] \in ChangeSetRow
    BY <1>1, <1>2 DEF ChangeSetRow
  <2> QED BY <2>1, <1>1 DEF ApprovalTypeOK, CasChangeSet
<1>3. CASE c \notin ChangeSets
  BY <1>1, <1>3 DEF ApprovalTypeOK, CasChangeSet
<1> QED BY <1>2, <1>3

(* Whatever a commit does to the change set, the table keeps its shape.    *)
LEMMA NextChangeSetType ==
    ASSUME ApprovalTypeOK, NEW c, NEW to \in ApprovalStatuses
    PROVE  NextChangeSet(c, to) \in [ChangeSets -> ChangeSetRow]
<1>1. ASSUME NEW s \in ChangeSetStates
      PROVE  CasChangeSet(c, s) \in [ChangeSets -> ChangeSetRow]
  BY CasChangeSetType
<1>2. "approved" \in ChangeSetStates /\ "rejected" \in ChangeSetStates
      /\ "invalidated" \in ChangeSetStates
  BY DEF ChangeSetStates
<1>3. CASE to \in {"approved", "rejected"}
  BY <1>1, <1>2, <1>3 DEF NextChangeSet
<1>4. CASE to = "invalidated" /\ changeSet[c].state \in {"awaiting_approval", "approved"}
  BY <1>1, <1>2, <1>4 DEF NextChangeSet
<1>5. CASE /\ to \notin {"approved", "rejected"}
           /\ ~ (to = "invalidated" /\ changeSet[c].state \in {"awaiting_approval", "approved"})
  BY <1>5 DEF NextChangeSet, ApprovalTypeOK
<1> QED BY <1>3, <1>4, <1>5

(* The approval table keeps its shape when a session commits.              *)
LEMMA ApplyApprovalType ==
    ASSUME ApprovalTypeOK, NEW t \in Txn
    PROVE  ApplyApproval(t) \in [ApprovalIds -> ApprovalRow]
<1> SUFFICES ASSUME NEW a \in ApprovalIds
             PROVE  ApplyApproval(t)[a] \in ApprovalRow
  BY DEF ApplyApproval
<1>1. approval[a] \in ApprovalRow
  BY DEF ApprovalTypeOK
<1>2. CASE a \in Touched(t)
  <2> DEFINE by == IF t.by = Null THEN approval[a].by ELSE t.by
  <2>1. /\ t.to \in ApprovalStatuses \cup {"none"}
        /\ by \in Users \cup {Null}
        /\ approval[a].version + 1 \in Nat
    BY <1>1 DEF ApprovalRow, Txn
  <2>2. ApplyApproval(t)[a] = [approval[a] EXCEPT !.status = t.to,
                                  !.version = approval[a].version + 1, !.by = by]
    BY <1>2 DEF ApplyApproval
  <2> QED BY <1>1, <2>1, <2>2 DEF ApprovalRow
<1>3. CASE a \notin Touched(t)
  BY <1>1, <1>3 DEF ApplyApproval
<1> QED BY <1>2, <1>3

(* Opening a session keeps the types.                                      *)
LEMMA OpenType ==
    ASSUME ApprovalTypeOK, NEW t \in Txn, Open(t)
    PROVE  ApprovalTypeOK'
BY DEF ApprovalTypeOK, Open

(* One step of the approval service preserves the type invariant.          *)
LEMMA ApprovalTypeStep ==
    ASSUME ApprovalTypeOK, [ApprovalStep]_approvalVars
    PROVE  ApprovalTypeOK'
<1>1. ASSUME NEW c \in ChangeSets, CreateChangeSet(c) PROVE ApprovalTypeOK'
  BY <1>1 DEF CreateChangeSet, ApprovalTypeOK, ChangeSetRow, ChangeSetStates
<1>2. ASSUME NEW a \in ApprovalIds, NEW c \in ChangeSets, RequestApproval(a, c)
      PROVE  ApprovalTypeOK'
  BY <1>2 DEF RequestApproval, ApprovalTypeOK, RequestTxn, ChangeSetRow
<1>3. ASSUME NEW r \in requests, RequestApprovalCommit(r) PROVE ApprovalTypeOK'
  <2>1. r \in RequestTxn
    BY DEF ApprovalTypeOK
  <2>2. CasChangeSet(r.cs, "awaiting_approval") \in [ChangeSets -> ChangeSetRow]
    BY CasChangeSetType DEF ChangeSetStates
  <2>3. changeSet' \in [ChangeSets -> ChangeSetRow]
    BY <1>3, <2>2 DEF RequestApprovalCommit, ApprovalTypeOK
  <2>4. approval' \in [ApprovalIds -> ApprovalRow]
    BY <1>3, <2>1 DEF RequestApprovalCommit, ApprovalTypeOK, RequestTxn,
                      ApprovalRow, ApprovalStatuses
  <2> QED BY <1>3, <2>3, <2>4 DEF RequestApprovalCommit, ApprovalTypeOK
<1>4. ASSUME NEW a \in ApprovalIds, NEW u \in Users, NEW v \in {"approved", "rejected"},
             NEW version, NEW d, Decide(a, u, v, version, d)
      PROVE  ApprovalTypeOK'
  <2>1. [to |-> "expired", seen |-> SeenNow({a}), by |-> Null] \in Txn
    BY SeenNowType DEF Txn, ApprovalStatuses
  <2>2. [to |-> v, seen |-> SeenNow({a}), by |-> u] \in Txn
    BY SeenNowType DEF Txn, ApprovalStatuses
  <2> QED BY <1>4, <2>1, <2>2, OpenType DEF Decide
<1>5. ASSUME NEW a \in ApprovalIds, InvalidateIfChanged(a) PROVE ApprovalTypeOK'
  <2>1. [to |-> "invalidated", seen |-> SeenNow({a}), by |-> Null] \in Txn
    BY SeenNowType DEF Txn, ApprovalStatuses
  <2> QED BY <1>5, <2>1, OpenType DEF InvalidateIfChanged
<1>6. ASSUME ExpireDue PROVE ApprovalTypeOK'
  <2> DEFINE rows == {a \in due : approval[a].status \in {"pending", "approved"}}
  <2>1. [to |-> "expired", seen |-> SeenNow(rows), by |-> Null] \in Txn
    BY SeenNowType DEF Txn, ApprovalStatuses
  <2>2. Open([to |-> "expired", seen |-> SeenNow(rows), by |-> Null])
    BY <1>6 DEF ExpireDue
  <2> QED BY <2>1, <2>2, OpenType
<1>7. ASSUME NEW t \in txns, CommitTxn(t) PROVE ApprovalTypeOK'
  <2>1. t \in Txn
    BY DEF ApprovalTypeOK
  <2>2. changeSet' \in [ChangeSets -> ChangeSetRow]
    <3>1. ASSUME NEW c PROVE NextChangeSet(c, t.to) \in [ChangeSets -> ChangeSetRow]
      BY <2>1, NextChangeSetType DEF Txn
    <3> QED BY <1>7, <3>1 DEF CommitTxn, ApprovalTypeOK
  <2>3. approval' \in [ApprovalIds -> ApprovalRow]
    BY <1>7, <2>1, ApplyApprovalType DEF CommitTxn, ApprovalTypeOK
  <2> QED BY <1>7, <2>2, <2>3 DEF CommitTxn, ApprovalTypeOK
<1>8. ASSUME NEW t \in txns, LoseTxn(t) PROVE ApprovalTypeOK'
  BY <1>8 DEF LoseTxn, ApprovalTypeOK
<1>9. ASSUME NEW r \in requests, LoseRequest(r) PROVE ApprovalTypeOK'
  BY <1>9 DEF LoseRequest, ApprovalTypeOK
<1>10. ASSUME NEW c \in ChangeSets, NEW d \in Digests, EditBoundInput(c, d)
       PROVE  ApprovalTypeOK'
  BY <1>10 DEF EditBoundInput, ApprovalTypeOK
<1>11. ASSUME NEW a \in ApprovalIds, DeadlinePasses(a) PROVE ApprovalTypeOK'
  BY <1>11 DEF DeadlinePasses, ApprovalTypeOK
<1>12. ASSUME NEW u \in Users, ChangeAuthority(u) PROVE ApprovalTypeOK'
  BY <1>12 DEF ChangeAuthority, ApprovalTypeOK
<1>13. CASE UNCHANGED approvalVars
  BY <1>13 DEF approvalVars, ApprovalTypeOK
<1> QED BY <1>1, <1>2, <1>3, <1>4, <1>5, <1>6, <1>7, <1>8, <1>9, <1>10, <1>11, <1>12,
           <1>13 DEF ApprovalStep

(* The rows and sessions always have the declared shape.                   *)
THEOREM ApprovalTypeCorrect == ApprovalSpec => []ApprovalTypeOK
<1>1. ApprovalInit => ApprovalTypeOK
  BY DEF ApprovalInit, ApprovalTypeOK, ChangeSetRow, ChangeSetStates, ApprovalRow,
         NoApproval
<1>2. ApprovalTypeOK /\ [ApprovalStep]_approvalVars => ApprovalTypeOK'
  BY ApprovalTypeStep
<1> QED BY <1>1, <1>2, PTL DEF ApprovalSpec

-----------------------------------------------------------------------------
(* The inductive invariant behind the safety properties.  The point is     *)
(* what an open session may rely on: versions only grow, so a session      *)
(* whose compare-and-set will hold has loaded the row as it is now, and    *)
(* the checks it made then are true now.                                   *)
SoundTxn(t) ==
    /\ t.to # "consumed"
    /\ t.to = "approved" => t.by \in Users
    /\ t.to # "expired" => \A a, b \in Touched(t) : a = b
    /\ \A a \in Touched(t) :
          /\ t.seen[a] <= approval[a].version
          /\ t.seen[a] = approval[a].version =>
                Exists(a) /\ t.to \in ApprovalTransitions[approval[a].status]

TxnSound == \A t \in txns : SoundTxn(t)

RequestSound ==
    /\ \A r \in requests :
          /\ ~ Exists(r.id)
          /\ changeSet[r.cs].state # "none"
          /\ r.seen <= changeSet[r.cs].version
          /\ r.seen = changeSet[r.cs].version => changeSet[r.cs].state = "ready"
    /\ \A q, r \in requests : q.id = r.id => q = r

RowsSound ==
    \A a \in ApprovalIds :
        /\ ~ Exists(a) => approval[a].version = 0
        /\ Exists(a) => approval[a].cs \in ChangeSets
        /\ approval[a].status \in {"approved", "consumed"} => approval[a].by \in Users

ApprovalInv ==
    /\ ApprovalTypeOK
    /\ TxnSound
    /\ RequestSound
    /\ RowsSound
    /\ OneApprovalPerChangeSet
    /\ ChangeSetAgrees

(* Steps that write no row keep the invariant: sessions end, the world     *)
(* around the service changes.                                             *)
LEMMA NoWriteInv ==
    ASSUME ApprovalInv, ApprovalTypeOK', UNCHANGED <<changeSet, approval>>,
           txns' \subseteq txns, requests' \subseteq requests
    PROVE  ApprovalInv'
<1>1. TxnSound'
  BY DEF ApprovalInv, TxnSound, SoundTxn, Touched, Exists
<1>2. RequestSound'
  BY DEF ApprovalInv, RequestSound, Exists
<1>3. RowsSound' /\ OneApprovalPerChangeSet' /\ ChangeSetAgrees'
  BY DEF ApprovalInv, RowsSound, OneApprovalPerChangeSet, ChangeSetAgrees, Exists
<1> QED BY <1>1, <1>2, <1>3 DEF ApprovalInv

(* Opening a sound session keeps the invariant.                            *)
LEMMA OpenInv ==
    ASSUME ApprovalInv, NEW t \in Txn, Open(t), SoundTxn(t)
    PROVE  ApprovalInv'
<1>1. ApprovalTypeOK'
  BY OpenType DEF ApprovalInv
<1>2. TxnSound'
  BY DEF ApprovalInv, TxnSound, SoundTxn, Touched, Exists, Open
<1>3. RequestSound' /\ RowsSound' /\ OneApprovalPerChangeSet' /\ ChangeSetAgrees'
  BY DEF ApprovalInv, RequestSound, RowsSound, OneApprovalPerChangeSet,
         ChangeSetAgrees, Exists, Open
<1> QED BY <1>1, <1>2, <1>3 DEF ApprovalInv

(* A session that loads live rows now and leads them to a state the table  *)
(* allows is sound.                                                        *)
LEMMA LoadedTxnSound ==
    ASSUME ApprovalTypeOK, NEW S \in SUBSET ApprovalIds, NEW to, NEW by,
           to # "consumed", to = "approved" => by \in Users,
           to # "expired" => \A a, b \in S : a = b,
           \A a \in S : Exists(a) /\ to \in ApprovalTransitions[approval[a].status]
    PROVE  SoundTxn([to |-> to, seen |-> SeenNow(S), by |-> by])
<1> DEFINE t == [to |-> to, seen |-> SeenNow(S), by |-> by]
<1>1. \A a \in Touched(t) : a \in S /\ t.seen[a] = approval[a].version
  BY DEF Touched, SeenNow
<1>2. \A a \in ApprovalIds : approval[a].version \in Nat
  BY DEF ApprovalTypeOK, ApprovalRow
<1>3. \A a \in Touched(t) : a \in ApprovalIds
  BY DEF Touched
<1>4. t.to = to /\ t.by = by
  OBVIOUS
<1> HIDE DEF t
<1> QED
  <2>1. SoundTxn(t)
    BY <1>1, <1>2, <1>3, <1>4 DEF SoundTxn
  <2> QED BY <2>1 DEF t

(* create_change_set keeps the invariant: no approval is bound to a change *)
(* set that does not exist yet.                                            *)
LEMMA CreateChangeSetInv ==
    ASSUME ApprovalInv, ApprovalTypeOK', NEW c \in ChangeSets, CreateChangeSet(c)
    PROVE  ApprovalInv'
<1> USE DEF ApprovalInv
<1>1. /\ changeSet'[c].state = "ready" /\ changeSet'[c].version = 1
      /\ \A k \in ChangeSets \ {c} : changeSet'[k] = changeSet[k]
      /\ UNCHANGED <<approval, txns, requests>>
  BY DEF CreateChangeSet, ApprovalTypeOK
<1>2. \A a \in ApprovalIds : Exists(a) => approval[a].cs \in ChangeSets \ {c}
  <2> SUFFICES ASSUME NEW a \in ApprovalIds, Exists(a), approval[a].cs = c PROVE FALSE
    BY DEF RowsSound
  <2>1. approval[a].status \in ApprovalStatuses
    BY DEF ApprovalTypeOK, ApprovalRow, Exists
  <2> QED BY <2>1 DEF ChangeSetAgrees, CreateChangeSet, ApprovalStatuses
<1>3. TxnSound' /\ RowsSound' /\ OneApprovalPerChangeSet'
  BY <1>1 DEF TxnSound, SoundTxn, Touched, Exists, RowsSound, OneApprovalPerChangeSet
<1>4. RequestSound'
  <2>1. ASSUME NEW r \in requests PROVE r.cs \in ChangeSets \ {c}
    BY DEF RequestSound, CreateChangeSet, ApprovalTypeOK, RequestTxn
  <2> QED BY <1>1, <2>1 DEF RequestSound, Exists
<1>5. ChangeSetAgrees'
  BY <1>1, <1>2 DEF ChangeSetAgrees, Exists
<1> QED BY <1>3, <1>4, <1>5

(* request_approval up to its compare-and-set keeps the invariant.         *)
LEMMA RequestApprovalInv ==
    ASSUME ApprovalInv, ApprovalTypeOK', NEW a \in ApprovalIds, NEW c \in ChangeSets,
           RequestApproval(a, c)
    PROVE  ApprovalInv'
<1> DEFINE new == [id |-> a, cs |-> c, digest |-> content[c],
                   seen |-> changeSet[c].version]
<1>1. requests' = requests \cup {new} /\ UNCHANGED <<changeSet, approval, txns>>
  BY DEF RequestApproval
<1>2. TxnSound' /\ RowsSound' /\ OneApprovalPerChangeSet' /\ ChangeSetAgrees'
  BY <1>1 DEF ApprovalInv, TxnSound, SoundTxn, Touched, Exists, RowsSound,
              OneApprovalPerChangeSet, ChangeSetAgrees
<1>3. changeSet[c].version \in Nat
  BY DEF ApprovalInv, ApprovalTypeOK, ChangeSetRow
<1>4. RequestSound'
  <2>1. new.id = a /\ new.cs = c /\ new.seen = changeSet[c].version
    OBVIOUS
  <2> HIDE DEF new
  <2> QED BY <1>1, <1>3, <2>1 DEF ApprovalInv, RequestSound, RequestApproval, Exists
<1> QED BY <1>2, <1>4 DEF ApprovalInv

(* request_approval's commit keeps the invariant: a change set that is     *)
(* still at the version loaded is "ready", so no approval is bound to it.  *)
LEMMA RequestApprovalCommitInv ==
    ASSUME ApprovalInv, ApprovalTypeOK', NEW r \in requests, RequestApprovalCommit(r)
    PROVE  ApprovalInv'
<1> USE DEF ApprovalInv
<1>0. r.id \in ApprovalIds /\ r.cs \in ChangeSets /\ r.seen \in Nat
  BY DEF ApprovalTypeOK, RequestTxn
<1>1. CASE changeSet[r.cs].version # r.seen
  <2>1. UNCHANGED <<changeSet, approval, txns>> /\ requests' \subseteq requests
    BY <1>1 DEF RequestApprovalCommit
  <2> QED BY <2>1, NoWriteInv
<1>2. CASE changeSet[r.cs].version = r.seen
  <2>1. /\ approval'[r.id] = [status |-> "pending", version |-> 1, digest |-> r.digest,
                              cs |-> r.cs, by |-> Null]
        /\ \A a \in ApprovalIds \ {r.id} : approval'[a] = approval[a]
        /\ changeSet'[r.cs] = [state |-> "awaiting_approval",
                               version |-> changeSet[r.cs].version + 1]
        /\ \A c \in ChangeSets \ {r.cs} : changeSet'[c] = changeSet[c]
        /\ requests' = requests \ {r} /\ txns' = txns
    BY <1>0, <1>2 DEF RequestApprovalCommit, CasChangeSet, ApprovalTypeOK
  <2>2. changeSet[r.cs].state = "ready" /\ ~ Exists(r.id)
    BY <1>2 DEF RequestSound
  <2>3. \A a \in ApprovalIds : Exists(a) => approval[a].cs # r.cs
    <3>1. \A a \in ApprovalIds : Exists(a) => approval[a].status \in ApprovalStatuses
      BY DEF ApprovalTypeOK, ApprovalRow, Exists
    <3> QED BY <2>2, <3>1 DEF ChangeSetAgrees, ApprovalStatuses
  <2>4. TxnSound'
    <3> SUFFICES ASSUME NEW t \in txns PROVE SoundTxn(t)'
      BY <2>1 DEF TxnSound
    <3>1. r.id \notin Touched(t)
      <4>1. t.seen[r.id] \in Nat /\ approval[r.id].version = 0
        BY <1>0, <2>2 DEF ApprovalTypeOK, Txn, RowsSound
      <4> QED BY <4>1 DEF TxnSound, SoundTxn, Touched
    <3>2. \A a \in Touched(t) : a \in ApprovalIds \ {r.id}
      BY <3>1 DEF Touched
    <3> QED BY <2>1, <3>2 DEF TxnSound, SoundTxn, Touched, Exists
  <2>5. RequestSound'
    <3> SUFFICES ASSUME NEW q \in requests, q # r
                 PROVE  /\ ~ Exists(q.id)'
                        /\ changeSet'[q.cs].state # "none"
                        /\ q.seen <= changeSet'[q.cs].version
                        /\ q.seen = changeSet'[q.cs].version
                              => changeSet'[q.cs].state = "ready"
      BY <2>1 DEF RequestSound
    <3>1. q.id \in ApprovalIds \ {r.id} /\ q.cs \in ChangeSets /\ q.seen \in Nat
      BY DEF RequestSound, ApprovalTypeOK, RequestTxn
    <3>2. ~ Exists(q.id)'
      BY <2>1, <3>1 DEF RequestSound, Exists
    <3>3. CASE q.cs = r.cs
      <4>1. q.seen <= changeSet[r.cs].version /\ changeSet[r.cs].version \in Nat
        BY <3>3, <1>0 DEF RequestSound, ApprovalTypeOK, ChangeSetRow
      <4>2. changeSet'[q.cs].version = changeSet[r.cs].version + 1
            /\ changeSet'[q.cs].state = "awaiting_approval"
        BY <2>1, <3>3
      <4> QED BY <3>1, <3>2, <4>1, <4>2
    <3>4. CASE q.cs # r.cs
      BY <2>1, <3>1, <3>2, <3>4 DEF RequestSound
    <3> QED BY <3>3, <3>4
  <2>6. RowsSound' /\ OneApprovalPerChangeSet' /\ ChangeSetAgrees'
    <3>1. \A a \in ApprovalIds : Exists(a) => a # r.id /\ approval[a].cs \in ChangeSets \ {r.cs}
      BY <2>2, <2>3 DEF RowsSound
    <3>2. \A a \in ApprovalIds : Exists(a)' <=> Exists(a) \/ a = r.id
      BY <2>1 DEF Exists
    <3>3. RowsSound'
      BY <1>0, <2>1, <3>2 DEF RowsSound, Exists
    <3>4. OneApprovalPerChangeSet'
      BY <1>0, <2>1, <3>1, <3>2 DEF OneApprovalPerChangeSet
    <3>5. ChangeSetAgrees'
      BY <1>0, <2>1, <3>1, <3>2 DEF ChangeSetAgrees
    <3> QED BY <3>3, <3>4, <3>5
  <2> QED BY <2>4, <2>5, <2>6
<1> QED BY <1>1, <1>2

(* What a session that wins its compare-and-set finds: every row it loaded *)
(* is unchanged, so the move it prepared is legal.                         *)
LEMMA CommitIsLegal ==
    ASSUME ApprovalInv, NEW t \in txns, CasHolds(t), NEW a \in Touched(t)
    PROVE  /\ a \in ApprovalIds
           /\ approval[a].status \in {"pending", "approved"}
           /\ t.to \in ApprovalTransitions[approval[a].status]
           /\ t.to \in {"approved", "rejected", "expired", "invalidated"}
           /\ t.to \in {"approved", "rejected"} => approval[a].status = "pending"
<1>1. a \in ApprovalIds /\ t.to # "consumed"
  BY DEF Touched, ApprovalInv, TxnSound, SoundTxn
<1>2. Exists(a) /\ t.to \in ApprovalTransitions[approval[a].status]
  BY DEF CasHolds, ApprovalInv, TxnSound, SoundTxn
<1>3. approval[a].status \in ApprovalStatuses
  BY <1>1, <1>2 DEF ApprovalInv, ApprovalTypeOK, ApprovalRow, Exists
<1> QED BY <1>1, <1>2, <1>3 DEF ApprovalStatuses, ApprovalTransitions

(* The rows after a commit that won its compare-and-set.                   *)
LEMMA CommitRows ==
    ASSUME ApprovalInv, NEW t \in txns, approval' = ApplyApproval(t),
           NEW a \in ApprovalIds
    PROVE  /\ a \notin Touched(t) => approval'[a] = approval[a]
           /\ a \in Touched(t) =>
                 /\ approval'[a].status = t.to
                 /\ approval'[a].version = approval[a].version + 1
                 /\ approval'[a].cs = approval[a].cs
                 /\ t.by \in Users => approval'[a].by = t.by
<1>1. approval[a] \in ApprovalRow
  BY DEF ApprovalInv, ApprovalTypeOK
<1>2. Null \notin Users
  BY NullAssumption
<1> QED BY <1>1, <1>2 DEF ApplyApproval, ApprovalRow

(* The commit of a decision, an invalidation or an expiry keeps the        *)
(* invariant.                                                              *)
LEMMA CommitTxnInv ==
    ASSUME ApprovalInv, ApprovalTypeOK', NEW t \in txns, CommitTxn(t)
    PROVE  ApprovalInv'
<1>1. CASE ~ CasHolds(t)
  <2>1. UNCHANGED <<changeSet, approval>> /\ txns' \subseteq txns /\ requests' = requests
    BY <1>1 DEF CommitTxn
  <2> QED BY <2>1, NoWriteInv
<1>2. CASE CasHolds(t)
  <2>0. approval' = ApplyApproval(t) /\ txns' = txns \ {t} /\ requests' = requests
    BY <1>2 DEF CommitTxn
  <2>1. \A a \in Touched(t) :
            /\ a \in ApprovalIds
            /\ approval[a].status \in {"pending", "approved"}
            /\ t.to \in {"approved", "rejected", "expired", "invalidated"}
            /\ t.to \in {"approved", "rejected"} => approval[a].status = "pending"
    BY <1>2, CommitIsLegal
  <2>2. \A a \in ApprovalIds :
            /\ a \notin Touched(t) => approval'[a] = approval[a]
            /\ a \in Touched(t) =>
                  /\ approval'[a].status = t.to
                  /\ approval'[a].version = approval[a].version + 1
                  /\ approval'[a].cs = approval[a].cs
                  /\ t.by \in Users => approval'[a].by = t.by
    BY <2>0, CommitRows
  <2>3. \A a \in ApprovalIds :
            /\ Exists(a)' <=> Exists(a)
            /\ approval'[a].cs = approval[a].cs
            /\ approval[a].version \in Nat
    <3>1. \A a \in ApprovalIds : approval[a].version \in Nat
      BY DEF ApprovalInv, ApprovalTypeOK, ApprovalRow
    <3> QED BY <2>1, <2>2, <3>1 DEF Exists
  <2>4. TxnSound'
    <3> SUFFICES ASSUME NEW u \in txns PROVE SoundTxn(u)'
      BY <2>0 DEF TxnSound
    <3>1. SoundTxn(u) /\ u.seen \in [ApprovalIds -> Nat]
      BY DEF ApprovalInv, TxnSound, ApprovalTypeOK, Txn
    <3>2. ASSUME NEW a \in Touched(u)
          PROVE  /\ u.seen[a] <= approval'[a].version
                 /\ u.seen[a] = approval'[a].version =>
                       Exists(a)' /\ u.to \in ApprovalTransitions[approval'[a].status]
      <4>1. a \in ApprovalIds /\ u.seen[a] \in Nat /\ u.seen[a] <= approval[a].version
        BY <3>1 DEF Touched, SoundTxn
      <4>2. CASE a \in Touched(t)
        BY <2>2, <2>3, <4>1, <4>2
      <4>3. CASE a \notin Touched(t)
        <5>1. approval'[a] = approval[a]
          BY <2>2, <4>1, <4>3
        <5> QED BY <3>1, <2>3, <4>1, <5>1 DEF SoundTxn
      <4> QED BY <4>2, <4>3
    <3> QED BY <3>1, <3>2 DEF SoundTxn, Touched
  <2>5. RowsSound'
    <3> SUFFICES ASSUME NEW a \in ApprovalIds
                 PROVE  /\ ~ Exists(a) => approval'[a].version = 0
                        /\ Exists(a) => approval[a].cs \in ChangeSets
                        /\ approval'[a].status \in {"approved", "consumed"}
                              => approval'[a].by \in Users
      BY <2>3 DEF RowsSound
    <3>1. CASE a \notin Touched(t)
      BY <2>2, <3>1 DEF ApprovalInv, RowsSound
    <3>2. CASE a \in Touched(t)
      <4>1. t.to = "approved" => t.by \in Users
        BY DEF ApprovalInv, TxnSound, SoundTxn
      <4> QED BY <2>1, <2>2, <3>2, <4>1 DEF ApprovalInv, RowsSound, Exists
    <3> QED BY <3>1, <3>2
  <2>6. OneApprovalPerChangeSet'
    BY <2>3 DEF ApprovalInv, OneApprovalPerChangeSet
  <2>7. CASE t.to = "expired"
    <3>1. changeSet' = changeSet
      BY <1>2, <2>7 DEF CommitTxn
    <3>2. RequestSound'
      <4>1. \A r \in requests : r.id \in ApprovalIds
        BY DEF ApprovalInv, ApprovalTypeOK, RequestTxn
      <4> QED BY <2>0, <2>3, <3>1, <4>1 DEF ApprovalInv, RequestSound
    <3>3. ChangeSetAgrees'
      <4> SUFFICES ASSUME NEW a \in ApprovalIds, Exists(a)
                   PROVE  LET s == changeSet[approval[a].cs].state
                              status == approval'[a].status
                          IN  /\ status = "pending" => s = "awaiting_approval"
                              /\ status \in {"approved", "consumed"} => s = "approved"
                              /\ status = "expired" => s \in {"awaiting_approval", "approved"}
                              /\ status \in {"rejected", "invalidated"} => s = status
        BY <2>3, <3>1 DEF ChangeSetAgrees
      <4>1. CASE a \in Touched(t)
        BY <2>1, <2>2, <2>7, <4>1 DEF ApprovalInv, ChangeSetAgrees
      <4>2. CASE a \notin Touched(t)
        BY <2>2, <4>2 DEF ApprovalInv, ChangeSetAgrees
      <4> QED BY <4>1, <4>2
    <3> QED BY <2>4, <2>5, <2>6, <3>2, <3>3 DEF ApprovalInv
  <2>8. CASE t.to # "expired"
    <3>1. PICK a \in Touched(t) : changeSet' = NextChangeSet(approval[a].cs, t.to)
      BY <1>2, <2>8 DEF CommitTxn
    <3>2. /\ a \in ApprovalIds /\ Exists(a)
          /\ t.to \in {"approved", "rejected", "invalidated"}
          /\ changeSet[approval[a].cs].state \in {"awaiting_approval", "approved"}
          /\ Touched(t) = {a}
      <4>1. a \in ApprovalIds /\ Exists(a)
            /\ t.to \in {"approved", "rejected", "invalidated"}
        BY <2>1, <2>8, <3>1 DEF Exists
      <4>2. changeSet[approval[a].cs].state \in {"awaiting_approval", "approved"}
        BY <2>1, <3>1, <4>1 DEF ApprovalInv, ChangeSetAgrees
      <4>3. \A b \in Touched(t) : b = a
        BY <2>8, <3>1 DEF ApprovalInv, TxnSound, SoundTxn
      <4> QED BY <3>1, <4>1, <4>2, <4>3
    <3> DEFINE c == approval[a].cs
    <3>3. c \in ChangeSets
      BY <3>2 DEF ApprovalInv, RowsSound
    <3>4. changeSet' = CasChangeSet(c, t.to)
      <4>1. CASE t.to \in {"approved", "rejected"}
        BY <3>1, <4>1 DEF NextChangeSet
      <4>2. CASE t.to = "invalidated"
        BY <3>1, <3>2, <4>2 DEF NextChangeSet
      <4> QED BY <3>2, <4>1, <4>2
    <3>5. /\ changeSet'[c].state = t.to
          /\ changeSet'[c].version = changeSet[c].version + 1
          /\ \A k \in ChangeSets \ {c} : changeSet'[k] = changeSet[k]
      BY <3>3, <3>4 DEF CasChangeSet, ApprovalInv, ApprovalTypeOK
    <3>6. RequestSound'
      <4> SUFFICES ASSUME NEW q \in requests
                   PROVE  /\ ~ Exists(q.id)'
                          /\ changeSet'[q.cs].state # "none"
                          /\ q.seen <= changeSet'[q.cs].version
                          /\ q.seen = changeSet'[q.cs].version
                                => changeSet'[q.cs].state = "ready"
        BY <2>0 DEF ApprovalInv, RequestSound
      <4>1. q.id \in ApprovalIds /\ q.cs \in ChangeSets /\ q.seen \in Nat
        BY DEF ApprovalInv, ApprovalTypeOK, RequestTxn
      <4>2. ~ Exists(q.id)'
        BY <2>3, <4>1 DEF ApprovalInv, RequestSound
      <4>3. CASE q.cs = c
        <5>1. q.seen <= changeSet[c].version /\ changeSet[c].version \in Nat
          BY <4>3, <3>3 DEF ApprovalInv, RequestSound, ApprovalTypeOK, ChangeSetRow
        <5>2. changeSet'[q.cs].version = changeSet[c].version + 1
              /\ changeSet'[q.cs].state = t.to
          BY <3>5, <4>3
        <5> QED BY <3>2, <4>1, <4>2, <5>1, <5>2
      <4>4. CASE q.cs # c
        BY <3>5, <4>1, <4>2, <4>4 DEF ApprovalInv, RequestSound
      <4> QED BY <4>3, <4>4
    <3>7. ChangeSetAgrees'
      <4> SUFFICES ASSUME NEW b \in ApprovalIds, Exists(b)
                   PROVE  LET s == changeSet'[approval[b].cs].state
                              status == approval'[b].status
                          IN  /\ status = "pending" => s = "awaiting_approval"
                              /\ status \in {"approved", "consumed"} => s = "approved"
                              /\ status = "expired" => s \in {"awaiting_approval", "approved"}
                              /\ status \in {"rejected", "invalidated"} => s = status
        BY <2>3 DEF ChangeSetAgrees
      <4>1. CASE b = a
        BY <2>2, <3>1, <3>2, <3>5, <4>1
      <4>2. CASE b # a
        <5>1. approval[b].cs \in ChangeSets \ {c}
          BY <3>2, <4>2 DEF ApprovalInv, OneApprovalPerChangeSet, RowsSound
        <5>2. changeSet'[approval[b].cs] = changeSet[approval[b].cs]
              /\ approval'[b] = approval[b]
          BY <2>2, <3>2, <3>5, <4>2, <5>1
        <5> QED BY <5>2 DEF ApprovalInv, ChangeSetAgrees
      <4> QED BY <4>1, <4>2
    <3> QED BY <2>4, <2>5, <2>6, <3>6, <3>7 DEF ApprovalInv
  <2> QED BY <2>7, <2>8
<1> QED BY <1>1, <1>2

(* One step of the approval service preserves the inductive invariant.     *)
LEMMA ApprovalInvStep ==
    ASSUME ApprovalInv, [ApprovalStep]_approvalVars
    PROVE  ApprovalInv'
<1>0. ApprovalTypeOK /\ ApprovalTypeOK'
  BY ApprovalTypeStep DEF ApprovalInv
<1>1. ASSUME NEW c \in ChangeSets, CreateChangeSet(c) PROVE ApprovalInv'
  BY <1>0, <1>1, CreateChangeSetInv
<1>2. ASSUME NEW a \in ApprovalIds, NEW c \in ChangeSets, RequestApproval(a, c)
      PROVE  ApprovalInv'
  BY <1>0, <1>2, RequestApprovalInv
<1>3. ASSUME NEW r \in requests, RequestApprovalCommit(r) PROVE ApprovalInv'
  BY <1>0, <1>3, RequestApprovalCommitInv
<1>4. ASSUME NEW a \in ApprovalIds, NEW u \in Users, NEW v \in {"approved", "rejected"},
             NEW version, NEW d, Decide(a, u, v, version, d)
      PROVE  ApprovalInv'
  <2>1. approval[a].status = "pending"
    BY <1>4 DEF Decide
  <2>2. Exists(a) /\ {a} \in SUBSET ApprovalIds
        /\ \A x, y \in {a} : x = y
        /\ \A w \in {v, "expired"} : w \in ApprovalTransitions[approval[a].status]
    BY <2>1 DEF Exists, ApprovalTransitions
  <2>3. CASE Open([to |-> "expired", seen |-> SeenNow({a}), by |-> Null])
    <3>1. [to |-> "expired", seen |-> SeenNow({a}), by |-> Null] \in Txn
      BY <1>0, SeenNowType DEF Txn, ApprovalStatuses
    <3>2. SoundTxn([to |-> "expired", seen |-> SeenNow({a}), by |-> Null])
      BY <1>0, <2>2, LoadedTxnSound
    <3> QED BY <2>3, <3>1, <3>2, OpenInv
  <2>4. CASE Open([to |-> v, seen |-> SeenNow({a}), by |-> u])
    <3>1. [to |-> v, seen |-> SeenNow({a}), by |-> u] \in Txn
      BY <1>0, SeenNowType DEF Txn, ApprovalStatuses
    <3>2. SoundTxn([to |-> v, seen |-> SeenNow({a}), by |-> u])
      BY <1>0, <2>2, LoadedTxnSound
    <3> QED BY <2>4, <3>1, <3>2, OpenInv
  <2> QED BY <1>4, <2>3, <2>4 DEF Decide
<1>5. ASSUME NEW a \in ApprovalIds, InvalidateIfChanged(a) PROVE ApprovalInv'
  <2>1. approval[a].status \in {"pending", "approved"}
    BY <1>5 DEF InvalidateIfChanged
  <2>2. Exists(a) /\ {a} \in SUBSET ApprovalIds
        /\ \A x, y \in {a} : x = y
        /\ "invalidated" \in ApprovalTransitions[approval[a].status]
    BY <2>1 DEF Exists, ApprovalTransitions
  <2>3. [to |-> "invalidated", seen |-> SeenNow({a}), by |-> Null] \in Txn
    BY <1>0, SeenNowType DEF Txn, ApprovalStatuses
  <2>4. SoundTxn([to |-> "invalidated", seen |-> SeenNow({a}), by |-> Null])
    BY <1>0, <2>2, LoadedTxnSound
  <2> QED BY <1>5, <2>3, <2>4, OpenInv DEF InvalidateIfChanged
<1>6. ASSUME ExpireDue PROVE ApprovalInv'
  <2> DEFINE rows == {a \in due : approval[a].status \in {"pending", "approved"}}
  <2>1. rows \in SUBSET ApprovalIds
    BY <1>0 DEF ApprovalTypeOK
  <2>2. \A a \in rows : Exists(a) /\ "expired" \in ApprovalTransitions[approval[a].status]
    BY DEF Exists, ApprovalTransitions
  <2>3. Open([to |-> "expired", seen |-> SeenNow(rows), by |-> Null])
    BY <1>6 DEF ExpireDue
  <2>4. [to |-> "expired", seen |-> SeenNow(rows), by |-> Null] \in Txn
    BY <1>0, SeenNowType DEF Txn, ApprovalStatuses
  <2> HIDE DEF rows
  <2>5. SoundTxn([to |-> "expired", seen |-> SeenNow(rows), by |-> Null])
    BY <1>0, <2>1, <2>2, LoadedTxnSound
  <2> QED BY <2>3, <2>4, <2>5, OpenInv
<1>7. ASSUME NEW t \in txns, CommitTxn(t) PROVE ApprovalInv'
  BY <1>0, <1>7, CommitTxnInv
<1>8. ASSUME NEW t \in txns, LoseTxn(t) PROVE ApprovalInv'
  BY <1>0, <1>8, NoWriteInv DEF LoseTxn
<1>9. ASSUME NEW r \in requests, LoseRequest(r) PROVE ApprovalInv'
  BY <1>0, <1>9, NoWriteInv DEF LoseRequest
<1>10. ASSUME NEW c \in ChangeSets, NEW d \in Digests, EditBoundInput(c, d)
       PROVE  ApprovalInv'
  BY <1>0, <1>10, NoWriteInv DEF EditBoundInput
<1>11. ASSUME NEW a \in ApprovalIds, DeadlinePasses(a) PROVE ApprovalInv'
  BY <1>0, <1>11, NoWriteInv DEF DeadlinePasses
<1>12. ASSUME NEW u \in Users, ChangeAuthority(u) PROVE ApprovalInv'
  BY <1>0, <1>12, NoWriteInv DEF ChangeAuthority
<1>13. CASE UNCHANGED approvalVars
  BY <1>0, <1>13, NoWriteInv DEF approvalVars
<1> QED BY <1>1, <1>2, <1>3, <1>4, <1>5, <1>6, <1>7, <1>8, <1>9, <1>10, <1>11, <1>12,
           <1>13 DEF ApprovalStep

(* The service starts in a state of the invariant.                         *)
LEMMA ApprovalInitInv == ApprovalInit => ApprovalInv
<1> SUFFICES ASSUME ApprovalInit PROVE ApprovalInv
  OBVIOUS
<1>1. ApprovalTypeOK
  BY DEF ApprovalInit, ApprovalTypeOK, ChangeSetRow, ChangeSetStates, ApprovalRow,
         NoApproval
<1>2. \A a \in ApprovalIds : ~ Exists(a) /\ approval[a].version = 0
                             /\ approval[a].status = "none"
  BY DEF ApprovalInit, Exists, NoApproval
<1>3. TxnSound /\ RequestSound
  BY DEF ApprovalInit, TxnSound, RequestSound
<1>4. RowsSound /\ OneApprovalPerChangeSet /\ ChangeSetAgrees
  BY <1>2 DEF RowsSound, OneApprovalPerChangeSet, ChangeSetAgrees
<1> QED BY <1>1, <1>3, <1>4 DEF ApprovalInv

(* The inductive invariant holds in every behaviour of the service.        *)
THEOREM ApprovalInvariant == ApprovalSpec => []ApprovalInv
BY ApprovalInitInv, ApprovalInvStep, PTL DEF ApprovalSpec

(* For any number of requesters, deciders, invalidations and sweeps, at    *)
(* most one approval is ever bound to a change set, and the two rows of a  *)
(* decision agree, although a session writes both from versions it read    *)
(* earlier.                                                                *)
THEOREM ApprovalsSafe == ApprovalSpec => []RowsTellOneStory
<1>1. ApprovalInv => RowsTellOneStory
  BY DEF ApprovalInv, RowsTellOneStory
<1> QED BY <1>1, ApprovalInvariant, PTL

(* A step from a state of the invariant moves approvals along the          *)
(* transition table only.                                                  *)
LEMMA LegalStep ==
    ASSUME ApprovalInv, [ApprovalStep]_approvalVars, NEW a \in ApprovalIds
    PROVE  LET from == approval[a].status
               to   == approval'[a].status
           IN  \/ to = from
               \/ from = "none" /\ to = "pending"
               \/ from # "none" /\ to \in ApprovalTransitions[from]
<1>1. CASE approval' = approval
  BY <1>1
<1>2. ASSUME NEW r \in requests, RequestApprovalCommit(r), approval' # approval
      PROVE  \/ approval'[a] = approval[a]
             \/ approval[a].status = "none" /\ approval'[a].status = "pending"
  BY <1>2 DEF RequestApprovalCommit, ApprovalInv, RequestSound, Exists, ApprovalTypeOK
<1>3. ASSUME NEW t \in txns, CommitTxn(t), approval' # approval
      PROVE  \/ approval'[a] = approval[a]
             \/ /\ approval[a].status # "none"
                /\ approval'[a].status \in ApprovalTransitions[approval[a].status]
  <2>1. CasHolds(t) /\ approval' = ApplyApproval(t)
    BY <1>3 DEF CommitTxn
  <2>2. CASE a \in Touched(t)
    <3>1. approval'[a].status = t.to
      BY <2>1, <2>2, CommitRows
    <3>2. approval[a].status \in {"pending", "approved"}
          /\ t.to \in ApprovalTransitions[approval[a].status]
      BY <2>1, <2>2, CommitIsLegal
    <3> QED BY <3>1, <3>2
  <2>3. CASE a \notin Touched(t)
    BY <2>1, <2>3, CommitRows
  <2> QED BY <2>2, <2>3
<1>4. \/ approval' = approval
      \/ \E r \in requests : RequestApprovalCommit(r)
      \/ \E t \in txns : CommitTxn(t)
  BY DEF ApprovalStep, approvalVars, CreateChangeSet, RequestApproval, Decide, Open,
         InvalidateIfChanged, ExpireDue, LoseTxn, LoseRequest, EditBoundInput,
         DeadlinePasses, ChangeAuthority
<1> QED BY <1>1, <1>2, <1>3, <1>4

(* No approval is ever reopened or decided twice, although two writers of  *)
(* the service never consult APPROVAL_TRANSITIONS.                         *)
THEOREM ApprovalStepsLegal == ApprovalSpec => LegalApprovalSteps
<1>1. ApprovalInv /\ [ApprovalStep]_approvalVars =>
         [\A a \in ApprovalIds :
             LET from == approval[a].status
                 to   == approval'[a].status
             IN  \/ to = from
                 \/ from = "none" /\ to = "pending"
                 \/ from # "none" /\ to \in ApprovalTransitions[from]]_approvalVars
  BY LegalStep
<1> QED BY <1>1, ApprovalInvariant, PTL DEF ApprovalSpec, LegalApprovalSteps

-----------------------------------------------------------------------------
(* The submission service, its callers and the connector.                  *)

(* Points at which a call works on a job it has found or inserted.         *)
Working == {"execute", "send", "sent", "record", "unknown", "resume", "ask",
            "settle", "cas", "park"}

(* What a caller's locals may be relied on for.  As with sessions, versions *)
(* only grow: if the row is still at the version loaded, the transition     *)
(* checked at the load is legal now.                                        *)
SoundCaller(k, jobs, acts) ==
    /\ k.pc # "idle" => k.a \in ApprovalIds
    /\ k.pc \in Working => jobs[k.a].state # "none"
    /\ k.pc = "record" => acts[k.a] > 0
    /\ k.pc = "settle" /\ k.answer => acts[k.a] > 0
    /\ k.pc \in {"cas", "park"} =>
          /\ k.seen <= jobs[k.a].version
          /\ k.seen = jobs[k.a].version => Legal(jobs[k.a].state, k.to)
          /\ k.to = "succeeded" => acts[k.a] > 0
    /\ k.pc = "park" => k.to = "unknown_outcome"

CallersSound == \A p \in Callers : SoundCaller(caller[p], job, effects)

(* The provider has heard of an approval only if it has a job.              *)
EffectsSound ==
    /\ \A m \in late : HasJob(m.a)
    /\ \A a \in ApprovalIds :
          /\ effects[a] <= 1
          /\ Accepted(a) => HasJob(a)

(* A row that does not exist has version 0.                                 *)
JobsFresh == \A a \in ApprovalIds : ~ HasJob(a) => job[a].version = 0

(* The inductive invariant.                                                 *)
SubmissionInv ==
    /\ SubmissionTypeOK
    /\ ApprovalInv
    /\ CallersSound
    /\ EffectsSound
    /\ ConsumedIffJob
    /\ SucceededIsTrue
    /\ JobsFresh

(* Rows are only replaced by rows of a later version, jobs are never        *)
(* deleted, the provider never forgets.                                     *)
Grow ==
    \A a \in ApprovalIds :
        /\ job'[a].version >= job[a].version
        /\ job'[a].version = job[a].version => job'[a] = job[a]
        /\ HasJob(a) => HasJob(a)'
        /\ Accepted(a) => Accepted(a)'

-----------------------------------------------------------------------------
(* A call that is put at a point has the declared shape.                    *)
LEMMA CallAtType ==
    ASSUME NEW a \in ApprovalIds \cup {Null}, NEW pc \in Points, NEW payload \in BOOLEAN
    PROVE  /\ CallAt(a, pc, payload) \in Caller
           /\ CallAt(a, pc, payload).pc = pc
           /\ pc # "idle" => CallAt(a, pc, payload).a = a
<1>1. "ready" \in SubmissionStates
  BY DEF SubmissionStates
<1> QED BY <1>1 DEF CallAt, Caller

(* So has one that moves on.                                                *)
LEMMA AtType ==
    ASSUME NEW p \in Callers, caller[p] \in Caller, NEW pc \in Points
    PROVE  /\ At(p, pc) \in Caller
           /\ At(p, pc).pc = pc
           /\ pc # "idle" => At(p, pc).a = caller[p].a
<1>1. /\ caller[p].a \in ApprovalIds \cup {Null}
      /\ (caller[p].payload /\ pc \notin {"idle", "resume"}) \in BOOLEAN
  BY DEF Caller
<1> QED BY <1>1, CallAtType DEF At

(* A sound caller stays sound when rows grow around it.                     *)
LEMMA CallerKept ==
    ASSUME SubmissionTypeOK, SubmissionTypeOK', Grow, NEW k \in Caller,
           SoundCaller(k, job, effects)
    PROVE  SoundCaller(k, job', effects')
<1>1. CASE k.pc = "idle"
  BY <1>1 DEF SoundCaller, Working
<1>2. CASE k.pc # "idle"
  <2>1. k.a \in ApprovalIds /\ k.seen \in Nat
    BY <1>2 DEF SoundCaller, Caller
  <2>2. job[k.a].version \in Nat /\ job'[k.a].version \in Nat
    BY <2>1 DEF SubmissionTypeOK, JobRow
  <2>3. /\ job'[k.a].version >= job[k.a].version
        /\ job'[k.a].version = job[k.a].version => job'[k.a] = job[k.a]
        /\ job[k.a].state # "none" => job'[k.a].state # "none"
        /\ effects[k.a] > 0 => effects'[k.a] > 0
    BY <2>1 DEF Grow, HasJob, Accepted
  <2>4. ASSUME k.pc \in {"cas", "park"}
        PROVE  /\ k.seen <= job'[k.a].version
               /\ k.seen = job'[k.a].version => Legal(job'[k.a].state, k.to)
    <3>1. k.seen <= job[k.a].version
          /\ (k.seen = job[k.a].version => Legal(job[k.a].state, k.to))
      BY <2>4 DEF SoundCaller
    <3> QED BY <2>1, <2>2, <2>3, <3>1
  <2> QED BY <2>1, <2>3, <2>4 DEF SoundCaller
<1> QED BY <1>1, <1>2

(* All callers stay sound when one of them moves to a sound record.         *)
LEMMA CallerMoves ==
    ASSUME SubmissionInv, SubmissionTypeOK', Grow, NEW p \in Callers, NEW k,
           caller' = [caller EXCEPT ![p] = k], SoundCaller(k, job', effects')
    PROVE  CallersSound'
<1> SUFFICES ASSUME NEW q \in Callers PROVE SoundCaller(caller'[q], job', effects')
  BY DEF CallersSound
<1>0. caller \in [Callers -> Caller]
  BY DEF SubmissionInv, SubmissionTypeOK
<1>1. CASE q = p
  BY <1>0, <1>1
<1>2. CASE q # p
  <2>1. caller'[q] = caller[q] /\ caller[q] \in Caller
    BY <1>0, <1>2
  <2>2. SoundCaller(caller[q], job, effects) /\ SubmissionTypeOK
    BY DEF SubmissionInv, CallersSound
  <2> QED BY <2>1, <2>2, CallerKept
<1> QED BY <1>1, <1>2

(* A step that only moves one caller, and perhaps leaves its request on the *)
(* wire, keeps the invariant.                                               *)
LEMMA CallerOnly ==
    ASSUME SubmissionInv, UNCHANGED <<approvalVars, job, effects, hollow>>,
           NEW p \in Callers, NEW k \in Caller, SoundCaller(k, job, effects),
           caller' = [caller EXCEPT ![p] = k],
           late' \subseteq Request, \A m \in late' \ late : HasJob(m.a),
           unasked' \subseteq ApprovalIds, crashes' \in Nat
    PROVE  SubmissionInv'
<1>1. SubmissionTypeOK'
  <2>1. ApprovalTypeOK'
    BY DEF SubmissionInv, SubmissionTypeOK, ApprovalTypeOK, approvalVars
  <2> QED BY <2>1 DEF SubmissionInv, SubmissionTypeOK
<1>2. ApprovalInv'
  <2>1. [ApprovalStep]_approvalVars
    OBVIOUS
  <2> QED BY <2>1, ApprovalInvStep DEF SubmissionInv
<1>3. CallersSound'
  <2>1. Grow
    BY DEF Grow, HasJob, Accepted, SubmissionInv, SubmissionTypeOK, JobRow
  <2> QED BY <1>1, <2>1, CallerMoves
<1>4. EffectsSound' /\ ConsumedIffJob' /\ SucceededIsTrue' /\ JobsFresh'
  BY DEF SubmissionInv, EffectsSound, ConsumedIffJob, SucceededIsTrue, JobsFresh,
         HasJob, Accepted, approvalVars
<1> QED BY <1>1, <1>2, <1>3, <1>4 DEF SubmissionInv

(* The caller of a step that is not idle works on an approval; one past the *)
(* claim works on a job.                                                    *)
LEMMA CallerFacts ==
    ASSUME SubmissionInv, NEW p \in Callers
    PROVE  /\ caller[p] \in Caller
           /\ SoundCaller(caller[p], job, effects)
           /\ caller[p].a \in ApprovalIds \cup {Null}
           /\ caller[p].pc # "idle" => caller[p].a \in ApprovalIds
           /\ caller[p].pc \in Working => HasJob(caller[p].a)
BY DEF SubmissionInv, SubmissionTypeOK, CallersSound, SoundCaller, Caller, HasJob

(* A call at a point that asks for nothing but a job is sound.              *)
LEMMA PlacedCallSound ==
    ASSUME NEW k, k.pc \notin {"record", "settle", "cas", "park"},
           k.pc # "idle" => k.a \in ApprovalIds,
           k.pc \in Working => HasJob(k.a)
    PROVE  SoundCaller(k, job, effects)
BY DEF SoundCaller, HasJob

(* GoTo to such a point keeps the invariant.                                *)
LEMMA GoToInv ==
    ASSUME SubmissionInv, UNCHANGED <<approvalVars, job, effects, hollow>>,
           NEW p \in Callers, NEW pc \in Points \ {"record", "settle", "cas", "park"},
           GoTo(p, pc), pc # "idle" => caller[p].a \in ApprovalIds,
           pc \in Working => HasJob(caller[p].a),
           late' \subseteq Request, \A m \in late' \ late : HasJob(m.a),
           unasked' \subseteq ApprovalIds, crashes' \in Nat
    PROVE  SubmissionInv'
<1>1. /\ At(p, pc) \in Caller
      /\ At(p, pc).pc = pc
      /\ pc # "idle" => At(p, pc).a = caller[p].a
  BY CallerFacts, AtType
<1>2. caller' = [caller EXCEPT ![p] = At(p, pc)]
  BY DEF GoTo
<1> HIDE DEF At
<1>3. SoundCaller(At(p, pc), job, effects)
  BY <1>1, PlacedCallSound DEF Working
<1> QED BY <1>1, <1>2, <1>3, CallerOnly

(* Loading a row for a transition keeps the invariant.                      *)
LEMMA LoadForInv ==
    ASSUME SubmissionInv,
           UNCHANGED <<approvalVars, job, effects, hollow, late, unasked, crashes>>,
           NEW p \in Callers, caller[p].pc \in Working,
           NEW to \in SubmissionStates, NEW pc \in {"cas", "park"}, LoadFor(p, to, pc),
           pc = "park" => to = "unknown_outcome",
           to = "succeeded" => Accepted(caller[p].a)
    PROVE  SubmissionInv'
<1> DEFINE a == caller[p].a
           row == job[a]
           k == [At(p, pc) EXCEPT !.seen = row.version, !.to = to]
<1>1. a \in ApprovalIds /\ HasJob(a)
  BY CallerFacts DEF Working
<1>2. row.version \in Nat
  BY <1>1 DEF SubmissionInv, SubmissionTypeOK, JobRow
<1>3. late \subseteq Request /\ unasked \subseteq ApprovalIds /\ crashes \in Nat
  BY DEF SubmissionInv, SubmissionTypeOK
<1>4. CASE Legal(row.state, to)
  <2>1. caller' = [caller EXCEPT ![p] = k]
    BY <1>4 DEF LoadFor
  <2>2. /\ k \in Caller /\ k.pc = pc /\ k.a = a /\ k.seen = row.version /\ k.to = to
    <3>1. pc \in Points /\ pc # "idle" /\ caller[p] \in Caller
      BY CallerFacts DEF Points
    <3>2. At(p, pc) \in Caller /\ At(p, pc).pc = pc /\ At(p, pc).a = a
      BY <3>1, AtType
    <3> HIDE DEF At
    <3> QED BY <1>2, <3>2 DEF Caller
  <2> HIDE DEF k
  <2>3. SoundCaller(k, job, effects)
    BY <1>1, <1>2, <1>4, <2>2 DEF SoundCaller, HasJob, Accepted
  <2> QED BY <1>3, <2>1, <2>2, <2>3, CallerOnly
<1>5. CASE ~ Legal(row.state, to)
  <2>1. GoTo(p, "idle")
    BY <1>5 DEF LoadFor, GoTo
  <2> QED BY <1>3, <2>1, GoToInv DEF Points, Working
<1> QED BY <1>4, <1>5

-----------------------------------------------------------------------------
(* The steps of the approval service neither consume an approval nor bring  *)
(* a consumed one back.                                                     *)
LEMMA ConsumedStable ==
    ASSUME ApprovalInv, [ApprovalStep]_approvalVars, NEW a \in ApprovalIds
    PROVE  approval'[a].status = "consumed" <=> approval[a].status = "consumed"
<1>1. CASE approval' = approval
  BY <1>1
<1>2. ASSUME NEW r \in requests, RequestApprovalCommit(r)
      PROVE  approval'[a].status = "consumed" <=> approval[a].status = "consumed"
  BY <1>2 DEF RequestApprovalCommit, ApprovalInv, RequestSound, Exists, ApprovalTypeOK
<1>3. ASSUME NEW t \in txns, CommitTxn(t)
      PROVE  approval'[a].status = "consumed" <=> approval[a].status = "consumed"
  <2>1. CASE CasHolds(t) /\ approval' = ApplyApproval(t)
    <3>1. CASE a \in Touched(t)
      <4>1. approval'[a].status = t.to
        BY <2>1, <3>1, CommitRows
      <4>2. approval[a].status \in {"pending", "approved"}
            /\ t.to \in {"approved", "rejected", "expired", "invalidated"}
        BY <2>1, <3>1, CommitIsLegal
      <4> QED BY <4>1, <4>2
    <3>2. CASE a \notin Touched(t)
      <4>1. approval'[a] = approval[a]
        BY <2>1, <3>2, CommitRows
      <4> QED BY <4>1
    <3> QED BY <3>1, <3>2
  <2> QED BY <1>1, <1>3, <2>1 DEF CommitTxn
<1>4. \/ approval' = approval
      \/ \E r \in requests : RequestApprovalCommit(r)
      \/ \E t \in txns : CommitTxn(t)
  BY DEF ApprovalStep, approvalVars, CreateChangeSet, RequestApproval, Decide, Open,
         InvalidateIfChanged, ExpireDue, LoseTxn, LoseRequest, EditBoundInput,
         DeadlinePasses, ChangeAuthority
<1> QED BY <1>1, <1>2, <1>3, <1>4

(* A step of the approval service keeps the invariant.                      *)
LEMMA ApprovalStepInv ==
    ASSUME SubmissionInv, ApprovalStep, UNCHANGED submissionVars
    PROVE  SubmissionInv'
<1>1. ApprovalInv'
  BY ApprovalInvStep DEF SubmissionInv
<1>2. SubmissionTypeOK'
  BY <1>1 DEF SubmissionInv, SubmissionTypeOK, ApprovalInv, submissionVars
<1>3. ConsumedIffJob'
  BY ConsumedStable DEF SubmissionInv, ConsumedIffJob, HasJob, submissionVars
<1>4. CallersSound' /\ EffectsSound' /\ SucceededIsTrue' /\ JobsFresh'
  BY DEF SubmissionInv, CallersSound, EffectsSound, SucceededIsTrue, JobsFresh, HasJob,
         Accepted, submissionVars
<1> QED BY <1>1, <1>2, <1>3, <1>4 DEF SubmissionInv

(* Consuming an approved approval keeps the invariant of the approval       *)
(* service: every open session on it has lost its compare-and-set.          *)
LEMMA ConsumeKeepsApprovalInv ==
    ASSUME ApprovalInv, NEW a \in ApprovalIds, approval[a].status = "approved",
           approval' = [approval EXCEPT ![a].status = "consumed", ![a].version = @ + 1],
           UNCHANGED <<changeSet, content, due, authority, txns, requests>>
    PROVE  ApprovalInv'
<1>0. approval \in [ApprovalIds -> ApprovalRow] /\ approval[a] \in ApprovalRow
      /\ approval[a].version \in Nat
  BY DEF ApprovalInv, ApprovalTypeOK, ApprovalRow
<1>1. /\ approval'[a].status = "consumed"
      /\ approval'[a].version = approval[a].version + 1
      /\ approval'[a].cs = approval[a].cs
      /\ approval'[a].by = approval[a].by
      /\ approval'[a] \in ApprovalRow
      /\ \A b \in ApprovalIds \ {a} : approval'[b] = approval[b]
  BY <1>0 DEF ApprovalRow, ApprovalStatuses
<1>2. ApprovalTypeOK'
  <2>1. approval' \in [ApprovalIds -> ApprovalRow]
    BY <1>0, <1>1
  <2> QED BY <2>1 DEF ApprovalInv, ApprovalTypeOK
<1>3. \A b \in ApprovalIds : Exists(b)' <=> Exists(b)
  BY <1>1 DEF Exists
<1>4. TxnSound'
  <2> SUFFICES ASSUME NEW t \in txns PROVE SoundTxn(t)'
    BY DEF TxnSound
  <2>1. SoundTxn(t) /\ t.seen \in [ApprovalIds -> Nat]
    BY DEF ApprovalInv, TxnSound, ApprovalTypeOK, Txn
  <2>2. ASSUME NEW b \in Touched(t)
        PROVE  /\ t.seen[b] <= approval'[b].version
               /\ t.seen[b] = approval'[b].version =>
                     Exists(b)' /\ t.to \in ApprovalTransitions[approval'[b].status]
    <3>1. b \in ApprovalIds /\ t.seen[b] \in Nat /\ t.seen[b] <= approval[b].version
      BY <2>1 DEF Touched, SoundTxn
    <3>2. CASE b = a
      BY <1>0, <1>1, <3>1, <3>2
    <3>3. CASE b # a
      <4>1. approval'[b] = approval[b]
        BY <1>1, <3>1, <3>3
      <4> QED BY <1>3, <2>1, <3>1, <4>1 DEF SoundTxn
    <3> QED BY <3>2, <3>3
  <2> QED BY <2>1, <2>2 DEF SoundTxn, Touched
<1>5. RequestSound'
  <2>1. \A r \in requests : r.id \in ApprovalIds
    BY DEF ApprovalInv, ApprovalTypeOK, RequestTxn
  <2> QED BY <1>3, <2>1 DEF ApprovalInv, RequestSound
<1>6. RowsSound'
  BY <1>1, <1>3 DEF ApprovalInv, RowsSound, Exists
<1>7. \A b \in ApprovalIds : approval'[b].cs = approval[b].cs
  BY <1>1
<1>8. OneApprovalPerChangeSet'
  BY <1>3, <1>7 DEF ApprovalInv, OneApprovalPerChangeSet
<1>9. ChangeSetAgrees'
  <2> SUFFICES ASSUME NEW b \in ApprovalIds, Exists(b)
               PROVE  LET s == changeSet[approval[b].cs].state
                          status == approval'[b].status
                      IN  /\ status = "pending" => s = "awaiting_approval"
                          /\ status \in {"approved", "consumed"} => s = "approved"
                          /\ status = "expired" => s \in {"awaiting_approval", "approved"}
                          /\ status \in {"rejected", "invalidated"} => s = status
    BY <1>3, <1>7 DEF ChangeSetAgrees
  <2>1. CASE b = a
    BY <1>1, <2>1 DEF ApprovalInv, ChangeSetAgrees
  <2>2. CASE b # a
    <3>1. approval'[b] = approval[b]
      BY <1>1, <2>2
    <3> QED BY <3>1 DEF ApprovalInv, ChangeSetAgrees
  <2> QED BY <2>1, <2>2
<1> QED BY <1>2, <1>4, <1>5, <1>6, <1>8, <1>9 DEF ApprovalInv

(* _consume_and_claim's transaction keeps the invariant.                    *)
LEMMA ClaimCommitInv ==
    ASSUME SubmissionInv, NEW p \in Callers, ClaimCommit(p)
    PROVE  SubmissionInv'
<1> DEFINE a == caller[p].a
           wins == /\ approval[a].version = caller[p].seen
                   /\ approval[a].status = "approved"
                   /\ ~ HasJob(a)
<1>0. /\ a \in ApprovalIds
      /\ late \subseteq Request /\ unasked \subseteq ApprovalIds /\ crashes \in Nat
  BY CallerFacts DEF ClaimCommit, SubmissionInv, SubmissionTypeOK
<1>1. CASE ~ wins
  <2>1. GoTo(p, "lost") /\ UNCHANGED <<approvalVars, job, effects, hollow, late, unasked, crashes>>
    BY <1>1 DEF ClaimCommit, approvalVars
  <2> QED BY <1>0, <2>1, GoToInv DEF Points, Working
<1>2. CASE wins
  <2>1. /\ approval' = [approval EXCEPT ![a].status = "consumed", ![a].version = @ + 1]
        /\ job' = [job EXCEPT ![a] = [NoJob EXCEPT !.state = "ready", !.version = 1]]
        /\ GoTo(p, "execute")
        /\ UNCHANGED <<changeSet, content, due, authority, txns, requests,
                       effects, hollow, late, unasked, crashes>>
    BY <1>2 DEF ClaimCommit
  <2>2. ApprovalInv'
    BY <1>0, <1>2, <2>1, ConsumeKeepsApprovalInv DEF SubmissionInv
  <2>3. /\ job'[a].state = "ready" /\ job'[a].version = 1 /\ job'[a] \in JobRow
        /\ \A b \in ApprovalIds \ {a} : job'[b] = job[b]
        /\ job' \in [ApprovalIds -> JobRow]
    <3>1. [NoJob EXCEPT !.state = "ready", !.version = 1] \in JobRow
      BY DEF NoJob, JobRow, SubmissionStates
    <3> QED BY <1>0, <2>1, <3>1 DEF SubmissionInv, SubmissionTypeOK, NoJob
  <2>4. /\ At(p, "execute") \in Caller
        /\ caller' = [caller EXCEPT ![p] = At(p, "execute")]
        /\ At(p, "execute").pc = "execute" /\ At(p, "execute").a = a
    <3>1. "execute" \in Points /\ caller[p] \in Caller
      BY CallerFacts DEF Points
    <3>2. caller' = [caller EXCEPT ![p] = At(p, "execute")]
      BY <2>1 DEF GoTo
    <3> QED BY <3>1, <3>2, AtType
  <2> HIDE DEF At
  <2>5. SubmissionTypeOK'
    BY <2>1, <2>2, <2>3, <2>4 DEF SubmissionInv, SubmissionTypeOK, ApprovalInv
  <2>6. Grow
    <3>1. job[a].version = 0
      BY <1>0, <1>2 DEF SubmissionInv, JobsFresh
    <3> QED BY <2>1, <2>3, <3>1 DEF Grow, HasJob, Accepted, SubmissionInv,
                                   SubmissionTypeOK, JobRow
  <2>7. SoundCaller(At(p, "execute"), job', effects')
    BY <1>0, <2>3, <2>4 DEF SoundCaller, Working
  <2>8. CallersSound'
    BY <2>4, <2>5, <2>6, <2>7, CallerMoves
  <2>9. EffectsSound' /\ SucceededIsTrue' /\ JobsFresh'
    BY <1>2, <2>1, <2>3 DEF SubmissionInv, EffectsSound, SucceededIsTrue, JobsFresh,
                            HasJob, Accepted
  <2>10. ConsumedIffJob'
    <3>1. \A b \in ApprovalIds \ {a} : approval'[b] = approval[b]
      BY <2>1 DEF SubmissionInv, ApprovalInv, ApprovalTypeOK
    <3>2. approval'[a].status = "consumed"
      BY <1>0, <2>1 DEF SubmissionInv, ApprovalInv, ApprovalTypeOK, ApprovalRow
    <3> QED BY <2>3, <3>1, <3>2 DEF SubmissionInv, ConsumedIffJob, HasJob
  <2> QED BY <2>2, <2>5, <2>8, <2>9, <2>10 DEF SubmissionInv
<1> QED BY <1>1, <1>2

(* _transition's compare-and-set keeps the invariant: if it holds, the row  *)
(* is the one loaded and the move is legal.                                 *)
LEMMA TransitionCommitInv ==
    ASSUME SubmissionInv, NEW p \in Callers, TransitionCommit(p)
    PROVE  SubmissionInv'
<1> DEFINE a == caller[p].a
           to == caller[p].to
<1>0. /\ a \in ApprovalIds /\ HasJob(a) /\ to \in SubmissionStates
      /\ caller[p].pc \in {"cas", "park"}
      /\ caller[p].seen \in Nat
      /\ late \subseteq Request /\ unasked \subseteq ApprovalIds /\ crashes \in Nat
  BY CallerFacts DEF TransitionCommit, SubmissionInv, SubmissionTypeOK, Working, Caller
<1>1. CASE ~ TransitionHolds(p)
  <2>1. GoTo(p, "idle") /\ UNCHANGED <<approvalVars, job, effects, hollow, late, unasked, crashes>>
    BY <1>1 DEF TransitionCommit
  <2> QED BY <1>0, <2>1, GoToInv DEF Points, Working
<1>2. CASE TransitionHolds(p)
  <2>1. /\ job' = Transition(a, to)
        /\ caller' = [caller EXCEPT ![p] = AfterCommit(p)]
        /\ UNCHANGED <<approvalVars, effects, hollow, late, unasked, crashes>>
    BY <1>2 DEF TransitionCommit
  <2>2. job[a] \in JobRow /\ job \in [ApprovalIds -> JobRow]
        /\ job[a].version = caller[p].seen
    BY <1>0, <1>2 DEF SubmissionInv, SubmissionTypeOK, TransitionHolds
  <2>3. /\ job'[a].state = to /\ job'[a].version = job[a].version + 1
        /\ job'[a].receipt = (job[a].receipt \/ to = "succeeded")
        /\ \A b \in ApprovalIds \ {a} : job'[b] = job[b]
    BY <1>0, <2>1, <2>2 DEF Transition
  <2>4. job' \in [ApprovalIds -> JobRow]
    <3> DEFINE row == [state    |-> to,
                       version  |-> job[a].version + 1,
                       attempts |-> job[a].attempts + (IF to = "executing" THEN 1 ELSE 0),
                       receipt  |-> job[a].receipt \/ to = "succeeded"]
    <3>1. row \in JobRow
      BY <1>0, <2>2 DEF JobRow
    <3>2. job' = [job EXCEPT ![a] = row]
      BY <2>1 DEF Transition
    <3> HIDE DEF row
    <3> QED BY <2>2, <3>1, <3>2
  <2>5. /\ Legal(job[a].state, to)
        /\ to = "succeeded" => Accepted(a)
        /\ caller[p].pc = "park" => to = "unknown_outcome"
    BY <1>0, <2>2, CallerFacts DEF SoundCaller, Accepted
  <2>6. /\ AfterCommit(p) \in Caller
        /\ SoundCaller(AfterCommit(p), job', effects')
    <3>1. CASE caller[p].pc = "park"
      <4> DEFINE k == [At(p, "cas") EXCEPT !.seen = caller[p].seen + 1,
                                           !.to = "reconciling"]
      <4>1. AfterCommit(p) = k
        BY <3>1 DEF AfterCommit
      <4>2. /\ k \in Caller /\ k.pc = "cas" /\ k.a = a
            /\ k.seen = caller[p].seen + 1 /\ k.to = "reconciling"
        <5>1. /\ caller[p].seen + 1 \in Nat /\ "cas" \in Points
              /\ "reconciling" \in SubmissionStates /\ caller[p] \in Caller
          BY <1>0, CallerFacts DEF Points, SubmissionStates
        <5>2. At(p, "cas") \in Caller /\ At(p, "cas").pc = "cas" /\ At(p, "cas").a = a
          BY <5>1, AtType
        <5> HIDE DEF At
        <5> QED BY <5>1, <5>2 DEF Caller
      <4> HIDE DEF k
      <4>3. job'[a].state = "unknown_outcome" /\ Legal("unknown_outcome", "reconciling")
        BY <2>3, <2>5, <3>1 DEF Legal, SubmissionTransitions
      <4>4. SoundCaller(k, job', effects')
        BY <1>0, <2>2, <2>3, <4>2, <4>3 DEF SoundCaller
      <4> QED BY <4>1, <4>2, <4>4
    <3>2. CASE caller[p].pc # "park"
      <4>1. PICK pc \in {"send", "ask", "execute", "idle"} : AfterCommit(p) = At(p, pc)
        <5>1. CASE to = "executing"
          BY <3>2, <5>1 DEF AfterCommit
        <5>2. CASE to = "reconciling"
          BY <3>2, <5>2 DEF AfterCommit
        <5>3. CASE to = "ready"
          BY <3>2, <5>3 DEF AfterCommit
        <5>4. CASE to \notin {"executing", "reconciling", "ready"}
          BY <3>2, <5>4 DEF AfterCommit
        <5> QED BY <5>1, <5>2, <5>3, <5>4
      <4>2. pc \in Points /\ caller[p] \in Caller
        BY CallerFacts DEF Points
      <4>3. /\ At(p, pc) \in Caller
            /\ At(p, pc).pc = pc
            /\ pc # "idle" => At(p, pc).a = a
        BY <4>2, AtType
      <4>4. job'[a].state # "none"
        BY <1>0, <2>3 DEF SubmissionStates
      <4> HIDE DEF At
      <4> QED BY <1>0, <4>1, <4>3, <4>4 DEF SoundCaller, Working
    <3> QED BY <3>1, <3>2
  <2>7. ApprovalInv'
    <3>1. [ApprovalStep]_approvalVars
      BY <2>1
    <3> QED BY <3>1, ApprovalInvStep DEF SubmissionInv
  <2>8. SubmissionTypeOK'
    BY <2>1, <2>4, <2>6, <2>7 DEF SubmissionInv, SubmissionTypeOK, ApprovalInv
  <2>9. job'[a].state # "none"
    BY <1>0, <2>3 DEF SubmissionStates
  <2>10. Grow
    BY <2>1, <2>2, <2>3, <2>9 DEF Grow, HasJob, Accepted, JobRow
  <2>11. CallersSound'
    BY <2>1, <2>6, <2>8, <2>10, CallerMoves
  <2>12. EffectsSound' /\ ConsumedIffJob' /\ JobsFresh'
    <3>1. \A m \in late : m.a \in ApprovalIds
      BY <1>0 DEF Request
    <3> QED BY <1>0, <2>1, <2>3, <2>9, <3>1
               DEF SubmissionInv, EffectsSound, ConsumedIffJob, JobsFresh, HasJob, Accepted,
                   approvalVars
  <2>13. SucceededIsTrue'
    BY <2>1, <2>3, <2>5 DEF SubmissionInv, SucceededIsTrue, Accepted
  <2> QED BY <2>7, <2>8, <2>11, <2>12, <2>13 DEF SubmissionInv
<1> QED BY <1>1, <1>2

(* The provider's act keeps the invariant, whether the sender is waiting    *)
(* for it or gone.                                                          *)
LEMMA AcceptInv ==
    ASSUME SubmissionInv, NEW a \in ApprovalIds, HasJob(a), NEW payload, Accept(a, payload),
           UNCHANGED <<approvalVars, job, unasked, crashes>>, late' \subseteq late,
           \/ caller' = caller
           \/ \E p \in Callers : caller[p].a = a /\ GoTo(p, "record")
    PROVE  SubmissionInv'
<1>0. /\ effects \in [ApprovalIds -> Nat] /\ late \subseteq Request
      /\ caller \in [Callers -> Caller] /\ \A b \in ApprovalIds : effects[b] <= 1
  BY DEF SubmissionInv, SubmissionTypeOK, EffectsSound
<1>1. /\ effects'[a] = 1
      /\ \A b \in ApprovalIds \ {a} : effects'[b] = effects[b]
      /\ effects' \in [ApprovalIds -> Nat]
      /\ hollow' \subseteq ApprovalIds
  <2>1. effects[a] \in Nat /\ effects[a] <= 1 /\ hollow \subseteq ApprovalIds
    BY <1>0 DEF SubmissionInv, SubmissionTypeOK
  <2> QED BY <1>0, <2>1 DEF Accept, Act
<1>2. \A p \in Callers : caller[p].a = a =>
         /\ At(p, "record") \in Caller
         /\ SoundCaller(At(p, "record"), job', effects')
  <2> SUFFICES ASSUME NEW p \in Callers, caller[p].a = a
               PROVE  /\ At(p, "record") \in Caller
                      /\ SoundCaller(At(p, "record"), job', effects')
    OBVIOUS
  <2>1. "record" \in Points
    BY DEF Points
  <2>2. At(p, "record") \in Caller /\ At(p, "record").pc = "record"
        /\ At(p, "record").a = a
    BY <1>0, <2>1, AtType
  <2> HIDE DEF At
  <2> QED BY <1>1, <2>2 DEF SoundCaller, Working, HasJob
<1>3. ApprovalInv'
  <2>1. [ApprovalStep]_approvalVars
    OBVIOUS
  <2> QED BY <2>1, ApprovalInvStep DEF SubmissionInv
<1>4. caller' \in [Callers -> Caller]
  BY <1>0, <1>2 DEF GoTo
<1>5. SubmissionTypeOK'
  BY <1>0, <1>1, <1>3, <1>4 DEF SubmissionInv, SubmissionTypeOK, ApprovalInv
<1>6. Grow
  BY <1>1 DEF Grow, HasJob, Accepted, SubmissionInv, SubmissionTypeOK, JobRow
<1>7. CallersSound'
  <2>1. CASE caller' = caller
    <3> SUFFICES ASSUME NEW q \in Callers PROVE SoundCaller(caller[q], job', effects')
      BY <2>1 DEF CallersSound
    <3> QED BY <1>0, <1>5, <1>6, CallerKept DEF SubmissionInv, CallersSound
  <2>2. ASSUME NEW p \in Callers, caller[p].a = a, GoTo(p, "record") PROVE CallersSound'
    <3>1. caller' = [caller EXCEPT ![p] = At(p, "record")]
      BY <2>2 DEF GoTo
    <3> HIDE DEF At
    <3> QED BY <1>2, <1>5, <1>6, <2>2, <3>1, CallerMoves
  <2> QED BY <2>1, <2>2
<1>8. EffectsSound' /\ ConsumedIffJob' /\ SucceededIsTrue' /\ JobsFresh'
  BY <1>0, <1>1 DEF SubmissionInv, EffectsSound, ConsumedIffJob, SucceededIsTrue,
                    JobsFresh, HasJob, Accepted, approvalVars
<1> QED BY <1>3, <1>5, <1>7, <1>8 DEF SubmissionInv

-----------------------------------------------------------------------------
(* Every step of the specification preserves the inductive invariant.       *)
LEMMA SubmissionInvStep ==
    ASSUME SubmissionInv, [Next]_vars
    PROVE  SubmissionInv'
<1> DEFINE quiet == UNCHANGED <<approvalVars, job, effects, hollow, late, unasked, crashes>>
<1>0. /\ late \subseteq Request /\ unasked \subseteq ApprovalIds /\ crashes \in Nat
      /\ \A m \in late : m.a \in ApprovalIds /\ HasJob(m.a)
  BY DEF SubmissionInv, SubmissionTypeOK, EffectsSound, Request
<1>1. ASSUME ApprovalStep /\ UNCHANGED submissionVars PROVE SubmissionInv'
  BY <1>1, ApprovalStepInv
<1>2. ASSUME NEW p \in Callers, NEW a \in ApprovalIds, NEW d, SubmitForApproval(p, a, d)
      PROVE  SubmissionInv'
  <2>0. quiet
    BY <1>2 DEF SubmitForApproval
  <2>1. CASE HasJob(a)
    <3>1. Resolve(a) \in {"idle", "resume"}
      BY DEF Resolve
    <3>2. Resolve(a) \in Points \ {"record", "settle", "cas", "park"}
      BY <3>1 DEF Points
    <3> DEFINE k == CallAt(a, Resolve(a), FALSE)
    <3>3. caller' = [caller EXCEPT ![p] = k]
      BY <1>2, <2>1 DEF SubmitForApproval
    <3>4. k \in Caller /\ k.pc = Resolve(a) /\ (Resolve(a) # "idle" => k.a = a)
      BY <3>2, CallAtType
    <3> HIDE DEF k, Resolve
    <3>5. SoundCaller(k, job, effects)
      BY <2>1, <3>2, <3>4, PlacedCallSound DEF Working
    <3> QED BY <1>0, <2>0, <3>3, <3>4, <3>5, CallerOnly
  <2>2. CASE ~ HasJob(a)
    <3> DEFINE k == [CallAt(a, "reauthorize", TRUE) EXCEPT !.fresh = (d = approval[a].digest)]
    <3>1. caller' = [caller EXCEPT ![p] = k]
      BY <1>2, <2>2 DEF SubmitForApproval
    <3>2. k \in Caller /\ k.pc = "reauthorize" /\ k.a = a
      <4>1. "reauthorize" \in Points /\ "ready" \in SubmissionStates
        BY DEF Points, SubmissionStates
      <4> QED BY <4>1 DEF CallAt, Caller
    <3> HIDE DEF k
    <3>3. SoundCaller(k, job, effects)
      BY <3>2 DEF SoundCaller, Working
    <3> QED BY <1>0, <2>0, <3>1, <3>2, <3>3, CallerOnly
  <2> QED BY <2>1, <2>2
<1>3. ASSUME NEW p \in Callers, NEW a \in ApprovalIds, Reconcile(p, a)
      PROVE  SubmissionInv'
  <2> DEFINE k == CallAt(a, "resume", FALSE)
  <2>1. quiet /\ HasJob(a) /\ caller' = [caller EXCEPT ![p] = k]
    BY <1>3 DEF Reconcile
  <2>2. "resume" \in Points
    BY DEF Points
  <2>3. k \in Caller /\ k.pc = "resume" /\ k.a = a
    BY <2>2, CallAtType
  <2> HIDE DEF k
  <2>4. SoundCaller(k, job, effects)
    BY <2>1, <2>3, PlacedCallSound
  <2> QED BY <1>0, <2>1, <2>3, <2>4, CallerOnly
<1>4. ASSUME NEW p \in Callers, Reauthorize(p) PROVE SubmissionInv'
  <2>1. quiet /\ caller[p].a \in ApprovalIds
        /\ \E pc \in {"claim", "idle"} : GoTo(p, pc)
    BY <1>4, CallerFacts DEF Reauthorize
  <2> QED BY <1>0, <2>1, GoToInv DEF Points, Working
<1>5. ASSUME NEW p \in Callers, ClaimLoad(p) PROVE SubmissionInv'
  <2> DEFINE a == caller[p].a
             k == [At(p, "consume") EXCEPT !.seen = approval[a].version]
  <2>1. quiet /\ a \in ApprovalIds
    BY <1>5, CallerFacts DEF ClaimLoad
  <2>2. CASE approval[a].status = "approved"
    <3>1. caller' = [caller EXCEPT ![p] = k]
      BY <1>5, <2>2 DEF ClaimLoad
    <3>2. k \in Caller /\ k.pc = "consume" /\ k.a = a
      <4>1. "consume" \in Points /\ caller[p] \in Caller /\ approval[a].version \in Nat
        BY <2>1, CallerFacts DEF Points, SubmissionInv, ApprovalInv, ApprovalTypeOK,
                                 ApprovalRow
      <4>2. At(p, "consume") \in Caller /\ At(p, "consume").pc = "consume"
            /\ At(p, "consume").a = a
        BY <4>1, AtType
      <4> HIDE DEF At
      <4> QED BY <4>1, <4>2 DEF Caller
    <3> HIDE DEF k
    <3>3. SoundCaller(k, job, effects)
      BY <2>1, <3>2 DEF SoundCaller, Working
    <3> QED BY <1>0, <2>1, <3>1, <3>2, <3>3, CallerOnly
  <2>3. CASE approval[a].status # "approved"
    <3>1. GoTo(p, "lost")
      BY <1>5, <2>3 DEF ClaimLoad, GoTo
    <3> QED BY <1>0, <2>1, <3>1, GoToInv DEF Points, Working
  <2> QED BY <2>2, <2>3
<1>6. ASSUME NEW p \in Callers, ClaimCommit(p) PROVE SubmissionInv'
  BY <1>6, ClaimCommitInv
<1>7. ASSUME NEW p \in Callers, ResolveWinner(p) PROVE SubmissionInv'
  <2>1. quiet /\ caller[p].a \in ApprovalIds
    BY <1>7, CallerFacts DEF ResolveWinner
  <2>2. GoTo(p, "idle") \/ (GoTo(p, "resume") /\ HasJob(caller[p].a))
    BY <1>7 DEF ResolveWinner, Resolve
  <2>3. {"idle", "resume"} \subseteq Points \ {"record", "settle", "cas", "park"}
    BY DEF Points
  <2> QED BY <1>0, <2>1, <2>2, <2>3, GoToInv DEF Working
<1>8. ASSUME NEW p \in Callers, ExecuteLoad(p) PROVE SubmissionInv'
  BY <1>8, LoadForInv DEF ExecuteLoad, Working, SubmissionStates
<1>9. ASSUME NEW p \in Callers, Send(p) PROVE SubmissionInv'
  <2>1. /\ UNCHANGED <<approvalVars, job, effects, hollow, late, crashes>>
        /\ caller[p].a \in ApprovalIds /\ HasJob(caller[p].a) /\ GoTo(p, "sent")
        /\ unasked' = unasked \cup {caller[p].a}
    BY <1>9, CallerFacts DEF Send, Working
  <2> QED BY <1>0, <2>1, GoToInv DEF Points
<1>10. ASSUME NEW p \in Callers, RecordLoad(p) PROVE SubmissionInv'
  <2>1. quiet /\ caller[p].pc \in Working
    BY <1>10 DEF RecordLoad, Working
  <2>2. CASE caller[p].pc = "record"
    <3>1. LoadFor(p, "succeeded", "cas") /\ Accepted(caller[p].a)
      BY <1>10, <2>2, CallerFacts DEF RecordLoad, SoundCaller, Accepted
    <3> QED BY <2>1, <3>1, LoadForInv DEF SubmissionStates
  <2>3. CASE caller[p].pc # "record"
    <3>1. LoadFor(p, "unknown_outcome", "cas")
      BY <1>10, <2>3 DEF RecordLoad
    <3> QED BY <2>1, <3>1, LoadForInv DEF SubmissionStates
  <2> QED BY <2>2, <2>3
<1>11. ASSUME NEW p \in Callers, ResumeLoad(p) PROVE SubmissionInv'
  <2>1. quiet /\ caller[p].pc \in Working /\ HasJob(caller[p].a)
        /\ caller[p].a \in ApprovalIds
    BY <1>11, CallerFacts DEF ResumeLoad, Working
  <2>2. \/ GoTo(p, "idle") \/ GoTo(p, "ask")
        \/ LoadFor(p, "ready", "cas") \/ LoadFor(p, "reconciling", "cas")
        \/ LoadFor(p, "unknown_outcome", "park")
    BY <1>11, Zenon DEF ResumeLoad
  <2>3. {"idle", "ask"} \subseteq Points \ {"record", "settle", "cas", "park"}
    BY DEF Points
  <2>4. {"ready", "reconciling", "unknown_outcome"} \subseteq SubmissionStates
    BY DEF SubmissionStates
  <2>5. CASE GoTo(p, "idle") \/ GoTo(p, "ask")
    BY <1>0, <2>1, <2>3, <2>5, GoToInv
  <2>6. CASE LoadFor(p, "ready", "cas") \/ LoadFor(p, "reconciling", "cas")
    BY <2>1, <2>4, <2>6, LoadForInv
  <2>7. CASE LoadFor(p, "unknown_outcome", "park")
    BY <2>1, <2>4, <2>7, LoadForInv
  <2> QED BY <2>2, <2>5, <2>6, <2>7
<1>12. ASSUME NEW p \in Callers, Ask(p) PROVE SubmissionInv'
  <2> DEFINE a == caller[p].a
             k == [At(p, "settle") EXCEPT !.answer = Accepted(a)]
  <2>1. /\ UNCHANGED <<approvalVars, job, effects, hollow, late, crashes>>
        /\ a \in ApprovalIds /\ HasJob(a) /\ unasked' \subseteq unasked
        /\ caller' = [caller EXCEPT ![p] = k]
    BY <1>12, CallerFacts DEF Ask, Working
  <2>2. k \in Caller /\ k.pc = "settle" /\ k.a = a /\ k.answer = Accepted(a)
    <3>1. "settle" \in Points /\ Accepted(a) \in BOOLEAN /\ caller[p] \in Caller
      BY CallerFacts DEF Points, Accepted
    <3>2. At(p, "settle") \in Caller /\ At(p, "settle").pc = "settle"
          /\ At(p, "settle").a = a
      BY <3>1, AtType
    <3> HIDE DEF At, Accepted
    <3> QED BY <3>1, <3>2 DEF Caller
  <2> HIDE DEF k
  <2>3. SoundCaller(k, job, effects)
    BY <2>1, <2>2 DEF SoundCaller, HasJob, Accepted
  <2> QED BY <1>0, <2>1, <2>2, <2>3, CallerOnly
<1>13. ASSUME NEW p \in Callers, SettleLoad(p) PROVE SubmissionInv'
  <2>1. quiet /\ caller[p].pc \in Working /\ LoadFor(p, SettleTarget(p), "cas")
    BY <1>13 DEF SettleLoad, Working
  <2>2. SettleTarget(p) \in SubmissionStates
    BY DEF SettleTarget, SubmissionStates
  <2>3. SettleTarget(p) = "succeeded" => Accepted(caller[p].a)
    BY <1>13, CallerFacts DEF SettleTarget, SettleLoad, SoundCaller, Accepted
  <2> HIDE DEF SettleTarget
  <2> QED BY <2>1, <2>2, <2>3, LoadForInv
<1>14. ASSUME NEW p \in Callers, TransitionCommit(p) PROVE SubmissionInv'
  BY <1>14, TransitionCommitInv
<1>15. ASSUME NEW p \in Callers, ProviderReplies(p) PROVE SubmissionInv'
  <2>1. caller[p].a \in ApprovalIds /\ HasJob(caller[p].a)
    BY <1>15, CallerFacts DEF ProviderReplies, Working
  <2> QED BY <1>15, <2>1, AcceptInv DEF ProviderReplies
<1>16. ASSUME NEW p \in Callers, SubmitRaises(p) PROVE SubmissionInv'
  <2>1. /\ UNCHANGED <<approvalVars, job, effects, hollow, unasked, crashes>>
        /\ GoTo(p, "unknown") /\ caller[p].a \in ApprovalIds /\ HasJob(caller[p].a)
        /\ late' \subseteq late \cup {InFlight(p)}
    BY <1>16, CallerFacts DEF SubmitRaises, Working
  <2>2. "unknown" \in Points \ {"record", "settle", "cas", "park"}
    BY DEF Points
  <2>3. InFlight(p) \in Request /\ InFlight(p).a = caller[p].a
    BY <2>1, CallerFacts DEF InFlight, Request, Caller
  <2> HIDE DEF InFlight
  <2> QED BY <1>0, <2>1, <2>2, <2>3, GoToInv
<1>17. ASSUME NEW p \in Callers, Crash(p) PROVE SubmissionInv'
  <2>1. /\ UNCHANGED <<approvalVars, job, effects, hollow, unasked>>
        /\ GoTo(p, "idle") /\ crashes' \in Nat /\ caller[p].a \in ApprovalIds
    BY <1>0, <1>17, CallerFacts DEF Crash
  <2>2. late' \subseteq late \/ (late' = late \cup {InFlight(p)} /\ HasJob(caller[p].a))
    BY <1>17, CallerFacts DEF Crash, Working
  <2>3. "idle" \in Points \ {"record", "settle", "cas", "park"}
    BY DEF Points
  <2>4. InFlight(p) \in Request /\ InFlight(p).a = caller[p].a
    BY <2>1, CallerFacts DEF InFlight, Request, Caller
  <2> HIDE DEF InFlight
  <2> QED BY <1>0, <2>1, <2>2, <2>3, <2>4, GoToInv DEF Working
<1>18. ASSUME NEW m \in late, LateAccept(m) PROVE SubmissionInv'
  BY <1>0, <1>18, AcceptInv DEF LateAccept
<1>19. CASE UNCHANGED vars
  <2>1. ApprovalInv'
    <3>1. [ApprovalStep]_approvalVars
      BY <1>19 DEF vars
    <3> QED BY <3>1, ApprovalInvStep DEF SubmissionInv
  <2>2. SubmissionTypeOK'
    BY <1>19, <2>1 DEF vars, submissionVars, SubmissionInv, SubmissionTypeOK, ApprovalInv
  <2>3. CallersSound' /\ EffectsSound' /\ ConsumedIffJob' /\ SucceededIsTrue' /\ JobsFresh'
    BY <1>19 DEF vars, submissionVars, approvalVars, SubmissionInv, CallersSound,
                 EffectsSound, ConsumedIffJob, SucceededIsTrue, JobsFresh, HasJob, Accepted
  <2> QED BY <2>1, <2>2, <2>3 DEF SubmissionInv
<1> QED BY <1>1, <1>2, <1>3, <1>4, <1>5, <1>6, <1>7, <1>8, <1>9, <1>10, <1>11, <1>12,
           <1>13, <1>14, <1>15, <1>16, <1>17, <1>18, <1>19 DEF Next, CallStep

(* The system starts in a state of the invariant.                           *)
LEMMA SubmissionInitInv == Init => SubmissionInv
<1> SUFFICES ASSUME Init PROVE SubmissionInv
  OBVIOUS
<1>1. ApprovalInv
  BY ApprovalInitInv DEF Init
<1>2. CallAt(Null, "idle", FALSE) \in Caller /\ CallAt(Null, "idle", FALSE).pc = "idle"
  <2>1. "idle" \in Points /\ Null \in ApprovalIds \cup {Null}
    BY DEF Points
  <2> QED BY <2>1, CallAtType
<1> HIDE DEF CallAt
<1>3. \A a \in ApprovalIds : ~ HasJob(a) /\ job[a].version = 0 /\ job[a] \in JobRow
                             /\ job[a].state # "succeeded" /\ effects[a] = 0
  BY DEF Init, SubmissionInit, HasJob, NoJob, JobRow
<1>4. SubmissionTypeOK
  BY <1>1, <1>2, <1>3 DEF Init, SubmissionInit, SubmissionTypeOK, ApprovalInv
<1>5. CallersSound
  BY <1>2 DEF Init, SubmissionInit, CallersSound, SoundCaller, Working
<1>6. EffectsSound /\ SucceededIsTrue /\ JobsFresh
  BY <1>3 DEF Init, SubmissionInit, EffectsSound, SucceededIsTrue, JobsFresh, Accepted
<1>7. ConsumedIffJob
  BY <1>3 DEF Init, ApprovalInit, NoApproval, ConsumedIffJob
<1> QED BY <1>1, <1>4, <1>5, <1>6, <1>7 DEF SubmissionInv

(* The inductive invariant holds in every behaviour.                        *)
THEOREM SubmissionInvariant == Spec => []SubmissionInv
BY SubmissionInitInv, SubmissionInvStep, PTL DEF Spec

(* The rows and the callers' locals always have the declared shape.         *)
THEOREM SubmissionTypeCorrect == Spec => []SubmissionTypeOK
<1>1. SubmissionInv => SubmissionTypeOK
  BY DEF SubmissionInv
<1> QED BY <1>1, SubmissionInvariant, PTL

(* An approval is consumed exactly when its job exists, for any number of   *)
(* concurrent callers, deciders, invalidations and sweeps.                  *)
THEOREM ConsumeAndClaimAreOne == Spec => []ConsumedIffJob
<1>1. SubmissionInv => ConsumedIffJob
  BY DEF SubmissionInv
<1> QED BY <1>1, SubmissionInvariant, PTL

(* The provider acts at most once, and only on approvals a person approved  *)
(* and a claim consumed, whatever crashes, retries and late requests occur. *)
THEOREM AtMostOnce == Spec => []AtMostOnceAndApproved
<1>1. SubmissionInv => AtMostOnceAndApproved
  <2> SUFFICES ASSUME SubmissionInv PROVE AtMostOnceAndApproved
    OBVIOUS
  <2>1. \A p \in Callers : caller[p].pc \in {"send", "sent"} => HasJob(caller[p].a)
    BY CallerFacts DEF Working
  <2>2. \A a \in ApprovalIds : HasJob(a) =>
            approval[a].status = "consumed" /\ approval[a].by \in Users
    BY DEF SubmissionInv, ConsumedIffJob, ApprovalInv, RowsSound
  <2> QED BY <2>1, <2>2 DEF SubmissionInv, EffectsSound, AtMostOnceAndApproved
<1> QED BY <1>1, SubmissionInvariant, PTL

(* Success is recorded only when the provider acted.                        *)
THEOREM SuccessIsTrue == Spec => []SucceededIsTrue
<1>1. SubmissionInv => SucceededIsTrue
  BY DEF SubmissionInv
<1> QED BY <1>1, SubmissionInvariant, PTL

-----------------------------------------------------------------------------
(* How a step may change the job of an approval: not at all, by inserting   *)
(* it, or along a legal transition.                                         *)
LEMMA JobSteps ==
    ASSUME SubmissionInv, [Next]_vars, NEW a \in ApprovalIds
    PROVE  \/ job'[a] = job[a]
           \/ ~ HasJob(a) /\ job'[a].state = "ready"
           \/ HasJob(a) /\ Legal(job[a].state, job'[a].state)
<1>1. CASE job' = job
  BY <1>1
<1>2. ASSUME NEW p \in Callers, ClaimCommit(p), job' # job
      PROVE  job'[a] = job[a] \/ (~ HasJob(a) /\ job'[a].state = "ready")
  BY <1>2 DEF ClaimCommit, SubmissionInv, SubmissionTypeOK, NoJob
<1>3. ASSUME NEW p \in Callers, TransitionCommit(p), job' # job
      PROVE  job'[a] = job[a] \/ (HasJob(a) /\ Legal(job[a].state, job'[a].state))
  <2>1. /\ TransitionHolds(p) /\ job' = Transition(caller[p].a, caller[p].to)
        /\ caller[p].pc \in {"cas", "park"}
    BY <1>3 DEF TransitionCommit
  <2>2. CASE caller[p].a = a
    <3>1. job'[a].state = caller[p].to
      BY <2>1, <2>2 DEF Transition, SubmissionInv, SubmissionTypeOK
    <3>2. HasJob(a) /\ Legal(job[a].state, caller[p].to)
      BY <2>1, <2>2, CallerFacts DEF SoundCaller, TransitionHolds, Working
    <3> QED BY <3>1, <3>2
  <2>3. CASE caller[p].a # a
    BY <2>1, <2>3 DEF Transition, SubmissionInv, SubmissionTypeOK
  <2> QED BY <2>2, <2>3
<1>4. \/ job' = job
      \/ \E p \in Callers : ClaimCommit(p)
      \/ \E p \in Callers : TransitionCommit(p)
  BY DEF Next, CallStep, vars, submissionVars, SubmitForApproval, Reconcile, Reauthorize,
         ClaimLoad, ResolveWinner, ExecuteLoad, Send, RecordLoad, ResumeLoad, Ask,
         SettleLoad, ProviderReplies, SubmitRaises, Crash, LateAccept
<1> QED BY <1>1, <1>2, <1>3, <1>4

(* A settled submission is never reopened.                                  *)
THEOREM SettledForGood == Spec => SettledIsFinal
<1>1. SubmissionInv /\ [Next]_vars =>
         [\A a \in ApprovalIds :
             job[a].state \in Settled => job'[a].state = job[a].state]_vars
  <2> SUFFICES ASSUME SubmissionInv, [Next]_vars, NEW a \in ApprovalIds,
                      job[a].state \in Settled
               PROVE  job'[a].state = job[a].state
    OBVIOUS
  <2>1. HasJob(a) /\ SubmissionTransitions[job[a].state] = {}
    BY DEF Settled, HasJob, SubmissionTransitions
  <2> QED BY <2>1, JobSteps DEF Legal
<1> QED BY <1>1, SubmissionInvariant, PTL DEF Spec, SettledIsFinal

-----------------------------------------------------------------------------
(* The retry budget.  A call holds a re-run when it may still execute       *)
(* without looking at the budget again.                                     *)
HoldsRerun(k, a) ==
    /\ k.a = a
    /\ \/ k.pc = "execute"
       \/ k.pc = "cas" /\ k.to \in {"ready", "executing"}

Holders(a) == {p \in Callers : HoldsRerun(caller[p], a)}

(* The attempts made and those that calls still hold.                       *)
BudgetKept(a) ==
    job[a].attempts + Cardinality(Holders(a)) <= MaxAttempts + Cardinality(Callers) - 1

(* The inductive invariant.  No operation writes recoverable_failed, whose  *)
(* resumption alone would run again without looking at the budget.          *)
BudgetInv ==
    /\ \A a \in ApprovalIds : BudgetKept(a) /\ job[a].state # "recoverable_failed"
    /\ \A p \in Callers : caller[p].to # "recoverable_failed"

(* The cardinalities involved are numbers.                                  *)
LEMMA HoldersCounted ==
    ASSUME NEW S \in SUBSET Callers
    PROVE  /\ IsFiniteSet(S) /\ Cardinality(S) \in Nat /\ Cardinality(Callers) \in Nat
           /\ Cardinality(S) <= Cardinality(Callers)
           /\ \A p \in S : Cardinality(S \ {p}) = Cardinality(S) - 1
           /\ \A T \in SUBSET S : Cardinality(T) <= Cardinality(S) /\ Cardinality(T) \in Nat
<1>1. IsFiniteSet(S) /\ Cardinality(S) <= Cardinality(Callers)
  BY CallersAssumption, FS_Subset
<1>2. Cardinality(S) \in Nat /\ Cardinality(Callers) \in Nat
  BY <1>1, CallersAssumption, FS_CardinalityType
<1>3. \A p \in S : Cardinality(S \ {p}) = Cardinality(S) - 1
  BY <1>1, FS_RemoveElement
<1>4. \A T \in SUBSET S : Cardinality(T) <= Cardinality(S) /\ Cardinality(T) \in Nat
  BY <1>1, FS_Subset, FS_CardinalityType
<1> QED BY <1>1, <1>2, <1>3, <1>4

(* Three ways for a step to keep the budget of an approval.                 *)
LEMMA BudgetSteps ==
    ASSUME SubmissionTypeOK, SubmissionTypeOK', NEW a \in ApprovalIds, BudgetKept(a),
           \/ Holders(a)' \subseteq Holders(a) /\ job'[a].attempts = job[a].attempts
           \/ job'[a].attempts < MaxAttempts
           \/ \E p \in Holders(a) : /\ Holders(a)' \subseteq Holders(a) \ {p}
                                     /\ job'[a].attempts = job[a].attempts + 1
    PROVE  BudgetKept(a)'
<1>1. PICK n, m, c : n = job[a].attempts /\ m = job'[a].attempts /\ c = Cardinality(Callers)
  OBVIOUS
<1>2. PICK H, K : H = Holders(a) /\ K = Holders(a)'
  OBVIOUS
<1>3. H \in SUBSET Callers /\ K \in SUBSET Callers
  BY <1>2 DEF Holders
<1>4. n \in Nat /\ m \in Nat /\ c \in Nat /\ MaxAttempts \in Nat \ {0}
  BY <1>1, <1>3, HoldersCounted, MaxAttemptsAssumption DEF SubmissionTypeOK, JobRow
<1>5. Cardinality(H) \in Nat /\ Cardinality(K) \in Nat /\ Cardinality(K) <= c
  BY <1>1, <1>3, HoldersCounted
<1>6. n + Cardinality(H) <= MaxAttempts + c - 1
  BY <1>1, <1>2 DEF BudgetKept
<1>7. SUFFICES m + Cardinality(K) <= MaxAttempts + c - 1
  BY <1>1, <1>2 DEF BudgetKept
<1>8. CASE K \subseteq H /\ m = n
  <2>1. Cardinality(K) <= Cardinality(H)
    BY <1>3, <1>8, HoldersCounted
  <2> QED BY <2>1, <1>4, <1>5, <1>6, <1>8
<1>9. CASE m < MaxAttempts
  BY <1>4, <1>5, <1>9
<1>10. ASSUME NEW p \in H, K \subseteq H \ {p}, m = n + 1
       PROVE  m + Cardinality(K) <= MaxAttempts + c - 1
  <2>1. Cardinality(H \ {p}) = Cardinality(H) - 1 /\ H \ {p} \in SUBSET Callers
    BY <1>3, HoldersCounted
  <2>2. Cardinality(K) <= Cardinality(H \ {p})
    BY <2>1, <1>10, HoldersCounted
  <2> QED BY <2>1, <2>2, <1>4, <1>5, <1>6, <1>10
<1> QED BY <1>1, <1>2, <1>8, <1>9, <1>10

(* A call moves on and no job changes: the call holds no re-run, or held it *)
(* before, or the budget is not spent.                                      *)
LEMMA MoveKeepsBudget ==
    ASSUME SubmissionTypeOK, SubmissionTypeOK', BudgetInv, NEW p \in Callers, NEW k,
           caller' = [caller EXCEPT ![p] = k], job' = job, k.to # "recoverable_failed",
           \A a \in ApprovalIds : HoldsRerun(k, a) =>
               HoldsRerun(caller[p], a) \/ job[a].attempts < MaxAttempts
    PROVE  BudgetInv'
<1>1. caller'[p] = k /\ \A q \in Callers : q # p => caller'[q] = caller[q]
  BY DEF SubmissionTypeOK
<1>2. ASSUME NEW a \in ApprovalIds
      PROVE  BudgetKept(a)'
  <2>1. job[a].attempts < MaxAttempts \/ Holders(a)' \subseteq Holders(a)
    BY <1>1 DEF Holders
  <2> QED BY <2>1, BudgetSteps DEF BudgetInv
<1>3. \A q \in Callers : caller'[q].to # "recoverable_failed"
  BY <1>1 DEF BudgetInv
<1> QED BY <1>2, <1>3 DEF BudgetInv

(* A call that is put at a point other than "execute".                      *)
LEMMA PlacedKeepsBudget ==
    ASSUME SubmissionTypeOK, SubmissionTypeOK', BudgetInv, NEW p \in Callers, NEW k,
           caller' = [caller EXCEPT ![p] = k], job' = job,
           k.pc \notin {"execute", "cas"}, k.to = "ready"
    PROVE  BudgetInv'
<1>1. \A a \in ApprovalIds : ~ HoldsRerun(k, a)
  BY DEF HoldsRerun
<1> QED BY <1>1, MoveKeepsBudget

LEMMA GoToKeepsBudget ==
    ASSUME SubmissionTypeOK, SubmissionTypeOK', BudgetInv, NEW p \in Callers, NEW pc,
           GoTo(p, pc), job' = job, pc \notin {"execute", "cas"}
    PROVE  BudgetInv'
<1>1. PICK k : k = At(p, pc)
  OBVIOUS
<1>2. k.pc = pc /\ k.to = "ready"
  BY <1>1 DEF At, CallAt
<1> QED BY <1>1, <1>2, PlacedKeepsBudget DEF GoTo

LEMMA LoadForKeepsBudget ==
    ASSUME SubmissionTypeOK, SubmissionTypeOK', BudgetInv, NEW p \in Callers, NEW to, NEW pc,
           LoadFor(p, to, pc), job' = job, pc \in {"cas", "park"}, to # "recoverable_failed",
           \/ pc = "park" \/ to \notin {"ready", "executing"}
           \/ caller[p].pc = "execute" \/ job[caller[p].a].attempts < MaxAttempts
    PROVE  BudgetInv'
<1>1. CASE Legal(job[caller[p].a].state, to)
  <2>1. PICK k : k = [At(p, pc) EXCEPT !.seen = job[caller[p].a].version, !.to = to]
    OBVIOUS
  <2>2. k.pc = pc /\ k.to = to /\ k.a = caller[p].a
    BY <2>1 DEF At, CallAt
  <2>3. caller' = [caller EXCEPT ![p] = k]
    BY <1>1, <2>1 DEF LoadFor
  <2>4. \A a \in ApprovalIds : HoldsRerun(k, a) =>
            HoldsRerun(caller[p], a) \/ job[a].attempts < MaxAttempts
    BY <2>2 DEF HoldsRerun
  <2> QED BY <2>2, <2>3, <2>4, MoveKeepsBudget
<1>2. CASE ~ Legal(job[caller[p].a].state, to)
  <2>1. GoTo(p, "idle")
    BY <1>2 DEF LoadFor, GoTo
  <2> QED BY <2>1, GoToKeepsBudget
<1> QED BY <1>1, <1>2

(* A new job has all of its attempts.                                       *)
LEMMA ClaimKeepsBudget ==
    ASSUME SubmissionTypeOK, SubmissionTypeOK', BudgetInv, NEW p \in Callers, ClaimCommit(p),
           caller[p].a \in ApprovalIds
    PROVE  BudgetInv'
<1>1. PICK a, k : a = caller[p].a /\ k = At(p, "execute")
  OBVIOUS
<1>2. CASE GoTo(p, "lost") /\ job' = job
  BY <1>2, GoToKeepsBudget
<1>3. CASE /\ job' = [job EXCEPT ![a] = [NoJob EXCEPT !.state = "ready", !.version = 1]]
           /\ GoTo(p, "execute")
  <2>1. k.a = a /\ k.to = "ready"
    BY <1>1 DEF At, CallAt
  <2>2. caller'[p] = k /\ \A q \in Callers : q # p => caller'[q] = caller[q]
    BY <1>1, <1>3 DEF GoTo, SubmissionTypeOK
  <2>3. /\ a \in ApprovalIds /\ job'[a].attempts = 0 /\ job'[a].state = "ready"
        /\ \A b \in ApprovalIds : b # a => job'[b] = job[b]
    BY <1>1, <1>3 DEF SubmissionTypeOK, NoJob
  <2>4. ASSUME NEW b \in ApprovalIds
        PROVE  BudgetKept(b)' /\ job'[b].state # "recoverable_failed"
    <3>1. CASE b = a
      BY <3>1, <2>3, MaxAttemptsAssumption, BudgetSteps DEF BudgetInv
    <3>2. CASE b # a
      <4>1. Holders(b)' \subseteq Holders(b)
        BY <3>2, <2>1, <2>2 DEF Holders, HoldsRerun
      <4> QED BY <3>2, <4>1, <2>3, BudgetSteps DEF BudgetInv
    <3> QED BY <3>1, <3>2
  <2>5. \A q \in Callers : caller'[q].to # "recoverable_failed"
    BY <2>1, <2>2 DEF BudgetInv
  <2> QED BY <2>4, <2>5 DEF BudgetInv
<1> QED BY <1>1, <1>2, <1>3 DEF ClaimCommit

(* An attempt is made by a call that held it, and is held no longer.        *)
LEMMA CommitKeepsBudget ==
    ASSUME SubmissionTypeOK, SubmissionTypeOK', BudgetInv, NEW p \in Callers, TransitionCommit(p),
           caller[p].a \in ApprovalIds, caller[p].pc = "park" => caller[p].to = "unknown_outcome"
    PROVE  BudgetInv'
<1>1. PICK a, to, k : a = caller[p].a /\ to = caller[p].to /\ k = AfterCommit(p)
  OBVIOUS
<1>2. CASE GoTo(p, "idle") /\ job' = job
  BY <1>2, GoToKeepsBudget
<1>3. CASE job' = Transition(a, to) /\ caller' = [caller EXCEPT ![p] = k]
  <2>1. caller'[p] = k /\ \A q \in Callers : q # p => caller'[q] = caller[q]
    BY <1>3 DEF SubmissionTypeOK
  <2>2. job[a].attempts \in Nat /\ a \in ApprovalIds /\ to # "recoverable_failed"
    BY <1>1 DEF SubmissionTypeOK, JobRow, BudgetInv
  <2>3. /\ job'[a].state = to
        /\ job'[a].attempts = job[a].attempts + (IF to = "executing" THEN 1 ELSE 0)
        /\ \A b \in ApprovalIds : b # a => job'[b] = job[b]
    BY <1>3, <2>2 DEF Transition, SubmissionTypeOK
  <2>4. /\ k.to # "recoverable_failed"
        /\ \A b : HoldsRerun(k, b) => b = a /\ to = "ready" /\ caller[p].pc = "cas"
    <3>1. CASE caller[p].pc = "park"
      <4>1. k = [At(p, "cas") EXCEPT !.seen = caller[p].seen + 1, !.to = "reconciling"]
        BY <1>1, <3>1 DEF AfterCommit
      <4>2. k.pc = "cas" /\ k.to = "reconciling"
        BY <4>1 DEF At, CallAt
      <4> QED BY <4>2 DEF HoldsRerun
    <3>2. CASE caller[p].pc # "park"
      <4>1. caller[p].pc = "cas"
        BY <3>2 DEF TransitionCommit
      <4>2. PICK pc : /\ k = At(p, pc) /\ pc # "cas" /\ (pc = "execute" => to = "ready")
        BY <1>1, <3>2 DEF AfterCommit
      <4>3. k.pc = pc /\ k.to = "ready" /\ (pc # "idle" => k.a = a)
        BY <1>1, <4>2 DEF At, CallAt
      <4> QED BY <4>1, <4>2, <4>3 DEF HoldsRerun
    <3> QED BY <3>1, <3>2
  <2>5. ASSUME NEW b \in ApprovalIds
        PROVE  BudgetKept(b)' /\ job'[b].state # "recoverable_failed"
    <3>1. CASE b # a
      <4>1. Holders(b)' \subseteq Holders(b)
        BY <3>1, <2>1, <2>4 DEF Holders, HoldsRerun
      <4> QED BY <3>1, <4>1, <2>3, BudgetSteps DEF BudgetInv
    <3>2. CASE b = a /\ to = "executing"
      <4>1. p \in Holders(a)
        BY <1>1, <3>2 DEF Holders, HoldsRerun, TransitionCommit
      <4>2. Holders(a)' \subseteq Holders(a) \ {p}
        BY <3>2, <2>1, <2>4 DEF Holders
      <4>3. job'[a].attempts = job[a].attempts + 1
        BY <3>2, <2>3
      <4> QED BY <3>2, <4>1, <4>2, <4>3, <2>2, <2>3, BudgetSteps DEF BudgetInv
    <3>3. CASE b = a /\ to # "executing"
      <4>1. HoldsRerun(k, a) => HoldsRerun(caller[p], a)
        BY <1>1, <2>4 DEF HoldsRerun
      <4>2. Holders(a)' \subseteq Holders(a)
        BY <4>1, <2>1 DEF Holders
      <4>3. job'[a].attempts = job[a].attempts
        BY <3>3, <2>2, <2>3
      <4> QED BY <3>3, <4>2, <4>3, <2>2, <2>3, BudgetSteps DEF BudgetInv
    <3> QED BY <3>1, <3>2, <3>3
  <2>6. \A q \in Callers : caller'[q].to # "recoverable_failed"
    BY <2>1, <2>4 DEF BudgetInv
  <2> QED BY <2>5, <2>6 DEF BudgetInv
<1> QED BY <1>1, <1>2, <1>3 DEF TransitionCommit

LEMMA BudgetInvStep ==
    ASSUME SubmissionInv, BudgetInv, [Next]_vars
    PROVE  BudgetInv'
<1>1. SubmissionTypeOK /\ SubmissionTypeOK'
  BY SubmissionInvStep DEF SubmissionInv
<1>2. CASE caller' = caller /\ job' = job
  BY <1>2 DEF BudgetInv, BudgetKept, Holders, HoldsRerun
<1>3. ASSUME NEW p \in Callers, NEW a \in ApprovalIds, NEW d \in Digests,
             SubmitForApproval(p, a, d)
      PROVE  BudgetInv'
  <2>1. PICK k : /\ k = IF HasJob(a) THEN CallAt(a, Resolve(a), FALSE)
                         ELSE [CallAt(a, "reauthorize", TRUE) EXCEPT
                                   !.fresh = (d = approval[a].digest)]
    OBVIOUS
  <2>2. caller' = [caller EXCEPT ![p] = k] /\ job' = job
    BY <1>3, <2>1 DEF SubmitForApproval
  <2>3. k.pc \in {"idle", "resume", "reauthorize"} /\ k.to = "ready"
    BY <2>1 DEF CallAt, Resolve
  <2> QED BY <1>1, <2>2, <2>3, PlacedKeepsBudget
<1>4. ASSUME NEW p \in Callers, NEW a \in ApprovalIds, Reconcile(p, a)
      PROVE  BudgetInv'
  <2>1. CallAt(a, "resume", FALSE).pc = "resume" /\ CallAt(a, "resume", FALSE).to = "ready"
    BY DEF CallAt
  <2> HIDE DEF CallAt
  <2> QED BY <1>1, <1>4, <2>1, PlacedKeepsBudget DEF Reconcile
<1>5. ASSUME NEW p \in Callers, \/ Reauthorize(p) \/ ResolveWinner(p) \/ Send(p)
                                \/ ProviderReplies(p) \/ SubmitRaises(p) \/ Crash(p)
      PROVE  BudgetInv'
  <2>1. job' = job /\ \E pc : GoTo(p, pc) /\ pc \notin {"execute", "cas"}
    BY <1>5 DEF Reauthorize, ResolveWinner, Send, ProviderReplies, SubmitRaises, Crash, Resolve
  <2> QED BY <1>1, <2>1, GoToKeepsBudget
<1>6. ASSUME NEW p \in Callers, ClaimLoad(p)
      PROVE  BudgetInv'
  <2>1. PICK k : k = IF approval[caller[p].a].status = "approved"
                       THEN [At(p, "consume") EXCEPT !.seen = approval[caller[p].a].version]
                       ELSE At(p, "lost")
    OBVIOUS
  <2>2. caller' = [caller EXCEPT ![p] = k] /\ job' = job
    BY <1>6, <2>1 DEF ClaimLoad
  <2>3. k.pc \in {"consume", "lost"} /\ k.to = "ready"
    BY <2>1 DEF At, CallAt
  <2> QED BY <1>1, <2>2, <2>3, PlacedKeepsBudget
<1>7. ASSUME NEW p \in Callers, Ask(p)
      PROVE  BudgetInv'
  <2>1. PICK k : k = [At(p, "settle") EXCEPT !.answer = Accepted(caller[p].a)]
    OBVIOUS
  <2>2. caller' = [caller EXCEPT ![p] = k] /\ job' = job
    BY <1>7, <2>1 DEF Ask
  <2>3. k.pc = "settle" /\ k.to = "ready"
    BY <2>1 DEF At, CallAt
  <2> QED BY <1>1, <2>2, <2>3, PlacedKeepsBudget
<1>8. ASSUME NEW p \in Callers, ExecuteLoad(p) \/ RecordLoad(p)
      PROVE  BudgetInv'
  BY <1>1, <1>8, LoadForKeepsBudget DEF ExecuteLoad, RecordLoad
<1>9. ASSUME NEW p \in Callers, ResumeLoad(p)
      PROVE  BudgetInv'
  <2>1. caller[p].pc = "resume" /\ caller[p].a \in ApprovalIds
    BY <1>9, CallerFacts DEF ResumeLoad
  <2>2. job' = job /\ job[caller[p].a].state # "recoverable_failed"
    BY <1>9, <2>1 DEF ResumeLoad, BudgetInv
  <2>3. \/ GoTo(p, "idle") \/ GoTo(p, "ask")
        \/ LoadFor(p, "unknown_outcome", "park") \/ LoadFor(p, "reconciling", "cas")
    BY <1>9, <2>2 DEF ResumeLoad
  <2> QED BY <1>1, <2>2, <2>3, GoToKeepsBudget, LoadForKeepsBudget
<1>10. ASSUME NEW p \in Callers, SettleLoad(p)
       PROVE  BudgetInv'
  <2>1. job' = job /\ LoadFor(p, SettleTarget(p), "cas") /\ caller[p].a \in ApprovalIds
    BY <1>10, CallerFacts DEF SettleLoad
  <2>2. SettleTarget(p) \in {"succeeded", "terminal_failed", "ready"}
    BY DEF SettleTarget
  <2>3. SettleTarget(p) = "ready" => job[caller[p].a].attempts < MaxAttempts
    <3>1. job[caller[p].a].attempts \in Nat /\ MaxAttempts \in Nat
      BY <1>1, <2>1, MaxAttemptsAssumption DEF SubmissionTypeOK, JobRow
    <3> QED BY <3>1 DEF SettleTarget
  <2> QED BY <1>1, <2>1, <2>2, <2>3, LoadForKeepsBudget
<1>11. ASSUME NEW p \in Callers, ClaimCommit(p)
       PROVE  BudgetInv'
  <2>1. caller[p].a \in ApprovalIds
    BY <1>11, CallerFacts DEF ClaimCommit
  <2> QED BY <1>1, <1>11, <2>1, ClaimKeepsBudget
<1>12. ASSUME NEW p \in Callers, TransitionCommit(p)
       PROVE  BudgetInv'
  <2>1. caller[p].a \in ApprovalIds /\ (caller[p].pc = "park" => caller[p].to = "unknown_outcome")
    BY <1>12, CallerFacts DEF TransitionCommit, SoundCaller
  <2> QED BY <1>1, <1>12, <2>1, CommitKeepsBudget
<1>13. ASSUME \/ ApprovalStep /\ UNCHANGED submissionVars
              \/ \E m \in late : LateAccept(m)
              \/ UNCHANGED vars
       PROVE  BudgetInv'
  BY <1>2, <1>13 DEF submissionVars, vars, LateAccept
<1> QED BY <1>3, <1>4, <1>5, <1>6, <1>7, <1>8, <1>9, <1>10, <1>11, <1>12, <1>13
        DEF Next, CallStep

(* The retry budget: however many calls settle, resume and die, a job is    *)
(* never executed more often than max_attempts plus one late re-run for     *)
(* every other call that may be under way.                                  *)
THEOREM BudgetIsKept == Spec => []AttemptsWithinBudget
<1>1. Init => BudgetInv
  <2> SUFFICES ASSUME Init
               PROVE  BudgetInv
    OBVIOUS
  <2>1. \A p \in Callers : caller[p].pc = "idle" /\ caller[p].to = "ready"
    BY DEF Init, SubmissionInit, CallAt
  <2>2. \A a \in ApprovalIds : job[a].attempts = 0 /\ job[a].state = "none" /\ Holders(a) = {}
    BY <2>1 DEF Init, SubmissionInit, NoJob, Holders, HoldsRerun
  <2>3. Cardinality({}) = 0 /\ Cardinality(Callers) \in Nat
    BY FS_EmptySet, FS_CardinalityType, CallersAssumption
  <2>4. \A a \in ApprovalIds : BudgetKept(a)
    BY <2>2, <2>3, MaxAttemptsAssumption DEF BudgetKept
  <2> QED BY <2>1, <2>2, <2>4 DEF BudgetInv
<1>2. SubmissionInv /\ BudgetInv => AttemptsWithinBudget
  <2> SUFFICES ASSUME SubmissionInv, BudgetInv, NEW a \in ApprovalIds
               PROVE  job[a].attempts <= MaxAttempts + Cardinality(Callers) - 1
    BY DEF AttemptsWithinBudget
  <2>1. Holders(a) \in SUBSET Callers
    BY DEF Holders
  <2>2. Cardinality(Holders(a)) \in Nat /\ Cardinality(Callers) \in Nat
    BY <2>1, HoldersCounted
  <2>3. job[a].attempts \in Nat /\ MaxAttempts \in Nat /\ BudgetKept(a)
    BY MaxAttemptsAssumption DEF SubmissionInv, SubmissionTypeOK, JobRow, BudgetInv
  <2> QED BY <2>2, <2>3 DEF BudgetKept
<1> QED BY <1>1, <1>2, BudgetInvStep, SubmissionInvariant, PTL DEF Spec

-----------------------------------------------------------------------------
(* The refinement of GovernedAction.  Abbreviations for the mapped state.   *)
PhaseMap == [a \in ApprovalIds |-> PhaseOf(approval[a].status)]

OutcomeMap == [a \in ApprovalIds |-> OutcomeOf(job[a].state)]

(* A step of the approval service decides, withdraws or changes nothing     *)
(* that the abstract state shows.                                           *)
LEMMA ApprovalStepRefines ==
    ASSUME ApprovalInv, [ApprovalStep]_approvalVars, UNCHANGED <<job, effects, hollow>>
    PROVE  Governed!GovernedNext \/ UNCHANGED Governed!governedVars
<1> USE DEF PhaseMap
<1>0. UNCHANGED effects /\ OutcomeMap' = OutcomeMap
  BY DEF OutcomeMap
<1>1. CASE PhaseMap' = PhaseMap
  BY <1>0, <1>1 DEF Governed!governedVars, OutcomeMap
<1>2. ASSUME NEW r \in requests, RequestApprovalCommit(r) PROVE PhaseMap' = PhaseMap
  <2>1. \A a \in ApprovalIds :
            \/ approval'[a] = approval[a]
            \/ approval[a].status = "none" /\ approval'[a].status = "pending"
    BY <1>2 DEF RequestApprovalCommit, ApprovalInv, RequestSound, Exists, ApprovalTypeOK
  <2>2. PhaseOf("none") = "undecided" /\ PhaseOf("pending") = "undecided"
    BY DEF PhaseOf
  <2> HIDE DEF PhaseOf
  <2>3. \A a \in ApprovalIds : PhaseOf(approval'[a].status) = PhaseOf(approval[a].status)
    BY <2>1, <2>2
  <2> QED BY <2>3
<1>3. ASSUME NEW t \in txns, CommitTxn(t), approval' # approval
      PROVE  Governed!GovernedNext
  <2>1. CasHolds(t) /\ approval' = ApplyApproval(t)
    BY <1>3 DEF CommitTxn
  <2>2. \A a \in Touched(t) :
            /\ a \in ApprovalIds
            /\ approval[a].status \in {"pending", "approved"}
            /\ t.to \in {"approved", "rejected", "expired", "invalidated"}
            /\ t.to \in {"approved", "rejected"} => approval[a].status = "pending"
    BY <2>1, CommitIsLegal
  <2>3. \A a \in ApprovalIds :
            /\ a \notin Touched(t) => approval'[a] = approval[a]
            /\ a \in Touched(t) => approval'[a].status = t.to
    BY <2>1, CommitRows
  <2>4. CASE t.to = "approved"
    <3>1. PICK x \in Touched(t) : TRUE
      BY <1>3, <2>4 DEF CommitTxn
    <3>2. Touched(t) = {x}
      BY <2>4, <3>1 DEF ApprovalInv, TxnSound, SoundTxn
    <3>3. x \in ApprovalIds /\ PhaseMap[x] = "undecided"
      BY <2>2, <2>4, <3>1 DEF PhaseOf
    <3>4. PhaseMap' = [PhaseMap EXCEPT ![x] = "approved"]
      <4>1. PhaseOf("approved") = "approved"
        BY DEF PhaseOf
      <4> HIDE DEF PhaseOf
      <4> QED BY <2>3, <2>4, <3>2, <3>3, <4>1
    <3>5. Governed!Approve(x)
      BY <1>0, <3>3, <3>4 DEF Governed!Approve, OutcomeMap
    <3> QED BY <3>3, <3>5 DEF Governed!GovernedNext
  <2>5. CASE t.to # "approved"
    <3> DEFINE S == Touched(t)
    <3>1. S \in SUBSET ApprovalIds
      BY <2>2
    <3>2. \A x \in S : PhaseMap[x] \in {"undecided", "approved"}
      BY <2>2 DEF PhaseOf
    <3>3. \A x \in S : PhaseOf(t.to) = "withdrawn"
      BY <2>2, <2>5 DEF PhaseOf
    <3> HIDE DEF PhaseOf, S
    <3>4. PhaseMap' = [x \in ApprovalIds |-> IF x \in S THEN "withdrawn" ELSE PhaseMap[x]]
      BY <2>3, <3>1, <3>3 DEF S
    <3>5. Governed!Withdraw(S)
      BY <1>0, <3>2, <3>4 DEF Governed!Withdraw, OutcomeMap
    <3> QED BY <3>1, <3>5 DEF Governed!GovernedNext
  <2> QED BY <2>4, <2>5
<1>4. \/ approval' = approval
      \/ \E r \in requests : RequestApprovalCommit(r)
      \/ \E t \in txns : CommitTxn(t)
  BY DEF ApprovalStep, approvalVars, CreateChangeSet, RequestApproval, Decide, Open,
         InvalidateIfChanged, ExpireDue, LoseTxn, LoseRequest, EditBoundInput,
         DeadlinePasses, ChangeAuthority
<1> QED BY <1>1, <1>2, <1>3, <1>4

(* The claim consumes.                                                      *)
LEMMA ClaimRefines ==
    ASSUME SubmissionInv, NEW p \in Callers, ClaimCommit(p)
    PROVE  Governed!GovernedNext \/ UNCHANGED Governed!governedVars
<1> DEFINE a == caller[p].a
<1>0. a \in ApprovalIds /\ effects' = effects
  BY CallerFacts DEF ClaimCommit
<1>1. CASE UNCHANGED <<approval, job>>
  BY <1>0, <1>1 DEF Governed!governedVars
<1>2. CASE ~ UNCHANGED <<approval, job>>
  <2>1. /\ approval[a].status = "approved" /\ ~ HasJob(a)
        /\ approval' = [approval EXCEPT ![a].status = "consumed", ![a].version = @ + 1]
        /\ job' = [job EXCEPT ![a] = [NoJob EXCEPT !.state = "ready", !.version = 1]]
    BY <1>2 DEF ClaimCommit
  <2>2. /\ approval'[a].status = "consumed"
        /\ \A b \in ApprovalIds \ {a} : approval'[b] = approval[b]
        /\ job'[a].state = "ready" /\ job[a].state = "none"
        /\ \A b \in ApprovalIds \ {a} : job'[b] = job[b]
    BY <1>0, <2>1 DEF SubmissionInv, SubmissionTypeOK, ApprovalTypeOK, ApprovalRow,
                      HasJob, NoJob
  <2>3. /\ PhaseOf("approved") = "approved" /\ PhaseOf("consumed") = "consumed"
        /\ OutcomeOf("ready") = "open" /\ OutcomeOf("none") = "open"
    BY DEF PhaseOf, OutcomeOf
  <2> HIDE DEF PhaseOf, OutcomeOf
  <2>4. PhaseMap' = [PhaseMap EXCEPT ![a] = "consumed"] /\ PhaseMap[a] = "approved"
    <3>1. PhaseMap[a] = "approved"
      BY <1>0, <2>1, <2>3 DEF PhaseMap
    <3>2. \A b \in ApprovalIds :
              PhaseOf(approval'[b].status) = IF b = a THEN "consumed"
                                             ELSE PhaseOf(approval[b].status)
      BY <2>2, <2>3
    <3> QED BY <1>0, <3>1, <3>2 DEF PhaseMap
  <2>5. OutcomeMap' = OutcomeMap
    <3>1. \A b \in ApprovalIds : OutcomeOf(job'[b].state) = OutcomeOf(job[b].state)
      BY <2>2, <2>3
    <3> QED BY <3>1 DEF OutcomeMap
  <2>6. Governed!Consume(a)
    BY <1>0, <2>4, <2>5 DEF Governed!Consume, PhaseMap, OutcomeMap
  <2> QED BY <1>0, <2>6 DEF Governed!GovernedNext
<1> QED BY <1>1, <1>2

(* A transition of the job reports, truly and once, or changes nothing      *)
(* visible.                                                                 *)
LEMMA TransitionRefines ==
    ASSUME SubmissionInv, NEW p \in Callers, TransitionCommit(p)
    PROVE  Governed!GovernedNext \/ UNCHANGED Governed!governedVars
<1> DEFINE a == caller[p].a
           to == caller[p].to
<1>0. /\ a \in ApprovalIds /\ HasJob(a) /\ UNCHANGED <<approval, effects, hollow>>
      /\ caller[p].pc \in {"cas", "park"} /\ to \in SubmissionStates
  BY CallerFacts DEF TransitionCommit, approvalVars, Working, Caller
<1>1. PhaseMap' = PhaseMap
  BY <1>0 DEF PhaseMap
<1>2. CASE OutcomeMap' = OutcomeMap
  BY <1>0, <1>1, <1>2 DEF Governed!governedVars, PhaseMap, OutcomeMap
<1>3. CASE OutcomeMap' # OutcomeMap
  <2>1. TransitionHolds(p) /\ job' = Transition(a, to)
    BY <1>3 DEF TransitionCommit, OutcomeMap
  <2>2. job'[a].state = to /\ \A b \in ApprovalIds \ {a} : job'[b] = job[b]
    BY <1>0, <2>1 DEF Transition, SubmissionInv, SubmissionTypeOK
  <2>3. Legal(job[a].state, to) /\ (to = "succeeded" => effects[a] = 1)
    <3>1. Legal(job[a].state, to) /\ (to = "succeeded" => effects[a] > 0)
      BY <1>0, <2>1, CallerFacts DEF SoundCaller, TransitionHolds
    <3>2. effects[a] \in Nat /\ effects[a] <= 1
      BY <1>0 DEF SubmissionInv, SubmissionTypeOK, EffectsSound
    <3> QED BY <3>1, <3>2
  <2>4. OutcomeMap' = [OutcomeMap EXCEPT ![a] = OutcomeOf(to)]
    BY <1>0, <2>2 DEF OutcomeMap
  <2>5. OutcomeOf(job[a].state) # OutcomeOf(to)
    BY <1>0, <1>3, <2>4 DEF OutcomeMap
  <2>6. job[a].state \in SubmissionStates
    BY <1>0 DEF SubmissionInv, SubmissionTypeOK, JobRow, HasJob
  <2>7. OutcomeMap[a] = "open"
    <3>1. job[a].state \notin Settled
      BY <2>3, <2>5 DEF Settled, Legal, SubmissionTransitions
    <3> QED BY <1>0, <3>1 DEF Settled, OutcomeOf, OutcomeMap
  <2>8. OutcomeOf(to) \in {"succeeded", "failed"}
        /\ (OutcomeOf(to) = "succeeded" => to = "succeeded")
    BY <1>0, <2>5, <2>7 DEF OutcomeOf, OutcomeMap
  <2>9. PhaseMap[a] = "consumed"
    BY <1>0 DEF SubmissionInv, ConsumedIffJob, PhaseMap, PhaseOf
  <2> HIDE DEF OutcomeOf, PhaseOf
  <2>10. Governed!Report(a, OutcomeOf(to))
    BY <1>0, <1>1, <2>3, <2>4, <2>7, <2>8, <2>9 DEF Governed!Report, PhaseMap, OutcomeMap
  <2> QED BY <1>0, <2>8, <2>10 DEF Governed!GovernedNext
<1> QED BY <1>2, <1>3

(* The provider's act is the abstract act, a repeat is a stutter.           *)
LEMMA AcceptRefines ==
    ASSUME SubmissionInv, NEW a \in ApprovalIds, HasJob(a), NEW payload, Accept(a, payload),
           UNCHANGED <<approvalVars, job>>
    PROVE  Governed!GovernedNext \/ UNCHANGED Governed!governedVars
<1>1. PhaseMap' = PhaseMap /\ OutcomeMap' = OutcomeMap
  BY DEF PhaseMap, OutcomeMap, approvalVars
<1>2. effects \in [ApprovalIds -> Nat]
  BY DEF SubmissionInv, SubmissionTypeOK
<1>3. CASE effects[a] # 0
  <2>1. effects' = effects
    BY <1>2, <1>3 DEF Accept, Act
  <2> QED BY <1>1, <2>1 DEF Governed!governedVars, PhaseMap, OutcomeMap
<1>4. CASE effects[a] = 0
  <2>1. effects' = [effects EXCEPT ![a] = 1]
    BY <1>2, <1>4 DEF Accept, Act
  <2>2. PhaseMap[a] = "consumed"
    BY DEF SubmissionInv, ConsumedIffJob, PhaseMap, PhaseOf
  <2>3. Governed!Act(a)
    BY <1>1, <1>4, <2>1, <2>2 DEF Governed!Act, PhaseMap, OutcomeMap
  <2> QED BY <2>3 DEF Governed!GovernedNext
<1> QED BY <1>3, <1>4

(* The detailed specification implements the abstract promise.              *)
THEOREM Refinement == Spec => ImplementsGovernedAction
<1>1. Init => Governed!GovernedInit
  <2> SUFFICES ASSUME Init PROVE Governed!GovernedInit
    OBVIOUS
  <2>1. \A a \in ApprovalIds : approval[a].status = "none" /\ job[a].state = "none"
    BY DEF Init, ApprovalInit, SubmissionInit, NoApproval, NoJob
  <2>2. PhaseOf("none") = "undecided" /\ OutcomeOf("none") = "open"
    BY DEF PhaseOf, OutcomeOf
  <2> HIDE DEF PhaseOf, OutcomeOf
  <2> QED BY <2>1, <2>2 DEF Governed!GovernedInit, Init, SubmissionInit
<1>2. SubmissionInv /\ [Next]_vars => [Governed!GovernedNext]_(Governed!governedVars)
  <2> SUFFICES ASSUME SubmissionInv, [Next]_vars
               PROVE  Governed!GovernedNext \/ UNCHANGED Governed!governedVars
    OBVIOUS
  <2>1. CASE UNCHANGED <<approval, job, effects, hollow>>
    BY <2>1 DEF Governed!governedVars
  <2>2. CASE ApprovalStep /\ UNCHANGED submissionVars
    BY <2>2, ApprovalStepRefines DEF SubmissionInv, submissionVars
  <2>3. ASSUME NEW p \in Callers, ClaimCommit(p)
        PROVE  Governed!GovernedNext \/ UNCHANGED Governed!governedVars
    BY <2>3, ClaimRefines
  <2>4. ASSUME NEW p \in Callers, TransitionCommit(p)
        PROVE  Governed!GovernedNext \/ UNCHANGED Governed!governedVars
    BY <2>4, TransitionRefines
  <2>5. ASSUME NEW p \in Callers, ProviderReplies(p)
        PROVE  Governed!GovernedNext \/ UNCHANGED Governed!governedVars
    <3>1. caller[p].a \in ApprovalIds /\ HasJob(caller[p].a)
      BY <2>5, CallerFacts DEF ProviderReplies, Working
    <3> QED BY <2>5, <3>1, AcceptRefines DEF ProviderReplies
  <2>6. ASSUME NEW m \in late, LateAccept(m)
        PROVE  Governed!GovernedNext \/ UNCHANGED Governed!governedVars
    <3>1. m.a \in ApprovalIds /\ HasJob(m.a)
      BY DEF SubmissionInv, SubmissionTypeOK, EffectsSound, Request
    <3> QED BY <2>6, <3>1, AcceptRefines DEF LateAccept
  <2>7. \/ UNCHANGED <<approval, job, effects, hollow>>
        \/ ApprovalStep /\ UNCHANGED submissionVars
        \/ \E p \in Callers : ClaimCommit(p) \/ TransitionCommit(p) \/ ProviderReplies(p)
        \/ \E m \in late : LateAccept(m)
    BY DEF Next, CallStep, vars, submissionVars, approvalVars, SubmitForApproval,
           Reconcile, Reauthorize, ClaimLoad, ResolveWinner, ExecuteLoad, Send,
           RecordLoad, ResumeLoad, Ask, SettleLoad, SubmitRaises, Crash
  <2> QED BY <2>1, <2>2, <2>3, <2>4, <2>5, <2>6, <2>7
<1> QED BY <1>1, <1>2, SubmissionInvariant, PTL
        DEF Spec, ImplementsGovernedAction, Governed!GovernedSpec
=============================================================================
