------------------------ MODULE Administration_proofs ------------------------
(***************************************************************************)
(* Proofs about Administration: for every set of tenants, users, roles and *)
(* concurrent requests, the audit trail names who decided, no chain of     *)
(* grants escalates a privilege, and no decision overwrites work.          *)
(*                                                                         *)
(* The properties are about rows; the requests that will write the next    *)
(* ones are in flight with what they read earlier.  AdminInv says what is  *)
(* still true of such a reading when the request commits: the principal's  *)
(* scopes were assigned to somebody of its tenant, the role it is about to *)
(* grant is within them, and the grant it is about to revoke was not       *)
(* revoked at version 1, the only version a usable grant has.              *)
(***************************************************************************)
EXTENDS Administration, FiniteSetTheorems, TLAPS

-----------------------------------------------------------------------------
(* The inductive invariant.                                                *)

GrantFields == {"id", "tenant", "user", "role", "from", "until", "by", "revoked", "version"}

(* A grant belongs to its member's tenant, and what its role allows has    *)
(* been assigned in that tenant.  Version 1 is the unrevoked one.          *)
GrantOK(g) ==
    /\ DOMAIN g = GrantFields
    /\ g.id \in 1 .. lastId
    /\ g.user \in Users /\ g.role \in Roles /\ g.tenant = UserTenant[g.user]
    /\ g.version = IF g.revoked = Null THEN 1 ELSE 2
    /\ \A a \in RoleActions[g.role] : <<g.tenant, a>> \in assigned

GrantsOK ==
    /\ lastId \in Nat
    /\ \A g \in grants : GrantOK(g)
    /\ \A g, h \in grants : g.id = h.id => g = h

(* The audit rows of a decision about grants.                              *)
Decides(a) == a.action \in {"admin.grant.create", "admin.grant.revoke"} /\ a.outcome = "allowed"

Rows(action, id) == {a \in audit : a.action = action /\ a.outcome = "allowed" /\ a.target = id}

(* One row, written by who.                                                *)
OneRowBy(action, id, who) == \E a \in audit : Rows(action, id) = {a} /\ a.actor = who

AuditOK ==
    /\ \A a \in audit : Decides(a) => a.target \in 1 .. lastId
    /\ \A g \in grants :
          /\ g.by # Null => OneRowBy("admin.grant.create", g.id, g.by)
          /\ g.revoked # Null => OneRowBy("admin.grant.revoke", g.id, g.revoked)
          /\ g.revoked = Null => Rows("admin.grant.revoke", g.id) = {}
    /\ \A a \in audit : a.action = "admin.grant.revoke" /\ a.outcome = "allowed" =>
          \A g \in grants : g.id = a.target => g.tenant = UserTenant[a.actor]

PrincipalOK(p) ==
    /\ p.user \in Users /\ p.tenant = UserTenant[p.user]
    /\ \A a \in p.scopes :
          /\ <<p.tenant, a>> \in assigned
          /\ \E ro \in Roles : RoleTenant[ro] = p.tenant /\ a \in RoleActions[ro]

Working == {"resolved", "grant", "revoke", "recover", "retry", "resolve"}

(* What a request in flight may rely on when it commits.                   *)
RequestOK(q) ==
    /\ DOMAIN q = {"pc", "who", "arg", "seen"}
    /\ q.pc \in Working => PrincipalOK(q.who)
    /\ q.pc = "grant" => \E u \in Users, ro \in Roles, w \in Windows :
          /\ q.arg = <<u, ro, w>> /\ UserTenant[u] = q.who.tenant
          /\ RoleActions[ro] \subseteq q.who.scopes
    /\ q.pc = "revoke" =>
          /\ q.seen = 1 /\ q.arg \in 1 .. lastId
          /\ \A g \in grants : g.id = q.arg => g.tenant = q.who.tenant
    /\ q.pc \in {"retry", "resolve"} => q.arg \in Actionable

RequestsOK == DOMAIN req = Requests /\ \A r \in Requests : RequestOK(req[r])

JobOK ==
    /\ DOMAIN job = {"state", "attempts", "max", "version", "owner"}
    /\ job.owner # Null => job.state = "leased"

AdminInv == GrantsOK /\ AuditOK /\ RequestsOK /\ JobOK

-----------------------------------------------------------------------------
(* The founders.                                                           *)

LEMMA AdminInitInv == AdminInit => AdminInv
<1> SUFFICES ASSUME AdminInit PROVE AdminInv
  OBVIOUS
<1> USE DEF AdminInit
<1>1. /\ lastId \in Nat /\ DOMAIN Founders = 1 .. lastId
      /\ \A i \in DOMAIN Founders : Founders[i][1] \in Users /\ Founders[i][2] \in Roles
  BY AdministrationAssumption
<1>2. GrantsOK
  <2>1. ASSUME NEW i \in DOMAIN Founders
        PROVE  GrantOK(Row(i, Founders[i][1], Founders[i][2], 0, Null, Null))
    BY <1>1 DEF GrantOK, Row, GrantFields
  <2>2. \A g \in grants : \E i \in DOMAIN Founders :
           g = Row(i, Founders[i][1], Founders[i][2], 0, Null, Null) /\ g.id = i
    BY DEF Row
  <2> QED  BY <1>1, <2>1, <2>2 DEF GrantsOK
<1>3. AuditOK
  <2>1. \A g \in grants : g.by = Null /\ g.revoked = Null
    BY DEF Row
  <2> QED  BY <2>1 DEF AuditOK, Rows
<1>4. RequestsOK
  BY DEF RequestsOK, RequestOK, NewRequest, Working
<1>5. JobOK
  BY DEF JobOK
<1> QED  BY <1>2, <1>3, <1>4, <1>5 DEF AdminInv

-----------------------------------------------------------------------------
(* Steps that decide nothing about grants.                                 *)

(* A step of request r that leaves the grants alone and writes no row of a *)
(* grant decision.                                                         *)
Quiet(r) ==
    /\ UNCHANGED <<grants, lastId, assigned>>
    /\ audit \subseteq audit' /\ \A a \in audit' : a \in audit \/ ~Decides(a)
    /\ DOMAIN req' = DOMAIN req /\ \A q \in Requests \ {r} : req'[q] = req[q]

LEMMA QuietKeeps ==
    ASSUME AdminInv, NEW r \in Requests, Quiet(r), RequestOK(req[r])', JobOK'
    PROVE  AdminInv'
<1> USE DEF AdminInv, Quiet
<1>1. GrantsOK'
  BY DEF GrantsOK, GrantOK
<1>2. \A action \in {"admin.grant.create", "admin.grant.revoke"} :
         \A id : Rows(action, id)' = Rows(action, id)
  BY DEF Rows, Decides
<1>3. AuditOK'
  <2>1. \A a \in audit' : Decides(a) => a.target \in 1 .. lastId'
    BY DEF AuditOK
  <2>2. ASSUME NEW g \in grants'
        PROVE  /\ g.by # Null => OneRowBy("admin.grant.create", g.id, g.by)'
               /\ g.revoked # Null => OneRowBy("admin.grant.revoke", g.id, g.revoked)'
               /\ g.revoked = Null => Rows("admin.grant.revoke", g.id)' = {}
    BY <1>2 DEF AuditOK, OneRowBy
  <2>3. \A a \in audit' : a.action = "admin.grant.revoke" /\ a.outcome = "allowed" =>
           \A g \in grants' : g.id = a.target => g.tenant = UserTenant[a.actor]
    BY DEF AuditOK, Decides
  <2> QED  BY <2>1, <2>2, <2>3 DEF AuditOK, Decides
<1>4. RequestsOK'
  <2>1. \A q \in Requests \ {r} : RequestOK(req[q])'
    BY DEF RequestsOK, RequestOK, PrincipalOK
  <2> QED  BY <2>1 DEF RequestsOK
<1> QED  BY <1>1, <1>3, <1>4

(* An answered request relies on nothing any more.                         *)
LEMMA AnswerIsQuiet ==
    ASSUME AdminInv, NEW r \in Requests, NEW how, how \notin Working, Answer(r, how)
    PROVE  /\ DOMAIN req' = DOMAIN req /\ \A q \in Requests \ {r} : req'[q] = req[q]
           /\ RequestOK(req[r])'
<1>1. DOMAIN req = Requests
  BY DEF AdminInv, RequestsOK
<1>2. req'[r] = [NewRequest EXCEPT !.pc = how] /\ DOMAIN req' = DOMAIN req
      /\ \A q \in Requests \ {r} : req'[q] = req[q]
  BY <1>1 DEF Answer
<1>3. DOMAIN req'[r] = {"pc", "who", "arg", "seen"} /\ req'[r].pc = how
  BY <1>2 DEF NewRequest
<1> QED  BY <1>2, <1>3 DEF RequestOK, Working

LEMMA EndsKeeps ==
    ASSUME AdminInv, NEW r \in Requests, NEW how, how \notin Working, Ends(r, how)
    PROVE  AdminInv'
<1>1. UNCHANGED <<grants, lastId, assigned, audit, job>> /\ Answer(r, how)
  BY DEF Ends
<1>2. Quiet(r) /\ RequestOK(req[r])'
  BY <1>1, AnswerIsQuiet DEF Quiet
<1>3. JobOK'
  BY <1>1 DEF AdminInv, JobOK
<1> QED  BY <1>2, <1>3, QuietKeeps

(* An audited answer that decides nothing: a refusal or a page served.     *)
LEMMA LoggedKeeps ==
    ASSUME AdminInv, NEW r \in Requests, NEW how, how \notin Working, NEW action, NEW outcome,
           NEW target, Log(r, action, outcome, target), Answer(r, how),
           action \in {"admin.grant.create", "admin.grant.revoke"} => outcome # "allowed",
           UNCHANGED <<grants, lastId, assigned>>, JobOK'
    PROVE  AdminInv'
<1>1. audit' = audit \cup {Fact(r, action, outcome, target)}
  BY DEF Log
<1>2. ~Decides(Fact(r, action, outcome, target))
  BY DEF Decides, Fact
<1>3. Quiet(r) /\ RequestOK(req[r])'
  BY <1>1, <1>2, AnswerIsQuiet DEF Quiet
<1> QED  BY <1>3, QuietKeeps

LEMMA RefuseKeeps ==
    ASSUME AdminInv, NEW r \in Requests, NEW action, NEW target, Refuse(r, action, target)
    PROVE  AdminInv'
<1>1. Log(r, action, "denied", target) /\ Answer(r, "denied")
      /\ UNCHANGED <<grants, lastId, assigned, job>>
  BY DEF Refuse
<1>2. JobOK'
  BY <1>1 DEF AdminInv, JobOK
<1>3. "denied" \notin Working
  BY DEF Working
<1> QED  BY <1>1, <1>2, <1>3, LoggedKeeps

LEMMA ServedKeeps ==
    ASSUME AdminInv, NEW r \in Requests, NEW action, Served(r, action),
           action \notin {"admin.grant.create", "admin.grant.revoke"}
    PROVE  AdminInv'
<1>1. Log(r, action, "allowed", Null) /\ Answer(r, "ok")
      /\ UNCHANGED <<grants, lastId, assigned, job>>
  BY DEF Served
<1>2. JobOK'
  BY <1>1 DEF AdminInv, JobOK
<1>3. "ok" \notin Working
  BY DEF Working
<1> QED  BY <1>1, <1>2, <1>3, LoggedKeeps

(* A request keeps what it has read.                                       *)
LEMMA HoldsKeeps ==
    ASSUME AdminInv, NEW r \in Requests, At(r, "resolved"), NEW pc \in Working, NEW arg, NEW seen,
           Holds(r, pc, arg, seen),
           pc = "grant" => \E u \in Users, ro \in Roles, w \in Windows :
              /\ arg = <<u, ro, w>> /\ UserTenant[u] = req[r].who.tenant
              /\ RoleActions[ro] \subseteq req[r].who.scopes,
           pc = "revoke" =>
              /\ seen = 1 /\ arg \in 1 .. lastId
              /\ \A g \in grants : g.id = arg => g.tenant = req[r].who.tenant,
           pc \in {"retry", "resolve"} => arg \in Actionable
    PROVE  AdminInv'
<1>1. UNCHANGED <<grants, lastId, assigned, audit, job>> /\ GoTo(r, pc, arg, seen)
  BY DEF Holds
<1>2. DOMAIN req = Requests /\ RequestOK(req[r])
  BY DEF AdminInv, RequestsOK
<1>3. /\ req'[r] = [req[r] EXCEPT !.pc = pc, !.arg = arg, !.seen = seen]
      /\ DOMAIN req' = DOMAIN req /\ \A q \in Requests \ {r} : req'[q] = req[q]
  BY <1>1, <1>2 DEF GoTo
<1>4. /\ DOMAIN req'[r] = {"pc", "who", "arg", "seen"} /\ req'[r].pc = pc
      /\ req'[r].arg = arg /\ req'[r].seen = seen /\ req'[r].who = req[r].who
  BY <1>2, <1>3 DEF RequestOK
<1>5. PrincipalOK(req[r].who)
  BY <1>2 DEF RequestOK, Working, At
<1>6. RequestOK(req[r])'
  BY <1>1, <1>4, <1>5 DEF RequestOK, PrincipalOK
<1>7. Quiet(r)
  BY <1>1, <1>3 DEF Quiet
<1>8. JobOK'
  BY <1>1 DEF AdminInv, JobOK
<1> QED  BY <1>6, <1>7, <1>8, QuietKeeps

-----------------------------------------------------------------------------
(* The principal: its scopes are those of grants of its own tenant, which  *)
(* it can read.                                                            *)
LEMMA ResolveKeeps ==
    ASSUME AdminInv, NEW r \in Requests, NEW u \in Users, Resolve(r, u)
    PROVE  AdminInv'
<1> DEFINE t == UserTenant[u]
<1> DEFINE G == ActiveGrants(t, u)
<1>1. UNCHANGED <<grants, lastId, assigned, audit, job>>
  BY DEF Resolve
<1>2. JobOK'
  BY <1>1 DEF AdminInv, JobOK
<1>3. DOMAIN req = Requests /\ RequestOK(req[r])
  BY DEF AdminInv, RequestsOK
<1>4. CASE Answer(r, "denied") \/ Answer(r, "not_found")
  <2>1. "denied" \notin Working /\ "not_found" \notin Working
    BY DEF Working
  <2>2. Quiet(r) /\ RequestOK(req[r])'
    BY <1>1, <1>4, <2>1, AnswerIsQuiet DEF Quiet
  <2> QED  BY <2>2, <1>2, QuietKeeps
<1>5. CASE /\ Readable(t, G)
           /\ req' = [req EXCEPT ![r].pc = "resolved", ![r].who = Principal(Token(u))]
  <2>1. PICK p : p = Principal(Token(u))
    OBVIOUS
  <2>2. p.tenant = t /\ p.user = u /\ \A a \in p.scopes : \E g \in G : a \in RoleActions[g.role]
    BY <2>1 DEF Principal, Token, ScopesOf
  <2>3. \A g \in G : g \in grants /\ g.tenant = t /\ RoleTenant[g.role] = t
    BY <1>5 DEF ActiveGrants, Readable
  <2>4. \A g \in grants : g.role \in Roles /\ \A a \in RoleActions[g.role] : <<g.tenant, a>> \in assigned
    BY DEF AdminInv, GrantsOK, GrantOK
  <2>5. PrincipalOK(p)
    <3> HIDE DEF G
    <3> QED  BY <2>2, <2>3, <2>4 DEF PrincipalOK
  <2>6. req' = [req EXCEPT ![r].pc = "resolved", ![r].who = p]
    BY <1>5, <2>1
  <2>7. /\ req'[r] = [req[r] EXCEPT !.pc = "resolved", !.who = p]
        /\ DOMAIN req' = DOMAIN req /\ \A q \in Requests \ {r} : req'[q] = req[q]
    BY <2>6, <1>3
  <2>8. DOMAIN req'[r] = {"pc", "who", "arg", "seen"} /\ req'[r].pc = "resolved" /\ req'[r].who = p
    BY <2>7, <1>3 DEF RequestOK
  <2>9. RequestOK(req[r])'
    BY <2>5, <2>8, <1>1 DEF RequestOK, PrincipalOK
  <2>10. Quiet(r)
    BY <2>7, <1>1 DEF Quiet
  <2> QED  BY <2>9, <2>10, <1>2, QuietKeeps
<1> QED
  <2>1. Token(u).tenant_id = t /\ Token(u).sub = u
    BY DEF Token
  <2>2. \/ Answer(r, "denied") \/ Answer(r, "not_found")
        \/ /\ Readable(t, G)
           /\ req' = [req EXCEPT ![r].pc = "resolved", ![r].who = Principal(Token(u))]
    <3> HIDE DEF G
    <3> QED  BY <2>1 DEF Resolve, G
  <2> QED  BY <1>4, <1>5, <2>2

-----------------------------------------------------------------------------
(* The load steps.  An authorised handler goes on, all others are answered *)
(* here.                                                                   *)

LEMMA AuthorizedKeeps ==
    ASSUME AdminInv, NEW r \in Requests, NEW scope, NEW action, NEW ACTION Then,
           Authorized(r, scope, action, Then),
           At(r, "resolved") /\ Then => AdminInv'
    PROVE  AdminInv'
<1>1. At(r, "resolved")
  BY DEF Authorized
<1>2. \/ Ends(r, "not_found") \/ Refuse(r, action, Null) \/ Then
  BY DEF Authorized, Ends
<1>3. CASE Ends(r, "not_found")
  BY <1>3, EndsKeeps DEF Working
<1>4. CASE Refuse(r, action, Null)
  BY <1>4, RefuseKeeps
<1> QED  BY <1>1, <1>2, <1>3, <1>4

LEMMA ReadsKeep ==
    ASSUME AdminInv, NEW r \in Requests, Reads(r)
    PROVE  AdminInv'
<1>1. ASSUME NEW scope, NEW action, Read(r, scope, action),
             action \notin {"admin.grant.create", "admin.grant.revoke"}
      PROVE  AdminInv'
  BY <1>1, ServedKeeps, AuthorizedKeeps DEF Read
<1>2. ASSUME NEW known \in BOOLEAN, RunAudit(r, known)
      PROVE  AdminInv'
  <2>1. Authorized(r, "admin", "admin.run.audit.read",
                   IF known THEN Served(r, "admin.run.audit.read") ELSE Ends(r, "not_found"))
    BY <1>2 DEF RunAudit
  <2>2. CASE known
    BY <2>1, <2>2, ServedKeeps, AuthorizedKeeps
  <2>3. CASE ~known
    <3>1. "not_found" \notin Working
      BY DEF Working
    <3> QED  BY <2>1, <2>3, <3>1, EndsKeeps, AuthorizedKeeps
  <2> QED  BY <2>2, <2>3
<1> QED
  BY <1>1, <1>2 DEF Reads, ListRoles, ListGrants, QuotaSummary, Health, ListRuns,
                    ListReconciliation, ListCapacity

LEMMA CreateGrantKeeps ==
    ASSUME AdminInv, NEW r \in Requests, NEW u \in Users, NEW ro \in Roles, NEW w \in Windows,
           CreateGrant(r, u, ro, w)
    PROVE  AdminInv'
<1> DEFINE p == req[r].who
<1>1. ASSUME At(r, "resolved"), CreateGrantChecks(r, u, ro, w)
      PROVE  AdminInv'
  <2>1. \/ Ends(r, "not_found") \/ Refuse(r, "admin.grant.create", ro) \/ Ends(r, "unchanged")
        \/ /\ FindUser(p, u) # {} /\ ~Exceeds(p, ro)
           /\ Holds(r, "grant", <<u, ro, w>>, 0)
    BY <1>1 DEF CreateGrantChecks
  <2>2. CASE Ends(r, "not_found") \/ Ends(r, "unchanged")
    BY <2>2, EndsKeeps DEF Working
  <2>3. CASE Refuse(r, "admin.grant.create", ro)
    BY <2>3, RefuseKeeps
  <2>4. CASE /\ FindUser(p, u) # {} /\ ~Exceeds(p, ro)
             /\ Holds(r, "grant", <<u, ro, w>>, 0)
    <3>1. UserTenant[u] = p.tenant /\ RoleActions[ro] \subseteq p.scopes
      BY <2>4 DEF FindUser, Exceeds
    <3>2. "grant" \in Working
      BY DEF Working
    <3> QED  BY <1>1, <2>4, <3>1, <3>2, HoldsKeeps
  <2> QED  BY <2>1, <2>2, <2>3, <2>4
<1>2. Authorized(r, "admin", "admin.grant.create", CreateGrantChecks(r, u, ro, w))
  BY DEF CreateGrant
<1> QED  BY <1>1, <1>2, AuthorizedKeeps

LEMMA RevokeGrantKeeps ==
    ASSUME AdminInv, NEW r \in Requests, NEW id \in 1 .. lastId, RevokeGrant(r, id)
    PROVE  AdminInv'
<1> DEFINE p == req[r].who
<1> DEFINE G == FindGrant(p, id)
<1> DEFINE Checks == IF G = {} THEN Ends(r, "not_found")
                     ELSE LET g == CHOOSE g \in G : TRUE
                          IN  IF g.revoked # Null THEN Ends(r, "unchanged")
                              ELSE Holds(r, "revoke", id, g.version)
<1>1. ASSUME At(r, "resolved"), Checks
      PROVE  AdminInv'
  <2>1. \/ Ends(r, "not_found") \/ Ends(r, "unchanged")
        \/ \E g \in G : g.revoked = Null /\ Holds(r, "revoke", id, g.version)
    <3> HIDE DEF G
    <3> QED  BY <1>1
  <2>2. CASE Ends(r, "not_found") \/ Ends(r, "unchanged")
    BY <2>2, EndsKeeps DEF Working
  <2>3. ASSUME NEW g \in G, g.revoked = Null, Holds(r, "revoke", id, g.version)
        PROVE  AdminInv'
    <3>1. g \in grants /\ g.id = id /\ g.tenant = p.tenant
      BY <2>3 DEF FindGrant
    <3>2. g.version = 1 /\ \A h \in grants : h.id = id => h = g
      BY <2>3, <3>1 DEF AdminInv, GrantsOK, GrantOK
    <3>3. "revoke" \in Working
      BY DEF Working
    <3> QED  BY <1>1, <2>3, <3>1, <3>2, <3>3, HoldsKeeps
  <2> QED  BY <2>1, <2>2, <2>3
<1>2. Authorized(r, "admin", "admin.grant.revoke", Checks)
  BY DEF RevokeGrant
<1> HIDE DEF Checks
<1> QED  BY <1>1, <1>2, AuthorizedKeeps

LEMMA RecoverAndDecideKeep ==
    ASSUME AdminInv, NEW r \in Requests,
           \/ \E extend \in BOOLEAN : RecoverRun(r, extend)
           \/ RetryReconciliation(r) \/ ResolveReconciliation(r)
    PROVE  AdminInv'
<1>1. ASSUME NEW extend \in BOOLEAN, RecoverRun(r, extend)
      PROVE  AdminInv'
  <2> DEFINE Checks ==
        IF job.state # "recoverable_failed" \/ (job.attempts >= job.max /\ ~extend)
        THEN Refuse(r, "admin.run.recover", "job")
        ELSE Holds(r, "recover", extend, job.version)
  <2>1. ASSUME At(r, "resolved"), Checks
        PROVE  AdminInv'
    <3>1. Refuse(r, "admin.run.recover", "job") \/ Holds(r, "recover", extend, job.version)
      BY <2>1
    <3>2. "recover" \in Working
      BY DEF Working
    <3>3. PICK e : e = extend
      OBVIOUS
    <3>4. CASE Holds(r, "recover", extend, job.version)
      <4>1. Holds(r, "recover", e, job.version)
        BY <3>3, <3>4
      <4> HIDE DEF Checks
      <4> QED  BY <4>1, <2>1, <3>2, HoldsKeeps
    <3> QED  BY <3>1, <3>4, RefuseKeeps
  <2>2. Authorized(r, "admin", "admin.run.recover", Checks)
    BY <1>1 DEF RecoverRun
  <2> HIDE DEF Checks
  <2> QED  BY <2>1, <2>2, AuthorizedKeeps
<1>2. ASSUME NEW action, NEW to \in {"retry", "resolve"}, DecideIssue(r, action, to)
      PROVE  AdminInv'
  <2> DEFINE Checks == IF issue.state \notin Actionable THEN Ends(r, "conflict")
                       ELSE Holds(r, to, issue.state, issue.version)
  <2>1. ASSUME At(r, "resolved"), Checks
        PROVE  AdminInv'
    <3>1. \/ Ends(r, "conflict")
          \/ issue.state \in Actionable /\ Holds(r, to, issue.state, issue.version)
      BY <2>1
    <3>2. to \in Working /\ "conflict" \notin Working
      BY DEF Working
    <3> QED  BY <2>1, <3>1, <3>2, EndsKeeps, HoldsKeeps
  <2>2. Authorized(r, "admin", action, Checks)
    BY <1>2 DEF DecideIssue
  <2> HIDE DEF Checks
  <2> QED  BY <2>1, <2>2, AuthorizedKeeps
<1> QED  BY <1>1, <1>2 DEF RetryReconciliation, ResolveReconciliation

-----------------------------------------------------------------------------
(* The commits.                                                            *)

(* A new grant has a key of its own, so no earlier audit row is about it.  *)
LEMMA CreateGrantCommitKeeps ==
    ASSUME AdminInv, NEW r \in Requests, CreateGrantCommit(r)
    PROVE  AdminInv'
<1> USE DEF AdminInv
<1>1. /\ DOMAIN req = Requests /\ RequestOK(req[r]) /\ req[r].pc = "grant"
  BY DEF RequestsOK, CreateGrantCommit, At
<1>2. PICK u \in Users, ro \in Roles, w \in Windows :
        /\ req[r].arg = <<u, ro, w>> /\ UserTenant[u] = req[r].who.tenant
        /\ RoleActions[ro] \subseteq req[r].who.scopes
  BY <1>1 DEF RequestOK
<1>3. PrincipalOK(req[r].who)
  BY <1>1 DEF RequestOK, Working
<1>4. PICK g : g = NewGrant(u, ro, w, req[r].who.user)
  OBVIOUS
<1>5. \/ Ends(r, "error")
      \/ /\ grants' = grants \cup {g} /\ lastId' = g.id
         /\ Log(r, "admin.grant.create", "allowed", g.id)
         /\ Answer(r, "ok") /\ UNCHANGED <<assigned, job>>
  BY <1>2, <1>4 DEF CreateGrantCommit
<1>6. CASE Ends(r, "error")
  BY <1>6, EndsKeeps DEF Working
<1>7. CASE /\ grants' = grants \cup {g} /\ lastId' = g.id
           /\ Log(r, "admin.grant.create", "allowed", g.id)
           /\ Answer(r, "ok") /\ UNCHANGED <<assigned, job>>
  <2>1. /\ DOMAIN g = GrantFields /\ g.id = lastId + 1 /\ g.user = u /\ g.role = ro
        /\ g.tenant = UserTenant[u] /\ g.version = 1 /\ g.revoked = Null
        /\ g.by = req[r].who.user
    BY <1>4 DEF NewGrant, Row, GrantFields
  <2>2. lastId \in Nat /\ lastId' = lastId + 1 /\ \A h \in grants : h.id \in 1 .. lastId
    BY <1>7, <2>1 DEF GrantsOK, GrantOK
  <2>3. GrantOK(g)'
    <3>1. \A a \in RoleActions[ro] : <<g.tenant, a>> \in assigned
      BY <1>2, <1>3, <2>1 DEF PrincipalOK
    <3> QED  BY <1>7, <2>1, <2>2, <3>1 DEF GrantOK
  <2>4. GrantsOK'
    <3>1. \A h \in grants : GrantOK(h)'
      BY <1>7, <2>2 DEF GrantsOK, GrantOK
    <3>2. \A h \in grants : h.id # g.id
      BY <2>1, <2>2
    <3>3. \A h, k \in grants : h.id = k.id => h = k
      BY DEF GrantsOK
    <3>4. \A h, k \in grants' : h.id = k.id => h = k
      BY <1>7, <3>2, <3>3
    <3> QED  BY <1>7, <2>2, <2>3, <3>1, <3>4 DEF GrantsOK
  <2>5. PICK f : f = Fact(r, "admin.grant.create", "allowed", g.id)
    OBVIOUS
  <2>6. /\ audit' = audit \cup {f} /\ f.actor = g.by /\ f.action = "admin.grant.create"
        /\ f.outcome = "allowed" /\ f.target = lastId + 1
    BY <1>7, <2>1, <2>5 DEF Log, Fact
  <2>7. \A a \in audit : Decides(a) => a.target \in 1 .. lastId /\ a.target # lastId + 1
    BY <2>2 DEF AuditOK
  <2>8. Rows("admin.grant.create", g.id)' = {f} /\ Rows("admin.grant.revoke", g.id)' = {}
    <3>1. \A a \in audit' : Decides(a) /\ a.target = g.id => a = f
      BY <2>1, <2>6, <2>7
    <3> QED  BY <3>1, <2>1, <2>6 DEF Rows, Decides
  <2>9. \A h \in grants : /\ Rows("admin.grant.create", h.id)' = Rows("admin.grant.create", h.id)
                          /\ Rows("admin.grant.revoke", h.id)' = Rows("admin.grant.revoke", h.id)
    <3>1. \A h \in grants : h.id # f.target
      BY <2>2, <2>6
    <3> QED  BY <3>1, <2>6 DEF Rows
  <2>10. AuditOK'
    <3>1. \A a \in audit' : Decides(a) => a.target \in 1 .. lastId'
      BY <2>2, <2>6, <2>7
    <3>2. ASSUME NEW h \in grants
          PROVE  /\ h.by # Null => OneRowBy("admin.grant.create", h.id, h.by)'
                 /\ h.revoked # Null => OneRowBy("admin.grant.revoke", h.id, h.revoked)'
                 /\ h.revoked = Null => Rows("admin.grant.revoke", h.id)' = {}
      BY <2>6, <2>9 DEF AuditOK, OneRowBy
    <3>3. OneRowBy("admin.grant.create", g.id, g.by)'
      BY <2>6, <2>8 DEF OneRowBy
    <3>4. \A a \in audit' : a.action = "admin.grant.revoke" /\ a.outcome = "allowed" =>
             \A h \in grants' : h.id = a.target => h.tenant = UserTenant[a.actor]
      <4>1. \A a \in audit' : a.action = "admin.grant.revoke" /\ a.outcome = "allowed" =>
               a \in audit /\ a.target # g.id
        BY <2>1, <2>6, <2>7 DEF Decides
      <4> QED  BY <4>1, <1>7 DEF AuditOK
    <3> QED  BY <1>7, <2>1, <2>8, <3>1, <3>2, <3>3, <3>4 DEF AuditOK
  <2>11. RequestsOK'
    <3>1. "ok" \notin Working
      BY DEF Working
    <3>2. /\ DOMAIN req' = DOMAIN req /\ \A q \in Requests \ {r} : req'[q] = req[q]
          /\ RequestOK(req[r])'
      BY <1>7, <3>1, AnswerIsQuiet
    <3>3. ASSUME NEW q \in Requests \ {r}
          PROVE  RequestOK(req[q])'
      <4>1. RequestOK(req[q]) /\ req'[q] = req[q]
        BY <3>2 DEF RequestsOK
      <4>2. req[q].pc = "revoke" => req[q].arg \in 1 .. lastId' /\ req[q].arg # g.id
        BY <4>1, <2>1, <2>2 DEF RequestOK
      <4> QED  BY <4>1, <4>2, <1>7 DEF RequestOK, PrincipalOK
    <3> QED  BY <3>2, <3>3, <1>1 DEF RequestsOK
  <2>12. JobOK'
    BY <1>7 DEF JobOK
  <2> QED  BY <2>4, <2>10, <2>11, <2>12
<1> QED  BY <1>5, <1>6, <1>7

(* A revocation happens once: a grant that matches is at version 1, hence  *)
(* not revoked, and there is no row of a revocation yet.                   *)
LEMMA RevokeGrantCommitKeeps ==
    ASSUME AdminInv, NEW r \in Requests, RevokeGrantCommit(r)
    PROVE  AdminInv'
<1> USE DEF AdminInv
<1>0. PICK id, who : id = req[r].arg /\ who = req[r].who.user
  OBVIOUS
<1> DEFINE G == {g \in grants : g.id = id}
<1> DEFINE M == {g \in G : RevokeMatches(g, r)}
<1> DEFINE Revoked(g) == [g EXCEPT !.revoked = who, !.version = @ + 1]
<1>1. /\ DOMAIN req = Requests /\ RequestOK(req[r]) /\ req[r].pc = "revoke"
  BY DEF RequestsOK, RevokeGrantCommit, At
<1>2. /\ req[r].seen = 1 /\ id \in 1 .. lastId /\ PrincipalOK(req[r].who)
      /\ \A g \in grants : g.id = id => g.tenant = req[r].who.tenant
  BY <1>0, <1>1 DEF RequestOK, Working
<1>3. \/ Ends(r, "not_found") \/ Ends(r, "conflict")
      \/ /\ M # {} /\ grants' = (grants \ M) \cup {Revoked(g) : g \in M}
         /\ Log(r, "admin.grant.revoke", "allowed", id)
         /\ Answer(r, "ok") /\ UNCHANGED <<lastId, assigned, job>>
  BY <1>0 DEF RevokeGrantCommit
<1>4. CASE Ends(r, "not_found") \/ Ends(r, "conflict")
  BY <1>4, EndsKeeps DEF Working
<1>5. CASE /\ M # {} /\ grants' = (grants \ M) \cup {Revoked(g) : g \in M}
           /\ Log(r, "admin.grant.revoke", "allowed", id)
           /\ Answer(r, "ok") /\ UNCHANGED <<lastId, assigned, job>>
  <2>1. PICK g \in M : TRUE
    BY <1>5
  <2>2. /\ g \in grants /\ g.id = id /\ g.version = 1 /\ g.revoked = Null
        /\ g.tenant = req[r].who.tenant /\ GrantOK(g)
    BY <1>0, <1>2, <2>1 DEF RevokeMatches, GrantsOK, GrantOK
  <2>3. M = {g}
    BY <2>1, <2>2 DEF GrantsOK
  <2>4. PICK n : n = Revoked(g)
    OBVIOUS
  <2>5. /\ DOMAIN n = GrantFields /\ n.id = id /\ n.user = g.user /\ n.role = g.role
        /\ n.tenant = g.tenant /\ n.version = 2 /\ n.revoked = who /\ n.by = g.by
    BY <2>2, <2>4 DEF GrantOK, GrantFields
  <2>6. grants' = (grants \ {g}) \cup {n}
    <3> HIDE DEF M, Revoked
    <3> QED  BY <1>5, <2>3, <2>4
  <2>7. who \in Users /\ who # Null /\ g.tenant = UserTenant[who]
    BY <1>0, <1>2, <2>2, AdministrationAssumption DEF PrincipalOK
  <2>8. GrantsOK'
    <3>1. GrantOK(n)'
      BY <1>5, <2>2, <2>5, <2>7 DEF GrantOK
    <3>2. \A h \in grants : GrantOK(h)'
      BY <1>5 DEF GrantsOK, GrantOK
    <3>3. \A h \in grants \ {g} : h.id # n.id
      BY <2>2, <2>5 DEF GrantsOK
    <3> QED  BY <1>5, <2>6, <3>1, <3>2, <3>3 DEF GrantsOK
  <2>9. PICK f : f = Fact(r, "admin.grant.revoke", "allowed", id)
    OBVIOUS
  <2>10. /\ audit' = audit \cup {f} /\ f.actor = who /\ f.action = "admin.grant.revoke"
         /\ f.outcome = "allowed" /\ f.target = id
    BY <1>0, <1>5, <2>9 DEF Log, Fact
  <2>11. /\ Rows("admin.grant.revoke", id)' = {f}
         /\ \A x : Rows("admin.grant.create", x)' = Rows("admin.grant.create", x)
         /\ \A x : x # id => Rows("admin.grant.revoke", x)' = Rows("admin.grant.revoke", x)
    <3>1. Rows("admin.grant.revoke", id) = {}
      BY <2>2 DEF AuditOK
    <3> QED  BY <3>1, <2>10 DEF Rows
  <2>12. AuditOK'
    <3>1. \A a \in audit' : Decides(a) => a.target \in 1 .. lastId'
      BY <1>2, <1>5, <2>10 DEF AuditOK
    <3>2. ASSUME NEW h \in grants \ {g}
          PROVE  /\ h.by # Null => OneRowBy("admin.grant.create", h.id, h.by)'
                 /\ h.revoked # Null => OneRowBy("admin.grant.revoke", h.id, h.revoked)'
                 /\ h.revoked = Null => Rows("admin.grant.revoke", h.id)' = {}
      <4>1. h.id # id
        BY <2>2 DEF GrantsOK
      <4> QED  BY <4>1, <2>10, <2>11 DEF AuditOK, OneRowBy
    <3>3. /\ n.by # Null => OneRowBy("admin.grant.create", n.id, n.by)'
          /\ OneRowBy("admin.grant.revoke", n.id, n.revoked)' /\ n.revoked # Null
      <4>1. g.by # Null => OneRowBy("admin.grant.create", g.id, g.by)
        BY <2>2 DEF AuditOK
      <4> QED  BY <4>1, <2>2, <2>5, <2>7, <2>10, <2>11 DEF OneRowBy
    <3>4. \A a \in audit' : a.action = "admin.grant.revoke" /\ a.outcome = "allowed" =>
             \A h \in grants' : h.id = a.target => h.tenant = UserTenant[a.actor]
      <4>1. \A a \in audit : a.action = "admin.grant.revoke" /\ a.outcome = "allowed" => a.target # id
        <5>1. Rows("admin.grant.revoke", id) = {}
          BY <2>2 DEF AuditOK
        <5> QED  BY <5>1 DEF Rows
      <4>2. \A h \in grants' : h.id = id => h.tenant = UserTenant[who]
        BY <2>2, <2>5, <2>6, <2>7 DEF GrantsOK
      <4>3. \A h \in grants' : h.id # id => h \in grants
        BY <2>5, <2>6
      <4> QED  BY <4>1, <4>2, <4>3, <2>10 DEF AuditOK
    <3> QED  BY <2>6, <3>1, <3>2, <3>3, <3>4 DEF AuditOK
  <2>13. RequestsOK'
    <3>1. "ok" \notin Working
      BY DEF Working
    <3>2. /\ DOMAIN req' = DOMAIN req /\ \A q \in Requests \ {r} : req'[q] = req[q]
          /\ RequestOK(req[r])'
      BY <1>5, <3>1, AnswerIsQuiet
    <3>3. ASSUME NEW q \in Requests \ {r}
          PROVE  RequestOK(req[q])'
      <4>1. RequestOK(req[q]) /\ req'[q] = req[q]
        BY <3>2 DEF RequestsOK
      <4>2. req[q].pc = "revoke" =>
               \A h \in grants' : h.id = req[q].arg => h.tenant = req[q].who.tenant
        BY <4>1, <2>2, <2>5, <2>6 DEF RequestOK
      <4>3. \A p : PrincipalOK(p) => PrincipalOK(p)'
        BY <1>5 DEF PrincipalOK
      <4>4. lastId' = lastId
        BY <1>5
      <4> QED  BY <4>1, <4>2, <4>3, <4>4 DEF RequestOK
    <3> QED  BY <3>2, <3>3, <1>1 DEF RequestsOK
  <2>14. JobOK'
    BY <1>5 DEF JobOK
  <2> QED  BY <2>8, <2>12, <2>13, <2>14
<1> QED  BY <1>3, <1>4, <1>5

LEMMA RecoverAndDecideCommitKeep ==
    ASSUME AdminInv, NEW r \in Requests, RecoverRunCommit(r) \/ RetryCommit(r) \/ ResolveCommit(r)
    PROVE  AdminInv'
<1>0. "conflict" \notin Working /\ "ok" \notin Working
  BY DEF Working
<1>1. CASE Ends(r, "conflict")
  BY <1>0, <1>1, EndsKeeps
<1>2. CASE RecoverRunCommit(r) /\ ~Ends(r, "conflict")
  <2>1. /\ Log(r, "admin.run.recover", "allowed", "job") /\ Answer(r, "ok")
        /\ UNCHANGED <<grants, lastId, assigned>>
    BY <1>2 DEF RecoverRunCommit
  <2>2. JobOK'
    BY <1>2 DEF RecoverRunCommit, AdminInv, JobOK
  <2> QED  BY <1>0, <2>1, <2>2, LoggedKeeps
<1>3. CASE RetryCommit(r) /\ ~Ends(r, "conflict")
  <2>1. /\ Log(r, "admin.reconciliation.retry", "allowed", "issue") /\ Answer(r, "ok")
        /\ UNCHANGED <<grants, lastId, assigned, job>>
    BY <1>3 DEF RetryCommit
  <2>2. JobOK'
    BY <2>1 DEF AdminInv, JobOK
  <2> QED  BY <1>0, <2>1, <2>2, LoggedKeeps
<1>4. CASE ResolveCommit(r) /\ ~Ends(r, "conflict")
  <2>1. /\ Log(r, "admin.reconciliation.resolve", "allowed", "issue") /\ Answer(r, "ok")
        /\ UNCHANGED <<grants, lastId, assigned, job>>
    BY <1>4 DEF ResolveCommit
  <2>2. JobOK'
    BY <2>1 DEF AdminInv, JobOK
  <2> QED  BY <1>0, <2>1, <2>2, LoggedKeeps
<1> QED  BY <1>1, <1>2, <1>3, <1>4

-----------------------------------------------------------------------------
(* The user screen.                                                        *)

(* There are as many new keys as new roles, so the rows that are inserted  *)
(* get keys of their own, above the ones in use.                           *)
LEMMA NewKeysExist ==
    ASSUME NEW new, new \subseteq Roles, NEW k \in Nat
    PROVE  /\ Cardinality(new) \in Nat
           /\ \E f \in [new -> k + 1 .. k + Cardinality(new)] :
                 \A x, y \in new : f[x] = f[y] => x = y
<1>1. IsFiniteSet(new)
  BY AdministrationAssumption, FS_Subset
<1>2. Cardinality(new) \in Nat
  BY <1>1, FS_CardinalityType
<1>3. PICK n \in Nat : n = Cardinality(new)
  BY <1>2
<1>4. IsFiniteSet(k + 1 .. k + n) /\ Cardinality(k + 1 .. k + n) = n
  <2>1. k + 1 \in Int /\ k + n \in Int
    OBVIOUS
  <2>2. IsFiniteSet(k + 1 .. k + n)
        /\ Cardinality(k + 1 .. k + n) = IF k + 1 > k + n THEN 0 ELSE (k + n) - (k + 1) + 1
    BY <2>1, FS_Interval
  <2> QED  BY <2>2
<1>5. ExistsBijection(new, k + 1 .. k + n)
  BY <1>1, <1>3, <1>4, FS_SameCardinalityBij
<1>6. PICK f \in Bijection(new, k + 1 .. k + n) : TRUE
  BY <1>5 DEF ExistsBijection
<1>7. f \in [new -> k + 1 .. k + n] /\ \A x, y \in new : f[x] = f[y] => x = y
  BY <1>6 DEF Bijection, Injection, IsInjective
<1> QED  BY <1>2, <1>3, <1>7

(* Synchronised rows: old ones of wanted roles, and unrevoked new ones of  *)
(* the member's tenant with new keys.                                      *)
LEMMA SyncedRows ==
    ASSUME GrantsOK, NEW u \in Users, NEW W, W \subseteq Roles,
           NEW n, n = Cardinality(W \ {g.role : g \in {h \in grants : h.user = u}})
    PROVE  /\ n \in Nat
           /\ \A g \in Synced(u, W) : g \notin grants =>
                 /\ DOMAIN g = GrantFields /\ g.id \in lastId + 1 .. lastId + n
                 /\ g.user = u /\ g.role \in W /\ g.tenant = UserTenant[u]
                 /\ g.version = 1 /\ g.revoked = Null /\ g.by = Null
           /\ \A g, h \in Synced(u, W) : g.id = h.id => g = h
<1> DEFINE mine == {g \in grants : g.user = u}
<1> DEFINE new == W \ {g.role : g \in mine}
<1> DEFINE Keys(f) == \A x, y \in new : f[x] = f[y] => x = y
<1> DEFINE ids == CHOOSE f \in [new -> lastId + 1 .. lastId + n] : Keys(f)
<1> DEFINE Made(ro) == Row(ids[ro], u, ro, now, Null, Null)
<1>0. lastId \in Nat /\ n = Cardinality(new) /\ new \subseteq Roles /\ new \subseteq W
  BY DEF GrantsOK
<1>1. n \in Nat /\ \E f \in [new -> lastId + 1 .. lastId + n] : Keys(f)
  <2>1. /\ Cardinality(new) \in Nat
        /\ \E f \in [new -> lastId + 1 .. lastId + Cardinality(new)] : Keys(f)
    <3> HIDE DEF new
    <3> QED  BY <1>0, NewKeysExist
  <2> HIDE DEF new, Keys
  <2> QED  BY <1>0, <2>1
<1>2. ids \in [new -> lastId + 1 .. lastId + n] /\ Keys(ids)
  <2> HIDE DEF Keys
  <2> QED  BY <1>1
<1>3. Synced(u, W) = {g \in grants : g.user = u => g.role \in W} \cup {Made(ro) : ro \in new}
  BY DEF Synced
<1>4. \A ro \in new :
        /\ DOMAIN Made(ro) = GrantFields /\ Made(ro).id = ids[ro]
        /\ Made(ro).user = u /\ Made(ro).role = ro /\ Made(ro).tenant = UserTenant[u]
        /\ Made(ro).version = 1 /\ Made(ro).revoked = Null /\ Made(ro).by = Null
  <2> HIDE DEF ids, new
  <2> QED  BY DEF Row, GrantFields
<1>5. \A ro \in new : ids[ro] \in lastId + 1 .. lastId + n
  <2> HIDE DEF ids, new
  <2> QED  BY <1>2
<1> HIDE DEF Made, ids
<1>6. \A g \in Synced(u, W) : g \in grants \/ \E ro \in new : g = Made(ro)
  <2> HIDE DEF new
  <2> QED  BY <1>3
<1>7. \A g \in grants : g.id \in 1 .. lastId
  BY DEF GrantsOK, GrantOK
<1>8. \A g \in grants : \A ro \in new : g.id # Made(ro).id
  <2> HIDE DEF new
  <2>1. \A ro \in new : Made(ro).id \in lastId + 1 .. lastId + n
    BY <1>4, <1>5
  <2>2. \A x \in 1 .. lastId : \A y \in lastId + 1 .. lastId + n : x # y
    BY <1>0, <1>1
  <2> QED  BY <2>1, <2>2, <1>7
<1>9. \A ro, rp \in new : Made(ro).id = Made(rp).id => ro = rp
  BY <1>2, <1>4
<1>10. \A g, h \in grants : g.id = h.id => g = h
  BY DEF GrantsOK
<1> HIDE DEF new
<1>11. \A g \in Synced(u, W) : g \notin grants =>
         /\ DOMAIN g = GrantFields /\ g.id \in lastId + 1 .. lastId + n
         /\ g.user = u /\ g.role \in W /\ g.tenant = UserTenant[u]
         /\ g.version = 1 /\ g.revoked = Null /\ g.by = Null
  <2> TAKE g \in Synced(u, W)
  <2> HAVE g \notin grants
  <2>1. PICK ro \in new : g = Made(ro)
    BY <1>6
  <2>2. g.id = ids[ro] /\ g.role = ro /\ ro \in W /\ ids[ro] \in lastId + 1 .. lastId + n
    BY <2>1, <1>0, <1>4, <1>5
  <2> QED  BY <2>1, <2>2, <1>4
<1>12. \A g, h \in Synced(u, W) : g.id = h.id => g = h
  BY <1>6, <1>8, <1>9, <1>10
<1> QED  BY <1>1, <1>11, <1>12

LEMMA AssignsKeeps ==
    ASSUME AdminInv, NEW r \in Requests, NEW u \in Users, NEW C, Assigns(r, u, C)
    PROVE  AdminInv'
<1> USE DEF AdminInv
<1>1. PICK W : W = RolesOf(C)
  OBVIOUS
<1>2. W \subseteq Roles
  BY <1>1 DEF RolesOf
<1>3. PICK n : n = Cardinality(W \ {g.role : g \in {h \in grants : h.user = u}})
  OBVIOUS
<1>4. /\ grants' = Synced(u, W) /\ lastId' = lastId + n
      /\ assigned' = assigned \cup UNION {{UserTenant[u]} \X RoleActions[ro] : ro \in W}
      /\ req' = [req EXCEPT ![r].pc = "synced", ![r].arg = <<u, W>>]
      /\ UNCHANGED <<audit, job>>
  BY <1>1, <1>3 DEF Assigns
<1>5. /\ n \in Nat
      /\ \A g \in grants' : g \notin grants =>
            /\ DOMAIN g = GrantFields /\ g.id \in lastId + 1 .. lastId + n
            /\ g.user = u /\ g.role \in W /\ g.tenant = UserTenant[u]
            /\ g.version = 1 /\ g.revoked = Null /\ g.by = Null
      /\ \A g, h \in grants' : g.id = h.id => g = h
  BY <1>2, <1>3, <1>4, SyncedRows
<1>6. lastId \in Nat /\ lastId' \in Nat /\ lastId <= lastId'
  BY <1>4, <1>5 DEF GrantsOK
<1>7. assigned \subseteq assigned'
      /\ \A ro \in W : \A a \in RoleActions[ro] : <<UserTenant[u], a>> \in assigned'
  BY <1>4
<1>8. GrantsOK'
  <2>1. ASSUME NEW g \in grants', g \in grants
        PROVE  GrantOK(g)'
    BY <2>1, <1>6, <1>7 DEF GrantsOK, GrantOK
  <2>2. ASSUME NEW g \in grants', g \notin grants
        PROVE  GrantOK(g)'
    <3>1. g.id \in 1 .. lastId'
      BY <2>2, <1>4, <1>5, <1>6
    <3> QED  BY <2>2, <3>1, <1>2, <1>5, <1>7 DEF GrantOK
  <2> QED  BY <2>1, <2>2, <1>5, <1>6 DEF GrantsOK
<1>9. \A x \in 1 .. lastId : x \in 1 .. lastId' /\ \A g \in grants' : g.id = x => g \in grants
  BY <1>5, <1>6
<1>10. AuditOK'
  <2>1. \A a \in audit : Decides(a) => a.target \in 1 .. lastId
    BY DEF AuditOK
  <2>2. ASSUME NEW g \in grants'
        PROVE  (/\ g.by # Null => OneRowBy("admin.grant.create", g.id, g.by)
                /\ g.revoked # Null => OneRowBy("admin.grant.revoke", g.id, g.revoked)
                /\ g.revoked = Null => Rows("admin.grant.revoke", g.id) = {})
    <3>1. CASE g \in grants
      BY <3>1 DEF AuditOK
    <3>2. CASE g \notin grants
      <4>1. g.by = Null /\ g.revoked = Null /\ g.id \notin 1 .. lastId
        BY <3>2, <1>5, <1>6
      <4> QED  BY <4>1, <2>1 DEF Rows, Decides
    <3> QED  BY <3>1, <3>2
  <2>3. \A a \in audit : a.action = "admin.grant.revoke" /\ a.outcome = "allowed" =>
           \A g \in grants' : g.id = a.target => g.tenant = UserTenant[a.actor]
    BY <2>1, <1>9 DEF AuditOK, Decides
  <2>4. \A action, id : Rows(action, id)' = Rows(action, id)
    BY <1>4 DEF Rows
  <2> QED  BY <2>1, <2>2, <2>3, <2>4, <1>4, <1>9 DEF AuditOK, OneRowBy
<1>11. RequestsOK'
  <2>1. DOMAIN req = Requests /\ \A q \in Requests : RequestOK(req[q])
    BY DEF RequestsOK
  <2>2. /\ DOMAIN req' = Requests /\ \A q \in Requests \ {r} : req'[q] = req[q]
        /\ DOMAIN req'[r] = {"pc", "who", "arg", "seen"} /\ req'[r].pc = "synced"
    BY <2>1, <1>4 DEF RequestOK
  <2>3. RequestOK(req[r])'
    BY <2>2 DEF RequestOK, Working
  <2>4. ASSUME NEW q \in Requests \ {r}
        PROVE  RequestOK(req[q])'
    <3>1. RequestOK(req[q]) /\ req'[q] = req[q]
      BY <2>1, <2>2
    <3>2. req[q].pc = "revoke" => /\ req[q].arg \in 1 .. lastId'
             /\ \A h \in grants' : h.id = req[q].arg => h.tenant = req[q].who.tenant
      BY <3>1, <1>9 DEF RequestOK
    <3>3. \A p : PrincipalOK(p) => PrincipalOK(p)'
      BY <1>7 DEF PrincipalOK
    <3> QED  BY <3>1, <3>2, <3>3 DEF RequestOK
  <2> QED  BY <2>2, <2>3, <2>4 DEF RequestsOK
<1>12. JobOK'
  BY <1>4 DEF JobOK
<1> QED  BY <1>8, <1>10, <1>11, <1>12

LEMMA UserScreenKeeps ==
    ASSUME AdminInv, NEW r \in Requests, UserScreen(r)
    PROVE  AdminInv'
<1>1. PICK actor \in Users, u \in Users, C \in SUBSET Codes :
        UpdateUserRoles(r, actor, u, C) \/ CreateUser(r, actor, u, C)
  BY DEF UserScreen
<1>2. Assigns(r, u, C)
  BY <1>1 DEF UpdateUserRoles, CreateUser
<1> QED  BY <1>2, AssignsKeeps

-----------------------------------------------------------------------------
(* Every step.                                                             *)

LEMMA BackgroundKeeps ==
    ASSUME AdminInv, UNCHANGED <<grants, lastId, assigned, audit, req>>, JobOK'
    PROVE  AdminInv'
<1> USE DEF AdminInv
<1>1. GrantsOK' /\ RequestsOK'
  BY DEF GrantsOK, GrantOK, RequestsOK, RequestOK, PrincipalOK
<1>2. AuditOK'
  BY DEF AuditOK, OneRowBy, Rows
<1> QED  BY <1>1, <1>2

LEMMA AdminNextInv == AdminInv /\ [AdminNext]_adminVars => AdminInv'
<1> SUFFICES ASSUME AdminInv, [AdminNext]_adminVars PROVE AdminInv'
  OBVIOUS
<1>1. ASSUME NEW r \in Requests, NEW u \in Users, Resolve(r, u)
      PROVE  AdminInv'
  BY <1>1, ResolveKeeps
<1>2. ASSUME NEW r \in Requests, Reads(r)
      PROVE  AdminInv'
  BY <1>2, ReadsKeep
<1>3. ASSUME NEW r \in Requests, Decisions(r)
      PROVE  AdminInv'
  BY <1>3, CreateGrantKeeps, CreateGrantCommitKeeps, RevokeGrantKeeps, RevokeGrantCommitKeeps,
     RecoverAndDecideKeep, RecoverAndDecideCommitKeep DEF Decisions
<1>4. ASSUME NEW r \in Requests, UserScreen(r)
      PROVE  AdminInv'
  BY <1>4, UserScreenKeeps
<1>5. CASE Tick \/ SweepMovesIssue \/ UNCHANGED adminVars
  <2>1. UNCHANGED <<grants, lastId, assigned, audit, req, job>>
    BY <1>5 DEF Tick, SweepMovesIssue, adminVars
  <2>2. JobOK'
    BY <2>1 DEF AdminInv, JobOK
  <2> QED  BY <2>1, <2>2, BackgroundKeeps
<1>6. CASE WorkerMovesJob
  <2>1. UNCHANGED <<grants, lastId, assigned, audit, req>>
    BY <1>6 DEF WorkerMovesJob
  <2>2. JobOK'
    BY <1>6 DEF WorkerMovesJob, AdminInv, JobOK
  <2> QED  BY <2>1, <2>2, BackgroundKeeps
<1> QED  BY <1>1, <1>2, <1>3, <1>4, <1>5, <1>6 DEF AdminNext

-----------------------------------------------------------------------------
(* The theorems.                                                           *)

(* However many requests race for the same grant, the audit trail holds    *)
(* exactly one row of its creation and one of its revocation, by the       *)
(* operators the grant's own row names (admin_service.py, create_grant and *)
(* revoke_grant).                                                          *)
THEOREM AuditAlwaysNamesTheDecider == AdminSpec => []AuditNamesTheDecider
<1>1. AdminInv => AuditNamesTheDecider
  <2> SUFFICES ASSUME AdminInv, NEW g \in grants
               PROVE  /\ g.by # Null =>
                            /\ Cardinality(Rows("admin.grant.create", g.id)) = 1
                            /\ {<<a.actor>> : a \in Rows("admin.grant.create", g.id)} = {<<g.by>>}
                      /\ g.revoked # Null =>
                            /\ Cardinality(Rows("admin.grant.revoke", g.id)) = 1
                            /\ {<<a.actor>> : a \in Rows("admin.grant.revoke", g.id)}
                                  = {<<g.revoked>>}
                      /\ g.revoked = Null => Rows("admin.grant.revoke", g.id) = {}
    BY DEF AuditNamesTheDecider, Rows
  <2>1. ASSUME NEW action, NEW who, OneRowBy(action, g.id, who)
        PROVE  /\ Cardinality(Rows(action, g.id)) = 1
               /\ {<<a.actor>> : a \in Rows(action, g.id)} = {<<who>>}
    <3>1. PICK a \in audit : Rows(action, g.id) = {a} /\ a.actor = who
      BY <2>1 DEF OneRowBy
    <3> QED  BY <3>1, FS_Singleton
  <2> QED  BY <2>1 DEF AdminInv, AuditOK
<1> QED  BY <1>1, AdminInitInv, AdminNextInv, PTL DEF AdminSpec

(* Through any chain of operators granting to operators, no grant conveys  *)
(* an action that nobody of its tenant was given outside the surface, and  *)
(* no request acts on another tenant's roles or grants (admin_service.py,  *)
(* auth/principal.py).                                                     *)
THEOREM NoChainEscalates == AdminSpec => []NoEscalation
<1>1. AdminInv => NoEscalation
  BY DEF AdminInv, NoEscalation, GrantsOK, GrantOK, AuditOK, RequestsOK, RequestOK, PrincipalOK,
         Working, At
<1> QED  BY <1>1, AdminInitInv, AdminNextInv, PTL DEF AdminSpec

(* What every step does to the job and to the finding.                     *)
LEMMA RequestsLeaveRows ==
    ASSUME AdminInv, NEW r \in Requests,
           \/ \E u \in Users : Resolve(r, u)
           \/ Reads(r)
           \/ Decisions(r) /\ ~RecoverRunCommit(r) /\ ~RetryCommit(r) /\ ~ResolveCommit(r)
           \/ UserScreen(r)
    PROVE  UNCHANGED <<job, issue>>
<1>1. CASE \E u \in Users : Resolve(r, u)
  BY <1>1 DEF Resolve
<1>2. CASE UserScreen(r)
  BY <1>2 DEF UserScreen, UpdateUserRoles, CreateUser, Assigns
<1>3. ASSUME NEW scope, NEW action, Read(r, scope, action)
      PROVE  UNCHANGED <<job, issue>>
  BY <1>3 DEF Read, Authorized, Served, Refuse
<1>4. ASSUME NEW known \in BOOLEAN, RunAudit(r, known)
      PROVE  UNCHANGED <<job, issue>>
  BY <1>4 DEF RunAudit, Authorized, Served, Refuse, Ends
<1>5. CASE Reads(r)
  BY <1>3, <1>4, <1>5 DEF Reads, ListRoles, ListGrants, QuotaSummary, Health, ListRuns,
                          ListReconciliation, ListCapacity
<1>6. ASSUME NEW u \in Users, NEW ro \in Roles, NEW w \in Windows, CreateGrant(r, u, ro, w)
      PROVE  UNCHANGED <<job, issue>>
  BY <1>6 DEF CreateGrant, Authorized, CreateGrantChecks, Ends, Refuse, Holds
<1>7. ASSUME NEW id, RevokeGrant(r, id)
      PROVE  UNCHANGED <<job, issue>>
  BY <1>7 DEF RevokeGrant, Authorized, Ends, Refuse, Holds
<1>8. ASSUME NEW extend \in BOOLEAN, RecoverRun(r, extend)
      PROVE  UNCHANGED <<job, issue>>
  BY <1>8 DEF RecoverRun, Authorized, Ends, Refuse, Holds
<1>9. ASSUME NEW action, NEW to, DecideIssue(r, action, to)
      PROVE  UNCHANGED <<job, issue>>
  BY <1>9 DEF DecideIssue, Authorized, Ends, Refuse, Holds
<1>10. CASE CreateGrantCommit(r) \/ RevokeGrantCommit(r)
  BY <1>10 DEF CreateGrantCommit, RevokeGrantCommit, Ends
<1> QED
  BY <1>1, <1>2, <1>5, <1>6, <1>7, <1>8, <1>9, <1>10
  DEF Decisions, RetryReconciliation, ResolveReconciliation

(* A recovery never takes a job from the worker that leased it, and a      *)
(* closed job or finding stays as it is, whatever an operator had read of  *)
(* it before (admin_service.py: recover_run, retry_reconciliation,         *)
(* resolve_reconciliation).                                                *)
THEOREM NoDecisionLosesWork == AdminSpec => DecisionsLoseNoWork
<1> DEFINE Safe == /\ job.owner # Null => job'.state # "queued"
                   /\ issue.state \in {"repaired", "resolved"} => issue' = issue
                   /\ job.state \in {"succeeded", "terminal_failed"} => job' = job
<1>1. AdminInv /\ [AdminNext]_adminVars => [Safe]_adminVars
  <2> SUFFICES ASSUME AdminInv, AdminNext PROVE Safe
    OBVIOUS
  <2>0. JobOK
    BY DEF AdminInv
  <2>1. CASE UNCHANGED <<job, issue>>
    BY <2>0, <2>1 DEF JobOK
  <2>2. ASSUME NEW r \in Requests, RecoverRunCommit(r)
        PROVE  Safe
    <3>1. CASE Ends(r, "conflict")
      BY <3>1, <2>1 DEF Ends
    <3>2. CASE RecoverMatches(r) /\ issue' = issue
      BY <3>2, <2>0 DEF RecoverMatches, JobOK
    <3> QED  BY <2>2, <3>1, <3>2 DEF RecoverRunCommit
  <2>3. ASSUME NEW r \in Requests, RetryCommit(r) \/ ResolveCommit(r)
        PROVE  Safe
    <3>1. req[r].arg \in {"open", "manual_required"}
      BY <2>3 DEF AdminInv, RequestsOK, RequestOK, RetryCommit, ResolveCommit, At, Actionable
    <3>2. CASE Ends(r, "conflict")
      BY <3>2, <2>1 DEF Ends
    <3>3. CASE IssueMatches(r) /\ job' = job
      BY <3>3, <3>1, <2>0 DEF IssueMatches, JobOK
    <3> QED  BY <2>3, <3>2, <3>3 DEF RetryCommit, ResolveCommit
  <2>4. CASE Tick
    BY <2>4, <2>1 DEF Tick
  <2>5. CASE WorkerMovesJob
    BY <2>5, <2>0 DEF WorkerMovesJob, JobOK
  <2>6. CASE SweepMovesIssue
    BY <2>6, <2>0 DEF SweepMovesIssue, JobOK
  <2> HIDE DEF Safe
  <2> QED  BY <2>1, <2>2, <2>3, <2>4, <2>5, <2>6, RequestsLeaveRows DEF AdminNext
<1> QED  BY <1>1, AdminInitInv, AdminNextInv, PTL DEF AdminSpec, DecisionsLoseNoWork
=============================================================================
