--------------------------- MODULE Administration ---------------------------
(***************************************************************************)
(* Identity, role grants and the audited administration surface.           *)
(*                                                                         *)
(* A request first derives a principal from its token and the grants valid *)
(* at that moment (api/deps.py, auth/principal.py).  The administration    *)
(* service (services/admin_service.py) then opens its own transaction,     *)
(* re-reads the caller's grants, loads the row it works on, and commits    *)
(* its effect with an audit row.  Other requests, the clock, the job       *)
(* workers and the reconciliation sweep run between those steps.  Two      *)
(* authorities coexist: user_role_grants, which the principal reads, and   *)
(* the older user_roles links, which the user-management screen checks     *)
(* and writes (services/user_service.py).                                  *)
(*                                                                         *)
(* A request is one-shot.  Its steps are                                   *)
(*   "new" -> "resolved" -> (one load step) -> "grant", "revoke",          *)
(*   "recover", "retry" or "resolve" -> an answer                          *)
(* The load step authorises and reads in one step: what can happen between *)
(* those two reads can also happen before the commit.                      *)
(***************************************************************************)
EXTENDS Integers, FiniteSets, Sequences

CONSTANTS
    Tenants, Users, Roles,       \* identifiers
    Requests,                    \* one-shot requests
    Viewers, Screens,            \* those that may be dashboard reads; those from the user screen
    UserTenant,                  \* the tenant a user is a member of
    RoleTenant, RoleCode,        \* the owner of a role and its per-tenant code
    RoleActions,                 \* the allowlist of a role
    Founders,                    \* <<user, role>> of the bootstrap, in order
    Windows,                     \* <<start, length>> of a new grant; Null: no expiry
    MaxTime, MaxVersion,         \* bounds on the clock and on the job's version
    MaxSweeps,                   \* bound on the sweep's moves
    MaxAttempts,                 \* attempts a durable job may use
    Null

ASSUME AdministrationAssumption ==
    /\ UserTenant \in [Users -> Tenants] /\ RoleTenant \in [Roles -> Tenants]
    /\ \A x, y \in Roles :
         RoleTenant[x] = RoleTenant[y] /\ RoleCode[x] = RoleCode[y] => x = y
    /\ Founders \in Seq(Users \X Roles) /\ IsFiniteSet(Roles) /\ Null \notin Users
    /\ Viewers \cup Screens \subseteq Requests /\ MaxTime \in Nat /\ MaxVersion \in Nat

VARIABLES
    now,        \* the database clock
    members,    \* users that exist
    links,      \* user_roles: <<user, role>>
    grants,     \* user_role_grants rows
    lastId,     \* the newest primary key of user_role_grants
    req,        \* the requests in flight
    audit,      \* audit_events rows
    job,        \* the durable job an operator may recover
    issue,      \* the reconciliation finding an operator may decide
    assigned    \* history: <<tenant, action>> conveyed by bootstrap or the user screen

adminVars == <<now, members, links, grants, lastId, req, audit, job, issue, assigned>>

Codes == {RoleCode[ro] : ro \in Roles}
SysAdmin == "sys_admin"
Actions == UNION {RoleActions[ro] : ro \in Roles}
Answers == {"ok", "unchanged", "denied", "not_found", "conflict", "error"}

-----------------------------------------------------------------------------
(* Grants and the scopes they give.                                        *)

Row(n, u, ro, from, until, by) ==
    [id |-> n, tenant |-> UserTenant[u], user |-> u, role |-> ro, from |-> from,
     until |-> until, by |-> by, revoked |-> Null, version |-> 1]

\* The window of a grant is closed on the left and open on the right.
IsValidAt(g, time) ==
    /\ g.revoked = Null /\ g.from <= time
    /\ g.until = Null \/ g.until > time

ActiveGrants(t, u) == {g \in grants : g.tenant = t /\ g.user = u /\ IsValidAt(g, now)}

\* grants[0] of the query's order by valid_from, id.
Oldest(G) == CHOOSE g \in G : \A h \in G : g.from < h.from \/ (g.from = h.from /\ g.id <= h.id)

\* roles.get(tenant, id): a role of another tenant is not found.
Readable(t, G) == \A g \in G : RoleTenant[g.role] = t

ScopesOf(G) == UNION {RoleActions[g.role] : g \in G}

\* The membership row is a gate: without it the scopes are empty, with it
\* they are the union over all current grants.
Selected(p) ==
    LET G == ActiveGrants(p.tenant, p.user)
    IN  IF \E g \in G : g.id = p.membership THEN G ELSE {}

-----------------------------------------------------------------------------
(* The request path up to the principal.                                   *)

\* What login issues and what every later request presents.
Token(u) == [sub |-> u, tenant_id |-> UserTenant[u]]

\* The principal's scopes are a snapshot of this moment.
Principal(token) ==
    LET G == ActiveGrants(token.tenant_id, token.sub)
    IN  [tenant |-> token.tenant_id, user |-> token.sub,
         membership |-> Oldest(G).id, scopes |-> ScopesOf({g \in G : IsValidAt(g, now)})]

NewRequest == [pc |-> "new", who |-> Null, arg |-> Null, seen |-> 0]

At(r, pc) == req[r].pc = pc

GoTo(r, pc, arg, seen) ==
    req' = [req EXCEPT ![r].pc = pc, ![r].arg = arg, ![r].seen = seen]

\* The request is answered; nothing of it is kept but the answer.
Answer(r, how) == req' = [req EXCEPT ![r] = [NewRequest EXCEPT !.pc = how]]

\* get_principal; a member without an active grant is refused, and so is one
\* holding a role this tenant cannot read.
Resolve(r, u) ==
    LET token == Token(u)
        G == ActiveGrants(token.tenant_id, token.sub)
    IN  /\ At(r, "new") /\ u \in members
        /\ CASE G = {} -> Answer(r, "denied")
             [] G # {} /\ ~Readable(token.tenant_id, G) -> Answer(r, "not_found")
             [] OTHER -> req' = [req EXCEPT ![r].pc = "resolved", ![r].who = Principal(token)]
        /\ UNCHANGED <<now, members, links, grants, lastId, audit, job, issue, assigned>>

-----------------------------------------------------------------------------
(* Fresh authorization and the audit trail.                                *)

\* Grants are read again: the principal's snapshot is not trusted.
FreshScopes(p) == ScopesOf(Selected(p))

\* The catalogue: a tenant is visible to itself only.
Visible(p, tenant) == tenant = p.tenant

\* Allow-only: a resource of another tenant and an unknown one are the same
\* refusal, and every action needs its own scope.
Evaluate(p, scopes, scope, owner) ==
    IF (owner # p.tenant /\ "cross_tenant_admin" \notin scopes) \/ ~Visible(p, owner)
    THEN "not_found"
    ELSE IF scope \in scopes THEN "allow" ELSE "forbidden"

\* The resource of every administrative action is the caller's tenant.
Allowed(p, scope) == Evaluate(p, FreshScopes(p), scope, p.tenant) = "allow"

Fact(r, action, outcome, target) ==
    [req |-> r, actor |-> req[r].who.user, action |-> action, outcome |-> outcome,
     target |-> target]

Log(r, action, outcome, target) == audit' = audit \cup {Fact(r, action, outcome, target)}

\* The refusal is committed before the error is raised.
Refuse(r, action, target) ==
    /\ Log(r, action, "denied", target)
    /\ Answer(r, "denied")
    /\ UNCHANGED <<now, members, links, grants, lastId, job, issue, assigned>>

\* A load step of a handler: Then is taken when the caller holds the scope.
Authorized(r, scope, action, Then) ==
    LET p == req[r].who
    IN  /\ At(r, "resolved")
        /\ CASE ~Readable(p.tenant, Selected(p)) ->
                  /\ Answer(r, "not_found")
                  /\ UNCHANGED <<now, members, links, grants, lastId, audit, job, issue, assigned>>
             [] Readable(p.tenant, Selected(p)) /\ ~Allowed(p, scope) -> Refuse(r, action, Null)
             [] OTHER -> Then

\* An answer that changes no row and writes no audit.
Ends(r, how) ==
    /\ Answer(r, how)
    /\ UNCHANGED <<now, members, links, grants, lastId, audit, job, issue, assigned>>

Holds(r, pc, arg, seen) ==
    /\ GoTo(r, pc, arg, seen)
    /\ UNCHANGED <<now, members, links, grants, lastId, audit, job, issue, assigned>>

-----------------------------------------------------------------------------
(* Dashboard reads: the page is served and the read is audited, together.  *)

Served(r, action) ==
    /\ Log(r, action, "allowed", Null)
    /\ Answer(r, "ok")
    /\ UNCHANGED <<now, members, links, grants, lastId, job, issue, assigned>>

Read(r, scope, action) == r \in Viewers /\ Authorized(r, scope, action, Served(r, action))

ListRoles(r) == Read(r, "admin", "admin.role.list")
ListGrants(r) == Read(r, "admin", "admin.grant.list")
QuotaSummary(r) == Read(r, "admin", "admin.quota.read")
Health(r) == Read(r, "admin", "admin.health.read")
ListRuns(r) == Read(r, "admin", "admin.run.list")
RunAudit(r, known) ==
    /\ r \in Viewers
    /\ Authorized(r, "admin", "admin.run.audit.read",
                  IF known THEN Served(r, "admin.run.audit.read") ELSE Ends(r, "not_found"))
ListReconciliation(r) == Read(r, "admin", "admin.reconciliation.list")
ListCapacity(r) == Read(r, "cross_tenant_admin", "admin.capacity.list")

-----------------------------------------------------------------------------
(* Granting a role.  The operator's own scopes are the principal's         *)
(* snapshot; the lookups of role and member raise, so a miss is answered   *)
(* before the audited branch that follows them.                            *)

\* Mutant: the allowlist of the role is not compared with the operator's.
ExceedsNever(p, ro) == FALSE
Exceeds(p, ro) == ~(RoleActions[ro] \subseteq p.scopes)

\* Lookups by id or code see the caller's tenant only.
FindRole(p, ro) == {x \in {ro} : RoleTenant[x] = p.tenant}
FindUser(p, u) == {x \in members \cap {u} : UserTenant[x] = p.tenant}
FindGrant(p, id) == {g \in grants : g.id = id /\ g.tenant = p.tenant}

CreateGrantChecks(r, u, ro, w) ==
    LET p == req[r].who
    IN  IF FindRole(p, ro) = {} \/ FindUser(p, u) = {}
        THEN Ends(r, "not_found")
        ELSE IF Exceeds(p, ro)
        THEN Refuse(r, "admin.grant.create", ro)
        ELSE IF \E g \in ActiveGrants(p.tenant, u) : g.role = ro
        THEN Ends(r, "unchanged")
        ELSE Holds(r, "grant", <<u, ro, w>>, 0)

CreateGrant(r, u, ro, w) ==
    Authorized(r, "admin", "admin.grant.create", CreateGrantChecks(r, u, ro, w))

\* The row of a new grant: without an expiry it never ends.
NewGrant(u, ro, w, by) ==
    LET from == now + w[1] IN
    Row(lastId + 1, u, ro, from, IF w[2] = Null THEN Null ELSE from + w[2], by)

\* The insert meets the unique (tenant, user, role, scope) constraint, which
\* counts revoked rows too; a violation is an unhandled error.
CreateGrantCommit(r) ==
    /\ At(r, "grant")
    /\ LET u == req[r].arg[1]  ro == req[r].arg[2]  w == req[r].arg[3]
           g == NewGrant(u, ro, w, req[r].who.user)
       IN  IF \E h \in grants : h.user = u /\ h.role = ro
           THEN Ends(r, "error")
           ELSE /\ grants' = grants \cup {g}
                /\ lastId' = g.id
                /\ Log(r, "admin.grant.create", "allowed", g.id)
                /\ Answer(r, "ok")
                /\ UNCHANGED <<now, members, links, job, issue, assigned>>

-----------------------------------------------------------------------------
(* Revoking a grant under compare-and-set.                                 *)

RevokeGrant(r, id) ==
    Authorized(r, "admin", "admin.grant.revoke",
        LET G == FindGrant(req[r].who, id)
        IN  IF G = {} THEN Ends(r, "not_found")
            ELSE LET g == CHOOSE g \in G : TRUE
                 IN  IF g.revoked # Null THEN Ends(r, "unchanged")
                     ELSE Holds(r, "revoke", id, g.version))

\* Mutant: the update is keyed by the id alone.
RevokeMatchesAny(g, r) == g.id = req[r].arg
RevokeMatches(g, r) == g.id = req[r].arg /\ g.version = req[r].seen

RevokeGrantCommit(r) ==
    LET G == {g \in grants : g.id = req[r].arg}
        M == {g \in G : RevokeMatches(g, r)}
    IN  /\ At(r, "revoke")
        /\ IF G = {} THEN Ends(r, "not_found")
           ELSE IF M = {} THEN Ends(r, "conflict")
           ELSE /\ grants' = (grants \ M) \cup
                      {[g EXCEPT !.revoked = req[r].who.user, !.version = @ + 1] : g \in M}
                /\ Log(r, "admin.grant.revoke", "allowed", req[r].arg)
                /\ Answer(r, "ok")
                /\ UNCHANGED <<now, members, links, lastId, job, issue, assigned>>

-----------------------------------------------------------------------------
(* Putting a failed durable job back on the queue.                         *)

RecoverRun(r, extend) ==
    Authorized(r, "admin", "admin.run.recover",
        IF job.state # "recoverable_failed" \/ (job.attempts >= job.max /\ ~extend)
        THEN Refuse(r, "admin.run.recover", "job")
        ELSE Holds(r, "recover", extend, job.version))

\* Mutant: the update does not repeat the state and version it was decided on.
RecoverMatchesAny(r) == TRUE
RecoverMatches(r) == job.state = "recoverable_failed" /\ job.version = req[r].seen

RecoverRunCommit(r) ==
    /\ At(r, "recover")
    /\ IF ~RecoverMatches(r) THEN Ends(r, "conflict")
       ELSE /\ job' = [job EXCEPT !.state = "queued", !.version = req[r].seen + 1, !.owner = Null,
                                  !.max = IF req[r].arg /\ job.attempts >= @
                                          THEN job.attempts + 1 ELSE @]
            /\ Log(r, "admin.run.recover", "allowed", "job")
            /\ Answer(r, "ok")
            /\ UNCHANGED <<now, members, links, grants, lastId, issue, assigned>>

-----------------------------------------------------------------------------
(* Deciding a reconciliation finding.                                      *)

Actionable == {"open", "manual_required"}

DecideIssue(r, action, to) ==
    Authorized(r, "admin", action,
        IF issue.state \notin Actionable THEN Ends(r, "conflict")
        ELSE Holds(r, to, issue.state, issue.version))

RetryReconciliation(r) == DecideIssue(r, "admin.reconciliation.retry", "retry")
ResolveReconciliation(r) == DecideIssue(r, "admin.reconciliation.resolve", "resolve")

IssueMatches(r) == issue.state = req[r].arg /\ issue.version = req[r].seen

RetryCommit(r) ==
    /\ At(r, "retry")
    /\ IF ~IssueMatches(r) THEN Ends(r, "conflict")
       ELSE /\ issue' = [state |-> "open", attempts |-> 0, version |-> issue.version + 1]
            /\ Log(r, "admin.reconciliation.retry", "allowed", "issue")
            /\ Answer(r, "ok")
            /\ UNCHANGED <<now, members, links, grants, lastId, job, assigned>>

ResolveCommit(r) ==
    /\ At(r, "resolve")
    /\ IF ~IssueMatches(r) THEN Ends(r, "conflict")
       ELSE /\ issue' = [issue EXCEPT !.state = "resolved", !.version = @ + 1]
            /\ Log(r, "admin.reconciliation.resolve", "allowed", "issue")
            /\ Answer(r, "ok")
            /\ UNCHANGED <<now, members, links, grants, lastId, job, assigned>>

-----------------------------------------------------------------------------
(* The user-management screen: one synchronous transaction per request,    *)
(* open to whoever carries a sys_admin link.                               *)

IsSysAdmin(u) == \E l \in links : l[1] = u /\ RoleCode[l[2]] = SysAdmin

\* _resolve_roles looks a code up in every tenant.
RolesOf(C) == {ro \in Roles : RoleCode[ro] \in C}

\* sync_role_grants: rows of unwanted roles are deleted, a row of any state
\* stands for its role, and the missing ones are inserted.
Synced(u, W) ==
    LET mine == {g \in grants : g.user = u}
        new  == W \ {g.role : g \in mine}
        ids  == CHOOSE f \in [new -> lastId + 1 .. lastId + Cardinality(new)] :
                   \A x, y \in new : f[x] = f[y] => x = y
    IN  {g \in grants : g.user = u => g.role \in W}
          \cup {Row(ids[ro], u, ro, now, Null, Null) : ro \in new}

Assigns(r, u, C) ==
    LET W == RolesOf(C)
    IN  /\ links' = {l \in links : l[1] # u} \cup ({u} \X W)
        /\ grants' = Synced(u, W)
        /\ lastId' = lastId + Cardinality(W \ {g.role : g \in {h \in grants : h.user = u}})
        /\ assigned' = assigned \cup
              UNION {{UserTenant[u]} \X RoleActions[ro] : ro \in W}
        /\ req' = [req EXCEPT ![r].pc = "synced", ![r].arg = <<u, W>>]
        /\ UNCHANGED <<now, audit, job, issue>>

UpdateUserRoles(r, actor, u, C) ==
    /\ At(r, "new") /\ actor \in members /\ IsSysAdmin(actor)
    /\ u \in members
    /\ Assigns(r, u, C)
    /\ UNCHANGED members

\* The new member's tenant is the acting administrator's.
CreateUser(r, actor, u, C) ==
    /\ At(r, "new") /\ actor \in members /\ IsSysAdmin(actor)
    /\ u \notin members /\ UserTenant[u] = UserTenant[actor]
    /\ members' = members \cup {u}
    /\ Assigns(r, u, C)

-----------------------------------------------------------------------------
(* The rest of the system moves the rows an operator decides on.           *)

Tick ==
    /\ now < MaxTime
    /\ now' = now + 1
    /\ UNCHANGED <<members, links, grants, lastId, req, audit, job, issue, assigned>>

\* A worker leases a queued or recoverable job and settles the attempt.
WorkerMovesJob ==
    /\ job.version < MaxVersion
    /\ \/ /\ job.state \in {"queued", "recoverable_failed"}
          /\ job' = [job EXCEPT !.state = "leased", !.attempts = @ + 1, !.owner = "worker",
                                !.version = @ + 1]
       \/ /\ job.state = "leased"
          /\ \E s \in {"succeeded", IF job.attempts < job.max THEN "recoverable_failed"
                                    ELSE "terminal_failed"} :
               job' = [job EXCEPT !.state = s, !.owner = Null, !.version = @ + 1]
    /\ UNCHANGED <<now, members, links, grants, lastId, req, audit, issue, assigned>>

\* The sweep repairs a finding or gives it up to a human.
SweepMovesIssue ==
    /\ issue.attempts < MaxSweeps /\ issue.state = "open"
    /\ \E s \in {"open", "repaired", "manual_required"} :
         issue' = [state |-> s, attempts |-> issue.attempts + 1, version |-> issue.version + 1]
    /\ UNCHANGED <<now, members, links, grants, lastId, req, audit, job, assigned>>

-----------------------------------------------------------------------------
AdminInit ==
    /\ now = 0
    /\ members = {Founders[i][1] : i \in DOMAIN Founders}
    /\ links = {Founders[i] : i \in DOMAIN Founders}
    /\ grants = {Row(i, Founders[i][1], Founders[i][2], 0, Null, Null) : i \in DOMAIN Founders}
    /\ lastId = Len(Founders)
    /\ req = [r \in Requests |-> NewRequest]
    /\ audit = {}
    /\ job = [state |-> "recoverable_failed", attempts |-> 1, max |-> MaxAttempts,
              version |-> 1, owner |-> Null]
    /\ issue = [state |-> "open", attempts |-> 0, version |-> 1]
    /\ assigned = UNION {{UserTenant[Founders[i][1]]} \X RoleActions[Founders[i][2]] :
                            i \in DOMAIN Founders}

Reads(r) ==
    \/ ListRoles(r) \/ ListGrants(r) \/ QuotaSummary(r) \/ Health(r) \/ ListRuns(r)
    \/ \E known \in BOOLEAN : RunAudit(r, known)
    \/ ListReconciliation(r) \/ ListCapacity(r)

Decisions(r) ==
    \/ \E u \in Users, ro \in Roles, w \in Windows : CreateGrant(r, u, ro, w)
    \/ CreateGrantCommit(r)
    \/ \E id \in 1..lastId : RevokeGrant(r, id)
    \/ RevokeGrantCommit(r)
    \/ \E extend \in BOOLEAN : RecoverRun(r, extend)
    \/ RecoverRunCommit(r)
    \/ RetryReconciliation(r) \/ ResolveReconciliation(r)
    \/ RetryCommit(r) \/ ResolveCommit(r)

UserScreen(r) ==
    \E actor, u \in Users, C \in SUBSET Codes :
        UpdateUserRoles(r, actor, u, C) \/ CreateUser(r, actor, u, C)

AdminNext ==
    \/ \E r \in Requests :
          \/ \E u \in Users : Resolve(r, u)
          \/ Reads(r) \/ Decisions(r)
          \/ r \in Screens /\ UserScreen(r)
    \/ Tick \/ WorkerMovesJob \/ SweepMovesIssue

AdminSpec == AdminInit /\ [][AdminNext]_adminVars

-----------------------------------------------------------------------------
(* Properties.                                                             *)

\* The audit trail names who decided: a grant made through the surface has
\* exactly one creation row, by its granter, and a revoked grant exactly one
\* revocation row, by its revoker, however many requests raced for it
\* (admin_service.py: "Mutations are audited in the same transaction").
AuditNamesTheDecider ==
    \A g \in grants :
        LET rows(action) == {a \in audit : a.action = action /\ a.outcome = "allowed"
                                           /\ a.target = g.id}
            by(action) == {<<a.actor>> : a \in rows(action)}
        IN  /\ g.by # Null => Cardinality(rows("admin.grant.create")) = 1
                              /\ by("admin.grant.create") = {<<g.by>>}
            /\ g.revoked # Null => Cardinality(rows("admin.grant.revoke")) = 1
                                   /\ by("admin.grant.revoke") = {<<g.revoked>>}
            /\ g.revoked = Null => rows("admin.grant.revoke") = {}

\* No privilege escalation: through any chain of operators granting to
\* operators, a grant never conveys an action that neither the bootstrap nor
\* the user screen has given to somebody of that tenant; and tenants are
\* isolated: the user screen may link a member to another tenant's role of
\* the same code, yet no request ever acts on such a role's actions or
\* decides about a grant of another tenant.
NoEscalation ==
    /\ \A g \in grants : g.by # Null =>
         \A a \in RoleActions[g.role] : <<g.tenant, a>> \in assigned
    /\ \A r \in Requests : At(r, "resolved") =>
         \A a \in req[r].who.scopes :
            \E ro \in Roles : RoleTenant[ro] = req[r].who.tenant /\ a \in RoleActions[ro]
    /\ \A a \in audit : a.action = "admin.grant.revoke" /\ a.outcome = "allowed" =>
         \A g \in grants : g.id = a.target => g.tenant = UserTenant[a.actor]

\* An operator's decision never overwrites what the rest of the system did
\* meanwhile: a recovery never takes a job away from the worker that leased
\* it, and a closed finding stays closed.
DecisionsLoseNoWork ==
    [][/\ job.owner # Null => job'.state # "queued"
       /\ issue.state \in {"repaired", "resolved"} => issue' = issue
       /\ job.state \in {"succeeded", "terminal_failed"} => job' = job]_adminVars

\* sync_role_grants: "Make a member's grants match the given role
\* assignments".  After a role update the member's usable roles are the ones
\* the screen shows.
GrantsFollowRoles ==
    [][\A r \in Requests : At(r, "new") /\ req'[r].pc = "synced" =>
          LET u == req'[r].arg[1]
          IN  {g.role : g \in {h \in grants' : h.user = u /\ h.revoked = Null}}
                 = req'[r].arg[2]]_adminVars
=============================================================================
