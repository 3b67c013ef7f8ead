------------------------------- MODULE Access -------------------------------
(***************************************************************************)
(* Who may do what in one tenant: user accounts and their passwords, the   *)
(* pairs of access and refresh tokens, support sessions of the platform,   *)
(* suspension, roles with their permissions, and the cache through which   *)
(* every request reads them.                                               *)
(*                                                                         *)
(* An access token is not stored: it is good until it expires, whatever    *)
(* happens to the account meanwhile.  A refresh token is a row.  Requests  *)
(* that check and then write in separate statements take two steps.        *)
(***************************************************************************)
EXTENDS Integers, FiniteSets, Sequences

CONSTANTS
    People,         \* accounts of the tenant
    Custom,         \* keys a custom role may get
    Grants,         \* permission sets a custom role may get
    Assigned,       \* role keys a request may name
    Requests,       \* requests in progress at once
    Scope,          \* what else happens: "links", "logout", "platform" (its staff acts)
    AccessTtl, RefreshTtl, InviteTtl, ResetTtl,  \* hours
    LastHour,       \* bound: hours
    MaxTokens       \* bound: refresh tokens

VARIABLES
    hour,           \* the time
    people,         \* era_users
    tokens,         \* refresh_tokens, in the order of issue
    badges,         \* access tokens that have not expired
    roles,          \* role key -> permissions
    cache,          \* PermissionCache: role key -> permissions
    request,        \* what each request has read
    barred,         \* the tenant is suspended
    logins,         \* history: sessions begun
    changed,        \* history: hour an account's role or state last changed
    swept           \* history: tokens issued when the tenant was last suspended

vars == <<hour, people, tokens, badges, roles, cache, request, barred, logins, changed, swept>>

-----------------------------------------------------------------------------
(* The seed: role_grants over one resource of every category it tells      *)
(* apart.  A permission is <<category, resource, verb>>.                   *)

RESOURCES ==
    {"Purchases"} \X {"bill"} \X {"read", "create", "approve", "post"} \cup
    {"Accounting"} \X {"posting_group"} \X {"read", "config"} \cup
    {"HR"} \X {"pay_run"} \X {"read", "create", "approve", "post"} \cup
    {"Reports"} \X {"report"} \X {"read", "export"} \cup
    {"Admin"} \X {"user"} \X {"read", "manage"} \cup
    {"Admin"} \X {"role"} \X {"read", "create", "update", "delete"}

SystemRoles == {"Owner", "Admin", "Accountant", "HrManager", "Editor", "Approver", "Viewer"}

ApproveVerbs == {"approve", "reject", "award", "publish"}
ConfigVerbs == {"config", "manage"}
EditorVerbs == {"create", "update", "submit", "convert", "apply", "adjust", "receive", "issue",
                "categorise", "import"}
FinanceCats == {"Sales", "Receivables", "Purchases", "Vendors", "Banking", "Accounting", "Tax",
                "FX", "Assets"}
OpsCats == {"Sales", "Receivables", "Purchases", "Vendors", "Inventory", "CRM", "Procurement"}
SensitiveResources == {"pay_run", "employee", "payroll_config", "audit"}

GeneralRead(p) == p[3] = "read" /\ p[2] \notin SensitiveResources /\ p[1] # "Admin"

RoleGrants(role, p) ==
    CASE role \in {"Owner", "Admin"} -> TRUE
      [] role = "Viewer" -> GeneralRead(p) \/ (p[2] = "report" /\ p[3] = "export")
      [] role = "Editor" -> GeneralRead(p) \/ (p[1] \in OpsCats /\ p[3] \in EditorVerbs)
      [] role = "Approver" -> p[3] = "read" \/ p[3] \in ApproveVerbs
      [] role = "Accountant" ->
            \/ p[3] = "read" \/ p[1] = "Reports"
            \/ p[1] \in FinanceCats /\ p[3] \notin ApproveVerbs \cup ConfigVerbs
            \/ p[2] = "pay_run" /\ p[3] \in {"post", "pay"}
      [] role = "HrManager" -> p[1] = "HR"

SeededPermissionsFor(role) == {p \in RESOURCES : RoleGrants(role, p)}

ManageUsers == <<"Admin", "user", "manage">>

-----------------------------------------------------------------------------
(* Tokens *)

Idle == [op |-> "idle"]

Live(t) == ~tokens[t].revoked /\ tokens[t].expires > hour

(* issue_token_pair and issue_impersonation_token_pair *)
SessionRole(role, readonly) == IF readonly THEN "Viewer" ELSE role

Badge(u, role, support, readonly) ==
    [user |-> u, role |-> SessionRole(role, readonly), iat |-> hour, support |-> support,
     readonly |-> readonly]

(* "meant" is history: what the session was opened as *)
Token(u, role, support, readonly, meant) ==
    [user |-> u, role |-> role, expires |-> hour + RefreshTtl, revoked |-> FALSE, support |-> support,
     readonly |-> readonly, meant |-> meant]

Issue(u, role, support, readonly) ==
    /\ Len(tokens) < MaxTokens
    /\ badges' = badges \cup {Badge(u, role, support, readonly)}
    /\ tokens' = Append(tokens, Token(u, role, support, readonly, readonly))
    /\ logins' = logins + 1

(* require_authenticated, then require_permission from the cache *)
Admitted(b) == barred => b.support

May(b, permission) ==
    /\ b \in badges /\ Admitted(b) /\ ~b.readonly
    /\ b.role \in DOMAIN cache /\ permission \in cache[b.role]

(* login: the account and the tenant are read, *)
StartLogin(q, u) ==
    /\ request[q] = Idle
    /\ people[u].exists /\ people[u].active /\ people[u].password /\ ~barred
    /\ request' = [request EXCEPT ![q] = [op |-> "login", user |-> u, role |-> people[u].role]]
    /\ UNCHANGED <<hour, people, tokens, badges, roles, cache, barred, logins, changed, swept>>

(* then the pair is issued and stored. *)
FinishLogin(q) ==
    /\ request[q].op = "login"
    /\ Issue(request[q].user, request[q].role, FALSE, FALSE)
    /\ request' = [request EXCEPT ![q] = Idle]
    /\ UNCHANGED <<hour, people, roles, cache, barred, changed, swept>>

(* impersonate_tenant: of an active account, also while suspended *)
Impersonate(u, readonly) ==
    /\ "platform" \in Scope /\ people[u].exists /\ people[u].active
    /\ Issue(u, people[u].role, TRUE, readonly)
    /\ UNCHANGED <<hour, people, roles, cache, request, barred, changed, swept>>

(* Mutation: the new pair takes the role the old token was issued with. *)
StartRefreshOldRole(q, t) ==
    /\ request[q] = Idle /\ Live(t)
    /\ people[tokens[t].user].active
    /\ barred => tokens[t].support
    /\ request' = [request EXCEPT ![q] = [op |-> "rotate", token |-> t, role |-> tokens[t].role]]
    /\ UNCHANGED <<hour, people, tokens, badges, roles, cache, barred, logins, changed, swept>>

(* refresh: everything is checked, *)
StartRefresh(q, t) ==
    /\ request[q] = Idle /\ Live(t)
    /\ people[tokens[t].user].active
    /\ barred => tokens[t].support
    /\ request' = [request EXCEPT ![q] = [op |-> "rotate", token |-> t,
                                          role |-> people[tokens[t].user].role]]
    /\ UNCHANGED <<hour, people, tokens, badges, roles, cache, barred, logins, changed, swept>>

(* and the old token is revoked in the transaction that stores the new.    *)
Rotate(q) ==
    /\ request[q].op = "rotate" /\ Len(tokens) < MaxTokens
    /\ LET old == tokens[request[q].token] IN
       /\ badges' = badges \cup {Badge(old.user, request[q].role, old.support, old.readonly)}
       /\ tokens' = Append([tokens EXCEPT ![request[q].token].revoked = TRUE],
                           Token(old.user, request[q].role, old.support, old.readonly, old.meant))
    /\ request' = [request EXCEPT ![q] = Idle]
    /\ UNCHANGED <<hour, people, roles, cache, barred, logins, changed, swept>>

Logout(t) ==
    /\ "logout" \in Scope /\ Live(t)
    /\ tokens' = [tokens EXCEPT ![t].revoked = TRUE]
    /\ UNCHANGED <<hour, people, badges, roles, cache, request, barred, logins, changed, swept>>

(* Expired access tokens are refused by decode_token. *)
HourPasses ==
    /\ hour < LastHour
    /\ hour' = hour + 1
    /\ badges' = {b \in badges : b.iat + AccessTtl > hour'}
    /\ UNCHANGED <<people, tokens, roles, cache, request, barred, logins, changed, swept>>

-----------------------------------------------------------------------------
(* Accounts *)

Change(u, account) ==
    /\ people' = [people EXCEPT ![u] = account]
    /\ changed' = IF account.role = people[u].role /\ account.active = people[u].active
                  THEN changed ELSE [changed EXCEPT ![u] = hour]

(* register: the first Owner, while nobody is active *)
Register(u) ==
    /\ ~people[u].exists /\ \A v \in People : ~people[v].active
    /\ Change(u, [exists |-> TRUE, role |-> "Owner", active |-> TRUE, password |-> TRUE, link |-> 0])
    /\ Issue(u, "Owner", FALSE, FALSE)
    /\ UNCHANGED <<hour, roles, cache, request, barred, swept>>

(* create: with a password, or invited with a link *)
Invite(b, u, role, password) ==
    /\ May(b, ManageUsers) /\ ~people[u].exists /\ role \in DOMAIN roles
    /\ ~password => "links" \in Scope
    /\ Change(u, [exists |-> TRUE, role |-> role, active |-> TRUE, password |-> password,
                  link |-> IF password THEN 0 ELSE hour + InviteTtl])
    /\ UNCHANGED <<hour, tokens, badges, roles, cache, request, barred, logins, swept>>

ResendInvite(b, u) ==
    /\ May(b, ManageUsers) /\ people[u].exists /\ ~people[u].password
    /\ Change(u, [people[u] EXCEPT !.link = hour + InviteTtl])
    /\ UNCHANGED <<hour, tokens, badges, roles, cache, request, barred, logins, swept>>

ForgotPassword(u) ==
    /\ "links" \in Scope /\ people[u].exists /\ people[u].active
    /\ Change(u, [people[u] EXCEPT !.link = hour + ResetTtl])
    /\ UNCHANGED <<hour, tokens, badges, roles, cache, request, barred, logins, swept>>

(* set_password also makes the account active again. *)
SetPassword(u) ==
    /\ people[u].link > hour
    /\ Change(u, [people[u] EXCEPT !.password = TRUE, !.active = TRUE, !.link = 0])
    /\ UNCHANGED <<hour, tokens, badges, roles, cache, request, barred, logins, swept>>

ActiveOwners == {u \in People : people[u].active /\ people[u].role = "Owner"}

(* update: never oneself, and never the only active Owner *)
MayChange(actor, u, role, active) ==
    /\ u = actor => active /\ role = people[u].role
    /\ people[u].role = "Owner" /\ (~active \/ role # "Owner") => Cardinality(ActiveOwners) > 1

StartUpdate(q, b, u, role, active) ==
    /\ request[q] = Idle /\ May(b, ManageUsers) /\ people[u].exists
    /\ role \in DOMAIN roles /\ <<role, active>> # <<people[u].role, people[u].active>>
    /\ MayChange(b.user, u, role, active)
    /\ request' = [request EXCEPT ![q] = [op |-> "update", user |-> u, role |-> role, active |-> active]]
    /\ UNCHANGED <<hour, people, tokens, badges, roles, cache, barred, logins, changed, swept>>

ApplyUpdate(q) ==
    /\ request[q].op = "update"
    /\ LET r == request[q] IN
       Change(r.user, [people[r.user] EXCEPT !.role = r.role, !.active = r.active])
    /\ request' = [request EXCEPT ![q] = Idle]
    /\ UNCHANGED <<hour, tokens, badges, roles, cache, barred, logins, swept>>

(* suspend_tenant sets the flag, then revokes every refresh token. *)
Suspend(q) ==
    /\ "platform" \in Scope /\ request[q] = Idle /\ ~barred
    /\ barred' = TRUE
    /\ request' = [request EXCEPT ![q] = [op |-> "revoke"]]
    /\ UNCHANGED <<hour, people, tokens, badges, roles, cache, logins, changed, swept>>

RevokeAll(q) ==
    /\ request[q].op = "revoke"
    /\ tokens' = [t \in DOMAIN tokens |-> [tokens[t] EXCEPT !.revoked = TRUE]]
    /\ swept' = Len(tokens)
    /\ request' = [request EXCEPT ![q] = Idle]
    /\ UNCHANGED <<hour, people, badges, roles, cache, barred, logins, changed>>

Unsuspend ==
    /\ barred /\ barred' = FALSE
    /\ UNCHANGED <<hour, people, tokens, badges, roles, cache, request, logins, changed, swept>>

-----------------------------------------------------------------------------
(* Roles and the cache *)

(* resolve_permissions: an unknown role has none *)
Resolve(key) == IF key \in DOMAIN roles THEN roles[key] ELSE {}

(* PermissionCache::effective, on a miss: read, *)
StartLoad(q, b) ==
    /\ request[q] = Idle /\ b \in badges /\ b.role \notin DOMAIN cache
    /\ request' = [request EXCEPT ![q] = [op |-> "load", role |-> b.role, permissions |-> Resolve(b.role)]]
    /\ UNCHANGED <<hour, people, tokens, badges, roles, cache, barred, logins, changed, swept>>

(* then insert. *)
FinishLoad(q) ==
    /\ request[q].op = "load"
    /\ cache' = [k \in DOMAIN cache \cup {request[q].role} |->
                   IF k = request[q].role THEN request[q].permissions ELSE cache[k]]
    /\ request' = [request EXCEPT ![q] = Idle]
    /\ UNCHANGED <<hour, people, tokens, badges, roles, barred, logins, changed, swept>>

(* The handlers of roles.rs commit, then clear the whole cache.            *)
Clear(q) ==
    /\ request[q].op = "clear"
    /\ cache' = <<>>
    /\ request' = [request EXCEPT ![q] = Idle]
    /\ UNCHANGED <<hour, people, tokens, badges, roles, barred, logins, changed, swept>>

CreateRole(q, b, key, permissions) ==
    /\ request[q] = Idle /\ May(b, <<"Admin", "role", "create">>) /\ key \notin DOMAIN roles
    /\ roles' = [k \in DOMAIN roles \cup {key} |-> IF k = key THEN permissions ELSE roles[k]]
    /\ request' = [request EXCEPT ![q] = [op |-> "clear"]]
    /\ UNCHANGED <<hour, people, tokens, badges, cache, barred, logins, changed, swept>>

UpdateRole(q, b, key, permissions) ==
    /\ request[q] = Idle /\ May(b, <<"Admin", "role", "update">>) /\ key \in DOMAIN roles \ SystemRoles
    /\ roles' = [roles EXCEPT ![key] = permissions]
    /\ request' = [request EXCEPT ![q] = [op |-> "clear"]]
    /\ UNCHANGED <<hour, people, tokens, badges, cache, barred, logins, changed, swept>>

(* delete_custom_role: not while an active user holds it, *)
StartDelete(q, b, key) ==
    /\ request[q] = Idle /\ May(b, <<"Admin", "role", "delete">>) /\ key \in DOMAIN roles \ SystemRoles
    /\ \A u \in People : people[u].active => people[u].role # key
    /\ request' = [request EXCEPT ![q] = [op |-> "delete", role |-> key]]
    /\ UNCHANGED <<hour, people, tokens, badges, roles, cache, barred, logins, changed, swept>>

FinishDelete(q) ==
    /\ request[q].op = "delete"
    /\ roles' = [k \in DOMAIN roles \ {request[q].role} |-> roles[k]]
    /\ request' = [request EXCEPT ![q] = [op |-> "clear"]]
    /\ UNCHANGED <<hour, people, tokens, badges, cache, barred, logins, changed, swept>>

-----------------------------------------------------------------------------
Nobody == [exists |-> FALSE, role |-> "Viewer", active |-> FALSE, password |-> FALSE, link |-> 0]

Init ==
    /\ hour = 1 /\ people = [u \in People |-> Nobody]
    /\ tokens = <<>> /\ badges = {} /\ cache = <<>>
    /\ roles = [k \in SystemRoles |-> SeededPermissionsFor(k)]
    /\ request = [q \in Requests |-> Idle]
    /\ barred = FALSE /\ logins = 0 /\ swept = 0
    /\ changed = [u \in People |-> 0]

Next ==
    \/ HourPasses \/ Unsuspend
    \/ \E u \in People :
          \/ Register(u) \/ ForgotPassword(u) \/ SetPassword(u)
          \/ \E readonly \in BOOLEAN : Impersonate(u, readonly)
    \/ \E t \in DOMAIN tokens : Logout(t)
    \/ \E b \in badges, u \in People :
          \/ ResendInvite(b, u)
          \/ \E role \in Assigned, password \in BOOLEAN : Invite(b, u, role, password)
    \/ \E q \in Requests :
          \/ \E t \in DOMAIN tokens : StartRefresh(q, t)
          \/ \E u \in People : StartLogin(q, u)
          \/ FinishLogin(q) \/ Rotate(q) \/ ApplyUpdate(q) \/ Suspend(q) \/ RevokeAll(q)
          \/ FinishLoad(q) \/ Clear(q) \/ FinishDelete(q)
          \/ \E b \in badges :
                \/ StartLoad(q, b)
                \/ \E u \in People, role \in Assigned, active \in BOOLEAN :
                      StartUpdate(q, b, u, role, active)
                \/ \E key \in Custom :
                      \/ StartDelete(q, b, key)
                      \/ \E g \in Grants : CreateRole(q, b, key, g) \/ UpdateRole(q, b, key, g)

Spec == Init /\ [][Next]_vars

-----------------------------------------------------------------------------
(* Properties, of requests that do not overlap *)

Quiet == \A q \in Requests : request[q] = Idle

(* A tenant that has users keeps an active Owner, however tokens of        *)
(* accounts that were since demoted or deactivated are used (update).      *)
OwnerRemains == (\E u \in People : people[u].exists) => ActiveOwners # {}

(* An access token names a role its account does not have, or an account   *)
(* that is not active, only if that changed after the token was issued:    *)
(* a change reaches every session when its access token expires (refresh). *)
StaleUntilRefresh ==
    \A b \in badges :
       \/ changed[b.user] >= b.iat
       \/ b.role = SessionRole(people[b.user].role, b.readonly) /\ people[b.user].active

(* Renewing a session does not multiply it: there are never more good      *)
(* refresh tokens than sessions that were begun (refresh, logout).         *)
SessionsDoNotMultiply == Cardinality({t \in DOMAIN tokens : ~tokens[t].revoked}) =< logins

(* A session opened read-only stays so through every renewal, and acts as  *)
(* a Viewer (issue_impersonation_token_pair, refresh).                     *)
SupportStaysReadOnly ==
    /\ \A t \in DOMAIN tokens : tokens[t].readonly = tokens[t].meant
    /\ \A b \in badges : b.readonly => b.role = "Viewer"

(* Once a suspension is done, no session begun before it can be renewed,   *)
(* also not after the suspension is lifted (suspend_tenant).               *)
SuspensionEndsSessions == \A t \in DOMAIN tokens : t =< swept => tokens[t].revoked

(* Between requests, the cache says what the tables say, for every role    *)
(* that was created, edited or deleted meanwhile (roles.rs).               *)
CacheFresh == Quiet => \A k \in DOMAIN cache : cache[k] = Resolve(k)

(* No seeded role but Owner and Admin both approves and posts bills, and   *)
(* none but these manages users (role_grants, SYSTEM_ROLES).               *)
DutiesSeparate ==
    \A role \in SystemRoles \ {"Owner", "Admin"} :
       /\ ~({<<"Purchases", "bill", v>> : v \in {"approve", "post"}} \subseteq roles[role])
       /\ ManageUsers \notin roles[role]

=============================================================================
