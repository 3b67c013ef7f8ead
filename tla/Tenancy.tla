------------------------------- MODULE Tenancy ------------------------------
(***************************************************************************)
(* Tenants and who belongs to them: public sign-up with its rate limit,    *)
(* further tenants of a person, archiving, leaving, the sessions a person  *)
(* moves between tenants, and the operators of the platform.               *)
(*                                                                         *)
(* A person is an e-mail address with one row per tenant.  A request reads *)
(* the memberships and writes in a later statement.                        *)
(***************************************************************************)
EXTENDS Integers, FiniteSets, Sequences

CONSTANTS
    Persons, Tenants, Operators,
    Visits,         \* requests in progress at once
    SignupRateMax,  \* SIGNUP_RATE_MAX
    Mishaps,        \* whether Redis may be down
    MaxWindows      \* bound: windows of the rate limiter

VARIABLES
    tenants,        \* entity_settings: tenant -> "none", "open" or "archived"
    seats,          \* era_users: person -> tenant -> [role, active]
    place,          \* the tenant of a person's session
    operators,      \* platform_users: [role, active]
    visit,          \* what each request has read
    spent,          \* sign-ups recorded in this window
    window,         \* number of the window
    opened,         \* history: sign-ups completed in this window
    excused,        \* history: sign-ups the limiter did not see
    disturbed       \* history: persons whose workspace somebody else closed, or who left

vars == <<tenants, seats, place, operators, visit, spent, window, opened, excused, disturbed>>

NoSeat == [role |-> "none", active |-> FALSE]
Away == [op |-> "idle"]

-----------------------------------------------------------------------------
(* Provisioning *)

SeedPeriods(year, first) ==
    [n \in 1..12 |->
       LET month == ((first - 1 + n - 1) % 12) + 1
       IN  [number |-> n, year |-> IF month < first THEN year + 1 ELSE year, month |-> month]]

(* end_date: the day before the first of the next month *)
NextMonth(p) == IF p.month = 12 THEN <<p.year + 1, 1>> ELSE <<p.year, p.month + 1>>

(* provision_tenant_with_hash: settings, first Owner, accounts and periods *)
(* in one transaction                                                      *)
Provision(p, t) ==
    /\ tenants[t] = "none"
    /\ tenants' = [tenants EXCEPT ![t] = "open"]
    /\ seats' = [seats EXCEPT ![p][t] = [role |-> "Owner", active |-> TRUE]]
    /\ place' = [place EXCEPT ![p] = t]

WithinLimit == spent < SignupRateMax

(* signup reads the counter, or fails open *)
StartSignup(v, p, down) ==
    /\ visit[v] = Away
    /\ IF down THEN Mishaps ELSE WithinLimit
    /\ visit' = [visit EXCEPT ![v] =
                    [op |-> "signup", person |-> p, window |-> IF down THEN 0 ELSE window]]
    /\ UNCHANGED <<tenants, seats, place, operators, spent, window, opened, excused, disturbed>>

(* and provisions; *)
FinishSignup(v, t) ==
    /\ visit[v].op = "signup"
    /\ Provision(visit[v].person, t)
    /\ opened' = opened + 1
    /\ excused' = IF visit[v].window = window THEN excused ELSE excused + 1
    /\ visit' = [visit EXCEPT ![v] = [op |-> "record", window |-> window]]
    /\ UNCHANGED <<operators, spent, window, disturbed>>

(* only what succeeded is recorded, if Redis is up. *)
RecordSignup(v, down) ==
    /\ visit[v].op = "record" /\ (down => Mishaps)
    /\ spent' = IF down THEN spent ELSE spent + 1
    /\ excused' = IF down /\ visit[v].window = window THEN excused + 1 ELSE excused
    /\ visit' = [visit EXCEPT ![v] = Away]
    /\ UNCHANGED <<tenants, seats, place, operators, window, opened, disturbed>>

NextWindow ==
    /\ window < MaxWindows
    /\ window' = window + 1 /\ spent' = 0 /\ opened' = 0 /\ excused' = 0
    /\ UNCHANGED <<tenants, seats, place, operators, visit, disturbed>>

(* create_tenant: another tenant of somebody who is signed in *)
CreateTenant(p, t) ==
    /\ place[p] # "none"
    /\ Provision(p, t)
    /\ UNCHANGED <<operators, visit, spent, window, opened, excused, disturbed>>

(* An invitation that was accepted: see Access *)
Join(p, t, role) ==
    /\ tenants[t] = "open" /\ seats[p][t] = NoSeat
    /\ seats' = [seats EXCEPT ![p][t] = [role |-> role, active |-> TRUE]]
    /\ place' = [place EXCEPT ![p] = t]
    /\ UNCHANGED <<tenants, operators, visit, spent, window, opened, excused, disturbed>>

-----------------------------------------------------------------------------
(* Memberships *)

Memberships(p) == {t \in Tenants : seats[p][t].active}

(* switch_tenant: any membership whose tenant is not archived *)
Switch(p, t) ==
    /\ place[p] \notin {"none", t} /\ t \in Memberships(p) /\ tenants[t] = "open"
    /\ place' = [place EXCEPT ![p] = t]
    /\ UNCHANGED <<tenants, seats, operators, visit, spent, window, opened, excused, disturbed>>

OtherWorkspace(p) == Cardinality({t \in Memberships(p) : tenants[t] = "open"}) > 1

(* archive_tenant of an Owner, never of the caller's only one left *)
StartArchive(v, p, t) ==
    /\ visit[v] = Away /\ place[p] # "none"
    /\ t \in Memberships(p) /\ seats[p][t].role = "Owner" /\ tenants[t] = "open"
    /\ OtherWorkspace(p)
    /\ visit' = [visit EXCEPT ![v] = [op |-> "archive", person |-> p, tenant |-> t]]
    /\ UNCHANGED <<tenants, seats, place, operators, spent, window, opened, excused, disturbed>>

FinishArchive(v) ==
    /\ visit[v].op = "archive"
    /\ LET t == visit[v].tenant IN
       /\ tenants' = [tenants EXCEPT ![t] = "archived"]
       /\ disturbed' = disturbed \cup {q \in Persons \ {visit[v].person} : t \in Memberships(q)}
    /\ visit' = [visit EXCEPT ![v] = Away]
    /\ UNCHANGED <<seats, place, operators, spent, window, opened, excused>>

Unarchive(p, t) ==
    /\ place[p] # "none" /\ t \in Memberships(p) /\ seats[p][t].role = "Owner"
    /\ tenants[t] = "archived"
    /\ tenants' = [tenants EXCEPT ![t] = "open"]
    /\ UNCHANGED <<seats, place, operators, visit, spent, window, opened, excused, disturbed>>

ActiveOwners(t) == {p \in Persons : seats[p][t].active /\ seats[p][t].role = "Owner"}

(* Mutation: somebody else has to remain, not an Owner. *)
MayLeaveToAnyone(p, t) ==
    seats[p][t].role = "Owner" => Cardinality({q \in Persons : seats[q][t].active}) > 1

(* leave_tenant: never its only active Owner *)
MayLeave(p, t) == seats[p][t].role = "Owner" => Cardinality(ActiveOwners(t)) > 1

StartLeave(v, p, t) ==
    /\ visit[v] = Away /\ place[p] # "none" /\ t \in Memberships(p) /\ MayLeave(p, t)
    /\ visit' = [visit EXCEPT ![v] = [op |-> "leave", person |-> p, tenant |-> t]]
    /\ UNCHANGED <<tenants, seats, place, operators, spent, window, opened, excused, disturbed>>

FinishLeave(v) ==
    /\ visit[v].op = "leave"
    /\ seats' = [seats EXCEPT ![visit[v].person][visit[v].tenant].active = FALSE]
    /\ disturbed' = disturbed \cup {visit[v].person}
    /\ visit' = [visit EXCEPT ![v] = Away]
    /\ UNCHANGED <<tenants, place, operators, spent, window, opened, excused>>

-----------------------------------------------------------------------------
(* The platform *)

Admins == {o \in Operators : operators[o].active /\ operators[o].role = "PlatformSuperAdmin"}

(* bootstrap_from_env, at the start of the API *)
Bootstrap(o) ==
    /\ \A q \in Operators : operators[q].role = "none"
    /\ operators' = [operators EXCEPT ![o] = [role |-> "PlatformSuperAdmin", active |-> TRUE]]
    /\ UNCHANGED <<tenants, seats, place, visit, spent, window, opened, excused, disturbed>>

(* create_operator, by a super admin *)
CreateOperator(actor, o, role) ==
    /\ actor \in Admins /\ operators[o].role = "none"
    /\ operators' = [operators EXCEPT ![o] = [role |-> role, active |-> TRUE]]
    /\ UNCHANGED <<tenants, seats, place, visit, spent, window, opened, excused, disturbed>>

MayDeactivate(actor, o) ==
    /\ o # actor
    /\ operators[o].role = "PlatformSuperAdmin" => Cardinality(Admins) > 1

(* set_operator_active.  The actor's token outlives his own deactivation,  *)
(* so he need not be active himself.                                       *)
StartDeactivate(v, actor, o) ==
    /\ visit[v] = Away /\ operators[actor].role = "PlatformSuperAdmin" /\ operators[o].active
    /\ MayDeactivate(actor, o)
    /\ visit' = [visit EXCEPT ![v] = [op |-> "deactivate", operator |-> o]]
    /\ UNCHANGED <<tenants, seats, place, operators, spent, window, opened, excused, disturbed>>

FinishDeactivate(v) ==
    /\ visit[v].op = "deactivate"
    /\ operators' = [operators EXCEPT ![visit[v].operator].active = FALSE]
    /\ visit' = [visit EXCEPT ![v] = Away]
    /\ UNCHANGED <<tenants, seats, place, spent, window, opened, excused, disturbed>>

Reactivate(actor, o) ==
    /\ actor \in Admins /\ operators[o].role # "none" /\ ~operators[o].active
    /\ operators' = [operators EXCEPT ![o].active = TRUE]
    /\ UNCHANGED <<tenants, seats, place, visit, spent, window, opened, excused, disturbed>>

(* The platform archives in its directory and in entity_settings. *)
PlatformArchive(t) ==
    /\ Admins # {} /\ tenants[t] = "open"
    /\ tenants' = [tenants EXCEPT ![t] = "archived"]
    /\ disturbed' = disturbed \cup {q \in Persons : t \in Memberships(q)}
    /\ UNCHANGED <<seats, place, operators, visit, spent, window, opened, excused>>

PlatformUnarchive(t) ==
    /\ Admins # {} /\ tenants[t] = "archived"
    /\ tenants' = [tenants EXCEPT ![t] = "open"]
    /\ UNCHANGED <<seats, place, operators, visit, spent, window, opened, excused, disturbed>>

-----------------------------------------------------------------------------
Init ==
    /\ tenants = [t \in Tenants |-> "none"]
    /\ seats = [p \in Persons |-> [t \in Tenants |-> NoSeat]]
    /\ place = [p \in Persons |-> "none"]
    /\ operators = [o \in Operators |-> NoSeat]
    /\ visit = [v \in Visits |-> Away]
    /\ spent = 0 /\ window = 1 /\ opened = 0 /\ excused = 0 /\ disturbed = {}

Next ==
    \/ NextWindow
    \/ \E v \in Visits :
          \/ \E p \in Persons, down \in BOOLEAN : StartSignup(v, p, down)
          \/ \E t \in Tenants : FinishSignup(v, t)
          \/ \E down \in BOOLEAN : RecordSignup(v, down)
          \/ \E p \in Persons, t \in Tenants : StartArchive(v, p, t) \/ StartLeave(v, p, t)
          \/ FinishArchive(v) \/ FinishLeave(v) \/ FinishDeactivate(v)
          \/ \E actor, o \in Operators : StartDeactivate(v, actor, o)
    \/ \E p \in Persons, t \in Tenants :
          \/ CreateTenant(p, t) \/ Switch(p, t) \/ Unarchive(p, t)
          \/ \E role \in {"Owner", "Viewer"} : Join(p, t, role)
    \/ \E o \in Operators : Bootstrap(o)
    \/ \E actor, o \in Operators :
          \/ Reactivate(actor, o)
          \/ \E role \in {"PlatformSuperAdmin", "PlatformSupport"} : CreateOperator(actor, o, role)
    \/ \E t \in Tenants : PlatformArchive(t) \/ PlatformUnarchive(t)

Spec == Init /\ [][Next]_vars

-----------------------------------------------------------------------------
(* Properties, of requests that do not overlap *)

(* Every tenant keeps an active Owner, whoever joins and leaves.           *)
TenantOwned == \A t \in Tenants : tenants[t] # "none" => ActiveOwners(t) # {}

(* Whoever archives tenants keeps one to work in, unless somebody else     *)
(* closed theirs or they left (archive_tenant).                            *)
KeepsWorkspace ==
    \A p \in Persons \ disturbed :
       Memberships(p) # {} => \E t \in Memberships(p) : tenants[t] = "open"

(* No more sign-ups than SIGNUP_RATE_MAX complete in a window, except the  *)
(* ones the limiter did not see, because Redis was down or the window had  *)
(* turned since it was read (signup_rate_exceeded, record_signup).         *)
SignupsLimited ==
    opened =< SignupRateMax + excused

(* The platform keeps an active super admin (set_operator_active).         *)
AdminRemains == (\E o \in Operators : operators[o].role # "none") => Admins # {}

(* The periods of a new tenant follow each other month by month through    *)
(* one fiscal year, whatever month that begins in (seed_periods_in_tx).    *)
PeriodsTile ==
    \A first \in 1..12 :
       LET ps == SeedPeriods(2024, first) IN
       /\ ps[1].year = 2024 /\ ps[1].month = first
       /\ \A n \in 1..11 : NextMonth(ps[n]) = <<ps[n + 1].year, ps[n + 1].month>>

=============================================================================
