------------------------------- MODULE Billing ------------------------------
(***************************************************************************)
(* The subscription of one tenant: checkout at the payment gateway, its    *)
(* webhook, cancellation, the hourly renewals, and the mirror of plan and  *)
(* status in the platform's directory of tenants, which operators also     *)
(* edit and suspend.  The gateway is external: it may deliver a webhook    *)
(* again, refuse a charge, or make one whose answer is lost.               *)
(***************************************************************************)
EXTENDS Integers, Sequences

CONSTANTS
    Prices,         \* plan -> monthly price
    PeriodDays,     \* what a payment buys
    Reusable,       \* whether the gateway gives a reusable authorization
    LastDay,        \* bound: days
    MaxClaims,      \* bound: checkouts
    MaxFaults       \* bound: webhooks repeated, answers lost, stops

VARIABLES
    date,           \* the day
    sub,            \* entity_settings.subscription
    directory,      \* tenants: [row, plan, status, suspended]; listed: history
    claims,         \* paystack_transactions: [plan, paid]
    clerk,          \* the request that has merged and not yet mirrored
    biller,         \* the renewal in progress
    wish,           \* history: the last thing the owner asked for
    charged,        \* history: charges the gateway made
    granted,        \* history: periods granted
    crossed,        \* history: a request and a renewal overlapped
    edited,         \* history: an operator set the directory since the last mirror
    faults          \* history: [repeats, lost, stops]

vars == <<date, sub, directory, claims, clerk, biller, wish, charged, granted, crossed, edited, faults>>

None == "none"
Resting == [op |-> "idle"]

Faults == faults.repeats + faults.lost + faults.stops

(* map_subscription_status *)
MapSubscriptionStatus(status) ==
    CASE status = "trialing" -> "trial"
      [] status = "past_due" -> "past_due"
      [] OTHER -> "active"

(* merge_subscription: the patch is merged, the mirror follows apart *)
Merged(patch) == [k \in DOMAIN sub |-> IF k \in DOMAIN patch THEN patch[k] ELSE sub[k]]

(* ensure_tenant_row: the row, made from the settings if it is missing *)
Ensured == IF directory.row THEN directory ELSE [directory EXCEPT !.row = TRUE, !.plan = sub.plan]

(* sync_tenant_billing *)
Mirrored(plan, status) ==
    [Ensured EXCEPT
       !.plan = IF plan = None THEN @ ELSE plan,
       !.status = IF directory.suspended THEN "suspended"
                  ELSE IF status # None THEN MapSubscriptionStatus(status) ELSE @,
       !.listed = FALSE]

Busy == biller # Resting

(* A request merges now and mirrors later. *)
Request(patch, plan, status) ==
    /\ clerk = Resting
    /\ sub' = Merged(patch)
    /\ clerk' = [op |-> "mirror", plan |-> plan, status |-> status]
    /\ crossed' = (crossed \/ Busy)

Mirror ==
    /\ clerk.op = "mirror"
    /\ directory' = Mirrored(clerk.plan, clerk.status)
    /\ clerk' = Resting /\ edited' = FALSE
    /\ UNCHANGED <<date, sub, claims, biller, wish, charged, granted, crossed, faults>>

-----------------------------------------------------------------------------
(* Requests and webhooks *)

MonthlyPrice(plan) == Prices[plan]

(* start_checkout: the status is trialing until the charge settles, and    *)
(* the end of a period already paid for is cleared.                        *)
StartCheckout(plan) ==
    /\ Request([plan |-> plan, status |-> "trialing", end |-> 0], plan, "trialing")
    /\ IF MonthlyPrice(plan) = 0 THEN claims' = claims
       ELSE Len(claims) < MaxClaims /\ claims' = Append(claims, [plan |-> plan, paid |-> FALSE])
    /\ wish' = "pay"
    /\ UNCHANGED <<date, directory, biller, charged, granted, edited, faults>>

Activation(plan) ==
    LET patch == [plan |-> plan, status |-> "active", end |-> date + PeriodDays, attempts |-> 0] IN
    IF Reusable THEN [code |-> TRUE, plan |-> plan, status |-> "active", end |-> patch.end, attempts |-> 0]
    ELSE patch

(* activate_from_charge, whether or not the claim was paid before; the     *)
(* claim's status is set last, and nothing reads it                        *)
ActivateFromCharge(c) ==
    /\ claims[c].paid => Faults < MaxFaults
    /\ Request(Activation(claims[c].plan), claims[c].plan, "active")
    /\ claims' = [claims EXCEPT ![c].paid = TRUE]
    /\ faults' = IF claims[c].paid THEN [faults EXCEPT !.repeats = @ + 1] ELSE faults
    /\ charged' = IF claims[c].paid THEN charged ELSE charged + 1
    /\ granted' = granted + 1
    /\ wish' = IF claims[c].paid THEN wish ELSE "pay"
    /\ UNCHANGED <<date, directory, biller, edited>>

Cancel ==
    /\ Request([status |-> "cancelled"], None, "cancelled")
    /\ wish' = "cancel"
    /\ UNCHANGED <<date, directory, claims, biller, charged, granted, edited, faults>>

-----------------------------------------------------------------------------
(* process_renewals, hourly *)

Due == sub.status = "active" /\ sub.end # 0 /\ sub.end < date

StartRenewal ==
    /\ biller = Resting /\ Due /\ MonthlyPrice(sub.plan) > 0
    /\ biller' = [op |-> IF sub.code THEN "charge" ELSE "failed", attempts |-> sub.attempts]
    /\ crossed' = (crossed \/ clerk # Resting)
    /\ UNCHANGED <<date, sub, directory, claims, clerk, wish, charged, granted, edited, faults>>

(* charge_authorization: made, refused, or made and the answer lost *)
ChargeAuthorization(outcome) ==
    /\ biller.op = "charge"
    /\ outcome = "lost" => Faults < MaxFaults
    /\ biller' = [biller EXCEPT !.op = IF outcome = "made" THEN "renew" ELSE "failed"]
    /\ charged' = IF outcome = "refused" THEN charged ELSE charged + 1
    /\ faults' = IF outcome = "lost" THEN [faults EXCEPT !.lost = @ + 1] ELSE faults
    /\ UNCHANGED <<date, sub, directory, claims, clerk, wish, granted, crossed, edited>>

(* Mutation: the next renewal counts from the end of the last period. *)
RenewFromEnd ==
    /\ biller.op = "renew"
    /\ sub' = Merged([attempts |-> 0])
    /\ biller' = Resting
    /\ UNCHANGED <<date, directory, claims, clerk, wish, charged, granted, crossed, edited, faults>>

Renew ==
    /\ biller.op = "renew"
    /\ sub' = Merged([end |-> date + PeriodDays, attempts |-> 0])
    /\ granted' = granted + 1
    /\ biller' = Resting
    /\ UNCHANGED <<date, directory, claims, clerk, wish, charged, crossed, edited, faults>>

NextStatus(attempts) == IF attempts >= 3 THEN "past_due" ELSE "active"

(* The status is set, also where nothing but the count has changed.        *)
RecordFailure ==
    /\ biller.op = "failed"
    /\ LET n == biller.attempts + 1 IN
       /\ sub' = Merged([status |-> NextStatus(n), attempts |-> n])
       /\ biller' = [op |-> "mirror", status |-> NextStatus(n)]
    /\ UNCHANGED <<date, directory, claims, clerk, wish, charged, granted, crossed, edited, faults>>

MirrorFailure ==
    /\ biller.op = "mirror"
    /\ directory' = Mirrored(None, biller.status)
    /\ biller' = Resting /\ edited' = FALSE
    /\ UNCHANGED <<date, sub, claims, clerk, wish, charged, granted, crossed, faults>>

(* The process stops between the charge and what it records, or before a   *)
(* mirror.                                                                 *)
Stop ==
    /\ Busy \/ clerk # Resting
    /\ Faults < MaxFaults
    /\ biller' = Resting /\ clerk' = Resting
    /\ faults' = [faults EXCEPT !.stops = @ + 1]
    /\ edited' = TRUE
    /\ UNCHANGED <<date, sub, directory, claims, wish, charged, granted, crossed>>

-----------------------------------------------------------------------------
(* The platform's operators, and the start of the API *)

Suspend ==
    /\ directory' = [Ensured EXCEPT !.suspended = TRUE, !.status = "suspended", !.listed = FALSE]
    /\ UNCHANGED <<date, sub, claims, clerk, biller, wish, charged, granted, crossed, edited, faults>>

Unsuspend ==
    /\ directory' = [Ensured EXCEPT !.suspended = FALSE, !.listed = FALSE,
                                    !.status = IF @ = "suspended" THEN "active" ELSE @]
    /\ edited' = TRUE
    /\ UNCHANGED <<date, sub, claims, clerk, biller, wish, charged, granted, crossed, faults>>

UpdateTenantPlan(status) ==
    /\ ~directory.suspended
    /\ directory' = [Ensured EXCEPT !.status = status, !.listed = FALSE]
    /\ edited' = TRUE
    /\ UNCHANGED <<date, sub, claims, clerk, biller, wish, charged, granted, crossed, faults>>

(* list_tenants makes a missing row, for an archived tenant one that says  *)
(* suspended although nobody suspended it                                  *)
ListTenants(archived) ==
    /\ ~directory.row
    /\ directory' = [Ensured EXCEPT !.status = IF archived THEN "suspended" ELSE "active", !.listed = archived]
    /\ edited' = TRUE
    /\ UNCHANGED <<date, sub, claims, clerk, biller, wish, charged, granted, crossed, faults>>

(* backfill_tenant_billing_from_settings, of the rows there are *)
Backfill ==
    /\ directory.row
    /\ directory' = [directory EXCEPT
         !.listed = FALSE,
         !.plan = IF sub.plan = None THEN @ ELSE sub.plan,
         !.status = IF directory.suspended THEN "suspended"
                    ELSE CASE sub.status = "trialing" -> "trial"
                           [] sub.status = "past_due" -> "past_due"
                           [] OTHER -> "active"]
    /\ edited' = FALSE
    /\ UNCHANGED <<date, sub, claims, clerk, biller, wish, charged, granted, crossed, faults>>

DayPasses ==
    /\ date < LastDay
    /\ date' = date + 1
    /\ UNCHANGED <<sub, directory, claims, clerk, biller, wish, charged, granted, crossed, edited, faults>>

-----------------------------------------------------------------------------
Init ==
    /\ date = 1 /\ claims = <<>>
    /\ sub = [plan |-> None, status |-> None, end |-> 0, code |-> FALSE, attempts |-> 0]
    /\ \E made \in BOOLEAN :     \* upsert_tenant, whose failure the sign-up ignores
         directory = [row |-> made, plan |-> None, status |-> "active", suspended |-> FALSE, listed |-> FALSE]
    /\ clerk = Resting /\ biller = Resting
    /\ wish = None /\ charged = 0 /\ granted = 0
    /\ crossed = FALSE /\ edited = FALSE
    /\ faults = [repeats |-> 0, lost |-> 0, stops |-> 0]

Next ==
    \/ Mirror \/ Cancel \/ DayPasses
    \/ \E plan \in DOMAIN Prices : StartCheckout(plan)
    \/ \E c \in DOMAIN claims : ActivateFromCharge(c)
    \/ StartRenewal \/ Renew \/ RecordFailure \/ MirrorFailure \/ Stop
    \/ \E outcome \in {"made", "refused", "lost"} : ChargeAuthorization(outcome)
    \/ Suspend \/ Unsuspend \/ Backfill
    \/ \E status \in {"active", "trial", "past_due"} : UpdateTenantPlan(status)
    \/ \E archived \in BOOLEAN : ListTenants(archived)

Spec == Init /\ [][Next]_vars

-----------------------------------------------------------------------------
(* Properties *)

Quiet == clerk = Resting /\ biller = Resting

(* Cancelling sticks, unless a renewal was under way or the gateway        *)
(* delivers an old charge again: what the handler of cancel promises is    *)
(* that renewal stops (process_renewals, activate_from_charge).            *)
CancelSticks ==
    wish = "cancel" /\ ~crossed /\ faults.repeats = 0 => sub.status = "cancelled"

(* The gateway charges no more than the periods that were granted, but for *)
(* a charge in flight, an answer that was lost or a stop before the merge. *)
ChargedOncePerPeriod ==
    charged =< granted + faults.lost + faults.stops + (IF biller.op = "renew" THEN 1 ELSE 0)

(* A subscription that renewals still look at has fewer than three failed  *)
(* attempts behind it: the third makes it past_due, and a new payment      *)
(* starts the count again.                                                 *)
AttemptsLeft == sub.status = "active" => sub.attempts < 3

(* However billing, backfill, operators and the listing take turns, the    *)
(* directory says suspended exactly while the tenant is, or since its row  *)
(* was made for an archived tenant: is_tenant_suspended reads either.      *)
SuspensionConsistent == directory.status = "suspended" <=> directory.suspended \/ directory.listed

(* Between requests, the directory shows the status of the subscription,   *)
(* unless the status was set, or the row made, since (sync_tenant_billing).*)
DirectoryFollows ==
    Quiet /\ ~crossed /\ ~edited /\ ~directory.suspended =>
       directory.status = MapSubscriptionStatus(sub.status)

=============================================================================
