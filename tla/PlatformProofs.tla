--------------------------- MODULE PlatformProofs ---------------------------
(***************************************************************************)
(* The services of the platform: the subscription of a tenant and its      *)
(* mirror in the directory (Billing), sign-up, members and workspaces       *)
(* (Tenancy), accounts, sessions and permissions (Access) and messages     *)
(* (Notifications), for every value of their parameters.                   *)
(***************************************************************************)
EXTENDS Integers, Sequences, FiniteSets, FiniteSetTheorems, TLAPS

(* Billing: parameters and state *)
CONSTANTS Prices, PeriodDays, Reusable, LastBilled, MaxClaims, MaxFaults
VARIABLES date, sub, directory, claims, clerk, biller, wish, charged, granted, crossed,
          edited, faults

(* Tenancy: parameters and state *)
CONSTANTS Persons, Tenants, Operators, Visits, SignupRateMax, Mishaps, MaxWindows
VARIABLES tenants, seats, place, operators, visit, spent, window, opened, excused, disturbed

(* Access: parameters and state *)
CONSTANTS People, Custom, Grants, Assigned, Requests, Scope, AccessTtl, RefreshTtl,
          InviteTtl, ResetTtl, LastHour, MaxTokens
VARIABLES hour, people, tokens, badges, roles, cache, request, barred, logins, changed,
          swept

(* Notifications: parameters and state *)
CONSTANTS Emitted, External, Edits, Editors, Deployed, BatchSize, MAX_RETRIES, Bills, InvoiceTotal,
          DueDay, Offsets, RuleChannels, Payers, LastDay, MaxLetters, MaxOutages
VARIABLES letters, cursor, acked, courier, notices, carriers, editing, wishes, dues, payer, ticker,
          calendar, skipped, outages

B == INSTANCE Billing WITH LastDay <- LastBilled
T == INSTANCE Tenancy
A == INSTANCE Access
N == INSTANCE Notifications

-----------------------------------------------------------------------------
(* Billing: the subscription and its mirror in the directory agree for     *)
(* every list of prices, length of period and number of claims and faults. *)

Columns == {"plan", "status", "end", "code", "attempts"}
Fields == {"row", "plan", "status", "suspended", "listed"}

(* The shapes of the row, of the directory and of the work in progress. *)
RowsOK ==
    /\ DOMAIN sub = Columns /\ sub.attempts \in Nat
    /\ DOMAIN directory = Fields /\ directory.suspended \in BOOLEAN /\ directory.listed \in BOOLEAN
    /\ ~directory.row => ~directory.suspended
    /\ faults \in [repeats: Nat, lost: Nat, stops: Nat]
    /\ charged \in Nat /\ granted \in Nat
    /\ crossed \in BOOLEAN /\ edited \in BOOLEAN

WorkOK ==
    /\ \/ clerk = B!Resting
       \/ clerk.op = "mirror" /\ clerk.status \in {"trialing", "active", "cancelled"}
    /\ \/ biller = B!Resting
       \/ biller \in [op: {"charge", "failed", "renew"}, attempts: Nat]
       \/ biller \in [op: {"mirror"}, status: {"active", "past_due"}]

(* What a request and a renewal leave to each other: unless they overlap,  *)
(* one of them rests, the status a mirror carries is the row's, and a      *)
(* renewal works on a row that is active.                                  *)
InStep ==
    ~crossed =>
       /\ clerk = B!Resting \/ biller = B!Resting
       /\ clerk # B!Resting => clerk.status = sub.status
       /\ biller # B!Resting => sub.status = IF biller.op = "mirror" THEN biller.status ELSE "active"

(* The directory shows the status of the row while no mirror is due. *)
Shown ==
    ~crossed /\ clerk = B!Resting /\ biller.op # "mirror" /\ ~edited /\ ~directory.suspended =>
       directory.status = B!MapSubscriptionStatus(sub.status)

BillingInv == /\ RowsOK /\ WorkOK /\ InStep /\ Shown
              /\ B!CancelSticks /\ B!ChargedOncePerPeriod /\ B!AttemptsLeft /\ B!SuspensionConsistent

(* No request is being served when the platform rests. *)
LEMMA RestingOp == B!Resting.op = "idle"
  BY DEF B!Resting

(* Merging keeps the columns and sets the ones the patch has. *)
LEMMA MergeStatus ==
  ASSUME RowsOK, NEW patch, DOMAIN patch \subseteq Columns
  PROVE  /\ DOMAIN B!Merged(patch) = Columns
         /\ \A k \in Columns : B!Merged(patch)[k] = IF k \in DOMAIN patch THEN patch[k] ELSE sub[k]
  BY DEF RowsOK, B!Merged

(* A trial has been charged nothing and owes nothing yet. *)
LEMMA BillingStart ==
  ASSUME B!Init PROVE BillingInv
<1> USE DEF B!Init
<1>0. PICK made \in BOOLEAN :
        directory = [row |-> made, plan |-> B!None, status |-> "active", suspended |-> FALSE, listed |-> FALSE]
  OBVIOUS
<1>1. RowsOK
  BY <1>0 DEF RowsOK, Columns, Fields
<1>2. WorkOK
  BY DEF WorkOK
<1>3. InStep /\ B!CancelSticks /\ B!AttemptsLeft /\ B!SuspensionConsistent /\ Shown
  BY <1>0 DEF InStep, B!CancelSticks, B!AttemptsLeft, B!SuspensionConsistent, Shown, B!None,
     B!MapSubscriptionStatus
<1>4. B!ChargedOncePerPeriod
  BY DEF B!ChargedOncePerPeriod, B!Resting
<1> QED BY <1>1, <1>2, <1>3, <1>4 DEF BillingInv

(* A request, whichever it is: it sets the status its mirror will carry,   *)
(* and keeps the failures unless it activates.                             *)
LEMMA RequestKeeps ==
  ASSUME BillingInv, NEW patch, NEW plan, NEW status,
         B!Request(patch, plan, status),
         DOMAIN patch \subseteq Columns, "status" \in DOMAIN patch, patch.status = status,
         status \in {"trialing", "active", "cancelled"},
         "attempts" \in DOMAIN patch => patch.attempts = 0,
         status = "active" => "attempts" \in DOMAIN patch,
         UNCHANGED <<directory, biller, edited>>,
         faults' \in [repeats: Nat, lost: Nat, stops: Nat],
         charged' \in Nat, granted' \in Nat,
         charged' - granted' - faults'.lost - faults'.stops =< charged - granted - faults.lost - faults.stops,
         wish' = "cancel" /\ ~crossed' /\ faults'.repeats = 0 => status = "cancelled"
  PROVE  BillingInv'
<1> USE DEF BillingInv
<1>1. /\ DOMAIN sub' = Columns /\ sub'.status = status
      /\ sub'.attempts = IF "attempts" \in DOMAIN patch THEN 0 ELSE sub.attempts
  BY MergeStatus DEF B!Request, Columns
<1>2. /\ clerk = B!Resting /\ clerk' = [op |-> "mirror", plan |-> plan, status |-> status]
      /\ clerk' # B!Resting /\ crossed' = (crossed \/ biller # B!Resting)
  BY RestingOp DEF B!Request, B!Busy
<1>3. RowsOK'
  BY <1>1, <1>2 DEF RowsOK
<1>4. WorkOK'
  BY <1>2 DEF WorkOK
<1>5. InStep'
  BY <1>1, <1>2 DEF InStep
<1>6. Shown'
  BY <1>2 DEF Shown
<1>7. B!CancelSticks'
  BY <1>1 DEF B!CancelSticks
<1>8. B!ChargedOncePerPeriod'
  <2>1. faults \in [repeats: Nat, lost: Nat, stops: Nat] /\ charged \in Nat /\ granted \in Nat
    BY DEF RowsOK
  <2> QED BY <2>1 DEF B!ChargedOncePerPeriod
<1>9. B!AttemptsLeft'
  BY <1>1 DEF B!AttemptsLeft
<1>10. B!SuspensionConsistent'
  BY DEF B!SuspensionConsistent
<1> QED BY <1>3, <1>4, <1>5, <1>6, <1>7, <1>8, <1>9, <1>10

(* A checkout writes a trial of its plan and remembers that the customer *)
(* means to pay.                                                         *)
LEMMA CheckoutKeeps ==
  ASSUME BillingInv, NEW plan, B!StartCheckout(plan) PROVE BillingInv'
<1> DEFINE patch == [plan |-> plan, status |-> "trialing", end |-> 0]
<1>1. /\ DOMAIN patch \subseteq Columns /\ "status" \in DOMAIN patch /\ patch.status = "trialing"
      /\ "attempts" \notin DOMAIN patch
  BY DEF Columns
<1>2. faults \in [repeats: Nat, lost: Nat, stops: Nat] /\ charged \in Nat /\ granted \in Nat
  BY DEF BillingInv, RowsOK
<1>3. B!Request(patch, plan, "trialing")
  BY DEF B!StartCheckout
<1> HIDE DEF patch
<1> QED BY <1>1, <1>2, <1>3, RequestKeeps DEF B!StartCheckout

(* A cancellation is written with what the customer wants. *)
LEMMA CancelKeeps ==
  ASSUME BillingInv, B!Cancel PROVE BillingInv'
<1> DEFINE patch == [status |-> "cancelled"]
<1>1. /\ DOMAIN patch \subseteq Columns /\ "status" \in DOMAIN patch /\ patch.status = "cancelled"
      /\ "attempts" \notin DOMAIN patch
  BY DEF Columns
<1>2. faults \in [repeats: Nat, lost: Nat, stops: Nat] /\ charged \in Nat /\ granted \in Nat
  BY DEF BillingInv, RowsOK
<1>3. B!Request(patch, B!None, "cancelled")
  BY DEF B!Cancel
<1> HIDE DEF patch
<1> QED BY <1>1, <1>2, <1>3, RequestKeeps DEF B!Cancel

(* A charge that was not seen before is paid for; one that was, is a       *)
(* repeat.                                                                 *)
LEMMA ActivateKeeps ==
  ASSUME BillingInv, NEW c, B!ActivateFromCharge(c) PROVE BillingInv'
<1> DEFINE patch == B!Activation(claims[c].plan)
<1>1. /\ DOMAIN patch \subseteq Columns /\ "status" \in DOMAIN patch /\ patch.status = "active"
      /\ "attempts" \in DOMAIN patch /\ patch.attempts = 0
  <2>1. CASE Reusable
    BY <2>1 DEF Columns, B!Activation
  <2>2. CASE ~Reusable
    BY <2>2 DEF Columns, B!Activation
  <2> QED BY <2>1, <2>2
<1>2. faults \in [repeats: Nat, lost: Nat, stops: Nat] /\ charged \in Nat /\ granted \in Nat
  BY DEF BillingInv, RowsOK
<1>3. B!Request(patch, claims[c].plan, "active") /\ UNCHANGED <<directory, biller, edited>>
  BY DEF B!ActivateFromCharge
<1>4. /\ faults' \in [repeats: Nat, lost: Nat, stops: Nat] /\ charged' \in Nat /\ granted' \in Nat
      /\ faults'.lost = faults.lost /\ faults'.stops = faults.stops
      /\ granted' = granted + 1 /\ charged' =< charged + 1
      /\ claims[c].paid => faults'.repeats = faults.repeats + 1
      /\ ~claims[c].paid => wish' = "pay"
  BY <1>2 DEF B!ActivateFromCharge
<1>5. /\ charged' - granted' - faults'.lost - faults'.stops =< charged - granted - faults.lost - faults.stops
      /\ ~(wish' = "cancel" /\ ~crossed' /\ faults'.repeats = 0)
  BY <1>2, <1>4
<1> HIDE DEF patch
<1> QED BY <1>1, <1>3, <1>4, <1>5, RequestKeeps

(* A row made where there was none says what a missing row is taken for. *)
LEMMA EnsuredSame ==
  ASSUME RowsOK
  PROVE  /\ DOMAIN B!Ensured = Fields /\ B!Ensured.row
         /\ B!Ensured.status = directory.status
         /\ B!Ensured.suspended = directory.suspended
         /\ B!Ensured.listed = directory.listed
  BY DEF RowsOK, B!Ensured, Fields

(* What is written in the directory keeps it consistent. *)
LEMMA MirrorConsistent ==
  ASSUME RowsOK, NEW plan, NEW status, status # B!None
  PROVE  /\ DOMAIN B!Mirrored(plan, status) = Fields
         /\ B!Mirrored(plan, status).row
         /\ B!Mirrored(plan, status).suspended = directory.suspended
         /\ B!Mirrored(plan, status).listed = FALSE
         /\ directory.suspended <=> B!Mirrored(plan, status).status = "suspended"
         /\ ~directory.suspended => B!Mirrored(plan, status).status = B!MapSubscriptionStatus(status)
<1> DEFINE d == B!Mirrored(plan, status)
           m == B!MapSubscriptionStatus(status)
           s == IF directory.suspended THEN "suspended" ELSE m
<1>1. m # "suspended"
  BY DEF B!MapSubscriptionStatus
<1> HIDE DEF m
<1>2. /\ directory.suspended => s = "suspended"
      /\ ~directory.suspended => s = m
  OBVIOUS
<1>3. /\ DOMAIN d = Fields /\ d.row /\ d.suspended = directory.suspended /\ d.listed = FALSE
      /\ d.status = s
  BY EnsuredSame DEF B!Mirrored, Fields, m
<1> HIDE DEF s, d
<1>4. directory.suspended <=> d.status = "suspended"
  BY <1>1, <1>2, <1>3 DEF RowsOK
<1>5. ~directory.suspended => d.status = m
  BY <1>2, <1>3
<1> QED BY <1>3, <1>4, <1>5 DEF m, d

(* The directory is given what the tenant row says. *)
LEMMA MirrorKeeps ==
  ASSUME BillingInv, B!Mirror PROVE BillingInv'
<1> USE DEF BillingInv, B!Mirror
<1>1. /\ clerk # B!Resting /\ clerk' = B!Resting /\ ~edited'
      /\ clerk.status \in {"trialing", "active", "cancelled"}
  BY RestingOp DEF WorkOK
<1>a. directory' = B!Mirrored(clerk.plan, clerk.status)
  OBVIOUS
<1>b. clerk.status # B!None
  BY <1>1 DEF B!None
<1>c. /\ DOMAIN B!Mirrored(clerk.plan, clerk.status) = Fields /\ B!Mirrored(clerk.plan, clerk.status).row
      /\ B!Mirrored(clerk.plan, clerk.status).suspended = directory.suspended
      /\ B!Mirrored(clerk.plan, clerk.status).listed = FALSE
      /\ directory.suspended <=> B!Mirrored(clerk.plan, clerk.status).status = "suspended"
      /\ ~directory.suspended => B!Mirrored(clerk.plan, clerk.status).status = B!MapSubscriptionStatus(clerk.status)
  BY <1>b, MirrorConsistent
<1>2. /\ DOMAIN directory' = Fields /\ directory'.row
      /\ directory'.suspended = directory.suspended /\ directory'.listed = FALSE
      /\ directory.suspended <=> directory'.status = "suspended"
      /\ ~directory.suspended => directory'.status = B!MapSubscriptionStatus(clerk.status)
  BY <1>a, <1>c
<1>3. WorkOK' /\ InStep' /\ B!CancelSticks' /\ B!ChargedOncePerPeriod' /\ B!AttemptsLeft'
  BY <1>1 DEF WorkOK, InStep, B!CancelSticks, B!ChargedOncePerPeriod, B!AttemptsLeft
<1>4. RowsOK' /\ B!SuspensionConsistent'
  BY <1>2 DEF RowsOK, B!SuspensionConsistent
<1>5. Shown'
  BY <1>1, <1>2 DEF InStep, Shown
<1> QED BY <1>3, <1>4, <1>5

(* A directory that was not reached is remembered as behind. *)
LEMMA MirrorFailureKeeps ==
  ASSUME BillingInv, B!MirrorFailure PROVE BillingInv'
<1> USE DEF BillingInv, B!MirrorFailure
<1>1. /\ biller # B!Resting /\ biller' = B!Resting /\ ~edited' /\ biller.op # "renew"
      /\ biller.status \in {"active", "past_due"}
  BY RestingOp DEF WorkOK
<1>a. directory' = B!Mirrored(B!None, biller.status)
  OBVIOUS
<1>b. biller.status # B!None
  BY <1>1 DEF B!None
<1>c. /\ DOMAIN B!Mirrored(B!None, biller.status) = Fields /\ B!Mirrored(B!None, biller.status).row
      /\ B!Mirrored(B!None, biller.status).suspended = directory.suspended
      /\ B!Mirrored(B!None, biller.status).listed = FALSE
      /\ directory.suspended <=> B!Mirrored(B!None, biller.status).status = "suspended"
      /\ ~directory.suspended => B!Mirrored(B!None, biller.status).status = B!MapSubscriptionStatus(biller.status)
  BY <1>b, MirrorConsistent
<1>2. /\ DOMAIN directory' = Fields /\ directory'.row
      /\ directory'.suspended = directory.suspended /\ directory'.listed = FALSE
      /\ directory.suspended <=> directory'.status = "suspended"
      /\ ~directory.suspended => directory'.status = B!MapSubscriptionStatus(biller.status)
  BY <1>a, <1>c
<1>3. WorkOK' /\ InStep' /\ B!CancelSticks' /\ B!ChargedOncePerPeriod' /\ B!AttemptsLeft'
  BY <1>1, RestingOp DEF WorkOK, InStep, B!CancelSticks, B!ChargedOncePerPeriod, B!AttemptsLeft
<1>4. RowsOK' /\ B!SuspensionConsistent'
  BY <1>2 DEF RowsOK, B!SuspensionConsistent
<1>5. Shown'
  BY <1>1, <1>2 DEF InStep, Shown
<1> QED BY <1>3, <1>4, <1>5

(* The steps of a renewal that do not touch the status. *)
LEMMA StartRenewalKeeps ==
  ASSUME BillingInv, B!StartRenewal PROVE BillingInv'
<1> USE DEF BillingInv, B!StartRenewal
<1>1. /\ biller = B!Resting /\ biller' \in [op: {"charge", "failed"}, attempts: Nat] /\ biller' # B!Resting
      /\ sub.status = "active"
  BY RestingOp DEF RowsOK, B!Due
<1>2. RowsOK' /\ B!SuspensionConsistent' /\ B!AttemptsLeft'
  BY DEF RowsOK, B!SuspensionConsistent, B!AttemptsLeft
<1>3. WorkOK' /\ InStep'
  BY <1>1 DEF WorkOK, InStep
<1>4. B!CancelSticks' /\ Shown'
  BY <1>1, RestingOp DEF B!CancelSticks, Shown
<1>5. B!ChargedOncePerPeriod'
  BY <1>1, RestingOp DEF B!ChargedOncePerPeriod
<1> QED BY <1>2, <1>3, <1>4, <1>5

(* A charge is for the period that is due, however it comes out. *)
LEMMA ChargeKeeps ==
  ASSUME BillingInv, NEW outcome \in {"made", "refused", "lost"}, B!ChargeAuthorization(outcome)
  PROVE  BillingInv'
<1> USE DEF BillingInv, B!ChargeAuthorization
<1>1. /\ biller # B!Resting /\ biller \in [op: {"charge"}, attempts: Nat]
      /\ biller' \in [op: {"failed", "renew"}, attempts: Nat] /\ biller' # B!Resting
      /\ biller'.op = IF outcome = "made" THEN "renew" ELSE "failed"
  BY RestingOp DEF WorkOK
<1>2. /\ faults \in [repeats: Nat, lost: Nat, stops: Nat] /\ charged \in Nat /\ granted \in Nat
      /\ faults' = IF outcome = "lost" THEN [faults EXCEPT !.lost = faults.lost + 1] ELSE faults
      /\ charged' = IF outcome = "refused" THEN charged ELSE charged + 1
  BY DEF RowsOK
<1>3. /\ faults' \in [repeats: Nat, lost: Nat, stops: Nat] /\ charged' \in Nat
      /\ faults'.repeats = faults.repeats
      /\ charged' - faults'.lost - faults'.stops =<
            charged - faults.lost - faults.stops + IF outcome = "made" THEN 1 ELSE 0
  BY <1>2
<1>4. RowsOK' /\ B!SuspensionConsistent' /\ B!AttemptsLeft'
  BY <1>3 DEF RowsOK, B!SuspensionConsistent, B!AttemptsLeft
<1>5. WorkOK' /\ InStep'
  BY <1>1 DEF WorkOK, InStep
<1>6. B!CancelSticks' /\ Shown'
  BY <1>1, <1>3 DEF B!CancelSticks, Shown
<1>7. B!ChargedOncePerPeriod'
  BY <1>1, <1>2, <1>3 DEF B!ChargedOncePerPeriod
<1> QED BY <1>4, <1>5, <1>6, <1>7

(* A renewal moves to the next period what was charged for it. *)
LEMMA RenewKeeps ==
  ASSUME BillingInv, B!Renew PROVE BillingInv'
<1> USE DEF BillingInv, B!Renew
<1>1. biller # B!Resting /\ biller' = B!Resting /\ biller.op = "renew"
  BY RestingOp
<1> DEFINE patch == [end |-> date + PeriodDays, attempts |-> 0]
<1>2. DOMAIN patch = {"end", "attempts"} /\ patch.attempts = 0
  OBVIOUS
<1>3. sub' = B!Merged(patch)
  OBVIOUS
<1> HIDE DEF patch
<1>4. DOMAIN sub' = Columns /\ sub'.status = sub.status /\ sub'.attempts = 0
  BY <1>2, <1>3, MergeStatus DEF Columns
<1>5. RowsOK' /\ B!SuspensionConsistent' /\ B!AttemptsLeft'
  BY <1>4 DEF RowsOK, B!SuspensionConsistent, B!AttemptsLeft
<1>6. WorkOK' /\ InStep'
  BY <1>1, <1>4 DEF WorkOK, InStep
<1>7. B!CancelSticks' /\ Shown'
  BY <1>1, <1>4 DEF B!CancelSticks, Shown
<1>8. B!ChargedOncePerPeriod'
  BY <1>1, RestingOp DEF B!ChargedOncePerPeriod, RowsOK
<1> QED BY <1>5, <1>6, <1>7, <1>8

(* A failure is recorded on a row that nobody cancelled in between. *)
LEMMA FailureKeeps ==
  ASSUME BillingInv, B!RecordFailure PROVE BillingInv'
<1> USE DEF BillingInv, B!RecordFailure
<1> DEFINE n == biller.attempts + 1
           patch == [status |-> B!NextStatus(n), attempts |-> n]
<1>1. biller # B!Resting /\ biller \in [op: {"failed"}, attempts: Nat] /\ n \in Nat
  BY RestingOp DEF WorkOK
<1>2. B!NextStatus(n) \in {"active", "past_due"} /\ (B!NextStatus(n) = "active" => n < 3)
  BY <1>1 DEF B!NextStatus
<1>3. DOMAIN patch = {"status", "attempts"} /\ patch.status = B!NextStatus(n) /\ patch.attempts = n
  OBVIOUS
<1>4. sub' = B!Merged(patch) /\ biller' = [op |-> "mirror", status |-> B!NextStatus(n)]
  OBVIOUS
<1> HIDE DEF patch, n
<1>5. DOMAIN sub' = Columns /\ sub'.status = B!NextStatus(n) /\ sub'.attempts = n
  BY <1>3, <1>4, MergeStatus DEF Columns
<1>6. RowsOK' /\ B!SuspensionConsistent' /\ B!AttemptsLeft'
  BY <1>1, <1>2, <1>5 DEF RowsOK, B!SuspensionConsistent, B!AttemptsLeft
<1>7. WorkOK' /\ InStep'
  BY <1>1, <1>2, <1>4, <1>5 DEF WorkOK, InStep
<1>8. B!CancelSticks' /\ Shown'
  BY <1>1, <1>4, <1>5 DEF B!CancelSticks, Shown, InStep
<1>9. B!ChargedOncePerPeriod'
  BY <1>1, <1>4 DEF B!ChargedOncePerPeriod
<1> QED BY <1>6, <1>7, <1>8, <1>9

(* A stop between two writes leaves what was written in order. *)
LEMMA StopKeeps ==
  ASSUME BillingInv, B!Stop PROVE BillingInv'
<1> USE DEF BillingInv, B!Stop
<1>1. clerk' = B!Resting /\ biller' = B!Resting /\ edited'
  OBVIOUS
<1>2. /\ faults \in [repeats: Nat, lost: Nat, stops: Nat] /\ charged \in Nat /\ granted \in Nat
      /\ faults' = [faults EXCEPT !.stops = faults.stops + 1]
  BY DEF RowsOK
<1>3. /\ faults' \in [repeats: Nat, lost: Nat, stops: Nat]
      /\ faults'.repeats = faults.repeats /\ faults'.lost = faults.lost
      /\ faults'.stops = faults.stops + 1
  BY <1>2
<1>4. RowsOK' /\ B!SuspensionConsistent' /\ B!AttemptsLeft'
  BY <1>3 DEF RowsOK, B!SuspensionConsistent, B!AttemptsLeft
<1>5. WorkOK' /\ InStep' /\ B!CancelSticks' /\ Shown'
  BY <1>1, <1>3 DEF WorkOK, InStep, B!CancelSticks, Shown
<1>6. B!ChargedOncePerPeriod'
  BY <1>1, <1>2, <1>3, RestingOp DEF B!ChargedOncePerPeriod
<1> QED BY <1>4, <1>5, <1>6

(* What the operators and the start of the API write in the directory. *)
LEMMA DirectoryKeeps ==
  ASSUME BillingInv, NEW status \in {"active", "trial", "past_due"},
         NEW archived \in BOOLEAN,
         \/ B!Suspend \/ B!Unsuspend \/ B!Backfill
         \/ B!UpdateTenantPlan(status) \/ B!ListTenants(archived)
  PROVE  BillingInv'
<1> USE DEF BillingInv
<1>0. UNCHANGED <<sub, clerk, biller, wish, charged, granted, crossed, faults>>
  BY DEF B!Suspend, B!Unsuspend, B!Backfill, B!UpdateTenantPlan, B!ListTenants
<1>1. WorkOK' /\ InStep' /\ B!CancelSticks' /\ B!ChargedOncePerPeriod' /\ B!AttemptsLeft'
  BY <1>0 DEF WorkOK, InStep, B!CancelSticks, B!ChargedOncePerPeriod, B!AttemptsLeft
<1>2. RowsOK' /\ B!SuspensionConsistent' /\ Shown'
  <2>1. CASE B!Suspend
    BY <2>1, <1>0, EnsuredSame DEF B!Suspend, RowsOK, B!SuspensionConsistent, Shown, Fields
  <2>2. CASE B!Unsuspend
    BY <2>2, <1>0, EnsuredSame DEF B!Unsuspend, RowsOK, B!SuspensionConsistent, Shown, Fields
  <2>3. CASE B!UpdateTenantPlan(status)
    BY <2>3, <1>0, EnsuredSame DEF B!UpdateTenantPlan, RowsOK, B!SuspensionConsistent, Shown, Fields
  <2>4. CASE B!Backfill
    <3> DEFINE s == IF directory.suspended THEN "suspended"
                    ELSE CASE sub.status = "trialing" -> "trial"
                           [] sub.status = "past_due" -> "past_due"
                           [] OTHER -> "active"
    <3>1. CASE ~directory.suspended
      <4>1. s = B!MapSubscriptionStatus(sub.status) /\ s # "suspended"
        BY <3>1 DEF B!MapSubscriptionStatus
      <4>2. directory'.status = s /\ directory'.suspended = directory.suspended
            /\ directory'.listed = FALSE /\ DOMAIN directory' = DOMAIN directory
            /\ directory'.row = directory.row
        BY <2>4 DEF B!Backfill, RowsOK, Fields
      <4> HIDE DEF s
      <4> QED BY <2>4, <1>0, <3>1, <4>1, <4>2 DEF B!Backfill, RowsOK, B!SuspensionConsistent, Shown
    <3>2. CASE directory.suspended
      <4>1. s = "suspended"
        BY <3>2
      <4>2. directory'.status = s /\ directory'.suspended = directory.suspended
            /\ directory'.listed = FALSE /\ DOMAIN directory' = DOMAIN directory
            /\ directory'.row = directory.row
        BY <2>4 DEF B!Backfill, RowsOK, Fields
      <4> HIDE DEF s
      <4> QED BY <2>4, <1>0, <3>2, <4>1, <4>2 DEF B!Backfill, RowsOK, B!SuspensionConsistent, Shown
    <3> QED BY <3>1, <3>2
  <2>5. CASE B!ListTenants(archived)
    <3>1. ~directory.suspended
          /\ directory'.status = (IF archived THEN "suspended" ELSE "active")
          /\ directory'.suspended = directory.suspended /\ directory'.listed = archived
          /\ DOMAIN directory' = Fields /\ directory'.row /\ edited' = TRUE
      BY <2>5, EnsuredSame DEF B!ListTenants, RowsOK, Fields
    <3> QED BY <1>0, <3>1 DEF RowsOK, B!SuspensionConsistent, Shown
  <2> QED BY <2>1, <2>2, <2>3, <2>4, <2>5
<1> QED BY <1>1, <1>2

(* Every step keeps the invariant of billing. *)
LEMMA BillingStep ==
  ASSUME BillingInv, [B!Next]_B!vars PROVE BillingInv'
<1>1. CASE B!DayPasses \/ UNCHANGED B!vars
  BY <1>1 DEF B!DayPasses, B!vars, BillingInv, RowsOK, WorkOK, InStep, Shown, B!CancelSticks,
              B!ChargedOncePerPeriod, B!AttemptsLeft, B!SuspensionConsistent
<1>2. CASE \E plan \in DOMAIN Prices : B!StartCheckout(plan)
  BY <1>2, CheckoutKeeps
<1>3. CASE \E c \in DOMAIN claims : B!ActivateFromCharge(c)
  BY <1>3, ActivateKeeps
<1>4. CASE \E outcome \in {"made", "refused", "lost"} : B!ChargeAuthorization(outcome)
  BY <1>4, ChargeKeeps
<1>5. CASE B!Suspend \/ B!Unsuspend \/ B!Backfill
           \/ \E status \in {"active", "trial", "past_due"} : B!UpdateTenantPlan(status)
           \/ \E archived \in BOOLEAN : B!ListTenants(archived)
  BY <1>5, DirectoryKeeps
<1> QED BY <1>1, <1>2, <1>3, <1>4, <1>5, MirrorKeeps, CancelKeeps, StartRenewalKeeps, RenewKeeps,
           FailureKeeps, MirrorFailureKeeps, StopKeeps DEF B!Next

(* What billing promises follows from its invariant. *)
LEMMA BillingImplies ==
  BillingInv => /\ B!CancelSticks /\ B!ChargedOncePerPeriod /\ B!AttemptsLeft
                /\ B!SuspensionConsistent /\ B!DirectoryFollows
  BY RestingOp DEF BillingInv, Shown, B!DirectoryFollows, B!Quiet

(* Cancelling sticks, the gateway charges once per period, three failures  *)
(* end the renewals, and the directory follows the subscription and its    *)
(* suspension, whatever the order of requests, webhooks, renewals, stops   *)
(* and operators.                                                          *)
THEOREM SubscriptionHolds ==
  B!Spec => [](/\ B!CancelSticks /\ B!ChargedOncePerPeriod /\ B!AttemptsLeft
               /\ B!SuspensionConsistent /\ B!DirectoryFollows)
<1>1. B!Init => BillingInv
  BY BillingStart
<1>2. BillingInv /\ [B!Next]_B!vars => BillingInv'
  BY BillingStep
<1> QED BY <1>1, <1>2, BillingImplies, PTL DEF B!Spec

-----------------------------------------------------------------------------
(* Tenancy: members, workspaces, sign-ups, operators and periods.          *)

(* What the modules mean by the number of elements of a set. *)
LEMMA TenantCards == \A S : T!Cardinality(S) = Cardinality(S)
  BY DEF Cardinality, T!Cardinality, IsFiniteSet, T!IsFiniteSet

CountsOK == /\ IsFiniteSet(Persons) /\ IsFiniteSet(Tenants) /\ IsFiniteSet(Operators)
            /\ SignupRateMax \in Nat
Alone == \A v, w \in Visits : v = w

(* Who is not the only one has another beside. *)
LEMMA AnotherOne ==
  ASSUME NEW S, IsFiniteSet(S), Cardinality(S) > 1, NEW x
  PROVE  \E y \in S : y # x
<1> SUFFICES ASSUME S \subseteq {x} PROVE FALSE
  OBVIOUS
<1>1. IsFiniteSet({x}) /\ Cardinality({x}) = 1
  BY FS_Singleton
<1>2. Cardinality(S) =< 1 /\ Cardinality(S) \in Nat
  BY <1>1, FS_Subset, FS_CardinalityType
<1> QED BY <1>2

SeatRecord == [role: {"none", "Owner", "Viewer"}, active: BOOLEAN]

(* What a request has read, and what is left of it when it writes. *)
VisitOK(r) ==
    /\ r.op \in {"idle", "signup", "record", "archive", "leave", "deactivate"}
    /\ r.op = "signup" => r.person \in Persons
    /\ r.op = "archive" =>
          /\ r.person \in Persons /\ r.tenant \in Tenants /\ tenants[r.tenant] # "none"
          /\ r.person \in disturbed \/
             \E u \in T!Memberships(r.person) : u # r.tenant /\ tenants[u] = "open"
    /\ r.op = "leave" =>
          /\ r.person \in Persons /\ r.tenant \in Tenants /\ tenants[r.tenant] # "none"
          /\ seats[r.person][r.tenant].role # "none"
          /\ seats[r.person][r.tenant].role = "Owner" =>
                \E q \in T!ActiveOwners(r.tenant) : q # r.person

SeatsInv ==
    /\ tenants \in [Tenants -> {"none", "open", "archived"}]
    /\ seats \in [Persons -> [Tenants -> SeatRecord]]
    /\ DOMAIN visit = Visits /\ \A v \in Visits : VisitOK(visit[v])
    /\ \A p \in Persons, t \in Tenants : 
          /\ tenants[t] = "none" => seats[p][t] = T!NoSeat
          /\ seats[p][t].active => seats[p][t].role # "none"
    /\ T!TenantOwned
    /\ T!KeepsWorkspace

-----------------------------------------------------------------------------
(* Nobody has a seat before the first tenant. *)
LEMMA SeatsStart ==
  ASSUME T!Init PROVE SeatsInv
  BY DEF T!Init, SeatsInv, SeatRecord, T!NoSeat, T!Away, VisitOK, T!TenantOwned, T!KeepsWorkspace,
     T!Memberships

(* Another tenant opens and gives its first Owner a workspace. *)
LEMMA ProvisionStep ==
  ASSUME SeatsInv, NEW p \in Persons, NEW t \in Tenants, T!Provision(p, t), disturbed' = disturbed,
         NEW v, visit' = visit \/ (v \in Visits /\ visit' = [visit EXCEPT ![v] = [op |-> "record", window |-> window]])
  PROVE  SeatsInv'
<1> USE DEF SeatsInv, T!Provision
<1>1. /\ tenants' \in [Tenants -> {"none", "open", "archived"}]
      /\ seats' \in [Persons -> [Tenants -> SeatRecord]]
  BY DEF SeatRecord
<1>2. /\ \A q \in Persons, u \in Tenants \ {t} : seats'[q][u] = seats[q][u]
      /\ \A q \in Persons \ {p} : seats'[q] = seats[q]
      /\ seats'[p][t] = [role |-> "Owner", active |-> TRUE]
      /\ tenants'[t] = "open" /\ \A u \in Tenants \ {t} : tenants'[u] = tenants[u]
      /\ \A q \in Persons : seats[q][t] = T!NoSeat
  OBVIOUS
<1>3. /\ \A q \in Persons : T!Memberships(q) \subseteq T!Memberships(q)'
      /\ \A u \in Tenants : T!ActiveOwners(u) \subseteq T!ActiveOwners(u)'
      /\ \A q \in Persons : t \notin T!Memberships(q)
      /\ \A q \in Persons \ {p} : T!Memberships(q)' = T!Memberships(q)
      /\ t \in T!Memberships(p)' /\ p \in T!ActiveOwners(t)'
  BY <1>1, <1>2 DEF T!Memberships, T!ActiveOwners, T!NoSeat
<1>4. \A q \in Persons : \A u \in T!Memberships(q) : tenants'[u] = tenants[u]
  BY <1>2, <1>3 DEF T!Memberships
<1>5. ASSUME NEW w \in Visits PROVE VisitOK(visit[w])'
  <2>1. CASE visit'[w] = visit[w]
    <3>1. VisitOK(visit[w])
      OBVIOUS
    <3>2. visit[w].op = "leave" => visit[w].tenant \in Tenants /\ visit[w].person \in Persons
      BY <3>1 DEF VisitOK
    <3>3. ASSUME visit[w].op = "leave", seats'[visit[w].person][visit[w].tenant].role = "Owner"
          PROVE  \E q \in T!ActiveOwners(visit[w].tenant)' : q # visit[w].person
      <4>1. CASE seats[visit[w].person][visit[w].tenant].role = "Owner"
        BY <4>1, <2>1, <3>1, <3>2, <3>3, <1>3 DEF VisitOK
      <4>2. CASE seats[visit[w].person][visit[w].tenant].role # "Owner"
        BY <4>2, <3>1, <3>3, <1>2 DEF VisitOK
      <4> QED BY <4>1, <4>2
    <3> QED BY <2>1, <3>1, <3>2, <3>3, <1>2, <1>3, <1>4 DEF VisitOK
  <2>2. CASE visit'[w] = [op |-> "record", window |-> window]
    BY <2>2 DEF VisitOK
  <2> QED BY <2>1, <2>2
<1>6. T!TenantOwned'
  BY <1>2, <1>3 DEF T!TenantOwned
<1>7. T!KeepsWorkspace'
  BY <1>2, <1>3, <1>4 DEF T!KeepsWorkspace
<1> QED BY <1>1, <1>2, <1>5, <1>6, <1>7

(* Nobody loses a seat, no open tenant closes, and requests are as they    *)
(* were, or one of them begins or ends.                                    *)
LEMMA GrowthStep ==
  ASSUME SeatsInv, seats' = seats, disturbed' = disturbed,
         tenants' \in [Tenants -> {"none", "open", "archived"}],
         \A t \in Tenants : /\ tenants[t] = "none" <=> tenants'[t] = "none"
                            /\ tenants[t] = "open" => tenants'[t] = "open",
         DOMAIN visit' = Visits,
         \A w \in Visits : visit'[w] = visit[w] \/ VisitOK(visit[w])'
  PROVE  SeatsInv'
<1> USE DEF SeatsInv
<1>1. /\ \A q \in Persons : T!Memberships(q)' = T!Memberships(q) /\ T!Memberships(q) \subseteq Tenants
      /\ \A u \in Tenants : T!ActiveOwners(u)' = T!ActiveOwners(u)
  BY DEF T!Memberships, T!ActiveOwners
<1>2. ASSUME NEW w \in Visits PROVE VisitOK(visit[w])'
  <2>1. CASE visit'[w] = visit[w]
    <3>1. VisitOK(visit[w])
      OBVIOUS
    <3>2. visit[w].op = "leave" => (T!ActiveOwners(visit[w].tenant))' = T!ActiveOwners(visit[w].tenant)
      BY <1>1, <2>1, <3>1 DEF VisitOK
    <3> QED BY <2>1, <3>1, <3>2, <1>1 DEF VisitOK
  <2> QED BY <2>1
<1>3. T!TenantOwned'
  BY <1>1 DEF T!TenantOwned
<1>4. T!KeepsWorkspace'
  BY <1>1 DEF T!KeepsWorkspace
<1> QED BY <1>2, <1>3, <1>4

(* Who joins takes a seat from nobody. *)
LEMMA JoinStep ==
  ASSUME SeatsInv, NEW p \in Persons, NEW t \in Tenants, NEW role \in {"Owner", "Viewer"}, T!Join(p, t, role)
  PROVE  SeatsInv'
<1> USE DEF SeatsInv, T!Join
<1>1. /\ seats' \in [Persons -> [Tenants -> SeatRecord]]
      /\ \A q \in Persons, u \in Tenants : <<q, u>> # <<p, t>> => seats'[q][u] = seats[q][u]
      /\ seats'[p][t] = [role |-> role, active |-> TRUE] /\ seats[p][t] = T!NoSeat
      /\ tenants' = tenants /\ visit' = visit /\ disturbed' = disturbed /\ tenants[t] = "open"
  BY DEF SeatRecord
<1>2. /\ \A q \in Persons : T!Memberships(q) \subseteq T!Memberships(q)' /\ T!Memberships(q)' \subseteq T!Memberships(q) \cup {t}
      /\ \A q \in Persons \ {p} : T!Memberships(q)' = T!Memberships(q)
      /\ \A u \in Tenants : T!ActiveOwners(u) \subseteq T!ActiveOwners(u)'
      /\ t \in T!Memberships(p)'
  BY <1>1 DEF T!Memberships, T!ActiveOwners, T!NoSeat
<1>3. ASSUME NEW w \in Visits PROVE VisitOK(visit[w])'
  <2>1. VisitOK(visit[w])
    OBVIOUS
  <2>2. ASSUME visit[w].op = "leave", seats'[visit[w].person][visit[w].tenant].role = "Owner"
        PROVE  \E q \in T!ActiveOwners(visit[w].tenant)' : q # visit[w].person
    <3>1. visit[w].tenant \in Tenants /\ <<visit[w].person, visit[w].tenant>> # <<p, t>>
      BY <2>1, <2>2, <1>1 DEF VisitOK, T!NoSeat
    <3> QED BY <2>1, <2>2, <3>1, <1>1, <1>2 DEF VisitOK
  <2> QED BY <1>1, <1>2, <2>1, <2>2 DEF VisitOK
<1>4. T!TenantOwned'
  BY <1>1, <1>2 DEF T!TenantOwned
<1>5. T!KeepsWorkspace'
  BY <1>1, <1>2 DEF T!KeepsWorkspace
<1> QED BY <1>1, <1>3, <1>4, <1>5

(* A tenant is archived, and everybody else who is in it is disturbed. *)
LEMMA ClosingStep ==
  ASSUME SeatsInv, NEW t \in Tenants, seats' = seats, tenants[t] # "none",
         tenants' = [tenants EXCEPT ![t] = "archived"],
         NEW K \in SUBSET Persons,
         \A p \in K : p \in disturbed \/ \E u \in T!Memberships(p) : u # t /\ tenants[u] = "open",
         disturbed' = disturbed \cup {q \in Persons \ K : t \in T!Memberships(q)},
         DOMAIN visit' = Visits,
         \A w \in Visits : visit'[w] = T!Away \/ (visit'[w] = visit[w] /\ K = {})
  PROVE  SeatsInv'
<1> USE DEF SeatsInv
<1>1. /\ \A q \in Persons : T!Memberships(q)' = T!Memberships(q) /\ T!Memberships(q) \subseteq Tenants
      /\ \A u \in Tenants : T!ActiveOwners(u)' = T!ActiveOwners(u)
      /\ \A u \in Tenants \ {t} : tenants'[u] = tenants[u]
      /\ tenants'[t] = "archived"
  BY DEF T!Memberships, T!ActiveOwners
<1>2. ASSUME NEW w \in Visits PROVE VisitOK(visit[w])'
  <2>1. CASE visit'[w] = visit[w] /\ K = {}
    <3>1. VisitOK(visit[w])
      OBVIOUS
    <3>2. visit[w].op = "leave" => (T!ActiveOwners(visit[w].tenant))' = T!ActiveOwners(visit[w].tenant)
      BY <1>1, <2>1, <3>1 DEF VisitOK
    <3> QED BY <2>1, <3>1, <3>2, <1>1 DEF VisitOK
  <2>2. CASE visit'[w] = T!Away
    BY <2>2 DEF VisitOK, T!Away
  <2> QED BY <2>1, <2>2
<1>3. T!TenantOwned'
  BY <1>1 DEF T!TenantOwned
<1>4. T!KeepsWorkspace'
  BY <1>1 DEF T!KeepsWorkspace
<1> QED BY <1>1, <1>2, <1>3, <1>4

(* Who leaves was found not to be the only owner, and no other request   *)
(* came between.                                                         *)
LEMMA LeaveStep ==
  ASSUME Alone, SeatsInv, NEW v \in Visits, T!FinishLeave(v)
  PROVE  SeatsInv'
<1> USE DEF SeatsInv
<1>0. PICK p \in Persons, t \in Tenants :
         /\ p = visit[v].person /\ t = visit[v].tenant /\ tenants[t] # "none"
         /\ seats[p][t].role = "Owner" => \E q \in T!ActiveOwners(t) : q # p
  BY DEF VisitOK, T!FinishLeave
<1>1. /\ seats' = [seats EXCEPT ![p] = [seats[p] EXCEPT ![t] = [seats[p][t] EXCEPT !.active = FALSE]]]
      /\ tenants' = tenants /\ disturbed' = disturbed \cup {p}
      /\ visit' = [visit EXCEPT ![v] = T!Away]
  BY <1>0 DEF T!FinishLeave
<1>2. seats[p][t] \in SeatRecord
  OBVIOUS
<1>3. /\ seats' \in [Persons -> [Tenants -> SeatRecord]]
      /\ \A q \in Persons, u \in Tenants : <<q, u>> # <<p, t>> => seats'[q][u] = seats[q][u]
      /\ seats'[p][t].role = seats[p][t].role /\ ~seats'[p][t].active
  BY <1>1, <1>2 DEF SeatRecord
<1>4. /\ \A q \in Persons \ {p} : T!Memberships(q)' = T!Memberships(q)
      /\ \A u \in Tenants \ {t} : T!ActiveOwners(u)' = T!ActiveOwners(u)
      /\ \A q \in T!ActiveOwners(t) : q # p => q \in T!ActiveOwners(t)'
  BY <1>3 DEF T!Memberships, T!ActiveOwners
<1>5. T!ActiveOwners(t)' # {}
  <2>1. CASE seats[p][t].role = "Owner"
    BY <2>1, <1>0, <1>4
  <2>2. CASE seats[p][t].role # "Owner"
    <3>1. PICK q \in T!ActiveOwners(t) : TRUE
      BY <1>0 DEF T!TenantOwned
    <3> QED BY <3>1, <2>2, <1>4 DEF T!ActiveOwners
  <2> QED BY <2>1, <2>2
<1>6. T!TenantOwned'
  BY <1>1, <1>4, <1>5 DEF T!TenantOwned
<1>7. T!KeepsWorkspace'
  BY <1>1, <1>4 DEF T!KeepsWorkspace
<1>8. \A w \in Visits : VisitOK(visit[w])'
  BY <1>1 DEF Alone, VisitOK, T!Away
<1>9. \A q \in Persons, u \in Tenants : /\ tenants'[u] = "none" => seats'[q][u] = T!NoSeat
                                        /\ seats'[q][u].active => seats'[q][u].role # "none"
  BY <1>0, <1>1, <1>3
<1>10. DOMAIN visit' = Visits /\ tenants' \in [Tenants -> {"none", "open", "archived"}]
  BY <1>1
<1> QED BY <1>3, <1>6, <1>7, <1>8, <1>9, <1>10

(* Every step leaves each open tenant with an owner and each person with *)
(* a workspace.                                                          *)
LEMMA SeatsStep ==
  ASSUME CountsOK, Alone, SeatsInv, [T!Next]_T!vars PROVE SeatsInv'
<1>0. /\ tenants \in [Tenants -> {"none", "open", "archived"}]
      /\ DOMAIN visit = Visits /\ \A v \in Visits : VisitOK(visit[v])
      /\ seats \in [Persons -> [Tenants -> SeatRecord]]
  BY DEF SeatsInv
<1>1. CASE UNCHANGED <<tenants, seats, visit, disturbed>>
  BY <1>0, <1>1, GrowthStep
<1>2. ASSUME NEW v \in Visits PROVE
        /\ \A p \in Persons, down \in BOOLEAN : T!StartSignup(v, p, down) => SeatsInv'
        /\ \A down \in BOOLEAN : T!RecordSignup(v, down) => SeatsInv'
        /\ \A actor, o \in Operators : T!StartDeactivate(v, actor, o) => SeatsInv'
        /\ T!FinishDeactivate(v) => SeatsInv'
  <2>1. ASSUME UNCHANGED <<tenants, seats, disturbed>>, NEW r,
               visit' = [visit EXCEPT ![v] = r], r.op \in {"idle", "signup", "deactivate"},
               r.op = "signup" => r.person \in Persons
        PROVE  SeatsInv'
    <3>1. \A w \in Visits : visit'[w] = visit[w] \/ VisitOK(visit[w])'
      BY <1>0, <2>1 DEF VisitOK
    <3> QED BY <1>0, <2>1, <3>1, GrowthStep
  <2>2. ASSUME NEW p \in Persons, NEW down \in BOOLEAN, T!StartSignup(v, p, down) PROVE SeatsInv'
    BY <2>1, <2>2 DEF T!StartSignup
  <2>3. ASSUME NEW down \in BOOLEAN, T!RecordSignup(v, down) PROVE SeatsInv'
    BY <2>1, <2>3 DEF T!RecordSignup, T!Away
  <2>4. ASSUME NEW actor \in Operators, NEW o \in Operators, T!StartDeactivate(v, actor, o)
        PROVE  SeatsInv'
    BY <2>1, <2>4 DEF T!StartDeactivate
  <2>5. ASSUME T!FinishDeactivate(v) PROVE SeatsInv'
    BY <2>1, <2>5 DEF T!FinishDeactivate, T!Away
  <2> QED BY <2>2, <2>3, <2>4, <2>5
<1>3. ASSUME NEW v \in Visits, NEW t \in Tenants, T!FinishSignup(v, t) PROVE SeatsInv'
  BY <1>0, <1>3, ProvisionStep DEF T!FinishSignup, VisitOK
<1>4. ASSUME NEW v \in Visits, NEW p \in Persons, NEW t \in Tenants, T!StartArchive(v, p, t)
      PROVE  SeatsInv'
  <2>1. \E u \in T!Memberships(p) : tenants[u] = "open" /\ u # t
    <3> DEFINE S == {u \in T!Memberships(p) : tenants[u] = "open"}
    <3>1. IsFiniteSet(S) /\ Cardinality(S) > 1
      BY <1>4, FS_Subset, TenantCards DEF CountsOK, T!Memberships, T!StartArchive, T!OtherWorkspace
    <3> HIDE DEF S
    <3>2. \E u \in S : u # t
      BY <3>1, AnotherOne
    <3> QED BY <3>2 DEF S
  <2>2. T!Memberships(p)' = T!Memberships(p) /\ tenants' = tenants /\ disturbed' = disturbed /\ seats' = seats
        /\ visit' = [visit EXCEPT ![v] = [op |-> "archive", person |-> p, tenant |-> t]]
        /\ tenants[t] = "open"
    BY <1>4 DEF T!StartArchive, T!Memberships
  <2>3. \A w \in Visits : visit'[w] = visit[w] \/ VisitOK(visit[w])'
    BY <1>0, <2>1, <2>2 DEF VisitOK
  <2> QED BY <1>0, <2>2, <2>3, GrowthStep
<1>5. ASSUME NEW v \in Visits, NEW p \in Persons, NEW t \in Tenants, T!StartLeave(v, p, t)
      PROVE  SeatsInv'
  <2>1. seats[p][t].role = "Owner" => \E q \in T!ActiveOwners(t) : q # p
    <3>1. IsFiniteSet(T!ActiveOwners(t))
      BY FS_Subset DEF CountsOK, T!ActiveOwners
    <3> QED BY <1>5, <3>1, AnotherOne, TenantCards DEF T!StartLeave, T!MayLeave
  <2>2. T!ActiveOwners(t)' = T!ActiveOwners(t) /\ tenants' = tenants /\ disturbed' = disturbed /\ seats' = seats
        /\ visit' = [visit EXCEPT ![v] = [op |-> "leave", person |-> p, tenant |-> t]]
        /\ tenants[t] # "none" /\ seats[p][t].role # "none"
    BY <1>5 DEF T!StartLeave, T!ActiveOwners, T!Memberships, SeatsInv, T!NoSeat
  <2>3. \A w \in Visits : visit'[w] = visit[w] \/ VisitOK(visit[w])'
    BY <1>0, <2>1, <2>2 DEF VisitOK
  <2> QED BY <1>0, <2>2, <2>3, GrowthStep
<1>6. ASSUME NEW v \in Visits, T!FinishArchive(v) PROVE SeatsInv'
  <2>1. PICK p \in Persons, t \in Tenants :
           /\ p = visit[v].person /\ t = visit[v].tenant /\ tenants[t] # "none"
           /\ p \in disturbed \/ \E u \in T!Memberships(p) : u # t /\ tenants[u] = "open"
    BY <1>0, <1>6 DEF VisitOK, T!FinishArchive
  <2>2. PICK K \in SUBSET Persons : K = {p}
    OBVIOUS
  <2>3. /\ seats' = seats /\ tenants' = [tenants EXCEPT ![t] = "archived"]
        /\ disturbed' = disturbed \cup {q \in Persons \ K : t \in T!Memberships(q)}
        /\ visit' = [visit EXCEPT ![v] = T!Away]
    BY <1>6, <2>1, <2>2 DEF T!FinishArchive
  <2>4. DOMAIN visit' = Visits /\ \A w \in Visits : visit'[w] = T!Away
    BY <1>0, <2>3 DEF Alone
  <2>5. \A q \in K : q \in disturbed \/ \E u \in T!Memberships(q) : u # t /\ tenants[u] = "open"
    BY <2>1, <2>2
  <2> QED BY <2>1, <2>3, <2>4, <2>5, ClosingStep
<1>7. ASSUME NEW p \in Persons, NEW t \in Tenants PROVE
        /\ T!CreateTenant(p, t) => SeatsInv'
        /\ T!Switch(p, t) => SeatsInv'
        /\ T!Unarchive(p, t) => SeatsInv'
        /\ \A role \in {"Owner", "Viewer"} : T!Join(p, t, role) => SeatsInv'
  <2>1. ASSUME T!CreateTenant(p, t) PROVE SeatsInv'
    BY <2>1, ProvisionStep DEF T!CreateTenant
  <2>2. ASSUME T!Switch(p, t) PROVE SeatsInv'
    BY <1>1, <2>2 DEF T!Switch
  <2>3. ASSUME T!Unarchive(p, t) PROVE SeatsInv'
    BY <1>0, <2>3, GrowthStep DEF T!Unarchive
  <2> QED BY <2>1, <2>2, <2>3, JoinStep
<1>8. ASSUME NEW t \in Tenants, T!PlatformArchive(t) PROVE SeatsInv'
  <2>1. disturbed' = disturbed \cup {q \in Persons \ {} : t \in T!Memberships(q)}
    BY <1>8 DEF T!PlatformArchive
  <2> QED BY <2>1, <1>0, <1>8, ClosingStep DEF T!PlatformArchive
<1>9. ASSUME NEW t \in Tenants, T!PlatformUnarchive(t) PROVE SeatsInv'
  BY <1>0, <1>9, GrowthStep DEF T!PlatformUnarchive
<1>10. CASE T!NextWindow \/ \E o \in Operators : T!Bootstrap(o) \/ \E actor \in Operators :
               \/ T!Reactivate(actor, o)
               \/ \E role \in {"PlatformSuperAdmin", "PlatformSupport"} : T!CreateOperator(actor, o, role)
  BY <1>1, <1>10 DEF T!NextWindow, T!Bootstrap, T!Reactivate, T!CreateOperator
<1>11. CASE UNCHANGED T!vars
  BY <1>1, <1>11 DEF T!vars
<1> QED BY <1>2, <1>3, <1>4, <1>5, <1>6, <1>7, <1>8, <1>9, <1>10, <1>11, LeaveStep DEF T!Next

-----------------------------------------------------------------------------
(* Sign-ups *)

(* A sign-up that is done in this window and not yet recorded. *)
Unrecorded == IF \E v \in Visits : visit[v].op = "record" /\ visit[v].window = window THEN 1 ELSE 0

(* Who was let in found room, and the sign-ups of the window are recorded, *)
(* about to be, or excused.                                                *)
SignupInv ==
    /\ spent \in Nat /\ window \in Nat \ {0} /\ opened \in Nat /\ excused \in Nat
    /\ DOMAIN visit = Visits
    /\ \A v \in Visits :
          /\ visit[v].op \in {"signup", "record"} => visit[v].window \in 0..window
          /\ visit[v].op = "signup" /\ visit[v].window = window => spent < SignupRateMax
    /\ opened =< spent + excused + Unrecorded
    /\ T!SignupsLimited

(* No sign-up has been counted at first. *)
LEMMA SignupStart == ASSUME CountsOK, T!Init PROVE SignupInv
  BY DEF CountsOK, T!Init, SignupInv, Unrecorded, T!SignupsLimited, T!Away

(* Every step keeps the count of sign-ups within its limit for the       *)
(* window.                                                               *)
LEMMA SignupStep ==
  ASSUME CountsOK, Alone, SignupInv, [T!Next]_T!vars PROVE SignupInv'
<1> USE DEF SignupInv, T!SignupsLimited, CountsOK
<1>0. SignupRateMax \in Nat /\ Unrecorded \in {0, 1}
  BY DEF Unrecorded
<1>1. ASSUME UNCHANGED <<spent, window, opened, excused>>,
             UNCHANGED visit \/ \E v \in Visits : \E r : /\ visit' = [visit EXCEPT ![v] = r]
                                                         /\ r.op \notin {"signup", "record"}
                                                         /\ visit[v].op # "record"
      PROVE  SignupInv'
  <2>1. CASE UNCHANGED visit
    BY <1>1, <2>1 DEF Unrecorded
  <2>2. ASSUME NEW v \in Visits, NEW r, visit' = [visit EXCEPT ![v] = r],
               r.op \notin {"signup", "record"}, visit[v].op # "record"
        PROVE  SignupInv'
    <3>1. \A w \in Visits : visit'[w] = IF w = v THEN r ELSE visit[w]
      BY <2>2
    <3>2. Unrecorded' = Unrecorded
      BY <1>1, <2>2, <3>1 DEF Unrecorded
    <3> QED BY <1>0, <1>1, <2>2, <3>1, <3>2
  <2> QED BY <1>1, <2>1, <2>2
<1>2. ASSUME NEW v \in Visits, NEW p \in Persons, NEW down \in BOOLEAN, T!StartSignup(v, p, down)
      PROVE  SignupInv'
  <2>1. /\ \A w \in Visits : visit'[w] = [op |-> "signup", person |-> p,
                                         window |-> IF down THEN 0 ELSE window]
        /\ DOMAIN visit' = Visits
        /\ UNCHANGED <<spent, window, opened, excused>>
        /\ \A w \in Visits : visit[w] = T!Away
        /\ ~down => spent < SignupRateMax
    BY <1>2 DEF T!StartSignup, Alone, T!WithinLimit
  <2>2. Unrecorded' = 0 /\ Unrecorded = 0
    BY <2>1 DEF Unrecorded, T!Away
  <2> QED BY <1>0, <2>1, <2>2
<1>3. ASSUME NEW v \in Visits, NEW t \in Tenants, T!FinishSignup(v, t) PROVE SignupInv'
  <2>1. /\ \A w \in Visits : visit'[w] = [op |-> "record", window |-> window]
        /\ DOMAIN visit' = Visits
        /\ UNCHANGED <<spent, window>> /\ opened' = opened + 1
        /\ \A w \in Visits : visit[w].op = "signup" /\ visit[w].window \in 0..window
        /\ excused' = IF visit[v].window = window THEN excused ELSE excused + 1
    BY <1>3 DEF T!FinishSignup, Alone
  <2>2. Unrecorded = 0
    BY <2>1 DEF Unrecorded
  <2>3. Unrecorded' = 1
    BY <2>1 DEF Unrecorded
  <2> QED BY <1>0, <2>1, <2>2, <2>3
<1>4. ASSUME NEW v \in Visits, NEW down \in BOOLEAN, T!RecordSignup(v, down) PROVE SignupInv'
  <2>1. /\ \A w \in Visits : visit'[w] = T!Away
        /\ DOMAIN visit' = Visits
        /\ UNCHANGED <<window, opened>>
        /\ \A w \in Visits : w = v
        /\ visit[v].op = "record"
        /\ spent' = IF down THEN spent ELSE spent + 1
        /\ excused' = IF down /\ visit[v].window = window THEN excused + 1 ELSE excused
    BY <1>4 DEF T!RecordSignup, Alone
  <2>2. Unrecorded = IF visit[v].window = window THEN 1 ELSE 0
    BY <2>1 DEF Unrecorded
  <2>3. Unrecorded' = 0
    BY <2>1 DEF Unrecorded, T!Away
  <2> QED BY <1>0, <2>1, <2>2, <2>3 DEF T!Away
<1>5. CASE T!NextWindow
  <2>1. /\ window' = window + 1 /\ spent' = 0 /\ opened' = 0 /\ excused' = 0 /\ visit' = visit
    BY <1>5 DEF T!NextWindow
  <2>2. Unrecorded' = 0
    BY <2>1 DEF Unrecorded
  <2>3. \A v \in Visits : visit[v].op \in {"signup", "record"} => visit[v].window # window'
    BY <2>1
  <2> QED BY <1>0, <2>1, <2>2, <2>3
<1>6. ASSUME NEW v \in Visits, NEW p \in Persons, NEW t \in Tenants, T!StartArchive(v, p, t) \/ T!StartLeave(v, p, t)
      PROVE  SignupInv'
  BY <1>1, <1>6 DEF T!StartArchive, T!StartLeave, T!Away
<1>7. ASSUME NEW v \in Visits, T!FinishArchive(v) \/ T!FinishLeave(v) \/ T!FinishDeactivate(v)
      PROVE  SignupInv'
  BY <1>1, <1>7 DEF T!FinishArchive, T!FinishLeave, T!FinishDeactivate, T!Away
<1>8. ASSUME NEW v \in Visits, NEW actor \in Operators, NEW o \in Operators, T!StartDeactivate(v, actor, o)
      PROVE  SignupInv'
  <2>1. /\ visit[v] = [op |-> "idle"] /\ UNCHANGED <<spent, window, opened, excused>>
        /\ visit' = [visit EXCEPT ![v] = [op |-> "deactivate", operator |-> o]]
    BY <1>8 DEF T!StartDeactivate, T!Away
  <2>2. PICK r : r = [op |-> "deactivate", operator |-> o]
    OBVIOUS
  <2>3. visit' = [visit EXCEPT ![v] = r] /\ r.op \notin {"signup", "record"} /\ visit[v].op # "record"
    BY <2>1, <2>2
  <2> QED BY <1>1, <2>1, <2>3, Zenon
<1>9. CASE UNCHANGED <<visit, spent, window, opened, excused>>
  BY <1>1, <1>9
<1>10. ASSUME NEW p \in Persons, NEW t \in Tenants,
              \/ T!CreateTenant(p, t) \/ T!Switch(p, t) \/ T!Unarchive(p, t)
              \/ \E role \in {"Owner", "Viewer"} : T!Join(p, t, role)
       PROVE  SignupInv'
  BY <1>9, <1>10 DEF T!CreateTenant, T!Switch, T!Unarchive, T!Join
<1>11. CASE \/ \E o \in Operators : T!Bootstrap(o)
            \/ \E actor, o \in Operators :
                  \/ T!Reactivate(actor, o)
                  \/ \E role \in {"PlatformSuperAdmin", "PlatformSupport"} : T!CreateOperator(actor, o, role)
            \/ \E t \in Tenants : T!PlatformArchive(t) \/ T!PlatformUnarchive(t)
            \/ UNCHANGED T!vars
  BY <1>9, <1>11 DEF T!Bootstrap, T!Reactivate, T!CreateOperator, T!PlatformArchive,
     T!PlatformUnarchive, T!vars
<1> QED BY <1>2, <1>3, <1>4, <1>5, <1>6, <1>7, <1>8, <1>10, <1>11 DEF T!Next

-----------------------------------------------------------------------------
(* Operators *)

OperatorRecord == [role: {"none", "PlatformSuperAdmin", "PlatformSupport"}, active: BOOLEAN]

(* Whoever is being deactivated is not the only super admin. *)
StaffInv ==
    /\ operators \in [Operators -> OperatorRecord]
    /\ \A o \in Operators : operators[o].active => operators[o].role # "none"
    /\ DOMAIN visit = Visits
    /\ \A v \in Visits : visit[v].op = "deactivate" =>
          /\ visit[v].operator \in Operators /\ operators[visit[v].operator].role # "none"
          /\ operators[visit[v].operator].role = "PlatformSuperAdmin" =>
                \E q \in T!Admins : q # visit[v].operator
    /\ T!AdminRemains

(* The platform starts without operators. *)
LEMMA StaffStart == ASSUME T!Init PROVE StaffInv
  BY DEF T!Init, StaffInv, OperatorRecord, T!NoSeat, T!Away, T!AdminRemains

(* Operators only grow in number and rank. *)
LEMMA StaffGrows ==
  ASSUME StaffInv, operators' \in [Operators -> OperatorRecord],
         \A o \in Operators : operators'[o].active => operators'[o].role # "none",
         T!Admins \subseteq T!Admins', T!Admins' # {} \/ UNCHANGED operators,
         \A o \in Operators : operators[o].role # "none" => operators'[o].role = operators[o].role,
         DOMAIN visit' = Visits,
         \A v \in Visits : visit'[v] = visit[v] \/ visit'[v].op # "deactivate"
  PROVE  StaffInv'
<1>1. T!AdminRemains'
  BY DEF StaffInv, T!AdminRemains, T!Admins
<1>2. \A v \in Visits : (visit'[v].op = "deactivate") =>
          /\ visit'[v].operator \in Operators /\ operators'[visit'[v].operator].role # "none"
          /\ operators'[visit'[v].operator].role = "PlatformSuperAdmin" =>
                \E q \in T!Admins' : q # visit'[v].operator
  BY DEF StaffInv
<1> QED BY <1>1, <1>2 DEF StaffInv

(* Every step leaves a super admin where there was one. *)
LEMMA StaffStep ==
  ASSUME CountsOK, Alone, StaffInv, [T!Next]_T!vars PROVE StaffInv'
<1>0. operators \in [Operators -> OperatorRecord] /\ DOMAIN visit = Visits
  BY DEF StaffInv
<1>1. ASSUME UNCHANGED operators, UNCHANGED visit \/ \E v \in Visits : \E r :
                visit' = [visit EXCEPT ![v] = r] /\ r.op # "deactivate"
      PROVE  StaffInv'
  <2>1. T!Admins' = T!Admins /\ \A o \in Operators : operators[o].active => operators[o].role # "none"
    BY <1>1 DEF T!Admins, StaffInv
  <2>2. DOMAIN visit' = Visits /\ \A v \in Visits : visit'[v] = visit[v] \/ visit'[v].op # "deactivate"
    BY <1>0, <1>1
  <2> QED BY <1>0, <1>1, <2>1, <2>2, StaffGrows
<1>2. ASSUME NEW o \in Operators, T!Bootstrap(o) PROVE StaffInv'
  <2>1. /\ operators' = [operators EXCEPT ![o] = [role |-> "PlatformSuperAdmin", active |-> TRUE]]
        /\ visit' = visit /\ \A q \in Operators : operators[q].role = "none"
    BY <1>2 DEF T!Bootstrap
  <2>2. o \in T!Admins' /\ T!Admins = {}
    BY <1>0, <2>1 DEF T!Admins
  <2> QED BY <1>0, <2>1, <2>2, StaffGrows DEF OperatorRecord, StaffInv
<1>3. ASSUME NEW actor \in Operators, NEW o \in Operators,
             NEW role \in {"PlatformSuperAdmin", "PlatformSupport"}, T!CreateOperator(actor, o,
             role)
      PROVE  StaffInv'
  <2>1. /\ operators' = [operators EXCEPT ![o] = [role |-> role, active |-> TRUE]]
        /\ visit' = visit /\ operators[o].role = "none" /\ actor \in T!Admins
    BY <1>3 DEF T!CreateOperator
  <2>2. T!Admins \subseteq T!Admins'
    BY <1>0, <2>1 DEF T!Admins
  <2> QED BY <1>0, <2>1, <2>2, StaffGrows DEF OperatorRecord, StaffInv
<1>4. ASSUME NEW actor \in Operators, NEW o \in Operators, T!Reactivate(actor, o) PROVE StaffInv'
  <2>1. /\ operators' = [operators EXCEPT ![o] = [operators[o] EXCEPT !.active = TRUE]]
        /\ visit' = visit /\ operators[o].role # "none" /\ actor \in T!Admins
        /\ operators[o] \in OperatorRecord
    BY <1>0, <1>4 DEF T!Reactivate
  <2>2. /\ operators' \in [Operators -> OperatorRecord]
        /\ \A q \in Operators : operators'[q].role = operators[q].role
        /\ \A q \in Operators : operators[q].active => operators'[q].active
    BY <1>0, <2>1 DEF OperatorRecord
  <2>3. T!Admins \subseteq T!Admins'
    BY <2>2 DEF T!Admins
  <2>4. \A q \in Operators : operators'[q].active => operators'[q].role # "none"
    BY <1>0, <2>1, <2>2 DEF StaffInv
  <2> QED BY <1>0, <2>1, <2>2, <2>3, <2>4, StaffGrows
<1>5. ASSUME NEW v \in Visits, NEW actor \in Operators, NEW o \in Operators, T!StartDeactivate(v, actor, o)
      PROVE  StaffInv'
  <2>1. /\ operators' = operators /\ visit' = [visit EXCEPT ![v] = [op |-> "deactivate", operator |-> o]]
        /\ operators[o].active
        /\ operators[o].role = "PlatformSuperAdmin" => Cardinality(T!Admins) > 1
    BY <1>5, TenantCards DEF T!StartDeactivate, T!MayDeactivate
  <2>2. operators[o].role = "PlatformSuperAdmin" => \E q \in T!Admins : q # o
    <3>1. IsFiniteSet(T!Admins)
      BY FS_Subset DEF CountsOK, T!Admins
    <3> QED BY <2>1, <3>1, AnotherOne
  <2>3. T!Admins' = T!Admins /\ (T!AdminRemains' <=> T!AdminRemains)
    BY <2>1 DEF T!Admins, T!AdminRemains
  <2> QED BY <1>0, <2>1, <2>2, <2>3 DEF StaffInv
<1>6. ASSUME NEW v \in Visits, T!FinishDeactivate(v) PROVE StaffInv'
  <2>1. PICK o \in Operators : /\ o = visit[v].operator /\ operators[o].role # "none"
                               /\ operators[o].role = "PlatformSuperAdmin" => \E q \in T!Admins : q # o
    BY <1>6 DEF StaffInv, T!FinishDeactivate
  <2>2. /\ operators' = [operators EXCEPT ![o] = [operators[o] EXCEPT !.active = FALSE]]
        /\ operators[o] \in OperatorRecord
        /\ visit' = [visit EXCEPT ![v] = T!Away]
    BY <1>0, <1>6, <2>1 DEF T!FinishDeactivate
  <2>3. /\ operators' \in [Operators -> OperatorRecord]
        /\ \A q \in Operators : operators'[q].role = operators[q].role
        /\ \A q \in Operators \ {o} : operators'[q] = operators[q]
        /\ ~operators'[o].active
    BY <1>0, <2>2 DEF OperatorRecord
  <2>4. \A q \in T!Admins : q # o => q \in T!Admins'
    BY <2>3 DEF T!Admins
  <2>5. T!Admins' # {}
    <3>1. CASE operators[o].role = "PlatformSuperAdmin"
      BY <3>1, <2>1, <2>4
    <3>2. CASE operators[o].role # "PlatformSuperAdmin"
      BY <3>2, <2>1, <2>4 DEF StaffInv, T!AdminRemains, T!Admins
    <3> QED BY <3>1, <3>2
  <2>6. \A q \in Operators : operators'[q].active => operators'[q].role # "none"
    BY <2>3 DEF StaffInv
  <2>7. DOMAIN visit' = Visits /\ \A w \in Visits : visit'[w] = T!Away
    BY <1>0, <2>2 DEF Alone
  <2> QED BY <2>3, <2>5, <2>6, <2>7 DEF StaffInv, T!AdminRemains, T!Away
<1>7. CASE UNCHANGED <<operators, visit>>
  BY <1>1, <1>7
<1>8. ASSUME NEW v \in Visits,
             \/ \E p \in Persons, down \in BOOLEAN : T!StartSignup(v, p, down)
             \/ \E t \in Tenants : T!FinishSignup(v, t)
             \/ \E down \in BOOLEAN : T!RecordSignup(v, down)
             \/ \E p \in Persons, t \in Tenants : T!StartArchive(v, p, t) \/ T!StartLeave(v, p, t)
             \/ T!FinishArchive(v) \/ T!FinishLeave(v)
      PROVE  StaffInv'
  BY <1>1, <1>8 DEF T!StartSignup, T!FinishSignup, T!RecordSignup, T!StartArchive, T!StartLeave,
         T!FinishArchive, T!FinishLeave, T!Away
<1>9. ASSUME NEW p \in Persons, NEW t \in Tenants,
             \/ T!CreateTenant(p, t) \/ T!Switch(p, t) \/ T!Unarchive(p, t)
             \/ \E role \in {"Owner", "Viewer"} : T!Join(p, t, role)
       PROVE  StaffInv'
  BY <1>7, <1>9 DEF T!CreateTenant, T!Switch, T!Unarchive, T!Join
<1>10. CASE \/ T!NextWindow \/ \E t \in Tenants : T!PlatformArchive(t) \/ T!PlatformUnarchive(t)
            \/ UNCHANGED T!vars
  BY <1>7, <1>10 DEF T!NextWindow, T!PlatformArchive, T!PlatformUnarchive, T!vars
<1> QED BY <1>2, <1>3, <1>4, <1>5, <1>6, <1>8, <1>9, <1>10 DEF T!Next

-----------------------------------------------------------------------------
(* The months of a fiscal year follow each other. *)
LEMMA MonthsTile == T!PeriodsTile
<1> USE DEF T!PeriodsTile
<1> TAKE first \in 1..12
<1>0. PICK ps : ps = T!SeedPeriods(2024, first)
  OBVIOUS
<1> DEFINE Mon(n) == IF first + n - 1 =< 12 THEN first + n - 1 ELSE first + n - 13
<1>1. \A n \in 1..12 : ((first - 1 + n - 1) % 12) + 1 = Mon(n)
  OBVIOUS
<1>2. \A n \in 1..12 : ps[n] = [number |-> n, year |-> IF Mon(n) < first THEN 2025 ELSE 2024, month |-> Mon(n)]
  BY <1>0, <1>1 DEF T!SeedPeriods
<1>3. \A n \in 1..12 : ps[n].month = Mon(n) /\ ps[n].year = IF Mon(n) < first THEN 2025 ELSE 2024
  BY <1>2
<1>4. ASSUME NEW n \in 1..11 PROVE T!NextMonth(ps[n]) = <<ps[n + 1].year, ps[n + 1].month>>
  <2>1. n \in 1..12 /\ n + 1 \in 1..12
    OBVIOUS
  <2>2. /\ ps[n].month = Mon(n) /\ ps[n].year = IF Mon(n) < first THEN 2025 ELSE 2024
        /\ ps[n + 1].month = Mon(n + 1) /\ ps[n + 1].year = IF Mon(n + 1) < first THEN 2025 ELSE 2024
    BY <1>3, <2>1
  <2>3. IF ps[n].month = 12 THEN ps[n + 1].year = ps[n].year + 1 /\ ps[n + 1].month = 1
        ELSE ps[n + 1].year = ps[n].year /\ ps[n + 1].month = ps[n].month + 1
    BY <2>2
  <2> QED BY <2>3 DEF T!NextMonth
<1>5. ps[1].year = 2024 /\ ps[1].month = first
  BY <1>3
<1> QED BY <1>0, <1>4, <1>5

TenancyInv == SeatsInv /\ SignupInv /\ StaffInv

(* The parts of the invariant hold at first, *)
LEMMA TenancyStart == ASSUME CountsOK, T!Init PROVE TenancyInv
  BY SeatsStart, SignupStart, StaffStart DEF TenancyInv

(* every step keeps them, *)
LEMMA TenancyStep == ASSUME CountsOK, Alone, TenancyInv, [T!Next]_T!vars PROVE TenancyInv'
  BY SeatsStep, SignupStep, StaffStep DEF TenancyInv

(* and what tenancy promises follows from them. *)
LEMMA TenancyImplies ==
  ASSUME TenancyInv
  PROVE  T!TenantOwned /\ T!KeepsWorkspace /\ T!SignupsLimited /\ T!AdminRemains /\ T!PeriodsTile
  BY MonthsTile DEF TenancyInv, SeatsInv, SignupInv, StaffInv

(* While requests do not overlap, every tenant keeps an active Owner,      *)
(* nobody archives their last workspace, sign-ups stay within the limit    *)
(* but for those the limiter could not see, the platform keeps a super     *)
(* admin, and the periods of a new tenant tile its fiscal year.            *)
THEOREM TenantsHold ==
  CountsOK /\ Alone =>
     (T!Spec => [](T!TenantOwned /\ T!KeepsWorkspace /\ T!SignupsLimited /\ T!AdminRemains /\ T!PeriodsTile))
<1> SUFFICES ASSUME CountsOK, Alone
             PROVE  T!Spec => [](T!TenantOwned /\ T!KeepsWorkspace /\ T!SignupsLimited /\ T!AdminRemains /\ T!PeriodsTile)
  OBVIOUS
<1>1. T!Init => TenancyInv
  BY TenancyStart
<1>2. TenancyInv /\ [T!Next]_T!vars => TenancyInv'
  BY TenancyStep
<1>3. TenancyInv => T!TenantOwned /\ T!KeepsWorkspace /\ T!SignupsLimited /\ T!AdminRemains /\ T!PeriodsTile
  BY TenancyImplies
<1> QED BY <1>1, <1>2, <1>3, PTL DEF T!Spec

-----------------------------------------------------------------------------
(* Access: accounts, sessions, suspension, roles and the permission cache, *)
(* for any number of accounts and tokens.  The checks that these           *)
(* properties rest on are separate statements in the code, so they are     *)
(* proved, as they are checked, of requests that do not overlap.           *)

(* Access counts as these proofs do. *)
LEMMA AccountCards == \A S : A!Cardinality(S) = Cardinality(S)
  BY DEF Cardinality, A!Cardinality, IsFiniteSet, A!IsFiniteSet

(* The lifetimes are numbers of hours, and accounts are finitely many.     *)
HoursOK ==
    /\ RefreshTtl \in Nat /\ InviteTtl \in Nat /\ ResetTtl \in Nat
    /\ IsFiniteSet(People)

(* One request with a check and a write at a time *)
OneByOne == \A q, r \in Requests : q = r

RoleNames == A!SystemRoles \cup Assigned

Accounts == [exists : BOOLEAN, role : RoleNames, active : BOOLEAN, password : BOOLEAN, link : Nat]

TokenRows == [user : People, role : RoleNames, expires : Nat, revoked : BOOLEAN, support : BOOLEAN,
              readonly : BOOLEAN, meant : BOOLEAN]

(* What a request in progress has read still holds when it writes.         *)
InHand(r) ==
    /\ r.op = "login" => /\ r.user \in People /\ r.role = people[r.user].role
                         /\ people[r.user].exists /\ people[r.user].active
    /\ r.op = "rotate" => /\ r.token \in DOMAIN tokens
                          /\ r.role = people[tokens[r.token].user].role
                          /\ people[tokens[r.token].user].active
    /\ r.op = "update" => /\ r.user \in People /\ r.role \in RoleNames /\ r.active \in BOOLEAN
                          /\ people[r.user].exists

BadgeOK(b) == /\ b.user \in People /\ b.readonly \in BOOLEAN /\ b.iat \in Nat /\ b.iat =< hour
              /\ people[b.user].exists

AccountOK(u) == (people[u].active => people[u].exists) /\ (people[u].link # 0 => people[u].exists)

AccessType ==
    /\ hour \in Nat
    /\ people \in [People -> Accounts]
    /\ changed \in [People -> Nat]
    /\ tokens \in Seq(TokenRows)
    /\ DOMAIN request = Requests
    /\ \A u \in People : AccountOK(u)
    /\ \A b \in badges : BadgeOK(b)
    /\ \A t \in DOMAIN tokens : people[tokens[t].user].exists
    /\ \A q \in Requests : InHand(request[q])

-----------------------------------------------------------------------------
(* The tables are empty and well formed at first. *)
LEMMA TypeStart == ASSUME HoursOK, A!Init PROVE AccessType
<1>1. A!Nobody \in Accounts
  BY DEF A!Nobody, Accounts, RoleNames, A!SystemRoles
<1>2. /\ hour = 1 /\ people = [u \in People |-> A!Nobody] /\ tokens = <<>> /\ badges = {}
      /\ request = [q \in Requests |-> A!Idle] /\ changed = [u \in People |-> 0]
  BY DEF A!Init
<1>3. \A u \in People : AccountOK(u)
  BY <1>2 DEF AccountOK, A!Nobody
<1>4. \A q \in Requests : InHand(request[q])
  BY <1>2 DEF InHand, A!Idle
<1>5. tokens \in Seq(TokenRows) /\ DOMAIN tokens = {}
  BY <1>2
<1> QED BY <1>1, <1>2, <1>3, <1>4, <1>5 DEF AccessType

(* What an edit of one account leaves alone *)
LEMMA EditKeeps ==
  ASSUME HoursOK, AccessType, NEW u \in People, NEW a \in Accounts, a.exists,
         people' = [people EXCEPT ![u] = a],
         people[u].exists => a.role = people[u].role /\ (people[u].active => a.active)
  PROVE  /\ people' \in [People -> Accounts]
         /\ \A v \in People : people'[v] = IF v = u THEN a ELSE people[v]
         /\ \A v \in People : AccountOK(v)'
         /\ \A v \in People : people[v].exists => /\ people'[v].exists
                                                  /\ people'[v].role = people[v].role
                                                  /\ people[v].active => people'[v].active
<1>1. /\ people' \in [People -> Accounts]
      /\ \A v \in People : people'[v] = IF v = u THEN a ELSE people[v]
  BY DEF AccessType
<1>2. \A v \in People : AccountOK(v)'
  BY <1>1 DEF AccessType, AccountOK
<1> QED BY <1>1, <1>2

(* A changed account is an account, and the hour of the change is noted. *)
LEMMA ChangeTyped ==
  ASSUME AccessType, NEW u \in People, NEW a \in Accounts, A!Change(u, a)
  PROVE  /\ changed' \in [People -> Nat]
         /\ people' = [people EXCEPT ![u] = a]
  BY DEF A!Change, AccessType

(* Accounts only gain, and tokens are only added or marked. *)
PeopleGain ==
    \A v \in People : people[v].exists => /\ people'[v].exists
                                          /\ people'[v].role = people[v].role
                                          /\ people[v].active => people'[v].active

TokensGrow ==
    /\ tokens' \in Seq(TokenRows)
    /\ \A t \in DOMAIN tokens : t \in DOMAIN tokens' /\ tokens'[t].user = tokens[t].user

(* What was said of badges, tokens and requests stays true when accounts *)
(* only gain and tokens are only added.                                  *)
LEMMA RestKept ==
  ASSUME HoursOK, AccessType, PeopleGain, TokensGrow, hour' = hour
  PROVE  /\ \A b \in badges : BadgeOK(b)'
         /\ \A t \in DOMAIN tokens : people'[tokens'[t].user].exists
         /\ request' = request => \A q \in Requests : InHand(request[q])'
<1>0. \A t \in DOMAIN tokens : t \in DOMAIN tokens' /\ tokens'[t].user = tokens[t].user
  BY DEF TokensGrow
<1>1. \A b \in badges : BadgeOK(b)'
  BY DEF AccessType, BadgeOK, PeopleGain
<1>2. \A t \in DOMAIN tokens : tokens[t].user \in People
  <2>1. \A t \in DOMAIN tokens : tokens[t] \in TokenRows
    BY DEF AccessType
  <2> QED BY <2>1 DEF TokenRows
<1>3. ASSUME request' = request, NEW q \in Requests PROVE InHand(request[q])'
  <2>1. InHand(request[q])
    BY DEF AccessType
  <2>2. request[q].op = "rotate" => /\ tokens[request[q].token].user \in People
                                    /\ people[tokens[request[q].token].user].exists
    BY <2>1, <1>2 DEF InHand, AccessType
  <2>3. request[q].op = "rotate" => /\ request[q].token \in DOMAIN tokens'
                                    /\ tokens'[request[q].token].user = tokens[request[q].token].user
    BY <1>0, <2>1 DEF InHand
  <2> QED BY <1>3, <2>1, <2>2, <2>3 DEF InHand, PeopleGain
<1>4. \A t \in DOMAIN tokens : people'[tokens'[t].user].exists
  <2>1. \A t \in DOMAIN tokens : people[tokens[t].user].exists
    BY DEF AccessType
  <2> QED BY <1>0, <1>2, <2>1 DEF PeopleGain
<1> QED BY <1>1, <1>3, <1>4

(* Tokens that rest are all still there. *)
LEMMA TokensSame == ASSUME AccessType, tokens' = tokens PROVE TokensGrow
  BY DEF AccessType, TokensGrow

(* A token put behind the others leaves their users in place. *)
LEMMA TokensAppend ==
  ASSUME NEW s \in Seq(TokenRows), NEW row \in TokenRows, tokens' = Append(s, row),
         Len(s) = Len(tokens), tokens \in Seq(TokenRows),
         \A t \in DOMAIN tokens : s[t].user = tokens[t].user
  PROVE  /\ TokensGrow
         /\ DOMAIN tokens' = DOMAIN tokens \cup {Len(tokens) + 1}
         /\ Len(tokens') = Len(tokens) + 1
         /\ \A t \in DOMAIN tokens : tokens'[t] = s[t]
         /\ tokens'[Len(tokens) + 1] = row
         /\ Len(tokens) + 1 \notin DOMAIN tokens
<1>1. Len(tokens) \in Nat /\ DOMAIN tokens = 1..Len(tokens) /\ DOMAIN s = DOMAIN tokens
  OBVIOUS
<1>2. /\ tokens' \in Seq(TokenRows) /\ Len(tokens') = Len(tokens) + 1
      /\ \A t \in DOMAIN tokens : tokens'[t] = s[t]
      /\ tokens'[Len(tokens) + 1] = row
  BY <1>1
<1>3. DOMAIN tokens' = 1..(Len(tokens) + 1)
  BY <1>2
<1> QED BY <1>1, <1>2, <1>3 DEF TokensGrow

Marked(t) == [tokens EXCEPT ![t].revoked = TRUE]

(* A token struck keeps everything else. *)
LEMMA TokenMarked ==
  ASSUME AccessType, NEW t \in DOMAIN tokens, NEW s, s = Marked(t)
  PROVE  /\ s \in Seq(TokenRows) /\ Len(s) = Len(tokens) /\ DOMAIN s = DOMAIN tokens
         /\ \A x \in DOMAIN tokens : s[x] = IF x = t THEN [tokens[x] EXCEPT !.revoked = TRUE] ELSE tokens[x]
         /\ \A x \in DOMAIN tokens : /\ s[x].user = tokens[x].user /\ s[x].readonly = tokens[x].readonly
                                     /\ s[x].meant = tokens[x].meant
                                     /\ s[x].revoked = (x = t \/ tokens[x].revoked)
                                     /\ (tokens[x].revoked => s[x].revoked)
<1>1. tokens \in Seq(TokenRows) /\ DOMAIN tokens = 1..Len(tokens) /\ Len(tokens) \in Nat
  BY DEF AccessType
<1>2. \A x \in DOMAIN tokens : tokens[x] \in TokenRows
  BY <1>1
<1>3. \A x \in DOMAIN tokens : s[x] = IF x = t THEN [tokens[x] EXCEPT !.revoked = TRUE] ELSE tokens[x]
  BY <1>1 DEF Marked
<1>4. \A x \in DOMAIN tokens : s[x] \in TokenRows
  BY <1>2, <1>3 DEF TokenRows
<1>5. s \in Seq(TokenRows) /\ Len(s) = Len(tokens) /\ DOMAIN s = DOMAIN tokens
  <2>1. s \in [1..Len(tokens) -> TokenRows]
    BY <1>1, <1>4 DEF Marked
  <2> QED BY <1>1, <2>1
<1>6. \A x \in DOMAIN tokens : /\ s[x].user = tokens[x].user /\ s[x].readonly = tokens[x].readonly
                                 /\ s[x].meant = tokens[x].meant
                                 /\ s[x].revoked = (x = t \/ tokens[x].revoked)
                                 /\ (tokens[x].revoked => s[x].revoked)
  BY <1>2, <1>3 DEF TokenRows
<1> QED BY <1>3, <1>5, <1>6

(* A token that is issued is well formed. *)
LEMMA TokenTyped ==
  ASSUME HoursOK, hour \in Nat, NEW u \in People, NEW role \in RoleNames, NEW support \in BOOLEAN,
         NEW readonly \in BOOLEAN, NEW meant \in BOOLEAN
  PROVE  A!Token(u, role, support, readonly, meant) \in TokenRows
  BY DEF HoursOK, A!Token, TokenRows

(* An account that gains: it exists, and keeps its role and its state if it did before *)
Gains(u) ==
    /\ \E v \in People : people[v].exists
    /\ \E a \in Accounts : /\ A!Change(u, a) /\ a.exists
                           /\ people[u].exists => a.role = people[u].role /\ (people[u].active => a.active)
    /\ UNCHANGED <<hour, tokens, badges, request, logins, swept>>

(* Invitations and passwords only add to an account. *)
LEMMA AccountGains ==
  ASSUME HoursOK, AccessType, NEW u \in People,
         \/ A!ForgotPassword(u) \/ A!SetPassword(u)
         \/ \E b \in badges : \/ A!ResendInvite(b, u)
                              \/ \E role \in Assigned, password \in BOOLEAN : A!Invite(b, u, role, password)
  PROVE  Gains(u)
<1> DEFINE A1 == [people[u] EXCEPT !.link = hour + ResetTtl]
           A2 == [people[u] EXCEPT !.password = TRUE, !.active = TRUE, !.link = 0]
           A3 == [people[u] EXCEPT !.link = hour + InviteTtl]
<1>0. people[u] \in Accounts /\ hour \in Nat /\ AccountOK(u)
  BY DEF AccessType
<1>1. CASE A!ForgotPassword(u)
  <2>1. A1 \in Accounts /\ A1.role = people[u].role /\ A1.active = people[u].active /\ A1.exists = people[u].exists
    BY <1>0 DEF HoursOK, Accounts
  <2>2. A!Change(u, A1) /\ people[u].exists /\ UNCHANGED <<hour, tokens, badges, request, logins, swept>>
    BY <1>1 DEF A!ForgotPassword
  <2> HIDE DEF A1
  <2> QED BY <2>1, <2>2 DEF Gains
<1>2. CASE A!SetPassword(u)
  <2>1. A2 \in Accounts /\ A2.role = people[u].role /\ A2.active /\ A2.exists = people[u].exists
    BY <1>0 DEF Accounts
  <2>2. A!Change(u, A2) /\ people[u].link > hour /\ UNCHANGED <<hour, tokens, badges, request, logins, swept>>
    BY <1>2 DEF A!SetPassword
  <2>3. people[u].exists
    BY <1>0, <2>2 DEF AccountOK, Accounts
  <2> HIDE DEF A2
  <2> QED BY <2>1, <2>2, <2>3 DEF Gains
<1>3. ASSUME NEW b \in badges, A!ResendInvite(b, u) PROVE Gains(u)
  <2>1. A3 \in Accounts /\ A3.role = people[u].role /\ A3.active = people[u].active /\ A3.exists = people[u].exists
    BY <1>0 DEF HoursOK, Accounts
  <2>2. A!Change(u, A3) /\ people[u].exists /\ UNCHANGED <<hour, tokens, badges, request, logins, swept>>
    BY <1>3 DEF A!ResendInvite
  <2> HIDE DEF A3
  <2> QED BY <2>1, <2>2 DEF Gains
<1>4. ASSUME NEW b \in badges, NEW role \in Assigned, NEW password \in BOOLEAN, A!Invite(b, u, role, password)
      PROVE  Gains(u)
  <2> DEFINE A4 == [exists |-> TRUE, role |-> role, active |-> TRUE, password |-> password,
                    link |-> IF password THEN 0 ELSE hour + InviteTtl]
  <2>1. A4 \in Accounts /\ A4.exists
    BY <1>0 DEF HoursOK, Accounts, RoleNames
  <2>2. A!Change(u, A4) /\ ~people[u].exists /\ UNCHANGED <<hour, tokens, badges, request, logins, swept>>
    BY <1>4 DEF A!Invite
  <2>3. b.user \in People /\ people[b.user].exists
    BY DEF AccessType, BadgeOK
  <2> HIDE DEF A4
  <2> QED BY <2>1, <2>2, <2>3 DEF Gains
<1> QED BY <1>1, <1>2, <1>3, <1>4

(* An account that gains leaves the tables well formed. *)
LEMMA GainsTyped ==
  ASSUME HoursOK, AccessType, NEW u \in People, Gains(u)
  PROVE  AccessType' /\ PeopleGain
<1>1. PICK a \in Accounts : /\ A!Change(u, a) /\ a.exists
                            /\ people[u].exists => a.role = people[u].role /\ (people[u].active => a.active)
                            /\ UNCHANGED <<hour, tokens, badges, request>>
  BY DEF Gains
<1>2. changed' \in [People -> Nat] /\ people' = [people EXCEPT ![u] = a]
  BY <1>1, ChangeTyped
<1>3. /\ people' \in [People -> Accounts]
      /\ \A v \in People : AccountOK(v)'
      /\ PeopleGain
  BY <1>1, <1>2, EditKeeps DEF PeopleGain
<1>4. /\ \A c \in badges : BadgeOK(c)'
      /\ \A t \in DOMAIN tokens : people'[tokens'[t].user].exists
      /\ \A q \in Requests : InHand(request[q])'
  BY <1>1, <1>3, RestKept, TokensSame
<1> QED BY <1>1, <1>2, <1>3, <1>4 DEF AccessType

(* A session begun by an account that exists and is active, as the role it has *)
Begins(u, support, readonly) ==
    /\ people[u].exists /\ people[u].active
    /\ A!Issue(u, people[u].role, support, readonly)
    /\ UNCHANGED <<hour, people, changed, swept>>
    /\ DOMAIN request' = Requests
    /\ UNCHANGED request \/ \A q \in Requests : request'[q] = A!Idle

Keeps == UNCHANGED <<hour, people, tokens, badges, changed, logins, swept>>

(* The request in progress is one that only reads or is about roles. *)
Elsewhere ==
    /\ DOMAIN request' = Requests
    /\ \A q \in Requests : request'[q].op \notin {"login", "rotate", "update"}

(* Each step is of one of these kinds. *)
LEMMA AccessKinds ==
  ASSUME HoursOK, OneByOne, AccessType, [A!Next]_A!vars
  PROVE  \/ \E u \in People : Gains(u) \/ A!Register(u)
         \/ \E u \in People, support, readonly \in BOOLEAN : Begins(u, support, readonly)
         \/ \E q \in Requests : A!Rotate(q) \/ A!ApplyUpdate(q) \/ A!RevokeAll(q)
         \/ \E t \in DOMAIN tokens : A!Logout(t)
         \/ A!HourPasses
         \/ Keeps /\ (UNCHANGED request \/ Elsewhere)
         \/ \E q \in Requests :
               \/ \E u \in People : A!StartLogin(q, u)
               \/ \E t \in DOMAIN tokens : A!StartRefresh(q, t)
               \/ \E b \in badges, u \in People, role \in Assigned, active \in BOOLEAN :
                     A!StartUpdate(q, b, u, role, active)
<1>1. CASE \E u \in People : \/ A!ForgotPassword(u) \/ A!SetPassword(u)
                             \/ \E b \in badges : \/ A!ResendInvite(b, u)
                                                  \/ \E role \in Assigned, password \in BOOLEAN : A!Invite(b, u, role, password)
  BY <1>1, AccountGains
<1>2. ASSUME NEW u \in People, NEW readonly \in BOOLEAN, A!Impersonate(u, readonly)
      PROVE  Begins(u, TRUE, readonly)
  BY <1>2 DEF A!Impersonate, Begins, AccessType
<1>3. ASSUME NEW q \in Requests, A!FinishLogin(q)
      PROVE  \E u \in People : Begins(u, FALSE, FALSE)
  <2>1. /\ InHand(request[q]) /\ request[q].op = "login" /\ DOMAIN request = Requests
        /\ A!Issue(request[q].user, request[q].role, FALSE, FALSE)
        /\ request' = [request EXCEPT ![q] = A!Idle]
        /\ UNCHANGED <<hour, people, changed, swept>>
    BY <1>3 DEF A!FinishLogin, AccessType
  <2>2. /\ request[q].user \in People /\ request[q].role = people[request[q].user].role
        /\ people[request[q].user].exists /\ people[request[q].user].active
    BY <2>1 DEF InHand
  <2>3. DOMAIN request' = Requests /\ \A r \in Requests : request'[r] = A!Idle
    BY <2>1 DEF OneByOne
  <2> QED BY <2>1, <2>2, <2>3 DEF Begins
<1>4. ASSUME NEW q \in Requests,
             \/ A!Suspend(q) \/ A!FinishLoad(q) \/ A!Clear(q) \/ A!FinishDelete(q)
             \/ \E b \in badges : \/ A!StartLoad(q, b)
                                  \/ \E key \in Custom :
                                       \/ A!StartDelete(q, b, key)
                                       \/ \E g \in Grants : A!CreateRole(q, b, key, g) \/ A!UpdateRole(q, b, key, g)
      PROVE  Keeps /\ Elsewhere
  <2>0. DOMAIN request = Requests
    BY DEF AccessType
  <2>1. CASE A!Suspend(q) \/ A!FinishLoad(q) \/ A!Clear(q) \/ A!FinishDelete(q)
    BY <2>0, <2>1 DEF A!Suspend, A!FinishLoad, A!Clear, A!FinishDelete, Keeps, Elsewhere,
       OneByOne, A!Idle
  <2>2. ASSUME NEW b \in badges, A!StartLoad(q, b) PROVE Keeps /\ Elsewhere
    BY <2>0, <2>2 DEF A!StartLoad, Keeps, Elsewhere, OneByOne
  <2>3. ASSUME NEW b \in badges, NEW key \in Custom, A!StartDelete(q, b, key)
        PROVE  Keeps /\ Elsewhere
    BY <2>0, <2>3 DEF A!StartDelete, Keeps, Elsewhere, OneByOne
  <2>4. ASSUME NEW b \in badges, NEW key \in Custom, NEW g \in Grants, A!CreateRole(q, b, key, g)
        PROVE  Keeps /\ Elsewhere
    BY <2>0, <2>4 DEF A!CreateRole, Keeps, Elsewhere, OneByOne
  <2>5. ASSUME NEW b \in badges, NEW key \in Custom, NEW g \in Grants, A!UpdateRole(q, b, key, g)
        PROVE  Keeps /\ Elsewhere
    BY <2>0, <2>5 DEF A!UpdateRole, Keeps, Elsewhere, OneByOne
  <2> QED BY <1>4, <2>1, <2>2, <2>3, <2>4, <2>5
<1>5. CASE A!Unsuspend \/ UNCHANGED A!vars
  BY <1>5 DEF A!Unsuspend, A!vars, Keeps
<1> QED BY <1>1, <1>2, <1>3, <1>4, <1>5, Zenon DEF A!Next

(* A registration leaves the tables well formed. *)
LEMMA RegisterTyped ==
  ASSUME HoursOK, AccessType, NEW u \in People, A!Register(u)
  PROVE  AccessType' /\ PeopleGain
<1>1. PICK a : a = [exists |-> TRUE, role |-> "Owner", active |-> TRUE, password |-> TRUE, link |-> 0]
  OBVIOUS
<1>2. /\ ~people[u].exists /\ A!Change(u, a) /\ A!Issue(u, "Owner", FALSE, FALSE) /\ UNCHANGED <<hour, request>>
      /\ a \in Accounts /\ a.exists
  BY <1>1 DEF A!Register, Accounts, RoleNames, A!SystemRoles
<1>3. changed' \in [People -> Nat] /\ people' = [people EXCEPT ![u] = a]
  BY <1>2, ChangeTyped
<1>4. /\ people' \in [People -> Accounts]
      /\ \A v \in People : AccountOK(v)'
      /\ PeopleGain
      /\ people'[u].exists
  BY <1>2, <1>3, EditKeeps DEF PeopleGain
<1>5. PICK row \in TokenRows : row = A!Token(u, "Owner", FALSE, FALSE, FALSE) /\ row.user = u
  <2>1. "Owner" \in RoleNames
    BY DEF RoleNames, A!SystemRoles
  <2> QED BY <2>1, TokenTyped DEF AccessType, A!Token
<1>6. /\ tokens' = Append(tokens, row) /\ badges' = badges \cup {A!Badge(u, "Owner", FALSE, FALSE)}
  BY <1>2, <1>5 DEF A!Issue
<1>7. /\ TokensGrow /\ DOMAIN tokens' = DOMAIN tokens \cup {Len(tokens) + 1}
      /\ tokens'[Len(tokens) + 1] = row
  BY <1>6, TokensAppend DEF AccessType
<1>8. /\ \A c \in badges : BadgeOK(c)'
      /\ \A t \in DOMAIN tokens : people'[tokens'[t].user].exists
      /\ \A q \in Requests : InHand(request[q])'
  BY <1>2, <1>4, <1>7, RestKept
<1>9. \A c \in badges' : BadgeOK(c)'
  <2>1. BadgeOK(A!Badge(u, "Owner", FALSE, FALSE))'
    BY <1>2, <1>4 DEF BadgeOK, A!Badge, AccessType
  <2>2. \A c \in badges' : c \in badges \/ c = A!Badge(u, "Owner", FALSE, FALSE)
    BY <1>6
  <2> QED BY <1>8, <2>1, <2>2, <1>2 DEF BadgeOK, A!Badge, AccessType
<1>10. \A t \in DOMAIN tokens' : people'[tokens'[t].user].exists
  BY <1>4, <1>5, <1>7, <1>8
<1> QED BY <1>2, <1>3, <1>4, <1>7, <1>8, <1>9, <1>10 DEF AccessType, TokensGrow

(* What a token in the table looks like, field by field. *)
LEMMA TokenFacts ==
  ASSUME AccessType, NEW t \in DOMAIN tokens
  PROVE  /\ tokens[t] \in TokenRows /\ tokens[t].user \in People /\ tokens[t].revoked \in BOOLEAN
         /\ tokens[t].support \in BOOLEAN /\ tokens[t].readonly \in BOOLEAN /\ tokens[t].meant \in BOOLEAN
         /\ people[tokens[t].user].exists
<1>1. tokens[t] \in TokenRows
  BY DEF AccessType
<1> QED BY <1>1 DEF TokenRows, AccessType

(* Accounts that rest have lost nothing. *)
LEMMA SamePeople == ASSUME UNCHANGED people PROVE PeopleGain
  BY DEF PeopleGain

(* A session that is begun or renewed adds a token and a badge. *)
Adds(s, u, role, support, readonly, meant) ==
    /\ u \in People /\ people[u].exists /\ role \in RoleNames
    /\ support \in BOOLEAN /\ readonly \in BOOLEAN /\ meant \in BOOLEAN
    /\ s \in Seq(TokenRows) /\ Len(s) = Len(tokens) /\ \A t \in DOMAIN tokens : s[t].user = tokens[t].user
    /\ tokens' = Append(s, A!Token(u, role, support, readonly, meant))
    /\ badges' = badges \cup {A!Badge(u, role, support, readonly)}
    /\ UNCHANGED <<hour, people, changed>> /\ DOMAIN request' = Requests
    /\ UNCHANGED request \/ \A q \in Requests : request'[q] = A!Idle

(* A session that is opened leaves the tables well formed. *)
LEMMA SessionTyped ==
  ASSUME HoursOK, AccessType, NEW s, NEW u, NEW role, NEW support, NEW readonly, NEW meant,
         Adds(s, u, role, support, readonly, meant)
  PROVE  AccessType'
<1> USE DEF Adds
<1>1. PICK row \in TokenRows : row = A!Token(u, role, support, readonly, meant) /\ row.user = u
  BY TokenTyped DEF AccessType, A!Token
<1>2. tokens \in Seq(TokenRows) /\ tokens' = Append(s, row)
  BY <1>1 DEF AccessType
<1>3. /\ TokensGrow /\ DOMAIN tokens' = DOMAIN tokens \cup {Len(tokens) + 1}
      /\ tokens'[Len(tokens) + 1] = row
  BY <1>2, TokensAppend
<1>4. PeopleGain /\ hour' = hour
  BY SamePeople
<1>5. /\ \A c \in badges : BadgeOK(c)'
      /\ \A t \in DOMAIN tokens : people'[tokens'[t].user].exists
      /\ UNCHANGED request => \A q \in Requests : InHand(request[q])'
  BY <1>3, <1>4, RestKept
<1>6. \A c \in badges' : BadgeOK(c)'
  <2>1. \A c \in badges' : c \in badges \/ c = A!Badge(u, role, support, readonly)
    OBVIOUS
  <2> QED BY <1>5, <2>1 DEF BadgeOK, A!Badge, AccessType
<1>7. \A t \in DOMAIN tokens' : people'[tokens'[t].user].exists
  BY <1>1, <1>3, <1>5
<1>8. \A q \in Requests : InHand(request[q])'
  BY <1>5 DEF InHand, A!Idle
<1>9. /\ hour' \in Nat /\ people' \in [People -> Accounts] /\ changed' \in [People -> Nat]
      /\ \A v \in People : AccountOK(v)'
  BY DEF AccessType, AccountOK
<1> QED BY <1>3, <1>6, <1>7, <1>8, <1>9 DEF AccessType, TokensGrow

(* So does a login, with or without support. *)
LEMMA BeginsTyped ==
  ASSUME HoursOK, AccessType, NEW u \in People, NEW support \in BOOLEAN, NEW readonly \in BOOLEAN,
         Begins(u, support, readonly)
  PROVE  AccessType'
<1>1. people[u].role \in RoleNames /\ tokens \in Seq(TokenRows)
  BY DEF AccessType, Accounts
<1>2. Adds(tokens, u, people[u].role, support, readonly, readonly)
  BY <1>1 DEF Begins, A!Issue, Adds
<1> QED BY <1>2, SessionTyped

(* What a rotation finds and writes while no other request runs. *)
LEMMA RotateFacts ==
  ASSUME HoursOK, OneByOne, AccessType, NEW q \in Requests, A!Rotate(q)
  PROVE  /\ request[q].op = "rotate"
         /\ request[q].token \in DOMAIN tokens
         /\ request[q].role = people[tokens[request[q].token].user].role
         /\ people[tokens[request[q].token].user].active
         /\ \E s \in Seq(TokenRows) :
               /\ s = Marked(request[q].token)
               /\ tokens' = Append(s, A!Token(tokens[request[q].token].user, request[q].role,
                                            tokens[request[q].token].support, tokens[request[q].token].readonly,
                                            tokens[request[q].token].meant))
         /\ badges' = badges \cup {A!Badge(tokens[request[q].token].user, request[q].role,
                                         tokens[request[q].token].support, tokens[request[q].token].readonly)}
         /\ DOMAIN request' = Requests /\ \A r \in Requests : request'[r] = A!Idle
         /\ UNCHANGED <<hour, people, roles, cache, barred, logins, changed, swept>>
<1>1. InHand(request[q]) /\ DOMAIN request = Requests
  BY DEF AccessType
<1>2. request[q].op = "rotate" /\ request' = [request EXCEPT ![q] = A!Idle]
  BY DEF A!Rotate
<1>3. /\ request[q].token \in DOMAIN tokens
      /\ request[q].role = people[tokens[request[q].token].user].role
      /\ people[tokens[request[q].token].user].active
  BY <1>1, <1>2 DEF InHand
<1>4. DOMAIN request' = Requests /\ \A r \in Requests : request'[r] = A!Idle
  BY <1>1, <1>2 DEF OneByOne
<1>5. PICK s : s = [tokens EXCEPT ![request[q].token].revoked = TRUE]
  OBVIOUS
<1>6. s \in Seq(TokenRows)
  <2>1. PICK t \in DOMAIN tokens : t = request[q].token
    BY <1>3
  <2>2. s = Marked(t)
    BY <1>5, <2>1 DEF Marked
  <2> QED BY <2>2, TokenMarked
<1> QED BY <1>2, <1>3, <1>4, <1>5, <1>6 DEF A!Rotate, Marked

(* A rotation leaves the tables well formed. *)
LEMMA RotateTyped ==
  ASSUME HoursOK, OneByOne, AccessType, NEW q \in Requests, A!Rotate(q)
  PROVE  AccessType'
<1>1. PICK old : old = request[q].token
  OBVIOUS
<1>2. /\ old \in DOMAIN tokens /\ request[q].role = people[tokens[old].user].role
      /\ badges' = badges \cup {A!Badge(tokens[old].user, request[q].role, tokens[old].support, tokens[old].readonly)}
      /\ DOMAIN request' = Requests /\ \A r \in Requests : request'[r] = A!Idle
      /\ UNCHANGED <<hour, people, changed>>
  BY <1>1, RotateFacts
<1>3. PICK s \in Seq(TokenRows) :
         /\ s = Marked(old)
         /\ tokens' = Append(s, A!Token(tokens[old].user, request[q].role, tokens[old].support,
                                      tokens[old].readonly, tokens[old].meant))
  BY <1>1, RotateFacts
<1>4. /\ Len(s) = Len(tokens) /\ \A t \in DOMAIN tokens : s[t].user = tokens[t].user
  BY <1>2, <1>3, TokenMarked
<1>5. /\ tokens[old].user \in People /\ tokens[old].support \in BOOLEAN /\ tokens[old].readonly \in BOOLEAN
      /\ tokens[old].meant \in BOOLEAN /\ people[tokens[old].user].exists
  BY <1>2, TokenFacts
<1>6. request[q].role \in RoleNames
  BY <1>2, <1>5 DEF AccessType, Accounts
<1>7. Adds(s, tokens[old].user, request[q].role, tokens[old].support, tokens[old].readonly, tokens[old].meant)
  BY <1>2, <1>3, <1>4, <1>5, <1>6 DEF Adds
<1> QED BY <1>7, SessionTyped

(* What an update finds and writes while no other request runs. *)
LEMMA UpdateFacts ==
  ASSUME HoursOK, OneByOne, AccessType, NEW q \in Requests, A!ApplyUpdate(q)
  PROVE  /\ request[q].op = "update" /\ request[q].user \in People
         /\ request[q].role \in RoleNames /\ request[q].active \in BOOLEAN
         /\ people[request[q].user].exists
         /\ \E a \in Accounts : /\ a.role = request[q].role /\ a.active = request[q].active /\ a.exists
                                /\ A!Change(request[q].user, a)
         /\ DOMAIN request' = Requests /\ \A r \in Requests : request'[r] = A!Idle
         /\ UNCHANGED <<hour, tokens, badges, logins, swept>>
<1>1. InHand(request[q]) /\ DOMAIN request = Requests
  BY DEF AccessType
<1>2. /\ request[q].op = "update" /\ request' = [request EXCEPT ![q] = A!Idle]
      /\ A!Change(request[q].user, [people[request[q].user] EXCEPT !.role = request[q].role, !.active = request[q].active])
      /\ UNCHANGED <<hour, tokens, badges, logins, swept>>
  BY DEF A!ApplyUpdate
<1>3. /\ request[q].user \in People
      /\ request[q].role \in RoleNames /\ request[q].active \in BOOLEAN
      /\ people[request[q].user].exists
  BY <1>1, <1>2 DEF InHand
<1>4. DOMAIN request' = Requests /\ \A r \in Requests : request'[r] = A!Idle
  BY <1>1, <1>2 DEF OneByOne
<1>5. PICK a : a = [people[request[q].user] EXCEPT !.role = request[q].role, !.active = request[q].active]
  OBVIOUS
<1>6. people[request[q].user] \in Accounts
  BY <1>3 DEF AccessType
<1>7. a \in Accounts /\ a.role = request[q].role /\ a.active = request[q].active /\ a.exists
  BY <1>3, <1>5, <1>6 DEF Accounts
<1> QED BY <1>2, <1>3, <1>4, <1>5, <1>7

(* An update leaves the tables well formed. *)
LEMMA UpdateTyped ==
  ASSUME HoursOK, OneByOne, AccessType, NEW q \in Requests, A!ApplyUpdate(q)
  PROVE  AccessType'
<1>1. PICK u \in People : u = request[q].user
  BY UpdateFacts
<1>2. PICK a \in Accounts : a.exists /\ A!Change(u, a)
  BY <1>1, UpdateFacts
<1>3. changed' \in [People -> Nat] /\ people' = [people EXCEPT ![u] = a]
  BY <1>2, ChangeTyped
<1>4. /\ UNCHANGED <<hour, tokens, badges>> /\ DOMAIN request' = Requests
      /\ \A r \in Requests : request'[r] = A!Idle
  BY UpdateFacts
<1>5. people' \in [People -> Accounts] /\ \A v \in People : people'[v] = IF v = u THEN a ELSE people[v]
  BY <1>3 DEF AccessType
<1>6. \A v \in People : people[v].exists => people'[v].exists
  BY <1>2, <1>5
<1>7. \A v \in People : AccountOK(v)'
  BY <1>2, <1>5 DEF AccountOK, AccessType
<1>8. \A c \in badges : BadgeOK(c)'
  BY <1>4, <1>6 DEF BadgeOK, AccessType
<1>9. \A t \in DOMAIN tokens : people'[tokens[t].user].exists
  BY <1>6, TokenFacts
<1>10. \A r \in Requests : InHand(request[r])'
  BY <1>4 DEF InHand, A!Idle
<1> QED BY <1>3, <1>4, <1>5, <1>7, <1>8, <1>9, <1>10 DEF AccessType

(* Tokens that are only marked *)
LEMMA MarkTyped ==
  ASSUME HoursOK, AccessType, tokens' \in Seq(TokenRows), DOMAIN tokens' = DOMAIN tokens,
         \A t \in DOMAIN tokens : tokens'[t].user = tokens[t].user,
         UNCHANGED <<hour, people, badges, changed>>, DOMAIN request' = Requests,
         UNCHANGED request \/ \A q \in Requests : request'[q].op \notin {"login", "rotate", "update"}
  PROVE  AccessType'
<1>1. TokensGrow /\ PeopleGain
  BY SamePeople DEF TokensGrow
<1>2. /\ \A c \in badges : BadgeOK(c)'
      /\ \A t \in DOMAIN tokens : people'[tokens'[t].user].exists
      /\ UNCHANGED request => \A q \in Requests : InHand(request[q])'
  BY <1>1, RestKept
<1>3. \A q \in Requests : InHand(request[q])'
  BY <1>2 DEF InHand
<1>4. /\ hour' \in Nat /\ people' \in [People -> Accounts] /\ changed' \in [People -> Nat]
      /\ \A v \in People : AccountOK(v)'
  BY DEF AccessType, AccountOK
<1> QED BY <1>2, <1>3, <1>4 DEF AccessType

(* So does a logout. *)
LEMMA LogoutTyped ==
  ASSUME HoursOK, AccessType, NEW t \in DOMAIN tokens, A!Logout(t)
  PROVE  AccessType'
<1>1. /\ tokens' = [tokens EXCEPT ![t].revoked = TRUE]
      /\ UNCHANGED <<hour, people, badges, request, changed>>
  BY DEF A!Logout
<1>2. PICK s : s = Marked(t)
  OBVIOUS
<1>3. s \in Seq(TokenRows) /\ DOMAIN s = DOMAIN tokens /\ \A x \in DOMAIN tokens : s[x].user = tokens[x].user
  BY <1>2, TokenMarked
<1>4. DOMAIN request' = Requests
  BY <1>1 DEF AccessType
<1> QED BY <1>1, <1>2, <1>3, <1>4, MarkTyped DEF Marked

(* All tokens are revoked at once, and nothing else about them changes. *)
LEMMA RevokeFacts ==
  ASSUME OneByOne, AccessType, NEW q \in Requests, A!RevokeAll(q)
  PROVE  /\ tokens' \in Seq(TokenRows) /\ DOMAIN tokens' = DOMAIN tokens /\ Len(tokens') = Len(tokens)
         /\ \A t \in DOMAIN tokens : /\ tokens'[t].user = tokens[t].user /\ tokens'[t].revoked = TRUE
                                     /\ tokens'[t].readonly = tokens[t].readonly
                                     /\ tokens'[t].meant = tokens[t].meant
         /\ DOMAIN request' = Requests /\ \A r \in Requests : request'[r] = A!Idle
         /\ swept' = Len(tokens)
         /\ UNCHANGED <<hour, people, badges, changed, logins>>
<1>1. /\ tokens' = [t \in DOMAIN tokens |-> [tokens[t] EXCEPT !.revoked = TRUE]] /\ swept' = Len(tokens)
      /\ request' = [request EXCEPT ![q] = A!Idle] /\ UNCHANGED <<hour, people, badges, changed, logins>>
  BY DEF A!RevokeAll
<1>2. tokens \in Seq(TokenRows) /\ DOMAIN tokens = 1..Len(tokens) /\ Len(tokens) \in Nat
  BY DEF AccessType
<1>3. ASSUME NEW t \in DOMAIN tokens
      PROVE  /\ tokens'[t] \in TokenRows /\ tokens'[t].user = tokens[t].user /\ tokens'[t].revoked = TRUE
             /\ tokens'[t].readonly = tokens[t].readonly /\ tokens'[t].meant = tokens[t].meant
  <2>1. tokens[t] \in TokenRows
    BY <1>2
  <2>2. tokens'[t] = [tokens[t] EXCEPT !.revoked = TRUE]
    BY <1>1
  <2> QED BY <2>1, <2>2 DEF TokenRows
<1>4. tokens' \in [1..Len(tokens) -> TokenRows]
  BY <1>1, <1>2, <1>3
<1>5. tokens' \in Seq(TokenRows) /\ DOMAIN tokens' = DOMAIN tokens /\ Len(tokens') = Len(tokens)
  BY <1>2, <1>4
<1>6. DOMAIN request' = Requests /\ \A r \in Requests : request'[r] = A!Idle
  BY <1>1 DEF AccessType, OneByOne
<1> QED BY <1>1, <1>3, <1>5, <1>6

(* An hour that passes only takes badges away. *)
LEMMA HourTyped ==
  ASSUME AccessType, A!HourPasses
  PROVE  /\ AccessType' /\ hour' = hour + 1 /\ badges' \subseteq badges
         /\ UNCHANGED <<people, tokens, request, changed, logins, swept>>
<1>1. hour' = hour + 1 /\ badges' \subseteq badges /\ UNCHANGED <<people, tokens, request, changed, logins, swept>>
  BY DEF A!HourPasses
<1>2. hour' \in Nat /\ \A c \in badges' : BadgeOK(c)'
  BY <1>1 DEF AccessType, BadgeOK
<1>3. \A q \in Requests : InHand(request[q])'
  BY <1>1 DEF AccessType, InHand
<1>4. \A v \in People : AccountOK(v)'
  BY <1>1 DEF AccessType, AccountOK
<1> QED BY <1>1, <1>2, <1>3, <1>4 DEF AccessType

(* A request that begins, or is about something else, leaves the rest alone. *)
LEMMA KeepsTyped ==
  ASSUME AccessType, Keeps, DOMAIN request' = Requests, \A q \in Requests : InHand(request'[q])
  PROVE  AccessType'
<1>1. \A q \in Requests : InHand(request[q])'
  BY DEF Keeps, InHand
<1>2. (\A c \in badges' : BadgeOK(c)') /\ \A v \in People : AccountOK(v)'
  BY DEF Keeps, AccessType, BadgeOK, AccountOK
<1> QED BY <1>1, <1>2 DEF AccessType, Keeps

(* A request that begins holds what it has read. *)
LEMMA StartsTyped ==
  ASSUME HoursOK, OneByOne, AccessType, NEW q \in Requests,
         \/ \E u \in People : A!StartLogin(q, u)
         \/ \E t \in DOMAIN tokens : A!StartRefresh(q, t)
         \/ \E b \in badges, u \in People, role \in Assigned, active \in BOOLEAN :
               A!StartUpdate(q, b, u, role, active)
  PROVE  AccessType' /\ Keeps
<1>0. DOMAIN request = Requests
  BY DEF AccessType
<1>1. ASSUME NEW u \in People, A!StartLogin(q, u) PROVE AccessType' /\ Keeps
  <2>1. /\ Keeps /\ people[u].exists /\ people[u].active
        /\ request' = [request EXCEPT ![q] = [op |-> "login", user |-> u, role |-> people[u].role]]
    BY <1>1 DEF A!StartLogin, Keeps
  <2>2. \A r \in Requests : request'[r] = [op |-> "login", user |-> u, role |-> people[u].role]
    BY <1>0, <2>1 DEF OneByOne
  <2>3. \A r \in Requests : InHand(request'[r])
    BY <2>1, <2>2 DEF InHand
  <2> QED BY <1>0, <2>1, <2>3, KeepsTyped
<1>2. ASSUME NEW t \in DOMAIN tokens, A!StartRefresh(q, t) PROVE AccessType' /\ Keeps
  <2>1. /\ Keeps /\ people[tokens[t].user].active
        /\ request' = [request EXCEPT ![q] = [op |-> "rotate", token |-> t,
                                             role |-> people[tokens[t].user].role]]
    BY <1>2 DEF A!StartRefresh, Keeps
  <2>2. \A r \in Requests : request'[r] = [op |-> "rotate", token |-> t,
                                             role |-> people[tokens[t].user].role]
    BY <1>0, <2>1 DEF OneByOne
  <2>3. \A r \in Requests : InHand(request'[r])
    BY <2>1, <2>2 DEF InHand
  <2> QED BY <1>0, <2>1, <2>3, KeepsTyped
<1>3. ASSUME NEW b \in badges, NEW u \in People, NEW role \in Assigned, NEW active \in BOOLEAN,
             A!StartUpdate(q, b, u, role, active)
      PROVE  AccessType' /\ Keeps
  <2>1. /\ Keeps /\ people[u].exists
        /\ request' = [request EXCEPT ![q] = [op |-> "update", user |-> u, role |-> role, active |-> active]]
    BY <1>3 DEF A!StartUpdate, Keeps
  <2>2. \A r \in Requests : request'[r] = [op |-> "update", user |-> u, role |-> role, active |-> active]
    BY <1>0, <2>1 DEF OneByOne
  <2>3. \A r \in Requests : InHand(request'[r])
    BY <2>1, <2>2 DEF InHand, RoleNames
  <2> QED BY <1>0, <2>1, <2>3, KeepsTyped
<1> QED BY <1>1, <1>2, <1>3

(* Every step leaves the tables well formed. *)
LEMMA TypeStep == ASSUME HoursOK, OneByOne, AccessType, [A!Next]_A!vars PROVE AccessType'
<1>1. ASSUME NEW u \in People, Gains(u) \/ A!Register(u) PROVE AccessType'
  BY <1>1, GainsTyped, RegisterTyped
<1>2. ASSUME NEW u \in People, NEW support \in BOOLEAN, NEW readonly \in BOOLEAN, Begins(u, support, readonly)
      PROVE  AccessType'
  BY <1>2, BeginsTyped
<1>3. ASSUME NEW q \in Requests, A!Rotate(q) \/ A!ApplyUpdate(q) PROVE AccessType'
  BY <1>3, RotateTyped, UpdateTyped
<1>4. ASSUME NEW q \in Requests, A!RevokeAll(q) PROVE AccessType'
  <2>1. \A r \in Requests : request'[r].op \notin {"login", "rotate", "update"}
    <3>1. \A r \in Requests : request'[r] = A!Idle
      BY <1>4, RevokeFacts
    <3> QED BY <3>1 DEF A!Idle
  <2> QED BY <1>4, <2>1, RevokeFacts, MarkTyped
<1>5. ASSUME NEW t \in DOMAIN tokens, A!Logout(t) PROVE AccessType'
  BY <1>5, LogoutTyped
<1>6. CASE A!HourPasses
  BY <1>6, HourTyped
<1>7. CASE Keeps /\ (UNCHANGED request \/ Elsewhere)
  <2>1. \A q \in Requests : InHand(request'[q])
    BY <1>7 DEF Elsewhere, InHand, AccessType
  <2>2. DOMAIN request' = Requests
    BY <1>7 DEF Elsewhere, AccessType
  <2> QED BY <1>7, <2>1, <2>2, KeepsTyped
<1>8. ASSUME NEW q \in Requests,
             \/ \E u \in People : A!StartLogin(q, u)
             \/ \E t \in DOMAIN tokens : A!StartRefresh(q, t)
             \/ \E b \in badges, u \in People, role \in Assigned, active \in BOOLEAN :
                   A!StartUpdate(q, b, u, role, active)
      PROVE  AccessType'
  BY <1>8, StartsTyped
<1> QED BY <1>1, <1>2, <1>3, <1>4, <1>5, <1>6, <1>7, <1>8, AccessKinds, Zenon

-----------------------------------------------------------------------------
(* Owners: an update in hand that takes one away leaves another. *)
LeavesOwner(r) ==
    r.op = "update" => (people[r.user].role = "Owner" /\ (~r.active \/ r.role # "Owner")
                           => \E o \in A!ActiveOwners : o # r.user)

OwnersInv == A!OwnerRemains /\ \A q \in Requests : LeavesOwner(request[q])

(* Where there is more than one owner, one is somebody else. *)
LEMMA AnotherOwner ==
  ASSUME HoursOK, NEW u, Cardinality(A!ActiveOwners) > 1
  PROVE  \E o \in A!ActiveOwners : o # u
<1>1. IsFiniteSet(A!ActiveOwners)
  BY FS_Subset DEF HoursOK, A!ActiveOwners
<1> SUFFICES ASSUME \A o \in A!ActiveOwners : o = u PROVE FALSE
  OBVIOUS
<1>2. A!ActiveOwners \subseteq {u} /\ IsFiniteSet({u}) /\ Cardinality({u}) = 1
  BY FS_Singleton
<1>3. Cardinality(A!ActiveOwners) =< 1 /\ Cardinality(A!ActiveOwners) \in Nat
  BY <1>1, <1>2, FS_Subset, FS_CardinalityType
<1> QED BY <1>3

(* Before the first account there is no owner to keep. *)
LEMMA OwnersStart == ASSUME A!Init PROVE OwnersInv
  BY DEF A!Init, OwnersInv, A!OwnerRemains, LeavesOwner, A!Idle, A!Nobody

(* Accounts that only gain keep their owners. *)
LEMMA OwnersGain ==
  ASSUME HoursOK, AccessType, OwnersInv, PeopleGain, UNCHANGED request
  PROVE  /\ A!ActiveOwners \subseteq A!ActiveOwners'
         /\ \A q \in Requests : LeavesOwner(request[q])'
<1>1. A!ActiveOwners \subseteq A!ActiveOwners'
  BY DEF A!ActiveOwners, PeopleGain, AccessType, AccountOK
<1>2. ASSUME NEW q \in Requests PROVE LeavesOwner(request[q])'
  <2>1. request[q].op = "update" => request[q].user \in People /\ people[request[q].user].exists
    BY DEF AccessType, InHand
  <2>2. LeavesOwner(request[q])
    BY DEF OwnersInv
  <2> QED BY <1>1, <2>1, <2>2 DEF LeavesOwner, PeopleGain
<1> QED BY <1>1, <1>2

(* Accounts that rest keep their owners. *)
LEMMA OwnersSame ==
  ASSUME OwnersInv, UNCHANGED people,
         UNCHANGED request \/ \A q \in Requests : LeavesOwner(request'[q])
  PROVE  OwnersInv'
<1>1. A!ActiveOwners' = A!ActiveOwners
  BY DEF A!ActiveOwners
<1>2. \A q \in Requests : LeavesOwner(request[q])'
  BY <1>1 DEF OwnersInv, LeavesOwner
<1> QED BY <1>1, <1>2 DEF OwnersInv, A!OwnerRemains

(* Every step leaves an active owner where there was one. *)
LEMMA OwnersStep ==
  ASSUME HoursOK, OneByOne, AccessType, OwnersInv, [A!Next]_A!vars
  PROVE  OwnersInv'
<1>1. ASSUME NEW u \in People, Gains(u) PROVE OwnersInv'
  <2>1. PeopleGain /\ UNCHANGED request /\ \E v \in People : people[v].exists
    BY <1>1, GainsTyped DEF Gains
  <2> QED BY <2>1, OwnersGain DEF OwnersInv, A!OwnerRemains
<1>2. ASSUME NEW u \in People, A!Register(u) PROVE OwnersInv'
  <2>1. PeopleGain /\ UNCHANGED request
    BY <1>2, RegisterTyped DEF A!Register
  <2>2. people'[u].active /\ people'[u].role = "Owner"
    BY <1>2 DEF A!Register, A!Change, AccessType
  <2>3. u \in A!ActiveOwners'
    BY <2>2 DEF A!ActiveOwners
  <2> QED BY <2>1, <2>3, OwnersGain DEF OwnersInv, A!OwnerRemains
<1>3. ASSUME NEW u \in People, NEW support \in BOOLEAN, NEW readonly \in BOOLEAN, Begins(u, support, readonly)
      PROVE  OwnersInv'
  BY <1>3, OwnersSame DEF Begins, LeavesOwner, A!Idle
<1>4. ASSUME NEW q \in Requests, A!Rotate(q) PROVE OwnersInv'
  <2>1. (\A r \in Requests : request'[r] = A!Idle) /\ UNCHANGED people
    BY <1>4, RotateFacts
  <2> QED BY <2>1, OwnersSame DEF LeavesOwner, A!Idle
<1>5. ASSUME NEW q \in Requests, A!ApplyUpdate(q) PROVE OwnersInv'
  <2>1. PICK u \in People : u = request[q].user /\ request[q].op = "update" /\ people[u].exists
    BY <1>5, UpdateFacts
  <2>2. PICK a \in Accounts : a.role = request[q].role /\ a.active = request[q].active /\ A!Change(u, a)
    BY <1>5, <2>1, UpdateFacts
  <2>3. people' = [people EXCEPT ![u] = a]
    BY <2>2, ChangeTyped
  <2>4. \A r \in Requests : request'[r] = A!Idle
    BY <1>5, UpdateFacts
  <2>5. A!ActiveOwners' # {}
    <3>1. PICK o \in A!ActiveOwners : TRUE
      BY <2>1 DEF OwnersInv, A!OwnerRemains
    <3>2. CASE \E x \in A!ActiveOwners : x # u
      BY <2>3, <3>2 DEF A!ActiveOwners, AccessType
    <3>3. CASE \A x \in A!ActiveOwners : x = u
      <4>1. people[u].role = "Owner" /\ o = u
        BY <3>1, <3>3 DEF A!ActiveOwners
      <4>2. request[q].active /\ request[q].role = "Owner"
        BY <2>1, <3>3, <4>1 DEF OwnersInv, LeavesOwner
      <4>3. people'[u].active /\ people'[u].role = "Owner"
        BY <2>2, <2>3, <4>2 DEF AccessType
      <4> QED BY <4>3 DEF A!ActiveOwners
    <3> QED BY <3>2, <3>3
  <2>6. \A r \in Requests : LeavesOwner(request[r])'
    BY <2>4 DEF LeavesOwner, A!Idle
  <2> QED BY <2>5, <2>6 DEF OwnersInv, A!OwnerRemains
<1>6. ASSUME NEW q \in Requests, A!RevokeAll(q) PROVE OwnersInv'
  <2>1. (\A r \in Requests : request'[r] = A!Idle) /\ UNCHANGED people
    BY <1>6, RevokeFacts
  <2> QED BY <2>1, OwnersSame DEF LeavesOwner, A!Idle
<1>7. ASSUME NEW t \in DOMAIN tokens, A!Logout(t) PROVE OwnersInv'
  BY <1>7, OwnersSame DEF A!Logout
<1>8. CASE A!HourPasses
  BY <1>8, OwnersSame DEF A!HourPasses
<1>9. CASE Keeps /\ (UNCHANGED request \/ Elsewhere)
  BY <1>9, OwnersSame DEF Keeps, Elsewhere, LeavesOwner
<1>10. ASSUME NEW q \in Requests, NEW u \in People, A!StartLogin(q, u) PROVE OwnersInv'
  <2>1. /\ UNCHANGED people
        /\ request' = [request EXCEPT ![q] = [op |-> "login", user |-> u, role |-> people[u].role]]
    BY <1>10 DEF A!StartLogin
  <2>2. \A r \in Requests : request'[r].op = "login"
    BY <2>1 DEF OneByOne, AccessType
  <2> QED BY <2>1, <2>2, OwnersSame DEF LeavesOwner
<1>11. ASSUME NEW q \in Requests, NEW t \in DOMAIN tokens, A!StartRefresh(q, t) PROVE OwnersInv'
  <2>1. /\ UNCHANGED people
        /\ request' = [request EXCEPT ![q] = [op |-> "rotate", token |-> t, role |-> people[tokens[t].user].role]]
    BY <1>11 DEF A!StartRefresh
  <2>2. \A r \in Requests : request'[r].op = "rotate"
    BY <2>1 DEF OneByOne, AccessType
  <2> QED BY <2>1, <2>2, OwnersSame DEF LeavesOwner
<1>12. ASSUME NEW q \in Requests, NEW b \in badges, NEW u \in People, NEW role \in Assigned, NEW active \in BOOLEAN,
              A!StartUpdate(q, b, u, role, active)
       PROVE  OwnersInv'
  <2>1. /\ UNCHANGED people
        /\ request' = [request EXCEPT ![q] = [op |-> "update", user |-> u, role |-> role, active |-> active]]
        /\ people[u].role = "Owner" /\ (~active \/ role # "Owner") => Cardinality(A!ActiveOwners) > 1
    BY <1>12, AccountCards DEF A!StartUpdate, A!MayChange
  <2>2. \A r \in Requests : request'[r] = [op |-> "update", user |-> u, role |-> role, active |-> active]
    BY <2>1 DEF OneByOne, AccessType
  <2>3. people[u].role = "Owner" /\ (~active \/ role # "Owner") => \E o \in A!ActiveOwners : o # u
    BY <2>1, AnotherOwner
  <2>4. \A r \in Requests : LeavesOwner(request'[r])
    BY <2>2, <2>3 DEF LeavesOwner
  <2> QED BY <2>1, <2>4, OwnersSame
<1> QED BY <1>1, <1>2, <1>3, <1>4, <1>5, <1>6, <1>7, <1>8, <1>9, <1>10, <1>11, <1>12, AccessKinds,
           Zenon

-----------------------------------------------------------------------------
(* Access tokens and the accounts they speak for *)
FreshBadge(b) ==
    \/ changed[b.user] >= b.iat
    \/ b.role = A!SessionRole(people[b.user].role, b.readonly) /\ people[b.user].active

(* There is no badge at first. *)
LEMMA StaleStart == ASSUME A!Init PROVE A!StaleUntilRefresh
  BY DEF A!Init, A!StaleUntilRefresh

(* A change of an account is noted at an hour no badge of it is younger  *)
(* than.                                                                 *)
LEMMA StaleChange ==
  ASSUME AccessType, A!StaleUntilRefresh, NEW u \in People, NEW a \in Accounts, A!Change(u, a)
  PROVE  \A b \in badges : FreshBadge(b)'
<1> TAKE b \in badges
<1>1. FreshBadge(b) /\ BadgeOK(b)
  BY DEF A!StaleUntilRefresh, FreshBadge, AccessType
<1>2. /\ people' = [people EXCEPT ![u] = a] /\ people \in [People -> Accounts] /\ changed \in [People -> Nat]
      /\ changed' = IF a.role = people[u].role /\ a.active = people[u].active
                    THEN changed ELSE [changed EXCEPT ![u] = hour]
      /\ hour \in Nat
  BY DEF A!Change, AccessType
<1>3. CASE b.user # u
  BY <1>1, <1>2, <1>3 DEF FreshBadge, BadgeOK
<1>4. CASE b.user = u /\ a.role = people[u].role /\ a.active = people[u].active
  BY <1>1, <1>2, <1>4 DEF FreshBadge, BadgeOK
<1>5. CASE b.user = u /\ ~(a.role = people[u].role /\ a.active = people[u].active)
  <2>1. changed'[b.user] = hour /\ b.iat \in Nat /\ b.iat =< hour
    BY <1>1, <1>2, <1>5 DEF BadgeOK
  <2> QED BY <1>2, <2>1 DEF FreshBadge
<1> QED BY <1>3, <1>4, <1>5

(* Badges stay as good as they were while no account changes. *)
LEMMA StaleSame ==
  ASSUME A!StaleUntilRefresh, UNCHANGED <<people, changed>>,
         \A b \in badges' : b \in badges \/ FreshBadge(b)'
  PROVE  A!StaleUntilRefresh'
<1>1. \A b \in badges' : FreshBadge(b)'
  BY DEF A!StaleUntilRefresh, FreshBadge
<1> QED BY <1>1 DEF A!StaleUntilRefresh, FreshBadge

(* Whatever step is taken, a badge differs from its account only by a    *)
(* change made since it was issued.                                      *)
LEMMA StaleStep ==
  ASSUME HoursOK, OneByOne, AccessType, A!StaleUntilRefresh, [A!Next]_A!vars
  PROVE  A!StaleUntilRefresh'
<1>1. ASSUME NEW u \in People, Gains(u) PROVE A!StaleUntilRefresh'
  <2>1. PICK a \in Accounts : A!Change(u, a)
    BY <1>1 DEF Gains
  <2>2. badges' = badges
    BY <1>1 DEF Gains
  <2> QED BY <2>1, <2>2, StaleChange DEF A!StaleUntilRefresh, FreshBadge
<1>2. ASSUME NEW u \in People, A!Register(u) PROVE A!StaleUntilRefresh'
  <2>1. PICK a \in Accounts : A!Change(u, a) /\ a.role = "Owner" /\ a.active
    <3>1. PICK a : a = [exists |-> TRUE, role |-> "Owner", active |-> TRUE, password |-> TRUE, link |-> 0]
      OBVIOUS
    <3>2. A!Change(u, a)
      BY <1>2, <3>1 DEF A!Register
    <3>3. a \in Accounts /\ a.role = "Owner" /\ a.active
      BY <3>1 DEF Accounts, RoleNames, A!SystemRoles
    <3> QED BY <3>2, <3>3
  <2>2. badges' = badges \cup {A!Badge(u, "Owner", FALSE, FALSE)}
    BY <1>2 DEF A!Register, A!Issue
  <2>3. people'[u] = a
    BY <2>1 DEF A!Change, AccessType
  <2>4. FreshBadge(A!Badge(u, "Owner", FALSE, FALSE))'
    BY <2>1, <2>3, <1>2 DEF FreshBadge, A!Badge, A!Register
  <2>5. \A b \in badges : FreshBadge(b)'
    BY <2>1, StaleChange
  <2>6. ASSUME NEW b \in badges' PROVE FreshBadge(b)'
    <3>1. hour' = hour
      BY <1>2 DEF A!Register
    <3> QED BY <2>2, <2>4, <2>5, <3>1 DEF FreshBadge, A!Badge
  <2> QED BY <2>6 DEF A!StaleUntilRefresh, FreshBadge
<1>3. ASSUME NEW u \in People, NEW support \in BOOLEAN, NEW readonly \in BOOLEAN, Begins(u, support, readonly)
      PROVE  A!StaleUntilRefresh'
  <2>1. /\ badges' = badges \cup {A!Badge(u, people[u].role, support, readonly)}
        /\ UNCHANGED <<people, changed, hour>> /\ people[u].active
    BY <1>3 DEF Begins, A!Issue
  <2>2. \A b \in badges' : b \in badges \/ FreshBadge(b)'
    BY <2>1 DEF FreshBadge, A!Badge
  <2> QED BY <2>1, <2>2, StaleSame
<1>4. ASSUME NEW q \in Requests, A!Rotate(q) PROVE A!StaleUntilRefresh'
  <2>1. PICK t \in DOMAIN tokens : t = request[q].token
    BY <1>4, RotateFacts
  <2>2. /\ badges' = badges \cup {A!Badge(tokens[t].user, people[tokens[t].user].role, tokens[t].support, tokens[t].readonly)}
        /\ UNCHANGED <<people, changed, hour>> /\ people[tokens[t].user].active
    BY <1>4, <2>1, RotateFacts
  <2>3. \A b \in badges' : b \in badges \/ FreshBadge(b)'
    BY <2>2 DEF FreshBadge, A!Badge
  <2> QED BY <2>2, <2>3, StaleSame
<1>5. ASSUME NEW q \in Requests, A!ApplyUpdate(q) PROVE A!StaleUntilRefresh'
  <2>1. PICK u \in People : u = request[q].user
    BY <1>5, UpdateFacts
  <2>2. PICK a \in Accounts : A!Change(u, a)
    BY <1>5, <2>1, UpdateFacts
  <2>3. badges' = badges
    BY <1>5, UpdateFacts
  <2> QED BY <2>2, <2>3, StaleChange DEF A!StaleUntilRefresh, FreshBadge
<1>6. ASSUME NEW q \in Requests, A!RevokeAll(q) PROVE A!StaleUntilRefresh'
  BY <1>6, RevokeFacts, StaleSame
<1>7. ASSUME NEW t \in DOMAIN tokens, A!Logout(t) PROVE A!StaleUntilRefresh'
  BY <1>7, StaleSame DEF A!Logout
<1>8. CASE A!HourPasses
  BY <1>8, HourTyped, StaleSame
<1>9. CASE Keeps
  BY <1>9, StaleSame DEF Keeps
<1> QED BY <1>1, <1>2, <1>3, <1>4, <1>5, <1>6, <1>7, <1>8, <1>9, AccessKinds, StartsTyped, Zenon

-----------------------------------------------------------------------------
(* Refresh tokens and the sessions they renew *)
Good == {t \in DOMAIN tokens : ~tokens[t].revoked}

Renewal(r) == r.op = "rotate" => Cardinality(Good \ {r.token}) + 1 =< logins

SessionsInv ==
    /\ logins \in Nat
    /\ Cardinality(Good) =< logins
    /\ \A q \in Requests : Renewal(request[q])

(* There are finitely many tokens that are not revoked. *)
LEMMA GoodFinite ==
  ASSUME tokens \in Seq(TokenRows)
  PROVE  IsFiniteSet(Good) /\ \A x : IsFiniteSet(Good \ {x})
<1>1. DOMAIN tokens = 1..Len(tokens) /\ Len(tokens) \in Nat
  OBVIOUS
<1>2. IsFiniteSet(DOMAIN tokens)
  BY <1>1, FS_Interval
<1> QED BY <1>2, FS_Subset DEF Good

(* Nobody has logged in at first. *)
LEMMA SessionsStart == ASSUME A!Init PROVE SessionsInv
<1>1. Good = {} /\ logins = 0
  BY DEF A!Init, Good
<1>2. Cardinality(Good) = 0
  BY <1>1, FS_EmptySet
<1>3. \A q \in Requests : Renewal(request[q])
  BY DEF A!Init, Renewal, A!Idle
<1> QED BY <1>1, <1>2, <1>3 DEF SessionsInv

(* A session begun adds one good token and counts one. *)
LEMMA SessionsIssue ==
  ASSUME HoursOK, AccessType, SessionsInv, NEW u \in People, NEW role \in RoleNames,
         NEW support \in BOOLEAN, NEW readonly \in BOOLEAN, A!Issue(u, role, support, readonly),
         UNCHANGED request \/ \A q \in Requests : request'[q] = A!Idle
  PROVE  SessionsInv'
<1>1. PICK row \in TokenRows : row = A!Token(u, role, support, readonly, readonly) /\ row.revoked = FALSE
  BY TokenTyped DEF AccessType, A!Token
<1>2. tokens' = Append(tokens, row) /\ logins' = logins + 1
  BY <1>1 DEF A!Issue
<1>3. PICK n : n = Len(tokens) + 1
  OBVIOUS
<1>4. /\ DOMAIN tokens' = DOMAIN tokens \cup {n} /\ n \notin DOMAIN tokens
      /\ \A t \in DOMAIN tokens : tokens'[t] = tokens[t]
      /\ tokens'[n] = row
  BY <1>2, <1>3, TokensAppend DEF AccessType
<1>5. Good' = Good \cup {n} /\ n \notin Good
  BY <1>1, <1>4 DEF Good
<1>6. tokens \in Seq(TokenRows) /\ IsFiniteSet(Good)
  BY GoodFinite DEF AccessType
<1>7. Cardinality(Good') = Cardinality(Good) + 1 /\ Cardinality(Good) \in Nat
  BY <1>5, <1>6, FS_AddElement, FS_CardinalityType
<1>8. ASSUME NEW q \in Requests, UNCHANGED request, request[q].op = "rotate"
      PROVE  Cardinality(Good' \ {request[q].token}) + 1 =< logins'
  <2>1. PICK x : x = request[q].token
    OBVIOUS
  <2>2. x \in DOMAIN tokens
    BY <1>8, <2>1 DEF AccessType, InHand
  <2>3. Good' \ {x} = (Good \ {x}) \cup {n} /\ n \notin Good \ {x} /\ IsFiniteSet(Good \ {x})
    BY <1>4, <1>5, <1>6, <2>2, GoodFinite
  <2>4. Cardinality(Good' \ {x}) = Cardinality(Good \ {x}) + 1 /\ Cardinality(Good \ {x}) \in Nat
    BY <2>3, FS_AddElement, FS_CardinalityType
  <2>5. Cardinality(Good \ {x}) + 1 =< logins /\ logins \in Nat
    BY <1>8, <2>1 DEF SessionsInv, Renewal
  <2> QED BY <1>2, <2>1, <2>4, <2>5
<1>9. \A q \in Requests : Renewal(request[q])'
  BY <1>8 DEF Renewal, A!Idle
<1> QED BY <1>2, <1>7, <1>9 DEF SessionsInv

(* Tokens only revoked *)
LEMMA SessionsMark ==
  ASSUME AccessType, SessionsInv, tokens' \in Seq(TokenRows), Good' \subseteq Good, UNCHANGED logins,
         UNCHANGED request \/ \A q \in Requests : Renewal(request[q])'
  PROVE  SessionsInv'
<1>1. tokens \in Seq(TokenRows) /\ IsFiniteSet(Good)
  BY GoodFinite DEF AccessType
<1>2. \A x : /\ Cardinality(Good' \ {x}) =< Cardinality(Good \ {x})
             /\ Cardinality(Good' \ {x}) \in Nat /\ Cardinality(Good \ {x}) \in Nat
  <2> TAKE x
  <2>1. Good' \ {x} \subseteq Good \ {x} /\ IsFiniteSet(Good \ {x})
    BY <1>1, GoodFinite
  <2> QED BY <2>1, FS_Subset, FS_CardinalityType
<1>3. Cardinality(Good') =< Cardinality(Good) /\ Cardinality(Good') \in Nat /\ Cardinality(Good) \in Nat
  BY <1>1, FS_Subset, FS_CardinalityType
<1>4. ASSUME NEW q \in Requests, UNCHANGED request, request[q].op = "rotate"
      PROVE  Cardinality(Good' \ {request[q].token}) + 1 =< logins'
  <2>1. PICK x : x = request[q].token
    OBVIOUS
  <2>2. Cardinality(Good \ {x}) + 1 =< logins /\ logins \in Nat
    BY <1>4, <2>1 DEF SessionsInv, Renewal
  <2>3. PICK m \in Nat, n \in Nat : m = Cardinality(Good' \ {x}) /\ n = Cardinality(Good \ {x}) /\ m =< n
    BY <1>2
  <2>4. Cardinality(Good' \ {x}) + 1 =< logins
    BY <2>2, <2>3
  <2> QED BY <2>1, <2>4
<1>5. \A q \in Requests : Renewal(request[q])'
  BY <1>4 DEF Renewal
<1> QED BY <1>3, <1>5 DEF SessionsInv

(* Every step keeps the tokens not revoked within the number of logins. *)
LEMMA SessionsStep ==
  ASSUME HoursOK, OneByOne, AccessType, SessionsInv, [A!Next]_A!vars
  PROVE  SessionsInv'
<1>0. tokens \in Seq(TokenRows)
  BY DEF AccessType
<1>1. ASSUME NEW u \in People, Gains(u) PROVE SessionsInv'
  BY <1>0, <1>1, SessionsMark DEF Gains, Good
<1>2. ASSUME NEW u \in People, A!Register(u) PROVE SessionsInv'
  <2>1. "Owner" \in RoleNames /\ A!Issue(u, "Owner", FALSE, FALSE) /\ UNCHANGED request
    BY <1>2 DEF RoleNames, A!SystemRoles, A!Register
  <2> QED BY <2>1, SessionsIssue
<1>3. ASSUME NEW u \in People, NEW support \in BOOLEAN, NEW readonly \in BOOLEAN, Begins(u, support, readonly)
      PROVE  SessionsInv'
  <2>1. people[u].role \in RoleNames
    BY DEF AccessType, Accounts
  <2> QED BY <1>3, <2>1, SessionsIssue DEF Begins
<1>4. ASSUME NEW q \in Requests, A!Rotate(q) PROVE SessionsInv'
  <2>1. PICK old \in DOMAIN tokens : old = request[q].token
    BY <1>4, RotateFacts
  <2>2. PICK s \in Seq(TokenRows) :
           /\ s = Marked(old)
           /\ tokens' = Append(s, A!Token(tokens[old].user, request[q].role, tokens[old].support,
                                        tokens[old].readonly, tokens[old].meant))
    BY <1>4, <2>1, RotateFacts
  <2>3. request[q].op = "rotate" /\ UNCHANGED logins /\ \A r \in Requests : request'[r] = A!Idle
    BY <1>4, RotateFacts
  <2>4. PICK row : row = A!Token(tokens[old].user, request[q].role, tokens[old].support,
                               tokens[old].readonly, tokens[old].meant)
    OBVIOUS
  <2>5. request[q].role \in RoleNames
    <3>1. request[q].role = people[tokens[old].user].role
      BY <1>4, <2>1, RotateFacts
    <3> QED BY <3>1, TokenFacts DEF AccessType, Accounts
  <2>6. row \in TokenRows /\ row.revoked = FALSE
    BY <2>4, <2>5, TokenFacts, TokenTyped DEF AccessType, A!Token
  <2>7. /\ Len(s) = Len(tokens) /\ \A t \in DOMAIN tokens : s[t].user = tokens[t].user
        /\ \A t \in DOMAIN tokens : s[t].revoked = (t = old \/ tokens[t].revoked)
    BY <2>2, TokenMarked
  <2>8. PICK n : n = Len(tokens) + 1
    OBVIOUS
  <2>9. tokens' = Append(s, row)
    BY <2>2, <2>4
  <2>10. /\ DOMAIN tokens' = DOMAIN tokens \cup {n} /\ n \notin DOMAIN tokens
         /\ \A t \in DOMAIN tokens : tokens'[t] = s[t]
         /\ tokens'[n] = row
    BY <1>0, <2>6, <2>7, <2>8, <2>9, TokensAppend
  <2>11. Good' = (Good \ {old}) \cup {n} /\ n \notin Good \ {old}
    BY <2>6, <2>7, <2>10 DEF Good
  <2>12. IsFiniteSet(Good \ {old})
    BY <1>0, GoodFinite
  <2>13. Cardinality(Good') = Cardinality(Good \ {old}) + 1
    BY <2>11, <2>12, FS_AddElement
  <2>14. Cardinality(Good \ {old}) + 1 =< logins
    BY <2>1, <2>3 DEF SessionsInv, Renewal
  <2>15. \A r \in Requests : Renewal(request[r])'
    BY <2>3 DEF Renewal, A!Idle
  <2> QED BY <2>3, <2>13, <2>14, <2>15 DEF SessionsInv
<1>5. ASSUME NEW q \in Requests, A!ApplyUpdate(q) PROVE SessionsInv'
  <2>1. UNCHANGED <<tokens, logins>> /\ \A r \in Requests : request'[r] = A!Idle
    BY <1>5, UpdateFacts
  <2>2. (\A r \in Requests : Renewal(request[r])') /\ Good' = Good
    BY <2>1 DEF Renewal, A!Idle, Good
  <2> QED BY <1>0, <2>1, <2>2, SessionsMark
<1>6. ASSUME NEW q \in Requests, A!RevokeAll(q) PROVE SessionsInv'
  <2>1. /\ tokens' \in Seq(TokenRows) /\ DOMAIN tokens' = DOMAIN tokens /\ UNCHANGED logins
        /\ \A t \in DOMAIN tokens : tokens'[t].revoked = TRUE
        /\ \A r \in Requests : request'[r] = A!Idle
    BY <1>6, RevokeFacts
  <2>2. (\A r \in Requests : Renewal(request[r])') /\ Good' \subseteq Good
    BY <2>1 DEF Renewal, A!Idle, Good
  <2> QED BY <2>1, <2>2, SessionsMark
<1>7. ASSUME NEW t \in DOMAIN tokens, A!Logout(t) PROVE SessionsInv'
  <2>1. tokens' = Marked(t) /\ UNCHANGED <<logins, request>>
    BY <1>7 DEF A!Logout, Marked
  <2>2. /\ tokens' \in Seq(TokenRows) /\ DOMAIN tokens' = DOMAIN tokens
        /\ \A x \in DOMAIN tokens : tokens'[x].revoked = (x = t \/ tokens[x].revoked)
    BY <2>1, TokenMarked
  <2>3. Good' \subseteq Good
    BY <2>2 DEF Good
  <2> QED BY <2>1, <2>2, <2>3, SessionsMark
<1>8. CASE A!HourPasses
  BY <1>0, <1>8, HourTyped, SessionsMark DEF Good
<1>9. CASE Keeps /\ (UNCHANGED request \/ Elsewhere)
  <2>1. tokens' = tokens /\ logins' = logins /\ Good' = Good
    BY <1>9 DEF Keeps, Good
  <2>2. UNCHANGED request \/ \A r \in Requests : Renewal(request[r])'
    BY <1>9 DEF Elsewhere, Renewal
  <2> QED BY <1>0, <2>1, <2>2, SessionsMark
<1>10. ASSUME NEW q \in Requests, NEW u \in People, A!StartLogin(q, u) PROVE SessionsInv'
  <2>1. /\ UNCHANGED <<tokens, logins>>
        /\ request' = [request EXCEPT ![q] = [op |-> "login", user |-> u, role |-> people[u].role]]
    BY <1>10 DEF A!StartLogin
  <2>2. \A r \in Requests : request'[r].op = "login"
    BY <2>1 DEF OneByOne, AccessType
  <2>3. (\A r \in Requests : Renewal(request[r])') /\ Good' = Good
    BY <2>1, <2>2 DEF Renewal, Good
  <2> QED BY <1>0, <2>1, <2>3, SessionsMark
<1>11. ASSUME NEW q \in Requests, NEW t \in DOMAIN tokens, A!StartRefresh(q, t) PROVE SessionsInv'
  <2>1. /\ UNCHANGED <<tokens, logins>> /\ ~tokens[t].revoked
        /\ request' = [request EXCEPT ![q] = [op |-> "rotate", token |-> t, role |-> people[tokens[t].user].role]]
    BY <1>11 DEF A!StartRefresh, A!Live
  <2>2. \A r \in Requests : request'[r].token = t
    BY <2>1 DEF OneByOne, AccessType
  <2>3. t \in Good /\ IsFiniteSet(Good) /\ Good' = Good
    BY <1>0, <2>1, GoodFinite DEF Good
  <2>4. Cardinality(Good \ {t}) = Cardinality(Good) - 1 /\ Cardinality(Good) \in Nat
    BY <2>3, FS_RemoveElement, FS_CardinalityType
  <2>5. Cardinality(Good \ {t}) + 1 =< logins
    BY <2>4 DEF SessionsInv
  <2>6. \A r \in Requests : Renewal(request[r])'
    BY <2>1, <2>2, <2>3, <2>5 DEF Renewal
  <2> QED BY <1>0, <2>1, <2>3, <2>6, SessionsMark
<1>12. ASSUME NEW q \in Requests, NEW b \in badges, NEW u \in People, NEW role \in Assigned, NEW active \in BOOLEAN,
              A!StartUpdate(q, b, u, role, active)
       PROVE  SessionsInv'
  <2>1. /\ UNCHANGED <<tokens, logins>>
        /\ request' = [request EXCEPT ![q] = [op |-> "update", user |-> u, role |-> role, active |-> active]]
    BY <1>12 DEF A!StartUpdate
  <2>2. \A r \in Requests : request'[r].op = "update"
    BY <2>1 DEF OneByOne, AccessType
  <2>3. (\A r \in Requests : Renewal(request[r])') /\ Good' = Good
    BY <2>1, <2>2 DEF Renewal, Good
  <2> QED BY <1>0, <2>1, <2>3, SessionsMark
<1> QED BY <1>1, <1>2, <1>3, <1>4, <1>5, <1>6, <1>7, <1>8, <1>9, <1>10, <1>11, <1>12, AccessKinds,
           Zenon

-----------------------------------------------------------------------------
(* Support sessions and suspension *)
SupportInv ==
    /\ A!SupportStaysReadOnly
    /\ swept \in Nat /\ swept =< Len(tokens)
    /\ A!SuspensionEndsSessions

(* No support session is open at first. *)
LEMMA SupportStart == ASSUME A!Init PROVE SupportInv
  BY DEF A!Init, SupportInv, A!SupportStaysReadOnly, A!SuspensionEndsSessions

(* A token put behind the others, revoked or not, was not there when the tenant was suspended. *)
LEMMA SupportAdds ==
  ASSUME AccessType, SupportInv, NEW s \in Seq(TokenRows), NEW row \in TokenRows, row.readonly = row.meant,
         tokens' = Append(s, row), Len(s) = Len(tokens),
         \A t \in DOMAIN tokens : /\ s[t].user = tokens[t].user /\ s[t].readonly = tokens[t].readonly
                                  /\ s[t].meant = tokens[t].meant
                                  /\ (tokens[t].revoked => s[t].revoked),
         UNCHANGED swept, \A b \in badges' : b \in badges \/ (b.readonly => b.role = "Viewer")
  PROVE  SupportInv'
<1>1. PICK n \in Nat : n = Len(tokens) + 1 /\ tokens \in Seq(TokenRows) /\ DOMAIN tokens = 1..Len(tokens)
  BY DEF AccessType
<1>2. /\ DOMAIN tokens' = DOMAIN tokens \cup {n} /\ Len(tokens') = n
      /\ \A t \in DOMAIN tokens : tokens'[t] = s[t]
      /\ tokens'[n] = row
  BY <1>1, TokensAppend
<1>3. swept \in Nat /\ swept < n
  BY <1>1 DEF SupportInv
<1>4. A!SuspensionEndsSessions'
  <2> SUFFICES ASSUME NEW t \in DOMAIN tokens', t =< swept' PROVE tokens'[t].revoked
    BY DEF A!SuspensionEndsSessions
  <2>1. t # n /\ t \in DOMAIN tokens
    BY <1>2, <1>3
  <2> QED BY <1>2, <2>1 DEF A!SuspensionEndsSessions, SupportInv
<1>5. A!SupportStaysReadOnly'
  <2>1. \A t \in DOMAIN tokens' : tokens'[t].readonly = tokens'[t].meant
    BY <1>2 DEF A!SupportStaysReadOnly, SupportInv
  <2>2. \A b \in badges' : b.readonly => b.role = "Viewer"
    BY DEF A!SupportStaysReadOnly, SupportInv
  <2> QED BY <2>1, <2>2 DEF A!SupportStaysReadOnly
<1> QED BY <1>2, <1>3, <1>4, <1>5 DEF SupportInv

(* Tokens that stay or are revoked *)
LEMMA SupportMarks ==
  ASSUME SupportInv, DOMAIN tokens' = DOMAIN tokens, Len(tokens') = Len(tokens),
         \A t \in DOMAIN tokens : /\ tokens'[t].readonly = tokens[t].readonly
                                  /\ tokens'[t].meant = tokens[t].meant
                                  /\ tokens[t].revoked => tokens'[t].revoked,
         UNCHANGED swept, badges' \subseteq badges
  PROVE  SupportInv'
<1>1. A!SuspensionEndsSessions'
  BY DEF SupportInv, A!SuspensionEndsSessions
<1>2. A!SupportStaysReadOnly'
  BY DEF SupportInv, A!SupportStaysReadOnly
<1> QED BY <1>1, <1>2 DEF SupportInv

(* Every step keeps support sessions read-only and a suspended tenant    *)
(* without sessions from before.                                         *)
LEMMA SupportStep ==
  ASSUME HoursOK, OneByOne, AccessType, SupportInv, [A!Next]_A!vars
  PROVE  SupportInv'
<1>0. tokens \in Seq(TokenRows)
  BY DEF AccessType
<1>1. ASSUME NEW u \in People, Gains(u) PROVE SupportInv'
  BY <1>1, SupportMarks DEF Gains
<1>2. ASSUME NEW u \in People, NEW role \in RoleNames, NEW support \in BOOLEAN, NEW readonly \in BOOLEAN,
             A!Issue(u, role, support, readonly), UNCHANGED swept
      PROVE  SupportInv'
  <2>1. PICK row \in TokenRows : row = A!Token(u, role, support, readonly, readonly) /\ row.readonly = row.meant
    BY TokenTyped DEF AccessType, A!Token
  <2>2. tokens' = Append(tokens, row) /\ badges' = badges \cup {A!Badge(u, role, support, readonly)}
    BY <1>2, <2>1 DEF A!Issue
  <2>3. \A b \in badges' : b \in badges \/ (b.readonly => b.role = "Viewer")
    BY <2>2 DEF A!Badge, A!SessionRole
  <2> QED BY <1>0, <1>2, <2>1, <2>2, <2>3, SupportAdds
<1>3. ASSUME NEW u \in People, A!Register(u) PROVE SupportInv'
  <2>1. "Owner" \in RoleNames /\ A!Issue(u, "Owner", FALSE, FALSE) /\ UNCHANGED swept
    BY <1>3 DEF RoleNames, A!SystemRoles, A!Register
  <2> QED BY <2>1, <1>2
<1>4. ASSUME NEW u \in People, NEW support \in BOOLEAN, NEW readonly \in BOOLEAN, Begins(u, support, readonly)
      PROVE  SupportInv'
  <2>1. people[u].role \in RoleNames
    BY DEF AccessType, Accounts
  <2> QED BY <1>2, <1>4, <2>1 DEF Begins
<1>5. ASSUME NEW q \in Requests, A!Rotate(q) PROVE SupportInv'
  <2>1. PICK old \in DOMAIN tokens : old = request[q].token
    BY <1>5, RotateFacts
  <2>2. PICK s \in Seq(TokenRows) :
           /\ s = Marked(old)
           /\ tokens' = Append(s, A!Token(tokens[old].user, request[q].role, tokens[old].support,
                                        tokens[old].readonly, tokens[old].meant))
    BY <1>5, <2>1, RotateFacts
  <2>3. /\ request[q].role = people[tokens[old].user].role /\ UNCHANGED swept
        /\ badges' = badges \cup {A!Badge(tokens[old].user, request[q].role, tokens[old].support, tokens[old].readonly)}
    BY <1>5, <2>1, RotateFacts
  <2>4. PICK row : row = A!Token(tokens[old].user, request[q].role, tokens[old].support,
                               tokens[old].readonly, tokens[old].meant)
    OBVIOUS
  <2>5. request[q].role \in RoleNames
    BY <2>3, TokenFacts DEF AccessType, Accounts
  <2>6. row \in TokenRows /\ row.readonly = row.meant
    BY <2>4, <2>5, TokenFacts, TokenTyped DEF AccessType, A!Token, SupportInv,
       A!SupportStaysReadOnly
  <2>7. /\ Len(s) = Len(tokens)
        /\ \A t \in DOMAIN tokens : /\ s[t].user = tokens[t].user /\ s[t].readonly = tokens[t].readonly
                                    /\ s[t].meant = tokens[t].meant
                                    /\ (tokens[t].revoked => s[t].revoked)
    BY <2>2, TokenMarked
  <2>8. \A b \in badges' : b \in badges \/ (b.readonly => b.role = "Viewer")
    BY <2>3 DEF A!Badge, A!SessionRole
  <2>9. tokens' = Append(s, row)
    BY <2>2, <2>4
  <2> QED BY <2>3, <2>6, <2>7, <2>8, <2>9, SupportAdds
<1>6. ASSUME NEW q \in Requests, A!ApplyUpdate(q) PROVE SupportInv'
  BY <1>6, UpdateFacts, SupportMarks
<1>7. ASSUME NEW q \in Requests, A!RevokeAll(q) PROVE SupportInv'
  <2>1. /\ DOMAIN tokens' = DOMAIN tokens /\ Len(tokens') = Len(tokens)
        /\ \A t \in DOMAIN tokens : /\ tokens'[t].revoked = TRUE /\ tokens'[t].readonly = tokens[t].readonly
                                    /\ tokens'[t].meant = tokens[t].meant
        /\ swept' = Len(tokens) /\ badges' = badges
    BY <1>7, RevokeFacts
  <2> QED BY <1>0, <2>1 DEF SupportInv, A!SupportStaysReadOnly, A!SuspensionEndsSessions
<1>8. ASSUME NEW t \in DOMAIN tokens, A!Logout(t) PROVE SupportInv'
  <2>1. tokens' = Marked(t) /\ UNCHANGED <<badges, swept>>
    BY <1>8 DEF A!Logout, Marked
  <2>2. /\ DOMAIN tokens' = DOMAIN tokens /\ Len(tokens') = Len(tokens)
        /\ \A x \in DOMAIN tokens : /\ tokens'[x].readonly = tokens[x].readonly
                                    /\ tokens'[x].meant = tokens[x].meant
                                    /\ tokens[x].revoked => tokens'[x].revoked
    BY <2>1, TokenMarked
  <2> QED BY <2>1, <2>2, SupportMarks
<1>9. CASE A!HourPasses
  BY <1>9, HourTyped, SupportMarks
<1>10. CASE Keeps
  BY <1>10, SupportMarks DEF Keeps
<1> QED BY <1>1, <1>3, <1>4, <1>5, <1>6, <1>7, <1>8, <1>9, <1>10, AccessKinds, StartsTyped, Zenon

-----------------------------------------------------------------------------
(* Roles and the cache: only a request that is about to clear it may find  *)
(* it out of date.                                                         *)
RolesInv ==
    /\ DOMAIN request = Requests
    /\ A!SystemRoles \subseteq DOMAIN roles
    /\ \A k \in A!SystemRoles : roles[k] = A!SeededPermissionsFor(k)
    /\ (\A q \in Requests : request[q].op # "clear") => \A k \in DOMAIN cache : cache[k] = A!Resolve(k)
    /\ \A q \in Requests : /\ request[q].op = "load" => request[q].permissions = A!Resolve(request[q].role)
                           /\ request[q].op = "delete" => request[q].role \notin A!SystemRoles

(* Roles are as they were seeded, and the cache is empty. *)
LEMMA RolesStart == ASSUME A!Init PROVE RolesInv
  BY DEF A!Init, RolesInv, A!Idle

(* Requests about accounts and sessions *)
LEMMA RolesSame ==
  ASSUME OneByOne, RolesInv, UNCHANGED <<roles, cache>>,
         \/ UNCHANGED request
         \/ \E q \in Requests : \E r : /\ request' = [request EXCEPT ![q] = r]
                                       /\ r.op \notin {"clear", "load", "delete"}
                                       /\ request[q].op # "clear"
  PROVE  RolesInv'
<1>1. CASE UNCHANGED request
  BY <1>1 DEF RolesInv, A!Resolve
<1>2. ASSUME NEW q \in Requests, NEW r, request' = [request EXCEPT ![q] = r],
             r.op \notin {"clear", "load", "delete"}, request[q].op # "clear"
      PROVE  RolesInv'
  <2>1. DOMAIN request' = Requests /\ \A x \in Requests : request'[x] = r /\ request[x].op # "clear"
    BY <1>2 DEF OneByOne, RolesInv
  <2> QED BY <1>2, <2>1 DEF RolesInv, A!Resolve
<1> QED BY <1>1, <1>2

(* Every step keeps the cache with the roles and the duties apart. *)
LEMMA RolesStep == ASSUME OneByOne, RolesInv, [A!Next]_A!vars PROVE RolesInv'
<1>1. CASE \/ A!HourPasses \/ A!Unsuspend \/ UNCHANGED A!vars
           \/ \E u \in People :
                 \/ A!Register(u) \/ A!ForgotPassword(u) \/ A!SetPassword(u)
                 \/ \E readonly \in BOOLEAN : A!Impersonate(u, readonly)
           \/ \E t \in DOMAIN tokens : A!Logout(t)
           \/ \E b \in badges, u \in People :
                 \/ A!ResendInvite(b, u)
                 \/ \E role \in Assigned, password \in BOOLEAN : A!Invite(b, u, role, password)
  <2>1. UNCHANGED <<roles, cache, request>>
    BY <1>1 DEF A!HourPasses, A!Unsuspend, A!vars, A!Register, A!ForgotPassword, A!SetPassword,
       A!Impersonate, A!Logout,
                A!ResendInvite, A!Invite
  <2> QED BY <2>1, RolesSame
<1>2. ASSUME NEW q \in Requests, A!FinishLogin(q) \/ A!Rotate(q) \/ A!ApplyUpdate(q) \/ A!RevokeAll(q)
      PROVE  RolesInv'
  <2>1. /\ UNCHANGED <<roles, cache>> /\ request' = [request EXCEPT ![q] = A!Idle]
        /\ request[q].op # "clear"
    BY <1>2 DEF A!FinishLogin, A!Rotate, A!ApplyUpdate, A!RevokeAll
  <2>2. PICK r : r = A!Idle /\ r.op \notin {"clear", "load", "delete"}
    BY A!Idle.op = "idle" DEF A!Idle
  <2>3. request' = [request EXCEPT ![q] = r]
    BY <2>1, <2>2
  <2> QED BY <2>1, <2>2, <2>3, RolesSame, Zenon
<1>3. ASSUME NEW q \in Requests, NEW r, request[q] = A!Idle, request' = [request EXCEPT ![q] = r],
             r.op \notin {"clear", "load", "delete"}, UNCHANGED <<roles, cache>>
      PROVE  RolesInv'
  <2>1. request[q].op # "clear"
    BY <1>3 DEF A!Idle
  <2> QED BY <1>3, <2>1, RolesSame, Zenon
<1>4. ASSUME NEW q \in Requests, NEW t \in DOMAIN tokens, A!StartRefresh(q, t) PROVE RolesInv'
  <2>1. PICK r : r = [op |-> "rotate", token |-> t, role |-> people[tokens[t].user].role]
    OBVIOUS
  <2>2. /\ request[q] = A!Idle /\ request' = [request EXCEPT ![q] = r] /\ UNCHANGED <<roles, cache>>
        /\ r.op \notin {"clear", "load", "delete"}
    BY <1>4, <2>1 DEF A!StartRefresh
  <2> QED BY <2>2, <1>3, Zenon
<1>5. ASSUME NEW q \in Requests, NEW u \in People, A!StartLogin(q, u) PROVE RolesInv'
  <2>1. PICK r : r = [op |-> "login", user |-> u, role |-> people[u].role]
    OBVIOUS
  <2>2. /\ request[q] = A!Idle /\ request' = [request EXCEPT ![q] = r] /\ UNCHANGED <<roles, cache>>
        /\ r.op \notin {"clear", "load", "delete"}
    BY <1>5, <2>1 DEF A!StartLogin
  <2> QED BY <2>2, <1>3, Zenon
<1>6. ASSUME NEW q \in Requests, A!Suspend(q) PROVE RolesInv'
  <2>1. PICK r : r = [op |-> "revoke"]
    OBVIOUS
  <2>2. /\ request[q] = A!Idle /\ request' = [request EXCEPT ![q] = r] /\ UNCHANGED <<roles, cache>>
        /\ r.op \notin {"clear", "load", "delete"}
    BY <1>6, <2>1 DEF A!Suspend
  <2> QED BY <2>2, <1>3, Zenon
<1>7. ASSUME NEW q \in Requests, NEW b \in badges, NEW u \in People, NEW role \in Assigned, NEW active \in BOOLEAN,
             A!StartUpdate(q, b, u, role, active)
      PROVE  RolesInv'
  <2>1. PICK r : r = [op |-> "update", user |-> u, role |-> role, active |-> active]
    OBVIOUS
  <2>2. /\ request[q] = A!Idle /\ request' = [request EXCEPT ![q] = r] /\ UNCHANGED <<roles, cache>>
        /\ r.op \notin {"clear", "load", "delete"}
    BY <1>7, <2>1 DEF A!StartUpdate
  <2> QED BY <2>2, <1>3, Zenon
<1>8. ASSUME NEW q \in Requests, NEW b \in badges, A!StartLoad(q, b) PROVE RolesInv'
  <2>1. /\ request' = [request EXCEPT ![q] = [op |-> "load", role |-> b.role, permissions |-> A!Resolve(b.role)]]
        /\ UNCHANGED <<roles, cache>> /\ request[q].op # "clear"
    BY <1>8 DEF A!StartLoad, A!Idle
  <2>2. /\ DOMAIN request' = Requests
        /\ \A x \in Requests : /\ request'[x] = [op |-> "load", role |-> b.role, permissions |-> A!Resolve(b.role)]
                               /\ request[x].op # "clear"
    BY <2>1 DEF OneByOne, RolesInv
  <2>3. \A k : A!Resolve(k)' = A!Resolve(k)
    BY <2>1 DEF A!Resolve
  <2> QED BY <2>1, <2>2, <2>3 DEF RolesInv
<1>9. ASSUME NEW q \in Requests, A!FinishLoad(q) PROVE RolesInv'
  <2>1. /\ request[q].op = "load" /\ request' = [request EXCEPT ![q] = A!Idle] /\ UNCHANGED roles
        /\ cache' = [k \in DOMAIN cache \cup {request[q].role} |->
                        IF k = request[q].role THEN request[q].permissions ELSE cache[k]]
    BY <1>9 DEF A!FinishLoad
  <2>2. /\ DOMAIN request' = Requests
        /\ \A x \in Requests : request'[x] = A!Idle /\ request[x].op # "clear"
    BY <2>1 DEF OneByOne, RolesInv
  <2>3. \A k : A!Resolve(k)' = A!Resolve(k)
    BY <2>1 DEF A!Resolve
  <2>4. \A k \in DOMAIN cache' : cache'[k] = A!Resolve(k)
    BY <2>1, <2>2 DEF RolesInv
  <2> QED BY <2>1, <2>2, <2>3, <2>4 DEF RolesInv, A!Idle
<1>10. ASSUME NEW q \in Requests, A!Clear(q) PROVE RolesInv'
  <2>1. cache' = <<>> /\ request' = [request EXCEPT ![q] = A!Idle] /\ UNCHANGED roles
    BY <1>10 DEF A!Clear
  <2>2. /\ DOMAIN request' = Requests /\ DOMAIN cache' = {}
        /\ \A x \in Requests : request'[x] = A!Idle
    BY <2>1 DEF OneByOne, RolesInv
  <2> QED BY <2>1, <2>2 DEF RolesInv, A!Idle
<1>11. ASSUME NEW q \in Requests, NEW r, request' = [request EXCEPT ![q] = r], r.op = "clear",
              A!SystemRoles \subseteq DOMAIN roles', \A k \in A!SystemRoles : roles'[k] = roles[k]
       PROVE  RolesInv'
  <2>1. DOMAIN request' = Requests /\ \A x \in Requests : request'[x] = r
    BY <1>11 DEF OneByOne, RolesInv
  <2> QED BY <1>11, <2>1 DEF RolesInv
<1>12. PICK clear : clear = [op |-> "clear"] /\ clear.op = "clear"
  BY [op |-> "clear"].op = "clear"
<1>13. ASSUME NEW q \in Requests, NEW b \in badges, NEW key \in Custom, NEW g \in Grants, A!CreateRole(q, b, key, g)
       PROVE  RolesInv'
  <2>1. /\ request' = [request EXCEPT ![q] = clear] /\ key \notin DOMAIN roles
        /\ roles' = [k \in DOMAIN roles \cup {key} |-> IF k = key THEN g ELSE roles[k]]
    BY <1>12, <1>13 DEF A!CreateRole
  <2>2. A!SystemRoles \subseteq DOMAIN roles' /\ \A k \in A!SystemRoles : roles'[k] = roles[k]
    BY <2>1 DEF RolesInv
  <2> QED BY <1>11, <1>12, <2>1, <2>2
<1>14. ASSUME NEW q \in Requests, NEW b \in badges, NEW key \in Custom, NEW g \in Grants, A!UpdateRole(q, b, key, g)
       PROVE  RolesInv'
  <2>1. /\ request' = [request EXCEPT ![q] = clear] /\ key \in DOMAIN roles /\ key \notin A!SystemRoles
        /\ roles' = [roles EXCEPT ![key] = g]
    BY <1>12, <1>14 DEF A!UpdateRole
  <2>2. A!SystemRoles \subseteq DOMAIN roles' /\ \A k \in A!SystemRoles : roles'[k] = roles[k]
    BY <2>1 DEF RolesInv
  <2> QED BY <1>11, <1>12, <2>1, <2>2
<1>15. ASSUME NEW q \in Requests, A!FinishDelete(q) PROVE RolesInv'
  <2>1. /\ request' = [request EXCEPT ![q] = clear] /\ request[q].op = "delete"
        /\ roles' = [k \in DOMAIN roles \ {request[q].role} |-> roles[k]]
    BY <1>12, <1>15 DEF A!FinishDelete
  <2>2. A!SystemRoles \subseteq DOMAIN roles' /\ \A k \in A!SystemRoles : roles'[k] = roles[k]
    BY <2>1 DEF RolesInv
  <2> QED BY <1>11, <1>12, <2>1, <2>2
<1>16. ASSUME NEW q \in Requests, NEW b \in badges, NEW key \in Custom, A!StartDelete(q, b, key)
       PROVE  RolesInv'
  <2>1. /\ request' = [request EXCEPT ![q] = [op |-> "delete", role |-> key]] /\ key \notin A!SystemRoles
        /\ UNCHANGED <<roles, cache>> /\ request[q].op # "clear"
    BY <1>16 DEF A!StartDelete, A!Idle
  <2>2. /\ DOMAIN request' = Requests
        /\ \A x \in Requests : /\ request'[x] = [op |-> "delete", role |-> key]
                               /\ request[x].op # "clear"
    BY <2>1 DEF OneByOne, RolesInv
  <2>3. \A k : A!Resolve(k)' = A!Resolve(k)
    BY <2>1 DEF A!Resolve
  <2> QED BY <2>1, <2>2, <2>3 DEF RolesInv
<1> QED BY <1>1, <1>2, <1>4, <1>5, <1>6, <1>7, <1>8, <1>9, <1>10, <1>13, <1>14, <1>15, <1>16,
           Zenon DEF A!Next

(* No seeded role but two both approves and posts, or manages users. *)
LEMMA SeedsSeparate ==
  ASSUME NEW role \in A!SystemRoles \ {"Owner", "Admin"}
  PROVE  /\ ~({<<"Purchases", "bill", "approve">>, <<"Purchases", "bill", "post">>} \subseteq A!SeededPermissionsFor(role))
         /\ A!ManageUsers \notin A!SeededPermissionsFor(role)
<1>1. PICK a, p, m : /\ a = <<"Purchases", "bill", "approve">> /\ p = <<"Purchases", "bill", "post">> /\ m = A!ManageUsers
                     /\ a[1] = "Purchases" /\ a[2] = "bill" /\ a[3] = "approve"
                     /\ p[1] = "Purchases" /\ p[2] = "bill" /\ p[3] = "post"
                     /\ m[1] = "Admin" /\ m[2] = "user" /\ m[3] = "manage"
  <2>1. PICK a : a = <<"Purchases", "bill", "approve">> /\ a[1] = "Purchases" /\ a[2] = "bill" /\ a[3] = "approve"
    <3>1. /\ <<"Purchases", "bill", "approve">>[1] = "Purchases" /\ <<"Purchases", "bill", "approve">>[2] = "bill"
          /\ <<"Purchases", "bill", "approve">>[3] = "approve"
      OBVIOUS
    <3> QED BY <3>1
  <2>2. PICK p : p = <<"Purchases", "bill", "post">> /\ p[1] = "Purchases" /\ p[2] = "bill" /\ p[3] = "post"
    <3>1. /\ <<"Purchases", "bill", "post">>[1] = "Purchases" /\ <<"Purchases", "bill", "post">>[2] = "bill"
          /\ <<"Purchases", "bill", "post">>[3] = "post"
      OBVIOUS
    <3> QED BY <3>1
  <2>3. PICK m : m = A!ManageUsers /\ m[1] = "Admin" /\ m[2] = "user" /\ m[3] = "manage"
    <3>1. A!ManageUsers[1] = "Admin" /\ A!ManageUsers[2] = "user" /\ A!ManageUsers[3] = "manage"
      BY DEF A!ManageUsers
    <3> QED BY <3>1
  <2> QED BY <2>1, <2>2, <2>3
<1>2. role \in {"Accountant", "HrManager", "Editor", "Approver", "Viewer"}
  BY DEF A!SystemRoles
<1>3. ~A!RoleGrants(role, m)
  BY <1>1, <1>2 DEF A!RoleGrants, A!GeneralRead, A!FinanceCats, A!OpsCats, A!EditorVerbs,
     A!ApproveVerbs, A!ConfigVerbs,
                    A!SensitiveResources
<1>4. ~A!RoleGrants(role, a) \/ ~A!RoleGrants(role, p)
  BY <1>1, <1>2 DEF A!RoleGrants, A!GeneralRead, A!FinanceCats, A!OpsCats, A!EditorVerbs,
     A!ApproveVerbs, A!ConfigVerbs,
                    A!SensitiveResources
<1> QED BY <1>1, <1>3, <1>4 DEF A!SeededPermissionsFor

(* What is promised of roles follows from their invariant. *)
LEMMA RolesHold == ASSUME RolesInv PROVE A!CacheFresh /\ A!DutiesSeparate
<1>1. A!CacheFresh
  BY DEF A!CacheFresh, RolesInv, A!Quiet, A!Idle
<1>2. ASSUME NEW role \in A!SystemRoles \ {"Owner", "Admin"}
      PROVE  /\ ~({<<"Purchases", "bill", v>> : v \in {"approve", "post"}} \subseteq roles[role])
             /\ A!ManageUsers \notin roles[role]
  <2>1. roles[role] = A!SeededPermissionsFor(role)
    BY DEF RolesInv
  <2>2. {<<"Purchases", "bill", v>> : v \in {"approve", "post"}}
          = {<<"Purchases", "bill", "approve">>, <<"Purchases", "bill", "post">>}
    OBVIOUS
  <2> QED BY <2>1, <2>2, SeedsSeparate
<1> QED BY <1>1, <1>2 DEF A!DutiesSeparate

-----------------------------------------------------------------------------
AccessInv == AccessType /\ OwnersInv /\ A!StaleUntilRefresh /\ SessionsInv /\ SupportInv /\ RolesInv

(* The parts of the invariant hold at first, *)
LEMMA AccessStart == ASSUME HoursOK, A!Init PROVE AccessInv
  BY TypeStart, OwnersStart, StaleStart, SessionsStart, SupportStart, RolesStart DEF AccessInv

(* every step keeps them, *)
LEMMA AccessStep == ASSUME HoursOK, OneByOne, AccessInv, [A!Next]_A!vars PROVE AccessInv'
  BY TypeStep, OwnersStep, StaleStep, SessionsStep, SupportStep, RolesStep DEF AccessInv

(* and what access promises follows from them. *)
LEMMA AccessImplies ==
  ASSUME AccessInv
  PROVE  /\ A!OwnerRemains /\ A!StaleUntilRefresh /\ A!SessionsDoNotMultiply
         /\ A!SupportStaysReadOnly /\ A!SuspensionEndsSessions /\ A!CacheFresh /\ A!DutiesSeparate
  BY RolesHold, AccountCards DEF AccessInv, OwnersInv, SessionsInv, A!SessionsDoNotMultiply, Good,
     SupportInv

(* While requests do not overlap, a tenant with users keeps an active      *)
(* Owner; a session carries a role or a state its account lost only until  *)
(* it is renewed; renewing never multiplies sessions, a support session    *)
(* stays read-only, and a suspension ends every session begun before it;   *)
(* between requests the permission cache agrees with the tables; and no    *)
(* seeded role unites duties that are to be separate.                      *)
THEOREM AccessHolds ==
  HoursOK /\ OneByOne =>
     (A!Spec => [](/\ A!OwnerRemains /\ A!StaleUntilRefresh /\ A!SessionsDoNotMultiply
                   /\ A!SupportStaysReadOnly /\ A!SuspensionEndsSessions /\ A!CacheFresh /\ A!DutiesSeparate))
<1> SUFFICES ASSUME HoursOK, OneByOne
             PROVE  A!Spec => [](/\ A!OwnerRemains /\ A!StaleUntilRefresh /\ A!SessionsDoNotMultiply
                                 /\ A!SupportStaysReadOnly /\ A!SuspensionEndsSessions /\ A!CacheFresh /\ A!DutiesSeparate)
  OBVIOUS
<1>1. A!Init => AccessInv
  BY AccessStart
<1>2. AccessInv /\ [A!Next]_A!vars => AccessInv'
  BY AccessStep
<1>3. AccessInv => /\ A!OwnerRemains /\ A!StaleUntilRefresh /\ A!SessionsDoNotMultiply
                   /\ A!SupportStaysReadOnly /\ A!SuspensionEndsSessions /\ A!CacheFresh /\ A!DutiesSeparate
  BY AccessImplies
<1> QED BY <1>1, <1>2, <1>3, PTL DEF A!Spec

-----------------------------------------------------------------------------
(* Notifications: the messages that are sent, and the invoices they are    *)
(* reminders of.                                                           *)

Channels == {"in_app", "email", "sms", "whatsapp"}
Events == {"InvoiceReminder", "InvoicePaid", "InvoiceSent"}

(* What the constants are: at least one attempt is made, bills are for     *)
(* something, and only events with default channels are emitted.           *)
MailOK ==
    /\ Emitted \subseteq N!Configurable
    /\ MAX_RETRIES \in Nat \ {0}
    /\ InvoiceTotal \in Nat /\ (Bills # {} => InvoiceTotal > 0)
    /\ BatchSize \in Nat \ {0}
    /\ RuleChannels \in Seq(Channels)
    /\ \A e \in Edits : "secret" \in DOMAIN e

Letters == [event : Events, about : Bills \cup {"none"}, channels : Seq(Channels)]

Rows == [letter : Nat, event : {N!StoredEvent[e] : e \in Events}, about : Bills \cup {"none"}, channel : Channels,
         status : {"queued", "sent", "delivered", "failed", "read", "cancelled"}, read : BOOLEAN,
         tries : Nat, copies : Nat, unanswered : Nat]

-----------------------------------------------------------------------------
(* What a save of a provider changes: the provider and the saves under way *)
Configures ==
    \/ \E c \in External, e \in Edits : N!SaveSecret(c, e) \/ \E k \in Editors : N!StartEdit(k, c, e)
    \/ \E k \in Editors : N!UpsertProvider(k)

LEMMA ConfiguresOnly ==
  ASSUME Configures
  PROVE  UNCHANGED <<letters, cursor, acked, courier, skipped, notices, wishes, dues, payer, ticker,
                     calendar, outages>>
<1>1. ASSUME NEW c \in External, NEW e \in Edits, N!SaveSecret(c, e)
      PROVE  UNCHANGED <<N!mailVars, notices, wishes, N!billVars, outages>>
  BY <1>1 DEF N!SaveSecret
<1>2. ASSUME NEW k \in Editors, NEW c \in External, NEW e \in Edits, N!StartEdit(k, c, e)
      PROVE  UNCHANGED <<N!mailVars, notices, wishes, N!billVars, outages>>
  BY <1>2 DEF N!StartEdit
<1>3. ASSUME NEW k \in Editors, N!UpsertProvider(k)
      PROVE  UNCHANGED <<N!mailVars, notices, wishes, N!billVars, outages>>
  BY <1>3 DEF N!UpsertProvider
<1>4. UNCHANGED <<N!mailVars, notices, wishes, N!billVars, outages>>
  BY <1>1, <1>2, <1>3 DEF Configures
<1> QED BY <1>4 DEF N!mailVars, N!billVars

-----------------------------------------------------------------------------
(* Invoices: once something was paid, an invoice is never overdue again,   *)
(* so a payment never finds reminders to cancel.                           *)
Statuses == {"posted", "overdue", "partially_paid", "paid"}

DuesInv ==
    /\ dues \in [Bills -> [status : Statuses, balance : Int]]
    /\ DOMAIN payer = Payers
    /\ \A p \in Payers :
          /\ payer[p].amount \in Int /\ ~payer[p].overdue
          /\ payer[p].op # "idle" => payer[p].bill \in Bills
          /\ payer[p].op \in {"balance", "cancel"} => dues[payer[p].bill].status \in {"paid", "partially_paid"}
    /\ \A p \in Payers : DOMAIN payer[p] = {"op", "bill", "amount", "balance", "overdue"}
    /\ N!StatusMatchesBalance

(* Every bill is posted and unpaid at first. *)
LEMMA DuesStart == ASSUME MailOK, N!Init PROVE DuesInv
<1>1. /\ dues = [b \in Bills |-> [status |-> "posted", balance |-> InvoiceTotal]]
      /\ payer = [p \in Payers |-> N!NoPayment]
  BY DEF N!Init
<1>2. dues \in [Bills -> [status : Statuses, balance : Int]] /\ N!StatusMatchesBalance
  BY <1>1 DEF MailOK, Statuses, N!StatusMatchesBalance
<1> QED BY <1>1, <1>2 DEF DuesInv, N!NoPayment

(* A payment that only read the balance changes no bill. *)
LEMMA ReadKeeps ==
  ASSUME MailOK, DuesInv, NEW p \in Payers, NEW b \in Bills, N!ReadBalance(p, b)
  PROVE  DuesInv'
<1>1. PICK n : n = IF dues[b].balance < 1 THEN dues[b].balance ELSE 1
  OBVIOUS
<1>2. n \in Int
  BY <1>1 DEF DuesInv
<1>3. PICK w : w = [N!NoPayment EXCEPT !.op = "commit", !.bill = b, !.amount = n]
  OBVIOUS
<1>4. payer' = [payer EXCEPT ![p] = w] /\ UNCHANGED dues
  BY <1>1, <1>3 DEF N!ReadBalance
<1>5. /\ w.op = "commit" /\ w.bill = b /\ w.amount = n /\ w.overdue = FALSE
      /\ DOMAIN w = {"op", "bill", "amount", "balance", "overdue"}
  BY <1>3 DEF N!NoPayment
<1>6. DOMAIN payer' = Payers /\ \A q \in Payers : payer'[q] = IF q = p THEN w ELSE payer[q]
  BY <1>4 DEF DuesInv
<1> QED BY <1>2, <1>4, <1>5, <1>6 DEF DuesInv, N!StatusMatchesBalance

(* A payment leaves a bill with the status its balance asks for, also when *)
(* the balance is not the one it read.                                     *)
LEMMA PayKeeps ==
  ASSUME MailOK, DuesInv, NEW p \in Payers, N!Pay(p)
  PROVE  DuesInv'
<1>0. PICK b \in Bills : b = payer[p].bill
  BY DEF N!Pay, DuesInv
<1>a. CASE payer[p].amount = 0
  <2>1. payer' = [payer EXCEPT ![p] = N!NoPayment] /\ UNCHANGED dues
    BY <1>a DEF N!Pay
  <2>2. DOMAIN payer' = Payers /\ \A q \in Payers : payer'[q] = IF q = p THEN N!NoPayment ELSE payer[q]
    BY <2>1 DEF DuesInv
  <2> QED BY <2>1, <2>2 DEF DuesInv, N!StatusMatchesBalance, N!NoPayment
<1>b. CASE payer[p].amount # 0
  <2>1. PICK left : left = dues[b].balance - payer[p].amount
    OBVIOUS
  <2>2. dues[b].balance \in Int /\ payer[p].amount \in Int /\ left \in Int
    BY <2>1 DEF DuesInv
  <2>3. PICK due : due = [status |-> N!PaidStatus(left), balance |-> left]
    OBVIOUS
  <2>4. /\ due \in [status : Statuses, balance : Int]
        /\ due.status \in {"paid", "partially_paid"}
        /\ due.status = "paid" <=> due.balance =< 0
    BY <2>2, <2>3 DEF N!PaidStatus, Statuses
  <2>5. dues' = [dues EXCEPT ![b] = due] /\ payer' = [payer EXCEPT ![p].op = "balance"]
    BY <1>0, <1>b, <2>1, <2>3 DEF N!Pay
  <2>6. PICK w : w = [payer[p] EXCEPT !.op = "balance"]
    OBVIOUS
  <2>7. /\ payer' = [payer EXCEPT ![p] = w] /\ w.bill = b /\ w.overdue = payer[p].overdue
        /\ w.op = "balance" /\ w.amount = payer[p].amount
        /\ DOMAIN w = {"op", "bill", "amount", "balance", "overdue"}
    BY <1>0, <2>5, <2>6 DEF DuesInv
  <2>8. /\ dues' \in [Bills -> [status : Statuses, balance : Int]]
        /\ \A c \in Bills : dues'[c] = IF c = b THEN due ELSE dues[c]
        /\ DOMAIN payer' = Payers /\ \A q \in Payers : payer'[q] = IF q = p THEN w ELSE payer[q]
    BY <2>4, <2>5, <2>7 DEF DuesInv
  <2>9. N!StatusMatchesBalance'
    BY <2>4, <2>8 DEF DuesInv, N!StatusMatchesBalance
  <2> QED BY <2>2, <2>4, <2>7, <2>8, <2>9 DEF DuesInv
<1> QED BY <1>a, <1>b DEF DuesInv

(* Every step keeps status and balance together. *)
LEMMA DuesStep == ASSUME MailOK, DuesInv, [N!Next]_N!vars PROVE DuesInv'
<1>1. ASSUME UNCHANGED <<dues, payer>> PROVE DuesInv'
  BY <1>1 DEF DuesInv, N!StatusMatchesBalance
<1>2. ASSUME NEW p \in Payers, N!Pay(p) \/ \E b \in Bills : N!ReadBalance(p, b) PROVE DuesInv'
  BY <1>2, PayKeeps, ReadKeeps
<1>3. ASSUME NEW p \in Payers, N!FetchBalance(p) PROVE DuesInv'
  <2>1. /\ payer[p].op = "balance" /\ UNCHANGED dues
        /\ payer' = [payer EXCEPT ![p].op = "cancel", ![p].balance = dues[payer[p].bill].balance]
    BY <1>3 DEF N!FetchBalance
  <2>2. PICK w : w = [payer[p] EXCEPT !.op = "cancel", !.balance = dues[payer[p].bill].balance]
    OBVIOUS
  <2>3. payer' = [payer EXCEPT ![p] = w]
    BY <2>1, <2>2 DEF DuesInv
  <2>4. /\ w.bill = payer[p].bill /\ w.overdue = payer[p].overdue /\ w.amount = payer[p].amount
        /\ w.op = "cancel" /\ DOMAIN w = DOMAIN payer[p]
    BY <2>2 DEF DuesInv
  <2>5. DOMAIN payer' = Payers /\ \A q \in Payers : payer'[q] = IF q = p THEN w ELSE payer[q]
    BY <2>3 DEF DuesInv
  <2> QED BY <2>1, <2>4, <2>5 DEF DuesInv, N!StatusMatchesBalance
<1>4. ASSUME NEW p \in Payers, N!CancelReminders(p) PROVE DuesInv'
  <2>1. payer[p].op = "cancel" /\ ~payer[p].overdue /\ dues[payer[p].bill].status # "overdue"
    BY <1>4 DEF N!CancelReminders, DuesInv
  <2>2. payer' = [payer EXCEPT ![p] = N!NoPayment] /\ UNCHANGED dues
    BY <1>4, <2>1 DEF N!CancelReminders
  <2> QED BY <2>2 DEF DuesInv, N!StatusMatchesBalance, N!NoPayment
<1>5. CASE N!MarkOverdue
  <2>1. /\ dues' = [b \in Bills |-> IF N!BecomesOverdue(b) THEN [dues[b] EXCEPT !.status = "overdue"] ELSE dues[b]]
        /\ UNCHANGED payer
    BY <1>5 DEF N!MarkOverdue
  <2>2. ASSUME NEW b \in Bills
        PROVE  /\ dues'[b] \in [status : Statuses, balance : Int]
               /\ dues[b].status \in {"paid", "partially_paid"} => dues'[b] = dues[b]
               /\ dues'[b].status = "paid" <=> dues'[b].balance =< 0
    BY <2>1 DEF N!BecomesOverdue, DuesInv, N!StatusMatchesBalance, Statuses
  <2>3. dues' \in [Bills -> [status : Statuses, balance : Int]]
    BY <2>1, <2>2
  <2> QED BY <2>1, <2>2, <2>3 DEF DuesInv, N!StatusMatchesBalance
<1>6. CASE \/ \E event \in Emitted : N!Emit(event) \/ N!UpsertPreference(event, <<"sms">>)
           \/ N!ReadStream \/ N!InsertRow \/ N!SkipPair \/ N!Deliver \/ N!UpdateRow \/ N!Ack \/ N!Halt
           \/ \E n \in DOMAIN notices : N!MarkRead(n)
           \/ N!MarkAllRead \/ N!StartTick \/ N!Remind \/ N!NextDay \/ UNCHANGED N!vars
  BY <1>1, <1>6 DEF N!Emit, N!UpsertPreference, N!ReadStream, N!InsertRow,
     N!SkipPair, N!Deliver,
                    N!UpdateRow, N!Ack, N!Halt, N!MarkRead, N!MarkAllRead, N!StartTick, N!Remind,
                    N!NextDay, N!vars, N!billVars
<1>7. CASE Configures
  BY <1>1, <1>7, ConfiguresOnly
<1> QED BY <1>2, <1>3, <1>4, <1>5, <1>6, <1>7 DEF N!Next, Configures

-----------------------------------------------------------------------------
(* A save under way that no other has overtaken carries the stored secret. *)
Carries(k) ==
    editing[k].op = "write" /\ ~editing[k].stale =>
        editing[k].row.secret = N!StoredSecret(editing[k].channel)

EditInv ==
    /\ DOMAIN editing = Editors
    /\ \A k \in Editors : DOMAIN editing[k] = {"op", "channel", "row", "stale"}
    /\ \A k \in Editors : Carries(k)

LEMMA EditStart == ASSUME N!Init PROVE EditInv
<1>1. editing = [k \in Editors |-> N!NoEdit]
  BY DEF N!Init
<1> QED BY <1>1 DEF EditInv, Carries, N!NoEdit

(* What is not a save leaves the providers alone. *)
LEMMA OthersLeaveProviders ==
  ASSUME [N!Next]_N!vars, ~Configures
  PROVE  UNCHANGED <<carriers, editing>>
<1>1. \/ \E event \in Emitted : N!Emit(event) \/ N!UpsertPreference(event, <<"sms">>)
      \/ N!ReadStream \/ N!InsertRow \/ N!SkipPair \/ N!Deliver \/ N!UpdateRow \/ N!Ack \/ N!Halt
      \/ \E n \in DOMAIN notices : N!MarkRead(n)
      \/ N!MarkAllRead \/ N!StartTick \/ N!Remind \/ N!MarkOverdue \/ N!NextDay
      \/ \E p \in Payers : \/ N!Pay(p) \/ N!FetchBalance(p) \/ N!CancelReminders(p)
                          \/ \E b \in Bills : N!ReadBalance(p, b)
      \/ UNCHANGED N!vars
  BY DEF N!Next, Configures
<1> QED BY <1>1 DEF N!Emit, N!UpsertPreference, N!ReadStream, N!InsertRow, N!SkipPair, N!Deliver,
       N!UpdateRow, N!Ack, N!Halt, N!MarkRead, N!MarkAllRead, N!StartTick, N!Remind, N!MarkOverdue,
       N!NextDay, N!FetchBalance, N!CancelReminders, N!Pay, N!ReadBalance, N!vars, N!providers

(* A write to a channel gives it the secret of its row and leaves the      *)
(* other channels alone.                                                   *)
LEMMA WriteFacts ==
  ASSUME NEW d, NEW row, N!Write(d, row)
  PROVE  /\ N!StoredSecret(d)' = row.secret
         /\ \A c : c # d => N!StoredSecret(c)' = N!StoredSecret(c)
         /\ DOMAIN carriers' = DOMAIN carriers \cup {d}
         /\ carriers'[d].secret = row.secret
         /\ \A c \in DOMAIN carriers : c # d => carriers'[c] = carriers[c]
<1>1. PICK new : new = [enabled |-> row.enabled, settings |-> row.settings, secret |-> row.secret]
  OBVIOUS
<1>2. carriers' = [c \in DOMAIN carriers \cup {d} |-> IF c # d THEN carriers[c] ELSE new]
  BY <1>1 DEF N!Write
<1>3. new.secret = row.secret
  BY <1>1
<1> QED BY <1>2, <1>3 DEF N!StoredSecret

(* What a save overtakes is stale, and nothing else of the saves changes.  *)
LEMMA OvertakenFacts ==
  ASSUME EditInv, NEW d
  PROVE  /\ DOMAIN N!Overtaken(d) = Editors
         /\ \A k \in Editors :
               /\ N!Overtaken(d)[k].op = editing[k].op /\ N!Overtaken(d)[k].channel = editing[k].channel
               /\ N!Overtaken(d)[k].row = editing[k].row
               /\ DOMAIN N!Overtaken(d)[k] = {"op", "channel", "row", "stale"}
               /\ editing[k].op = "write" /\ ~N!Overtaken(d)[k].stale =>
                     editing[k].channel # d /\ ~editing[k].stale
  BY DEF N!Overtaken, EditInv

(* A save with a secret overtakes the others of its channel. *)
LEMMA SaveKeeps ==
  ASSUME EditInv, NEW d, NEW e, N!SaveSecret(d, e)
  PROVE  /\ EditInv'
         /\ \A c \in DOMAIN carriers : carriers[c].secret # "" => carriers'[c].secret # ""
<1>1. N!Write(d, e) /\ e.secret # "" /\ editing' = N!Overtaken(d)
  BY DEF N!SaveSecret
<1>2. EditInv'
  <2>1. DOMAIN editing' = Editors /\ \A k \in Editors : DOMAIN editing'[k] = {"op", "channel", "row", "stale"}
    BY <1>1, OvertakenFacts
  <2>2. ASSUME NEW k \in Editors PROVE Carries(k)'
    <3>1. PICK c : c = editing[k].channel
      OBVIOUS
    <3>2. /\ editing'[k].op = editing[k].op /\ editing'[k].row = editing[k].row /\ editing'[k].channel = c
          /\ editing[k].op = "write" /\ ~editing'[k].stale => c # d /\ ~editing[k].stale
      BY <1>1, <3>1, OvertakenFacts
    <3>3. c # d => N!StoredSecret(c)' = N!StoredSecret(c)
      BY <1>1, WriteFacts
    <3>4. editing[k].op = "write" /\ ~editing[k].stale => editing[k].row.secret = N!StoredSecret(c)
      BY <3>1 DEF EditInv, Carries
    <3>5. editing'[k].op = "write" /\ ~editing'[k].stale => editing'[k].row.secret = N!StoredSecret(c)'
      BY <3>2, <3>3, <3>4
    <3> QED BY <3>2, <3>5 DEF Carries, N!StoredSecret
  <2> QED BY <2>1, <2>2 DEF EditInv
<1> QED BY <1>1, <1>2, WriteFacts

(* The first statement of a save with a blank one reads what is stored. *)
LEMMA StartKeeps ==
  ASSUME MailOK, EditInv, NEW k \in Editors, NEW d \in External, NEW e \in Edits, N!StartEdit(k, d, e)
  PROVE  EditInv' /\ carriers' = carriers
<1>1. PICK w : w = [op |-> "write", channel |-> d, stale |-> FALSE,
                    row |-> [e EXCEPT !.secret = N!StoredSecret(d)]]
  OBVIOUS
<1>2. editing' = [editing EXCEPT ![k] = w] /\ carriers' = carriers
  BY <1>1 DEF N!StartEdit
<1>3. w.channel = d /\ w.row.secret = N!StoredSecret(d) /\ DOMAIN w = {"op", "channel", "row", "stale"}
  BY <1>1 DEF MailOK
<1>4. DOMAIN editing' = Editors /\ \A j \in Editors : editing'[j] = IF j = k THEN w ELSE editing[j]
  BY <1>2 DEF EditInv
<1>5. \A c : N!StoredSecret(c)' = N!StoredSecret(c)
  BY <1>2 DEF N!StoredSecret
<1>6. ASSUME NEW j \in Editors PROVE Carries(j)'
  <2>1. CASE j = k
    BY <1>2, <1>3, <1>4, <2>1 DEF Carries, N!StoredSecret
  <2>2. CASE j # k
    BY <1>2, <1>4, <2>2 DEF EditInv, Carries, N!StoredSecret
  <2> QED BY <2>1, <2>2
<1> QED BY <1>2, <1>3, <1>4, <1>6 DEF EditInv

(* The second statement takes a secret away only when it was overtaken. *)
LEMMA FinishKeeps ==
  ASSUME EditInv, NEW k \in Editors, N!UpsertProvider(k)
  PROVE  /\ EditInv'
         /\ \A c \in DOMAIN carriers :
               carriers[c].secret # "" /\ carriers'[c].secret = "" =>
                  editing[k].channel = c /\ editing[k].stale /\ editing'[k] # editing[k]
<1>0. PICK d : d = editing[k].channel
  OBVIOUS
<1>1. /\ editing[k].op = "write" /\ N!Write(d, editing[k].row)
      /\ editing' = [N!Overtaken(d) EXCEPT ![k] = N!NoEdit]
  BY <1>0 DEF N!UpsertProvider
<1>2. /\ DOMAIN editing' = Editors
      /\ \A j \in Editors : editing'[j] = IF j = k THEN N!NoEdit ELSE N!Overtaken(d)[j]
  BY <1>1, OvertakenFacts
<1>3. N!NoEdit.op = "idle" /\ DOMAIN N!NoEdit = {"op", "channel", "row", "stale"}
  BY DEF N!NoEdit
<1>4. ASSUME NEW j \in Editors PROVE Carries(j)'
  <2>1. CASE j = k
    BY <1>2, <1>3, <2>1 DEF Carries
  <2>2. CASE j # k
    <3>1. PICK c : c = editing[j].channel
      OBVIOUS
    <3>2. /\ editing'[j].op = editing[j].op /\ editing'[j].row = editing[j].row /\ editing'[j].channel = c
          /\ editing[j].op = "write" /\ ~editing'[j].stale => c # d /\ ~editing[j].stale
      BY <1>2, <2>2, <3>1, OvertakenFacts
    <3>3. c # d => N!StoredSecret(c)' = N!StoredSecret(c)
      BY <1>1, WriteFacts
    <3>4. editing[j].op = "write" /\ ~editing[j].stale => editing[j].row.secret = N!StoredSecret(c)
      BY <3>1 DEF EditInv, Carries
    <3>5. editing'[j].op = "write" /\ ~editing'[j].stale => editing'[j].row.secret = N!StoredSecret(c)'
      BY <3>2, <3>3, <3>4
    <3> QED BY <3>2, <3>5 DEF Carries, N!StoredSecret
  <2> QED BY <2>1, <2>2
<1>5. EditInv'
  <2>1. \A j \in Editors : DOMAIN editing'[j] = {"op", "channel", "row", "stale"}
    BY <1>2, <1>3, OvertakenFacts
  <2> QED BY <1>2, <1>4, <2>1 DEF EditInv
<1>6. ASSUME NEW c \in DOMAIN carriers, carriers[c].secret # "", carriers'[c].secret = ""
      PROVE  editing[k].channel = c /\ editing[k].stale /\ editing'[k] # editing[k]
  <2>0. PICK row : row = editing[k].row
    OBVIOUS
  <2>a. N!Write(d, row)
    BY <1>1, <2>0
  <2>b. carriers'[d].secret = row.secret /\ (c # d => carriers'[c] = carriers[c])
    BY <2>a, WriteFacts
  <2>1. c = d /\ editing[k].row.secret = ""
    BY <1>6, <2>0, <2>b
  <2>2. N!StoredSecret(d) # ""
    BY <1>6, <2>1 DEF N!StoredSecret
  <2>3. editing[k].stale
    BY <1>0, <1>1, <2>1, <2>2 DEF EditInv, Carries
  <2> QED BY <1>0, <1>1, <1>2, <1>3, <2>1, <2>3
<1> QED BY <1>5, <1>6

(* A secret that was stored is lost only by a save that was overtaken. *)
LEMMA SecretStep ==
  ASSUME MailOK, EditInv, [N!Next]_N!vars
  PROVE  /\ EditInv'
         /\ \A c \in DOMAIN carriers :
               carriers[c].secret # "" /\ carriers'[c].secret = "" =>
                   \E k \in Editors : /\ editing[k].channel = c /\ editing[k].stale
                                      /\ editing'[k] # editing[k]
<1>1. CASE ~Configures
  <2>1. UNCHANGED <<carriers, editing>>
    BY <1>1, OthersLeaveProviders
  <2> QED BY <2>1 DEF EditInv, Carries, N!StoredSecret
<1>2. ASSUME NEW c \in External, NEW e \in Edits, N!SaveSecret(c, e)
      PROVE  /\ EditInv'
             /\ \A x \in DOMAIN carriers : carriers[x].secret # "" => carriers'[x].secret # ""
  BY <1>2, SaveKeeps
<1>3. ASSUME NEW k \in Editors, NEW c \in External, NEW e \in Edits, N!StartEdit(k, c, e)
      PROVE  EditInv' /\ carriers' = carriers
  BY <1>3, StartKeeps
<1>4. ASSUME NEW k \in Editors, N!UpsertProvider(k)
      PROVE  /\ EditInv'
             /\ \A c \in DOMAIN carriers :
                   carriers[c].secret # "" /\ carriers'[c].secret = "" =>
                      editing[k].channel = c /\ editing[k].stale /\ editing'[k] # editing[k]
  BY <1>4, FinishKeeps
<1>5. CASE Configures
  BY <1>2, <1>3, <1>4, <1>5 DEF Configures
<1> QED BY <1>1, <1>5

-----------------------------------------------------------------------------
(* The stream and the worker *)
MailType ==
    /\ letters \in Seq(Letters) /\ notices \in Seq(Rows)
    /\ cursor \in 0..Len(letters) /\ acked \subseteq 1..Len(letters)
    /\ \A e \in DOMAIN wishes : wishes[e] \in Seq(Channels)
    /\ courier \in [batch : Seq(Nat \ {0}), at : Nat \ {0}, row : Nat, tries : Nat,
                    op : {"read", "row", "deliver", "sent", "failed"}]
    /\ \A i \in DOMAIN courier.batch : courier.batch[i] =< Len(letters)
    /\ courier.op = "read" => courier = N!Waiting
    /\ courier.op # "read" => courier.batch # <<>>

RowOK(r) ==
    /\ r.status \in {"sent", "delivered"} => r.copies > 0
    /\ r.status = "failed" => r.tries = MAX_RETRIES /\ r.copies = r.unanswered
    /\ r.copies =< 1 + r.unanswered /\ r.tries =< MAX_RETRIES

(* The row the worker is delivering, and what it knows of it *)
Delivering(r) ==
    /\ r.letter = N!Letter /\ r.channel = N!Channel /\ r.tries = courier.tries
    /\ r.status \in {"queued", "read", "cancelled"}
    /\ courier.op = "deliver" => r.tries < MAX_RETRIES /\ r.copies = r.unanswered
    /\ courier.op = "sent" => r.copies > 0
    /\ courier.op = "failed" => r.tries = MAX_RETRIES /\ r.copies = r.unanswered

AtWork ==
    courier.op \in {"deliver", "sent", "failed"} =>
       /\ courier.row \in DOMAIN notices
       /\ courier.at \in DOMAIN letters[N!Letter].channels
       /\ Delivering(notices[courier.row])

Decided(l, i) ==
    \/ <<l, letters[l].channels[i]>> \in skipped
    \/ \E n \in DOMAIN notices : /\ notices[n].letter = l
                                 /\ notices[n].channel = letters[l].channels[i]
                                 /\ notices[n].copies > 0 \/ notices[n].tries = MAX_RETRIES

DecidedInv ==
    /\ \A l \in acked : \A i \in DOMAIN letters[l].channels : Decided(l, i)
    /\ courier.op # "read" =>
          \A i \in DOMAIN letters[N!Letter].channels : i < courier.at => Decided(N!Letter, i)

MailInv == MailType /\ (\A n \in DOMAIN notices : RowOK(notices[n])) /\ AtWork /\ DecidedInv

(* No letter is written at first. *)
LEMMA MailStart == ASSUME MailOK, N!Init PROVE MailInv
<1>1. /\ letters = <<>> /\ notices = <<>> /\ cursor = 0 /\ acked = {} /\ courier = N!Waiting
      /\ DOMAIN wishes = {}
  BY DEF N!Init
<1>2. N!Waiting \in [batch : Seq(Nat \ {0}), at : Nat \ {0}, row : Nat, tries : Nat,
                  op : {"read", "row", "deliver", "sent", "failed"}]
      /\ N!Waiting.op = "read" /\ DOMAIN N!Waiting.batch = {}
  BY DEF N!Waiting
<1>3. letters \in Seq(Letters) /\ Len(letters) = 0 /\ notices \in Seq(Rows) /\ DOMAIN notices = {}
  BY <1>1
<1>4. MailType
  BY <1>1, <1>2, <1>3 DEF MailType
<1>5. AtWork /\ DecidedInv
  BY <1>1, <1>2 DEF AtWork, DecidedInv
<1> QED BY <1>3, <1>4, <1>5 DEF MailInv

(* The letter in hand *)
LEMMA LetterFacts ==
  ASSUME MailType, courier.op # "read"
  PROVE  /\ N!Letter \in DOMAIN letters /\ N!Letter \in 1..Len(letters) /\ N!Letter \in Nat
         /\ letters[N!Letter] \in Letters
         /\ letters[N!Letter].channels \in Seq(Channels)
         /\ letters[N!Letter].event \in Events /\ letters[N!Letter].about \in Bills \cup {"none"}
<1>1. courier.batch \in Seq(Nat \ {0}) /\ courier.batch # <<>>
  BY DEF MailType
<1>2. 1 \in DOMAIN courier.batch /\ courier.batch[1] \in Nat \ {0}
  BY <1>1
<1>3. N!Letter = courier.batch[1]
  BY <1>1 DEF N!Letter
<1>4. N!Letter =< Len(letters) /\ N!Letter \in Nat \ {0}
  BY <1>2, <1>3 DEF MailType
<1>5. letters \in Seq(Letters) /\ DOMAIN letters = 1..Len(letters) /\ Len(letters) \in Nat
  BY DEF MailType
<1>6. letters[N!Letter] \in Letters /\ N!Letter \in DOMAIN letters /\ N!Letter \in 1..Len(letters)
  BY <1>4, <1>5
<1> QED BY <1>4, <1>6 DEF Letters

(* The letter in hand goes to known channels. *)
LEMMA LetterPrime ==
  ASSUME MailType', courier'.op # "read" PROVE letters'[N!Letter'].channels \in Seq(Channels)
<1>1. courier'.batch \in Seq(Nat \ {0}) /\ courier'.batch # <<>>
  BY DEF MailType
<1>2. 1 \in DOMAIN courier'.batch /\ courier'.batch[1] \in Nat \ {0}
  BY <1>1
<1>3. N!Letter' = courier'.batch[1]
  BY <1>1 DEF N!Letter
<1>4. N!Letter' =< Len(letters') /\ N!Letter' \in Nat \ {0}
  BY <1>2, <1>3 DEF MailType
<1>5. letters' \in Seq(Letters) /\ DOMAIN letters' = 1..Len(letters') /\ Len(letters') \in Nat
  BY DEF MailType
<1>6. letters'[N!Letter'] \in Letters
  BY <1>4, <1>5
<1> QED BY <1>6 DEF Letters

(* A row may be given another outcome than the worker's at any time. *)
LEMMA RestatusKeeps ==
  ASSUME MailOK, MailInv, notices' \in Seq(Rows), DOMAIN notices' = DOMAIN notices,
         \A n \in DOMAIN notices :
            /\ notices'[n].letter = notices[n].letter /\ notices'[n].channel = notices[n].channel
            /\ notices'[n].tries = notices[n].tries /\ notices'[n].copies = notices[n].copies
            /\ notices'[n].unanswered = notices[n].unanswered
            /\ notices'[n].status \in {"read", "cancelled"} \/ notices'[n].status = notices[n].status,
         UNCHANGED <<N!mailVars, wishes>>
  PROVE  MailInv'
<1>1. UNCHANGED <<letters, cursor, acked, courier, skipped, wishes>>
  BY DEF N!mailVars
<1>2. MailType'
  BY <1>1 DEF MailInv, MailType
<1>3. \A n \in DOMAIN notices' : RowOK(notices[n])'
  BY DEF MailInv, RowOK
<1>4. N!Letter' = N!Letter /\ (courier.op # "read" => N!Channel' = N!Channel)
  BY <1>1 DEF N!Letter, N!Channel
<1>5. AtWork'
  BY <1>1, <1>4 DEF MailInv, AtWork, Delivering
<1>6. DecidedInv'
  <2>1. \A l, i : Decided(l, i) => Decided(l, i)'
    BY <1>1 DEF Decided
  <2> QED BY <1>1, <1>4, <2>1 DEF MailInv, DecidedInv
<1> QED BY <1>2, <1>3, <1>5, <1>6 DEF MailInv

(* What is read or cancelled keeps the rows truthful. *)
LEMMA InboxStep ==
  ASSUME MailOK, MailInv,
         \/ \E n \in DOMAIN notices : N!MarkRead(n)
         \/ N!MarkAllRead
         \/ \E p \in Payers : N!CancelReminders(p)
  PROVE  MailInv'
<1>0. notices \in Seq(Rows) /\ DOMAIN notices = 1..Len(notices) /\ Len(notices) \in Nat
  BY DEF MailInv, MailType
<1>1. \A n \in DOMAIN notices : notices[n] \in Rows
  BY <1>0
<1>2. ASSUME NEW seq, DOMAIN seq = DOMAIN notices,
             seq = [n \in DOMAIN notices |-> seq[n]], notices' = seq,
             UNCHANGED <<N!mailVars, wishes>>,
             \A n \in DOMAIN notices :
                \/ seq[n] = notices[n]
                \/ seq[n] = [notices[n] EXCEPT !.read = TRUE, !.status = "read"]
                \/ seq[n] = [notices[n] EXCEPT !.status = "cancelled"]
      PROVE  MailInv'
  <2>1. ASSUME NEW n \in DOMAIN notices
        PROVE  /\ seq[n] \in Rows
               /\ seq[n].letter = notices[n].letter /\ seq[n].channel = notices[n].channel
               /\ seq[n].tries = notices[n].tries /\ seq[n].copies = notices[n].copies
               /\ seq[n].unanswered = notices[n].unanswered
               /\ seq[n].status \in {"read", "cancelled"} \/ seq[n].status = notices[n].status
    <3>1. PICK r \in Rows : r = notices[n]
      BY <1>1
    <3>2. CASE seq[n] = r
      BY <3>1, <3>2
    <3>3. CASE seq[n] = [r EXCEPT !.read = TRUE, !.status = "read"]
      BY <3>1, <3>3 DEF Rows
    <3>4. CASE seq[n] = [r EXCEPT !.status = "cancelled"]
      BY <3>1, <3>4 DEF Rows
    <3> QED BY <1>2, <3>1, <3>2, <3>3, <3>4
  <2>2. seq \in [1..Len(notices) -> Rows]
    BY <1>0, <1>2, <2>1
  <2>3. seq \in Seq(Rows)
    BY <1>0, <2>2
  <2> QED BY <1>2, <2>1, <2>3, RestatusKeeps
<1>3. ASSUME NEW n \in DOMAIN notices, N!MarkRead(n) PROVE MailInv'
  <2>1. PICK seq : seq = [notices EXCEPT ![n].read = TRUE, ![n].status = "read"]
    OBVIOUS
  <2>2. notices' = seq /\ UNCHANGED <<N!mailVars, wishes>>
    BY <1>3, <2>1 DEF N!MarkRead
  <2>3. /\ DOMAIN seq = DOMAIN notices /\ seq = [m \in DOMAIN notices |-> seq[m]]
        /\ \A m \in DOMAIN notices :
              \/ seq[m] = notices[m]
              \/ seq[m] = [notices[m] EXCEPT !.read = TRUE, !.status = "read"]
    BY <1>0, <2>1
  <2> QED BY <1>2, <2>2, <2>3
<1>4. CASE N!MarkAllRead
  <2>1. PICK seq : seq = [n \in DOMAIN notices |->
                            IF notices[n].channel = "in_app" /\ ~notices[n].read
                            THEN [notices[n] EXCEPT !.read = TRUE, !.status = "read"] ELSE notices[n]]
    OBVIOUS
  <2>2. notices' = seq /\ UNCHANGED <<N!mailVars, wishes>>
    BY <1>4, <2>1 DEF N!MarkAllRead
  <2>3. /\ DOMAIN seq = DOMAIN notices /\ seq = [m \in DOMAIN notices |-> seq[m]]
        /\ \A m \in DOMAIN notices :
              \/ seq[m] = notices[m]
              \/ seq[m] = [notices[m] EXCEPT !.read = TRUE, !.status = "read"]
    BY <2>1
  <2> QED BY <1>2, <2>2, <2>3
<1>5. ASSUME NEW p \in Payers, N!CancelReminders(p) PROVE MailInv'
  <2>1. CASE ~payer[p].overdue
    <3>1. notices' = notices /\ UNCHANGED <<N!mailVars, wishes>>
      BY <1>5, <2>1 DEF N!CancelReminders
    <3> QED BY <1>0, <3>1, RestatusKeeps
  <2>2. CASE payer[p].overdue
    <3>1. PICK seq : seq = N!Cancelled(payer[p].bill)
      OBVIOUS
    <3>2. notices' = seq /\ UNCHANGED <<N!mailVars, wishes>>
      BY <1>5, <2>2, <3>1 DEF N!CancelReminders
    <3>3. /\ DOMAIN seq = DOMAIN notices /\ seq = [m \in DOMAIN notices |-> seq[m]]
          /\ \A m \in DOMAIN notices :
                \/ seq[m] = notices[m]
                \/ seq[m] = [notices[m] EXCEPT !.status = "cancelled"]
      BY <3>1 DEF N!Cancelled
    <3> QED BY <1>2, <3>2, <3>3
  <2> QED BY <2>1, <2>2
<1> QED BY <1>3, <1>4, <1>5

-----------------------------------------------------------------------------
(* A message put on the stream behind the others *)
LEMMA SendKeeps ==
  ASSUME MailOK, MailInv, NEW letter \in Letters, letters' = Append(letters, letter),
         UNCHANGED <<cursor, acked, courier, skipped, notices, wishes>>
  PROVE  MailInv'
<1>1. letters \in Seq(Letters) /\ Len(letters) \in Nat /\ DOMAIN letters = 1..Len(letters)
  BY DEF MailInv, MailType
<1>2. /\ letters' \in Seq(Letters) /\ Len(letters') = Len(letters) + 1 /\ DOMAIN letters' = 1..Len(letters) + 1
      /\ \A l \in 1..Len(letters) : letters'[l] = letters[l]
  BY <1>1
<1>3. MailType'
  <2>1. cursor' \in 0..Len(letters') /\ acked' \subseteq 1..Len(letters')
    BY <1>1, <1>2 DEF MailInv, MailType
  <2>2. \A i \in DOMAIN courier.batch : courier.batch[i] =< Len(letters')
    <3>1. \A i \in DOMAIN courier.batch : courier.batch[i] \in Nat /\ courier.batch[i] =< Len(letters)
      BY DEF MailInv, MailType
    <3> QED BY <1>1, <1>2, <3>1
  <2> QED BY <1>2, <2>1, <2>2 DEF MailInv, MailType
<1>4. courier.op # "read" => /\ N!Letter' = N!Letter /\ N!Letter \in 1..Len(letters)
                             /\ letters'[N!Letter] = letters[N!Letter] /\ N!Channel' = N!Channel
  BY <1>2, LetterFacts DEF N!Letter, N!Channel, MailInv
<1>5. AtWork'
  BY <1>4 DEF MailInv, AtWork, Delivering
<1>6. \A l \in 1..Len(letters) : \A i : Decided(l, i) => Decided(l, i)'
  BY <1>2 DEF Decided
<1>7. DecidedInv'
  <2>1. acked \subseteq 1..Len(letters)
    BY DEF MailInv, MailType
  <2>2. ASSUME NEW l \in acked, NEW i \in DOMAIN letters'[l].channels PROVE Decided(l, i)'
    <3>1. l \in 1..Len(letters) /\ letters'[l] = letters[l]
      BY <1>2, <2>1
    <3>2. Decided(l, i)
      BY <2>2, <3>1 DEF MailInv, DecidedInv
    <3> QED BY <1>6, <3>1, <3>2
  <2>3. ASSUME courier.op # "read", NEW i \in DOMAIN letters'[N!Letter].channels, i < courier.at
        PROVE  Decided(N!Letter, i)'
    <3>1. Decided(N!Letter, i)
      BY <1>4, <2>3 DEF MailInv, DecidedInv
    <3>2. PICK l \in 1..Len(letters) : l = N!Letter /\ N!Letter' = l
      BY <1>4, <2>3
    <3>3. Decided(l, i)'
      BY <1>6, <3>1, <3>2
    <3> QED BY <3>2, <3>3 DEF Decided
  <2> QED BY <1>4, <2>2, <2>3 DEF DecidedInv
<1> QED BY <1>3, <1>5, <1>7 DEF MailInv

(* A letter is put behind the others with channels it may use. *)
LEMMA SendStep ==
  ASSUME MailOK, MailInv, (\E event \in Emitted : N!Emit(event)) \/ (N!Remind /\ ticker.todo \subseteq Bills \X Offsets)
  PROVE  MailInv'
<1>1. ASSUME NEW event \in Emitted, N!Emit(event) PROVE MailInv'
  <2>1. PICK channels \in N!EffectiveChannels(event) : N!Send(event, "none", channels)
    BY <1>1 DEF N!Emit
  <2>2. event \in {"InvoicePaid", "InvoiceSent"}
    BY DEF MailOK, N!Configurable, N!Defaults
  <2>3. channels \in Seq(Channels)
    <3>1. N!Defaults[event] \in Seq(Channels)
      <4>1. <<"in_app", "email">> \in Seq(Channels) /\ <<"email">> \in Seq(Channels)
        BY DEF Channels
      <4>2. N!Defaults["InvoicePaid"] = <<"in_app", "email">> /\ N!Defaults["InvoiceSent"] = <<"email">>
        BY DEF N!Defaults
      <4> QED BY <2>2, <4>1, <4>2
    <3>2. event \in DOMAIN wishes => wishes[event] \in Seq(Channels)
      BY DEF MailInv, MailType
    <3> QED BY <2>1, <3>1, <3>2 DEF N!EffectiveChannels
  <2>4. PICK letter : letter = [event |-> event, about |-> "none", channels |-> channels]
    OBVIOUS
  <2>5. letter \in Letters
    BY <2>2, <2>3, <2>4 DEF Letters, Events
  <2>6. letters' = Append(letters, letter) /\ UNCHANGED <<cursor, acked, courier, skipped, notices, wishes>>
    BY <1>1, <2>1, <2>4 DEF N!Emit, N!Send
  <2> QED BY <2>5, <2>6, SendKeeps
<1>2. CASE N!Remind /\ ticker.todo \subseteq Bills \X Offsets
  <2>1. PICK t \in ticker.todo : N!Send("InvoiceReminder", t[1], RuleChannels)
    BY <1>2 DEF N!Remind
  <2>2. t[1] \in Bills
    BY <1>2, <2>1
  <2>3. PICK letter : letter = [event |-> "InvoiceReminder", about |-> t[1], channels |-> RuleChannels]
    OBVIOUS
  <2>4. letter \in Letters
    BY <2>2, <2>3 DEF Letters, Events, MailOK
  <2>5. letters' = Append(letters, letter) /\ UNCHANGED <<cursor, acked, courier, skipped, notices, wishes>>
    BY <1>2, <2>1, <2>3 DEF N!Remind, N!Send
  <2> QED BY <2>4, <2>5, SendKeeps
<1> QED BY <1>1, <1>2

(* The worker between rows: what is in hand has nothing to be true of yet. *)
LEMMA ReadStep == ASSUME MailOK, MailInv, N!ReadStream PROVE MailInv'
<1>1. PICK n : n = IF Len(letters) - cursor < BatchSize THEN Len(letters) - cursor ELSE BatchSize
  OBVIOUS
<1>2. /\ courier = N!Waiting /\ cursor < Len(letters) /\ cursor' = cursor + n
      /\ courier' = [N!Waiting EXCEPT !.batch = [i \in 1..n |-> cursor + i], !.op = "row"]
      /\ UNCHANGED <<letters, acked, skipped, notices, wishes>>
  BY <1>1 DEF N!ReadStream
<1>3. Len(letters) \in Nat /\ cursor \in Nat
  BY DEF MailInv, MailType
<1>4. n \in Nat \ {0} /\ cursor + n =< Len(letters)
  BY <1>1, <1>2, <1>3 DEF MailOK
<1>5. PICK batch : batch = [i \in 1..n |-> cursor + i]
  OBVIOUS
<1>6. batch \in Seq(Nat \ {0}) /\ batch # <<>> /\ DOMAIN batch = 1..n /\ \A i \in 1..n : batch[i] =< Len(letters)
  <2>1. batch \in [1..n -> Nat \ {0}]
    BY <1>3, <1>4, <1>5
  <2>2. batch \in Seq(Nat \ {0}) /\ Len(batch) = n
    BY <1>4, <2>1
  <2> QED BY <1>3, <1>4, <1>5, <2>2
<1>7. courier' = [batch |-> batch, at |-> 1, row |-> 0, tries |-> 0, op |-> "row"]
  BY <1>2, <1>5 DEF N!Waiting
<1>8. MailType'
  <2>1. courier' \in [batch : Seq(Nat \ {0}), at : Nat \ {0}, row : Nat, tries : Nat,
                     op : {"read", "row", "deliver", "sent", "failed"}]
    BY <1>6, <1>7
  <2>2. courier'.batch = batch /\ courier'.op = "row"
    BY <1>7
  <2>3. cursor' \in 0..Len(letters)
    BY <1>2, <1>3, <1>4
  <2> QED BY <1>2, <1>6, <2>1, <2>2, <2>3 DEF MailInv, MailType
<1>9. AtWork'
  BY <1>7 DEF AtWork
<1>10. DecidedInv'
  <2>1. \A l, i : Decided(l, i)' <=> Decided(l, i)
    BY <1>2 DEF Decided
  <2>2. \A i \in DOMAIN letters'[N!Letter'].channels : ~(i < 1)
    <3>1. letters'[N!Letter'].channels \in Seq(Channels)
      BY <1>7, <1>8, LetterPrime
    <3> QED BY <3>1
  <2>3. courier'.at = 1
    BY <1>7
  <2>4. \A l \in acked' : \A i \in DOMAIN letters'[l].channels : Decided(l, i)'
    BY <1>2, <2>1 DEF MailInv, DecidedInv
  <2>5. \A i \in DOMAIN letters'[N!Letter'].channels : i < courier'.at => Decided(N!Letter, i)'
    BY <2>2, <2>3
  <2> QED BY <2>4, <2>5 DEF DecidedInv
<1>11. \A m \in DOMAIN notices' : RowOK(notices[m])'
  BY <1>2 DEF MailInv, RowOK
<1> QED BY <1>8, <1>9, <1>10, <1>11 DEF MailInv

(* One pair done: the worker goes on to the next channel, all before decided. *)
LEMMA NextPair ==
  ASSUME MailOK, MailInv, courier.op # "read", NEW l, NEW at, l = N!Letter, at = courier.at,
         at \in DOMAIN letters[l].channels,
         courier'.batch = courier.batch, courier'.at = at + 1, UNCHANGED letters, acked' = acked,
         \A k, i : Decided(k, i) => Decided(k, i)', Decided(l, at)'
  PROVE  DecidedInv'
<1>1. N!Letter' = l /\ letters[l].channels \in Seq(Channels) /\ at \in Nat
  BY LetterFacts DEF N!Letter, MailInv, MailType
<1>2. DOMAIN letters[l].channels \subseteq Nat
  BY <1>1
<1>3. \A k \in acked' : \A i \in DOMAIN letters'[k].channels : Decided(k, i)'
  BY DEF MailInv, DecidedInv
<1>4. ASSUME NEW i \in DOMAIN letters[l].channels, i < at + 1 PROVE Decided(l, i)'
  <2>1. i \in Nat
    BY <1>1, <1>2
  <2>2. CASE i < at
    <3>1. Decided(l, i)
      BY <2>2 DEF MailInv, DecidedInv
    <3> QED BY <3>1
  <2>3. CASE i = at
    BY <2>3
  <2> QED BY <1>1, <1>4, <2>1, <2>2, <2>3
<1>5. ASSUME NEW i \in DOMAIN letters'[N!Letter'].channels, i < courier'.at
      PROVE  Decided(N!Letter, i)'
  <2>1. i \in DOMAIN letters[l].channels /\ i < at + 1
    BY <1>1, <1>5
  <2>2. Decided(l, i)'
    BY <1>4, <2>1
  <2> QED BY <1>1, <2>2 DEF Decided
<1> QED BY <1>3, <1>5 DEF DecidedInv

(* A fault that loses a pair leaves letters and rows as they were. *)
LEMMA SkipStep == ASSUME MailOK, MailInv, N!SkipPair PROVE MailInv'
<1>1. /\ courier.op = "row" /\ N!MorePairs /\ skipped' = skipped \cup {<<N!Letter, N!Channel>>}
      /\ courier' = [courier EXCEPT !.at = @ + 1]
      /\ UNCHANGED <<letters, cursor, acked, notices, wishes>>
  BY DEF N!SkipPair
<1>2. courier \in [batch : Seq(Nat \ {0}), at : Nat \ {0}, row : Nat, tries : Nat,
                  op : {"read", "row", "deliver", "sent", "failed"}]
  BY DEF MailInv, MailType
<1>3. /\ courier'.at = courier.at + 1 /\ courier'.op = "row" /\ courier'.batch = courier.batch
      /\ courier' \in [batch : Seq(Nat \ {0}), at : Nat \ {0}, row : Nat, tries : Nat,
                        op : {"read", "row", "deliver", "sent", "failed"}]
  BY <1>1, <1>2
<1>4. MailType'
  BY <1>1, <1>3 DEF MailInv, MailType
<1>5. AtWork'
  BY <1>3 DEF AtWork
<1>6. PICK l, at : l = N!Letter /\ at = courier.at
  OBVIOUS
<1>7. at \in DOMAIN letters[l].channels /\ N!Channel = letters[l].channels[at]
  BY <1>1, <1>2, <1>6, LetterFacts DEF N!MorePairs, MailInv, N!Channel
<1>8. /\ \A k, i : Decided(k, i) => Decided(k, i)'
      /\ Decided(l, at)'
  <2>1. Decided(l, at)'
    BY <1>1, <1>6, <1>7 DEF Decided
  <2>2. \A k, i : Decided(k, i) => Decided(k, i)'
    BY <1>1 DEF Decided
  <2> QED BY <2>1, <2>2
<1>9. DecidedInv'
  BY <1>1, <1>3, <1>6, <1>7, <1>8, NextPair
<1>10. \A m \in DOMAIN notices' : RowOK(notices[m])'
  BY <1>1 DEF MailInv, RowOK
<1> QED BY <1>4, <1>5, <1>9, <1>10 DEF MailInv

(* The row of a letter is written before it is delivered. *)
LEMMA InsertStep == ASSUME MailOK, MailInv, N!InsertRow PROVE MailInv'
<1>0. PICK at : at = courier.at
  OBVIOUS
<1>1. /\ courier.op = "row" /\ N!MorePairs
      /\ courier' = [courier EXCEPT !.op = "deliver", !.row = Len(notices) + 1, !.tries = 0]
      /\ UNCHANGED <<letters, cursor, acked, skipped, wishes>>
  BY DEF N!InsertRow
<1>2. courier \in [batch : Seq(Nat \ {0}), at : Nat \ {0}, row : Nat, tries : Nat,
                  op : {"read", "row", "deliver", "sent", "failed"}]
      /\ notices \in Seq(Rows) /\ Len(notices) \in Nat /\ DOMAIN notices = 1..Len(notices)
  BY DEF MailInv, MailType
<1>3. /\ N!Letter \in Nat /\ letters[N!Letter].channels \in Seq(Channels)
      /\ letters[N!Letter].event \in Events /\ letters[N!Letter].about \in Bills \cup {"none"}
  BY <1>1, LetterFacts DEF MailInv
<1>4. at \in DOMAIN letters[N!Letter].channels /\ letters[N!Letter].channels[at] \in Channels
  BY <1>0, <1>1, <1>2, <1>3 DEF N!MorePairs
<1>5. PICK row : row = [letter |-> N!Letter, event |-> N!StoredEvent[letters[N!Letter].event],
                        about |-> letters[N!Letter].about, channel |-> N!Channel, status |-> "queued",
                        read |-> FALSE, tries |-> 0, copies |-> 0, unanswered |-> 0]
  OBVIOUS
<1>6. N!StoredEvent[letters[N!Letter].event] \in {N!StoredEvent[e] : e \in Events}
  BY <1>3
<1>7. N!Channel \in Channels
  BY <1>0, <1>4 DEF N!Channel
<1>8. row \in Rows
  BY <1>3, <1>5, <1>6, <1>7 DEF Rows
<1>9. PICK n \in Nat : n = Len(notices) + 1
  BY <1>2
<1>10. /\ notices' = Append(notices, row) /\ notices' \in Seq(Rows) /\ DOMAIN notices' = 1..n
       /\ \A m \in DOMAIN notices : notices'[m] = notices[m]
       /\ notices'[n] = row /\ n \in DOMAIN notices' /\ DOMAIN notices' = DOMAIN notices \cup {n}
  <2>1. notices' = Append(notices, row)
    BY <1>5 DEF N!InsertRow
  <2> QED BY <1>2, <1>8, <1>9, <2>1
<1>11. /\ courier'.at = at /\ courier'.op = "deliver" /\ courier'.batch = courier.batch /\ courier'.row = n
       /\ courier'.tries = 0
       /\ courier' \in [batch : Seq(Nat \ {0}), at : Nat \ {0}, row : Nat, tries : Nat,
                         op : {"read", "row", "deliver", "sent", "failed"}]
  BY <1>0, <1>1, <1>2, <1>9
<1>12. MailType'
  BY <1>1, <1>10, <1>11 DEF MailInv, MailType
<1>13. N!Letter' = N!Letter /\ N!Channel' = N!Channel
  BY <1>0, <1>1, <1>11 DEF N!Letter, N!Channel
<1>14. RowOK(row) /\ (\A m \in DOMAIN notices' : RowOK(notices[m])')
  <2>1. RowOK(row)
    BY <1>5 DEF RowOK, MailOK
  <2>2. \A m \in DOMAIN notices' : notices'[m] = row \/ (m \in DOMAIN notices /\ notices'[m] = notices[m])
    BY <1>10
  <2> QED BY <2>1, <2>2 DEF MailInv, RowOK
<1>15. AtWork'
  <2> QED BY <1>1, <1>4, <1>10, <1>11, <1>13, <1>5 DEF AtWork, Delivering, MailOK
<1>16. \A l, i : Decided(l, i) => Decided(l, i)'
  BY <1>1, <1>10 DEF Decided
<1>17. DecidedInv'
  BY <1>0, <1>1, <1>11, <1>13, <1>16 DEF DecidedInv, MailInv
<1> QED BY <1>12, <1>14, <1>15, <1>17 DEF MailInv

(* The worker has a row in hand. *)
LEMMA RowInHand ==
  ASSUME MailInv, courier.op \in {"deliver", "sent", "failed"}
  PROVE  \E n \in DOMAIN notices, r \in Rows, l \in {N!Letter}, at \in {courier.at} :
            /\ n = courier.row /\ r = notices[n] /\ Delivering(r) /\ RowOK(r)
            /\ l = N!Letter /\ at = courier.at /\ at \in DOMAIN letters[l].channels
            /\ r.letter = l /\ r.channel = letters[l].channels[at]
<1>1. courier.row \in DOMAIN notices /\ Delivering(notices[courier.row])
      /\ courier.at \in DOMAIN letters[N!Letter].channels
  BY DEF MailInv, AtWork
<1>2. notices[courier.row] \in Rows /\ RowOK(notices[courier.row])
  BY <1>1 DEF MailInv, MailType
<1> QED BY <1>1, <1>2 DEF Delivering, N!Channel

(* Of the row in hand the numbers only grow, and not beyond the last attempt. *)
LEMMA AttemptKeeps ==
  ASSUME MailInv, NEW n \in DOMAIN notices, NEW r \in Rows, notices' = [notices EXCEPT ![n] = r],
         r.letter = notices[n].letter, r.channel = notices[n].channel,
         notices[n].tries = MAX_RETRIES => r.tries = MAX_RETRIES, r.copies >= notices[n].copies,
         UNCHANGED <<letters, skipped>>
  PROVE  /\ notices' \in Seq(Rows) /\ DOMAIN notices' = DOMAIN notices
         /\ \A m \in DOMAIN notices : notices'[m] = IF m = n THEN r ELSE notices[m]
         /\ \A k, i : Decided(k, i) => Decided(k, i)'
<1>1. notices \in Seq(Rows) /\ DOMAIN notices = 1..Len(notices) /\ Len(notices) \in Nat
  BY DEF MailInv, MailType
<1>2. /\ notices' \in Seq(Rows) /\ DOMAIN notices' = DOMAIN notices
      /\ \A m \in DOMAIN notices : notices'[m] = IF m = n THEN r ELSE notices[m]
  <2>1. notices' \in [1..Len(notices) -> Rows]
    BY <1>1
  <2> QED BY <1>1, <2>1
<1>3. notices[n].copies \in Nat /\ r.copies \in Nat
  <2>1. notices[n] \in Rows
    BY <1>1
  <2> QED BY <2>1 DEF Rows
<1>4. notices[n].copies > 0 => r.copies > 0
  BY <1>3
<1>5. ASSUME NEW k, NEW i, Decided(k, i) PROVE Decided(k, i)'
  BY <1>2, <1>4, <1>5 DEF Decided
<1> QED BY <1>2, <1>5

(* What one attempt to deliver does. *)
LEMMA DeliverFacts ==
  ASSUME MailOK, MailInv, N!Deliver
  PROVE  /\ courier.op = "deliver"
         /\ \E outcome \in {"ok", "refused", "lost"} :
               /\ notices' = N!Attempted(outcome)
               /\ courier' = [courier EXCEPT !.tries = courier.tries + 1,
                                            !.op = N!AfterAttempt(outcome = "ok", courier.tries + 1)]
         /\ UNCHANGED <<letters, cursor, acked, skipped, wishes>>
  BY DEF N!Deliver

(* An attempt counts itself and tells a delivery from a refusal. *)
LEMMA DeliverStep == ASSUME MailOK, MailInv, N!Deliver PROVE MailInv'
<1>1. PICK outcome \in {"ok", "refused", "lost"} :
         /\ notices' = N!Attempted(outcome)
         /\ courier' = [courier EXCEPT !.tries = courier.tries + 1,
                                      !.op = N!AfterAttempt(outcome = "ok", courier.tries + 1)]
  BY DeliverFacts
<1>2. courier.op = "deliver" /\ UNCHANGED <<letters, cursor, acked, skipped, wishes>>
  BY DeliverFacts
<1>3. PICK n \in DOMAIN notices, r \in Rows, l \in {N!Letter}, at \in {courier.at} :
         /\ n = courier.row /\ r = notices[n] /\ Delivering(r) /\ RowOK(r)
         /\ l = N!Letter /\ at = courier.at /\ at \in DOMAIN letters[l].channels
         /\ r.letter = l /\ r.channel = letters[l].channels[at]
  BY <1>2, RowInHand
<1>4. /\ r.tries = courier.tries /\ r.status \in {"queued", "read", "cancelled"}
      /\ r.tries < MAX_RETRIES /\ r.copies = r.unanswered
      /\ r.tries \in Nat /\ r.copies \in Nat /\ r.unanswered \in Nat
  BY <1>2, <1>3 DEF Delivering, Rows
<1>5. PICK s : s = [r EXCEPT !.tries = r.tries + 1,
                             !.copies = IF outcome = "refused" THEN r.copies ELSE r.copies + 1,
                             !.unanswered = IF outcome = "lost" THEN r.unanswered + 1 ELSE r.unanswered]
  OBVIOUS
<1>6. /\ s \in Rows /\ s.letter = r.letter /\ s.channel = r.channel /\ s.status = r.status
      /\ s.tries = r.tries + 1
      /\ s.copies = IF outcome = "refused" THEN r.copies ELSE r.copies + 1
      /\ s.unanswered = IF outcome = "lost" THEN r.unanswered + 1 ELSE r.unanswered
  <2>1. PICK t \in Nat, c \in Nat, u \in Nat :
           /\ t = r.tries + 1 /\ c = IF outcome = "refused" THEN r.copies ELSE r.copies + 1
           /\ u = IF outcome = "lost" THEN r.unanswered + 1 ELSE r.unanswered
    BY <1>4
  <2>2. s = [r EXCEPT !.tries = t, !.copies = c, !.unanswered = u]
    BY <1>5, <2>1
  <2>3. /\ s \in Rows /\ s.letter = r.letter /\ s.channel = r.channel /\ s.status = r.status
        /\ s.tries = t /\ s.copies = c /\ s.unanswered = u
    BY <2>2 DEF Rows
  <2> QED BY <2>1, <2>3
<1>7. notices' = [notices EXCEPT ![n] = s]
  BY <1>1, <1>3, <1>5, <1>6 DEF N!Attempted, MailInv, MailType, Rows
<1>8. /\ notices[n].tries = MAX_RETRIES => s.tries = MAX_RETRIES
      /\ s.copies >= notices[n].copies
  BY <1>3, <1>4, <1>6 DEF MailOK
<1>9. /\ notices' \in Seq(Rows) /\ DOMAIN notices' = DOMAIN notices
      /\ \A m \in DOMAIN notices : notices'[m] = IF m = n THEN s ELSE notices[m]
      /\ \A k, i : Decided(k, i) => Decided(k, i)'
  BY <1>2, <1>3, <1>6, <1>7, <1>8, AttemptKeeps
<1>10. courier \in [batch : Seq(Nat \ {0}), at : Nat \ {0}, row : Nat, tries : Nat,
                   op : {"read", "row", "deliver", "sent", "failed"}]
  BY DEF MailInv, MailType
<1>11. PICK op \in {"deliver", "sent", "failed"} : op = N!AfterAttempt(outcome = "ok", courier.tries + 1)
  BY DEF N!AfterAttempt
<1>12. /\ courier'.at = at /\ courier'.op = op /\ courier'.batch = courier.batch /\ courier'.row = n
       /\ courier'.tries = s.tries
       /\ courier' \in [batch : Seq(Nat \ {0}), at : Nat \ {0}, row : Nat, tries : Nat,
                         op : {"read", "row", "deliver", "sent", "failed"}]
  <2>1. PICK t \in Nat : t = courier.tries + 1
    BY <1>4
  <2>2. courier' = [courier EXCEPT !.tries = t, !.op = op]
    BY <1>1, <1>11, <2>1
  <2> QED BY <1>3, <1>4, <1>6, <1>10, <2>1, <2>2
<1>13. MailType'
  BY <1>2, <1>9, <1>12 DEF MailInv, MailType
<1>14. N!Letter' = l /\ N!Channel' = letters[l].channels[at]
  BY <1>2, <1>3, <1>12 DEF N!Letter, N!Channel
<1>15. /\ op = "deliver" => s.tries < MAX_RETRIES /\ s.copies = s.unanswered
       /\ op = "sent" => s.copies > 0
       /\ op = "failed" => s.tries = MAX_RETRIES /\ s.copies = s.unanswered
       /\ s.tries =< MAX_RETRIES /\ s.copies =< 1 + s.unanswered
  BY <1>4, <1>6, <1>11 DEF N!AfterAttempt, MailOK
<1>16. RowOK(s)
  BY <1>4, <1>6, <1>15 DEF RowOK
<1>17. \A m \in DOMAIN notices' : RowOK(notices[m])'
  BY <1>9, <1>16 DEF MailInv, RowOK
<1>18. AtWork'
  <2>1. courier'.row \in DOMAIN notices' /\ courier'.at \in DOMAIN letters'[N!Letter'].channels
    BY <1>2, <1>3, <1>9, <1>12, <1>14
  <2>2. notices'[courier'.row] = s
    BY <1>9, <1>12
  <2>3. Delivering(notices[courier.row])'
    BY <1>3, <1>4, <1>6, <1>12, <1>14, <1>15, <2>2 DEF Delivering
  <2> QED BY <2>1, <2>3 DEF AtWork
<1>19. DecidedInv'
  BY <1>2, <1>3, <1>9, <1>12, <1>14 DEF DecidedInv, MailInv
<1> QED BY <1>13, <1>17, <1>18, <1>19 DEF MailInv

(* The row is told how its delivery ended. *)
LEMMA UpdateStep == ASSUME MailOK, MailInv, N!UpdateRow PROVE MailInv'
<1>1. /\ courier.op \in {"sent", "failed"} /\ courier' = [courier EXCEPT !.op = "row", !.at = @ + 1]
      /\ UNCHANGED <<letters, cursor, acked, skipped, wishes>>
  BY DEF N!UpdateRow
<1>2. PICK n \in DOMAIN notices, r \in Rows, l \in {N!Letter}, at \in {courier.at} :
         /\ n = courier.row /\ r = notices[n] /\ Delivering(r) /\ RowOK(r)
         /\ l = N!Letter /\ at = courier.at /\ at \in DOMAIN letters[l].channels
         /\ r.letter = l /\ r.channel = letters[l].channels[at]
  BY <1>1, RowInHand
<1>3. PICK status : status = IF courier.op = "failed" THEN "failed"
                             ELSE IF N!Channel = "in_app" THEN "delivered" ELSE "sent"
  OBVIOUS
<1>4. PICK s : s \in {r, [r EXCEPT !.status = status]} /\ notices' = [notices EXCEPT ![n] = s]
  <2>1. CASE notices' = [notices EXCEPT ![n].status = status]
    BY <1>2, <2>1
  <2>2. CASE notices' = notices
    <3>1. notices = [notices EXCEPT ![n] = r]
      BY <1>2 DEF MailInv, MailType
    <3> QED BY <2>2, <3>1
  <2> QED BY <1>2, <1>3, <2>1, <2>2 DEF N!UpdateRow
<1>5. /\ courier.op = "sent" => r.copies > 0
      /\ courier.op = "failed" => r.tries = MAX_RETRIES /\ r.copies = r.unanswered
  BY <1>2 DEF Delivering
<1>6. /\ s \in Rows /\ s.letter = r.letter /\ s.channel = r.channel /\ s.tries = r.tries
      /\ s.copies = r.copies /\ s.unanswered = r.unanswered /\ s.status \in {r.status, status}
  BY <1>3, <1>4 DEF Rows
<1>7. RowOK(s)
  BY <1>1, <1>2, <1>3, <1>5, <1>6 DEF RowOK, Delivering
<1>8. /\ notices' \in Seq(Rows) /\ DOMAIN notices' = DOMAIN notices
      /\ \A m \in DOMAIN notices : notices'[m] = IF m = n THEN s ELSE notices[m]
      /\ \A k, i : Decided(k, i) => Decided(k, i)'
  <2>1. r.copies \in Nat
    BY DEF Rows
  <2>2. s.copies >= notices[n].copies /\ (notices[n].tries = MAX_RETRIES => s.tries = MAX_RETRIES)
    BY <1>2, <1>6, <2>1
  <2>3. s.letter = notices[n].letter /\ s.channel = notices[n].channel /\ s \in Rows
    BY <1>2, <1>6
  <2> QED BY <1>1, <1>4, <2>2, <2>3, AttemptKeeps
<1>9. courier \in [batch : Seq(Nat \ {0}), at : Nat \ {0}, row : Nat, tries : Nat,
                  op : {"read", "row", "deliver", "sent", "failed"}]
  BY DEF MailInv, MailType
<1>10. /\ courier'.at = at + 1 /\ courier'.op = "row" /\ courier'.batch = courier.batch
       /\ courier' \in [batch : Seq(Nat \ {0}), at : Nat \ {0}, row : Nat, tries : Nat,
                         op : {"read", "row", "deliver", "sent", "failed"}]
  <2>1. at = courier.at /\ courier.at \in Nat \ {0}
    BY <1>2, <1>9
  <2>2. PICK next \in Nat \ {0} : next = courier.at + 1
    BY <2>1
  <2>3. courier' = [courier EXCEPT !.op = "row", !.at = next]
    BY <1>1, <2>2
  <2>4. courier'.at = next /\ courier'.op = "row" /\ courier'.batch = courier.batch
    BY <1>9, <2>3
  <2>5. courier' \in [batch : Seq(Nat \ {0}), at : Nat \ {0}, row : Nat, tries : Nat,
                     op : {"read", "row", "deliver", "sent", "failed"}]
    BY <1>9, <2>3
  <2> QED BY <2>1, <2>2, <2>4, <2>5
<1>11. MailType'
  BY <1>1, <1>8, <1>10 DEF MailInv, MailType
<1>12. \A m \in DOMAIN notices' : RowOK(notices[m])'
  BY <1>7, <1>8 DEF MailInv, RowOK
<1>13. AtWork'
  BY <1>10 DEF AtWork
<1>14. Decided(l, at)'
  BY <1>1, <1>2, <1>5, <1>6, <1>8 DEF Decided
<1>15. DecidedInv'
  BY <1>1, <1>2, <1>8, <1>10, <1>14, NextPair
<1> QED BY <1>11, <1>12, <1>13, <1>15 DEF MailInv

(* A letter is acknowledged after the last of its pairs. *)
LEMMA AckStep == ASSUME MailOK, MailInv, N!Ack PROVE MailInv'
<1>1. /\ courier.op = "row" /\ ~N!MorePairs /\ acked' = acked \cup {N!Letter}
      /\ courier' = IF Len(courier.batch) = 1 THEN N!Waiting ELSE [courier EXCEPT !.batch = Tail(@), !.at = 1]
      /\ UNCHANGED <<letters, cursor, skipped, notices, wishes>>
  BY DEF N!Ack
<1>2. /\ N!Letter \in 1..Len(letters) /\ letters[N!Letter].channels \in Seq(Channels)
      /\ courier.at \in Nat /\ courier.batch \in Seq(Nat \ {0}) /\ courier.batch # <<>>
  BY <1>1, LetterFacts DEF MailInv, MailType
<1>3. \A i \in DOMAIN letters[N!Letter].channels : Decided(N!Letter, i)
  <2>1. \A i \in DOMAIN letters[N!Letter].channels : i \in Nat /\ i < courier.at
    BY <1>1, <1>2 DEF N!MorePairs
  <2> QED BY <1>1, <2>1 DEF MailInv, DecidedInv
<1>4. \A k, i : Decided(k, i) => Decided(k, i)'
  BY <1>1 DEF Decided
<1>5. \A k \in acked' : \A i \in DOMAIN letters'[k].channels : Decided(k, i)'
  <2>1. \A k \in acked' : \A i \in DOMAIN letters[k].channels : Decided(k, i)
    BY <1>1, <1>3 DEF MailInv, DecidedInv
  <2> QED BY <1>1, <1>4, <2>1
<1>6. \A m \in DOMAIN notices' : RowOK(notices[m])'
  BY <1>1 DEF MailInv, RowOK
<1>7. CASE Len(courier.batch) = 1
  <2>1. courier' = N!Waiting /\ N!Waiting.op = "read" /\ DOMAIN N!Waiting.batch = {}
    BY <1>1, <1>7 DEF N!Waiting
  <2>2. N!Waiting \in [batch : Seq(Nat \ {0}), at : Nat \ {0}, row : Nat, tries : Nat,
                    op : {"read", "row", "deliver", "sent", "failed"}]
    BY DEF N!Waiting
  <2>3. MailType'
    BY <1>1, <1>2, <2>1, <2>2 DEF MailInv, MailType, N!Waiting
  <2> QED BY <1>5, <1>6, <2>1, <2>3 DEF MailInv, AtWork, DecidedInv
<1>8. CASE Len(courier.batch) # 1
  <2>1. PICK tail : tail = Tail(courier.batch)
    OBVIOUS
  <2>2. /\ tail \in Seq(Nat \ {0}) /\ tail # <<>> /\ Len(tail) = Len(courier.batch) - 1
        /\ \A i \in DOMAIN tail : tail[i] = courier.batch[i + 1] /\ i + 1 \in DOMAIN courier.batch
    <3>1. PICK b \in Seq(Nat \ {0}) : b = courier.batch
      BY <1>2
    <3>2. Len(b) \in Nat /\ Len(b) > 1 /\ DOMAIN b = 1..Len(b)
      <4>1. b # <<>> /\ Len(b) # 1
        BY <1>2, <1>8, <3>1
      <4>2. Len(b) # 0
        BY <3>1, <4>1
      <4>3. Len(b) \in Nat /\ DOMAIN b = 1..Len(b)
        BY <3>1
      <4> QED BY <4>1, <4>2, <4>3
    <3>3. tail \in Seq(Nat \ {0}) /\ Len(tail) = Len(b) - 1
      BY <2>1, <3>1, <3>2
    <3>4. \A i \in 1..Len(tail) : tail[i] = b[i + 1]
      BY <2>1, <3>1, <3>2, <3>3
    <3>5. DOMAIN tail = 1..Len(tail) /\ tail # <<>>
      BY <3>2, <3>3
    <3>6. \A i \in 1..Len(tail) : i + 1 \in 1..Len(b)
      BY <3>2, <3>3
    <3> QED BY <3>1, <3>2, <3>3, <3>4, <3>5, <3>6
  <2>3. courier \in [batch : Seq(Nat \ {0}), at : Nat \ {0}, row : Nat, tries : Nat,
                    op : {"read", "row", "deliver", "sent", "failed"}]
    BY DEF MailInv, MailType
  <2>4. courier' = [courier EXCEPT !.batch = tail, !.at = 1]
    BY <1>1, <1>8, <2>1
  <2>5. /\ courier'.batch = tail /\ courier'.at = 1 /\ courier'.op = "row"
        /\ courier' \in [batch : Seq(Nat \ {0}), at : Nat \ {0}, row : Nat, tries : Nat,
                         op : {"read", "row", "deliver", "sent", "failed"}]
    <3>1. courier'.batch = tail /\ courier'.at = 1 /\ courier'.op = courier.op
      BY <2>3, <2>4
    <3>2. PICK b \in Seq(Nat \ {0}) : b = tail
      BY <2>2
    <3>3. PICK one \in Nat \ {0} : one = 1
      OBVIOUS
    <3>4. courier' = [courier EXCEPT !.batch = b, !.at = one]
      BY <2>4, <3>2, <3>3
    <3>5. courier' \in [batch : Seq(Nat \ {0}), at : Nat \ {0}, row : Nat, tries : Nat,
                       op : {"read", "row", "deliver", "sent", "failed"}]
      BY <2>3, <3>4
    <3> QED BY <1>1, <3>1, <3>5
  <2>6. \A i \in DOMAIN tail : tail[i] =< Len(letters)
    BY <2>2 DEF MailInv, MailType
  <2>7. MailType'
    BY <1>1, <1>2, <2>2, <2>5, <2>6 DEF MailInv, MailType
  <2>8. letters'[N!Letter'].channels \in Seq(Channels)
    BY <2>5, <2>7, LetterPrime
  <2>9. \A i \in DOMAIN letters'[N!Letter'].channels : i < courier'.at => Decided(N!Letter, i)'
    BY <2>5, <2>8
  <2> QED BY <1>5, <1>6, <2>5, <2>7, <2>9 DEF MailInv, AtWork, DecidedInv
<1> QED BY <1>7, <1>8

(* A stop loses the work in hand and nothing that was written. *)
LEMMA HaltStep == ASSUME MailOK, MailInv, N!Halt PROVE MailInv'
<1>1. courier' = N!Waiting /\ UNCHANGED <<letters, cursor, acked, skipped, notices, wishes>>
  BY DEF N!Halt
<1>2. N!Waiting.op = "read" /\ DOMAIN N!Waiting.batch = {}
      /\ N!Waiting \in [batch : Seq(Nat \ {0}), at : Nat \ {0}, row : Nat, tries : Nat,
                      op : {"read", "row", "deliver", "sent", "failed"}]
  BY DEF N!Waiting
<1>3. MailType'
  BY <1>1, <1>2 DEF MailInv, MailType, N!Waiting
<1>4. \A m \in DOMAIN notices' : RowOK(notices[m])'
  BY <1>1 DEF MailInv, RowOK
<1>5. \A k, i : Decided(k, i) => Decided(k, i)'
  BY <1>1 DEF Decided
<1> QED BY <1>1, <1>2, <1>3, <1>4, <1>5 DEF MailInv, AtWork, DecidedInv

-----------------------------------------------------------------------------
(* A reminder is about a bill. *)
TodoInv == ticker.todo \subseteq Bills \X Offsets

(* What the ticker has to do is about bills and their offsets. *)
LEMMA TodoStep == ASSUME TodoInv, [N!Next]_N!vars PROVE TodoInv'
<1>1. CASE N!StartTick
  <2>1. ticker'.todo = {r \in N!Unpaid \X Offsets : DueDay + r[2] = calendar}
    BY <1>1 DEF N!StartTick
  <2> QED BY <2>1 DEF TodoInv, N!Unpaid
<1>2. CASE N!Remind
  BY <1>2 DEF N!Remind, TodoInv
<1>3. CASE N!MarkOverdue
  BY <1>3 DEF N!MarkOverdue, TodoInv
<1>4. CASE \/ \E event \in Emitted : N!Emit(event) \/ N!UpsertPreference(event, <<"sms">>)
           \/ N!ReadStream \/ N!InsertRow \/ N!SkipPair \/ N!Deliver \/ N!UpdateRow \/ N!Ack \/ N!Halt
           \/ \E n \in DOMAIN notices : N!MarkRead(n)
           \/ N!MarkAllRead \/ N!NextDay
           \/ \E p \in Payers : \/ N!Pay(p) \/ N!FetchBalance(p) \/ N!CancelReminders(p)
                               \/ \E b \in Bills : N!ReadBalance(p, b)
           \/ UNCHANGED N!vars
  <2>1. UNCHANGED ticker
    BY <1>4 DEF N!Emit, N!UpsertPreference, N!ReadStream, N!InsertRow,
       N!SkipPair, N!Deliver, N!UpdateRow, N!Ack, N!Halt,
                N!MarkRead, N!MarkAllRead, N!NextDay, N!FetchBalance, N!CancelReminders, N!Pay, N!ReadBalance,
                N!vars, N!billVars
  <2> QED BY <2>1 DEF TodoInv
<1>5. CASE Configures
  BY <1>5, ConfiguresOnly DEF TodoInv
<1> QED BY <1>1, <1>2, <1>3, <1>4, <1>5 DEF N!Next, Configures

(* Every step keeps the invariant of letters and rows. *)
LEMMA MailStep == ASSUME MailOK, MailInv, TodoInv, [N!Next]_N!vars PROVE MailInv'
<1>0. notices \in Seq(Rows)
  BY DEF MailInv, MailType
<1>1. CASE \/ N!StartTick \/ N!MarkOverdue \/ N!NextDay \/ UNCHANGED N!vars
           \/ \E p \in Payers : N!Pay(p) \/ N!FetchBalance(p) \/ \E b \in Bills : N!ReadBalance(p, b)
  <2>1. UNCHANGED <<N!mailVars, notices, wishes>>
    BY <1>1 DEF N!StartTick, N!MarkOverdue, N!NextDay, N!vars, N!FetchBalance, N!Pay,
       N!ReadBalance, N!mailVars
  <2> QED BY <1>0, <2>1, RestatusKeeps
<1>2. ASSUME NEW event \in Emitted, N!UpsertPreference(event, <<"sms">>) PROVE MailInv'
  <2>1. /\ wishes' = [e \in DOMAIN wishes \cup {event} |-> IF e = event THEN <<"sms">> ELSE wishes[e]]
        /\ UNCHANGED <<letters, cursor, acked, courier, skipped, notices>>
    BY <1>2 DEF N!UpsertPreference, N!mailVars
  <2>2. <<"sms">> \in Seq(Channels)
    BY DEF Channels
  <2>3. MailType'
    BY <2>1, <2>2 DEF MailInv, MailType
  <2>4. \A m \in DOMAIN notices' : RowOK(notices[m])'
    BY <2>1 DEF MailInv, RowOK
  <2>5. AtWork'
    BY <2>1 DEF MailInv, AtWork, Delivering, N!Letter, N!Channel
  <2>6. DecidedInv'
    BY <2>1 DEF MailInv, DecidedInv, Decided, N!Letter
  <2> QED BY <2>3, <2>4, <2>5, <2>6 DEF MailInv
<1>3. CASE (\E event \in Emitted : N!Emit(event)) \/ N!Remind
  BY <1>3, SendStep DEF TodoInv
<1>4. CASE \/ \E n \in DOMAIN notices : N!MarkRead(n)
           \/ N!MarkAllRead
           \/ \E p \in Payers : N!CancelReminders(p)
  BY <1>4, InboxStep
<1>5. CASE N!ReadStream \/ N!InsertRow \/ N!SkipPair \/ N!Deliver \/ N!UpdateRow \/ N!Ack \/ N!Halt
  BY <1>5, ReadStep, InsertStep, SkipStep, DeliverStep, UpdateStep, AckStep, HaltStep
<1>6. CASE Configures
  <2>1. UNCHANGED <<N!mailVars, notices, wishes>>
    BY <1>6, ConfiguresOnly DEF N!mailVars
  <2> QED BY <1>0, <2>1, RestatusKeeps
<1> QED BY <1>1, <1>2, <1>3, <1>4, <1>5, <1>6 DEF N!Next, Configures

-----------------------------------------------------------------------------
NotifyInv == MailInv /\ TodoInv /\ DuesInv

(* The parts of the invariant hold at first, *)
LEMMA NotifyStart == ASSUME MailOK, N!Init PROVE NotifyInv
<1>1. TodoInv
  BY DEF N!Init, TodoInv
<1> QED BY <1>1, MailStart, DuesStart DEF NotifyInv

(* every step keeps them, *)
LEMMA NotifyStep == ASSUME MailOK, NotifyInv, [N!Next]_N!vars PROVE NotifyInv'
  BY MailStep, TodoStep, DuesStep DEF NotifyInv

(* and what notifications promise follows from them. *)
LEMMA NotifyHolds ==
  ASSUME NotifyInv
  PROVE  N!RowsTruthful /\ N!AckedDecided /\ N!StatusMatchesBalance
<1>1. N!RowsTruthful
  BY DEF NotifyInv, MailInv, RowOK, N!RowsTruthful
<1>2. N!AckedDecided
  BY DEF NotifyInv, MailInv, DecidedInv, Decided, N!AckedDecided
<1> QED BY <1>1, <1>2 DEF NotifyInv, DuesInv

(* Whatever fails, stops or is read meanwhile, a row says what became of   *)
(* its message, an acknowledged message was delivered or given up over     *)
(* each of its channels, and however payments overlap an invoice is paid   *)
(* exactly when nothing is owed on it or it is overpaid.                   *)
THEOREM MessagesHold == MailOK => (N!Spec => [](N!RowsTruthful /\ N!AckedDecided /\ N!StatusMatchesBalance))
<1> SUFFICES ASSUME MailOK PROVE N!Spec => [](N!RowsTruthful /\ N!AckedDecided /\ N!StatusMatchesBalance)
  OBVIOUS
<1>1. N!Init => NotifyInv
  BY NotifyStart
<1>2. NotifyInv /\ [N!Next]_N!vars => NotifyInv'
  BY NotifyStep
<1>3. NotifyInv => N!RowsTruthful /\ N!AckedDecided /\ N!StatusMatchesBalance
  BY NotifyHolds
<1> QED BY <1>1, <1>2, <1>3, PTL DEF N!Spec

(* An edit of a provider takes its stored secret away only if another save *)
(* of the channel came between its read and its write.                     *)
THEOREM SecretsKept == MailOK => (N!Spec => N!SecretKept)
<1> SUFFICES ASSUME MailOK PROVE N!Spec => N!SecretKept
  OBVIOUS
<1>1. N!Init => EditInv
  BY EditStart
<1>2. EditInv /\ [N!Next]_N!vars => EditInv'
  BY SecretStep
<1>3. EditInv /\ [N!Next]_N!vars =>
        [\A c \in DOMAIN carriers :
            carriers[c].secret # "" /\ carriers'[c].secret = "" =>
                \E k \in Editors : /\ editing[k].channel = c /\ editing[k].stale
                                   /\ editing'[k] # editing[k]]_N!vars
  BY SecretStep
<1> QED BY <1>1, <1>2, <1>3, PTL DEF N!Spec, N!SecretKept

=============================================================================
