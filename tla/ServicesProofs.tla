-------------------------- MODULE ServicesProofs ---------------------------
(***************************************************************************)
(* What the proofs about the services of the platform give for the         *)
(* composition that the operations run checks: a component in focus takes  *)
(* its own steps only, one that is not rests in its initial state.  Each   *)
(* has several instances there, so the proofs are taken for four settings  *)
(* of their parameters.                                                    *)
(***************************************************************************)
EXTENDS MCOperations, Sequences, TLAPS, FiniteSetTheorems

PlatformA == INSTANCE PlatformProofs
    WITH Prices <- [free |-> 0, starter |-> 25], PeriodDays <- 1, Reusable <- TRUE,
         LastBilled <- 3, MaxClaims <- 1, MaxFaults <- 1, Persons <- {"p", "q"},
         Tenants <- {"t", "u"}, Operators <- {}, Visits <- {"v"}, SignupRateMax <- 2,
         Mishaps <- FALSE, MaxWindows <- 1, People <- {"o", "a"}, Custom <- {}, Grants <- {},
         Assigned <- {"Owner", "Viewer"}, Requests <- {"q"}, Scope <- {"links"},
         AccessTtl <- 1, RefreshTtl <- 2, InviteTtl <- 2, ResetTtl <- 1, LastHour <- 2,
         MaxTokens <- 2, Emitted <- {"InvoicePaid"}, External <- {"email"}, Edits <- {}, Editors <- {},
         Deployed <- {"email"}, BatchSize <- 10, MAX_RETRIES <- 3, Bills <- {},
         InvoiceTotal <- 0, DueDay <- 1, Offsets <- {}, RuleChannels <- <<"email">>,
         Payers <- {}, LastDay <- 1, MaxLetters <- 2, MaxOutages <- 1

(* Sets of at most three elements are finite. *)
LEMMA Few == \A a, b, c : /\ IsFiniteSet({}) /\ IsFiniteSet({a})
                         /\ IsFiniteSet({a, b}) /\ IsFiniteSet({a, b, c})
<1> TAKE a, b, c
<1>1. IsFiniteSet({} \cup {a})
  BY FS_EmptySet, FS_AddElement
<1>2. IsFiniteSet(({} \cup {a}) \cup {b})
  BY <1>1, FS_AddElement
<1>3. IsFiniteSet((({} \cup {a}) \cup {b}) \cup {c})
  BY <1>2, FS_AddElement
<1>4. /\ {} \cup {a} = {a} /\ ({} \cup {a}) \cup {b} = {a, b}
      /\ (({} \cup {a}) \cup {b}) \cup {c} = {a, b, c}
  OBVIOUS
<1> QED BY <1>1, <1>2, <1>3, <1>4, FS_EmptySet

-----------------------------------------------------------------------------
(* Subscriptions. *)
(* The instance of the component is the one its proofs are about. *)
LEMMA BilledInit == Billed!Init <=> PlatformA!B!Init
  BY DEF Billed!Init, Billed!None, Billed!Resting, PlatformA!B!Init, PlatformA!B!None,
         PlatformA!B!Resting

(* The subscription of the composition takes the steps of the proofs. *)
LEMMA BilledNext == Billed!Next <=> PlatformA!B!Next
  BY DEF Billed!Next, Billed!Mirror, Billed!Cancel, Billed!DayPasses, Billed!StartCheckout,
         Billed!ActivateFromCharge, Billed!StartRenewal, Billed!Renew, Billed!RecordFailure,
         Billed!MirrorFailure, Billed!Stop, Billed!ChargeAuthorization, Billed!Suspend,
         Billed!Unsuspend, Billed!Backfill, Billed!UpdateTenantPlan, Billed!ListTenants,
         Billed!Mirrored, Billed!Resting, Billed!Request, Billed!None, Billed!MonthlyPrice,
         Billed!Faults, Billed!Activation, Billed!Due, Billed!Merged, Billed!NextStatus,
         Billed!Busy, Billed!Ensured, Billed!MapSubscriptionStatus, PlatformA!B!Next,
         PlatformA!B!Mirror, PlatformA!B!Cancel, PlatformA!B!DayPasses,
         PlatformA!B!StartCheckout, PlatformA!B!ActivateFromCharge,
         PlatformA!B!StartRenewal, PlatformA!B!Renew, PlatformA!B!RecordFailure,
         PlatformA!B!MirrorFailure, PlatformA!B!Stop, PlatformA!B!ChargeAuthorization,
         PlatformA!B!Suspend, PlatformA!B!Unsuspend, PlatformA!B!Backfill,
         PlatformA!B!UpdateTenantPlan, PlatformA!B!ListTenants, PlatformA!B!Mirrored,
         PlatformA!B!Resting, PlatformA!B!Request, PlatformA!B!None,
         PlatformA!B!MonthlyPrice, PlatformA!B!Faults, PlatformA!B!Activation,
         PlatformA!B!Due, PlatformA!B!Merged, PlatformA!B!NextStatus, PlatformA!B!Busy,
         PlatformA!B!Ensured, PlatformA!B!MapSubscriptionStatus

(* A subscription stays sound in the composition.  It is PlatformProofs'   *)
(* invariant that is inductive.                                            *)
THEOREM SubscriptionsSound == Spec => []SubscriptionSound
<1> DEFINE Inv == focus = "billing" => PlatformA!BillingInv
<1>1. Init => Inv
  <2>1. Init /\ focus = "billing" => Billed!Init
    BY DEF Init
  <2> QED BY <2>1, BilledInit, PlatformA!BillingStart
<1>2. Inv /\ [Next]_vars => Inv'
  <2>1. ASSUME focus' = "billing", [Next]_vars
        PROVE  focus = "billing" /\ (Billed!Next \/ UNCHANGED billing)
    BY <2>1 DEF Next, OthersStay, vars
  <2>2. UNCHANGED billing => UNCHANGED PlatformA!B!vars
    BY DEF billing, PlatformA!B!vars
  <2> QED BY <2>1, <2>2, BilledNext, PlatformA!BillingStep
<1>3. Inv => SubscriptionSound
  <2>1. PlatformA!BillingInv =>
          /\ PlatformA!B!CancelSticks /\ PlatformA!B!ChargedOncePerPeriod
          /\ PlatformA!B!AttemptsLeft /\ PlatformA!B!SuspensionConsistent
          /\ PlatformA!B!DirectoryFollows
    BY PlatformA!BillingImplies
  <2> QED BY <2>1 DEF SubscriptionSound, Billed!CancelSticks, Billed!ChargedOncePerPeriod,
         Billed!AttemptsLeft, Billed!SuspensionConsistent, Billed!DirectoryFollows, Billed!Quiet,
         Billed!Resting, Billed!MapSubscriptionStatus,
         PlatformA!B!CancelSticks, PlatformA!B!ChargedOncePerPeriod,
         PlatformA!B!AttemptsLeft, PlatformA!B!SuspensionConsistent,
         PlatformA!B!DirectoryFollows, PlatformA!B!Quiet,
         PlatformA!B!Resting, PlatformA!B!MapSubscriptionStatus
<1> QED BY <1>1, <1>2, <1>3, PTL DEF Spec

-----------------------------------------------------------------------------
(* Tenants: sign-up and members, the settling of workspaces, operators. *)
LEMMA SettlingSame ==
  /\ Settling!Init <=> PlatformA!T!Init
  /\ Settling!Next <=> PlatformA!T!Next
<1>1. Settling!Init <=> PlatformA!T!Init
  BY DEF Settling!Init, Settling!NoSeat, Settling!Away, PlatformA!T!Init,
         PlatformA!T!NoSeat, PlatformA!T!Away
<1>2. Settling!Next <=> PlatformA!T!Next
  BY DEF Settling!Next, Settling!NextWindow, Settling!StartSignup, Settling!FinishSignup,
         Settling!RecordSignup, Settling!StartArchive, Settling!StartLeave,
         Settling!FinishArchive, Settling!FinishLeave, Settling!FinishDeactivate,
         Settling!StartDeactivate, Settling!CreateTenant, Settling!Switch,
         Settling!Unarchive, Settling!Join, Settling!Bootstrap, Settling!Reactivate,
         Settling!CreateOperator, Settling!PlatformArchive, Settling!PlatformUnarchive,
         Settling!Away, Settling!WithinLimit, Settling!Provision, Settling!Memberships,
         Settling!OtherWorkspace, Settling!MayLeave, Settling!MayDeactivate,
         Settling!NoSeat, Settling!Admins, Settling!Cardinality, Settling!ActiveOwners,
         Settling!IsFiniteSet, PlatformA!T!Next, PlatformA!T!NextWindow,
         PlatformA!T!StartSignup, PlatformA!T!FinishSignup, PlatformA!T!RecordSignup,
         PlatformA!T!StartArchive, PlatformA!T!StartLeave, PlatformA!T!FinishArchive,
         PlatformA!T!FinishLeave, PlatformA!T!FinishDeactivate, PlatformA!T!StartDeactivate,
         PlatformA!T!CreateTenant, PlatformA!T!Switch, PlatformA!T!Unarchive,
         PlatformA!T!Join, PlatformA!T!Bootstrap, PlatformA!T!Reactivate,
         PlatformA!T!CreateOperator, PlatformA!T!PlatformArchive,
         PlatformA!T!PlatformUnarchive, PlatformA!T!Away, PlatformA!T!WithinLimit,
         PlatformA!T!Provision, PlatformA!T!Memberships, PlatformA!T!OtherWorkspace,
         PlatformA!T!MayLeave, PlatformA!T!MayDeactivate, PlatformA!T!NoSeat,
         PlatformA!T!Admins, PlatformA!T!Cardinality, PlatformA!T!ActiveOwners,
         PlatformA!T!IsFiniteSet
<1> QED BY <1>1, <1>2

PlatformB == INSTANCE PlatformProofs
    WITH Prices <- [free |-> 0, starter |-> 25], PeriodDays <- 1, Reusable <- TRUE,
         LastBilled <- 3, MaxClaims <- 1, MaxFaults <- 1, Persons <- {"p"},
         Tenants <- {"t", "u", "w"}, Operators <- {}, Visits <- {"v"}, SignupRateMax <- 2,
         Mishaps <- TRUE, MaxWindows <- 2, People <- {"o", "a"}, Custom <- {}, Grants <- {},
         Assigned <- {"Viewer", "Editor"}, Requests <- {"q"}, Scope <- {}, AccessTtl <- 1,
         RefreshTtl <- 2, InviteTtl <- 2, ResetTtl <- 1, LastHour <- 2, MaxTokens <- 3,
         Emitted <- {"InvoicePaid"}, External <- {"email"}, Editors <- {"e1"},
         Edits <- {[enabled |-> TRUE, settings |-> TRUE, secret |-> "s"],
                   [enabled |-> FALSE, settings |-> TRUE, secret |-> ""]},
         Deployed <- {"email"}, BatchSize <- 10, MAX_RETRIES <- 3, Bills <- {},
         InvoiceTotal <- 0, DueDay <- 1, Offsets <- {}, RuleChannels <- <<"email">>,
         Payers <- {}, LastDay <- 1, MaxLetters <- 1, MaxOutages <- 1

(* Sign-up in the composition is that of the proofs, *)
LEMMA EnrollingSame ==
  /\ Enrolling!Init <=> PlatformB!T!Init
  /\ Enrolling!Next <=> PlatformB!T!Next
<1>1. Enrolling!Init <=> PlatformB!T!Init
  BY DEF Enrolling!Init, Enrolling!NoSeat, Enrolling!Away, PlatformB!T!Init,
         PlatformB!T!NoSeat, PlatformB!T!Away
<1>2. Enrolling!Next <=> PlatformB!T!Next
  BY DEF Enrolling!Next, Enrolling!NextWindow, Enrolling!StartSignup,
         Enrolling!FinishSignup, Enrolling!RecordSignup, Enrolling!StartArchive,
         Enrolling!StartLeave, Enrolling!FinishArchive, Enrolling!FinishLeave,
         Enrolling!FinishDeactivate, Enrolling!StartDeactivate, Enrolling!CreateTenant,
         Enrolling!Switch, Enrolling!Unarchive, Enrolling!Join, Enrolling!Bootstrap,
         Enrolling!Reactivate, Enrolling!CreateOperator, Enrolling!PlatformArchive,
         Enrolling!PlatformUnarchive, Enrolling!Away, Enrolling!WithinLimit,
         Enrolling!Provision, Enrolling!Memberships, Enrolling!OtherWorkspace,
         Enrolling!MayLeave, Enrolling!MayDeactivate, Enrolling!NoSeat, Enrolling!Admins,
         Enrolling!Cardinality, Enrolling!ActiveOwners, Enrolling!IsFiniteSet,
         PlatformB!T!Next, PlatformB!T!NextWindow, PlatformB!T!StartSignup,
         PlatformB!T!FinishSignup, PlatformB!T!RecordSignup, PlatformB!T!StartArchive,
         PlatformB!T!StartLeave, PlatformB!T!FinishArchive, PlatformB!T!FinishLeave,
         PlatformB!T!FinishDeactivate, PlatformB!T!StartDeactivate,
         PlatformB!T!CreateTenant, PlatformB!T!Switch, PlatformB!T!Unarchive,
         PlatformB!T!Join, PlatformB!T!Bootstrap, PlatformB!T!Reactivate,
         PlatformB!T!CreateOperator, PlatformB!T!PlatformArchive,
         PlatformB!T!PlatformUnarchive, PlatformB!T!Away, PlatformB!T!WithinLimit,
         PlatformB!T!Provision, PlatformB!T!Memberships, PlatformB!T!OtherWorkspace,
         PlatformB!T!MayLeave, PlatformB!T!MayDeactivate, PlatformB!T!NoSeat,
         PlatformB!T!Admins, PlatformB!T!Cardinality, PlatformB!T!ActiveOwners,
         PlatformB!T!IsFiniteSet
<1> QED BY <1>1, <1>2

PlatformC == INSTANCE PlatformProofs
    WITH Prices <- [free |-> 0, starter |-> 25], PeriodDays <- 1, Reusable <- TRUE,
         LastBilled <- 3, MaxClaims <- 1, MaxFaults <- 1, Persons <- {"p"}, Tenants <- {"t"},
         Operators <- {"o1", "o2", "o3"}, Visits <- {"v"}, SignupRateMax <- 1,
         Mishaps <- FALSE, MaxWindows <- 1, People <- {"o"}, Custom <- {}, Grants <- {},
         Assigned <- {}, Requests <- {"q"}, Scope <- {"platform", "logout"}, AccessTtl <- 1,
         RefreshTtl <- 2, InviteTtl <- 2, ResetTtl <- 1, LastHour <- 2, MaxTokens <- 3,
         Emitted <- {}, External <- {}, Edits <- {}, Editors <- {}, Deployed <- {}, BatchSize <- 10,
         MAX_RETRIES <- 3, Bills <- {"b"}, InvoiceTotal <- 2, DueDay <- 1, Offsets <- {1},
         RuleChannels <- <<"email">>, Payers <- {"p1", "p2"}, LastDay <- 2, MaxLetters <- 1,
         MaxOutages <- 0

(* and so is the platform's administration. *)
LEMMA OperatingSame ==
  /\ Operating!Init <=> PlatformC!T!Init
  /\ Operating!Next <=> PlatformC!T!Next
<1>1. Operating!Init <=> PlatformC!T!Init
  BY DEF Operating!Init, Operating!NoSeat, Operating!Away, PlatformC!T!Init,
         PlatformC!T!NoSeat, PlatformC!T!Away
<1>2. Operating!Next <=> PlatformC!T!Next
  BY DEF Operating!Next, Operating!NextWindow, Operating!StartSignup,
         Operating!FinishSignup, Operating!RecordSignup, Operating!StartArchive,
         Operating!StartLeave, Operating!FinishArchive, Operating!FinishLeave,
         Operating!FinishDeactivate, Operating!StartDeactivate, Operating!CreateTenant,
         Operating!Switch, Operating!Unarchive, Operating!Join, Operating!Bootstrap,
         Operating!Reactivate, Operating!CreateOperator, Operating!PlatformArchive,
         Operating!PlatformUnarchive, Operating!Away, Operating!WithinLimit,
         Operating!Provision, Operating!Memberships, Operating!OtherWorkspace,
         Operating!MayLeave, Operating!MayDeactivate, Operating!NoSeat, Operating!Admins,
         Operating!Cardinality, Operating!ActiveOwners, Operating!IsFiniteSet,
         PlatformC!T!Next, PlatformC!T!NextWindow, PlatformC!T!StartSignup,
         PlatformC!T!FinishSignup, PlatformC!T!RecordSignup, PlatformC!T!StartArchive,
         PlatformC!T!StartLeave, PlatformC!T!FinishArchive, PlatformC!T!FinishLeave,
         PlatformC!T!FinishDeactivate, PlatformC!T!StartDeactivate,
         PlatformC!T!CreateTenant, PlatformC!T!Switch, PlatformC!T!Unarchive,
         PlatformC!T!Join, PlatformC!T!Bootstrap, PlatformC!T!Reactivate,
         PlatformC!T!CreateOperator, PlatformC!T!PlatformArchive,
         PlatformC!T!PlatformUnarchive, PlatformC!T!Away, PlatformC!T!WithinLimit,
         PlatformC!T!Provision, PlatformC!T!Memberships, PlatformC!T!OtherWorkspace,
         PlatformC!T!MayLeave, PlatformC!T!MayDeactivate, PlatformC!T!NoSeat,
         PlatformC!T!Admins, PlatformC!T!Cardinality, PlatformC!T!ActiveOwners,
         PlatformC!T!IsFiniteSet
<1> QED BY <1>1, <1>2

(* The people and limits of the runs are as the proofs assume, and       *)
(* visits do not overlap in them.                                        *)
LEMMA TenancyFits ==
  /\ PlatformA!CountsOK /\ PlatformA!Alone /\ PlatformB!CountsOK /\ PlatformB!Alone
  /\ PlatformC!CountsOK /\ PlatformC!Alone
<1>1. \A S : IsFiniteSet(S) => PlatformA!IsFiniteSet(S) /\ PlatformB!IsFiniteSet(S) /\ PlatformC!IsFiniteSet(S)
  BY DEF IsFiniteSet, PlatformA!IsFiniteSet, PlatformB!IsFiniteSet, PlatformC!IsFiniteSet
<1> QED BY <1>1, Few DEF PlatformA!CountsOK, PlatformA!Alone, PlatformB!CountsOK,
           PlatformB!Alone, PlatformC!CountsOK, PlatformC!Alone

(* Whichever part of it is in focus, the tenancy keeps the invariant of    *)
(* its proofs.                                                             *)
TenantsInv == /\ focus = "settling" => PlatformA!TenancyInv
              /\ focus = "enrolling" => PlatformB!TenancyInv
              /\ focus = "operating" => PlatformC!TenancyInv

(* The composition starts with no tenant, *)
LEMMA TenantsStart == ASSUME Init PROVE TenantsInv
<1>1. /\ focus = "settling" => Settling!Init
      /\ focus = "enrolling" => Enrolling!Init
      /\ focus = "operating" => Operating!Init
  BY DEF Init
<1> QED BY <1>1, TenancyFits, SettlingSame, EnrollingSame, OperatingSame,
           PlatformA!TenancyStart, PlatformB!TenancyStart, PlatformC!TenancyStart DEF
           TenantsInv

(* and its steps keep the invariant of tenancy. *)
LEMMA TenantsStep == ASSUME TenantsInv, [Next]_vars PROVE TenantsInv'
<1>1. ASSUME focus' = "settling" PROVE PlatformA!TenancyInv'
  <2>1. focus = "settling" /\ (Settling!Next \/ UNCHANGED tenancy)
    BY <1>1 DEF Next, OthersStay, vars
  <2>2. UNCHANGED tenancy => UNCHANGED PlatformA!T!vars
    BY DEF tenancy, PlatformA!T!vars
  <2> QED BY <2>1, <2>2, TenancyFits, SettlingSame, PlatformA!TenancyStep DEF TenantsInv
<1>2. ASSUME focus' = "enrolling" PROVE PlatformB!TenancyInv'
  <2>1. focus = "enrolling" /\ (Enrolling!Next \/ UNCHANGED tenancy)
    BY <1>2 DEF Next, OthersStay, vars
  <2>2. UNCHANGED tenancy => UNCHANGED PlatformB!T!vars
    BY DEF tenancy, PlatformB!T!vars
  <2> QED BY <2>1, <2>2, TenancyFits, EnrollingSame, PlatformB!TenancyStep DEF TenantsInv
<1>3. ASSUME focus' = "operating" PROVE PlatformC!TenancyInv'
  <2>1. focus = "operating" /\ (Operating!Next \/ UNCHANGED tenancy)
    BY <1>3 DEF Next, OthersStay, vars
  <2>2. UNCHANGED tenancy => UNCHANGED PlatformC!T!vars
    BY DEF tenancy, PlatformC!T!vars
  <2> QED BY <2>1, <2>2, TenancyFits, OperatingSame, PlatformC!TenancyStep DEF TenantsInv
<1> QED BY <1>1, <1>2, <1>3 DEF TenantsInv

(* Tenants stay usable in the composition, whose instances have one        *)
(* request at a time.                                                      *)
THEOREM TenantsAreSound == Spec => []TenantsSound
<1>1. Init => TenantsInv
  BY TenantsStart
<1>2. TenantsInv /\ [Next]_vars => TenantsInv'
  BY TenantsStep
<1>3. TenantsInv => TenantsSound
  <2>1. PlatformA!TenancyInv =>
         /\ Settling!TenantOwned
         /\ Settling!KeepsWorkspace
         /\ Settling!PeriodsTile
    <3>1. PlatformA!TenancyInv => /\ PlatformA!T!TenantOwned
                                  /\ PlatformA!T!KeepsWorkspace
                                  /\ PlatformA!T!PeriodsTile
      BY TenancyFits, PlatformA!TenancyImplies
    <3>2. PlatformA!T!TenantOwned => Settling!TenantOwned
      BY DEF Settling!TenantOwned, Settling!ActiveOwners, PlatformA!T!TenantOwned,
         PlatformA!T!ActiveOwners
    <3>3. PlatformA!T!KeepsWorkspace => Settling!KeepsWorkspace
      BY DEF Settling!KeepsWorkspace, Settling!Memberships, PlatformA!T!KeepsWorkspace,
         PlatformA!T!Memberships
    <3>4. PlatformA!T!PeriodsTile => Settling!PeriodsTile
      <4>1. Settling!PeriodsTile = PlatformA!T!PeriodsTile
        BY SMTT(60) DEF Settling!PeriodsTile, Settling!SeedPeriods, Settling!NextMonth,
                         PlatformA!T!PeriodsTile, PlatformA!T!SeedPeriods, PlatformA!T!NextMonth
      <4> QED BY <4>1
    <3> QED BY <3>1, <3>2, <3>3, <3>4
  <2>2. PlatformB!TenancyInv =>
         /\ Enrolling!SignupsLimited
    <3>1. PlatformB!TenancyInv => /\ PlatformB!T!SignupsLimited
      BY TenancyFits, PlatformB!TenancyImplies
    <3>2. PlatformB!T!SignupsLimited => Enrolling!SignupsLimited
      BY DEF Enrolling!SignupsLimited, PlatformB!T!SignupsLimited
    <3> QED BY <3>1, <3>2
  <2>3. PlatformC!TenancyInv =>
         /\ Operating!AdminRemains
    <3>1. PlatformC!TenancyInv => /\ PlatformC!T!AdminRemains
      BY TenancyFits, PlatformC!TenancyImplies
    <3>2. PlatformC!T!AdminRemains => Operating!AdminRemains
      BY DEF Operating!AdminRemains, Operating!Admins, PlatformC!T!AdminRemains,
         PlatformC!T!Admins
    <3> QED BY <3>1, <3>2
  <2> QED BY <2>1, <2>2, <2>3 DEF TenantsSound, TenantsInv
<1> QED BY <1>1, <1>2, <1>3, PTL DEF Spec

-----------------------------------------------------------------------------
(* Accounts: links, renewal, support sessions, and roles with their cache. *)
LEMMA SigningSame ==
  /\ Signing!Init <=> PlatformA!A!Init
  /\ Signing!Next <=> PlatformA!A!Next
<1>1. Signing!Init <=> PlatformA!A!Init
  BY DEF Signing!Init, Signing!Nobody, Signing!SystemRoles, Signing!SeededPermissionsFor,
         Signing!Idle, Signing!RESOURCES, Signing!RoleGrants, Signing!GeneralRead,
         Signing!OpsCats, Signing!EditorVerbs, Signing!ApproveVerbs, Signing!FinanceCats,
         Signing!ConfigVerbs, Signing!SensitiveResources, PlatformA!A!Init,
         PlatformA!A!Nobody, PlatformA!A!SystemRoles, PlatformA!A!SeededPermissionsFor,
         PlatformA!A!Idle, PlatformA!A!RESOURCES, PlatformA!A!RoleGrants,
         PlatformA!A!GeneralRead, PlatformA!A!OpsCats, PlatformA!A!EditorVerbs,
         PlatformA!A!ApproveVerbs, PlatformA!A!FinanceCats, PlatformA!A!ConfigVerbs,
         PlatformA!A!SensitiveResources
<1>2. Signing!Next <=> PlatformA!A!Next
  BY DEF Signing!Next, Signing!HourPasses, Signing!Unsuspend, Signing!Register,
         Signing!ForgotPassword, Signing!SetPassword, Signing!Impersonate, Signing!Logout,
         Signing!ResendInvite, Signing!Invite, Signing!StartRefresh, Signing!StartLogin,
         Signing!FinishLogin, Signing!Rotate, Signing!ApplyUpdate, Signing!Suspend,
         Signing!RevokeAll, Signing!FinishLoad, Signing!Clear, Signing!FinishDelete,
         Signing!StartLoad, Signing!StartUpdate, Signing!StartDelete, Signing!CreateRole,
         Signing!UpdateRole, Signing!Change, Signing!Issue, Signing!Live, Signing!May,
         Signing!ManageUsers, Signing!Idle, Signing!Badge, Signing!Token, Signing!Resolve,
         Signing!MayChange, Signing!SystemRoles, Signing!Admitted, Signing!SessionRole,
         Signing!Cardinality, Signing!ActiveOwners, Signing!IsFiniteSet, PlatformA!A!Next,
         PlatformA!A!HourPasses, PlatformA!A!Unsuspend, PlatformA!A!Register,
         PlatformA!A!ForgotPassword, PlatformA!A!SetPassword, PlatformA!A!Impersonate,
         PlatformA!A!Logout, PlatformA!A!ResendInvite, PlatformA!A!Invite,
         PlatformA!A!StartRefresh, PlatformA!A!StartLogin, PlatformA!A!FinishLogin,
         PlatformA!A!Rotate, PlatformA!A!ApplyUpdate, PlatformA!A!Suspend,
         PlatformA!A!RevokeAll, PlatformA!A!FinishLoad, PlatformA!A!Clear,
         PlatformA!A!FinishDelete, PlatformA!A!StartLoad, PlatformA!A!StartUpdate,
         PlatformA!A!StartDelete, PlatformA!A!CreateRole, PlatformA!A!UpdateRole,
         PlatformA!A!Change, PlatformA!A!Issue, PlatformA!A!Live, PlatformA!A!May,
         PlatformA!A!ManageUsers, PlatformA!A!Idle, PlatformA!A!Badge, PlatformA!A!Token,
         PlatformA!A!Resolve, PlatformA!A!MayChange, PlatformA!A!SystemRoles,
         PlatformA!A!Admitted, PlatformA!A!SessionRole, PlatformA!A!Cardinality,
         PlatformA!A!ActiveOwners, PlatformA!A!IsFiniteSet
<1> QED BY <1>1, <1>2

(* Sessions in the composition are those of the proofs, *)
LEMMA RenewingSame ==
  /\ Renewing!Init <=> PlatformB!A!Init
  /\ Renewing!Next <=> PlatformB!A!Next
<1>1. Renewing!Init <=> PlatformB!A!Init
  BY DEF Renewing!Init, Renewing!Nobody, Renewing!SystemRoles,
         Renewing!SeededPermissionsFor, Renewing!Idle, Renewing!RESOURCES,
         Renewing!RoleGrants, Renewing!GeneralRead, Renewing!OpsCats, Renewing!EditorVerbs,
         Renewing!ApproveVerbs, Renewing!FinanceCats, Renewing!ConfigVerbs,
         Renewing!SensitiveResources, PlatformB!A!Init, PlatformB!A!Nobody,
         PlatformB!A!SystemRoles, PlatformB!A!SeededPermissionsFor, PlatformB!A!Idle,
         PlatformB!A!RESOURCES, PlatformB!A!RoleGrants, PlatformB!A!GeneralRead,
         PlatformB!A!OpsCats, PlatformB!A!EditorVerbs, PlatformB!A!ApproveVerbs,
         PlatformB!A!FinanceCats, PlatformB!A!ConfigVerbs, PlatformB!A!SensitiveResources
<1>2. Renewing!Next <=> PlatformB!A!Next
  BY DEF Renewing!Next, Renewing!HourPasses, Renewing!Unsuspend, Renewing!Register,
         Renewing!ForgotPassword, Renewing!SetPassword, Renewing!Impersonate,
         Renewing!Logout, Renewing!ResendInvite, Renewing!Invite, Renewing!StartRefresh,
         Renewing!StartLogin, Renewing!FinishLogin, Renewing!Rotate, Renewing!ApplyUpdate,
         Renewing!Suspend, Renewing!RevokeAll, Renewing!FinishLoad, Renewing!Clear,
         Renewing!FinishDelete, Renewing!StartLoad, Renewing!StartUpdate,
         Renewing!StartDelete, Renewing!CreateRole, Renewing!UpdateRole, Renewing!Change,
         Renewing!Issue, Renewing!Live, Renewing!May, Renewing!ManageUsers, Renewing!Idle,
         Renewing!Badge, Renewing!Token, Renewing!Resolve, Renewing!MayChange,
         Renewing!SystemRoles, Renewing!Admitted, Renewing!SessionRole,
         Renewing!Cardinality, Renewing!ActiveOwners, Renewing!IsFiniteSet,
         PlatformB!A!Next, PlatformB!A!HourPasses, PlatformB!A!Unsuspend,
         PlatformB!A!Register, PlatformB!A!ForgotPassword, PlatformB!A!SetPassword,
         PlatformB!A!Impersonate, PlatformB!A!Logout, PlatformB!A!ResendInvite,
         PlatformB!A!Invite, PlatformB!A!StartRefresh, PlatformB!A!StartLogin,
         PlatformB!A!FinishLogin, PlatformB!A!Rotate, PlatformB!A!ApplyUpdate,
         PlatformB!A!Suspend, PlatformB!A!RevokeAll, PlatformB!A!FinishLoad,
         PlatformB!A!Clear, PlatformB!A!FinishDelete, PlatformB!A!StartLoad,
         PlatformB!A!StartUpdate, PlatformB!A!StartDelete, PlatformB!A!CreateRole,
         PlatformB!A!UpdateRole, PlatformB!A!Change, PlatformB!A!Issue, PlatformB!A!Live,
         PlatformB!A!May, PlatformB!A!ManageUsers, PlatformB!A!Idle, PlatformB!A!Badge,
         PlatformB!A!Token, PlatformB!A!Resolve, PlatformB!A!MayChange,
         PlatformB!A!SystemRoles, PlatformB!A!Admitted, PlatformB!A!SessionRole,
         PlatformB!A!Cardinality, PlatformB!A!ActiveOwners, PlatformB!A!IsFiniteSet
<1> QED BY <1>1, <1>2

(* and so are support sessions, *)
LEMMA SupportingSame ==
  /\ Supporting!Init <=> PlatformC!A!Init
  /\ Supporting!Next <=> PlatformC!A!Next
<1>1. Supporting!Init <=> PlatformC!A!Init
  BY DEF Supporting!Init, Supporting!Nobody, Supporting!SystemRoles,
         Supporting!SeededPermissionsFor, Supporting!Idle, Supporting!RESOURCES,
         Supporting!RoleGrants, Supporting!GeneralRead, Supporting!OpsCats,
         Supporting!EditorVerbs, Supporting!ApproveVerbs, Supporting!FinanceCats,
         Supporting!ConfigVerbs, Supporting!SensitiveResources, PlatformC!A!Init,
         PlatformC!A!Nobody, PlatformC!A!SystemRoles, PlatformC!A!SeededPermissionsFor,
         PlatformC!A!Idle, PlatformC!A!RESOURCES, PlatformC!A!RoleGrants,
         PlatformC!A!GeneralRead, PlatformC!A!OpsCats, PlatformC!A!EditorVerbs,
         PlatformC!A!ApproveVerbs, PlatformC!A!FinanceCats, PlatformC!A!ConfigVerbs,
         PlatformC!A!SensitiveResources
<1>2. Supporting!Next <=> PlatformC!A!Next
  BY DEF Supporting!Next, Supporting!HourPasses, Supporting!Unsuspend, Supporting!Register,
         Supporting!ForgotPassword, Supporting!SetPassword, Supporting!Impersonate,
         Supporting!Logout, Supporting!ResendInvite, Supporting!Invite,
         Supporting!StartRefresh, Supporting!StartLogin, Supporting!FinishLogin,
         Supporting!Rotate, Supporting!ApplyUpdate, Supporting!Suspend,
         Supporting!RevokeAll, Supporting!FinishLoad, Supporting!Clear,
         Supporting!FinishDelete, Supporting!StartLoad, Supporting!StartUpdate,
         Supporting!StartDelete, Supporting!CreateRole, Supporting!UpdateRole,
         Supporting!Change, Supporting!Issue, Supporting!Live, Supporting!May,
         Supporting!ManageUsers, Supporting!Idle, Supporting!Badge, Supporting!Token,
         Supporting!Resolve, Supporting!MayChange, Supporting!SystemRoles,
         Supporting!Admitted, Supporting!SessionRole, Supporting!Cardinality,
         Supporting!ActiveOwners, Supporting!IsFiniteSet, PlatformC!A!Next,
         PlatformC!A!HourPasses, PlatformC!A!Unsuspend, PlatformC!A!Register,
         PlatformC!A!ForgotPassword, PlatformC!A!SetPassword, PlatformC!A!Impersonate,
         PlatformC!A!Logout, PlatformC!A!ResendInvite, PlatformC!A!Invite,
         PlatformC!A!StartRefresh, PlatformC!A!StartLogin, PlatformC!A!FinishLogin,
         PlatformC!A!Rotate, PlatformC!A!ApplyUpdate, PlatformC!A!Suspend,
         PlatformC!A!RevokeAll, PlatformC!A!FinishLoad, PlatformC!A!Clear,
         PlatformC!A!FinishDelete, PlatformC!A!StartLoad, PlatformC!A!StartUpdate,
         PlatformC!A!StartDelete, PlatformC!A!CreateRole, PlatformC!A!UpdateRole,
         PlatformC!A!Change, PlatformC!A!Issue, PlatformC!A!Live, PlatformC!A!May,
         PlatformC!A!ManageUsers, PlatformC!A!Idle, PlatformC!A!Badge, PlatformC!A!Token,
         PlatformC!A!Resolve, PlatformC!A!MayChange, PlatformC!A!SystemRoles,
         PlatformC!A!Admitted, PlatformC!A!SessionRole, PlatformC!A!Cardinality,
         PlatformC!A!ActiveOwners, PlatformC!A!IsFiniteSet
<1> QED BY <1>1, <1>2

PlatformD == INSTANCE PlatformProofs
    WITH Prices <- [free |-> 0, starter |-> 25], PeriodDays <- 1, Reusable <- TRUE,
         LastBilled <- 3, MaxClaims <- 1, MaxFaults <- 1, Persons <- {"p"}, Tenants <- {"t"},
         Operators <- {"o1", "o2", "o3"}, Visits <- {"v"}, SignupRateMax <- 1,
         Mishaps <- FALSE, MaxWindows <- 1, People <- {"o", "a"}, Custom <- {"clerk"},
         Grants <- {{}, {<<"Purchases", "bill", "read">>}}, Assigned <- {"Owner", "clerk"},
         Requests <- {"q"}, Scope <- {"logout"}, AccessTtl <- 2, RefreshTtl <- 2,
         InviteTtl <- 2, ResetTtl <- 1, LastHour <- 1, MaxTokens <- 2, Emitted <- {},
         External <- {}, Edits <- {}, Editors <- {}, Deployed <- {}, BatchSize <- 10, MAX_RETRIES <- 3,
         Bills <- {"b"}, InvoiceTotal <- 2, DueDay <- 1, Offsets <- {1},
         RuleChannels <- <<"email">>, Payers <- {"p1", "p2"}, LastDay <- 2, MaxLetters <- 1,
         MaxOutages <- 0

(* and the granting of roles. *)
LEMMA GrantingSame ==
  /\ Granting!Init <=> PlatformD!A!Init
  /\ Granting!Next <=> PlatformD!A!Next
<1>1. Granting!Init <=> PlatformD!A!Init
  BY DEF Granting!Init, Granting!Nobody, Granting!SystemRoles,
         Granting!SeededPermissionsFor, Granting!Idle, Granting!RESOURCES,
         Granting!RoleGrants, Granting!GeneralRead, Granting!OpsCats, Granting!EditorVerbs,
         Granting!ApproveVerbs, Granting!FinanceCats, Granting!ConfigVerbs,
         Granting!SensitiveResources, PlatformD!A!Init, PlatformD!A!Nobody,
         PlatformD!A!SystemRoles, PlatformD!A!SeededPermissionsFor, PlatformD!A!Idle,
         PlatformD!A!RESOURCES, PlatformD!A!RoleGrants, PlatformD!A!GeneralRead,
         PlatformD!A!OpsCats, PlatformD!A!EditorVerbs, PlatformD!A!ApproveVerbs,
         PlatformD!A!FinanceCats, PlatformD!A!ConfigVerbs, PlatformD!A!SensitiveResources
<1>2. Granting!Next <=> PlatformD!A!Next
  BY DEF Granting!Next, Granting!HourPasses, Granting!Unsuspend, Granting!Register,
         Granting!ForgotPassword, Granting!SetPassword, Granting!Impersonate,
         Granting!Logout, Granting!ResendInvite, Granting!Invite, Granting!StartRefresh,
         Granting!StartLogin, Granting!FinishLogin, Granting!Rotate, Granting!ApplyUpdate,
         Granting!Suspend, Granting!RevokeAll, Granting!FinishLoad, Granting!Clear,
         Granting!FinishDelete, Granting!StartLoad, Granting!StartUpdate,
         Granting!StartDelete, Granting!CreateRole, Granting!UpdateRole, Granting!Change,
         Granting!Issue, Granting!Live, Granting!May, Granting!ManageUsers, Granting!Idle,
         Granting!Badge, Granting!Token, Granting!Resolve, Granting!MayChange,
         Granting!SystemRoles, Granting!Admitted, Granting!SessionRole,
         Granting!Cardinality, Granting!ActiveOwners, Granting!IsFiniteSet,
         PlatformD!A!Next, PlatformD!A!HourPasses, PlatformD!A!Unsuspend,
         PlatformD!A!Register, PlatformD!A!ForgotPassword, PlatformD!A!SetPassword,
         PlatformD!A!Impersonate, PlatformD!A!Logout, PlatformD!A!ResendInvite,
         PlatformD!A!Invite, PlatformD!A!StartRefresh, PlatformD!A!StartLogin,
         PlatformD!A!FinishLogin, PlatformD!A!Rotate, PlatformD!A!ApplyUpdate,
         PlatformD!A!Suspend, PlatformD!A!RevokeAll, PlatformD!A!FinishLoad,
         PlatformD!A!Clear, PlatformD!A!FinishDelete, PlatformD!A!StartLoad,
         PlatformD!A!StartUpdate, PlatformD!A!StartDelete, PlatformD!A!CreateRole,
         PlatformD!A!UpdateRole, PlatformD!A!Change, PlatformD!A!Issue, PlatformD!A!Live,
         PlatformD!A!May, PlatformD!A!ManageUsers, PlatformD!A!Idle, PlatformD!A!Badge,
         PlatformD!A!Token, PlatformD!A!Resolve, PlatformD!A!MayChange,
         PlatformD!A!SystemRoles, PlatformD!A!Admitted, PlatformD!A!SessionRole,
         PlatformD!A!Cardinality, PlatformD!A!ActiveOwners, PlatformD!A!IsFiniteSet
<1> QED BY <1>1, <1>2

(* The hours, people and limits of the runs are as the proofs assume,    *)
(* and requests do not overlap in them.                                  *)
LEMMA AccessFits ==
  /\ PlatformA!HoursOK /\ PlatformA!OneByOne /\ PlatformB!HoursOK /\ PlatformB!OneByOne
  /\ PlatformC!HoursOK /\ PlatformC!OneByOne /\ PlatformD!HoursOK /\ PlatformD!OneByOne
<1>1. \A S : IsFiniteSet(S) => /\ PlatformA!IsFiniteSet(S) /\ PlatformB!IsFiniteSet(S)
                              /\ PlatformC!IsFiniteSet(S) /\ PlatformD!IsFiniteSet(S)
  BY DEF IsFiniteSet, PlatformA!IsFiniteSet, PlatformB!IsFiniteSet, PlatformC!IsFiniteSet,
     PlatformD!IsFiniteSet
<1> QED BY <1>1, Few DEF PlatformA!HoursOK, PlatformA!OneByOne, PlatformB!HoursOK,
           PlatformB!OneByOne, PlatformC!HoursOK, PlatformC!OneByOne, PlatformD!HoursOK,
           PlatformD!OneByOne

(* Whichever part of it is in focus, access keeps the invariant of its     *)
(* proofs.                                                                 *)
AccountsInv == /\ focus = "signing" => PlatformA!AccessInv
               /\ focus = "renewing" => PlatformB!AccessInv
               /\ focus = "supporting" => PlatformC!AccessInv
               /\ focus = "granting" => PlatformD!AccessInv

(* The composition starts with no account, *)
LEMMA AccountsStart == ASSUME Init PROVE AccountsInv
<1>1. /\ focus = "signing" => Signing!Init
      /\ focus = "renewing" => Renewing!Init
      /\ focus = "supporting" => Supporting!Init
      /\ focus = "granting" => Granting!Init
  BY DEF Init
<1> QED BY <1>1, AccessFits, SigningSame, RenewingSame, SupportingSame, GrantingSame,
           PlatformA!AccessStart, PlatformB!AccessStart, PlatformC!AccessStart,
           PlatformD!AccessStart DEF AccountsInv

(* and its steps keep the invariant of access. *)
LEMMA AccountsStep == ASSUME AccountsInv, [Next]_vars PROVE AccountsInv'
<1>1. ASSUME focus' = "signing" PROVE PlatformA!AccessInv'
  <2>1. focus = "signing" /\ (Signing!Next \/ UNCHANGED access)
    BY <1>1 DEF Next, OthersStay, vars
  <2>2. UNCHANGED access => UNCHANGED PlatformA!A!vars
    BY DEF access, PlatformA!A!vars
  <2> QED BY <2>1, <2>2, AccessFits, SigningSame, PlatformA!AccessStep DEF AccountsInv
<1>2. ASSUME focus' = "renewing" PROVE PlatformB!AccessInv'
  <2>1. focus = "renewing" /\ (Renewing!Next \/ UNCHANGED access)
    BY <1>2 DEF Next, OthersStay, vars
  <2>2. UNCHANGED access => UNCHANGED PlatformB!A!vars
    BY DEF access, PlatformB!A!vars
  <2> QED BY <2>1, <2>2, AccessFits, RenewingSame, PlatformB!AccessStep DEF AccountsInv
<1>3. ASSUME focus' = "supporting" PROVE PlatformC!AccessInv'
  <2>1. focus = "supporting" /\ (Supporting!Next \/ UNCHANGED access)
    BY <1>3 DEF Next, OthersStay, vars
  <2>2. UNCHANGED access => UNCHANGED PlatformC!A!vars
    BY DEF access, PlatformC!A!vars
  <2> QED BY <2>1, <2>2, AccessFits, SupportingSame, PlatformC!AccessStep DEF AccountsInv
<1>4. ASSUME focus' = "granting" PROVE PlatformD!AccessInv'
  <2>1. focus = "granting" /\ (Granting!Next \/ UNCHANGED access)
    BY <1>4 DEF Next, OthersStay, vars
  <2>2. UNCHANGED access => UNCHANGED PlatformD!A!vars
    BY DEF access, PlatformD!A!vars
  <2> QED BY <2>1, <2>2, AccessFits, GrantingSame, PlatformD!AccessStep DEF AccountsInv
<1> QED BY <1>1, <1>2, <1>3, <1>4 DEF AccountsInv

(* Rights follow the accounts in the composition, whose instances have one *)
(* request at a time.                                                      *)
THEOREM AccountsAreSound == Spec => []AccessSound
<1>1. Init => AccountsInv
  BY AccountsStart
<1>2. AccountsInv /\ [Next]_vars => AccountsInv'
  BY AccountsStep
<1>3. AccountsInv => AccessSound
  <2>1. PlatformA!AccessInv =>
         /\ Signing!OwnerRemains
    <3>1. PlatformA!AccessInv => /\ PlatformA!A!OwnerRemains
      BY AccessFits, PlatformA!AccessImplies
    <3>2. PlatformA!A!OwnerRemains => Signing!OwnerRemains
      BY DEF Signing!OwnerRemains, Signing!ActiveOwners, PlatformA!A!OwnerRemains,
         PlatformA!A!ActiveOwners
    <3> QED BY <3>1, <3>2
  <2>2. PlatformB!AccessInv =>
         /\ Renewing!StaleUntilRefresh
    <3>1. PlatformB!AccessInv => /\ PlatformB!A!StaleUntilRefresh
      BY AccessFits, PlatformB!AccessImplies
    <3>2. PlatformB!A!StaleUntilRefresh => Renewing!StaleUntilRefresh
      BY DEF Renewing!StaleUntilRefresh, Renewing!SessionRole, PlatformB!A!StaleUntilRefresh,
         PlatformB!A!SessionRole
    <3> QED BY <3>1, <3>2
  <2>3. PlatformC!AccessInv =>
         /\ Supporting!SessionsDoNotMultiply
         /\ Supporting!SupportStaysReadOnly
         /\ Supporting!SuspensionEndsSessions
    <3>1. PlatformC!AccessInv => /\ PlatformC!A!SessionsDoNotMultiply
                                 /\ PlatformC!A!SupportStaysReadOnly
                                 /\ PlatformC!A!SuspensionEndsSessions
      BY AccessFits, PlatformC!AccessImplies
    <3>2. PlatformC!A!SessionsDoNotMultiply => Supporting!SessionsDoNotMultiply
      BY DEF Supporting!SessionsDoNotMultiply, Supporting!Cardinality, Supporting!IsFiniteSet,
         PlatformC!A!SessionsDoNotMultiply, PlatformC!A!Cardinality, PlatformC!A!IsFiniteSet
    <3>3. PlatformC!A!SupportStaysReadOnly => Supporting!SupportStaysReadOnly
      BY DEF Supporting!SupportStaysReadOnly, PlatformC!A!SupportStaysReadOnly
    <3>4. PlatformC!A!SuspensionEndsSessions => Supporting!SuspensionEndsSessions
      BY DEF Supporting!SuspensionEndsSessions, PlatformC!A!SuspensionEndsSessions
    <3> QED BY <3>1, <3>2, <3>3, <3>4
  <2>4. PlatformD!AccessInv =>
         /\ Granting!CacheFresh
         /\ Granting!DutiesSeparate
    <3>1. PlatformD!AccessInv => /\ PlatformD!A!CacheFresh
                                 /\ PlatformD!A!DutiesSeparate
      BY AccessFits, PlatformD!AccessImplies
    <3>2. PlatformD!A!CacheFresh => Granting!CacheFresh
      BY DEF Granting!CacheFresh, Granting!Quiet, Granting!Resolve, Granting!Idle,
         PlatformD!A!CacheFresh, PlatformD!A!Quiet, PlatformD!A!Resolve, PlatformD!A!Idle
    <3>3. PlatformD!A!DutiesSeparate => Granting!DutiesSeparate
      BY DEF Granting!DutiesSeparate, Granting!SystemRoles, Granting!ManageUsers,
         PlatformD!A!DutiesSeparate, PlatformD!A!SystemRoles, PlatformD!A!ManageUsers
    <3> QED BY <3>1, <3>2, <3>3
  <2> QED BY <2>1, <2>2, <2>3, <2>4 DEF AccessSound, AccountsInv
<1> QED BY <1>1, <1>2, <1>3, PTL DEF Spec

-----------------------------------------------------------------------------
(* Messages: sending, providers and preferences, reminders and payments. *)
LEMMA SendingSame ==
  /\ Sending!Init <=> PlatformA!N!Init
  /\ Sending!Next <=> PlatformA!N!Next
<1>1. Sending!Init <=> PlatformA!N!Init
  BY DEF Sending!Init, Sending!Waiting, Sending!NoEdit, Sending!NoPayment, PlatformA!N!Init,
         PlatformA!N!Waiting, PlatformA!N!NoEdit, PlatformA!N!NoPayment
<1>2. Sending!Next <=> PlatformA!N!Next
  BY DEF Sending!Next, Sending!Emit, Sending!UpsertPreference, Sending!SaveSecret,
         Sending!StartEdit, Sending!UpsertProvider, Sending!ReadStream, Sending!InsertRow,
         Sending!SkipPair, Sending!Deliver, Sending!UpdateRow, Sending!Ack, Sending!Halt,
         Sending!MarkRead, Sending!MarkAllRead, Sending!StartTick, Sending!Remind,
         Sending!MarkOverdue, Sending!NextDay, Sending!Pay, Sending!FetchBalance,
         Sending!CancelReminders, Sending!ReadBalance, Sending!EffectiveChannels,
         Sending!Send, Sending!providers, Sending!billVars, Sending!Configurable,
         Sending!mailVars, Sending!Write, Sending!Overtaken, Sending!StoredSecret,
         Sending!NoEdit, Sending!Waiting, Sending!MorePairs, Sending!Letter,
         Sending!StoredEvent, Sending!Channel, Sending!Fault, Sending!Attempted,
         Sending!AfterAttempt, Sending!Route, Sending!Unpaid, Sending!BecomesOverdue,
         Sending!NoPayment, Sending!PaidStatus, Sending!Cancelled, Sending!Defaults,
         Sending!TenantUsable, Sending!Resolve, PlatformA!N!Next,
         PlatformA!N!Emit, PlatformA!N!UpsertPreference, PlatformA!N!SaveSecret,
         PlatformA!N!StartEdit, PlatformA!N!UpsertProvider, PlatformA!N!ReadStream,
         PlatformA!N!InsertRow, PlatformA!N!SkipPair, PlatformA!N!Deliver,
         PlatformA!N!UpdateRow, PlatformA!N!Ack, PlatformA!N!Halt, PlatformA!N!MarkRead,
         PlatformA!N!MarkAllRead, PlatformA!N!StartTick, PlatformA!N!Remind,
         PlatformA!N!MarkOverdue, PlatformA!N!NextDay, PlatformA!N!Pay,
         PlatformA!N!FetchBalance, PlatformA!N!CancelReminders, PlatformA!N!ReadBalance,
         PlatformA!N!EffectiveChannels, PlatformA!N!Send, PlatformA!N!providers,
         PlatformA!N!billVars, PlatformA!N!Configurable, PlatformA!N!mailVars,
         PlatformA!N!Write, PlatformA!N!Overtaken, PlatformA!N!StoredSecret,
         PlatformA!N!NoEdit, PlatformA!N!Waiting, PlatformA!N!MorePairs, PlatformA!N!Letter,
         PlatformA!N!StoredEvent, PlatformA!N!Channel, PlatformA!N!Fault,
         PlatformA!N!Attempted, PlatformA!N!AfterAttempt, PlatformA!N!Route,
         PlatformA!N!Unpaid, PlatformA!N!BecomesOverdue, PlatformA!N!NoPayment,
         PlatformA!N!PaidStatus, PlatformA!N!Cancelled, PlatformA!N!Defaults,
         PlatformA!N!TenantUsable, PlatformA!N!Resolve
<1> QED BY <1>1, <1>2

(* The carriers of the composition are those of the proofs, *)
LEMMA ConfiguringSame ==
  /\ Configuring!Init <=> PlatformB!N!Init
  /\ Configuring!Next <=> PlatformB!N!Next
<1>1. Configuring!Init <=> PlatformB!N!Init
  BY DEF Configuring!Init, Configuring!Waiting, Configuring!NoEdit, Configuring!NoPayment,
         PlatformB!N!Init, PlatformB!N!Waiting, PlatformB!N!NoEdit, PlatformB!N!NoPayment
<1>2. Configuring!Next <=> PlatformB!N!Next
  BY DEF Configuring!Next, Configuring!Emit, Configuring!UpsertPreference,
         Configuring!SaveSecret, Configuring!StartEdit, Configuring!UpsertProvider,
         Configuring!ReadStream, Configuring!InsertRow, Configuring!SkipPair,
         Configuring!Deliver, Configuring!UpdateRow, Configuring!Ack, Configuring!Halt,
         Configuring!MarkRead, Configuring!MarkAllRead, Configuring!StartTick,
         Configuring!Remind, Configuring!MarkOverdue, Configuring!NextDay, Configuring!Pay,
         Configuring!FetchBalance, Configuring!CancelReminders, Configuring!ReadBalance,
         Configuring!EffectiveChannels, Configuring!Send, Configuring!providers,
         Configuring!billVars, Configuring!Configurable, Configuring!mailVars,
         Configuring!Write, Configuring!Overtaken, Configuring!StoredSecret,
         Configuring!NoEdit, Configuring!Waiting, Configuring!MorePairs, Configuring!Letter,
         Configuring!StoredEvent, Configuring!Channel, Configuring!Fault,
         Configuring!Attempted, Configuring!AfterAttempt, Configuring!Route,
         Configuring!Unpaid, Configuring!BecomesOverdue, Configuring!NoPayment,
         Configuring!PaidStatus, Configuring!Cancelled, Configuring!Defaults,
         Configuring!TenantUsable, Configuring!Resolve,
         PlatformB!N!Next, PlatformB!N!Emit, PlatformB!N!UpsertPreference,
         PlatformB!N!SaveSecret, PlatformB!N!StartEdit, PlatformB!N!UpsertProvider,
         PlatformB!N!ReadStream, PlatformB!N!InsertRow, PlatformB!N!SkipPair,
         PlatformB!N!Deliver, PlatformB!N!UpdateRow, PlatformB!N!Ack, PlatformB!N!Halt,
         PlatformB!N!MarkRead, PlatformB!N!MarkAllRead, PlatformB!N!StartTick,
         PlatformB!N!Remind, PlatformB!N!MarkOverdue, PlatformB!N!NextDay, PlatformB!N!Pay,
         PlatformB!N!FetchBalance, PlatformB!N!CancelReminders, PlatformB!N!ReadBalance,
         PlatformB!N!EffectiveChannels, PlatformB!N!Send, PlatformB!N!providers,
         PlatformB!N!billVars, PlatformB!N!Configurable, PlatformB!N!mailVars,
         PlatformB!N!Write, PlatformB!N!Overtaken, PlatformB!N!StoredSecret,
         PlatformB!N!NoEdit, PlatformB!N!Waiting, PlatformB!N!MorePairs, PlatformB!N!Letter,
         PlatformB!N!StoredEvent, PlatformB!N!Channel, PlatformB!N!Fault,
         PlatformB!N!Attempted, PlatformB!N!AfterAttempt, PlatformB!N!Route,
         PlatformB!N!Unpaid, PlatformB!N!BecomesOverdue, PlatformB!N!NoPayment,
         PlatformB!N!PaidStatus, PlatformB!N!Cancelled, PlatformB!N!Defaults,
         PlatformB!N!TenantUsable, PlatformB!N!Resolve
<1> QED BY <1>1, <1>2

(* and so are its reminders. *)
LEMMA RemindingSame ==
  /\ Reminding!Init <=> PlatformC!N!Init
  /\ Reminding!Next <=> PlatformC!N!Next
<1>1. Reminding!Init <=> PlatformC!N!Init
  BY DEF Reminding!Init, Reminding!Waiting, Reminding!NoEdit, Reminding!NoPayment,
         PlatformC!N!Init, PlatformC!N!Waiting, PlatformC!N!NoEdit, PlatformC!N!NoPayment
<1>2. Reminding!Next <=> PlatformC!N!Next
  BY DEF Reminding!Next, Reminding!Emit, Reminding!UpsertPreference, Reminding!SaveSecret,
         Reminding!StartEdit, Reminding!UpsertProvider, Reminding!ReadStream,
         Reminding!InsertRow, Reminding!SkipPair, Reminding!Deliver, Reminding!UpdateRow,
         Reminding!Ack, Reminding!Halt, Reminding!MarkRead, Reminding!MarkAllRead,
         Reminding!StartTick, Reminding!Remind, Reminding!MarkOverdue, Reminding!NextDay,
         Reminding!Pay, Reminding!FetchBalance, Reminding!CancelReminders,
         Reminding!ReadBalance, Reminding!EffectiveChannels, Reminding!Send,
         Reminding!providers, Reminding!billVars, Reminding!Configurable,
         Reminding!mailVars, Reminding!Write, Reminding!Overtaken, Reminding!StoredSecret,
         Reminding!NoEdit, Reminding!Waiting, Reminding!MorePairs, Reminding!Letter,
         Reminding!StoredEvent, Reminding!Channel, Reminding!Fault, Reminding!Attempted,
         Reminding!AfterAttempt, Reminding!Route, Reminding!Unpaid,
         Reminding!BecomesOverdue, Reminding!NoPayment, Reminding!PaidStatus,
         Reminding!Cancelled, Reminding!Defaults,
         Reminding!TenantUsable, Reminding!Resolve, PlatformC!N!Next, PlatformC!N!Emit,
         PlatformC!N!UpsertPreference, PlatformC!N!SaveSecret, PlatformC!N!StartEdit,
         PlatformC!N!UpsertProvider, PlatformC!N!ReadStream, PlatformC!N!InsertRow,
         PlatformC!N!SkipPair, PlatformC!N!Deliver, PlatformC!N!UpdateRow, PlatformC!N!Ack,
         PlatformC!N!Halt, PlatformC!N!MarkRead, PlatformC!N!MarkAllRead,
         PlatformC!N!StartTick, PlatformC!N!Remind, PlatformC!N!MarkOverdue,
         PlatformC!N!NextDay, PlatformC!N!Pay, PlatformC!N!FetchBalance,
         PlatformC!N!CancelReminders, PlatformC!N!ReadBalance,
         PlatformC!N!EffectiveChannels, PlatformC!N!Send, PlatformC!N!providers,
         PlatformC!N!billVars, PlatformC!N!Configurable, PlatformC!N!mailVars,
         PlatformC!N!Write, PlatformC!N!Overtaken, PlatformC!N!StoredSecret,
         PlatformC!N!NoEdit, PlatformC!N!Waiting, PlatformC!N!MorePairs, PlatformC!N!Letter,
         PlatformC!N!StoredEvent, PlatformC!N!Channel, PlatformC!N!Fault,
         PlatformC!N!Attempted, PlatformC!N!AfterAttempt, PlatformC!N!Route,
         PlatformC!N!Unpaid, PlatformC!N!BecomesOverdue, PlatformC!N!NoPayment,
         PlatformC!N!PaidStatus, PlatformC!N!Cancelled, PlatformC!N!Defaults,
         PlatformC!N!TenantUsable, PlatformC!N!Resolve
<1> QED BY <1>1, <1>2

(* The channels, edits and limits of the runs are as the proofs assume. *)
LEMMA MailFits == PlatformA!MailOK /\ PlatformB!MailOK /\ PlatformC!MailOK
<1>1. /\ "InvoicePaid" \in PlatformA!N!Configurable /\ "InvoicePaid" \in PlatformB!N!Configurable
      /\ "email" \in PlatformA!Channels /\ "email" \in PlatformB!Channels /\ "email" \in PlatformC!Channels
  BY DEF PlatformA!N!Configurable, PlatformA!N!Defaults, PlatformB!N!Configurable,
         PlatformB!N!Defaults, PlatformA!Channels, PlatformB!Channels, PlatformC!Channels
<1>2. \A S : "email" \in S => <<"email">> \in Seq(S)
  OBVIOUS
<1>3. PlatformA!MailOK
  BY <1>1, <1>2 DEF PlatformA!MailOK
<1>4. PlatformB!MailOK
  <2>1. \A e \in {[enabled |-> TRUE, settings |-> TRUE, secret |-> "s"],
                 [enabled |-> FALSE, settings |-> TRUE, secret |-> ""]} : "secret" \in DOMAIN e
    <3>1. "secret" \in DOMAIN [enabled |-> TRUE, settings |-> TRUE, secret |-> "s"]
      OBVIOUS
    <3>2. "secret" \in DOMAIN [enabled |-> FALSE, settings |-> TRUE, secret |-> ""]
      OBVIOUS
    <3> QED BY <3>1, <3>2, Zenon
  <2> QED BY <1>1, <1>2, <2>1 DEF PlatformB!MailOK
<1>5. PlatformC!MailOK
  BY <1>1, <1>2 DEF PlatformC!MailOK
<1> QED BY <1>3, <1>4, <1>5

(* Whichever part of it is in focus, notifications keep the invariant of   *)
(* their proofs.                                                           *)
MessagesInv == /\ focus = "sending" => PlatformA!NotifyInv
               /\ focus = "configuring" => PlatformB!NotifyInv
               /\ focus = "reminding" => PlatformC!NotifyInv

(* The composition starts with no message sent, *)
LEMMA MessagesStart == ASSUME Init PROVE MessagesInv
<1>1. /\ focus = "sending" => Sending!Init
      /\ focus = "configuring" => Configuring!Init
      /\ focus = "reminding" => Reminding!Init
  BY DEF Init
<1> QED BY <1>1, MailFits, SendingSame, ConfiguringSame, RemindingSame, PlatformA!NotifyStart,
           PlatformB!NotifyStart, PlatformC!NotifyStart DEF MessagesInv

(* and its steps keep the invariant of messages. *)
LEMMA MessagesStep == ASSUME MessagesInv, [Next]_vars PROVE MessagesInv'
<1>1. ASSUME focus' = "sending" PROVE PlatformA!NotifyInv'
  <2>1. focus = "sending" /\ (Sending!Next \/ UNCHANGED notify)
    BY <1>1 DEF Next, OthersStay, vars
  <2>2. UNCHANGED notify => UNCHANGED PlatformA!N!vars
    BY DEF notify, PlatformA!N!vars
  <2> QED BY <2>1, <2>2, MailFits, SendingSame, PlatformA!NotifyStep DEF MessagesInv
<1>2. ASSUME focus' = "configuring" PROVE PlatformB!NotifyInv'
  <2>1. focus = "configuring" /\ (Configuring!Next \/ UNCHANGED notify)
    BY <1>2 DEF Next, OthersStay, vars
  <2>2. UNCHANGED notify => UNCHANGED PlatformB!N!vars
    BY DEF notify, PlatformB!N!vars
  <2> QED BY <2>1, <2>2, MailFits, ConfiguringSame, PlatformB!NotifyStep DEF MessagesInv
<1>3. ASSUME focus' = "reminding" PROVE PlatformC!NotifyInv'
  <2>1. focus = "reminding" /\ (Reminding!Next \/ UNCHANGED notify)
    BY <1>3 DEF Next, OthersStay, vars
  <2>2. UNCHANGED notify => UNCHANGED PlatformC!N!vars
    BY DEF notify, PlatformC!N!vars
  <2> QED BY <2>1, <2>2, MailFits, RemindingSame, PlatformC!NotifyStep DEF MessagesInv
<1> QED BY <1>1, <1>2, <1>3 DEF MessagesInv

(* The rows say what happened in the composition too. *)
THEOREM MessagesAreTruthful == Spec => []MessagesTruthful
<1>1. Init => MessagesInv
  BY MessagesStart
<1>2. MessagesInv /\ [Next]_vars => MessagesInv'
  BY MessagesStep
<1>3. MessagesInv => MessagesTruthful
  <2>1. PlatformA!NotifyInv =>
         /\ Sending!RowsTruthful
         /\ Sending!AckedDecided
    <3>1. PlatformA!NotifyInv => /\ PlatformA!N!RowsTruthful
                                 /\ PlatformA!N!AckedDecided
      BY MailFits, PlatformA!NotifyHolds
    <3>2. PlatformA!N!RowsTruthful => Sending!RowsTruthful
      BY DEF Sending!RowsTruthful, PlatformA!N!RowsTruthful
    <3>3. PlatformA!N!AckedDecided => Sending!AckedDecided
      BY DEF Sending!AckedDecided, PlatformA!N!AckedDecided
    <3> QED BY <3>1, <3>2, <3>3
  <2>2. PlatformB!NotifyInv =>
         /\ Sending!RowsTruthful
         /\ Sending!AckedDecided
    <3>1. PlatformB!NotifyInv => /\ PlatformB!N!RowsTruthful
                                 /\ PlatformB!N!AckedDecided
      BY MailFits, PlatformB!NotifyHolds
    <3>2. PlatformB!N!RowsTruthful => Sending!RowsTruthful
      BY DEF Sending!RowsTruthful, PlatformB!N!RowsTruthful
    <3>3. PlatformB!N!AckedDecided => Sending!AckedDecided
      BY DEF Sending!AckedDecided, PlatformB!N!AckedDecided
    <3> QED BY <3>1, <3>2, <3>3
  <2>3. PlatformC!NotifyInv =>
         /\ Reminding!StatusMatchesBalance
    <3>1. PlatformC!NotifyInv => /\ PlatformC!N!StatusMatchesBalance
      BY MailFits, PlatformC!NotifyHolds
    <3>2. PlatformC!N!StatusMatchesBalance => Reminding!StatusMatchesBalance
      BY DEF Reminding!StatusMatchesBalance, PlatformC!N!StatusMatchesBalance
    <3> QED BY <3>1, <3>2
  <2> QED BY <2>1, <2>2, <2>3 DEF MessagesTruthful, MessagesInv
<1> QED BY <1>1, <1>2, <1>3, PTL DEF Spec

=============================================================================
