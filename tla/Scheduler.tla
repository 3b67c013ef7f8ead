----------------------------- MODULE Scheduler -----------------------------
(***************************************************************************)
(* The jobs of the hourly tick that create documents and journal entries   *)
(* on a schedule: recurring invoices, report schedules, recurring journals,*)
(* depreciation and amortisation.  A ticker is the background task of one  *)
(* API process; a user runs one of the last three jobs on demand.          *)
(*                                                                         *)
(* Time is counted in months, the cadence of every schedule here.  A run   *)
(* reads its schedule on the pool, works, and moves the schedule on; what  *)
(* is in one database transaction is one action.  How often something was  *)
(* done is counted up to Many.                                             *)
(***************************************************************************)
EXTENDS Integers, Sequences, FiniteSetsExt

CONSTANTS
    Kinds,          \* the jobs that have something to do
    Tickers,        \* API processes, each with an hourly tick
    Users,          \* requests that run a job on demand
    LastMonth,      \* bound: the calendar ends here
    EndMonth,       \* end_date of the recurring invoice
    AutoReverse,    \* the recurring journal is an accrual
    Cost, Residual, Life, RatePercent,   \* the asset, in cents and months
    Total, Installments,    \* the amortisation schedule
    MaxCrashes,     \* bound: processes that die
    MaxEdits        \* bound: what administrators do

Months == 1..LastMonth
Runners == Tickers \cup Users
Many == 2

VARIABLES
    kind,       \* the one job the tenant has a schedule for
    created,    \* whether the schedule exists yet
    today,      \* the current month
    period,     \* fiscal_periods.status of each month
    ri,         \* recurring_invoices: next_run, is_active, deleted
    invoices,   \* how often each month was invoiced
    sent,       \* the months whose invoice was posted
    report,     \* report_schedules: next_run_at
    rj,         \* recurring_journals: next_run_date, is_active
    journals, reversals,    \* entries REC-..., REC-REV-... of each month
    asset,      \* fixed_assets: depreciation_method, accumulated_depreciation,
                \* net_book_value, depreciated_through, whether capitalised
    booked,     \* how often each month's depreciation was posted
    am,         \* amortization_schedules: amortized_periods, status
    paid,       \* how often each installment was posted
    run,        \* what each runner is doing
    crashes, edits

vars == <<kind, created, today, period, ri, invoices, sent, report, rj, journals, reversals, asset,
          booked, am, paid, run, crashes, edits>>
invoicing == <<ri, invoices, sent>>
recurring == <<rj, journals, reversals>>
depreciation == <<asset, booked>>
amortisation == <<am, paid>>
admin == <<kind, created, today, period, crashes, edits>>

More(f, k) == [f EXCEPT ![k] = IF @ < Many THEN @ + 1 ELSE @]

-----------------------------------------------------------------------------
(* Runners *)

(* The jobs of the tick, in its order. *)
Jobs == <<"invoices", "reports", "journals", "depreciation", "amortization">>

NoAsset == [method |-> "none", through |-> 0, nbv |-> 0, accum |-> 0, capitalised |-> FALSE]

Resting == [job |-> 0, pc |-> "read", at |-> 0, idx |-> 0, row |-> NoAsset]

At(r, job, pc) == run[r].job > 0 /\ Jobs[run[r].job] = job /\ run[r].pc = pc

Goto(r, pc) == run' = [run EXCEPT ![r].pc = pc]

(* The tick goes on with its next job; a user has what it asked for. *)
Done(r) ==
    run' = [run EXCEPT ![r] =
               IF r \in Tickers /\ run[r].job < Len(Jobs)
               THEN [Resting EXCEPT !.job = run[r].job + 1] ELSE Resting]

Tick(r) ==
    /\ run[r].job = 0
    /\ run' = [run EXCEPT ![r] = [Resting EXCEPT !.job = 1]]
    /\ UNCHANGED <<invoicing, report, recurring, depreciation, amortisation, admin>>

(* POST /recurring-journals/run, /assets/depreciation/run, /amortization/run *)
RunNow(r, j) ==
    /\ run[r].job = 0
    /\ run' = [run EXCEPT ![r] = [Resting EXCEPT !.job = j]]
    /\ UNCHANGED <<invoicing, report, recurring, depreciation, amortisation, admin>>

(* enforce_period_status_in_tx for the source of the entry. *)
Admits(m, src) ==
    \/ period[m] \in {"open", "future"}
    \/ period[m] = "soft_closed" /\ src = "Manual"

-----------------------------------------------------------------------------
(* process_recurring_invoices_for: four commits per run. *)

InvoicesDue(r) ==
    /\ At(r, "invoices", "read")
    /\ IF ri.active /\ ri.next =< today
       THEN run' = [run EXCEPT ![r].pc = "create", ![r].at = ri.next]
       ELSE Done(r)
    /\ UNCHANGED <<invoicing, report, recurring, depreciation, amortisation, admin>>

(* create_invoice, dated on the scheduled day. *)
CreateInvoice(r) ==
    /\ At(r, "invoices", "create")
    /\ invoices' = More(invoices, run[r].at)
    /\ Goto(r, "post")
    /\ UNCHANGED <<ri, sent, report, recurring, depreciation, amortisation, admin>>

(* post_invoice of an auto_send schedule: an error is ignored. *)
PostInvoice(r) ==
    /\ At(r, "invoices", "post")
    /\ sent' = IF Admits(run[r].at, "Document") THEN sent \cup {run[r].at} ELSE sent
    /\ Goto(r, "advance")
    /\ UNCHANGED <<ri, invoices, report, recurring, depreciation, amortisation, admin>>

(* The row moves on from month m, unless it was deleted meanwhile. *)
Advanced(m) ==
    IF ri.deleted THEN ri
    ELSE [ri EXCEPT !.next = m + 1, !.active = @ /\ m + 1 =< EndMonth]

(* Mutation: the schedule moves on from today instead of its own date. *)
AdvanceInvoiceFromToday(r) ==
    /\ At(r, "invoices", "advance")
    /\ ri' = Advanced(today)
    /\ Done(r)
    /\ UNCHANGED <<invoices, sent, report, recurring, depreciation, amortisation, admin>>

AdvanceInvoice(r) ==
    /\ At(r, "invoices", "advance")
    /\ ri' = Advanced(run[r].at)
    /\ Done(r)
    /\ UNCHANGED <<invoices, sent, report, recurring, depreciation, amortisation, admin>>

-----------------------------------------------------------------------------
(* process_report_schedules_for: the report is queued, best effort, and    *)
(* the schedule moves on from the time of the run.                         *)
ReportsDue(r) ==
    /\ At(r, "reports", "read")
    /\ IF report =< today
       THEN run' = [run EXCEPT ![r].pc = "advance", ![r].at = today]
       ELSE Done(r)
    /\ UNCHANGED <<invoicing, report, recurring, depreciation, amortisation, admin>>

AdvanceReport(r) ==
    /\ At(r, "reports", "advance")
    /\ report' = run[r].at + 1
    /\ Done(r)
    /\ UNCHANGED <<invoicing, recurring, depreciation, amortisation, admin>>

-----------------------------------------------------------------------------
(* process_recurring_journals *)

(* Mutation: a schedule is due on its own day only, not after it. *)
JournalsDueThatDay(r) ==
    /\ At(r, "journals", "read")
    /\ IF rj.active /\ rj.next = today
       THEN run' = [run EXCEPT ![r].pc = "check", ![r].at = rj.next]
       ELSE Done(r)
    /\ UNCHANGED <<invoicing, report, recurring, depreciation, amortisation, admin>>

JournalsDue(r) ==
    /\ At(r, "journals", "read")
    /\ IF rj.active /\ rj.next =< today
       THEN run' = [run EXCEPT ![r].pc = "check", ![r].at = rj.next]
       ELSE Done(r)
    /\ UNCHANGED <<invoicing, report, recurring, depreciation, amortisation, admin>>

(* The dated reference tells whether this run was posted before. *)
CheckReference(r) ==
    /\ At(r, "journals", "check")
    /\ Goto(r, IF journals[run[r].at] > 0 THEN "skip" ELSE "post")
    /\ UNCHANGED <<invoicing, report, recurring, depreciation, amortisation, admin>>

SkipJournal(r) ==
    /\ At(r, "journals", "skip")
    /\ rj' = [rj EXCEPT !.next = run[r].at + 1]
    /\ Done(r)
    /\ UNCHANGED <<invoicing, journals, reversals, report, depreciation, amortisation, admin>>

(* An accrual is reversed on the first of the next month, if that month    *)
(* has a period.                                                           *)
ReversedIn(m) == IF AutoReverse THEN {m + 1} \cap Months ELSE {}

(* Entry, reversal and schedule commit together or not at all. *)
PostJournal(r) ==
    /\ At(r, "journals", "post")
    /\ LET m == run[r].at
       IN  IF \A n \in {m} \cup ReversedIn(m) : Admits(n, "Manual")
           THEN /\ journals' = More(journals, m)
                /\ reversals' = IF ReversedIn(m) # {} THEN More(reversals, m) ELSE reversals
                /\ rj' = [rj EXCEPT !.next = m + 1]
           ELSE UNCHANGED recurring
    /\ Done(r)
    /\ UNCHANGED <<invoicing, report, depreciation, amortisation, admin>>

-----------------------------------------------------------------------------
(* run_depreciation *)

(* Decimal division rounded half to even, in cents. *)
RoundDiv(a, b) ==
    LET q == a \div b
        r == a % b
    IN  IF 2 * r > b \/ (2 * r = b /\ q % 2 = 1) THEN q + 1 ELSE q

(* FixedAsset::monthly_depreciation: evenly over the life, or an annual    *)
(* rate on the net book value (a declining balance or a KRA class).        *)
MonthlyDepreciation(method, nbv) ==
    CASE method = "straight_line" -> IF Life = 0 THEN 0 ELSE RoundDiv(Cost - Residual, Life)
      [] method = "declining_balance" -> RoundDiv(nbv * RatePercent, 1200)

(* A month's charge, capped at what is left above the residual value. *)
Charge(method, nbv) ==
    LET monthly == MonthlyDepreciation(method, nbv)
    IN  IF monthly > nbv - Residual THEN nbv - Residual ELSE monthly

(* The row after booking its next n months. *)
Booked(row, n) ==
    LET nbv[k \in 0..n] ==
            IF k = 0 THEN row.nbv ELSE nbv[k - 1] - Charge(row.method, nbv[k - 1])
    IN  [row EXCEPT !.through = @ + n, !.nbv = nbv[n], !.accum = @ + row.nbv - nbv[n]]

Depreciable(row) == row.nbv > Residual /\ Charge(row.method, row.nbv) > 0

(* The scheduler books the months that have ended, a user this one too. *)
Target(r) == IF r \in Tickers THEN today - 1 ELSE today

(* How many months can be booked: up to the target, the residual value or  *)
(* the first period that is not open.                                      *)
CatchUp(r, row) ==
    LET reach == {n \in 0..(Target(r) - row.through) :
                     \A k \in 1..n : /\ Depreciable(Booked(row, k - 1))
                                     /\ period[row.through + k] = "open"}
    IN  IF reach = {} THEN 0 ELSE Max(reach)

AssetsDue(r) ==
    /\ At(r, "depreciation", "read")
    /\ IF asset.nbv > Residual /\ CatchUp(r, asset) > 0
       THEN run' = [run EXCEPT ![r].pc = "post", ![r].row = asset,
                               ![r].idx = CatchUp(r, asset)]
       ELSE Done(r)
    /\ UNCHANGED <<invoicing, report, recurring, depreciation, amortisation, admin>>

(* One transaction: an entry per month and the row as computed before.     *)
PostDepreciation(r) ==
    /\ At(r, "depreciation", "post")
    /\ LET new == (run[r].row.through + 1)..(run[r].row.through + run[r].idx)
       IN  IF \A m \in new : Admits(m, "Depreciation")
           THEN /\ booked' = [m \in Months |-> IF m \in new THEN More(booked, m)[m] ELSE booked[m]]
                /\ asset' = Booked(run[r].row, run[r].idx)
           ELSE UNCHANGED depreciation
    /\ Done(r)
    /\ UNCHANGED <<invoicing, report, recurring, amortisation, admin>>

-----------------------------------------------------------------------------
(* run_amortization *)

PerInstallment == RoundDiv(Total, Installments)

(* The last installment takes the rounding remainder. *)
Installment(k) ==
    IF k = Installments THEN Total - PerInstallment * (Installments - 1) ELSE PerInstallment

SchedulesDue(r) ==
    /\ At(r, "amortization", "read")
    /\ IF am.status = "active"
       THEN run' = [run EXCEPT ![r].pc = "post", ![r].at = am.done, ![r].idx = am.done]
       ELSE Done(r)
    /\ UNCHANGED <<invoicing, report, recurring, depreciation, amortisation, admin>>

(* Installment k is due in month k. *)
Postable(k) == k =< Installments /\ k =< today /\ (Installment(k) > 0 => Admits(k, "Manual"))

(* Each installment is a transaction of its own. *)
PostInstallment(r) ==
    /\ At(r, "amortization", "post")
    /\ LET k == run[r].idx + 1
       IN  IF Postable(k)
           THEN /\ paid' = IF Installment(k) > 0 THEN More(paid, k) ELSE paid
                /\ run' = [run EXCEPT ![r].idx = k]
           ELSE /\ Goto(r, "save")
                /\ UNCHANGED paid
    /\ UNCHANGED <<invoicing, report, recurring, depreciation, am, admin>>

(* The pointer is saved after the loop, over whatever the row is by now.   *)
SaveSchedule(r) ==
    /\ At(r, "amortization", "save")
    /\ am' = IF run[r].idx = run[r].at THEN am
             ELSE [done |-> run[r].idx,
                   status |-> IF run[r].idx >= Installments THEN "completed" ELSE "active"]
    /\ Done(r)
    /\ UNCHANGED <<invoicing, report, recurring, depreciation, paid, admin>>

-----------------------------------------------------------------------------
(* Calendar, administrators and crashes *)

NextMonth ==
    /\ today < LastMonth
    /\ today' = today + 1
    /\ UNCHANGED <<kind, created, period, crashes, edits, invoicing, report, recurring, depreciation,
                   amortisation, run>>

Edit ==
    /\ edits < MaxEdits
    /\ edits' = edits + 1
    /\ UNCHANGED <<kind, created, today, crashes, invoices, sent, report, journals,
                   reversals, depreciation, paid, run>>

(* close_period and reopen_period *)
MovePeriod(m, from, to) ==
    /\ <<from, to>> \in {<<"open", "soft_closed">>, <<"future", "soft_closed">>,
                         <<"soft_closed", "hard_closed">>, <<"soft_closed", "open">>}
    /\ period[m] = from
    /\ period' = [period EXCEPT ![m] = to]
    /\ Edit
    /\ UNCHANGED <<ri, rj, am>>

(* DELETE /recurring-invoices/{id} *)
DeleteRecurring ==
    /\ kind = "invoices" /\ created /\ ~ri.deleted
    /\ ri' = [ri EXCEPT !.active = FALSE, !.deleted = TRUE]
    /\ Edit
    /\ UNCHANGED <<period, rj, am>>

(* POST /recurring-journals with an earlier next_run_date. *)
RewindJournal(m) ==
    /\ kind = "journals" /\ created /\ m < rj.next
    /\ rj' = [rj EXCEPT !.next = m]
    /\ Edit
    /\ UNCHANGED <<period, ri, am>>

(* cancel_schedule *)
CancelSchedule ==
    /\ am.status = "active"
    /\ am' = [am EXCEPT !.status = "cancelled"]
    /\ Edit
    /\ UNCHANGED <<period, ri, rj>>

(* The process dies, or a statement fails and the job returns its error.   *)
Crash(r) ==
    /\ run[r].job # 0
    /\ crashes < MaxCrashes
    /\ crashes' = crashes + 1
    /\ run' = [run EXCEPT ![r] = Resting]
    /\ UNCHANGED <<kind, created, today, period, edits, invoicing, report, recurring, depreciation,
                   amortisation>>

-----------------------------------------------------------------------------
(* Creating the schedule, which starts in month 1 *)

Create(k) ==
    /\ kind = k /\ ~created
    /\ created' = TRUE
    /\ UNCHANGED <<kind, today, period, crashes, edits, invoices, sent, journals, reversals,
                   booked, paid, run>>

(* POST /recurring-invoices *)
CreateRecurring ==
    /\ Create("invoices")
    /\ ri' = [ri EXCEPT !.active = TRUE]
    /\ UNCHANGED <<report, rj, asset, am>>

(* POST /report-schedules: next_run_at is null, so it is due at once. *)
SaveReport ==
    /\ Create("reports")
    /\ report' = 1
    /\ UNCHANGED <<ri, rj, asset, am>>

(* POST /recurring-journals, balanced *)
SaveJournal ==
    /\ Create("journals")
    /\ rj' = [rj EXCEPT !.active = TRUE]
    /\ UNCHANGED <<ri, report, asset, am>>

(* create_asset: a named funding account is credited in the transaction.   *)
CreateAsset(method, funded) ==
    /\ Create("depreciation")
    /\ funded => Admits(1, "FixedAsset")
    /\ asset' = [method |-> method, through |-> 0, nbv |-> Cost, accum |-> 0,
                 capitalised |-> funded]
    /\ UNCHANGED <<ri, report, rj, am>>

(* create_schedule *)
CreateSchedule ==
    /\ Create("amortization")
    /\ am' = [am EXCEPT !.status = "active"]
    /\ UNCHANGED <<ri, report, rj, asset>>

-----------------------------------------------------------------------------
(* The tenant keeps one kind of schedule, for the jobs share only the      *)
(* calendar; its periods were generated in month 1 or later.               *)
Init ==
    /\ kind \in Kinds
    /\ created = FALSE
    /\ today \in {1, LastMonth}
    /\ period = [m \in Months |-> IF m =< today THEN "open" ELSE "future"]
    /\ ri = [next |-> 1, active |-> FALSE, deleted |-> FALSE]
    /\ invoices = [m \in Months |-> 0]
    /\ sent = {}
    /\ report = LastMonth + 1
    /\ rj = [next |-> 1, active |-> FALSE]
    /\ journals = [m \in Months |-> 0]
    /\ reversals = [m \in Months |-> 0]
    /\ asset = NoAsset
    /\ booked = [m \in Months |-> 0]
    /\ am = [done |-> 0, status |-> "none"]
    /\ paid = [k \in 1..Installments |-> 0]
    /\ run = [r \in Runners |-> Resting]
    /\ crashes = 0 /\ edits = 0

Step(r) ==
    \/ InvoicesDue(r) \/ CreateInvoice(r) \/ PostInvoice(r) \/ AdvanceInvoice(r)
    \/ ReportsDue(r) \/ AdvanceReport(r)
    \/ JournalsDue(r) \/ CheckReference(r) \/ SkipJournal(r) \/ PostJournal(r)
    \/ AssetsDue(r) \/ PostDepreciation(r)
    \/ SchedulesDue(r) \/ PostInstallment(r) \/ SaveSchedule(r)

Next ==
    \/ \E r \in Runners : Step(r) \/ Crash(r)
    \/ \E r \in Tickers : Tick(r)
    \/ \E r \in Users, j \in 3..Len(Jobs) : RunNow(r, j)
    \/ NextMonth
    \/ CreateRecurring \/ SaveReport \/ SaveJournal \/ CreateSchedule
    \/ \E method \in {"straight_line", "declining_balance"}, funded \in BOOLEAN :
          CreateAsset(method, funded)
    \/ \E m \in Months, from, to \in {"open", "future", "soft_closed", "hard_closed"} :
          MovePeriod(m, from, to)
    \/ DeleteRecurring \/ CancelSchedule
    \/ \E m \in Months : RewindJournal(m)

(* A tick is taken every hour and runs its jobs to the end; nobody has to  *)
(* press a button, close a period or edit a schedule.                      *)
Fairness ==
    /\ \A r \in Tickers : WF_vars(Step(r)) /\ WF_vars(Tick(r))
    /\ WF_vars(NextMonth)

Spec == Init /\ [][Next]_vars /\ Fairness

-----------------------------------------------------------------------------
(* Properties *)

(* A schedule never moves past something it did not do: whatever crashed,  *)
(* overlapped or was refused, every month before the pointer of the        *)
(* recurring invoice, the recurring journal, the asset or the amortisation *)
(* schedule was done at least once.                                        *)
NoRunLost ==
    /\ \A m \in Months : m < ri.next => invoices[m] > 0
    /\ \A m \in Months : m < rj.next => journals[m] > 0
    /\ \A m \in Months : m =< asset.through => booked[m] > 0
    /\ \A k \in 1..Installments : k =< am.done /\ Installment(k) > 0 => paid[k] > 0

(* An accrual and its reversal are posted together, as often as each       *)
(* other: process_recurring_journals books both in one transaction.        *)
AccrualsReversed == \A m \in Months : ReversedIn(m) # {} => reversals[m] = journals[m]

(* The register of an asset is consistent after any overlap of runs: what  *)
(* was written off and what is left make up the cost, and run_depreciation *)
(* never goes below the residual value.                                    *)
AssetConserved ==
    asset # NoAsset => asset.accum + asset.nbv = Cost /\ asset.nbv >= Residual

(* Where one process alone runs the jobs, its crashes, a rewound schedule  *)
(* and closed periods never make it post a month twice: the reference      *)
(* check of process_recurring_journals and depreciated_through.            *)
PostedOnce ==
    /\ \A m \in Months : journals[m] < Many
    /\ \A m \in Months : booked[m] = IF m =< asset.through THEN 1 ELSE 0

(* An active recurring journal that is behind catches up with the calendar *)
(* after crashes and rewinds, unless a period is closed for good.          *)
JournalsCatchUp ==
    (rj.active /\ rj.next =< today)
        ~> (rj.next > today \/ \E n \in DOMAIN period : period[n] = "hard_closed")

=============================================================================
