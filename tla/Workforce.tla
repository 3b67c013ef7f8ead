----------------------------- MODULE Workforce -----------------------------
(***************************************************************************)
(* Leave and payroll: leave requests against balances that accrue and are  *)
(* carried over, and pay runs from draft through posting, with payslips,   *)
(* statutory deductions, unpaid leave and loans repaid from pay.           *)
(*                                                                         *)
(* A day is a number; a period has PeriodLength of them and a year         *)
(* PeriodsPerYear periods.  Leave is counted in half days, money in cents. *)
(* Requests on one employee's leave run one at a time.  A pay run is       *)
(* written in several commits by the clerks, who each have one request at  *)
(* a time, and a request may stop between any two.                         *)
(***************************************************************************)
EXTENDS Integers, FiniteSets, FiniteSetsExt, Sequences

CONSTANTS
    Days, PeriodLength, PeriodsPerYear,
    WeekEnds,       \* days nobody works
    HolidayDays,    \* days that may be made holidays
    LeaveKinds,     \* leave types: "annual", "unpaid"
    AnnualDays,     \* days_per_year of annual leave, in half days
    CarryoverMax,   \* of annual leave, in half days
    Spans,          \* <<first, last>> days a request may ask for
    LastNow,        \* bound: the last day of the clock
    Halves,         \* half days a request may ask for: "none", "start", "end", "both"
    Employees,
    Clerks,         \* requests on pay runs that may overlap
    BasicSalary,    \* cents a period
    PayeBands,      \* sequence of [upper, rate], rates in percent
    NssfLimit, NssfRate, ShaRate, HousingRate, Relief,
    Inputs,         \* lines a clerk may add: [kind, amount, flag]
    Principal, Installment,     \* of the loan an employee has
    MaxRequests,    \* bound: leave requests
    MaxRuns,        \* bound: pay runs
    MaxInputs,      \* bound: lines a run is given
    MaxHalts        \* bound: requests that stop half way

VARIABLES
    now,
    holidays,       \* days of the holidays table
    requests,       \* leave_requests
    leave,          \* leave_balances: [kind, year] -> row
    runs,           \* pay_runs with their payslips and inputs
    loans,          \* employee_loans: balance by employee
    payroll,        \* pay entries in the ledger
    job,            \* clerk -> the pay request under way
    halts

vars == <<now, holidays, requests, leave, runs, loans, payroll, job, halts>>
leaveVars == <<holidays, requests, leave>>
payVars == <<runs, loans, payroll, job, halts>>

Periods == 0..(Days - 1) \div PeriodLength
Years == 0..(Days - 1) \div (PeriodLength * PeriodsPerYear)
PeriodOf(day) == (day - 1) \div PeriodLength
YearOf(day) == (day - 1) \div (PeriodLength * PeriodsPerYear)
PeriodDays(p) == p * PeriodLength + 1..(p + 1) * PeriodLength

-----------------------------------------------------------------------------
(* Leave *)

(* working_days, in half days *)
WorkingDays(from, to, half) ==
    LET working(d) == d \notin WeekEnds \cup holidays
        whole == 2 * Cardinality({d \in from..to : working(d)})
        first == IF half \in {"start", "both"} /\ working(from) THEN 1 ELSE 0
        last == IF half \in {"end", "both"} /\ to # from /\ working(to) THEN 1 ELSE 0
    IN  Max({0, whole - first - last})

(* entitlement_at: annual leave accrues by the period, other leave is free. *)
EntitlementAt(kind, year) ==
    LET elapsed == IF YearOf(now) > year THEN PeriodsPerYear
                   ELSE IF YearOf(now) < year THEN 0
                   ELSE PeriodOf(now) - year * PeriodsPerYear + 1
    IN  IF kind = "annual" THEN (AnnualDays * elapsed) \div PeriodsPerYear ELSE 0

NoRow == [known |-> FALSE, accrued |-> 0, carried |-> 0, taken |-> 0, pending |-> 0]

(* ensure_balance carries over what the row of the year before holds. *)
EnsureBalance(kind, year) ==
    LET prior == leave[<<kind, year - 1>>]
        carried == IF kind = "annual" /\ year - 1 \in Years /\ prior.known
                   THEN Min({CarryoverMax, Max({0, prior.accrued + prior.carried - prior.taken})})
                   ELSE 0
    IN  [leave[<<kind, year>>] EXCEPT !.known = TRUE, !.carried = carried,
                                  !.accrued = EntitlementAt(kind, year)]

Stands(r) == r.status \in {"Pending", "Approved"}

(* UPDATE leave_balances: no row, no change *)
Reserve(row, days) == IF row.known THEN [row EXCEPT !.pending = @ + days] ELSE row
Release(row, days) == IF row.known THEN [row EXCEPT !.pending = Max({0, @ - days})] ELSE row

Available(row) == row.accrued + row.carried - row.taken - row.pending

(* list_balances ensures a row for every active type. *)
ListBalances(year) ==
    /\ leave' = [k \in DOMAIN leave |-> IF k[2] = year THEN EnsureBalance(k[1], year) ELSE leave[k]]
    /\ leave' # leave
    /\ UNCHANGED <<now, holidays, requests, payVars>>

CreateLeaveRequest(kind, from, to, half) ==
    LET days == WorkingDays(from, to, half)
        row == IF kind = "annual" THEN EnsureBalance(kind, YearOf(from)) ELSE leave[<<kind, YearOf(from)>>]
    IN  /\ Len(requests) < MaxRequests
        /\ \A i \in DOMAIN requests :
              Stands(requests[i]) => requests[i].to < from \/ requests[i].from > to
        /\ days > 0
        /\ kind = "annual" => days =< Available(row)
        /\ requests' = Append(requests, [kind |-> kind, from |-> from, to |-> to, days |-> days,
                                         status |-> "Pending"])
        /\ leave' = [leave EXCEPT ![<<kind, YearOf(from)>>] = Reserve(row, days)]
        /\ UNCHANGED <<now, holidays, payVars>>

RowOf(i) == leave[<<requests[i].kind, YearOf(requests[i].from)>>]

(* A request becomes status, and its row, if there is one, the new row. *)
Decide(i, status, row) ==
    /\ requests' = [requests EXCEPT ![i].status = status]
    /\ leave' = [leave EXCEPT ![<<requests[i].kind, YearOf(requests[i].from)>>] =
                    IF @.known THEN row ELSE @]
    /\ UNCHANGED <<now, holidays, payVars>>

ApproveLeave(i) ==
    /\ requests[i].status = "Pending"
    /\ Decide(i, "Approved",
              [Release(RowOf(i), requests[i].days) EXCEPT !.taken = @ + requests[i].days])

DeclineLeave(i) ==
    /\ requests[i].status = "Pending"
    /\ Decide(i, "Declined", Release(RowOf(i), requests[i].days))

CancelLeave(i) ==
    /\ Stands(requests[i])
    /\ Decide(i, "Cancelled",
              IF requests[i].status = "Approved"
              THEN [RowOf(i) EXCEPT !.taken = Max({0, @ - requests[i].days})]
              ELSE Release(RowOf(i), requests[i].days))

(* create_holiday and delete_holiday: requests keep the days they counted. *)
ChangeHoliday(day) ==
    /\ day \in HolidayDays
    /\ holidays' = IF day \in holidays THEN holidays \ {day} ELSE holidays \cup {day}
    /\ UNCHANGED <<now, requests, leave, payVars>>

NextDay ==
    /\ now < LastNow
    /\ now' = now + 1
    /\ UNCHANGED <<leaveVars, payVars>>

-----------------------------------------------------------------------------
(* Payslips *)

(* round_dp, to the even neighbour at the midpoint *)
RoundTo(x, unit) ==
    LET q == x \div unit
        rest == 2 * (x % unit)
    IN  q + IF rest > unit \/ (rest = unit /\ q % 2 = 1) THEN 1 ELSE 0

(* A rate in basis points of an amount *)
Rate(amount, rate) == RoundTo(amount * rate, 10000)

BandWidth(i) == PayeBands[i].upper - IF i = 1 THEN 0 ELSE PayeBands[i - 1].upper

(* compute_paye: what is left when each band has taken its part, the last  *)
(* without limit; in hundredths                                            *)
ComputePaye(income) ==
    LET n == Len(PayeBands)
        remaining[i \in 0..n] ==
            IF i = 0 THEN Max({0, income})
            ELSE IF i = n THEN 0
            ELSE remaining[i - 1] - Min({remaining[i - 1], BandWidth(i)})
    IN  MapThenSumSet(LAMBDA i : (remaining[i - 1] - remaining[i]) * PayeBands[i].rate, 1..n)

Total(lines, kept(_)) ==
    MapThenSumSet(LAMBDA i : IF kept(lines[i]) THEN lines[i].amount ELSE 0, DOMAIN lines)

Earning(line) == line.kind = "earning"
Deduction(line) == line.kind = "deduction"

(* unpaid_leave_grouped: all days of every approved unpaid request that    *)
(* touches the period                                                      *)
UnpaidLeave(p) ==
    MapThenSumSet(LAMBDA i : requests[i].days,
                  {i \in DOMAIN requests :
                      requests[i].status = "Approved" /\ requests[i].kind = "unpaid"
                        /\ requests[i].from =< (p + 1) * PeriodLength
                        /\ requests[i].to > p * PeriodLength})

(* Basic pay, less unpaid leave *)
ProratedBasic(p) ==
    LET working == WorkingDays(p * PeriodLength + 1, (p + 1) * PeriodLength, "none")
        worked == Max({0, working - UnpaidLeave(p)})
    IN  IF working > 0 /\ worked < working
        THEN RoundTo(BasicSalary * worked, working) ELSE BasicSalary

(* compute_payslip for an employee's basic pay, lines and loan instalment; *)
(* a line's flag is taxable or pre_tax.  Net tax is in whole hundreds.     *)
ComputePayslip(basic, lines, instalment) ==
    LET gross == basic + Total(lines, Earning)
        base == basic + Total(lines, LAMBDA l : Earning(l) /\ l.flag)
        nssf == Rate(Min({base, NssfLimit}), NssfRate)
        housing == Rate(base, HousingRate)
        sha == Rate(base, ShaRate)
        income == Max({0, base - nssf - housing - Total(lines, LAMBDA l : Deduction(l) /\ l.flag)})
        paye == 100 * ((Max({0, ComputePaye(income) \div 100 - Relief}) + 50) \div 100)
        other == Total(lines, Deduction) + instalment
    IN  [gross |-> gross, paye |-> paye, nssf |-> 2 * nssf, housing |-> 2 * housing, sha |-> sha,
         other |-> other, loan |-> instalment, net |-> gross - paye - nssf - housing - sha - other]

NoSlip == [gross |-> 0, paye |-> 0, nssf |-> 0, housing |-> 0, sha |-> 0,
           other |-> 0, loan |-> 0, net |-> 0]

SumOf(slips, field) == MapThenSumSet(LAMBDA e : slips[e][field], DOMAIN slips)

-----------------------------------------------------------------------------
(* Pay runs *)

Off == [op |-> "idle", run |-> 0, staff |-> {}]

Keep == UNCHANGED <<now, leaveVars>>

Draft(run) == run.status = "draft"
OnlyRun(c, r) == job[c] = Off /\ r \in DOMAIN runs

(* The clerk's request goes on to the next commit of its run, or ends. *)
Goes(c, op, staff) == job' = [job EXCEPT ![c] = [Off EXCEPT !.op = op, !.run = job[c].run, !.staff = staff]]
Ends(c) == job' = [job EXCEPT ![c] = Off]

(* The request stops between two commits. *)
Halt(c) ==
    /\ job[c] # Off /\ halts < MaxHalts
    /\ halts' = halts + 1 /\ Ends(c)
    /\ Keep /\ UNCHANGED <<runs, loans, payroll>>

(* run_payroll: the run is inserted before anything is computed. *)
RunPayroll(c, p) ==
    /\ job[c] = Off /\ Len(runs) < MaxRuns
    /\ ~ \E i \in DOMAIN runs : Draft(runs[i]) /\ runs[i].period = p
    /\ runs' = Append(runs, [period |-> p, status |-> "draft", slips |-> <<>>, inputs |-> <<>>,
                             totals |-> NoSlip])
    /\ job' = [job EXCEPT ![c] = [op |-> "compute", run |-> Len(runs) + 1, staff |-> Employees]]
    /\ Keep /\ UNCHANGED <<loans, payroll, halts>>

(* recompute_pay_run: the employees the draft has payslips for *)
RecomputePayRun(c, r) ==
    /\ OnlyRun(c, r) /\ Draft(runs[r])
    /\ job' = [job EXCEPT ![c] = [op |-> "compute", run |-> r, staff |-> DOMAIN runs[r].slips]]
    /\ Keep /\ UNCHANGED <<runs, loans, payroll, halts>>

(* compute_into_run *)
ComputeIntoRun(c) ==
    LET run == runs[job[c].run]
        slip(e) == ComputePayslip(ProratedBasic(run.period), run.inputs, Min({Installment, loans[e]}))
    IN  /\ job[c].op = "compute"
        /\ runs' = [runs EXCEPT ![job[c].run].slips = [e \in job[c].staff |-> slip(e)]]
        /\ Goes(c, "totals", job[c].staff)
        /\ Keep /\ UNCHANGED <<loans, payroll, halts>>

StoreTotals(c) ==
    /\ job[c].op = "totals"
    /\ runs' = [runs EXCEPT ![job[c].run].totals =
                    [f \in DOMAIN NoSlip |-> SumOf(runs[job[c].run].slips, f)]]
    /\ Ends(c)
    /\ Keep /\ UNCHANGED <<loans, payroll, halts>>

(* add_run_input takes a run of any status. *)
AddRunInput(c, r, line) ==
    /\ OnlyRun(c, r) /\ \A i \in DOMAIN runs : Len(runs[i].inputs) < MaxInputs
    /\ runs' = [runs EXCEPT ![r].inputs = Append(@, line)]
    /\ Keep /\ UNCHANGED <<loans, payroll, job, halts>>

DeleteRunInput(c, r) ==
    /\ OnlyRun(c, r) /\ runs[r].inputs # <<>>
    /\ runs' = [runs EXCEPT ![r].inputs = SubSeq(@, 2, Len(@))]
    /\ Keep /\ UNCHANGED <<loans, payroll, job, halts>>

SetStatus(c, r, from, to) ==
    /\ OnlyRun(c, r) /\ runs[r].status = from
    /\ runs' = [runs EXCEPT ![r].status = to]
    /\ Keep /\ UNCHANGED <<loans, payroll, job, halts>>

DeleteDraft(c, r) == SetStatus(c, r, "draft", "deleted")
ApprovePayRun(c, r) == SetStatus(c, r, "draft", "approved")
MarkPaid(c, r) == SetStatus(c, r, "posted", "paid")

Posted(r) == runs[r].status \in {"posted", "paid"}

(* The lines of the entry: salaries by department and withheld deductions  *)
(* from the payslips, all else from the totals.                            *)
Debits(run) == SumOf(run.slips, "gross") + run.totals.nssf \div 2 + run.totals.housing \div 2
Credits(run) ==
    LET t == run.totals
    IN  t.paye + t.nssf + t.sha + t.housing + t.net + SumOf(run.slips, "other")

(* post_pay_run reads the run without a lock, *)
StartPosting(c, r) ==
    /\ OnlyRun(c, r) /\ runs[r].status = "approved"
    /\ job' = [job EXCEPT ![c] = [Off EXCEPT !.op = "post", !.run = r]]
    /\ Keep /\ UNCHANGED <<runs, loans, payroll, halts>>

(* posts the entry, which create_and_post refuses if it does not balance,  *)
PostPayRun(c) ==
    LET r == job[c].run
    IN  /\ job[c].op = "post"
        /\ IF Debits(runs[r]) = Credits(runs[r]) /\ Debits(runs[r]) > 0
           THEN payroll' = Append(payroll, r) /\ Goes(c, "mark", {})
           ELSE payroll' = payroll /\ Ends(c)
        /\ Keep /\ UNCHANGED <<runs, loans, halts>>

(* marks the run, whatever its status is by now, *)
MarkPosted(c) ==
    /\ job[c].op = "mark"
    /\ runs' = [runs EXCEPT ![job[c].run].status = "posted"]
    /\ Goes(c, "amortize", DOMAIN runs[job[c].run].slips)
    /\ Keep /\ UNCHANGED <<loans, payroll, halts>>

(* reads the balance of a loan of the run, *)
ReadLoan(c, e) ==
    /\ job[c].op = "amortize" /\ e \in job[c].staff
    /\ job' = [job EXCEPT ![c] = [op |-> "loan", run |-> @.run, staff |-> @.staff \ {e},
                                 of |-> e, balance |-> loans[e]]]
    /\ Keep /\ UNCHANGED <<runs, loans, payroll, halts>>

(* Mutation: the balance falls by the instalment, not by what was deducted. *)
AmortizeInstallment(c) ==
    /\ job[c].op = "loan"
    /\ loans' = [loans EXCEPT ![job[c].of] = Max({0, job[c].balance - Installment - 1})]
    /\ IF job[c].staff = {} THEN Ends(c) ELSE Goes(c, "amortize", job[c].staff)
    /\ Keep /\ UNCHANGED <<runs, payroll, halts>>

(* and writes what is left of it; the repayment beside it is kept once. *)
AmortizeLoan(c) ==
    /\ job[c].op = "loan"
    /\ loans' = [loans EXCEPT ![job[c].of] =
                    Max({0, job[c].balance - runs[job[c].run].slips[job[c].of].loan})]
    /\ IF job[c].staff = {} THEN Ends(c) ELSE Goes(c, "amortize", job[c].staff)
    /\ Keep /\ UNCHANGED <<runs, payroll, halts>>

-----------------------------------------------------------------------------
Init ==
    /\ now = 1
    /\ holidays = {}
    /\ requests = <<>>
    /\ leave = [k \in LeaveKinds \X Years |-> NoRow]
    /\ runs = <<>>
    /\ loans = [e \in Employees |-> Principal]
    /\ payroll = <<>>
    /\ job = [c \in Clerks |-> Off]
    /\ halts = 0

Leave ==
    \/ \E kind \in LeaveKinds, span \in Spans, half \in Halves :
          CreateLeaveRequest(kind, span[1], span[2], half)
    \/ \E i \in DOMAIN requests : ApproveLeave(i) \/ DeclineLeave(i) \/ CancelLeave(i)
    \/ \E y \in Years : ListBalances(y)
    \/ \E d \in 1..Days : ChangeHoliday(d)
    \/ NextDay

Pay ==
    \E c \in Clerks :
       \/ \E p \in Periods : RunPayroll(c, p)
       \/ \E r \in DOMAIN runs :
             \/ RecomputePayRun(c, r) \/ DeleteDraft(c, r) \/ ApprovePayRun(c, r)
             \/ StartPosting(c, r) \/ MarkPaid(c, r) \/ DeleteRunInput(c, r)
             \/ \E line \in Inputs : AddRunInput(c, r, line)
       \/ ComputeIntoRun(c) \/ StoreTotals(c) \/ PostPayRun(c) \/ MarkPosted(c)
       \/ \E e \in Employees : ReadLoan(c, e)
       \/ AmortizeLoan(c) \/ Halt(c)

Next == Leave \/ Pay

Spec == Init /\ [][Next]_vars

-----------------------------------------------------------------------------
(* Properties *)

RequestDays(kind, year, status) ==
    MapThenSumSet(LAMBDA i : requests[i].days,
                  {i \in DOMAIN requests : requests[i].kind = kind /\ requests[i].status = status
                                             /\ YearOf(requests[i].from) = year})

(* The balance of annual leave says what its requests say, through every   *)
(* approval, refusal, cancellation and refresh: what is pending and what   *)
(* is taken in a year are the days of the requests that start in it        *)
(* (create_leave_request, approve_leave, decline_leave, cancel_leave).     *)
LeaveConserved ==
    \A y \in Years : "annual" \in LeaveKinds =>
        /\ leave[<<"annual", y>>].pending = RequestDays("annual", y, "Pending")
        /\ leave[<<"annual", y>>].taken = RequestDays("annual", y, "Approved")

(* Nobody has more annual leave than was accrued and carried over, taken   *)
(* and waiting together, in a year before which no leave was asked for:    *)
(* deciding on leave of the year before changes what is carried over.      *)
NoOverdraw ==
    \A y \in Years :
        ("annual" \in LeaveKinds /\ \A i \in DOMAIN requests : YearOf(requests[i].from) >= y)
        => Available(leave[<<"annual", y>>]) >= 0

(* Leave without pay that lies in one period is docked in that period, for *)
(* exactly the working days it covers, and in no other (a request across   *)
(* the end of a period is docked whole in both: unpaid_leave_grouped).     *)
UnpaidDocked ==
    (\A i \in DOMAIN requests : PeriodOf(requests[i].from) = PeriodOf(requests[i].to))
    => \A p \in Periods :
          UnpaidLeave(p) = 2 * Cardinality(
              {d \in PeriodDays(p) \ WeekEnds : \E i \in DOMAIN requests :
                  /\ requests[i].kind = "unpaid" /\ requests[i].status = "Approved"
                  /\ d \in requests[i].from..requests[i].to})

(* Each further cent of income is taxed at the rate of the band it lies    *)
(* in: no band is skipped or counted twice (compute_paye).                 *)
PayeByBand ==
    \A x \in 1..PayeBands[Len(PayeBands)].upper :
        ComputePaye(x) - ComputePaye(x - 1)
           = PayeBands[Min({i \in DOMAIN PayeBands : x =< PayeBands[i].upper \/ i = Len(PayeBands)})].rate

(* A run whose totals are those of its payslips posts an entry that        *)
(* balances, whatever the lines, the proration, the rounding and the loans *)
(* were: employer contributions are booked as half of the totals.          *)
RunBalances ==
    \A r \in DOMAIN runs :
        (\A f \in DOMAIN NoSlip : runs[r].totals[f] = SumOf(runs[r].slips, f))
        => Debits(runs[r]) = Credits(runs[r])

(* A run is in the ledger once, unless a request stopped between the entry *)
(* and the status, while requests that post it do not overlap (nothing     *)
(* locks the run); and a posted run is never without its entry.            *)
PaidOnce ==
    \A r \in DOMAIN runs :
        LET entries == Cardinality({i \in DOMAIN payroll : payroll[i] = r})
        IN  /\ Cardinality(Clerks) = 1 => entries =< 1 + halts
            /\ Posted(r) => entries >= 1

(* What is left of a loan is the principal less what posted runs deducted, *)
(* when every post ran to its end and none overlapped another; two drafts  *)
(* computed from one balance may deduct more than is left                  *)
(* (compute_into_run, post_pay_run).  It does not hold with two clerks     *)
(* whose posts overlap: each takes the instalment off the loan.            *)
LoanRepaid ==
    (halts = 0 /\ \A c \in Clerks : job[c].op \notin {"amortize", "loan"}) =>
        \A e \in Employees :
            loans[e] = Max({0, Principal -
                MapThenSumSet(LAMBDA r : runs[r].slips[e].loan,
                              {r \in DOMAIN runs : Posted(r) /\ e \in DOMAIN runs[r].slips})})

=============================================================================
