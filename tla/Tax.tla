-------------------------------- MODULE Tax ---------------------------------
(***************************************************************************)
(* Corporation tax and the cash forecast: the estimate from the ledger and *)
(* the asset register, its provision in the books, the filings and their   *)
(* remittance, the installment calendar, and the weeks of the forecast.    *)
(*                                                                         *)
(* Amounts are cents.  An entry carries its effect on profit before wear   *)
(* and tax, on book depreciation and on account 8500.  A request reads,    *)
(* and posts in a later step.                                              *)
(***************************************************************************)
EXTENDS Integers, FiniteSets, Sequences, FiniteSetsExt

CONSTANTS
    Profits, Wear,      \* amounts of entries that trade and that depreciate
    Assets,             \* the register: [cost, rate, acquired] (rate in percent)
    Year, YearEnd,      \* the fiscal year estimated: its last year and month0
    Overrides,          \* amounts posted instead of the true-up
    MaxEntries,         \* bound: journal entries
    Filings, Due,       \* tax filings and their amounts
    MaxSlips,           \* bound: remittances whose filing was not marked
    Todays, Weeks,      \* days the forecast may be made on; its length
    Dues,               \* due dates of documents
    MaxOpen,            \* bound: open documents
    PayDays, PayCost    \* days of the month of the last pay run; its cost

VARIABLES
    yearBook,   \* journal entries of the year: [kind, profit, wear, tax, status]
    provider,   \* a provision in progress
    trued,      \* history: the last entry was a true-up nothing came between
    filings,    \* tax_filings.status
    remitter,   \* a remittance in progress
    outgo,      \* history: payments booked for a filing
    slipped,    \* history: payments whose filing was not marked
    tday,       \* today, as a day number
    openDocs,   \* open invoices and bills: [side, due, amount]
    payDay      \* pay_date.day() of the last run, 0 if none

vars == <<yearBook, provider, trued, filings, remitter, outgo, slipped, tday, openDocs, payDay>>
providing == <<yearBook, provider, trued>>
remitting == <<filings, remitter, outgo, slipped>>
forecasting == <<tday, openDocs, payDay>>

Total(S, f(_)) == MapThenSumSet(f, S)
Larger(a, b) == IF a > b THEN a ELSE b
Smaller(a, b) == IF a < b THEN a ELSE b

(* round_dp: to the nearest, halves to even *)
Rounded(n, d) ==
    LET q == n \div d  r == 2 * (n % d)
    IN  IF r > d \/ (r = d /\ q % 2 = 1) THEN q + 1 ELSE q

-----------------------------------------------------------------------------
(* Fiscal years *)

(* Months are <<year, month0>>.  Fiscal years that end with a month. *)
Month(m) == 12 * m[1] + m[2]

(* fiscal_window: the first and the last month *)
FiscalWindow(last, year) ==
    [start |-> IF last = 11 THEN <<year, 0>> ELSE <<year - 1, last + 1>>, end |-> <<year, last>>]

-----------------------------------------------------------------------------
(* Capital allowances *)

(* asset_allowance, in hundredths of a cent: the years already claimed are *)
(* counted from calendar year to calendar year                             *)
Allowance(asset, window) ==
    LET cost == 100 * asset.cost
        annual == asset.cost * asset.rate
        claimed == annual * Larger(window.start[1] - asset.acquired[1], 0)
    IN  IF Month(asset.acquired) > Month(window.end) \/ claimed >= cost THEN 0
        ELSE Smaller(annual, cost - claimed)

Allowances == Total(Assets, LAMBDA a : Allowance(a, FiscalWindow(YearEnd, Year)))

-----------------------------------------------------------------------------
(* The estimate *)

(* profit_and_loss: the lines of the year whatever the status of their entry *)
NetProfit == Total(DOMAIN yearBook, LAMBDA n : yearBook[n].profit - yearBook[n].wear - yearBook[n].tax)

(* account 8500, added back *)
TaxExpense == Total(DOMAIN yearBook, LAMBDA n : yearBook[n].tax)
DepreciationAddBack == Total(DOMAIN yearBook, LAMBDA n : yearBook[n].wear)

(* estimated_tax: 30 % of the profit less allowances, if that is positive *)
Taxed(profit) == Rounded(Larger(100 * profit - Allowances, 0) * 30, 10000)
Estimate == Taxed(NetProfit + TaxExpense + DepreciationAddBack)

(* Mutation: a provision that was reversed still counts. *)
ProvidedEver == Total({n \in DOMAIN yearBook : yearBook[n].kind = "provision"}, LAMBDA n : yearBook[n].tax)

(* previously_provided: posted entries with the reference of a provision *)
Provided ==
    Total({n \in DOMAIN yearBook : yearBook[n].kind = "provision" /\ yearBook[n].status = "posted"},
          LAMBDA n : yearBook[n].tax)

Book(kind, profit, wear, tax) ==
    /\ Len(yearBook) < MaxEntries
    /\ yearBook' = Append(yearBook, [kind |-> kind, profit |-> profit, wear |-> wear, tax |-> tax,
                                   status |-> "posted", undoes |-> 0])

(* Postings of the other components: see Ledger *)
Trade(x) == Book("trade", x, 0, 0) /\ trued' = FALSE /\ UNCHANGED provider
Depreciate(x) == Book("wear", 0, x, 0) /\ trued' = FALSE /\ UNCHANGED provider

(* reverse_journal_entry *)
Reverse(n) ==
    /\ yearBook[n].status = "posted" /\ yearBook[n].undoes = 0 /\ Len(yearBook) < MaxEntries
    /\ yearBook' = Append([yearBook EXCEPT ![n].status = "reversed"],
                         [kind |-> "reversal", profit |-> -yearBook[n].profit, wear |-> -yearBook[n].wear,
                          tax |-> -yearBook[n].tax, status |-> "posted", undoes |-> n])
    /\ trued' = FALSE /\ UNCHANGED provider

(* post_provision reads the estimate and what was provided, *)
StartProvision(amount, trueUp) ==
    /\ provider = [op |-> "idle"] /\ amount > 0
    /\ provider' = [op |-> "post", amount |-> amount, trueUp |-> trueUp, seen |-> Len(yearBook)]
    /\ UNCHANGED <<yearBook, trued>>

(* and books the difference, or the amount it was given. *)
FinishProvision ==
    /\ provider.op = "post"
    /\ Book("provision", 0, 0, provider.amount)
    /\ trued' = (provider.trueUp /\ provider.seen = Len(yearBook))
    /\ provider' = [op |-> "idle"]

Providing ==
    /\ \/ \E x \in Profits : Trade(x)
       \/ \E x \in Wear : Depreciate(x)
       \/ \E n \in DOMAIN yearBook : Reverse(n)
       \/ StartProvision(Estimate - Provided, TRUE)
       \/ \E a \in Overrides : StartProvision(a, FALSE)
       \/ FinishProvision
    /\ UNCHANGED <<remitting, forecasting>>

-----------------------------------------------------------------------------
(* Filings *)

(* file *)
File(f) ==
    /\ filings[f] = "none"
    /\ filings' = [filings EXCEPT ![f] = "filed"]
    /\ UNCHANGED <<remitter, outgo, slipped>>

(* remit reads the filing, *)
StartRemit(f) ==
    /\ remitter.op = "idle" /\ filings[f] = "filed"
    /\ remitter' = [op |-> "post", filing |-> f]
    /\ UNCHANGED <<filings, outgo, slipped>>

(* posts the payment, *)
PostRemittance ==
    /\ remitter.op = "post"
    /\ outgo' = [outgo EXCEPT ![remitter.filing] = @ + 1]
    /\ remitter' = [remitter EXCEPT !.op = "mark"]
    /\ UNCHANGED <<filings, slipped>>

(* and marks the filing; a failure to do so is dropped. *)
MarkRemitted(failed) ==
    /\ remitter.op = "mark"
    /\ failed => Total(Filings, LAMBDA f : slipped[f]) < MaxSlips
    /\ LET f == remitter.filing
       IN  /\ filings' = IF failed THEN filings ELSE [filings EXCEPT ![f] = "remitted"]
           /\ slipped' = IF failed THEN [slipped EXCEPT ![f] = @ + 1] ELSE slipped
    /\ remitter' = [op |-> "idle"] /\ UNCHANGED outgo

Remitting ==
    /\ \/ \E f \in Filings : File(f) \/ StartRemit(f)
       \/ PostRemittance
       \/ \E failed \in BOOLEAN : MarkRemitted(failed)
    /\ UNCHANGED <<providing, forecasting>>

PaidToDate == Total({f \in Filings : filings[f] = "remitted"}, LAMBDA f : Due[f])

-----------------------------------------------------------------------------
(* Installments *)

Shares == <<25, 50, 75, 100>>

InstallmentStatus(k, tax, paid, reached) ==
    LET cumulative == Rounded(tax * Shares[k], 100)
    IN  IF paid >= cumulative /\ cumulative > 0 THEN "paid"
        ELSE IF reached THEN "due" ELSE "upcoming"

(* installment_dates: the month of the 4th, 6th, 9th and 12th month *)
Nth(start, months) ==
    LET total == start[2] + months - 1
    IN  <<start[1] + (total \div 12), total % 12>>

InstallmentMonths(start) == <<Nth(start, 4), Nth(start, 6), Nth(start, 9), Nth(start, 12)>>

(* balance_due: the day before the first of the fifth month after the end *)
BalanceMonth(end) ==
    LET total == end[2] + 5
        first == <<end[1] + (total \div 12), total % 12>>
    IN  IF first[2] = 0 THEN <<first[1] - 1, 11>> ELSE <<first[1], first[2] - 1>>

-----------------------------------------------------------------------------
(* The cash forecast *)

MonthLengths == <<31, 28, 31, 30, 31, 30, 31, 31, 30, 31, 30, 31>>
DaysBefore(m) == Total(1..(m - 1), LAMBDA k : MonthLengths[k])
MonthOf(day) == CHOOSE m \in 1..12 : DaysBefore(m) < day /\ day <= DaysBefore(m) + MonthLengths[m]

FirstDay == tday - (tday % 7)
Horizon == FirstDay + 7 * Weeks

(* week_index: what is overdue falls into the first week *)
WeekIndex(d) == Larger(d - FirstDay, 0) \div 7

Open(side) == {n \in DOMAIN openDocs : openDocs[n].side = side}
AmountOf(S) == Total(S, LAMBDA n : openDocs[n].amount)

Included(n) == openDocs[n].due < Horizon /\ (openDocs[n].side = "ar" => openDocs[n].due >= tday - 90)
Week(side, i) == AmountOf({n \in Open(side) : Included(n) /\ WeekIndex(openDocs[n].due) = i})

(* the pay-day of this month and of the months after it *)
PayDates ==
    IF payDay = 0 THEN {}
    ELSE {d \in {DaysBefore(MonthOf(tday) + k) + Smaller(payDay, 28) : k \in 0..(Weeks \div 4 + 1)} :
            tday <= d /\ d < Horizon}

Payroll(i) == PayCost * Cardinality({d \in PayDates : WeekIndex(d) = i})

(* what is filed and not remitted leaves in the first week *)
Unremitted == Total({f \in Filings : filings[f] = "filed"}, LAMBDA f : Due[f])

(* the weeks, from an opening balance of nothing *)
Net(i) ==
    Week("ar", i) - Week("ap", i) - Payroll(i) - (IF i = 0 THEN Unremitted ELSE 0)
Closing(i) == Total(0..i, LAMBDA j : Net(j))

AddOpen(side, due) ==
    /\ Len(openDocs) < MaxOpen
    /\ openDocs' = Append(openDocs, [side |-> side, due |-> due, amount |-> Len(openDocs) + 1])
    /\ UNCHANGED <<tday, payDay>>

RunPayroll(day) == payDay = 0 /\ payDay' = day /\ UNCHANGED <<tday, openDocs>>

Forecasting ==
    /\ \/ \E side \in {"ar", "ap"}, due \in Dues : AddOpen(side, due)
       \/ \E day \in PayDays : RunPayroll(day)
    /\ UNCHANGED <<providing, remitting>>

-----------------------------------------------------------------------------
Init ==
    /\ yearBook = <<>> /\ provider = [op |-> "idle"] /\ trued = FALSE
    /\ filings = [f \in Filings |-> "none"] /\ remitter = [op |-> "idle"]
    /\ outgo = [f \in Filings |-> 0] /\ slipped = [f \in Filings |-> 0]
    /\ tday \in Todays /\ openDocs = <<>> /\ payDay = 0

Next == Providing \/ Remitting \/ Forecasting

Spec == Init /\ [][Next]_vars

-----------------------------------------------------------------------------
(* Properties *)

(* The estimate is the tax on the trading profit that was not reversed,    *)
(* less allowances: provisions, their reversals and book depreciation do   *)
(* not move it (estimate: "breaks the feedback loop").                     *)
EstimateUnmoved ==
    LET live == {n \in DOMAIN yearBook : /\ yearBook[n].undoes = 0
                                        /\ \A m \in DOMAIN yearBook : yearBook[m].undoes # n}
    IN  Estimate = Taxed(Total(live, LAMBDA n : yearBook[n].profit))

(* After a true-up that nothing came between, account 8500 holds exactly   *)
(* the estimate, whatever was provided, overridden or reversed before      *)
(* (post_provision).                                                       *)
TruedUp == trued => TaxExpense = Estimate

(* What an asset is allowed over the fiscal years that end with a month.   *)
WrittenDown(asset, last) ==
    Total(asset.acquired[1]..(asset.acquired[1] + 100), LAMBDA y : Allowance(asset, FiscalWindow(last, y)))

(* Its fiscal year began in the calendar year before it was acquired.      *)
TurnBetween(asset, last) == last # 11 /\ asset.acquired[2] <= last

(* Over the fiscal years an asset is written down by its cost, whichever   *)
(* month they end with, unless the calendar turned between the start of    *)
(* its fiscal year and its acquisition: then one year's allowance is given *)
(* once more (asset_allowance, years_before).                              *)
WrittenDownOnce ==
    \A a \in Assets, last \in 0..11 :
        WrittenDown(a, last) =
            100 * a.cost + (IF TurnBetween(a, last) THEN Smaller(a.cost * a.rate, 100 * a.cost) ELSE 0)

(* A filing is paid once, and paid_to_date is what left the bank, but for  *)
(* payments whose mark on the filing was lost (remit).                     *)
RemittancesAgree ==
    remitter.op = "idle" =>
        \A f \in Filings : outgo[f] = slipped[f] + (IF filings[f] = "remitted" THEN 1 ELSE 0)

(* Once the estimate is paid no installment is due, from three cents on:   *)
(* below, the share of an installment rounds to nothing (estimate).        *)
NothingDueOncePaid ==
    \A k \in 1..4 : LET tax == PaidToDate IN tax >= 3 => InstallmentStatus(k, tax, tax, TRUE) = "paid"

(* Fiscal years tile, the installments fall into the 4th, 6th, 9th and     *)
(* last month of theirs, and the balance four months after it, whichever   *)
(* month a year ends with (fiscal_window, installment_dates, balance_due). *)
InstallmentCalendar ==
    \A last \in 0..11 :
        LET w == FiscalWindow(last, Year)
            due == InstallmentMonths(w.start)
        IN  /\ Month(w.start) = Month(FiscalWindow(last, Year - 1).end) + 1
            /\ [k \in 1..4 |-> Month(due[k]) - Month(w.start)] = <<3, 5, 8, 11>>
            /\ due[4] = w.end
            /\ Month(BalanceMonth(w.end)) = Month(w.end) + 4

(* The last week closes with everything that falls before the horizon: no  *)
(* document and no pay-day is lost or counted twice (cash_forecast).       *)
ForecastComplete ==
    LET paydays == {d \in tday..(Horizon - 1) :
                       payDay # 0 /\ d - DaysBefore(MonthOf(d)) = Smaller(payDay, 28)}
    IN  Closing(Weeks - 1) =
            AmountOf({n \in Open("ar") : Included(n)}) - AmountOf({n \in Open("ap") : Included(n)})
            - PayCost * Cardinality(paydays) - Unremitted

(* From the second week on, a week shows what is due between its first and *)
(* its last day (week_index, cash_forecast).                               *)
WeeksHold ==
    \A i \in 1..(Weeks - 1) :
        LET first == FirstDay + 7 * i
        IN  Net(i) = AmountOf({n \in Open("ar") : openDocs[n].due \in first..(first + 6)})
                     - AmountOf({n \in Open("ap") : openDocs[n].due \in first..(first + 6)})
                     - Payroll(i)
=============================================================================
