------------------------------ MODULE Reports ------------------------------
(***************************************************************************)
(* The financial statements (services/reporting.rs), each a set of queries *)
(* over the journal, the period balances kept beside it, and the documents *)
(* of a customer.  A behaviour builds up one of the two: the book, by      *)
(* posting and reversing entries, or the customer's documents.  The        *)
(* reports change nothing, so they are operators of the state; the         *)
(* properties compare reports that are computed from different rows.       *)
(*                                                                         *)
(* An entry gives every account a net debit, the functional amount.        *)
(***************************************************************************)
EXTENDS Integers, Sequences, FiniteSets, FiniteSetsExt

CONSTANTS
    Sides,          \* what a behaviour builds: "book", "customer"
    EntryKinds,     \* the entries posted, names of Entry
    Dates,          \* the days entries are posted on, 1..n
    PeriodDays,     \* days of a fiscal period
    MaxEntries,     \* bound: entries in the book, reversals included
    IssueDays, DueDays, InvoiceTotal,    \* of an invoice
    Parts,          \* amounts paid, credited or written off
    MaxDocs         \* bound: documents and payments of the customer

VARIABLES
    side,       \* one of Sides
    book,       \* journal_entries with their lines, in order of posting
    balances,   \* account_period_balances: period_end -> account -> net debit
    inactive,   \* the accounts with is_active = false
    docs,       \* invoices and credit notes of the customer
    receipts    \* payments of the customer

vars == <<side, book, balances, inactive, docs, receipts>>

-----------------------------------------------------------------------------
(* The chart of accounts: code and type. *)

Chart == [bank    |-> <<1020, "Asset">>,     ar      |-> <<1100, "Asset">>,
          vatIn   |-> <<1300, "Asset">>,     stock   |-> <<1500, "Asset">>,
          plant   |-> <<2530, "Asset">>,     depr    |-> <<2630, "ContraAsset">>,
          ap      |-> <<3000, "Liability">>, vatOut  |-> <<3100, "Liability">>,
          loan    |-> <<4100, "Liability">>, capital |-> <<4500, "Equity">>,
          sales   |-> <<5000, "Revenue">>,   returns |-> <<5400, "ContraRevenue">>,
          cogs    |-> <<6000, "Expense">>,   wear    |-> <<7600, "Expense">>,
          interest |-> <<8000, "Expense">>]

Accounts == DOMAIN Chart
Code(a) == Chart[a][1]
OfType(types) == {a \in Accounts : Chart[a][2] \in types}
Coded(from, to) == {a \in Accounts : from =< Code(a) /\ Code(a) =< to}

Income == OfType({"Revenue", "ContraRevenue"})
Expenses == OfType({"Expense", "ContraExpense"})
Banks == {"bank"}           \* bank_accounts.gl_account

Lines(m) == [a \in Accounts |-> IF a \in DOMAIN m THEN m[a] ELSE 0]

(* What the documents of the other components post. *)
Entry ==
    [sale       |-> Lines([ar |-> 6, sales |-> -5, vatOut |-> -1]),
     creditNote |-> Lines([ar |-> -3, returns |-> 3]),
     receipt    |-> Lines([bank |-> 4, ar |-> -4]),
     bill       |-> Lines([stock |-> 7, vatIn |-> 1, ap |-> -8]),
     payment    |-> Lines([ap |-> 2, bank |-> -2]),
     issue      |-> Lines([cogs |-> 3, stock |-> -3]),
     wear       |-> Lines([wear |-> 2, depr |-> -2]),
     purchase   |-> Lines([plant |-> 9, bank |-> -9]),
     loan       |-> Lines([bank |-> 19, interest |-> 1, loan |-> -20]),
     capital    |-> Lines([bank |-> 10, capital |-> -10])]

Sum(f(_), S) == MapThenSumSet(f, S)
Net(E, a) == Sum(LAMBDA e : e.lines[a], E)
NetOf(E, A) == Sum(LAMBDA a : Net(E, a), A)

Entries == {book[k] : k \in DOMAIN book}
Before(d) == {e \in Entries : e.date < d}
Upto(d) == {e \in Entries : e.date =< d}
Within(f, t) == {e \in Entries : f =< e.date /\ e.date =< t}
Posted(E) == {e \in E : e.status = "posted"}

-----------------------------------------------------------------------------
(* The book *)

PeriodEnd(d) == PeriodDays * ((d + PeriodDays - 1) \div PeriodDays)

(* The upsert of every posting keeps account_period_balances in step. *)
Carry(d, lines) ==
    LET end == PeriodEnd(d)
        old(p, a) == IF p \in DOMAIN balances THEN balances[p][a] ELSE 0
    IN  balances' = [p \in DOMAIN balances \cup {end} |->
                        [a \in Accounts |-> old(p, a) + IF p = end THEN lines[a] ELSE 0]]

Insert(marked, d, src, lines) ==
    /\ Len(book) < MaxEntries
    /\ \A a \in inactive : lines[a] = 0
    /\ book' = Append(marked, [num |-> Len(book) + 1, date |-> d, src |-> src,
                               lines |-> lines, status |-> "posted"])
    /\ Carry(d, lines)
    /\ UNCHANGED <<side, inactive, docs, receipts>>

Post(k, d) == side = "book" /\ Insert(book, d, k, Entry[k])

(* reverse_journal_entry: the original becomes 'reversed', the reversing   *)
(* entry is posted, on its own date.                                       *)
Reverse(n, d) ==
    /\ side = "book" /\ book[n].status = "posted" /\ book[n].src # "reversal"
    /\ Insert([book EXCEPT ![n].status = "reversed"], d, "reversal",
              [a \in Accounts |-> -book[n].lines[a]])

(* update_account: nothing asks whether the account has a balance. *)
SetActive(a) ==
    /\ side = "book"
    /\ inactive' = IF a \in inactive THEN inactive \ {a} ELSE inactive \cup {a}
    /\ UNCHANGED <<side, book, balances, docs, receipts>>

-----------------------------------------------------------------------------
(* Statements of the book *)

(* Mutation: the day the last full period ends on is read again. *)
SinceAgain(d) == {e \in Upto(d) : e.date >= Max({0} \cup {p \in DOMAIN balances : p =< d})}

(* ASAT_MOVEMENTS: whole periods from the balances, the rest from lines. *)
Since(d) == {e \in Upto(d) : e.date > Max({0} \cup {p \in DOMAIN balances : p =< d})}

AsAt(d, a) == Sum(LAMBDA p : balances[p][a], {p \in DOMAIN balances : p =< d}) + Net(Since(d), a)

AsAtOf(d, A) == Sum(LAMBDA a : AsAt(d, a), A)

(* trial_balance: is_balanced over the accounts it lists. *)
TrialBalance(d) ==
    LET listed == Accounts \ inactive
        debits == {a \in listed : AsAt(d, a) > 0}
    IN  [debit |-> AsAtOf(d, debits), credit |-> -AsAtOf(d, listed \ debits)]

(* balance_sheet_at: profit and loss counts inactive accounts too. *)
BalanceSheet(d) ==
    LET of(types) == AsAtOf(d, OfType(types) \ inactive)
        earnings == -AsAtOf(d, Income \cup Expenses)
    IN  [assets |-> of({"Asset", "ContraAsset"}),
         liabilities |-> -of({"Liability", "ContraLiability"}),
         earnings |-> earnings, equity |-> earnings - of({"Equity"})]

(* profit_and_loss_period, by sections. *)
ProfitAndLoss(f, t) ==
    LET E == Within(f, t)
        sold == Expenses \cap Coded(6000, 6999)
        run == Expenses \cap Coded(7000, 7999)
    IN  [revenue |-> -NetOf(E, Income), cogs |-> NetOf(E, sold), opex |-> NetOf(E, run),
         other |-> NetOf(E, Expenses \ (sold \cup run))]

NetProfit(f, t) ==
    LET p == ProfitAndLoss(f, t) IN p.revenue - p.cogs - p.opex - p.other

(* pnl_totals, of the dashboard. *)
PnlTotals(f, t) ==
    [income |-> -NetOf(Within(f, t), Income), expenses |-> NetOf(Within(f, t), Expenses)]

CashAccounts == Coded(1000, 1099)
Cash(d) == NetOf(Upto(d), CashAccounts)

(* working_capital_change, a net debit over the entries still 'posted'. *)
Change(f, t, from, to) == NetOf(Posted(Within(f, t)), Coded(from, to))

Debits(e) == Sum(LAMBDA a : e.lines[a], {a \in Accounts : e.lines[a] > 0})

(* cash_flow (indirect): the parts of each section. *)
Operating(f, t) ==
    LET E == Posted(Within(f, t))
        netIncome == -NetOf(E, Income) - NetOf(E, Expenses)
        depreciation == Sum(Debits, {e \in E : e.src = "wear"})
    IN  netIncome + depreciation - Change(f, t, 1100, 1299) + Change(f, t, 3000, 3099)
          - Change(f, t, 1500, 1599) - Change(f, t, 1300, 1499)

Investing(f, t) == -NetOf(Posted(Within(f, t)), Coded(2500, 2699) \cap OfType({"Asset"}))

Financing(f, t) == -Change(f, t, 3200, 3999) - Change(f, t, 4000, 4999)

(* The reconciling line makes up for what the ranges above leave out. *)
CashFlow(f, t) ==
    LET opening == NetOf(Posted(Before(f)), CashAccounts)
        moved == NetOf(Posted(Within(f, t)), CashAccounts)
        computed == Operating(f, t) + Investing(f, t) + Financing(f, t)
        net == computed + (moved - computed)
    IN  [opening |-> opening, net |-> net, closing |-> opening + net]

(* cash_flow_direct: the other side of every entry that touches a bank. *)
CashFlowDirect(f, t) ==
    LET touching == {e \in Within(f, t) : \E b \in Banks : e.lines[b] # 0}
        contra(a) == -Net(touching, a)
        in == {a \in Accounts \ Banks : contra(a) > 0}
        out == {a \in Accounts \ Banks : contra(a) < 0}
    IN  [opening |-> NetOf(Before(f), Banks), closing |-> NetOf(Upto(t), Banks),
         net |-> Sum(contra, in) + Sum(contra, out)]

(* gl_detail of one account: every line before, the 'posted' ones within. *)
GlDetail(a, f, t) == Net(Before(f), a) + Net(Posted(Within(f, t)), a)

(* gl_detail of all accounts: the grand total. *)
GlTotal(f, t) == NetOf(Before(f), Accounts) + NetOf(Posted(Within(f, t)), Accounts)

(* cash_and_bank, of the dashboard. *)
CashAndBank == NetOf(Entries, Banks)

(* equity_changes: profit of the period on top of what is booked. *)
EquityChanges(f, t) ==
    LET equity == OfType({"Equity", "ContraEquity"})
        profit == -NetOf(Within(f, t), Income \cup Expenses)
    IN  [opening |-> -NetOf(Before(f), equity), profit |-> profit,
         closing |-> profit - NetOf(Upto(t), equity)]

(* vat_return: output less input, from the ledger. *)
VatReturn(f, t) == -Net(Within(f, t), "vatOut") - Net(Within(f, t), "vatIn")

(* control_account_recon, the GL side of the receivables. *)
ControlTotal == Net(Posted(Entries), "ar")

-----------------------------------------------------------------------------
(* The documents of a customer *)

Docs == {docs[k] : k \in DOMAIN docs}
Room == side = "customer" /\ Len(docs) + Len(receipts) < MaxDocs

Document(type, d, due, x, status) ==
    [num |-> Len(docs) + 1, type |-> type, date |-> d, due |-> due, gross |-> x,
     balance |-> IF status = "posted" THEN x ELSE 0, status |-> status, credited |-> 0,
     writtenOff |-> 0]

Issue(d, due, x) ==
    /\ Room /\ due >= d
    /\ docs' = Append(docs, Document("invoice", d, due, x, "posted"))
    /\ UNCHANGED <<side, book, balances, inactive, receipts>>

Settle(doc, x, zero) ==
    [doc EXCEPT !.balance = @ - x, !.status = IF doc.balance - x = 0 THEN zero ELSE @]

(* record_payment: applied to an invoice up to its balance. *)
Receipt(n, d, x) ==
    LET applied == Min({x, docs[n].balance})
    IN  /\ Room /\ docs[n].type = "invoice" /\ docs[n].status = "posted"
        /\ docs' = [docs EXCEPT ![n] = Settle(@, applied, "paid")]
        /\ receipts' = Append(receipts, [num |-> Len(receipts) + 1, date |-> d, amount |-> x,
                                         unapplied |-> x - applied])
        /\ UNCHANGED <<side, book, balances, inactive>>

(* create_credit_note: a row of the invoices table, with a positive total. *)
CreditNote(n, d, x) ==
    /\ Room /\ docs[n].type = "invoice" /\ docs[n].status = "posted" /\ x =< docs[n].balance
    /\ docs' = Append([docs EXCEPT ![n] = [Settle(@, x, "paid") EXCEPT !.credited = @ + x]],
                      Document("credit_note", d, d, x, "paid"))
    /\ UNCHANGED <<side, book, balances, inactive, receipts>>

WriteOff(n, x) ==
    /\ Room /\ docs[n].type = "invoice" /\ docs[n].status = "posted" /\ x =< docs[n].balance
    /\ docs' = [docs EXCEPT ![n] = [Settle(@, x, "written_off") EXCEPT !.writtenOff = @ + x]]
    /\ UNCHANGED <<side, book, balances, inactive, receipts>>

-----------------------------------------------------------------------------
(* Statements of the customer *)

Paid == {receipts[k] : k \in DOMAIN receipts}
Charges(f, t) == Sum(LAMBDA i : i.gross, {i \in Docs : f =< i.date /\ i.date =< t})
Payments(f, t) == Sum(LAMBDA p : p.amount, {p \in Paid : f =< p.date /\ p.date =< t})

(* party_statement: no type is asked for, so a credit note is a charge. *)
Statement(f, t) ==
    LET opening == Charges(0, f - 1) - Payments(0, f - 1)
    IN  [opening |-> opening, closing |-> opening + Charges(f, t) - Payments(f, t)]

Open == {i \in Docs : i.type = "invoice" /\ i.status = "posted"}
Due(S) == Sum(LAMBDA i : i.balance, S)

(* ar_ageing: the bucket by days overdue. *)
Bucket(days) ==
    IF days =< 0 THEN "current"
    ELSE IF days =< 30 THEN "days_1_30"
    ELSE IF days =< 60 THEN "days_31_60"
    ELSE IF days =< 90 THEN "days_61_90" ELSE "over_90"

Ageing(d) ==
    [b \in {"current", "days_1_30", "days_31_60", "days_61_90", "over_90"} |->
        Due({i \in Open : i.balance > 0 /\ Bucket(d - i.due) = b})]

(* The invoices bar of dashboard_summary_as_at. *)
InvoicesBar(d) ==
    LET due(P(_)) == Due({i \in Open : i.balance > 0 /\ P(i.due)})
    IN  [overdue |-> due(LAMBDA x : x < d), dueSoon |-> due(LAMBDA x : d =< x /\ x =< d + 30),
         open |-> due(LAMBDA x : x > d + 30)]

(* customer_payment_history. *)
PaymentHistory(f, t) ==
    LET in == {p \in Paid : f =< p.date /\ p.date =< t}
    IN  [received |-> Sum(LAMBDA p : p.amount, in), unapplied |-> Sum(LAMBDA p : p.unapplied, in)]

-----------------------------------------------------------------------------
Init ==
    /\ side \in Sides
    /\ book = <<>> /\ balances = << >> /\ inactive = {}
    /\ docs = <<>> /\ receipts = <<>>

Next ==
    \/ \E k \in EntryKinds, d \in Dates : Post(k, d)
    \/ \E n \in DOMAIN book, d \in Dates : Reverse(n, d)
    \/ \E a \in {"bank", "sales"} : SetActive(a)
    \/ \E d \in IssueDays, due \in DueDays : Issue(d, due, InvoiceTotal)
    \/ \E n \in DOMAIN docs, x \in Parts :
          \/ WriteOff(n, x)
          \/ \E d \in IssueDays : Receipt(n, d, x) \/ CreditNote(n, d, x)

Spec == Init /\ [][Next]_vars

-----------------------------------------------------------------------------
(* Properties *)

Spans == {s \in Dates \X Dates : s[1] =< s[2]}

(* A balance put together from whole periods and the lines after them      *)
(* (ASAT_MOVEMENTS) is the sum of every line up to the date, on every day  *)
(* of a period and whatever order entries and reversals were posted in.    *)
BalancesComplete == \A d \in Dates, a \in Accounts : AsAt(d, a) = Net(Upto(d), a)

(* "Assets = Liabilities + Equity holds even before a year-end close", and *)
(* the trial balance balances, as long as no account with a balance is     *)
(* inactive (balance_sheet_at, trial_balance).                             *)
StatementsBalance ==
    \A d \in Dates :
        LET s == BalanceSheet(d)
            tb == TrialBalance(d)
        IN  (\A a \in inactive : AsAt(d, a) = 0) =>
                s.assets = s.liabilities + s.equity /\ tb.debit = tb.credit

(* The profit of a span is what current-year earnings move by on the       *)
(* balance sheet, what the dashboard shows, and what brings the equity     *)
(* statement to the balance sheet's total when it opens with no earnings.  *)
EarningsAgree ==
    \A s \in Spans :
        LET f == s[1]
            t == s[2]
            profit == NetProfit(f, t)
            opened == BalanceSheet(f - 1).earnings
        IN  /\ profit = BalanceSheet(t).earnings - opened
            /\ profit = PnlTotals(f, t).income - PnlTotals(f, t).expenses
            /\ opened = 0 /\ inactive \cap OfType({"Equity"}) = {}
                 => EquityChanges(f, t).closing = BalanceSheet(t).equity

(* Both cash-flow statements, the detail of every account, the VAT return  *)
(* and the control account close on the balances of the ledger: the direct *)
(* method, VAT and the totals always, the others as long as no entry they  *)
(* cover was reversed (cash_flow_direct, vat_return, cash_flow, gl_detail, *)
(* control_account_recon, dashboard_summary_as_at).                        *)
ViewsAgree ==
    \A s \in Spans :
        LET f == s[1]
            t == s[2]
            direct == CashFlowDirect(f, t)
            vat(d) == -AsAtOf(d, {"vatIn", "vatOut"})
        IN  /\ direct.closing = direct.opening + direct.net
            /\ VatReturn(f, t) = vat(t) - vat(f - 1)
            /\ GlTotal(f, t) = 0
            /\ Upto(t) = Entries => CashAndBank = direct.closing
            /\ Posted(Upto(t)) = Upto(t) =>
                  /\ CashFlow(f, t).closing = direct.closing
                  /\ \A a \in Accounts : GlDetail(a, f, t) = AsAt(t, a)
                  /\ Upto(t) = Entries => ControlTotal = AsAt(t, "ar")

(* Wherever a statement starts, it closes on what the customer's invoices  *)
(* still show as due, less payments not applied, unless something was      *)
(* credited or written off (party_statement).                              *)
StatementAgrees ==
    LET last == Max(IssueDays)
    IN  (\A i \in Docs : i.type = "invoice" /\ i.writtenOff = 0) =>
            \A f \in IssueDays :
                Statement(f, last).closing
                  = Due(Open) - PaymentHistory(0, last).unapplied

(* Ageing and the dashboard's bar put every open invoice in one bucket on  *)
(* every day, at the edges too, and total what is receivable (ar_ageing,   *)
(* dashboard_summary_as_at).                                               *)
BucketsComplete ==
    \A d \in IssueDays \cup DueDays :
        LET age == Ageing(d)
            bar == InvoicesBar(d)
        IN  /\ Sum(LAMBDA b : age[b], DOMAIN age) = Due(Open)
            /\ bar.overdue + bar.dueSoon + bar.open = Due(Open)
            /\ bar.overdue = Due(Open) - age.current

(* "so the statement always ties to real cash": the cash-flow statement    *)
(* closes on the balance of the cash accounts, also after a reversal.      *)
CashFlowTies == \A s \in Spans : CashFlow(s[1], s[2]).closing = Cash(s[2])
=============================================================================
