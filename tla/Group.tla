------------------------------- MODULE Group -------------------------------
(***************************************************************************)
(* Currencies and companies: exchange rates and their lookups, the period- *)
(* end revaluation of foreign balances, company groups, intercompany       *)
(* charges posted to two ledgers, and the consolidated trial balance with  *)
(* its translation and eliminations.                                       *)
(*                                                                         *)
(* Amounts are whole cents, and a rate r stands for r / RateUnit; Deals    *)
(* are multiples of RateUnit, so that what is booked of them is whole.  A  *)
(* ledger is the debits and the credits of each account; a request stops   *)
(* only between two commits.                                               *)
(***************************************************************************)
EXTENDS Integers, FiniteSets, FiniteSetsExt, Sequences, Functions

CONSTANTS
    Topics,         \* "rates", "members" or "ledgers": what a behaviour is about
    Days,           \* days 1..Days, PeriodLength of them in a period
    PeriodLength,
    Desks,          \* requests that may be under way at once
    RateUnit,
    Rates,          \* rates a currency may have
    Deals,          \* foreign amounts that may be booked
    Firms,          \* companies
    RevaluedFirm,   \* the one whose foreign balance is revalued
    Foreign,        \* the firms that report in a foreign currency
    Charges,        \* amounts of an intercompany charge
    MaxQuotes,      \* bound: days with a rate
    MaxDeals,       \* bound: foreign entries
    MaxPostings,    \* bound: entries on the foreign account
    MaxBooked,      \* bound: what the firms book in all
    MaxCuts         \* bound: requests that stop half way

VARIABLES
    topic,
    rates,          \* exchange_rates of each firm: day -> rate, 0 without one
    exposure,       \* entries on the foreign account: [day, fcy, lcy, of]
    members,        \* company_group_members: the firms of the group
    parents,        \* those with is_parent
    ledgers,        \* each firm's ledger: account -> [debit, credit]
    sister,         \* open documents between firms: [from, to] -> [invoices, bills]
    work,           \* the request under way at each desk
    cuts

vars == <<topic, rates, exposure, members, parents, ledgers, sister, work, cuts>>
fx == <<rates, exposure>>
group == <<members, parents, ledgers, sister>>

Quiet == [op |-> "idle", day |-> 0, gain |-> 0, firm |-> "none"]

(* The request stops between two commits. *)
Cut ==
    /\ cuts < MaxCuts
    /\ cuts' = cuts + 1
    /\ \E k \in Desks : work[k] # Quiet /\ work' = [work EXCEPT ![k] = Quiet]
    /\ UNCHANGED <<topic, fx, group>>

-----------------------------------------------------------------------------
(* Rates *)

PeriodOf(day) == (day - 1) \div PeriodLength
PeriodEnd(day) == (PeriodOf(day) + 1) * PeriodLength

(* get_rate: the latest on or before the day; 0 when there is none. *)
GetRate(f, day) ==
    LET dated == {d \in 1..day : rates[f][d] # 0}
    IN  IF dated = {} THEN 0 ELSE rates[f][Max(dated)]

(* get_month_rate: the last of the month, or else the latest before. *)
GetMonthRate(day) ==
    LET last == Min({PeriodEnd(day), Days})
        inMonth == {d \in PeriodEnd(day) - PeriodLength + 1..last : rates[RevaluedFirm][d] # 0}
    IN  IF inMonth # {} THEN rates[RevaluedFirm][Max(inMonth)] ELSE GetRate(RevaluedFirm, last)

(* upsert_rate, by hand or for a row of the central bank's table: its      *)
(* cross rate is EUR->base over EUR->currency (cross_rates_for_base).      *)
UpsertRate(f, day, rate) ==
    /\ (topic = "rates" /\ f = RevaluedFirm) \/ (topic = "ledgers" /\ f \in Foreign /\ day = Days)
    /\ Cardinality({d \in 1..Days : d = day \/ rates[f][d] # 0}) =< MaxQuotes
    /\ rates' = [rates EXCEPT ![f][day] = rate]
    /\ UNCHANGED <<topic, exposure, group, work, cuts>>

-----------------------------------------------------------------------------
(* Revaluation *)

Amount(field(_), S) == MapThenSumSet(LAMBDA i : field(exposure[i]), S)
Upto(day) == {i \in DOMAIN exposure : exposure[i].day =< day}

(* jl.currency <> base: revaluations are booked in base currency. *)
ForeignLines(day) == {i \in Upto(day) : exposure[i].fcy # 0}

(* A foreign bank line is categorised: booked at the month rate of its day. *)
BookForeign(day, fcy) ==
    /\ topic = "rates" /\ GetMonthRate(day) # 0
    /\ Cardinality(ForeignLines(Days)) < MaxDeals
    /\ exposure' = Append(exposure, [day |-> day, fcy |-> fcy, of |-> 0,
                                     lcy |-> (fcy * GetMonthRate(day)) \div RateUnit])
    /\ UNCHANGED <<topic, rates, group, work, cuts>>

BalanceFcy(day) == Amount(LAMBDA e : e.fcy, ForeignLines(day))
BalanceLcy(day) == Amount(LAMBDA e : e.lcy, ForeignLines(day))

(* Mutation: the new value is taken at the rate of the first month. *)
GainLossOldRate(day) == (BalanceFcy(day) * GetMonthRate(1)) \div RateUnit - BalanceLcy(day)

(* The new value less the old one, as at the last day of a period *)
GainLoss(day) == (BalanceFcy(day) * GetRate(RevaluedFirm, day)) \div RateUnit - BalanceLcy(day)

Revaluation(day, gain) == [day |-> day, fcy |-> 0, lcy |-> gain, of |-> day]

(* run_fx_revaluation refuses without a foreign balance, a rate or a gain. *)
Revalue(k, day) ==
    /\ topic = "rates" /\ work[k] = Quiet /\ day = PeriodEnd(day)
    /\ Len(exposure) < MaxPostings
    /\ BalanceFcy(day) # 0 /\ GetRate(RevaluedFirm, day) # 0 /\ GainLoss(day) # 0
    /\ exposure' = Append(exposure, Revaluation(day, GainLoss(day)))
    /\ work' = [work EXCEPT ![k] = [Quiet EXCEPT !.op = "reverse", !.day = day, !.gain = GainLoss(day)]]
    /\ UNCHANGED <<topic, rates, group, cuts>>

(* Mutation: the reversal takes the gain as it is now. *)
ReverseAtNewRate(k) ==
    /\ work[k].op = "reverse"
    /\ exposure' = Append(exposure, [Revaluation(work[k].day, -GainLoss(work[k].day)) EXCEPT !.day = @ + 1])
    /\ work' = [work EXCEPT ![k] = Quiet]
    /\ UNCHANGED <<topic, rates, group, cuts>>

(* The second entry, on the first day of the next period *)
ReverseRevaluation(k) ==
    /\ work[k].op = "reverse"
    /\ exposure' = Append(exposure, [Revaluation(work[k].day, -work[k].gain) EXCEPT !.day = @ + 1])
    /\ work' = [work EXCEPT ![k] = Quiet]
    /\ UNCHANGED <<topic, rates, group, cuts>>

-----------------------------------------------------------------------------
(* Groups *)

(* add_member of a parent is two statements of their own, without a        *)
(* transaction: all parents are demoted, then the new one is inserted.     *)
DemoteParents(k, f) ==
    /\ topic = "members" /\ work[k] = Quiet
    /\ parents' = {}
    /\ work' = [work EXCEPT ![k] = [Quiet EXCEPT !.op = "insert", !.firm = f]]
    /\ UNCHANGED <<topic, fx, members, ledgers, sister, cuts>>

InsertParent(k) ==
    /\ work[k].op = "insert"
    /\ members' = members \cup {work[k].firm}
    /\ parents' = parents \cup {work[k].firm}
    /\ work' = [work EXCEPT ![k] = Quiet]
    /\ UNCHANGED <<topic, fx, ledgers, sister, cuts>>

(* add_member of another firm; ON CONFLICT it is no parent any more. *)
AddMember(f) ==
    /\ topic = "members"
    /\ members' = members \cup {f}
    /\ parents' = parents \ {f}
    /\ UNCHANGED <<topic, fx, ledgers, sister, work, cuts>>

RemoveMember(f) ==
    /\ f \in members
    /\ members' = members \ {f}
    /\ parents' = parents \ {f}
    /\ UNCHANGED <<topic, fx, ledgers, sister, work, cuts>>

-----------------------------------------------------------------------------
(* Ledgers *)

Control == {"ic_receivable", "ic_payable", "ic_income", "ic_expense"}
Accounts == Control \cup {"bank", "sales", "ar", "ap", "cost"}

(* An entry of two lines *)
Posted(ledger, debit, credit, amount) ==
    [ledger EXCEPT ![debit].debit = @ + amount, ![credit].credit = @ + amount]

Booked == MapThenSumSet(LAMBDA f : MapThenSumSet(LAMBDA a : ledgers[f][a].debit, Accounts), Firms)

Post(new) ==
    /\ topic = "ledgers" /\ Booked < MaxBooked
    /\ ledgers' = new
    /\ UNCHANGED <<topic, fx, members, parents, work, cuts>>

(* A sale for cash, or its refund *)
Trade(f) ==
    /\ \E e \in {<<"bank", "sales">>, <<"sales", "bank">>} :
           Post([ledgers EXCEPT ![f] = Posted(@, e[1], e[2], 1)])
    /\ UNCHANGED sister

(* post_intercompany_charge: both entries in one transaction; refused      *)
(* between different base currencies.                                      *)
Charge(from, to, amount) ==
    /\ from # to /\ (from \in Foreign <=> to \in Foreign)
    /\ Post([ledgers EXCEPT ![from] = Posted(@, "ic_receivable", "ic_income", amount),
                            ![to] = Posted(@, "ic_expense", "ic_payable", amount)])
    /\ UNCHANGED sister

(* A firm invoices another; the other books its bill. *)
InvoiceSister(from, to) ==
    /\ from # to
    /\ Post([ledgers EXCEPT ![from] = Posted(@, "ar", "sales", 1)])
    /\ sister' = [sister EXCEPT ![<<from, to>>].invoices = @ + 1]

BillSister(from, to) ==
    /\ from # to
    /\ Post([ledgers EXCEPT ![to] = Posted(@, "cost", "ap", 1)])
    /\ sister' = [sister EXCEPT ![<<from, to>>].bills = @ + 1]

-----------------------------------------------------------------------------
(* Consolidation *)

(* translation_rate, from the firm's own table at the last day; 1 without  *)
(* a rate, and flagged                                                     *)
TranslationRate(f) ==
    IF f \in Foreign /\ GetRate(f, Days) # 0 THEN GetRate(f, Days) ELSE RateUnit

(* (amount * rate).round_dp(2): a half goes to the even cent. *)
Translated(f, amount) ==
    LET product == amount * TranslationRate(f)
        below == product \div RateUnit
        rest == 2 * (product % RateUnit)
    IN  IF rest > RateUnit \/ (rest = RateUnit /\ below % 2 = 1) THEN below + 1 ELSE below

(* Debits and credits of each account, each translated by itself *)
Combined(S) ==
    [a \in Accounts |-> [debit |-> MapThenSumSet(LAMBDA f : Translated(f, ledgers[f][a].debit), S),
                         credit |-> MapThenSumSet(LAMBDA f : Translated(f, ledgers[f][a].credit), S)]]

Net(figures) == figures.debit - figures.credit

NetTotal(balances) == MapThenSumSet(LAMBDA a : Net(balances[a]), DOMAIN balances)

(* consolidate: the control accounts of all members are taken out. *)
Consolidate(S) == Restrict(Combined(S), Accounts \ Control)

Eliminated(S) == Restrict(Combined(S), Control)

(* trial_balance: the open documents between the selected firms are taken  *)
(* off the receivables and payables.                                       *)
Open(field(_), pairs) == MapThenSumSet(LAMBDA p : field(sister[p]), pairs)
OpenInvoices(S) == Open(LAMBDA d : d.invoices, S \X S)
OpenBills(S) == Open(LAMBDA d : d.bills, S \X S)

SelectedTrialBalance(S) ==
    IF Cardinality(S) > 1
    THEN [Combined(S) EXCEPT !["ar"].debit = @ - OpenInvoices(S), !["ap"].credit = @ - OpenBills(S)]
    ELSE Combined(S)

-----------------------------------------------------------------------------
Init ==
    /\ topic \in Topics
    /\ rates = [f \in Firms |-> [d \in 1..Days |-> 0]]
    /\ exposure = <<>>
    /\ members = {}
    /\ parents = {}
    /\ ledgers = [f \in Firms |-> [a \in Accounts |-> [debit |-> 0, credit |-> 0]]]
    /\ sister = [p \in Firms \X Firms |-> [invoices |-> 0, bills |-> 0]]
    /\ work = [k \in Desks |-> Quiet]
    /\ cuts = 0

Currencies ==
    \/ \E d \in 1..Days : \/ \E f \in Firms, r \in Rates : UpsertRate(f, d, r)
                          \/ \E n \in Deals : BookForeign(d, n)
                          \/ \E k \in Desks : Revalue(k, d)
    \/ \E k \in Desks : ReverseRevaluation(k)

Companies ==
    \/ \E f \in Firms : \/ AddMember(f) \/ RemoveMember(f) \/ Trade(f)
                        \/ \E k \in Desks : DemoteParents(k, f)
                        \/ \E t \in Firms : \/ InvoiceSister(f, t) \/ BillSister(f, t)
                                            \/ \E n \in Charges : Charge(f, t, n)
    \/ \E k \in Desks : InsertParent(k)

Next == Currencies \/ Companies \/ Cut

Spec == Init /\ [][Next]_vars

-----------------------------------------------------------------------------
(* Properties *)

Value(day) == Amount(LAMBDA e : e.lcy, Upto(day))

(* Every other revaluation that is in force on the day is reversed by then. *)
NothingPending(day) ==
    Amount(LAMBDA e : e.lcy, {i \in Upto(day) : exposure[i].of # 0}) = 0

(* A revaluation leaves the foreign account at its balance times the rate  *)
(* of the day, whatever was revalued at earlier period ends, provided      *)
(* those are reversed: the next month starts from historical values again  *)
(* (run_fx_revaluation, get_rate).                                         *)
RevaluedAtRate ==
    [][\A d \in 1..Days, k \in Desks :
          (Len(exposure') > Len(exposure) /\ work'[k].op = "reverse" /\ work'[k].day = d
             /\ NothingPending(d))
          => Value(d)' = (BalanceFcy(d) * GetRate(RevaluedFirm, d)) \div RateUnit]_vars

(* A revaluation does not outlive its period: after the reversals that     *)
(* were posted, what is left is the gain of requests that stopped between  *)
(* the two entries, or of those under way.                                 *)
RevaluationsNetOut ==
    cuts = 0 => Amount(LAMBDA e : e.lcy, {i \in DOMAIN exposure : exposure[i].of # 0})
                   = MapThenSumSet(LAMBDA k : work[k].gain, {k \in Desks : work[k].op = "reverse"})

(* A group has at most one parent between the two statements that add one  *)
(* and after them, also when the request stopped after the demotion, and a *)
(* parent is a member (add_member).  It holds while requests that add a    *)
(* parent do not overlap, with one desk: the statements share no           *)
(* transaction, and two such requests leave two parents.                   *)
OneParent == Cardinality(parents) =< 1 /\ parents \subseteq members

(* Figures that were translated, each of them rounded by itself *)
Roundings(S) ==
    LET foreign == {f \in S : TranslationRate(f) # RateUnit}
    IN  Cardinality({p \in foreign \X Accounts : ledgers[p[1]][p[2]].debit # 0})
          + Cardinality({p \in foreign \X Accounts : ledgers[p[1]][p[2]].credit # 0})

(* At most half a cent from zero for each translated figure; exactly zero  *)
(* when nothing is translated                                              *)
Nets(amount, S) == 2 * amount \in -Roundings(S)..Roundings(S)

(* The consolidated trial balance of all firms balances but for the        *)
(* rounding of the translated figures, whatever the firms traded and at    *)
(* whatever rates, and the charges between them are out of it: where firms *)
(* of one currency use one rate, receivable meets payable and income meets *)
(* expense (post_intercompany_charge, consolidate).                        *)
GroupBalances ==
    /\ Nets(NetTotal(Consolidate(Firms)), Firms)
    /\ (\A f, g \in Foreign : TranslationRate(f) = TranslationRate(g)) =>
          LET out == Eliminated(Firms)
          IN  /\ Nets(Net(out["ic_receivable"]) + Net(out["ic_payable"]), Firms)
              /\ Nets(Net(out["ic_income"]) + Net(out["ic_expense"]), Firms)

(* The trial balance of selected firms is out of balance, but for the      *)
(* rounding of translated figures, by what is invoiced and not billed      *)
(* between them; and where nothing is translated, what is left on the      *)
(* receivables and payables are the documents with firms outside the       *)
(* selection.  The amounts taken off are not translated                    *)
(* (routes/consolidation.rs).                                              *)
SelectedBalances ==
    \A S \in SUBSET Firms :
        Cardinality(S) > 1 =>
            LET kept == SelectedTrialBalance(S)
                others == Firms \ S
            IN  /\ Nets(NetTotal(kept) + OpenInvoices(S) - OpenBills(S), S)
                /\ Roundings(S) = 0 =>
                     /\ Net(kept["ar"]) = Open(LAMBDA d : d.invoices, S \X others)
                     /\ Net(kept["ap"]) = -Open(LAMBDA d : d.bills, others \X S)

=============================================================================
