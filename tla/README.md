# Zavora ERA in TLA+

TLA+ modules, TLC runs and TLAPS proofs about the accounting core of this
repository: a multi-tenant ERP in Rust (axum, sqlx, Postgres, Redis). Paths
below are relative to the repository; `services/` stands for
`zavora-erp-core/src/services/`.

## 1. The system

| Component | State | Operations | Correct when | Module |
|---|---|---|---|---|
| General ledger (`services/journal.rs`) | `journal_entries`, `journal_lines`, `account_period_balances` | create and post, reverse | every entry balances; the snapshots are the sums of the lines; numbers have no gap and no duplicate; an entry is `reversed` iff its reversal exists | `Ledger`, `Journal` |
| Fiscal periods (`services/periods.rs`, migration 026) | `fiscal_periods.status` | generate, soft close, hard close, reopen | nothing but year-end entries enters a hard-closed period; hard closed is final | `Ledger` |
| Year-end close (`services/period_close.rs`) | none of its own | close a year | closing and opening entry come together, on one view of the books | `Ledger` |
| Settings (`services/settings.rs`, `engine.rs`) | `entity_settings`, the in-process cache `ErpEngine.configs` | load, save, invalidate | a save changes what was patched and nothing else | `Ledger` |
| Invoices (`services/invoicing.rs`) | `invoices`, `invoice_lines` | create, edit, delete, post, credit note, write off | gross = settled + due; the receivables account agrees with the documents | `Receivables` |
| Payments (`services/payments.rs`) | `payments`, `mpesa_transactions`, `paystack_transactions` | record, apply, gateway callbacks | amount = applied + unapplied, and that is what was settled; one payment per charge; no charge is lost | `Receivables` |
| Scheduler, assets, amortization (`services/scheduler.rs`, `assets.rs`, `amortization.rs`) | schedules, asset register | hourly tick, run now | each month's job is done once and none is skipped | `Scheduler` |
| Purchasing (`services/procurement.rs`, `bills.rs`, `debit_notes.rs`, `supplier_credit_notes.rs`, `expense_claims.rs`, `approval.rs`) | requisitions, tenders, bids, orders, receipts, bills, notes, claims | request, award, order, receive, lodge, approve, post, pay | one winner; lines of an order on approved bills are covered by receipts; what is marked is booked | `Purchasing` |
| Inventory, warehouses, work orders, till (`services/inventory.rs`, `warehousing.rs`, `manufacturing.rs`, `pos.rs`) | items, warehouse stock, work orders, shifts | receive, issue, count, transfer, make, sell, close | warehouses add up to `on_hand`; the ledger follows the stock value | `Stock` |
| Reports (`services/reporting.rs`) | none | statements, ledgers, ageing, customer statement | reports computed from different rows agree | `Reports` |
| Bank (`services/bank.rs`, `statement_pdf.rs`, `statement_xlsx.rs`, `transactions.rs`) | imports, queued lines, reconciliations | parse, import, match, categorise, split, reconcile | every movement once in the queue and once in the books | `Statements`, `Banking` |
| Currencies and companies (`services/fx.rs`, `intercompany.rs`, `consolidation.rs`) | rates, group members, two ledgers | revalue, reverse, charge, consolidate | revaluations net out; one parent; the group balances but for rounding | `Group` |
| Payroll and leave (`services/payroll.rs`, `leave.rs`) | leave requests and balances, pay runs, loans | request, decide, carry over; compute, post, repay | balances say what requests say; a run is booked once and balances | `Workforce` |
| Notifications (`services/notification_worker.rs`, ...) | a Redis stream, rows per delivery, providers | emit, read, deliver, retry, acknowledge, remind | a row says what happened; nothing is acknowledged half done | `Notifications` |
| e-TIMS (`services/etims.rs`) | device, counter, receipts | configure, register, transmit | numbers are distinct, a document has one receipt | `Etims` |
| Accounts, sessions, roles (`auth/`, `rbac/`, `routes/users.rs`) | users, refresh tokens, roles, permission cache | log in, refresh, invite, change, suspend | rights follow the accounts | `Access` |
| Portals (`routes/portal_auth.rs`, `staff_auth.rs`, `customerportal_auth.rs`) | portal accounts, links, sessions | invite, apply, approve, reset, log in | a link works once; an invited account has a way in | `Portals` |
| Tenants, subscription, platform (`tenant/`, `services/billing.rs`, `platform.rs`) | tenants, memberships, operators; subscription and its directory | sign up, join, leave, archive; check out, renew, cancel, suspend | a tenant keeps an Owner; no period is charged twice | `Tenancy`, `Billing` |
| Quotes, CRM, projects (`services/invoicing.rs`, `crm.rs`, `projects.rs`) | estimates, leads, opportunities, budgets | quote, convert, move, close, tag | a quote is billed once; stage, status and events agree | `Pipeline` |
| Corporation tax, forecast (`services/cit.rs`, `forecast.rs`, `routes/tax_filings.rs`) | provisions, filings | provide, file, remit, forecast | provided and paid once | `Tax` |
| AMOS (`amos/src/`) | sessions, pending confirmations, routines, memories | call a tool, confirm, nudge, tick, remember | no posting without the user's approval of this call | `Agent` |

Components interact in three ways. Subsystems **call** `create_and_post_in_tx`
inside their own database transaction, so that a document and its journal entry
commit together. They **share rows**: every posting locks the tenant's
`entity_settings` row, because the journal counter is in it. And effects that
may fail alone (audit events, notifications, e-TIMS, reminder cancellation) are
run **after the commit**, best effort.

What is hard in this code:

* Postgres runs READ COMMITTED and no service uses `SELECT ... FOR UPDATE`. The
  usual shape is *read on the pool, decide, open a transaction, write*, so
  everything decided on may have changed when it is written.
* A transaction holds one pooled connection and needs a second one for
  `config_for` and `fiscal_year_for_date`.
* Services lock the invoice row and the settings row in different orders.
* Callbacks are delivered at least once and may overlap or follow a crash.
* A handler's future is dropped at any `await` when the client goes away.

`PROJECT.json` lists these hazards at the lines where they bite.

## 2. Modules

Three groups. The **ledger** group has the general ledger, its abstract
specification and the receivables side. The **operations** group has one module
per component around the ledger, and `MCOperations` puts small instances of all of
them into one specification. The **proofs** are in modules of their own, which
extend the module they are about.

| Module | Contents |
|---|---|
| `Ledger` | posting, reversal, numbering, periods, year-end close, settings and their cache, connection pool |
| `Journal` | what readers of the ledger may rely on: an append-only, balanced, gapless book; `Ledger` implements it (`ImplementsJournal`) |
| `Receivables` | invoices, payments, credit notes, write-offs, M-Pesa and Paystack callbacks, overdue marking |
| `MCLedger`, `MCReceivables` | model values and definitions of the `.cfg` files |
| `Scheduler`, `Purchasing`, `Stock`, `Reports`, `Statements`, `Banking`, `Group`, `Workforce`, `Notifications`, `Etims`, `Access`, `Portals`, `Tenancy`, `Billing`, `Pipeline`, `Tax`, `Agent` | the components of section 1 |
| `MCOperations` | their instances, their composition and properties |
| `MCRaces` | instances of two components in which a comment of the code turns out false |
| `SumProofs` | what sums over finite sets obey: adding, changing, removing an element, splitting the set |
| `LedgerProofs` | every invariant of `Ledger`, and that it implements `Journal` |
| `ReceivablesProofs` | every invariant of `Receivables` |
| `PlatformProofs` | the properties of `Billing`, `Tenancy`, `Access` and `Notifications` |
| `TradeProofs` | the properties of `Etims`, `Purchasing` and `Stock` |
| `FrontProofs` | the properties of `Agent` and `Portals` |
| `ServicesProofs`, `OperationsProofs` | the same properties in the composition |

**Workers.** In `Ledger` and `Receivables` a worker is one request (HTTP handler, agent tool
call, scheduler task). `job[w].pc` says at which database statement it is. One
action is one statement, or a run of statements no other request can tell apart:
reads that only decide whether the request goes on are merged with its start,
because a request that is refused at once changes nothing; a read whose
*result is used later* is a step of its own or is remembered in `job[w]`. A
transaction's writes become visible in its `Commit` action; until then they are
in `staged` (`Ledger`) or are recomputed at the commit from the row that the
transaction has locked (`Receivables`). A row lock is a variable because waiting
for it is what orders the requests.

**`Ledger`.** `create_and_post_in_tx` is `Check` (period status, read in the
transaction), `TakeNumber` (the `UPDATE ... RETURNING` that locks the settings
row), `Insert` (header, lines, balance check, rounding line, uniqueness,
trigger) and `Commit`. The settings counter advances at `Commit`, since a
rollback undoes it. `Miss`, `Load` and `Fill` are `config_for` on a cache miss;
`Load` needs a second connection. `update_settings` is `Patch` (a copy of the
whole cached configuration), `BorrowForSave` (its `UPDATE` takes a connection and
keeps it while it waits for the row), `WriteSettings` and `InvalidateConfig`.
`close_period` and `reopen_period` decide at their start and write in
`MarkPeriod`. A line amount is an integer number of cents, positive for a debit.
A journal number is the pair of its year and its counter; which year it carries
depends on whether a second connection is to be had (`NumberYear`).

**`Receivables`.** Posting is reduced to locking the settings row and moving
three account balances at the commit, or failing; `Ledger` has the rest. Each
`Commit...` action writes what the code writes: relative to the current row
(`record_payment`, `write_off_invoice`) or absolute, from the row read before
the transaction (`create_credit_note`, `apply_unapplied_payment`). `Order` is the
order of a service's two locks. `Claim`, `Lookup` and `Link` are the gateway
handlers around `record_payment`. `Fail` ends a request at any step for reasons
outside the model: crash, dropped connection, closed period, missing stock.
`Dismiss` is the webhook whose first query fails. A payment row remembers, as
history, what its applications took off invoices (`spent`) and how often two of
them overlapped, which the row itself does not show.

**`Journal`.** The refinement maps `book` to the committed entries, `struck` to
the numbers of reversed entries and `totals` to the snapshots. Requests,
transactions, locks, caches and the pool are hidden: `ImplementsJournal` says
that whatever they do, a reader sees whole postings only.

**Operations modules.** They have the same shape. A request that reads and
writes in one statement or transaction is one action; one that reads, waits and
writes later, or commits several times, is a `Start...` action that remembers
what was read in a record (`desk`, `task`, `teller`, `run`, ...) and one action
per commit after it. A stop is an action of its own (`Crash`, `Stop`, `Break`,
`Halt`, `Cut`), bounded by a constant. Amounts are integers in cents, dates are
day or month numbers. Variables marked "history" only record what happened, for
the properties.

* `Scheduler`: `Tick` starts the jobs of one process; `JournalsDue`,
  `CheckReference`, `SkipJournal`, `PostJournal` are one recurring journal, and
  likewise for invoices, report schedules, depreciation and amortization;
  `RunNow` is a user's request for the same job, `MovePeriod` opens and closes
  periods around it.
* `Purchasing`: one `flow` at a time (requisition, tender, bill, claim, note).
  `AwardOrder`, `Award`, `RejectOthers`, `CloseTender` are the four commits of
  `award_tender`; `LodgeBill`, `LinkBill`, `MarkInvoiced` those of the supplier's
  lodging; `Matches` is the three-way match as the code does it: over the lines of
  the order only, and passed when what was billed could not be read. A bill has its
  quantity on lines of the order (`qty`) and on others (`off`).
* `Stock`: unit costs in hundredths of a cent, postings rounded to cents, as in
  the code; `CompleteWorkOrder`, `PostSale`, `PaySale`, `TagSale`, `CloseSession`.
* `Reports`: the reports change nothing, so they are operators over a book that
  grows by postings and reversals, and over a customer's documents.
* `Statements`: a file is the bank's record rendered in a format, and each parser
  has to read it back; `DedupKey` and `CommitImport` are the duplicate detection.
* `Banking`: `StartCategorise`, `PostLine`, `LinkLine` are three commits; a split
  and a reconciliation likewise. `StartComplete` takes any entries it is sent, as
  the handler does; whether they are those that compute offered is remembered.
* `Group`: rates with their look-up, revaluation and its reversal as two
  commits; adding a parent as the demotion of the others and an insert; a charge as
  two entries in two ledgers; consolidation as an operator that translates the
  debits and the credits of each account and rounds each to the cent.
* `Workforce`: leave in half days against balances that accrue and carry over; a
  pay run from `compute` to `post` with the PAYE bands, statutory deductions,
  inputs, unpaid leave and loans of `payroll/compute.rs`; posting in separate
  commits by each of the `Clerks` (`StartPosting`, `PostPayRun`, `MarkPosted`,
  `ReadLoan`, `AmortizeLoan`).
* `Notifications`: `ReadStream`, `InsertRow`, `Deliver`, `UpdateRow`, `Ack` are the
  worker; `Remind`, `MarkOverdue` and payments (`ReadBalance`, `Pay`,
  `FetchBalance`, `CancelReminders`, of two at once) meet on an invoice. A save of a
  provider with a blank secret is a read and a write (`StartEdit`,
  `UpsertProvider`), one with a secret is one statement.
* `Etims`: the authority may accept, refuse, or accept while the answer is lost.
* `Access`: access tokens are good until they expire whatever happens to the
  account; refresh tokens are rows; the permission cache is filled and cleared in
  steps of its own.
* `Portals`: the three portals share their protocol and differ in how accounts
  begin: an application that is approved, an invitation, or a sign-up.
* `Tenancy`, `Billing`: memberships read and written in separate statements, the
  sign-up limiter that fails open; the charge made before it is written down; the
  directory's missing row, made by whoever needs it first (`Ensured`,
  `ListTenants`).
* `Pipeline`: quotes and conversion, opportunities over stages, project actuals
  from tagged journal lines.
* `Tax`: estimate and provision over one year's book; allowances over fiscal
  years that end with any month (`FiscalWindow`); remittances; the weeks of the
  forecast.
* `Agent`: the language model is any choice of tool calls; the user's click, the
  inner and the outer deadline race; ticks of the routines take time.

**Composition.** `MCOperations` has all their variables and a `focus`: a
behaviour exercises one instance, and the others rest. The components share no
state their properties speak of, since what they share, postings in the ledger,
is in `Ledger`. Where one component calls another (an invoice posted by the
till, a payment of a bill, a reminder cancelled by a payment), the caller's
module has what the call does to the state at hand.

**External.** Postgres' deadlock detector (`Deadlocked`, `DeadlockVictim`), the
gateways' retries and charges, the tax authority, message providers, Redis'
consumer group and the language model are modelled from how the code uses them.

## 3. Runs

| Run | Shows |
|---|---|
| `posting` | The ledger's invariants, the refinement of `Journal` and the end of every request, with two concurrent requests of every kind but year-end close |
| `year_end` | Year-end close against postings, period closes and a second year-end close; again the refinement |
| `collections` | Row-level conservation, acknowledged callbacks and the end of every request, with two requests and repeated callbacks on one invoice |
| `receivables` | Control accounts against documents, and the arrival of every charge, one request at a time, over every operation |
| `operations` | The components around the ledger, one at a time, over the overlaps and stops each is exposed to |
| `counter_rewound` | violation: a settings save rewinds the journal counter |
| `reversal_in_closed_year` | violation: an entry reversed into a later year is left behind by the closing entry |
| `reopen_race` | violation: a reopen undoes a hard close |
| `duplicate_callback` | violation: two deliveries of a callback become two payments |
| `dismissed_charge` | violation: a database error makes Paystack stop retrying |
| `stock_take` | violation: a count that overlaps a receipt leaves the warehouses apart from `on_hand` |
| `reversed_cash_flow` | violation: the cash-flow statement of a reversed entry ends on cash that is not there |

The violations are disagreements between the code and its own comments or
documentation, quoted under "findings" in `PROJECT.json`. Each is checked on the
same modules as the passing runs, with other bounds or, in `MCRaces`, on an instance
of the one component concerned.

Elsewhere, too, the code does less than it means to, and the properties of the
passing runs say how far it goes; TLC finds the counterexample to the statement
without the exception as soon as the constants in brackets allow it.

| Property | Exception | Why |
|---|---|---|
| `PaymentConserved` | applications of the payment that overlapped (`overlaps`); they may settle more than was paid | `apply_unapplied_payment` writes what it computed from an earlier read |
| `ReceiptsCoverApprovals` | lines the order does not have; a query that failed | `three_way_match` walks the order's lines and takes an error for nothing billed |
| `LineBookedOnce` | one entry more for each stop between entry and link; one of the `Bankers` at a time | `categorise` checks, posts and links in three statements |
| `RecordedBalances` | entries that `compute` had not offered | `complete` sums any entries it is sent |
| `OneParent` | additions of a parent that overlap (two `Desks`) | `add_member` demotes and inserts in two statements |
| `GroupBalances` | half a cent for each translated figure | debits and credits are rounded account by account |
| `PaidOnce`, `LoanRepaid` | posts of one run that overlap (two `Clerks`) | `post_pay_run` reads the status without a lock |
| `SecretKept` | a save that another one of the channel overtook | `upsert` reads the stored secret and writes it back |
| `StatusMatchesBalance` | none: two payments may leave less than nothing due, which is paid | `record_payment` reads the balance before its transaction |
| `SuspensionConsistent` | a row the listing made for an archived tenant (`listed`) | `list_tenants` inserts it as suspended |
| `WrittenDownOnce` | one year's allowance more when the calendar turned between the start of the fiscal year and the purchase | `asset_allowance` counts calendar years |

Three positive results are worth a remark. The torn year-end close (a posting
between the two aggregate queries) is possible but never *commits*: the opening
entry is then out of balance by the amount, and the poster refuses it. What the
poster does accept is a residue within its tolerance, so an opening entry has no
profit-and-loss line but that of rounding (`OpeningHasNoPnl`). The pool deadlock (every connection held by a
transaction or a settings save that waits for the settings row, whose holder waits
for a connection) ends only
because acquiring a connection times out: `RequestsTerminate` fails without that
timeout. And `InvoiceConserved` holds although a credit note overwrites a
concurrent payment, because it overwrites both columns; what such a race does
break is the agreement with the ledger.

That is why `ArReconciles` and `UnappliedReconciles` are checked with one request
at a time: with two workers, a credit note or a draft edit overlapping a payment,
two applications of one payment, or two posts of one draft make them false.
Run sequentially, over every order of operations and a failure at every step,
they hold.

### The `operations` run

Each property is a conjunction of named parts, one or several per component
module, where each part has its own comment. Most parts are checked in the
instances ("foci") made for them:

| Property | Parts (module) | Foci |
|---|---|---|
| `SchedulesExact`, `JournalsCatchUp` | `NoRunLost`, `AccrualsReversed`, `AssetConserved`, `PostedOnce`; liveness (`Scheduler`) | `alone`: one process with crashes; `shared`: with a user |
| `PurchasesBooked` | `OneWinner`, `BookedBeforeMarked`, `ReceiptsCoverApprovals`, `BillConserved` (`Purchasing`) | `buying`: one request; `overlap`: two |
| `StockAccounted` | `ShelvesAddUp`, `StockCovered`, `WipNetsToZero`, `TakingsDeposited` (`Stock`) | `counter`: one request, may stop; `floor`: two |
| `ReportsAgree` | `BalancesComplete`, `StatementsBalance`, `EarningsAgree`, `ViewsAgree`, `StatementAgrees`, `BucketsComplete` (`Reports`) | `reporting` |
| `BankLinesOnce` | `FormatsAgree`, `PdfSides`, `SummaryCatches`, `QueueComplete` (`Statements`); `ReportComplete`, `LineBookedOnce` (`Banking`) | `importing`: two; `queueing`, `clearing`: one request, may stop |
| `GroupConsolidates` | `RevaluationsNetOut`, `OneParent`, `GroupBalances`, `SelectedBalances` (`Group`) | `grouping`: one request, may stop |
| `WorkforceAccounted` | `LeaveConserved`, `NoOverdraw`, `UnpaidDocked`, `PayeByBand`, `RunBalances`, `PaidOnce`, `LoanRepaid` (`Workforce`) | `leaving`, `docking`, `paying`, `adding`: one request, may stop |
| `MessagesTruthful` | `RowsTruthful`, `AckedDecided`, `StatusMatchesBalance` (`Notifications`) | `sending`, `configuring`; `reminding`: two payments at once |
| `ReceiptsTransmitted` | `NumbersDistinct`, `HeldOnce`, `ReceiptsFollow` (`Etims`) | `transmitting`, `racing` |
| `AccessSound` | `OwnerRemains`, `StaleUntilRefresh`, `SessionsDoNotMultiply`, `SupportStaysReadOnly`, `SuspensionEndsSessions`, `CacheFresh`, `DutiesSeparate` (`Access`) | `signing`, `renewing`, `supporting`, `granting` |
| `SubscriptionSound`, `TenantsSound` | `CancelSticks`, `ChargedOncePerPeriod`, `AttemptsLeft`, `SuspensionConsistent`, `DirectoryFollows` (`Billing`); `TenantOwned`, `KeepsWorkspace`, `SignupsLimited`, `AdminRemains`, `PeriodsTile` (`Tenancy`) | `billing`; `settling`, `enrolling`, `operating` |
| `AssistantSupervised`, `RoutinesOnce` | `PostsOnlyApproved`, `RefusedStaysUndone`, `ActsAsItsUser`, `Audited`, `NudgesSpent`; `OneAtATime`, `LedgerTruthful`, `OccurrencesOnce`, `StoredOnce` (`Agent`) | `conversing`, `planning`; `ambient`, `learning` |
| `SalesTrailHolds` | `QuoteBilledOnce`, `ConvertedIsFrozen`, `LinkedBack`, `LeadLinked`, `ClosedIffDecided`, `EventsChain`, `StagesAddUp`, `OnePipeline`, `CostIsLive`, `VariancesAddUp` (`Pipeline`) | `quoting`, `bidding`, `selling`, `competing`, `costing` |
| `TaxSound` | `EstimateUnmoved`, `TruedUp`, `WrittenDownOnce`, `RemittancesAgree`, `NothingDueOncePaid`, `InstallmentCalendar`, `ForecastComplete`, `WeeksHold` (`Tax`) | `providing`, `remitting`, `forecasting` |
| `PortalAccountsSound` | `InvitedCanEnter`, `LinkSingleUse`, `SignupHasLead`, `OneSessionPerLogin`, `ActiveIsLinked`, `ServedWhileActive` (`Portals`) | `supplying`, `staffing`, `hosting`, `calling`, `logging`, `shopping` |
| `DecisionsStand`, `FiguresTie` | action properties `RequisitionDecided` (`Purchasing`), `ShiftFinal` (`Stock`), `SecretKept` (`Notifications`), `LinkKept` (`Portals`); `LedgerTracksStock` (`Stock`, always while `counter`), action properties `RecordedBalances` (`Banking`), `RevaluedAtRate` (`Group`) | all of these modules' foci |

The instances are chosen so that a property is stated where it holds. Where it
fails under an overlap or a stop, the part's condition says so (a lapse, a cut, a
crossing recorded in a history variable), or its focus has one request at a time.
Met on the way, and visible in these conditions:

* **Purchasing.** The three-way match never sees a line the order does not have,
  and takes a failed query for nothing billed.
* **Bank.** A request that stops between the entry and the link leaves the line to
  be posted again; `complete` sums whatever entries it is sent.
* **Group.** Members are changed in two statements; translation rounds each figure.
* **Payroll.** A run is found approved and posted in separate statements, so two
  requests, or one that stopped and one after it, post it twice.
* **Scheduler, messages.** The reminder cancellation after a payment finds
  nothing to cancel; the hourly tick sends the reminder of a day again each hour;
  `run_overdue_check` has no caller; `schedule_at` is not looked at; a message a
  stopped worker had read is never claimed again. Two payments that read one
  balance overpay the invoice, which is then paid with a balance below zero.
* **Etims.** The number is read before the call and the counter set after it, so
  two requests may use one number; the properties that concern numbers hold for
  one request at a time.
* **Access.** An access token outlives a demotion until it expires; an invited
  Owner without a password counts as an active one; overlapping requests can
  break `OwnerRemains`, `SessionsDoNotMultiply` and `CacheFresh`.
* **Billing.** A cancellation that overlaps a failing renewal is undone; a
  repeated `charge.success` revives a cancelled subscription; a new checkout
  clears the period already paid; unsuspending makes a past-due tenant active;
  the listing makes an archived tenant's missing row a suspended one.
* **Tenancy.** The sign-up counter is read and recorded apart, and fails open.
* **Agent.** The outer deadline, set first, normally fires before the inner one
  and leaves the request pending and unaudited; rows left `running` by a restart
  are not repaired and pauses are lost; duplicates beyond the search limit are
  not seen.
* **Pipeline.** Overlapping or cut-off conversions bill a quote twice; an edit may
  overlap a conversion; an opportunity created in a won or lost stage stays open;
  two first requests seed two pipelines; two budget lines of one account both
  claim its actuals; project costs are right only because reversals carry no
  dimensions.
* **Tax.** Overlapping provisions double; the estimate is zero once the year is
  closed; quarters of a tax not divisible by four may not add up to it; in a fiscal
  year that does not begin in January an asset bought after the turn of the calendar
  year is allowed five years' worth of four.
* **Portals.** A repeated approval creates and links a second vendor; a new link
  stored during `set_password` is cleared with the old one; an invitation cut off
  between its statements leaves an account only "forgot password" can open.

### Bounds

| Bound | Value | Why it is enough |
|---|---|---|
| `Workers` | 2 (1 in `receivables`) | every hazard listed is a race of two requests |
| `PoolSize` | 2 | as many as workers: both can hold one and want another |
| `PeriodsPerYear`, `Years` | 1, two years | the code treats the months of a year alike, except first and last, which coincide |
| `Accounts` | cash, retained earnings, sales | one account of each kind the close tells apart |
| `MaxRequests` | 3 to 5 | post, reverse and a third; post, soft close, hard close and two year-end closes |
| `Invoices`, `Charges`, `Amounts` | 1–2, 1, 1–2 | full, partial and over-payment of an invoice are among them |
| `MaxDeliveries`, `MaxFaults` | 2, 1 | one failure at any step, and the retry after it |

In `operations`: two requests at once where an overlap is the point, else one;
one stop (`MaxCrashes`, `MaxLapses`, `MaxStops`, `MaxBreaks`, `MaxCuts`,
`MaxHalts`, `MaxOutages`), placed anywhere; two documents or rows of a kind, the
least that can be confused; three months, or two when a user takes part; days on
both sides of each period or ageing boundary. About 900,000 states in all.

`TypedCounters` (counters an administrator types into the settings form) is empty
in the passing runs: typing a counter may skip or repeat numbers by intent.

### Fairness

`Step(w)` is weakly fair: the runtime polls a request that can go on, Postgres
answers, and a wait for a connection ends in sqlx's acquire timeout. Nothing is
assumed about clients: `Request`, `Abort`, `Fail` and `MarkOverdue` may never
happen. In `Receivables` a callback is weakly fair while it is unanswered, since
both gateways retry until they get a success answer. Deliveries are bounded by
`MaxDeliveries`, so `ChargesRecorded` is about a charge with fewer failures than
deliveries, which the bounds ensure.

In `operations` only the one process of the focus `alone` is fair: its tick and
the steps of its jobs, weakly, because `main.rs` spawns the hourly loop and
nothing ends it. Crashes are bounded. On that rests `JournalsCatchUp`. All other
components are checked for safety only.

## 4. Proofs

Proved by TLAPS for every value of the constants, hence for any number of
requests, accounts, entries, invoices, papers or routines, and for every
interleaving. A proof has one lemma per action or group of alike
actions, and under it one step per part of the invariant the action can disturb;
the last step of a theorem combines them with PTL.

### Assumptions

`ConstantsOK` of `Ledger` and of `Receivables` says that constants have their types
and that reserved values differ from real ones. Workers, accounts and invoices
are finitely many, since the statements add up over them. Each other module's
assumptions are a definition of its proof module, which the theorems name:

| Assumption | Says | For |
|---|---|---|
| `PapersOK` | papers are finitely many; a credit note corrects a paper of the same books | `Etims` |
| `SettingsOK` | a principal is a user; a cron expression fires at positive minutes | `Agent` |
| `UnitsOK`, `OrdersGiven` | quantities and the number of bills are natural numbers | `Purchasing` |
| `LotsOK`, `ShopGiven` | a lot has units at a cost, a recipe makes and uses at least one, staff are finitely many | `Stock` |
| `CountsOK` | persons, tenants and operators are finitely many; the sign-up limit is a number | `Tenancy` |
| `HoursOK` | lifetimes are numbers of hours; people are finitely many | `Access` |
| `MailOK` | at least one attempt is made, a read takes at least one letter; bills are for something; only events with default channels are emitted; an edit says whether it has a secret | `Notifications` |

`Billing` and `Portals` need nothing. `OrdersGiven` and `ShopGiven` are about the
constants that `MCOperations` leaves to its `.cfg`.

Some statements hold only while requests that check and then write do not overlap,
since the code does both in separate statements without a lock: `Alone` (one
transmission in `TradeProofs`, one visit in `PlatformProofs`), `OneClerk`, `OneStaff`,
`OneByOne`. Handlers of one statement may still come between, and a request may
stop wherever its module lets it. With two such requests TLC
finds counterexamples; the instances with an overlap check what is left.
`CountedAlone` is weaker: people may overlap unless stock is counted, where
`stock_take` shows what goes wrong.

### The ledger (`LedgerProofs`)

| Theorem | States |
|---|---|
| `LedgerTyped` | `TypeOK` |
| `NumberingGapless` | `NumbersGapless`, if no administrator types a counter |
| `BooksBalance` | `EntriesBalanced` |
| `SnapshotsExact` | `SnapshotLockstep` |
| `ReversalsMirrored` | `ReversedIffLinked` |
| `YearEndTogether` | `YearEndPaired` |
| `OpeningsClean` | `OpeningHasNoPnl` |
| `JournalImplemented` | `ImplementsJournal`, if no administrator types a counter |

None of these is inductive: they say nothing of what a transaction has staged or a
request has planned. The invariants add that.

* `CoreInv`: control state of each request (`ControlOK`); whoever has taken a number
  holds the row lock, so there is one such transaction (`LockHeld`); its staged rows
  continue the counter it took (`StagedRows`); numbers are unique, which is the
  UNIQUE constraint at work (`UniqueNumbers`).
* `GaplessInv` adds `CountersReached`: no copy of the counter, in the row, in the
  cache or in the hands of a request that is saving settings, is beyond the last
  number issued plus one. That is why a stale save, which rewinds the counter
  (`counter_rewound`), can block posting but cannot make a gap. A typed counter
  breaks it, hence the condition.
* `JournalInv`: a request is about to post one entry, perhaps the mirror image of a
  committed one, or the pair of a year's end, and has come so far (`PlanOK`); the
  rows it has inserted are the first of these, in order (`StagedOK`); and the
  committed entries balance, are finitely many, agree with the snapshots, are linked to
  and mirrored by their reversals, and come in pairs at a year's end (`BooksInv`).
  The snapshot theorem needs sums: an entry's commit changes an account's sum by
  exactly that entry's line.
* `PoolInv`, for `LedgerTyped`: the free connections and those in the hands of
  transactions and of settings saves add up to the pool, and the holder of the row
  lock is a transaction.

The refinement proof maps the start to `Journal`'s start and each step to a step
of `Journal` or a stutter. Only `Commit` is not a stutter, and it needs both the
numbering and the book invariant.

### Receivables (`ReceivablesProofs`)

| Theorem | States | Holds for |
|---|---|---|
| `ReceivablesTyped` | `TypeOK` | every interleaving |
| `AnsweredIsRecorded` | `AckedIsRecorded` | every interleaving |
| `PaymentsConserved` | `PaymentConserved`: the row adds up; it says what was settled unless two of its applications overlapped | every interleaving |
| `BankHoldsPayments` | `BankMatchesPayments` | every interleaving |
| `InvoicesConserved` | `InvoiceConserved` | every interleaving without draft edits; every serial execution |
| `ReceivablesReconcile` | `ArReconciles` | every interleaving in which no request rewrites an invoice from an earlier read (`NoRewriting`); every serial execution |
| `CreditReconciles` | `UnappliedReconciles` | every interleaving without applications; every serial execution |

The conditions are the races of section 3: outside them the statement is false,
and TLC finds the counterexample with two workers. `Serial` is "at most one
worker", with a failure possible at every step, and all operations.

`PaymentsInv` says what a request may rely on after its reads (`Sound`): a callback
past its commit has its payment on record; a pending payment's number is its own;
an application was cut from a consistent copy of its payment whose total has not
changed. `Answered` covers links as well as answers, since a linked claim is
later answered without another look. `BankInv` says that payments are finitely
many and a number is a key. `LockInv` says that a row is locked only by a
transaction that has come to the point of locking it. `LastingInv` says that, while
nobody rewrites invoices, what a commit settles is settled on an invoice that
stands, and `SerialInv` that alone a request's copy of a row is the row.
`InvoiceInv` says of a credit note under way that its copy adds up even when it is
stale. From these the reconciliations are inductive, with `SumProofs` for the
totals.

### Operations

| Theorem | States | Condition |
|---|---|---|
| `PlatformProofs!SubscriptionHolds` | all five parts of `SubscriptionSound` | |
| `PlatformProofs!TenantsHold` | all five parts of `TenantsSound` | `Alone` |
| `PlatformProofs!AccessHolds` | all seven parts of `AccessSound` | `OneByOne` |
| `PlatformProofs!MessagesHold` | all three parts of `MessagesTruthful`, for any number of payers whose payments overlap | |
| `PlatformProofs!SecretsKept` | the action property `SecretKept`, for any number of editors whose saves overlap | |
| `TradeProofs!ReceiptsInOrder` | `ReceiptsFollow` | |
| `TradeProofs!ReceiptsOnce` | `NumbersDistinct`, `HeldOnce` | `Alone` |
| `TradeProofs!PapersHold` | `BookedBeforeMarked`, `OneWinner` | |
| `TradeProofs!RequisitionsDecided` | the action property `RequisitionDecided` | |
| `TradeProofs!BillsHold` | `ReceiptsCoverApprovals`, `BillConserved` | `OneClerk` |
| `TradeProofs!ShelvesHold` | `ShelvesAddUp`, `TakingsDeposited` | `CountedAlone` |
| `TradeProofs!CoverHolds` | `StockCovered`, `WipNetsToZero` | `OneStaff` |
| `TradeProofs!ShiftHolds` | the action property `ShiftFinal` | |
| `FrontProofs!Supervised` | all parts of `AssistantSupervised` | |
| `FrontProofs!WorkDoneOnce` | all parts of `RoutinesOnce` | |
| `FrontProofs!AccountsSound` | all parts of `PortalAccountsSound` | |
| `FrontProofs!LinksKept` | the action property `LinkKept` | |

* Billing: unless a request and a renewal have overlapped, one of them rests, the
  status a mirror carries is the row's, and a renewal works on an active row
  (`InStep`); the directory shows the row while no mirror is due (`Shown`).
* e-TIMS: a number on its way to a paper was issued for it (`InTransit`). Alone, the
  number in hand is the counter's next (`Underway`), the authority's copies of a
  paper are its receipt and those whose answer was lost (`CopiesCounted`), and papers
  share a number only as often as a stop came before the counter was set
  (`NumbersCounted`).
* Agent: each phase of a call fixes what its card, its click and its audit record
  can be (`PhaseOK`), and so does everything done (`DoneOK`); a run holds its
  routine's guard and the row that is running (`FlightsOK`, `LogsOK`); each
  occurrence a tick has dealt with was taken by exactly one, and none later than
  that was (`SchedulesOK`); what a search found complete stays
  so until the memory is written (`LearnInv`).
* Portals: who can have a link and must have a record, and no two accounts share a
  link (`AccountsOK`); what a request has read still holds where it relies on it
  (`DesksOK`); a cookie is in one browser, and a browser that is rotating has the
  only usable token of its login (`CookiesApart`, `InHand`).

* Tenancy (`TenancyInv`): a visit that is about to leave or archive has found
  another owner or another workspace (`SeatsInv`), one about to be counted was within
  the limit when it looked or looked in vain (`SignupInv`), and one about to
  deactivate an operator found another super admin (`StaffInv`). `PeriodsTile` is
  arithmetic over the twelve months a year may begin in.
* Access (`AccessInv`): the tables keep their shapes and a request in hand still
  holds what it read (`AccessType`, `InHand`); who is demoted or deactivated
  leaves another owner (`OwnersInv`); tokens not revoked, and the one a rotation is
  about to issue, are no more than the logins (`SessionsInv`); a token's `readonly`
  is what was meant, and all tokens up to the last suspension are revoked
  (`SupportInv`); while no request is between a role's write and the clearing of
  the cache, cached permissions are those of the table (`RolesInv`).
  `StaleUntilRefresh` needs that a change is noted at the hour it is made and no
  badge is from a later one.
* Notifications (`NotifyInv`): a bill is paid exactly when nothing of it is due, and
  once something was paid it is never overdue again, so a payment never finds
  reminders to cancel (`DuesInv`); the courier's work, with its attempts and the row
  it has inserted, agrees with the notice it writes, and every pair before the one in
  hand was decided or is known to be skipped (`MailInv`); the ticker's work is
  about bills (`TodoInv`). For the secret, a save under way carries what is stored
  unless it was overtaken (`EditInv`).
* Purchasing (`PurchaseInv`): what a clerk has read is still so where the next
  statement relies on it, though others may have gone on (`DesksOK`); while awards
  are under way, one that has marked its bid will reject the others (`WinnerInv`).
  `ClerkInv` adds, for one clerk, that the quantities of approved bills, on lines of
  the order and unless the match went unread, are within the receipts (`Covered`),
  and what the clerk read of the bill in hand is what the row says.
* Stock (`StockInv`): a movement changes a shelf and the item's quantity by the same
  amount, and the warehouses on the list are the ones goods can lie in
  (`StoreOK`, `ShelvesOK`); a sale's postings, payments and tags come in
  that order, those of each tender counted with the people who have still to pay
  or tag (`TillOK`). `SoloInv` adds, for one person, that what was checked is
  still there (`StillHolds`) and that work in progress is the order's material.

`ServicesProofs` and `OperationsProofs` carry these over to the properties the
`operations` run checks (`SubscriptionsSound`, `TenantsAreSound`,
`AccountsAreSound`, `MessagesAreTruthful`; `ReceiptsSound`, `PurchasesAreBooked`,
`StockIsAccounted`, `AssistantIsSupervised`, `RoutinesRunOnce`, `PortalsSound`, and the
action property `DecisionsHold`): the component in focus takes its own steps only
and one that is not in focus rests, and the component's instance in `MCOperations`
is shown to be the one of the proofs. Each theorem there is about the instances
of the run, whose conditions on overlaps are shown to be those of the component's
theorem; the quantities of `OrdersGiven` and `ShopGiven` stay arbitrary.

### Sums

The modules add up with the folds of the community modules, which are defined
by recursion. `SumProofs` proves that the fold's equation has a solution and only
one, by taking a smallest counterexample among the subsets of a finite set, and
from it the rules the other proofs cite.

### What the proofs changed

`Billing`'s choice of the next status was a `CASE` with overlapping guards, which
TLC resolved silently; it now follows the code's order. `AttemptsLeft` turned out to
hold also after an overlap and is stated so. `OpeningHasNoPnl` was true on the
runs' amounts only: with a tolerance, an opening entry may carry a residue.
`LedgerTracksStock` is a part of `FiguresTie`, not of `StockAccounted`: its bound of
half a cent and two units per movement is for the runs' small lots. With larger
ones, a unit cost that is rounded is off by more than that on the whole lot, so
that no proof for every value of the constants can be had.

### Only model-checked

* Liveness (`RequestsTerminate`, `ChargesRecorded`, `JournalsCatchUp`), which needs
  `ENABLED`.
* `FiguresTie`: `LedgerTracksStock` for the reason above; its other parts add up
  sequences of lines, rounded or multiplied by a rate, as do the parts of the
  properties that follow.
* `ReportsAgree`, `BankLinesOnce`, `WorkforceAccounted`, `TaxSound`:
  about operators over sequences of lines, of bands or of weeks (parsers, payroll,
  reports, forecast), whose value for every input needs induction over data.
* `SchedulesExact`, `GroupConsolidates`, `SalesTrailHolds`: their parts mix such
  operators (occurrences of a schedule, consolidated balances, totals by stage) with
  invariants of the kind proved above, which have not been proved yet.

## 5. Running

    tlc -workers 2 -config Posting.cfg MCLedger
    tlc -workers 2 -config Collections.cfg MCReceivables
    tlc -workers 2 -config Operations.cfg MCOperations
    tlapm LedgerProofs.tla

and likewise `SumProofs`, `ReceivablesProofs`, `PlatformProofs`, `TradeProofs`,
`FrontProofs`, `ServicesProofs` and `OperationsProofs`. The last two take ten to
twenty minutes each, since they have every instance of `MCOperations` in scope.

`PROJECT.json` names, for each property, a mutation of the code under which TLC
finds it violated. The mutated definitions stand above the ones they replace,
marked "Mutation".

## 6. Not modelled

* Within the modelled components: audit events (best effort, never read back);
  descriptions, dimensions and tax splits of lines; foreign currency and
  withholding tax within a payment; several applications in one payment; the
  pre-close checklist, which can be forced; account activity checks.
* Tenants are independent: every query is restricted to an `entity_id`. One is
  modelled, except in `Tenancy` and `Group`.
* Master data (accounts, parties, catalogue, employees, posting groups), single-row
  create, read, update and delete without a protocol; attachments and messages.
* Document layout, e-mail texts, exports, VAT and withholding returns, usage
  statistics: formatting and reads.
* Document capture (`services/ocr.rs`, `ocr_provider.rs`): outside services whose
  answer is only a proposal.
* The audit trail, the web interface: nothing modelled reads the one, and the
  other is a client of the API.

## 7. Plan

1. The parts of `SchedulesExact` (`PostedOnce`, `AccrualsReversed`) and of
   `SalesTrailHolds` (`QuoteBilledOnce`, `LinkedBack`, `OnePipeline`) that are
   invariants of the requests' steps.
2. `LineBookedOnce` (`Banking`), `OneParent` (`Group`), `PaidOnce` and `LoanRepaid`
   (`Workforce`) with the same method.
3. Foreign currency and withholding tax in payments, several applications.
