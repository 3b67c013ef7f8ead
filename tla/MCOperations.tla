---------------------------- MODULE MCOperations ----------------------------
(***************************************************************************)
(* The document flows around the ledger on small instances.  The           *)
(* components share no state that their properties speak of, so a          *)
(* behaviour exercises one of them, its focus, and the others rest in      *)
(* their initial state.                                                    *)
(***************************************************************************)
EXTENDS Integers

VARIABLE focus

(* Scheduler: by one process alone, and shared with a user. *)
CONSTANTS t1, u1, Kinds, LastMonth, EndMonth, AutoReverse, AssetCost, Residual, Life,
          RatePercent, Prepaid, Installments, MaxCrashes, MaxEdits
VARIABLES kind, created, today, period, ri, invoices, sent, report, rj, journals, reversals,
          asset, booked, am, paid, run, crashes, edits

Alone == INSTANCE Scheduler WITH Tickers <- {t1}, Users <- {},
             Cost <- AssetCost, Total <- Prepaid
Shared == INSTANCE Scheduler WITH Tickers <- {t1}, Users <- {u1}, MaxEdits <- 1, LastMonth <- 2,
              Cost <- AssetCost, Total <- Prepaid
scheduling == <<kind, created, today, period, ri, invoices, sent, report, rj, journals,
                reversals, asset, booked, am, paid, run, crashes, edits>>

(* Purchasing: by one clerk, and by two whose requests overlap. *)
CONSTANTS c1, c2, Vendors, Ordered, MaxReceived, MaxBills, MaxOff, Limit, Totals
VARIABLES flow, requisition, sourced, tender, bids, orders, order, received, bills, claim,
          notes, desk, lapses

Buying == INSTANCE Purchasing WITH Clerks <- {c1}, Flows <- {"bill"},
              MaxLapses <- 1, MaxDocs <- 2
Overlap == INSTANCE Purchasing WITH Clerks <- {c1, c2}, MaxLapses <- 0, MaxDocs <- 2,
              Flows <- {"requisition", "tender", "claim", "note"}
purchasing == <<flow, requisition, sourced, tender, bids, orders, order, received, bills,
                claim, notes, desk, lapses>>

(* Stock: one request at a time, and two that overlap. *)
CONSTANTS s1, s2, Output, PartsPer, Overhead, Price, Float, MaxMoves
VARIABLES area, items, shelf, sites, defaults, gl, wo, session, sales, task, moves, stops

Counter == INSTANCE Stock WITH Staff <- {s1}, MaxStops <- 1, Lots <- {<<1, 150>>, <<2, 101>>},
               Areas <- {"shelf", "count", "making", "till"}
Floor == INSTANCE Stock WITH Staff <- {s1, s2}, MaxStops <- 0, Lots <- {<<1, 150>>},
             Areas <- {"shelf", "making", "till"}
stocking == <<area, items, shelf, sites, defaults, gl, wo, session, sales, task, moves,
              stops>>

(* Reports: of a book, and of a customer. *)
CONSTANTS Sides, EntryKinds, Dates, MonthDays, MaxEntries, IssueDays, DueDays, InvoiceTotal,
          Parts, MaxDocs
VARIABLES side, book, balances, inactive, docs, receipts

Reporting == INSTANCE Reports WITH PeriodDays <- MonthDays
reporting == <<side, book, balances, inactive, docs, receipts>>

(* Statements: two importers. *)
CONSTANTS i1, i2, Formats, MaxMovements, MaxImports, FirstBalance
VARIABLES account, imports, queue, inbox

Importing == INSTANCE Statements WITH Importers <- {i1, i2}, Opening <- FirstBalance,
                 Movements <- {[day |-> 1, ref |-> "r", text |-> "", amount |-> 2],
                               [day |-> 1, ref |-> "f", text |-> "fee", amount |-> -1]}
importing == <<account, imports, queue, inbox>>

(* Banking: the queue of lines, and clearing entries. *)
CONSTANTS b1
VARIABLES lines, entries, recs, teller, breaks

Line(d, r, a) == [day |-> d, ref |-> r, text |-> "x", amount |-> a]
Queueing == INSTANCE Banking WITH Bankers <- {b1}, Similar <- {<<"b", "c">>}, MaxBreaks <- 1,
                Statement <- <<Line(1, "a", 2), Line(2, "b", -2)>>,
                Payable <- {Line(1, "a", 2), Line(4, "c", -2)},
                MaxLines <- 4, MaxBooked <- 2, MaxRecs <- 0
Clearing == INSTANCE Banking WITH Bankers <- {b1}, Similar <- {<<"b", "c">>}, MaxBreaks <- 1,
                Statement <- <<Line(1, "a", 2), Line(2, "b", -2)>>,
                Payable <- {Line(1, "a", 2), Line(4, "c", -2)},
                MaxLines <- 2, MaxBooked <- 2, MaxRecs <- 1
banking == <<lines, entries, recs, teller, breaks>>

(* Group: exchange rates, members of a group, and ledgers of its firms. *)
CONSTANTS Topics, Days, PeriodLength, Rates, Deals, Firms, RevaluedFirm, Foreign, Recharges, MaxQuotes,
          MaxDeals, MaxPostings, MaxCuts
VARIABLES topic, rates, exposure, members, parents, ledgers, sister, work, cuts

Grouping == INSTANCE Group WITH Desks <- {"k1"}, RateUnit <- 2, MaxBooked <- 2,
                Charges <- Recharges
grouping == <<topic, rates, exposure, members, parents, ledgers, sister, work, cuts>>

(* Workforce: leave with balances, and pay runs with unpaid leave and loans. *)
VARIABLES now, holidays, requests, leave, runs, loans, payroll, job, halts

Leaving == INSTANCE Workforce WITH Days <- 4, PeriodLength <- 1, PeriodsPerYear <- 2, WeekEnds <- {},
               HolidayDays <- {2}, LeaveKinds <- {"annual"}, AnnualDays <- 4, LastNow <- 4,
               Spans <- {<<1, 1>>, <<1, 2>>, <<2, 3>>},
               CarryoverMax <- 2, Halves <- {"none", "start"}, MaxRequests <- 2, MaxRuns <- 0,
               MaxHalts <- 0, MaxInputs <- 0, Clerks <- {"k"}, Employees <- {"e"}, BasicSalary <- 1001, Inputs <- {},
               PayeBands <- <<[upper |-> 4, rate |-> 10], [upper |-> 9, rate |-> 25], [upper |-> 12, rate |-> 30]>>,
               NssfLimit <- 900, NssfRate <- 600, ShaRate <- 275, HousingRate <- 150, Relief <- 24,
               Principal <- 0, Installment <- 0
Paying == INSTANCE Workforce WITH Days <- 4, PeriodLength <- 2, PeriodsPerYear <- 2, WeekEnds <- {},
              HolidayDays <- {}, LeaveKinds <- {}, AnnualDays <- 0, LastNow <- 1,
              Spans <- {},
              CarryoverMax <- 0, Halves <- {"none"}, MaxRequests <- 0, MaxRuns <- 2,
              MaxHalts <- 1, MaxInputs <- 0, Clerks <- {"k"}, Employees <- {"e"}, BasicSalary <- 1001,
              Inputs <- {},
              PayeBands <- <<[upper |-> 400, rate |-> 10], [upper |-> 900, rate |-> 25], [upper |-> 1200, rate |-> 30]>>,
              NssfLimit <- 900, NssfRate <- 600, ShaRate <- 275, HousingRate <- 150, Relief <- 24,
              Principal <- 30, Installment <- 20
Adding == INSTANCE Workforce WITH Days <- 4, PeriodLength <- 2, PeriodsPerYear <- 2, WeekEnds <- {},
              HolidayDays <- {}, LeaveKinds <- {}, AnnualDays <- 0, LastNow <- 1,
              Spans <- {},
              CarryoverMax <- 0, Halves <- {"none"}, MaxRequests <- 0, MaxRuns <- 1,
              MaxHalts <- 1, MaxInputs <- 2, Clerks <- {"k"}, Employees <- {"e"}, BasicSalary <- 1001,
              Inputs <- {[kind |-> "earning", amount |-> 333, flag |-> FALSE],
                         [kind |-> "deduction", amount |-> 107, flag |-> TRUE]},
              PayeBands <- <<[upper |-> 400, rate |-> 10], [upper |-> 900, rate |-> 25], [upper |-> 1200, rate |-> 30]>>,
              NssfLimit <- 900, NssfRate <- 600, ShaRate <- 275, HousingRate <- 150, Relief <- 24,
              Principal <- 30, Installment <- 20
Docking == INSTANCE Workforce WITH Days <- 4, PeriodLength <- 2, PeriodsPerYear <- 2, WeekEnds <- {},
              HolidayDays <- {}, LeaveKinds <- {"unpaid"}, AnnualDays <- 0, LastNow <- 1,
              Spans <- {<<1, 1>>, <<2, 3>>, <<3, 4>>},
              CarryoverMax <- 0, Halves <- {"none"}, MaxRequests <- 2, MaxRuns <- 1,
              MaxHalts <- 0, MaxInputs <- 0, Clerks <- {"k"}, Employees <- {"e"}, BasicSalary <- 1001,
              Inputs <- {},
              PayeBands <- <<[upper |-> 400, rate |-> 10], [upper |-> 900, rate |-> 25], [upper |-> 1200, rate |-> 30]>>,
              NssfLimit <- 900, NssfRate <- 600, ShaRate <- 275, HousingRate <- 150, Relief <- 24,
              Principal <- 30, Installment <- 20
workforce == <<now, holidays, requests, leave, runs, loans, payroll, job, halts>>

(* Notifications: the stream, its worker, providers, reminders and payments. *)
VARIABLES letters, cursor, acked, courier, notices, carriers, wishes, dues, payer, ticker,
          calendar, skipped, outages, editing

Sending == INSTANCE Notifications WITH Emitted <- {"InvoicePaid"}, External <- {"email"}, Deployed <- {"email"},
              BatchSize <- 10, MAX_RETRIES <- 3, Bills <- {}, InvoiceTotal <- 0, DueDay <- 1,
              Offsets <- {}, RuleChannels <- <<"email">>, Payers <- {}, LastDay <- 1,
              Edits <- {}, Editors <- {}, MaxLetters <- 2, MaxOutages <- 1
Configuring == INSTANCE Notifications WITH Emitted <- {"InvoicePaid"}, External <- {"email"}, Deployed <- {"email"},
              BatchSize <- 10, MAX_RETRIES <- 3, Bills <- {}, InvoiceTotal <- 0, DueDay <- 1,
              Offsets <- {}, RuleChannels <- <<"email">>, Payers <- {}, LastDay <- 1,
              MaxLetters <- 1,
              Edits <- {[enabled |-> TRUE, settings |-> TRUE, secret |-> "s"],
                        [enabled |-> FALSE, settings |-> TRUE, secret |-> ""]},
              Editors <- {"e1"}, MaxOutages <- 1
Reminding == INSTANCE Notifications WITH Emitted <- {}, External <- {}, Edits <- {}, Editors <- {}, Deployed <- {},
              BatchSize <- 10, MAX_RETRIES <- 3, Bills <- {"b"}, InvoiceTotal <- 2, DueDay <- 1,
              Offsets <- {1}, RuleChannels <- <<"email">>, Payers <- {"p1", "p2"}, LastDay <- 2,
              MaxLetters <- 1, MaxOutages <- 0
notify == <<letters, cursor, acked, courier, notices, carriers, wishes, dues, payer, ticker,
            calendar, skipped, outages, editing>>

(* Etims: the device, papers sent to the authority and its receipts. *)
VARIABLES device, papers, registry, held, sender, slips, gaps

Transmitting == INSTANCE Etims WITH Papers <- {"i", "j", "c"}, CorrectedBy <- [c |-> "i"],
              Products <- {"x"}, Switches <- BOOLEAN, Senders <- {"s1"}, MaxSlips <- 1, MaxReceipts <- 4
Racing == INSTANCE Etims WITH Papers <- {"i", "c"}, CorrectedBy <- [c |-> "i"],
              Products <- {}, Switches <- {TRUE}, Senders <- {"s1", "s2"}, MaxSlips <- 1, MaxReceipts <- 3
etims == <<device, papers, registry, held, sender, slips, gaps>>

(* Access: accounts, tokens, support sessions, roles and their cache. *)
VARIABLES hour, people, tokens, badges, roles, cache, request, barred, logins, changed,
          swept

Signing == INSTANCE Access WITH People <- {"o", "a"}, Custom <- {}, Grants <- {}, Scope <- {"links"},
              Assigned <- {"Owner", "Viewer"}, Requests <- {"q"}, AccessTtl <- 1, RefreshTtl <- 2,
              InviteTtl <- 2, ResetTtl <- 1, LastHour <- 2, MaxTokens <- 2
Supporting == INSTANCE Access WITH People <- {"o"}, Custom <- {}, Grants <- {}, Scope <- {"platform", "logout"},
              Assigned <- {}, Requests <- {"q"}, AccessTtl <- 1, RefreshTtl <- 2,
              InviteTtl <- 2, ResetTtl <- 1, LastHour <- 2, MaxTokens <- 3
Granting == INSTANCE Access WITH People <- {"o", "a"}, Custom <- {"clerk"}, Scope <- {"logout"},
              Grants <- {{}, {<<"Purchases", "bill", "read">>}},
              Assigned <- {"Owner", "clerk"}, Requests <- {"q"}, AccessTtl <- 2, RefreshTtl <- 2,
              InviteTtl <- 2, ResetTtl <- 1, LastHour <- 1, MaxTokens <- 2
Renewing == INSTANCE Access WITH People <- {"o", "a"}, Custom <- {}, Grants <- {}, Scope <- {},
              Assigned <- {"Viewer", "Editor"}, Requests <- {"q"}, AccessTtl <- 1, RefreshTtl <- 2,
              InviteTtl <- 2, ResetTtl <- 1, LastHour <- 2, MaxTokens <- 3
access == <<hour, people, tokens, badges, roles, cache, request, barred, logins, changed,
            swept>>

(* Billing: a subscription, its renewals and the platform directory. *)
VARIABLES date, sub, directory, claims, clerk, biller, wish, charged, granted, crossed,
          edited, faults

Billed == INSTANCE Billing WITH Prices <- [free |-> 0, starter |-> 25], PeriodDays <- 1,
              Reusable <- TRUE, LastDay <- 3, MaxClaims <- 1, MaxFaults <- 1
billing == <<date, sub, directory, claims, clerk, biller, wish, charged, granted, crossed,
             edited, faults>>

(* Tenancy: tenants, memberships, sign-up and operators. *)
VARIABLES tenants, seats, place, operators, visit, spent, window, opened, excused, disturbed

Settling == INSTANCE Tenancy WITH Persons <- {"p", "q"}, Tenants <- {"t", "u"}, Operators <- {},
              Visits <- {"v"}, SignupRateMax <- 2, Mishaps <- FALSE, MaxWindows <- 1
Enrolling == INSTANCE Tenancy WITH Persons <- {"p"}, Tenants <- {"t", "u", "w"}, Operators <- {},
              Visits <- {"v"}, SignupRateMax <- 2, Mishaps <- TRUE, MaxWindows <- 2
Operating == INSTANCE Tenancy WITH Persons <- {"p"}, Tenants <- {"t"}, Operators <- {"o1", "o2", "o3"},
              Visits <- {"v"}, SignupRateMax <- 1, Mishaps <- FALSE, MaxWindows <- 1
tenancy == <<tenants, seats, place, operators, visit, spent, window, opened, excused,
             disturbed>>

(* Agent: the AMOS assistant. *)
VARIABLES seat, credential, calls, pleas, box, clicks, performed, trail, plan, nudges,
          minute, lastTick, scan, muted, running, flights, logs, fired, downs, memories,
          learner, crowded

Amos == INSTANCE Agent WITH Calls <- {"c1", "c2"}, ServedEntity <- "ours",
              Principals <- {[user |-> "u", entity |-> "ours", role |-> "Accountant", fresh |-> TRUE],
                             [user |-> "u", entity |-> "ours", role |-> "Editor", fresh |-> TRUE],
                             [user |-> "v", entity |-> "ours", role |-> "Accountant", fresh |-> TRUE],
                             [user |-> "w", entity |-> "theirs", role |-> "Owner", fresh |-> TRUE],
                             [user |-> "x", entity |-> "ours", role |-> "Vendor", fresh |-> TRUE],
                             [user |-> "u", entity |-> "ours", role |-> "Owner", fresh |-> FALSE]},
              MaxNudges <- 3, Cron <- [brief |-> {1, 2}], LastMinute <- 2, MaxRuns <- 2,
              MaxDowns <- 1, Texts <- {"a", "b"}, Skills <- {"s"}, SearchLimit <- 2, MaxMemories <- 4
agent == <<seat, credential, calls, pleas, box, clicks, performed, trail, plan, nudges,
           minute, lastTick, scan, muted, running, flights, logs, fired, downs, memories,
           learner, crowded>>

(* Pipeline: quotes, CRM and projects. *)
VARIABLES quotes, drawn, quoter, cut, switch, pipes, prospects, deals, passages, seller,
          drops, jobs, tagged

Office == INSTANCE Pipeline WITH Quotes <- {"q"}, Contents <- {1, 2}, Clerks <- {"c"},
              MaxDrawn <- 3, Leads <- {"l"}, Sellers <- {"s"}, OpenAt <- {4}, Aims <- {1, 4}, MaxDeals <- 2, MaxPipes <- 2,
              MaxPassages <- 2, MaxDrops <- 1, Projects <- {"j"}, Accounts <- {"sales", "labour", "parts"},
              Kind <- [sales |-> "Revenue", labour |-> "Expense", parts |-> "Expense"],
              Budgets <- {{}, {[account |-> "labour", amount |-> 1], [account |-> "parts", amount |-> 1],
                               [account |-> "", amount |-> 2]},
                          {[account |-> "labour", amount |-> 1], [account |-> "labour", amount |-> 2]}},
              MaxTagged <- 3
Rivals == INSTANCE Pipeline WITH Quotes <- {"q"}, Contents <- {1, 2}, Clerks <- {"c", "d"},
              MaxDrawn <- 2, Leads <- {"l"}, Sellers <- {"s", "t"}, OpenAt <- {2}, Aims <- {1}, MaxDeals <- 2, MaxPipes <- 2,
              MaxPassages <- 0, MaxDrops <- 0, Projects <- {}, Accounts <- {},
              Kind <- <<>>, Budgets <- {}, MaxTagged <- 0
pipeline == <<quotes, drawn, quoter, cut, switch, pipes, prospects, deals, passages, seller,
              drops, jobs, tagged>>

(* Tax: corporation tax and the cash forecast. *)
VARIABLES yearBook, provider, trued, filings, remitter, outgo, slipped, tday, openDocs,
          payDay

Treasury == INSTANCE Tax WITH Profits <- {-40, 105}, Wear <- {7},
              Assets <- {[cost |-> 100, rate |-> 25, acquired |-> <<2024, 3>>],
                         [cost |-> 7, rate |-> 25, acquired |-> <<2026, 8>>],
                         [cost |-> 9, rate |-> 10, acquired |-> <<2026, 5>>]},
              Year <- 2026, YearEnd <- 5, Overrides <- {3}, MaxEntries <- 4, Filings <- {"f", "g", "h"},
              Due <- [f |-> 3, g |-> 5, h |-> 11], MaxSlips <- 1, Todays <- {28, 45, 60, 119}, Weeks <- 7,
              Dues <- {1, 20, 44, 48, 49, 50, 80}, MaxOpen <- 2, PayDays <- {5, 31}, PayCost <- 10
taxes == <<yearBook, provider, trued, filings, remitter, outgo, slipped, tday, openDocs,
           payDay>>

(* Portals: suppliers, employees and customers. *)
VARIABLES accounts, masters, links, used, leads, joined, desks, sessions, browsers, begun,
          served

Portal == INSTANCE Portals WITH Emails <- {"v", "e", "c"},
              Class <- [v |-> "Vendor", e |-> "Employee", c |-> "Customer"], Desks <- {"d1", "d2"},
              Browsers <- {}, MaxMasters <- 2, MaxLinks <- 3, MaxSessions <- 0
Visitors == INSTANCE Portals WITH Emails <- {"v", "e", "c"},
              Class <- [v |-> "Vendor", e |-> "Employee", c |-> "Customer"], Desks <- {"d1"},
              Browsers <- {"b1", "b2"}, MaxMasters <- 1, MaxLinks <- 1, MaxSessions <- 3
Guest == INSTANCE Portals WITH Emails <- {"v", "e", "c"},
              Class <- [v |-> "Vendor", e |-> "Employee", c |-> "Customer"], Desks <- {"d1"},
              Browsers <- {"b1"}, MaxMasters <- 1, MaxLinks <- 1, MaxSessions <- 2
portal == <<accounts, masters, links, used, leads, joined, desks, sessions, browsers, begun,
            served>>

vars == <<focus, scheduling, purchasing, stocking, reporting, importing, banking, grouping,
          workforce, notify, etims, access, billing, tenancy, agent, pipeline, taxes,
          portal>>

-----------------------------------------------------------------------------
(* A component that is not the focus rests: it starts in one of its initial *)
(* states and stays there.                                                 *)
SchedulingRests == IF focus \in {"alone", "shared"} THEN TRUE ELSE Alone!Init /\ kind = "invoices" /\ today = 1
SchedulingStays == IF focus \in {"alone", "shared"} THEN TRUE ELSE UNCHANGED scheduling
PurchasingRests == IF focus \in {"buying", "overlap"} THEN TRUE ELSE Buying!Init /\ flow = "bill"
PurchasingStays == IF focus \in {"buying", "overlap"} THEN TRUE ELSE UNCHANGED purchasing
StockRests == IF focus \in {"counter", "floor"} THEN TRUE ELSE Counter!Init /\ area = "shelf"
StockStays == IF focus \in {"counter", "floor"} THEN TRUE ELSE UNCHANGED stocking
ReportingRests == IF focus \in {"reporting"} THEN TRUE ELSE Reporting!Init /\ side = "book"
ReportingStays == IF focus \in {"reporting"} THEN TRUE ELSE UNCHANGED reporting
ImportingRests == IF focus \in {"importing"} THEN TRUE ELSE Importing!Init
ImportingStays == IF focus \in {"importing"} THEN TRUE ELSE UNCHANGED importing
BankingRests == IF focus \in {"queueing", "clearing"} THEN TRUE ELSE Queueing!Init
BankingStays == IF focus \in {"queueing", "clearing"} THEN TRUE ELSE UNCHANGED banking
GroupingRests == IF focus \in {"grouping"} THEN TRUE ELSE Grouping!Init /\ topic = "rates"
GroupingStays == IF focus \in {"grouping"} THEN TRUE ELSE UNCHANGED grouping
WorkforceRests == IF focus \in {"leaving", "paying", "adding", "docking"} THEN TRUE ELSE Leaving!Init
WorkforceStays == IF focus \in {"leaving", "paying", "adding", "docking"} THEN TRUE ELSE UNCHANGED workforce
NotifyRests == IF focus \in {"sending", "configuring", "reminding"} THEN TRUE ELSE Sending!Init
NotifyStays == IF focus \in {"sending", "configuring", "reminding"} THEN TRUE ELSE UNCHANGED notify
EtimsRests == IF focus \in {"transmitting", "racing"} THEN TRUE ELSE Transmitting!Init
EtimsStays == IF focus \in {"transmitting", "racing"} THEN TRUE ELSE UNCHANGED etims
AccessRests == IF focus \in {"signing", "supporting", "granting", "renewing"} THEN TRUE ELSE Signing!Init
AccessStays == IF focus \in {"signing", "supporting", "granting", "renewing"} THEN TRUE ELSE UNCHANGED access
BillingRests == IF focus \in {"billing"} THEN TRUE ELSE Billed!Init /\ directory.row
BillingStays == IF focus \in {"billing"} THEN TRUE ELSE UNCHANGED billing
TenancyRests == IF focus \in {"settling", "enrolling", "operating"} THEN TRUE ELSE Settling!Init
TenancyStays == IF focus \in {"settling", "enrolling", "operating"} THEN TRUE ELSE UNCHANGED tenancy
AgentRests == IF focus \in {"conversing", "planning", "ambient", "learning"} THEN TRUE ELSE Amos!Init
AgentStays == IF focus \in {"conversing", "planning", "ambient", "learning"} THEN TRUE ELSE UNCHANGED agent
PipelineRests == IF focus \in {"quoting", "bidding", "selling", "competing", "costing"} THEN TRUE ELSE Office!Init
PipelineStays == IF focus \in {"quoting", "bidding", "selling", "competing", "costing"} THEN TRUE ELSE UNCHANGED pipeline
TaxRests == IF focus \in {"providing", "remitting", "forecasting"} THEN TRUE ELSE Treasury!Init /\ tday = 28
TaxStays == IF focus \in {"providing", "remitting", "forecasting"} THEN TRUE ELSE UNCHANGED taxes
PortalRests == IF focus \in {"supplying", "staffing", "hosting", "calling", "logging", "shopping"} THEN TRUE ELSE Portal!Init
PortalStays == IF focus \in {"supplying", "staffing", "hosting", "calling", "logging", "shopping"} THEN TRUE ELSE UNCHANGED portal

OthersRest ==
    /\ SchedulingRests /\ PurchasingRests /\ StockRests /\ ReportingRests /\ ImportingRests /\
       BankingRests /\ GroupingRests /\ WorkforceRests /\ NotifyRests /\ EtimsRests /\ AccessRests /\
       BillingRests /\ TenancyRests /\ AgentRests /\ PipelineRests /\ TaxRests /\ PortalRests

OthersStay ==
    /\ UNCHANGED focus
    /\ SchedulingStays /\ PurchasingStays /\ StockStays /\ ReportingStays /\ ImportingStays /\
       BankingStays /\ GroupingStays /\ WorkforceStays /\ NotifyStays /\ EtimsStays /\ AccessStays /\
       BillingStays /\ TenancyStays /\ AgentStays /\ PipelineStays /\ TaxStays /\ PortalStays

Init ==
    \/ focus = "alone" /\ Alone!Init /\ OthersRest
    \/ focus = "shared" /\ Shared!Init /\ OthersRest
    \/ focus = "buying" /\ Buying!Init /\ OthersRest
    \/ focus = "overlap" /\ Overlap!Init /\ OthersRest
    \/ focus = "counter" /\ Counter!Init /\ OthersRest
    \/ focus = "floor" /\ Floor!Init /\ OthersRest
    \/ focus = "reporting" /\ Reporting!Init /\ OthersRest
    \/ focus = "importing" /\ Importing!Init /\ OthersRest
    \/ focus = "queueing" /\ Queueing!Init /\ OthersRest
    \/ focus = "clearing" /\ Clearing!Init /\ OthersRest
    \/ focus = "grouping" /\ Grouping!Init /\ OthersRest
    \/ focus = "leaving" /\ Leaving!Init /\ OthersRest
    \/ focus = "paying" /\ Paying!Init /\ OthersRest
    \/ focus = "adding" /\ Adding!Init /\ OthersRest
    \/ focus = "docking" /\ Docking!Init /\ OthersRest
    \/ focus = "sending" /\ Sending!Init /\ OthersRest
    \/ focus = "configuring" /\ Configuring!Init /\ OthersRest
    \/ focus = "reminding" /\ Reminding!Init /\ OthersRest
    \/ focus = "transmitting" /\ Transmitting!Init /\ OthersRest
    \/ focus = "racing" /\ Racing!Init /\ OthersRest
    \/ focus = "signing" /\ Signing!Init /\ OthersRest
    \/ focus = "supporting" /\ Supporting!Init /\ OthersRest
    \/ focus = "granting" /\ Granting!Init /\ OthersRest
    \/ focus = "renewing" /\ Renewing!Init /\ OthersRest
    \/ focus = "billing" /\ Billed!Init /\ OthersRest
    \/ focus = "settling" /\ Settling!Init /\ OthersRest
    \/ focus = "enrolling" /\ Enrolling!Init /\ OthersRest
    \/ focus = "operating" /\ Operating!Init /\ OthersRest
    \/ focus = "conversing" /\ Amos!Init /\ OthersRest
    \/ focus = "planning" /\ Amos!Init /\ OthersRest
    \/ focus = "ambient" /\ Amos!Init /\ OthersRest
    \/ focus = "learning" /\ Amos!Init /\ OthersRest
    \/ focus = "quoting" /\ Office!Init /\ OthersRest
    \/ focus = "bidding" /\ Rivals!Init /\ OthersRest
    \/ focus = "selling" /\ Office!Init /\ OthersRest
    \/ focus = "competing" /\ Rivals!Init /\ OthersRest
    \/ focus = "costing" /\ Office!Init /\ OthersRest
    \/ focus = "providing" /\ Treasury!Init /\ OthersRest
    \/ focus = "remitting" /\ Treasury!Init /\ OthersRest
    \/ focus = "forecasting" /\ Treasury!Init /\ OthersRest
    \/ focus = "supplying" /\ Portal!Init /\ OthersRest
    \/ focus = "staffing" /\ Portal!Init /\ OthersRest
    \/ focus = "hosting" /\ Portal!Init /\ OthersRest
    \/ focus = "calling" /\ Visitors!Init /\ OthersRest
    \/ focus = "logging" /\ Guest!Init /\ OthersRest
    \/ focus = "shopping" /\ Guest!Init /\ OthersRest

Next ==
    \/ focus = "alone" /\ Alone!Next /\ OthersStay
    \/ focus = "shared" /\ Shared!Next /\ OthersStay
    \/ focus = "buying" /\ Buying!Next /\ OthersStay
    \/ focus = "overlap" /\ Overlap!Next /\ OthersStay
    \/ focus = "counter" /\ Counter!Next /\ OthersStay
    \/ focus = "floor" /\ Floor!Next /\ OthersStay
    \/ focus = "reporting" /\ Reporting!Next /\ OthersStay
    \/ focus = "importing" /\ Importing!Next /\ OthersStay
    \/ focus = "queueing" /\ Queueing!Next /\ OthersStay
    \/ focus = "clearing" /\ Clearing!Next /\ OthersStay
    \/ focus = "grouping" /\ Grouping!Next /\ OthersStay
    \/ focus = "leaving" /\ Leaving!Next /\ OthersStay
    \/ focus = "paying" /\ Paying!Next /\ OthersStay
    \/ focus = "adding" /\ Adding!Next /\ OthersStay
    \/ focus = "docking" /\ Docking!Next /\ OthersStay
    \/ focus = "sending" /\ Sending!Next /\ OthersStay
    \/ focus = "configuring" /\ Configuring!Next /\ OthersStay
    \/ focus = "reminding" /\ Reminding!Next /\ OthersStay
    \/ focus = "transmitting" /\ Transmitting!Next /\ OthersStay
    \/ focus = "racing" /\ Racing!Next /\ OthersStay
    \/ focus = "signing" /\ Signing!Next /\ OthersStay
    \/ focus = "supporting" /\ Supporting!Next /\ OthersStay
    \/ focus = "granting" /\ Granting!Next /\ OthersStay
    \/ focus = "renewing" /\ Renewing!Next /\ OthersStay
    \/ focus = "billing" /\ Billed!Next /\ OthersStay
    \/ focus = "settling" /\ Settling!Next /\ OthersStay
    \/ focus = "enrolling" /\ Enrolling!Next /\ OthersStay
    \/ focus = "operating" /\ Operating!Next /\ OthersStay
    \/ focus = "conversing" /\ Amos!Conversing /\ OthersStay
    \/ focus = "planning" /\ Amos!Planning /\ OthersStay
    \/ focus = "ambient" /\ Amos!Ambient /\ OthersStay
    \/ focus = "learning" /\ Amos!Learning /\ OthersStay
    \/ focus = "quoting" /\ Office!Quoting /\ OthersStay
    \/ focus = "bidding" /\ Rivals!Quoting /\ OthersStay
    \/ focus = "selling" /\ Office!Selling /\ OthersStay
    \/ focus = "competing" /\ Rivals!Selling /\ OthersStay
    \/ focus = "costing" /\ Office!Costing /\ OthersStay
    \/ focus = "providing" /\ Treasury!Providing /\ OthersStay
    \/ focus = "remitting" /\ Treasury!Remitting /\ OthersStay
    \/ focus = "forecasting" /\ Treasury!Forecasting /\ OthersStay
    \/ focus = "supplying" /\ Portal!Supplying /\ OthersStay
    \/ focus = "staffing" /\ Portal!Staffing /\ OthersStay
    \/ focus = "hosting" /\ Portal!Hosting /\ OthersStay
    \/ focus = "calling" /\ Visitors!Supplying /\ OthersStay
    \/ focus = "logging" /\ Guest!Staffing /\ OthersStay
    \/ focus = "shopping" /\ Guest!Hosting /\ OthersStay

(* The tick of the one process is taken and its jobs run to the end. *)
Fairness == WF_vars(focus = "alone" /\ (Alone!Step(t1) \/ Alone!Tick(t1)) /\ OthersStay)

Spec == Init /\ [][Next]_vars /\ Fairness

-----------------------------------------------------------------------------
(* The scheduler's jobs are exact although each is several commits and a   *)
(* process may stop between them or meet a user who runs the same job: no  *)
(* recurring invoice, journal, depreciation or amortization moves past a   *)
(* month it did not do, an accrual and its reversal come together, the     *)
(* asset register and the charges booked agree, and one process alone      *)
(* never posts a month twice.                                              *)
SchedulesExact ==
    /\ focus = "alone" => Alone!NoRunLost
    /\ focus = "shared" => Shared!NoRunLost
    /\ focus = "alone" => Alone!AccrualsReversed
    /\ focus = "shared" => Shared!AccrualsReversed
    /\ focus = "alone" => Alone!AssetConserved
    /\ focus = "shared" => Shared!AssetConserved
    /\ focus = "alone" => Alone!PostedOnce

(* A recurring journal that is behind the calendar catches up with it,     *)
(* whatever crashes and rewinds, if the one process keeps ticking and no   *)
(* period is closed for good.                                              *)
JournalsCatchUp == focus = "alone" => Alone!JournalsCatchUp

(* Purchases end as they should however requests overlap or stop: a tender *)
(* has one winner and what is marked posted or approved is in the ledger;  *)
(* and, with one request at a time, bills approved under the three-way     *)
(* match are covered, on the lines of their order, by receipts, and a bill *)
(* is posted once and its payments make up its balance.                    *)
PurchasesBooked ==
    /\ focus = "overlap" => Overlap!OneWinner
    /\ focus \in {"buying", "overlap"} => Buying!BookedBeforeMarked
    /\ focus = "buying" => Buying!ReceiptsCoverApprovals
    /\ focus = "buying" => Buying!BillConserved

(* Stock and till agree: the warehouses add up to on_hand, nothing is      *)
(* issued that is not there, WIP is the material of the order in progress, *)
(* and a sale the shift knows of was invoiced and paid.                    *)
StockAccounted ==
    /\ focus \in {"counter", "floor"} => Counter!ShelvesAddUp
    /\ focus = "counter" => Counter!StockCovered
    /\ focus = "counter" => Counter!WipNetsToZero
    /\ focus \in {"counter", "floor"} => Counter!TakingsDeposited

(* The reports are one account of one ledger: period balances and later    *)
(* lines make up the balances, the balance sheet and the trial balance do  *)
(* balance, profit is one figure in four reports, the views of the ledger  *)
(* close on its balances, a customer statement closes on what is due and   *)
(* an open invoice is in one ageing bucket.                                *)
ReportsAgree ==
    /\ focus = "reporting" /\ inactive = {} => Reporting!BalancesComplete
    /\ focus = "reporting" => Reporting!StatementsBalance
    /\ focus = "reporting" /\ inactive = {} => Reporting!EarningsAgree
    /\ focus = "reporting" /\ inactive = {} => Reporting!ViewsAgree
    /\ focus = "reporting" => Reporting!StatementAgrees
    /\ focus = "reporting" => Reporting!BucketsComplete

(* A movement of the bank is dealt with once: every format of a statement  *)
(* gives it back, the balance column of a PDF decides its side, the        *)
(* summary catches a row that was not read; of statements imported twice,  *)
(* in parts or at once it is queued exactly once; a match report is about  *)
(* each line once; and with one request at a time a line is in the ledger  *)
(* once, and once more for each request that stopped between the entry and *)
(* the link.                                                               *)
BankLinesOnce ==
    /\ focus = "importing" /\ imports = {} => Importing!FormatsAgree
    /\ focus = "importing" /\ imports = {} => Importing!PdfSides
    /\ focus = "importing" /\ imports = {} => Importing!SummaryCatches
    /\ focus = "importing" => Importing!QueueComplete
    /\ focus = "queueing" => Queueing!ReportComplete
    /\ focus \in {"queueing", "clearing"} => Queueing!LineBookedOnce

(* Across currencies and firms the books net out: a revaluation does not   *)
(* outlive its period; a group has at most one parent while requests that  *)
(* change its members do not overlap; and intercompany charges and billed  *)
(* invoices are out of the consolidated balance, which is zero but for the *)
(* rounding of the translated figures.                                     *)
GroupConsolidates ==
    focus = "grouping" =>
        /\ Grouping!RevaluationsNetOut
        /\ Grouping!OneParent
        /\ Grouping!GroupBalances
        /\ Grouping!SelectedBalances

(* Leave and pay are accounted for: leave balances say what the requests   *)
(* say and are never overdrawn, unpaid leave is docked in its period, and  *)
(* each slice of income is taxed at the rate of its band; and while        *)
(* requests that post do not overlap, a pay run posts one entry that       *)
(* balances and a loan falls by what was deducted.                         *)
WorkforceAccounted ==
    /\ focus = "leaving" => Leaving!LeaveConserved
    /\ focus = "leaving" => Leaving!NoOverdraw
    /\ focus = "docking" => Docking!UnpaidDocked
    /\ focus = "leaving" /\ requests = <<>> => Leaving!PayeByBand
    /\ focus \in {"paying", "adding"} => Paying!RunBalances
    /\ focus = "paying" => Paying!PaidOnce
    /\ focus = "paying" => Paying!LoanRepaid

(* The rows say what happened, wherever the worker stops or an answer is   *)
(* lost: a notification marked sent was sent and an acknowledged message   *)
(* was decided on every channel; and however payments overlap an invoice   *)
(* is paid exactly when nothing is owed on it or it is overpaid.           *)
MessagesTruthful ==
    /\ focus \in {"sending", "configuring"} => Sending!RowsTruthful
    /\ focus \in {"sending", "configuring"} => Sending!AckedDecided
    /\ focus = "reminding" => Reminding!StatusMatchesBalance

(* The tax authority's receipts are in order: no two documents carry one   *)
(* number, an invoice has one receipt, and a credit note is sent only      *)
(* after its invoice.                                                      *)
ReceiptsTransmitted ==
    /\ focus = "transmitting" => Transmitting!NumbersDistinct
    /\ focus = "transmitting" => Transmitting!HeldOnce
    /\ focus \in {"transmitting", "racing"} => Racing!ReceiptsFollow

(* Rights follow the accounts although tokens outlive them: a tenant keeps *)
(* an active Owner, a change reaches a session when it is renewed,         *)
(* renewing keeps the number of sessions, read-only support sessions stay  *)
(* so, a suspension ends every session, the permission cache says what the *)
(* tables say, and the seeded roles separate duties.                       *)
AccessSound ==
    /\ focus = "signing" => Signing!OwnerRemains
    /\ focus = "renewing" => Renewing!StaleUntilRefresh
    /\ focus = "supporting" => Supporting!SessionsDoNotMultiply
    /\ focus = "supporting" => Supporting!SupportStaysReadOnly
    /\ focus = "supporting" => Supporting!SuspensionEndsSessions
    /\ focus = "granting" => Granting!CacheFresh
    /\ focus = "granting" => Granting!DutiesSeparate

(* A subscription is charged for what it gives, over renewals, refusals    *)
(* and repeated webhooks: it stays cancelled once cancelled, no more is    *)
(* charged than periods were granted, three failures end the renewals, and *)
(* the platform directory says suspended exactly for a tenant that is, or  *)
(* whose row was made when it was archived.                                *)
SubscriptionSound ==
    focus = "billing" =>
        /\ Billed!CancelSticks
        /\ Billed!ChargedOncePerPeriod
        /\ Billed!AttemptsLeft
        /\ Billed!SuspensionConsistent
        /\ Billed!DirectoryFollows

(* Tenants stay usable however members join, leave and archive: each keeps *)
(* an active Owner and its people a workspace, sign-ups stay within the    *)
(* limit, the platform keeps a super admin, and the periods of a new       *)
(* tenant tile its fiscal year.                                            *)
TenantsSound ==
    /\ focus = "settling" => Settling!TenantOwned
    /\ focus = "settling" => Settling!KeepsWorkspace
    /\ focus = "enrolling" => Enrolling!SignupsLimited
    /\ focus = "operating" => Operating!AdminRemains
    /\ focus = "settling" /\ place["p"] = "none" => Settling!PeriodsTile

(* The assistant acts under supervision: a posting needs the approval of   *)
(* this very call, what was refused or ran out of time never runs, the ERP *)
(* acts as the user of the session, the audit trail has what was done, and *)
(* nudging ends.                                                           *)
AssistantSupervised ==
    /\ focus = "conversing" => Amos!PostsOnlyApproved
    /\ focus = "conversing" => Amos!RefusedStaysUndone
    /\ focus = "conversing" => Amos!ActsAsItsUser
    /\ focus = "conversing" => Amos!Audited
    /\ focus = "planning" => Amos!NudgesSpent

(* The assistant's background work is done once: a routine never runs      *)
(* twice at a time, a run is shown as running while it is, each occurrence *)
(* is dealt with by one tick although ticks take time, and a memory is     *)
(* stored once.                                                            *)
RoutinesOnce ==
    /\ focus = "ambient" => Amos!OneAtATime
    /\ focus = "ambient" => Amos!LedgerTruthful
    /\ focus = "ambient" => Amos!OccurrencesOnce
    /\ focus = "learning" => Amos!StoredOnce

(* The trail from a lead to a project holds: a quote is billed once, for   *)
(* what it says, and names its invoice; lead and opportunity name each     *)
(* other; stage, status, events and stage totals of an opportunity agree   *)
(* in its one pipeline; and a project shows the costs that were not        *)
(* reversed against the whole budget.                                      *)
SalesTrailHolds ==
    /\ focus = "quoting" => Office!QuoteBilledOnce
    /\ focus = "quoting" => Office!ConvertedIsFrozen
    /\ focus = "bidding" => Rivals!LinkedBack
    /\ focus = "competing" => Rivals!LeadLinked
    /\ focus = "selling" => Office!ClosedIffDecided
    /\ focus = "selling" => Office!EventsChain
    /\ focus = "selling" => Office!StagesAddUp
    /\ focus = "selling" => Office!OnePipeline
    /\ focus = "costing" => Office!CostIsLive
    /\ focus = "costing" => Office!VariancesAddUp

(* Tax is provided and paid once: provisions do not move the estimate they *)
(* are computed from, a true-up leaves the estimate in the books,          *)
(* allowances add up to the cost unless the calendar turned between the    *)
(* start of the fiscal year and the purchase, a filing is remitted once,   *)
(* nothing is due once it is paid, installments fall into their year, and  *)
(* the cash forecast has every document in its week.                       *)
TaxSound ==
    /\ focus = "providing" => Treasury!EstimateUnmoved
    /\ focus = "providing" => Treasury!TruedUp
    /\ focus = "providing" /\ yearBook = <<>> => Treasury!WrittenDownOnce
    /\ focus = "remitting" => Treasury!RemittancesAgree
    /\ focus = "remitting" => Treasury!NothingDueOncePaid
    /\ focus = "providing" /\ yearBook = <<>> => Treasury!InstallmentCalendar
    /\ focus = "forecasting" => Treasury!ForecastComplete
    /\ focus = "forecasting" => Treasury!WeeksHold

(* Portal accounts are usable and only by their owner while invitations,   *)
(* resets, approvals and logins interleave: an invited account has a way   *)
(* in, a used link is stored nowhere, a sign-up is one lead, rotation      *)
(* leaves one usable token, and an active account is linked to its record  *)
(* and alone served.                                                       *)
PortalAccountsSound ==
    focus \in {"supplying", "staffing", "hosting", "calling", "logging", "shopping"} =>
        /\ Portal!InvitedCanEnter
        /\ Portal!LinkSingleUse
        /\ Portal!SignupHasLead
        /\ Portal!OneSessionPerLogin
        /\ Portal!ActiveIsLinked
        /\ Portal!ServedWhileActive

(* No step takes back what was decided: a rejected or converted            *)
(* requisition stays so, the figures of a closed shift are final, a stored *)
(* provider secret is lost only to a save that another one overtook, and   *)
(* an account invited again keeps its record.                              *)
DecisionsStand ==
    /\ Overlap!RequisitionDecided
    /\ Floor!ShiftFinal
    /\ Configuring!SecretKept
    /\ Portal!LinkKept

(* Figures kept in two places tie: with one request at a time the          *)
(* inventory account and the value of the stock part by no more than the   *)
(* rounding of the movements, whatever is counted, produced, sold or left  *)
(* half done; a reconciliation of entries that compute offered is recorded *)
(* only when the cleared entries make up its closing balance; and a        *)
(* revaluation leaves the account at its balance times the rate of the     *)
(* day.                                                                    *)
FiguresTie ==
    /\ [](focus = "counter" => Counter!LedgerTracksStock)
    /\ [](focus = "clearing" => Clearing!RecordedBalances)
    /\ Grouping!RevaluedAtRate

=============================================================================
