SPECIFICATION ReportsSpec
CONSTANTS
    t1 = t1
    u1 = u1
    Kinds = {"invoices", "reports", "journals", "depreciation", "amortization"}
    LastMonth = 3
    EndMonth = 2
    AutoReverse = TRUE
    AssetCost = 1000
    Residual = 939
    Life = 2
    RatePercent = 40
    Prepaid = 5
    Installments = 2
    MaxCrashes = 1
    MaxEdits = 2
    c1 = c1
    c2 = c2
    Vendors = {v1, v2}
    Ordered = 2
    MaxReceived = 2
    MaxBills = 2
    MaxOff = 1
    Limit = 2
    Totals = {2, 3}
    s1 = s1
    s2 = s2
    Output = 2
    PartsPer = 1
    Overhead = 1
    Price = 5
    Float = 10
    MaxMoves = 3
    Sides = {"book", "customer"}
    EntryKinds = {"sale", "receipt", "bill", "payment", "wear", "loan"}
    Dates = {1, 2, 3}
    MonthDays = 2
    MaxEntries = 2
    IssueDays = {1, 31}
    DueDays = {31, 61, 62}
    InvoiceTotal = 3
    Parts = {2, 3}
    MaxDocs = 2
    i1 = i1
    i2 = i2
    Formats = {"mt940"}
    MaxMovements = 3
    MaxImports = 2
    FirstBalance = 1
    b1 = b1
    Topics = {"rates", "members", "ledgers"}
    Days = 4
    PeriodLength = 2
    Rates = {2, 3}
    Deals = {2}
    Firms = {p, q, x}
    RevaluedFirm = p
    Foreign = {q, x}
    Recharges = {1}
    MaxQuotes = 3
    MaxDeals = 1
    MaxPostings = 4
    MaxCuts = 1
INVARIANTS
    CashFlowTies
CHECK_DEADLOCK FALSE
