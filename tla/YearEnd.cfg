SPECIFICATION Spec
CONSTANTS
    w1 = w1
    w2 = w2
    cash = cash
    re = re
    sales = sales
    Workers = {w1, w2}
    Years = {1, 2}
    PeriodsPerYear = 1
    Generated = {1, 2}
    Begun <- MCBegun
    CalendarYear <- MCCalendarYear
    BalanceSheet = {cash, re}
    ProfitLoss = {sales}
    RetainedEarnings = re
    RoundingAccount = sales
    Tolerance = 1
    Postings <- OneSale
    SubsystemSources = {"Document", "OpeningBalance"}
    TypedCounters = {}
    YearReset = TRUE
    PoolSize = 2
    Requests = {"subsystem", "close", "yearEnd"}
    MaxRequests = 5
    Nobody = Nobody
    NotCached = NotCached
INVARIANTS
    YearEndPaired
    OpeningHasNoPnl
PROPERTIES
    ImplementsJournal
