SPECIFICATION Spec
CONSTANTS
    w1 = w1
    w2 = w2
    cash = cash
    re = re
    sales = sales
    Workers = {w1}
    Years = {1, 2}
    PeriodsPerYear = 1
    Generated = {1, 2}
    Begun <- MCBegun
    CalendarYear <- MCCalendarYear
    BalanceSheet = {cash, re}
    ProfitLoss = {sales}
    RetainedEarnings = re
    RoundingAccount = sales
    Tolerance = 1
    Postings <- OneSale
    SubsystemSources = {"Document"}
    TypedCounters = {}
    YearReset = TRUE
    PoolSize = 2
    Requests = {"manual", "reverse", "close", "yearEnd"}
    MaxRequests = 5
    Nobody = Nobody
    NotCached = NotCached
INVARIANT ClosedYearIsZero
