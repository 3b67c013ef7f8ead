SPECIFICATION Spec
CONSTANTS
    w1 = w1
    w2 = w2
    cash = cash
    re = re
    sales = sales
    Workers = {w1, w2}
    Years = {1, 2}
    PeriodsPerYear = 1
    Generated = {1}
    Begun <- MCBegun
    CalendarYear <- MCCalendarYear
    BalanceSheet = {cash, re}
    ProfitLoss = {sales}
    RetainedEarnings = re
    RoundingAccount = sales
    Tolerance = 1
    Postings <- SalesOffByOne
    SubsystemSources = {"Document", "System", "OpeningBalance"}
    TypedCounters = {}
    YearReset = TRUE
    PoolSize = 2
    Requests = {"manual", "subsystem", "reverse", "save", "close", "reopen", "generate"}
    MaxRequests = 3
    Nobody = Nobody
    NotCached = NotCached
INVARIANTS
    TypeOK
    EntriesBalanced
    SnapshotLockstep
    NumbersGapless
    ReversedIffLinked
PROPERTIES
    RequestsTerminate
    ImplementsJournal
