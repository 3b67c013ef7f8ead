------------------------------- MODULE Ledger -------------------------------
(***************************************************************************)
(* The general ledger of one tenant: journal posting and reversal, journal *)
(* numbering, the fiscal-period lifecycle, year-end close, and the         *)
(* tenant's settings with their in-process cache.                          *)
(*                                                                         *)
(* A worker is one HTTP request, agent tool call or scheduler task.  It    *)
(* runs a service function whose database statements are separate steps:   *)
(* Postgres runs READ COMMITTED, so each statement sees what was committed *)
(* when it ran, and every statement outside a transaction commits alone.   *)
(* Rows a transaction has inserted are staged until Commit publishes them;  *)
(* a rollback just forgets them.                                           *)
(*                                                                         *)
(* Amounts are integer cents, debit positive and credit negative, after    *)
(* the rounding of every line to two decimals.                             *)
(***************************************************************************)
EXTENDS Integers, Sequences, FiniteSets, FiniteSetsExt, Functions

CONSTANTS
    Workers,            \* concurrent requests
    Years,              \* fiscal years (naturals)
    PeriodsPerYear,     \* 12 in the code
    Generated,          \* the years whose periods exist initially
    Begun,              \* the periods that have started by today's date
    CalendarYear,       \* the calendar year of a posting dated in a period
    BalanceSheet,       \* asset, liability and equity accounts
    ProfitLoss,         \* revenue and expense accounts
    RetainedEarnings,   \* posting.retained_earnings
    RoundingAccount,    \* posting.rounding_adjustment
    Tolerance,          \* ROUNDING_TOLERANCE, in cents
    Postings,           \* the line totals clients may submit
    SubsystemSources,   \* the sources subsystems post with
    TypedCounters,      \* values an administrator types for journal_next
    YearReset,          \* sequences.year_reset
    PoolSize,           \* connections in the pool
    Requests,           \* the kinds of request clients send
    MaxRequests,        \* bound: requests started in a behaviour
    Nobody,             \* the settings row is not locked
    NotCached           \* no configuration in the cache / in hand

Accounts == BalanceSheet \cup ProfitLoss
Periods == Years \X (1..PeriodsPerYear)
Kinds == {"manual", "subsystem", "reverse", "yearEnd", "close", "reopen", "save", "generate"}
Sources == {"Manual", "Document", "System", "OpeningBalance", "YearEndClose"}
Config == [seq: Nat, docsOk: BOOLEAN]

ASSUME ConstantsOK ==
    /\ IsFiniteSet(Workers)
    /\ IsFiniteSet(Accounts)
    /\ Years \subseteq Nat
    /\ PeriodsPerYear \in Nat \ {0}
    /\ Generated \subseteq Years
    /\ Begun \subseteq Periods
    /\ CalendarYear \in [Periods -> Nat]
    /\ RetainedEarnings \in BalanceSheet
    /\ RoundingAccount \in ProfitLoss
    /\ BalanceSheet \cap ProfitLoss = {}
    /\ Tolerance \in Nat
    /\ Postings \subseteq [Accounts -> Int]
    /\ SubsystemSources \subseteq Sources
    /\ TypedCounters \subseteq Nat
    /\ YearReset \in BOOLEAN
    /\ PoolSize \in Nat \ {0}
    /\ Requests \subseteq Kinds
    /\ MaxRequests \in Nat
    /\ Nobody \notin Workers
    /\ NotCached \notin Config

VARIABLES
    status,     \* fiscal_periods.status, or "absent"
    entries,    \* the committed journal entries with their lines
    reversed,   \* the numbers of the entries whose status is 'reversed'
    snap,       \* account_period_balances
    settings,   \* the committed entity_settings row
    lock,       \* the transaction holding that row's lock
    cache,      \* ErpEngine.configs
    free,       \* idle connections of the pool
    job,        \* what each worker is doing
    drafts,     \* the entries its transaction is to post, in order
    staged,     \* the entries its transaction has inserted
    started     \* requests started so far

vars == <<status, entries, reversed, snap, settings, lock, cache, free, job,
          drafts, staged, started>>
ledger == <<entries, reversed, snap>>

-----------------------------------------------------------------------------
(* Journal entries *)

NoRef == [kind |-> "none", id |-> <<0, 0>>]
RevRef(num) == [kind |-> "REV", id |-> num]
YecRef(y) == [kind |-> "YEC", id |-> <<y, 0>>]
ObRef(y) == [kind |-> "OB", id |-> <<y, 0>>]

Draft(p, src, ref, lines) == [per |-> p, src |-> src, ref |-> ref, lines |-> lines]

Total(lines) == MapThenSumSet(LAMBDA a: lines[a], Accounts)
Abs(n) == IF n < 0 THEN -n ELSE n

(* Mutation: every imbalance is taken for rounding. *)
PostableAlways(lines) == TRUE

(* rounding_outcome: Balanced and Adjust are postable, Unbalanced is not.  *)
Postable(lines) == Abs(Total(lines)) =< Tolerance

(* Mutation: the adjustment line is on the wrong side. *)
AdjustedWrongSide(lines) == [lines EXCEPT ![RoundingAccount] = @ + Total(lines)]

(* The residue of at most Tolerance goes to the rounding account.          *)
Adjusted(lines) == [lines EXCEPT ![RoundingAccount] = @ - Total(lines)]

IsYearEndSource(src) == src \in {"YearEndClose", "OpeningBalance"}

(* enforce_period_status(_in_tx): may src be posted into period p?         *)
Admits(p, src, docsOk) ==
    CASE status[p] = "absent"      -> FALSE
      [] status[p] = "hard_closed" -> IsYearEndSource(src)
      [] status[p] = "soft_closed" -> src = "Manual" \/ (src = "Document" /\ docsOk)
      [] OTHER                     -> TRUE

(* The trigger prevent_hardclosed_period_insert on journal_lines.          *)
TriggerAllows(p, src) == status[p] = "hard_closed" => IsYearEndSource(src)

Numbers == {e.num : e \in entries}
Rows == {e.num[2] : e \in entries}
References == {e.ref : e \in entries}

Movement(es, a) == MapThenSumSet(LAMBDA e: e.lines[a], es)
PostedIn(y) == {e \in entries : e.per[1] = y /\ e.num \notin reversed}
PostedUpTo(y) == {e \in entries : e.per[1] =< y /\ e.num \notin reversed}

(* compute_pnl_balances and build_closing_entry: every revenue and expense *)
(* account back to zero, the difference to retained earnings.              *)
ClosingLines(y) ==
    LET net == MapThenSumSet(LAMBDA a: Movement(PostedIn(y), a), ProfitLoss)
    IN  [a \in Accounts |-> IF a \in ProfitLoss THEN -Movement(PostedIn(y), a)
                            ELSE IF a = RetainedEarnings THEN net ELSE 0]

(* compute_balance_sheet_balances and build_opening_entry: cumulative      *)
(* balances up to the year's end, net income folded into retained earnings *)
(* as it was when the closing lines were computed.                         *)
OpeningLines(y, closing) ==
    [a \in Accounts |->
        IF a \in ProfitLoss THEN 0
        ELSE Movement(PostedUpTo(y), a)
             + (IF a = RetainedEarnings THEN closing[a] ELSE 0)]

HasLines(lines) == \E a \in Accounts : lines[a] # 0

LastPeriod(y) == <<y, PeriodsPerYear>>

(* get_fiscal_year_periods returns the periods that exist, by number.      *)
Existing(y) == {n \in 1..PeriodsPerYear : status[<<y, n>>] # "absent"}
IsFirst(y, n) == n \in Existing(y) /\ \A m \in Existing(y) : n =< m

-----------------------------------------------------------------------------
(* Workers *)

Idle == [pc |-> "idle", ret |-> "idle", per |-> <<0, 0>>, to |-> "open",
         year |-> 0, count |-> 0, cfg |-> NotCached]

At(w, pc) == job[w].pc = pc

(* The configuration the worker reads: the one it has just loaded, or the  *)
(* cached one.                                                             *)
InHand(w) == IF job[w].cfg # NotCached THEN job[w].cfg ELSE cache

(* A transaction keeps its connection from begin to commit or rollback.    *)
InTx(w) == \/ job[w].pc \in {"check", "number", "insert", "commit"}
           \/ job[w].pc \in {"load", "fill"} /\ job[w].ret # "patch"

(* So does a request whose UPDATE of the settings row runs or waits.       *)
Connected(w) == InTx(w) \/ At(w, "update")

Goto(w, pc) == job' = [job EXCEPT ![w].pc = pc]

(* The next entry of the transaction. *)
Current(w) == drafts[w][job[w].count + 1]

(* Any other statement run on the pool borrows a connection just while it  *)
(* runs: nothing makes it wait.                                            *)
PoolAvailable == free > 0

Start(w, kind, j, ds) ==
    /\ kind \in Requests
    /\ At(w, "idle")
    /\ started < MaxRequests
    /\ PoolAvailable
    /\ started' = started + 1
    /\ job' = [job EXCEPT ![w] = j]
    /\ drafts' = [drafts EXCEPT ![w] = ds]
    /\ UNCHANGED <<status, ledger, settings, lock, cache, free, staged>>

(* Mutation: the row lock outlives the transaction. *)
ReleaseKeepingLock(w) ==
    /\ job' = [job EXCEPT ![w] = Idle]
    /\ drafts' = [drafts EXCEPT ![w] = <<>>]
    /\ staged' = [staged EXCEPT ![w] = {}]
    /\ lock' = lock
    /\ free' = IF Connected(w) THEN free + 1 ELSE free

(* The end of a request: rollback or completion gives back what it holds.  *)
Release(w) ==
    /\ job' = [job EXCEPT ![w] = Idle]
    /\ drafts' = [drafts EXCEPT ![w] = <<>>]
    /\ staged' = [staged EXCEPT ![w] = {}]
    /\ lock' = IF lock = w THEN Nobody ELSE lock
    /\ free' = IF Connected(w) THEN free + 1 ELSE free

-----------------------------------------------------------------------------
(* Requests: the reads each service makes before its first write. *)

(* POST /journal-entries and post_from_agent_for: validate_entry, then the *)
(* period must be open.                                                    *)
StartManual(w, p, lines) ==
    /\ Postable(lines)
    /\ status[p] = "open"
    /\ Start(w, "manual", [Idle EXCEPT !.pc = "begin"],
             <<Draft(p, "Manual", NoRef, lines)>>)

(* create_and_post as the subsystems call it: the period must exist.       *)
StartSubsystem(w, p, src, lines) ==
    /\ status[p] # "absent"
    /\ Start(w, "subsystem", [Idle EXCEPT !.pc = "begin"],
             <<Draft(p, src, NoRef, lines)>>)

(* reverse_journal_entry up to its transaction. *)
StartReverse(w, e, p) ==
    /\ e.num \notin reversed
    /\ RevRef(e.num) \notin References
    /\ status[p] # "absent"
    /\ LET swapped == [a \in Accounts |-> -e.lines[a]]
       IN  Start(w, "reverse", [Idle EXCEPT !.pc = "begin"],
                 <<Draft(p, "Manual", RevRef(e.num), swapped)>>)

(* execute_year_end_close, steps 1 to 3. *)
StartYearEnd(w, y, n) ==
    /\ \A m \in 1..PeriodsPerYear : status[<<y, m>>] = "hard_closed"
    /\ y + 1 \in Years
    /\ IsFirst(y + 1, n)
    /\ YecRef(y) \notin References
    /\ Start(w, "yearEnd", [Idle EXCEPT !.pc = "pnl", !.year = y,
                                        !.per = <<y + 1, n>>], <<>>)

(* close_period: the status read decides, the update comes later.  The     *)
(* checklist of a hard close may be forced, so it never decides.           *)
StartClose(w, p, to) ==
    /\ \/ to = "soft_closed" /\ status[p] \in {"open", "future"}
       \/ to = "hard_closed" /\ status[p] = "soft_closed"
    /\ Start(w, "close", [Idle EXCEPT !.pc = "mark", !.per = p, !.to = to], <<>>)

(* reopen_period. *)
StartReopen(w, p) ==
    /\ status[p] = "soft_closed"
    /\ Start(w, "reopen", [Idle EXCEPT !.pc = "mark", !.per = p, !.to = "open"], <<>>)

(* update_settings. *)
StartSave(w) == Start(w, "save", [Idle EXCEPT !.pc = "patch"], <<>>)

(* generate_periods. *)
StartGenerate(w, y) ==
    Start(w, "generate", [Idle EXCEPT !.pc = "month", !.per = <<y, 1>>], <<>>)

-----------------------------------------------------------------------------
(* ErpEngine::config_for on a miss: read the row, then fill the cache. *)

NeedsConfig(w) ==
    /\ InHand(w) = NotCached
    /\ \/ job[w].pc \in {"insert", "patch"}
       \/ At(w, "check") /\ status[Current(w).per] = "soft_closed"
                         /\ Current(w).src = "Document"

Miss(w) ==
    /\ NeedsConfig(w)
    /\ job' = [job EXCEPT ![w].pc = "load", ![w].ret = job[w].pc]
    /\ UNCHANGED <<status, ledger, settings, lock, cache, free, drafts, staged, started>>

Load(w) ==
    /\ At(w, "load")
    /\ PoolAvailable
    /\ job' = [job EXCEPT ![w].pc = "fill", ![w].cfg = settings]
    /\ UNCHANGED <<status, ledger, settings, lock, cache, free, drafts, staged, started>>

Fill(w) ==
    /\ At(w, "fill")
    /\ cache' = job[w].cfg
    /\ Goto(w, job[w].ret)
    /\ UNCHANGED <<status, ledger, settings, lock, free, drafts, staged, started>>

-----------------------------------------------------------------------------
(* Year-end close: two aggregate queries, before the transaction. *)

YearEndPnl(w) ==
    /\ At(w, "pnl")
    /\ PoolAvailable
    /\ LET y == job[w].year
           lines == ClosingLines(y)
       IN  /\ HasLines(lines)
           /\ drafts' = [drafts EXCEPT ![w] =
                            <<Draft(LastPeriod(y), "YearEndClose", YecRef(y), lines)>>]
    /\ Goto(w, "bs")
    /\ UNCHANGED <<status, ledger, settings, lock, cache, free, staged, started>>

YearEndBs(w) ==
    /\ At(w, "bs")
    /\ PoolAvailable
    /\ LET y == job[w].year
           lines == OpeningLines(y, drafts[w][1].lines)
       IN  /\ HasLines(lines)
           /\ drafts' = [drafts EXCEPT ![w] =
                 Append(@, Draft(job[w].per, "OpeningBalance", ObRef(y + 1), lines))]
    /\ Goto(w, "begin")
    /\ UNCHANGED <<status, ledger, settings, lock, cache, free, staged, started>>

-----------------------------------------------------------------------------
(* The posting transaction: create_and_post_in_tx once per draft. *)

Begin(w) ==
    /\ At(w, "begin")
    /\ PoolAvailable
    /\ free' = free - 1
    /\ Goto(w, "check")
    /\ UNCHANGED <<status, ledger, settings, lock, cache, drafts, staged, started>>

Check(w) ==
    /\ At(w, "check")
    /\ ~NeedsConfig(w)
    /\ Admits(Current(w).per, Current(w).src, InHand(w) # NotCached /\ InHand(w).docsOk)
    /\ job' = [job EXCEPT ![w].pc = "number", ![w].cfg = NotCached]
    /\ UNCHANGED <<status, ledger, settings, lock, cache, free, drafts, staged, started>>

(* Mutation: the counter is read without locking the row. *)
TakeNumberUnlocked(w) ==
    /\ At(w, "number")
    /\ lock' = w
    /\ Goto(w, "insert")
    /\ UNCHANGED <<status, ledger, settings, cache, free, drafts, staged, started>>

(* The UPDATE ... RETURNING of generate_journal_number_in_tx: it takes the *)
(* row lock, which the transaction then holds to its end.                  *)
TakeNumber(w) ==
    /\ At(w, "number")
    /\ lock \in {Nobody, w}
    /\ lock' = w
    /\ Goto(w, "insert")
    /\ UNCHANGED <<status, ledger, settings, cache, free, drafts, staged, started>>

(* The year of the number is read on a second connection; when the pool    *)
(* has none in time, fiscal_year_for_date falls back to the calendar year. *)
NumberYear(p) == IF ~YearReset THEN 0
                 ELSE IF PoolAvailable THEN p[1] ELSE CalendarYear[p]

NewEntry(w) ==
    LET d == Current(w)
    IN  [num |-> <<NumberYear(d.per), settings.seq + job[w].count>>,
         per |-> d.per, src |-> d.src, ref |-> d.ref,
         lines |-> Adjusted(d.lines)]

(* The header's UNIQUE(entity_id, number), the balance and the trigger.    *)
Insertable(w) ==
    /\ Postable(Current(w).lines)
    /\ NewEntry(w).num \notin Numbers
    /\ TriggerAllows(Current(w).per, Current(w).src)

(* Mutation: the transaction commits after its first entry. *)
InsertThenCommit(w) ==
    /\ At(w, "insert")
    /\ ~NeedsConfig(w)
    /\ Insertable(w)
    /\ staged' = [staged EXCEPT ![w] = @ \cup {NewEntry(w)}]
    /\ job' = [job EXCEPT ![w].count = @ + 1, ![w].cfg = NotCached, ![w].pc = "commit"]
    /\ UNCHANGED <<status, ledger, settings, lock, cache, free, drafts, started>>

Insert(w) ==
    /\ At(w, "insert")
    /\ ~NeedsConfig(w)
    /\ Insertable(w)
    /\ staged' = [staged EXCEPT ![w] = @ \cup {NewEntry(w)}]
    /\ job' = [job EXCEPT
                 ![w].count = @ + 1,
                 ![w].cfg = NotCached,
                 ![w].pc = IF job[w].count + 1 = Len(drafts[w]) THEN "commit" ELSE "check"]
    /\ UNCHANGED <<status, ledger, settings, lock, cache, free, drafts, started>>

(* Mutation: the original is left posted, as it was before the fix. *)
MarkNothing(w) == {}

(* The original that reverse_journal_entry marks in the transaction. *)
Marked(w) == {d.ref.id : d \in {c \in Range(drafts[w]) : c.ref.kind = "REV"}}

(* Mutation: the upsert replaces the snapshot instead of adding to it. *)
CommitReplacingSnapshot(w) ==
    /\ At(w, "commit")
    /\ entries' = entries \cup staged[w]
    /\ reversed' = reversed \cup Marked(w)
    /\ snap' = [p \in Periods |-> [a \in Accounts |->
                   LET new == Movement({e \in staged[w] : e.per = p}, a)
                   IN  IF new # 0 THEN new ELSE snap[p][a]]]
    /\ settings' = [settings EXCEPT !.seq = @ + job[w].count]
    /\ Release(w)
    /\ UNCHANGED <<status, cache, started>>

Commit(w) ==
    /\ At(w, "commit")
    /\ entries' = entries \cup staged[w]
    /\ reversed' = reversed \cup Marked(w)
    /\ snap' = [p \in Periods |-> [a \in Accounts |->
                   snap[p][a] + Movement({e \in staged[w] : e.per = p}, a)]]
    /\ settings' = [settings EXCEPT !.seq = @ + job[w].count]
    /\ Release(w)
    /\ UNCHANGED <<status, cache, started>>

-----------------------------------------------------------------------------
(* Period and settings updates. *)

(* UPDATE fiscal_periods SET status = ... WHERE id = ...: unconditional.   *)
MarkPeriod(w) ==
    /\ At(w, "mark")
    /\ PoolAvailable
    /\ status' = [status EXCEPT ![job[w].per] = job[w].to]
    /\ Release(w)
    /\ UNCHANGED <<ledger, settings, cache, started>>

(* One INSERT ... ON CONFLICT DO NOTHING of generate_periods. *)
GenerateMonth(w) ==
    /\ At(w, "month")
    /\ PoolAvailable
    /\ LET p == job[w].per
       IN  /\ status' = [status EXCEPT ![p] =
                            IF @ # "absent" THEN @
                            ELSE IF p \in Begun THEN "open" ELSE "future"]
           /\ IF p[2] = PeriodsPerYear
              THEN Release(w)
              ELSE /\ job' = [job EXCEPT ![w].per = <<p[1], p[2] + 1>>]
                   /\ UNCHANGED <<lock, free, drafts, staged>>
    /\ UNCHANGED <<ledger, settings, cache, started>>

(* The patch is applied to a copy of the whole configuration, counters     *)
(* included.                                                               *)
Patch(w) ==
    /\ At(w, "patch")
    /\ ~NeedsConfig(w)
    /\ \E docs \in BOOLEAN, next \in TypedCounters \cup {InHand(w).seq} :
          job' = [job EXCEPT ![w].pc = "write",
                             ![w].cfg = [seq |-> next, docsOk |-> docs]]
    /\ UNCHANGED <<status, ledger, settings, lock, cache, free, drafts, staged, started>>

(* update_settings takes a connection for its UPDATE, and keeps it while   *)
(* the UPDATE waits for a posting transaction that holds the row.          *)
BorrowForSave(w) ==
    /\ At(w, "write")
    /\ PoolAvailable
    /\ free' = free - 1
    /\ Goto(w, "update")
    /\ UNCHANGED <<status, ledger, settings, lock, cache, drafts, staged, started>>

WriteSettings(w) ==
    /\ At(w, "update")
    /\ lock = Nobody
    /\ settings' = job[w].cfg
    /\ free' = free + 1
    /\ Goto(w, "invalidate")
    /\ UNCHANGED <<status, ledger, lock, cache, drafts, staged, started>>

InvalidateConfig(w) ==
    /\ At(w, "invalidate")
    /\ cache' = NotCached
    /\ Release(w)
    /\ UNCHANGED <<status, ledger, settings, started>>

-----------------------------------------------------------------------------
(* Endings other than success. *)

(* Mutation: a request waits for a connection for ever. *)
RefusedNoTimeout(w) ==
    \/ At(w, "check") /\ ~NeedsConfig(w)
         /\ ~Admits(Current(w).per, Current(w).src, InHand(w) # NotCached /\ InHand(w).docsOk)
    \/ At(w, "insert") /\ ~NeedsConfig(w) /\ ~Insertable(w)
    \/ At(w, "pnl") /\ ~HasLines(ClosingLines(job[w].year))
    \/ At(w, "bs") /\ ~HasLines(OpeningLines(job[w].year, drafts[w][1].lines))

(* An early return with an error, or the pool's acquire timeout. *)
Refused(w) ==
    \/ job[w].pc \in {"begin", "load", "pnl", "bs", "mark", "month", "write"} /\ ~PoolAvailable
    \/ At(w, "check") /\ ~NeedsConfig(w)
         /\ ~Admits(Current(w).per, Current(w).src, InHand(w) # NotCached /\ InHand(w).docsOk)
    \/ At(w, "insert") /\ ~NeedsConfig(w) /\ ~Insertable(w)
    \/ At(w, "pnl") /\ ~HasLines(ClosingLines(job[w].year))
    \/ At(w, "bs") /\ ~HasLines(OpeningLines(job[w].year, drafts[w][1].lines))

Reject(w) ==
    /\ Refused(w)
    /\ Release(w)
    /\ UNCHANGED <<status, ledger, settings, cache, started>>

(* The client disconnects or the database drops the connection: the        *)
(* handler's future is dropped at an await and its transaction rolls back. *)
Abort(w) ==
    /\ ~At(w, "idle")
    /\ Release(w)
    /\ UNCHANGED <<status, ledger, settings, cache, started>>

-----------------------------------------------------------------------------
Init ==
    /\ status = [p \in Periods |-> IF p[1] \notin Generated THEN "absent"
                                   ELSE IF p \in Begun THEN "open" ELSE "future"]
    /\ entries = {}
    /\ reversed = {}
    /\ snap = [p \in Periods |-> [a \in Accounts |-> 0]]
    /\ settings = [seq |-> 1, docsOk |-> FALSE]
    /\ lock = Nobody
    /\ cache \in {NotCached, settings}
    /\ free = PoolSize
    /\ job = [w \in Workers |-> Idle]
    /\ drafts = [w \in Workers |-> <<>>]
    /\ staged = [w \in Workers |-> {}]
    /\ started = 0

Request(w) ==
    \/ \E p \in Periods, lines \in Postings :
          \/ StartManual(w, p, lines)
          \/ \E src \in SubsystemSources : StartSubsystem(w, p, src, lines)
    \/ \E e \in entries, p \in Periods : StartReverse(w, e, p)
    \/ \E y \in Years, n \in 1..PeriodsPerYear : StartYearEnd(w, y, n)
    \/ \E y \in Years : StartGenerate(w, y)
    \/ \E p \in Periods, to \in {"soft_closed", "hard_closed"} : StartClose(w, p, to)
    \/ \E p \in Periods : StartReopen(w, p)
    \/ StartSave(w)

Step(w) ==
    \/ Miss(w) \/ Load(w) \/ Fill(w)
    \/ YearEndPnl(w) \/ YearEndBs(w)
    \/ Begin(w) \/ Check(w) \/ TakeNumber(w) \/ Insert(w) \/ Commit(w)
    \/ MarkPeriod(w) \/ GenerateMonth(w)
    \/ Patch(w) \/ BorrowForSave(w) \/ WriteSettings(w) \/ InvalidateConfig(w)
    \/ Reject(w)

(* Every request the bound allows has been served. *)
Quiesced ==
    /\ started = MaxRequests
    /\ \A w \in Workers : At(w, "idle")
    /\ UNCHANGED vars

Next == Quiesced \/ \E w \in Workers : Request(w) \/ Step(w) \/ Abort(w)

(* A started request keeps running: the runtime polls it, the database     *)
(* answers, and a wait for a connection ends in the acquire timeout.       *)
Spec == Init /\ [][Next]_vars /\ \A w \in Workers : WF_vars(Step(w))
-----------------------------------------------------------------------------
(* Properties *)

Pcs == {"idle", "begin", "check", "number", "insert", "commit", "load", "fill",
        "pnl", "bs", "mark", "month", "patch", "write", "update", "invalidate"}
Statuses == {"absent", "future", "open", "soft_closed", "hard_closed"}

(* The variables have the shapes the tables and the request records have;  *)
(* the row lock is held by a request that is running.                      *)
TypeOK ==
    /\ status \in [Periods -> Statuses]
    /\ \A e \in entries : /\ e.per \in Periods
                          /\ e.src \in Sources
                          /\ e.lines \in [Accounts -> Int]
    /\ reversed \subseteq Numbers
    /\ snap \in [Periods -> [Accounts -> Int]]
    /\ settings \in Config
    /\ cache \in Config \cup {NotCached}
    /\ free \in 0..PoolSize
    /\ started \in 0..MaxRequests
    /\ \A w \in Workers : /\ job[w].pc \in Pcs
                          /\ job[w].cfg \in Config \cup {NotCached}
                          /\ job[w].count =< Len(drafts[w])
    /\ lock # Nobody => lock \in Workers /\ InTx(lock)

(* Every committed entry has equal debits and credits, whatever subset of  *)
(* concurrent postings the year-end aggregates saw (create_and_post_in_tx, *)
(* build_closing_entry, build_opening_entry).                              *)
EntriesBalanced == \A e \in entries : Total(e.lines) = 0

(* "the snapshots stay in exact lockstep with the ledger": for every       *)
(* period and account the snapshot is the sum of the committed lines,      *)
(* reversed entries included.                                              *)
SnapshotLockstep ==
    \A p \in Periods, a \in Accounts :
        snap[p][a] = Movement({e \in entries : e.per = p}, a)

(* The counters of committed entries run from 1 without a gap and no two   *)
(* entries share a number, across rollbacks, concurrent posting and saved  *)
(* settings (generate_journal_number_in_tx).                               *)
NumbersGapless ==
    /\ Rows = 1..Cardinality(Rows)
    /\ \A e, f \in entries : e.num = f.num => e = f

(* An entry is reversed exactly when a reversing entry refers to it, and   *)
(* that entry moves every account the opposite way (reverse_journal_entry).*)
ReversedIffLinked ==
    \A e \in entries :
        e.num \in reversed <=>
            \E r \in entries : /\ r.ref = RevRef(e.num)
                               /\ \A a \in Accounts : r.lines[a] = -e.lines[a]

(* A year is never closed without its opening entry, nor opened without    *)
(* its closing entry, and their numbers are consecutive                    *)
(* (execute_year_end_close posts both in one transaction).                 *)
YearEndPaired ==
    \A y \in Years :
        {e.num[2] + 1 : e \in {f \in entries : f.ref = YecRef(y)}}
          = {e.num[2] : e \in {f \in entries : f.ref = ObRef(y + 1)}}

(* A posting that commits between the two year-end queries makes them      *)
(* disagree on net income, and the opening entry would be plugged with the *)
(* difference.  Such a torn close does not commit: an opening entry has no *)
(* revenue or expense line but a rounding residue within the tolerance.    *)
OpeningHasNoPnl ==
    \A e \in entries, a \in ProfitLoss :
        e.ref.kind = "OB" =>
            \/ e.lines[a] = 0
            \/ a = RoundingAccount /\ Abs(e.lines[a]) =< Tolerance

Book == INSTANCE Journal WITH book <- entries, struck <- reversed, totals <- snap

(* Refinement: to its readers the ledger is the append-only book of        *)
(* Journal.  Whatever requests overlap, fail or are cut off, the committed *)
(* rows change only by whole postings: balanced, numbered on, with the     *)
(* original struck and the snapshots moved in the same step.               *)
ImplementsJournal == Book!Spec

(* Every request ends, also when the pool is exhausted by transactions and *)
(* settings saves that wait for the row lock while its holder waits for a  *)
(* connection.                                                             *)
RequestsTerminate == \A w \in Workers : ~At(w, "idle") ~> At(w, "idle")

(* What the documentation says of the ledger and the code does not keep.   *)

(* "Only SoftClosed periods can be reopened (HardClosed periods are        *)
(* immutable)": a hard-closed period stays hard-closed.                    *)
HardClosedIsFinal ==
    [][\A p \in Periods : status[p] = "hard_closed" => status'[p] = "hard_closed"]_vars

(* "Build the closing journal entry that zeros out all P&L accounts": the  *)
(* revenue and expense movement of a closed year is zero as the reports    *)
(* count it, every entry included.                                         *)
ClosedYearIsZero ==
    \A y \in Years, a \in ProfitLoss :
        YecRef(y) \in References => Movement({e \in entries : e.per[1] = y}, a) = 0

(* "Document Numbers settings persist", gapless allocation: the counter of *)
(* the next number is ahead of every number issued.                        *)
CounterAhead == \A r \in Rows : r < settings.seq
=============================================================================
