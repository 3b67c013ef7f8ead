---------------------------- MODULE LedgerProofs ----------------------------
(***************************************************************************)
(* Module Ledger is right for every number of workers, periods, accounts,  *)
(* connections and requests.  The first part sorts the steps of a worker   *)
(* into kinds and proves what every other proof about the ledger uses: the *)
(* shapes of the requests, and what the row lock protects; from it, that   *)
(* journal numbering is gapless and unique.  The second part is about the  *)
(* books: entries balance, the snapshots are the sums of the lines, a      *)
(* reversal mirrors and strikes its original, a year is closed and the     *)
(* next one opened together, and what Ledger commits is a behaviour of     *)
(* Journal; also the type invariant, and that no connection is lost.       *)
(***************************************************************************)
EXTENDS Ledger, TLAPS, FiniteSetTheorems, SumProofs, SequenceTheorems

JobRecord == [pc: Pcs, ret: Pcs, per: Periods \cup {<<0, 0>>}, to: Statuses,
              year: Years \cup {0}, count: Nat, cfg: Config \cup {NotCached}]

(* InTx as a predicate of the request's record, and the requests that have *)
(* decided what to post.                                                   *)
Holding(j) == \/ j.pc \in {"check", "number", "insert", "commit"}
              \/ j.pc \in {"load", "fill"} /\ j.ret # "patch"
Borrowing(j) == Holding(j) \/ j.pc = "update"
Posting(j) == j.pc = "begin" \/ Holding(j)

(* A request about to use a configuration has one and knows where it was   *)
(* needed; the year and the period it works on are known; it has posted    *)
(* nothing outside its transaction.                                        *)
Sound(j) == /\ j.pc \in {"write", "update", "fill"} => j.cfg # NotCached
            /\ j.pc \in {"load", "fill"} => j.ret \in {"check", "insert", "patch"}
            /\ j.pc \in {"pnl", "bs"} => j.year \in Years /\ j.per \in Periods
            /\ j.pc \in {"mark", "month"} => j.per \in Periods
            /\ ~Holding(j) => j.count = 0

(* The shapes of the requests and of the rows they work with. *)
ControlOK ==
    /\ job \in [Workers -> JobRecord]
    /\ status \in [Periods -> Statuses]
    /\ settings \in Config
    /\ cache \in Config \cup {NotCached}
    /\ lock \in Workers \cup {Nobody}
    /\ DOMAIN staged = Workers
    /\ DOMAIN drafts = Workers
    /\ \A w \in Workers : Sound(job[w])

(* Whoever has taken a number holds the row lock.                          *)
Numbered(j) ==
    \/ j.pc \in {"insert", "commit"}
    \/ j.pc \in {"load", "fill"} /\ j.ret = "insert"
    \/ j.count # 0

LockHeld == \A w \in Workers : Numbered(job[w]) => lock = w

(* The rows of a transaction continue the committed counter.               *)
StagedRows ==
    \A w \in Workers :
        /\ {e.num[2] : e \in staged[w]} = settings.seq .. (settings.seq + job[w].count - 1)
        /\ \A e, f \in staged[w] : e.num = f.num => e = f
        /\ \A e \in staged[w] : e.num \notin Numbers

UniqueNumbers == \A e, f \in entries : e.num = f.num => e = f

(* What holds whatever counters administrators type. *)
CoreInv == ControlOK /\ LockHeld /\ StagedRows /\ UniqueNumbers

Reached(cfg, n) == cfg # NotCached => cfg.seq \in 1 .. (n + 1)

(* The rows issued are 1..n, and no copy of the counter, committed, cached *)
(* or in a request's hands, is beyond n + 1.                               *)
CountersReached(n) ==
    /\ Rows = 1..n
    /\ settings.seq \in 1 .. (n + 1)
    /\ Reached(cache, n)
    /\ \A w \in Workers : Reached(job[w].cfg, n)

GaplessInv == \E n \in Nat : CountersReached(n)

-----------------------------------------------------------------------------
(* The kinds of steps. *)

(* The status of one period may change. *)
StatusStep == \/ UNCHANGED status
              \/ \E p \in Periods, s \in Statuses : status' = [status EXCEPT ![p] = s]

(* A step that moves a request on without posting: it may take the free    *)
(* row lock or a connection, fill the cache, or save the settings.         *)
Moved(w, j) ==
    /\ job' = [job EXCEPT ![w] = j]
    /\ UNCHANGED <<entries, reversed, snap, drafts, staged, started>>
    /\ Sound(j)
    /\ j.count = job[w].count
    /\ {j.pc, job[w].pc} \cap {"idle", "pnl", "bs", "commit"} = {}
    /\ Posting(j) <=> Posting(job[w])
    /\ j.pc # "begin"
    /\ Numbered(j) => lock' = w
    /\ lock' = lock \/ (lock = Nobody /\ lock' = w /\ Holding(j))
    /\ \/ (Borrowing(j) <=> Borrowing(job[w])) /\ free' = free
       \/ Borrowing(j) /\ ~Borrowing(job[w]) /\ free > 0 /\ free' = free - 1
       \/ ~Borrowing(j) /\ Borrowing(job[w]) /\ free' = free + 1
    /\ cache' \in {cache, job[w].cfg}
    /\ settings' = settings \/ (lock = Nobody /\ settings' = job[w].cfg /\ job[w].cfg # NotCached)
    /\ \/ j.cfg \in {job[w].cfg, settings, NotCached}
       \/ \E c \in {job[w].cfg, cache} \ {NotCached} :
             j.cfg.seq \in TypedCounters \cup {c.seq}
    /\ StatusStep

(* The draft of a request that posts one entry. *)
OneDraft(d) ==
    \/ \E p \in Periods, src \in Sources, lines \in Postings :
          d = Draft(p, src, NoRef, lines)
    \/ \E p \in Periods, e \in entries :
          d = Draft(p, "Manual", RevRef(e.num), [a \in Accounts |-> -e.lines[a]])

(* A request starts. *)
Opened(w, j, ds) ==
    /\ At(w, "idle")
    /\ job' = [job EXCEPT ![w] = j]
    /\ drafts' = [drafts EXCEPT ![w] = ds]
    /\ started < MaxRequests /\ started' = started + 1
    /\ UNCHANGED <<status, entries, reversed, snap, settings, lock, cache, free, staged>>
    /\ Sound(j) /\ ~Holding(j) /\ j.pc \notin {"idle", "bs", "update"}
    /\ j.count = 0 /\ j.cfg = NotCached
    /\ IF j.pc = "begin" THEN \E d : ds = <<d>> /\ OneDraft(d) ELSE ds = <<>>

(* A request ends without having published anything. *)
Ended(w) ==
    /\ Release(w)
    /\ UNCHANGED <<entries, reversed, snap, settings, started>>
    /\ cache' \in {cache, NotCached}
    /\ StatusStep

(* The record of a worker that does nothing is a worker's record. *)
LEMMA IdleType == Idle \in JobRecord /\ Sound(Idle) /\ ~Holding(Idle) /\ ~Numbered(Idle)
  BY DEF Idle, JobRecord, Pcs, Statuses, Sound, Holding, Numbered

(* Every new request starts with an empty transaction. *)
LEMMA RequestOpens ==
  ASSUME ControlOK, NEW w \in Workers, Request(w)
  PROVE  \E j \in JobRecord : \E ds : Opened(w, j, ds)
<1> USE ConstantsOK
<1> DEFINE Fresh(j) == /\ j \in JobRecord
                       /\ j.pc \in {"begin", "pnl", "mark", "patch", "month"}
                       /\ j.count = 0
                       /\ j.cfg = NotCached
                       /\ j.pc = "pnl" => j.year \in Years
                       /\ j.pc \in {"pnl", "mark", "month"} => j.per \in Periods
<1>1. ASSUME NEW kind, NEW j, NEW ds, Fresh(j), Start(w, kind, j, ds),
             IF j.pc = "begin" THEN \E d : ds = <<d>> /\ OneDraft(d) ELSE ds = <<>>
      PROVE  \E i \in JobRecord : \E es : Opened(w, i, es)
  <2>1. Sound(j) /\ ~Holding(j) /\ j.pc \notin {"idle", "bs", "update"}
    BY <1>1 DEF Sound, Holding
  <2>2. Opened(w, j, ds)
    BY <1>1, <2>1 DEF Opened, Start, ledger
  <2> QED BY <1>1, <2>2
<1>b. Fresh([Idle EXCEPT !.pc = "begin"]) /\ [Idle EXCEPT !.pc = "begin"].pc = "begin"
  BY DEF Idle, JobRecord, Pcs, Statuses
<1>p. ASSUME NEW kind, NEW d, OneDraft(d), Start(w, kind, [Idle EXCEPT !.pc = "begin"], <<d>>)
      PROVE  \E i \in JobRecord : \E es : Opened(w, i, es)
  BY <1>1, <1>b, <1>p
<1>q. ASSUME NEW kind, NEW j, Fresh(j), j.pc # "begin", Start(w, kind, j, <<>>)
      PROVE  \E i \in JobRecord : \E es : Opened(w, i, es)
  BY <1>1, <1>q
<1> HIDE DEF Fresh
<1>2. ASSUME NEW p \in Periods, NEW lines \in Postings, StartManual(w, p, lines)
      PROVE  \E j \in JobRecord : \E ds : Opened(w, j, ds)
  <2>1. OneDraft(Draft(p, "Manual", NoRef, lines))
    BY DEF OneDraft, Sources
  <2> QED BY <1>p, <1>2, <2>1 DEF StartManual
<1>3. ASSUME NEW p \in Periods, NEW lines \in Postings, NEW src \in SubsystemSources,
             StartSubsystem(w, p, src, lines)
      PROVE  \E j \in JobRecord : \E ds : Opened(w, j, ds)
  <2>1. OneDraft(Draft(p, src, NoRef, lines))
    BY DEF OneDraft
  <2> QED BY <1>p, <1>3, <2>1 DEF StartSubsystem
<1>4. ASSUME NEW e \in entries, NEW p \in Periods, StartReverse(w, e, p)
      PROVE  \E j \in JobRecord : \E ds : Opened(w, j, ds)
  <2>1. OneDraft(Draft(p, "Manual", RevRef(e.num), [a \in Accounts |-> -e.lines[a]]))
    BY DEF OneDraft
  <2> QED BY <1>p, <1>4, <2>1 DEF StartReverse
<1>5. ASSUME NEW y \in Years, NEW n \in 1..PeriodsPerYear, StartYearEnd(w, y, n)
      PROVE  \E j \in JobRecord : \E ds : Opened(w, j, ds)
  <2> DEFINE j == [Idle EXCEPT !.pc = "pnl", !.year = y, !.per = <<y + 1, n>>]
  <2>1. <<y + 1, n>> \in Periods
    BY <1>5 DEF StartYearEnd, Periods
  <2>2. Fresh(j) /\ j.pc # "begin"
    BY <2>1 DEF Idle, JobRecord, Pcs, Statuses, Fresh
  <2>3. Start(w, "yearEnd", j, <<>>)
    BY <1>5 DEF StartYearEnd
  <2> HIDE DEF j
  <2> QED BY <1>q, <2>2, <2>3
<1>6. ASSUME NEW p \in Periods, NEW to \in {"soft_closed", "hard_closed"}, StartClose(w, p, to)
      PROVE  \E j \in JobRecord : \E ds : Opened(w, j, ds)
  <2> DEFINE j == [Idle EXCEPT !.pc = "mark", !.per = p, !.to = to]
  <2>1. Fresh(j) /\ j.pc # "begin"
    BY DEF Idle, JobRecord, Pcs, Statuses, Fresh
  <2>2. Start(w, "close", j, <<>>)
    BY <1>6 DEF StartClose
  <2> HIDE DEF j
  <2> QED BY <1>q, <2>1, <2>2
<1>7. ASSUME NEW p \in Periods, StartReopen(w, p)
      PROVE  \E j \in JobRecord : \E ds : Opened(w, j, ds)
  <2> DEFINE j == [Idle EXCEPT !.pc = "mark", !.per = p, !.to = "open"]
  <2>1. Fresh(j) /\ j.pc # "begin"
    BY DEF Idle, JobRecord, Pcs, Statuses, Fresh
  <2>2. Start(w, "reopen", j, <<>>)
    BY <1>7 DEF StartReopen
  <2> HIDE DEF j
  <2> QED BY <1>q, <2>1, <2>2
<1>8. ASSUME StartSave(w)
      PROVE  \E j \in JobRecord : \E ds : Opened(w, j, ds)
  <2> DEFINE j == [Idle EXCEPT !.pc = "patch"]
  <2>1. Fresh(j) /\ j.pc # "begin"
    BY DEF Idle, JobRecord, Pcs, Statuses, Fresh
  <2>2. Start(w, "save", j, <<>>)
    BY <1>8 DEF StartSave
  <2> HIDE DEF j
  <2> QED BY <1>q, <2>1, <2>2
<1>9. ASSUME NEW y \in Years, StartGenerate(w, y)
      PROVE  \E j \in JobRecord : \E ds : Opened(w, j, ds)
  <2> DEFINE j == [Idle EXCEPT !.pc = "month", !.per = <<y, 1>>]
  <2>1. <<y, 1>> \in Periods
    BY DEF Periods
  <2>2. Fresh(j) /\ j.pc # "begin"
    BY <2>1 DEF Idle, JobRecord, Pcs, Statuses, Fresh
  <2>3. Start(w, "generate", j, <<>>)
    BY <1>9 DEF StartGenerate
  <2> HIDE DEF j
  <2> QED BY <1>q, <2>2, <2>3
<1> QED BY <1>2, <1>3, <1>4, <1>5, <1>6, <1>7, <1>8, <1>9 DEF Request

(* Configuration reads, saving the settings, generating a month, and the   *)
(* posting transaction up to its insert only move the request on.          *)
LEMMA StepMoves ==
  ASSUME ControlOK, LockHeld, NEW w \in Workers,
         \/ Miss(w) \/ Load(w) \/ Fill(w) \/ Begin(w) \/ Check(w) \/ TakeNumber(w)
         \/ Patch(w) \/ BorrowForSave(w) \/ WriteSettings(w)
         \/ GenerateMonth(w) /\ job[w].per[2] # PeriodsPerYear
  PROVE  \E j \in JobRecord : Moved(w, j)
<1> USE ConstantsOK
<1>0. /\ job \in [Workers -> JobRecord] /\ job[w] \in JobRecord
      /\ settings \in Config /\ cache \in Config \cup {NotCached}
      /\ job[w].cfg \in Config \cup {NotCached}
  BY DEF ControlOK, JobRecord
<1>1. Sound(job[w]) /\ (Numbered(job[w]) => lock = w)
  BY DEF ControlOK, LockHeld
<1>3. CASE Miss(w)
  <2> DEFINE j == [job[w] EXCEPT !.pc = "load", !.ret = job[w].pc]
  <2>1. /\ j \in JobRecord /\ j.pc = "load" /\ j.ret = job[w].pc
        /\ j.count = job[w].count /\ j.cfg = job[w].cfg
    BY <1>0 DEF JobRecord, Pcs
  <2>2. job' = [job EXCEPT ![w] = j]
    BY <1>0, <1>3 DEF Miss
  <2> HIDE DEF j
  <2>3. job[w].pc \in {"check", "insert", "patch"}
    BY <1>3 DEF Miss, NeedsConfig, At
  <2>4. /\ Sound(j) /\ (Numbered(j) => lock = w) /\ (Posting(j) <=> Posting(job[w]))
        /\ Borrowing(j) <=> Borrowing(job[w])
    BY <1>1, <2>1, <2>3 DEF Sound, Numbered, Posting, Holding, Borrowing
  <2>5. Moved(w, j)
    BY <1>3, <2>1, <2>2, <2>3, <2>4 DEF Moved, Miss, ledger, StatusStep
  <2> QED BY <2>1, <2>5
<1>4. CASE Load(w)
  <2> DEFINE j == [job[w] EXCEPT !.pc = "fill", !.cfg = settings]
  <2>1. /\ j \in JobRecord /\ j.pc = "fill" /\ j.ret = job[w].ret
        /\ j.count = job[w].count /\ j.cfg = settings
    BY <1>0 DEF JobRecord, Pcs
  <2>2. job' = [job EXCEPT ![w] = j]
    BY <1>0, <1>4 DEF Load
  <2> HIDE DEF j
  <2>3. job[w].pc = "load" /\ settings # NotCached
    BY <1>0, <1>4 DEF Load, At
  <2>4. /\ Sound(j) /\ (Numbered(j) => lock = w) /\ (Posting(j) <=> Posting(job[w]))
        /\ Borrowing(j) <=> Borrowing(job[w])
    BY <1>1, <2>1, <2>3 DEF Sound, Numbered, Posting, Holding, Borrowing
  <2>5. Moved(w, j)
    BY <1>4, <2>1, <2>2, <2>3, <2>4 DEF Moved, Load, ledger, StatusStep
  <2> QED BY <2>1, <2>5
<1>5. CASE Fill(w)
  <2> DEFINE j == [job[w] EXCEPT !.pc = job[w].ret]
  <2>1. /\ j \in JobRecord /\ j.pc = job[w].ret /\ j.ret = job[w].ret
        /\ j.count = job[w].count /\ j.cfg = job[w].cfg
    BY <1>0 DEF JobRecord
  <2>2. job' = [job EXCEPT ![w] = j]
    BY <1>0, <1>5 DEF Fill, Goto
  <2> HIDE DEF j
  <2>3. job[w].pc = "fill" /\ job[w].ret \in {"check", "insert", "patch"}
    BY <1>1, <1>5 DEF Fill, At, Sound
  <2>4. /\ Sound(j) /\ (Numbered(j) => lock = w) /\ (Posting(j) <=> Posting(job[w]))
        /\ Borrowing(j) <=> Borrowing(job[w])
    BY <1>1, <2>1, <2>3 DEF Sound, Numbered, Posting, Holding, Borrowing
  <2>5. Moved(w, j)
    BY <1>5, <2>1, <2>2, <2>3, <2>4 DEF Moved, Fill, ledger, StatusStep
  <2> QED BY <2>1, <2>5
<1>8. CASE Begin(w)
  <2> DEFINE j == [job[w] EXCEPT !.pc = "check"]
  <2>1. /\ j \in JobRecord /\ j.pc = "check"
        /\ j.count = job[w].count /\ j.cfg = job[w].cfg
    BY <1>0 DEF JobRecord, Pcs
  <2>2. job' = [job EXCEPT ![w] = j]
    BY <1>0, <1>8 DEF Begin, Goto
  <2> HIDE DEF j
  <2>3. job[w].pc = "begin" /\ free > 0 /\ free' = free - 1
    BY <1>8 DEF Begin, At, PoolAvailable
  <2>4. /\ Sound(j) /\ ~Numbered(j) /\ Posting(j) /\ Posting(job[w])
        /\ Holding(j) /\ Borrowing(j) /\ ~Borrowing(job[w])
    BY <1>1, <2>1, <2>3 DEF Sound, Numbered, Posting, Holding, Borrowing
  <2>5. Moved(w, j)
    BY <1>8, <2>1, <2>2, <2>3, <2>4 DEF Moved, Begin, ledger, StatusStep
  <2> QED BY <2>1, <2>5
<1>9. CASE Check(w)
  <2> DEFINE j == [job[w] EXCEPT !.pc = "number", !.cfg = NotCached]
  <2>1. /\ j \in JobRecord /\ j.pc = "number"
        /\ j.count = job[w].count /\ j.cfg = NotCached
    BY <1>0 DEF JobRecord, Pcs
  <2>2. job' = [job EXCEPT ![w] = j]
    BY <1>0, <1>9 DEF Check
  <2> HIDE DEF j
  <2>3. job[w].pc = "check"
    BY <1>9 DEF Check, At
  <2>4. /\ Sound(j) /\ (Numbered(j) => lock = w) /\ (Posting(j) <=> Posting(job[w]))
        /\ Borrowing(j) <=> Borrowing(job[w])
    BY <1>1, <2>1, <2>3 DEF Sound, Numbered, Posting, Holding, Borrowing
  <2>5. Moved(w, j)
    BY <1>9, <2>1, <2>2, <2>3, <2>4 DEF Moved, Check, ledger, StatusStep
  <2> QED BY <2>1, <2>5
<1>10. CASE TakeNumber(w)
  <2> DEFINE j == [job[w] EXCEPT !.pc = "insert"]
  <2>1. /\ j \in JobRecord /\ j.pc = "insert"
        /\ j.count = job[w].count /\ j.cfg = job[w].cfg
    BY <1>0 DEF JobRecord, Pcs
  <2>2. job' = [job EXCEPT ![w] = j]
    BY <1>0, <1>10 DEF TakeNumber, Goto
  <2> HIDE DEF j
  <2>3. job[w].pc = "number" /\ lock' = w /\ lock \in {Nobody, w}
    BY <1>10 DEF TakeNumber, At
  <2>4. /\ Sound(j) /\ (Posting(j) <=> Posting(job[w]))
        /\ Holding(j) /\ Borrowing(j) /\ Borrowing(job[w])
    BY <1>1, <2>1, <2>3 DEF Sound, Numbered, Posting, Holding, Borrowing
  <2>5. Moved(w, j)
    BY <1>10, <2>1, <2>2, <2>3, <2>4 DEF Moved, TakeNumber, ledger, StatusStep
  <2> QED BY <2>1, <2>5
<1>11. CASE Patch(w)
  <2>1. PICK docs \in BOOLEAN, next \in TypedCounters \cup {InHand(w).seq} :
             job' = [job EXCEPT ![w].pc = "write",
                                ![w].cfg = [seq |-> next, docsOk |-> docs]]
    BY <1>11 DEF Patch
  <2>2. /\ InHand(w) \in Config /\ InHand(w) \in {job[w].cfg, cache} \ {NotCached}
        /\ job[w].pc = "patch"
    BY <1>0, <1>11 DEF Patch, NeedsConfig, InHand, At
  <2> DEFINE c == [seq |-> next, docsOk |-> docs]
             j == [job[w] EXCEPT !.pc = "write", !.cfg = c]
  <2>3. c \in Config /\ c # NotCached /\ c.seq = next
    BY <2>2 DEF Config
  <2>c. job' = [job EXCEPT ![w] = j]
    BY <1>0, <2>1
  <2> HIDE DEF c
  <2>4. j \in JobRecord /\ j.pc = "write" /\ j.count = job[w].count /\ j.cfg = c
    BY <1>0, <2>3 DEF JobRecord, Pcs
  <2> HIDE DEF j
  <2>5. /\ Sound(j) /\ (Numbered(j) => lock = w) /\ (Posting(j) <=> Posting(job[w]))
        /\ Borrowing(j) <=> Borrowing(job[w])
    BY <1>1, <2>2, <2>3, <2>4 DEF Sound, Numbered, Posting, Holding, Borrowing
  <2>6. \E d \in {job[w].cfg, cache} \ {NotCached} : j.cfg.seq \in TypedCounters \cup {d.seq}
    BY <2>1, <2>2, <2>3, <2>4
  <2>7. Moved(w, j)
    BY <1>11, <2>c, <2>2, <2>4, <2>5, <2>6 DEF Moved, Patch, ledger, StatusStep
  <2> QED BY <2>4, <2>7
<1>12. CASE BorrowForSave(w)
  <2> DEFINE j == [job[w] EXCEPT !.pc = "update"]
  <2>1. /\ j \in JobRecord /\ j.pc = "update"
        /\ j.count = job[w].count /\ j.cfg = job[w].cfg
    BY <1>0 DEF JobRecord, Pcs
  <2>2. job' = [job EXCEPT ![w] = j]
    BY <1>0, <1>12 DEF BorrowForSave, Goto
  <2> HIDE DEF j
  <2>3. job[w].pc = "write" /\ job[w].cfg # NotCached /\ free > 0 /\ free' = free - 1
    BY <1>1, <1>12 DEF BorrowForSave, At, Sound, PoolAvailable
  <2>4. /\ Sound(j) /\ ~Numbered(j) /\ (Posting(j) <=> Posting(job[w]))
        /\ Borrowing(j) /\ ~Borrowing(job[w])
    BY <1>1, <2>1, <2>3 DEF Sound, Numbered, Posting, Holding, Borrowing
  <2>5. Moved(w, j)
    BY <1>12, <2>1, <2>2, <2>3, <2>4 DEF Moved, BorrowForSave, ledger, StatusStep
  <2> QED BY <2>1, <2>5
<1>14. CASE WriteSettings(w)
  <2> DEFINE j == [job[w] EXCEPT !.pc = "invalidate"]
  <2>1. /\ j \in JobRecord /\ j.pc = "invalidate"
        /\ j.count = job[w].count /\ j.cfg = job[w].cfg
    BY <1>0 DEF JobRecord, Pcs
  <2>2. job' = [job EXCEPT ![w] = j]
    BY <1>0, <1>14 DEF WriteSettings, Goto
  <2> HIDE DEF j
  <2>3. /\ job[w].pc = "update" /\ lock = Nobody /\ settings' = job[w].cfg
        /\ job[w].cfg # NotCached
    BY <1>1, <1>14 DEF WriteSettings, At, Sound
  <2>4. /\ Sound(j) /\ (Numbered(j) => lock = w) /\ (Posting(j) <=> Posting(job[w]))
        /\ ~Borrowing(j) /\ Borrowing(job[w]) /\ free' = free + 1
    BY <1>1, <1>14, <2>1, <2>3 DEF WriteSettings, Sound, Numbered, Posting, Holding, Borrowing
  <2>5. Moved(w, j)
    BY <1>14, <2>1, <2>2, <2>3, <2>4 DEF Moved, WriteSettings, ledger, StatusStep
  <2> QED BY <2>1, <2>5
<1>13. CASE GenerateMonth(w) /\ job[w].per[2] # PeriodsPerYear
  <2> DEFINE q == <<job[w].per[1], job[w].per[2] + 1>>
             j == [job[w] EXCEPT !.per = q]
  <2>1. job' = [job EXCEPT ![w] = j]
    BY <1>0, <1>13 DEF GenerateMonth
  <2>2. job[w].pc = "month" /\ job[w].per \in Periods /\ q \in Periods
    <3>1. job[w].pc = "month" /\ job[w].per \in Periods
      BY <1>1, <1>13 DEF GenerateMonth, At, Sound
    <3>2. \A p \in Periods : p[2] # PeriodsPerYear => <<p[1], p[2] + 1>> \in Periods
      BY DEF Periods
    <3> QED BY <1>13, <3>1, <3>2
  <2>s. StatusStep
    <3> DEFINE p == job[w].per
               s == IF status[p] # "absent" THEN status[p]
                    ELSE IF p \in Begun THEN "open" ELSE "future"
    <3>1. status' = [status EXCEPT ![p] = s]
      BY <1>13, <2>2 DEF GenerateMonth, ControlOK
    <3>2. s \in Statuses
      BY <2>2 DEF ControlOK, Statuses
    <3> QED BY <2>2, <3>1, <3>2 DEF StatusStep
  <2> HIDE DEF q
  <2>3. /\ j \in JobRecord /\ j.pc = "month" /\ j.per \in Periods /\ j.ret = job[w].ret
        /\ j.count = job[w].count /\ j.cfg = job[w].cfg
    BY <1>0, <2>2 DEF JobRecord
  <2> HIDE DEF j
  <2>4. /\ Sound(j) /\ (Numbered(j) => lock = w) /\ (Posting(j) <=> Posting(job[w]))
        /\ Borrowing(j) <=> Borrowing(job[w])
    BY <1>1, <2>2, <2>3 DEF Sound, Numbered, Posting, Holding, Borrowing
  <2>5. UNCHANGED <<entries, reversed, snap, settings, drafts, staged, started, lock, free, cache>>
    BY <1>13 DEF GenerateMonth, ledger
  <2>6. Moved(w, j)
    BY <2>1, <2>2, <2>3, <2>4, <2>5, <2>s DEF Moved
  <2> QED BY <2>3, <2>6
<1> QED BY <1>3, <1>4, <1>5, <1>8, <1>9, <1>10, <1>11, <1>12, <1>13, <1>14

(* Every step is of one of these kinds. *)
LEMMA StepKinds ==
  ASSUME ControlOK, LockHeld, NEW w \in Workers, Request(w) \/ Step(w) \/ Abort(w)
  PROVE  \/ \E j \in JobRecord : \E ds : Opened(w, j, ds)
         \/ \E j \in JobRecord : Moved(w, j)
         \/ YearEndPnl(w) \/ YearEndBs(w) \/ Insert(w) \/ Commit(w)
         \/ Ended(w)
<1> USE ConstantsOK
<1>0. job[w] \in JobRecord /\ Sound(job[w])
  BY DEF ControlOK
<1>1. CASE Abort(w) \/ Reject(w)
  BY <1>1 DEF Abort, Reject, Ended, StatusStep, ledger
<1>2. CASE MarkPeriod(w)
  <2>1. job[w].per \in Periods /\ job[w].to \in Statuses
    BY <1>0, <1>2 DEF MarkPeriod, At, Sound, JobRecord
  <2> QED BY <1>2, <2>1 DEF MarkPeriod, Ended, StatusStep, ledger
<1>3. CASE InvalidateConfig(w)
  BY <1>3 DEF InvalidateConfig, Ended, StatusStep, ledger
<1>4. CASE GenerateMonth(w) /\ job[w].per[2] = PeriodsPerYear
  <2> DEFINE p == job[w].per
             s == IF status[p] # "absent" THEN status[p]
                  ELSE IF p \in Begun THEN "open" ELSE "future"
  <2>1. p \in Periods
    BY <1>0, <1>4 DEF GenerateMonth, At, Sound
  <2>2. status' = [status EXCEPT ![p] = s]
    BY <1>4, <2>1 DEF GenerateMonth, ControlOK
  <2>3. s \in Statuses
    BY <2>1 DEF ControlOK, Statuses
  <2>4. StatusStep
    BY <2>1, <2>2, <2>3 DEF StatusStep
  <2> QED BY <1>4, <2>4 DEF GenerateMonth, Ended, ledger
<1> QED BY <1>1, <1>2, <1>3, <1>4, RequestOpens, StepMoves DEF Step

-----------------------------------------------------------------------------
(* The core invariant. *)

(* Initially nobody works and nothing is posted. *)
LEMMA CoreInit == Init => CoreInv
<1> SUFFICES ASSUME Init PROVE CoreInv
  OBVIOUS
<1> USE ConstantsOK
<1>1. ControlOK
  <2>1. settings \in Config
    BY DEF Init, Config
  <2>2. job \in [Workers -> JobRecord] /\ \A w \in Workers : Sound(job[w])
    BY IdleType DEF Init
  <2>3. status \in [Periods -> Statuses]
    BY DEF Init, Statuses
  <2> QED BY <2>1, <2>2, <2>3 DEF Init, ControlOK
<1>2. LockHeld
  BY IdleType DEF Init, LockHeld
<1>3. StagedRows
  BY DEF Init, StagedRows, Idle, Numbers
<1>4. UniqueNumbers
  BY DEF Init, UniqueNumbers
<1> QED BY <1>1, <1>2, <1>3, <1>4 DEF CoreInv

(* The status of the periods keeps its type. *)
LEMMA StatusTyped ==
  ASSUME status \in [Periods -> Statuses], StatusStep
  PROVE  status' \in [Periods -> Statuses]
  BY DEF StatusStep

(* A request that starts or moves on leaves the rows alone; it saves the   *)
(* settings only while nobody has a number in hand.                        *)
LEMMA CoreMoves ==
  ASSUME CoreInv, NEW w \in Workers, NEW j \in JobRecord,
         Moved(w, j) \/ \E ds : Opened(w, j, ds)
  PROVE  CoreInv'
<1> USE ConstantsOK DEF CoreInv
<1>0. job \in [Workers -> JobRecord]
  BY DEF ControlOK
<1>j. /\ job' = [job EXCEPT ![w] = j]
      /\ \A v \in Workers : job'[v] = IF v = w THEN j ELSE job[v]
      /\ job' \in [Workers -> JobRecord]
  BY <1>0 DEF Moved, Opened
<1>c. job[w].cfg \in Config \cup {NotCached}
  BY <1>0 DEF JobRecord
<1>f. /\ UNCHANGED <<entries, staged>> /\ Sound(j) /\ j.count = job[w].count
      /\ StatusStep
      /\ (Numbered(j) => lock' = w)
      /\ lock' = lock \/ (lock = Nobody /\ lock' = w)
      /\ cache' \in {cache, job[w].cfg}
      /\ settings' = settings \/ (lock = Nobody /\ settings' = job[w].cfg /\ job[w].cfg # NotCached)
      /\ DOMAIN drafts' = Workers
  <2>1. CASE Moved(w, j)
    BY <2>1 DEF Moved, ControlOK
  <2>2. CASE \E ds : Opened(w, j, ds)
    <3>1. job[w].count = 0
      BY <2>2 DEF Opened, At, ControlOK, Sound, Holding
    <3>2. ~Numbered(j)
      BY <2>2 DEF Opened, Holding, Numbered
    <3> QED BY <2>2, <3>1, <3>2 DEF Opened, StatusStep, ControlOK
  <2> QED BY <2>1, <2>2
<1>s. settings' \in Config
  BY <1>c, <1>f DEF ControlOK
<1>1. ControlOK'
  BY <1>j, <1>c, <1>f, <1>s, StatusTyped DEF ControlOK
<1>2. LockHeld'
  BY <1>j, <1>f DEF LockHeld, ControlOK
<1>3. StagedRows'
  <2>1. CASE settings' = settings
    BY <1>j, <1>f, <2>1 DEF StagedRows, Numbers
  <2>2. CASE lock = Nobody /\ settings' = job[w].cfg
    <3>0. settings.seq \in Nat /\ settings'.seq \in Nat
      BY <1>s DEF ControlOK, Config
    <3>1. \A v \in Workers : job[v].count = 0
      BY <2>2 DEF LockHeld, Numbered
    <3>2. settings.seq .. (settings.seq + 0 - 1) = {}
      BY <3>0
    <3>3. \A v \in Workers : {e.num[2] : e \in staged[v]} = {}
      BY <3>1, <3>2 DEF StagedRows
    <3>e. ASSUME NEW v \in Workers PROVE staged[v] = {}
      <4>1. ASSUME NEW e \in staged[v] PROVE FALSE
        <5>1. e.num[2] \in {x.num[2] : x \in staged[v]}
          OBVIOUS
        <5> QED BY <3>3, <5>1
      <4> QED BY <4>1
    <3>4. \A v \in Workers : staged'[v] = {} /\ job'[v].count = 0
      BY <1>j, <1>f, <3>1, <3>e
    <3> QED BY <3>0, <3>4 DEF StagedRows
  <2> QED BY <1>f, <2>1, <2>2
<1>4. UniqueNumbers'
  BY <1>f DEF UniqueNumbers
<1> QED BY <1>1, <1>2, <1>3, <1>4

(* The year-end queries touch only the drafts. *)
LEMMA CoreQueries ==
  ASSUME CoreInv, NEW w \in Workers, YearEndPnl(w) \/ YearEndBs(w)
  PROVE  /\ CoreInv'
         /\ \E j \in JobRecord : /\ job' = [job EXCEPT ![w] = j]
                                 /\ j.cfg = job[w].cfg /\ j.count = 0
                                 /\ j.year = job[w].year /\ j.per = job[w].per
                                 /\ j.pc = IF At(w, "pnl") THEN "bs" ELSE "begin"
<1> USE ConstantsOK DEF CoreInv
<1>0. job \in [Workers -> JobRecord] /\ job[w] \in JobRecord /\ Sound(job[w])
  BY DEF ControlOK
<1> DEFINE pc == IF At(w, "pnl") THEN "bs" ELSE "begin"
           j == [job[w] EXCEPT !.pc = pc]
<1>1. job' = [job EXCEPT ![w] = j] /\ job[w].pc \in {"pnl", "bs"}
  BY <1>0 DEF YearEndPnl, YearEndBs, Goto, At
<1>2. pc \in {"bs", "begin"} /\ pc \in Pcs
  BY DEF Pcs
<1> HIDE DEF pc
<1>3. /\ j \in JobRecord /\ j.pc = pc /\ j.year = job[w].year /\ j.per = job[w].per
      /\ j.cfg = job[w].cfg /\ j.count = job[w].count
  BY <1>0, <1>2 DEF JobRecord
<1> HIDE DEF j
<1>4. Sound(j) /\ ~Numbered(j) /\ job[w].count = 0
  BY <1>0, <1>1, <1>2, <1>3 DEF Sound, Numbered, Holding
<1>j. /\ job' \in [Workers -> JobRecord]
      /\ \A v \in Workers : job'[v] = IF v = w THEN j ELSE job[v]
  BY <1>0, <1>1, <1>3
<1>u. /\ UNCHANGED <<status, entries, settings, lock, cache, staged>>
      /\ DOMAIN drafts' = Workers
  BY DEF YearEndPnl, YearEndBs, ledger, ControlOK
<1>5. ControlOK'
  BY <1>j, <1>u, <1>4 DEF ControlOK
<1>6. LockHeld'
  BY <1>j, <1>u, <1>4 DEF LockHeld
<1>7. StagedRows'
  BY <1>j, <1>u, <1>3 DEF StagedRows, Numbers
<1>8. UniqueNumbers'
  BY <1>u DEF UniqueNumbers
<1> QED BY <1>1, <1>3, <1>4, <1>5, <1>6, <1>7, <1>8 DEF pc

(* The end of a request that publishes nothing. *)
LEMMA CoreEnds ==
  ASSUME CoreInv, NEW w \in Workers, Ended(w)
  PROVE  CoreInv'
<1> USE ConstantsOK DEF CoreInv
<1>0. job \in [Workers -> JobRecord] /\ DOMAIN staged = Workers /\ DOMAIN drafts = Workers
  BY DEF ControlOK
<1>i. Idle.count = 0
  BY DEF Idle
<1>j. /\ \A v \in Workers : job'[v] = IF v = w THEN Idle ELSE job[v]
      /\ job' \in [Workers -> JobRecord]
  BY <1>0, IdleType DEF Ended, Release
<1>s. /\ \A v \in Workers : staged'[v] = IF v = w THEN {} ELSE staged[v]
      /\ DOMAIN staged' = Workers /\ DOMAIN drafts' = Workers
  BY <1>0 DEF Ended, Release
<1>1. ControlOK'
  BY <1>j, <1>s, IdleType, StatusTyped DEF ControlOK, Ended, Release
<1>2. LockHeld'
  BY <1>j, IdleType DEF LockHeld, Ended, Release
<1>3. StagedRows'
  <2>1. settings.seq \in Nat
    BY DEF ControlOK, Config
  <2>2. settings.seq .. (settings.seq + 0 - 1) = {}
    BY <2>1
  <2> QED BY <1>i, <1>j, <1>s, <2>2 DEF StagedRows, Numbers, Ended
<1>4. UniqueNumbers'
  BY DEF UniqueNumbers, Ended
<1> QED BY <1>1, <1>2, <1>3, <1>4

(* What an insert does to the request's record and its transaction. *)
LEMMA InsertFacts ==
  ASSUME CoreInv, NEW w \in Workers, Insert(w)
  PROVE  /\ job \in [Workers -> JobRecord] /\ job' \in [Workers -> JobRecord]
         /\ \A v \in Workers \ {w} : job'[v] = job[v] /\ staged'[v] = staged[v]
         /\ job[w].pc = "insert" /\ lock = w
         /\ job[w].count \in Nat /\ settings.seq \in Nat
         /\ job'[w].count = job[w].count + 1
         /\ job'[w].cfg = NotCached
         /\ job'[w].pc = IF job[w].count + 1 = Len(drafts[w]) THEN "commit" ELSE "check"
         /\ DOMAIN staged' = Workers
         /\ staged'[w] = staged[w] \cup {NewEntry(w)}
         /\ NewEntry(w).num[2] = settings.seq + job[w].count
         /\ NewEntry(w).num \notin Numbers
         /\ UNCHANGED <<status, entries, reversed, snap, settings, lock, cache, free, drafts, started>>
<1> USE ConstantsOK DEF CoreInv
<1> DEFINE c0 == job[w].count
<1>0. /\ job \in [Workers -> JobRecord] /\ DOMAIN staged = Workers
      /\ settings.seq \in Nat /\ c0 \in Nat
  BY DEF ControlOK, JobRecord, Config
<1>1. job[w].pc = "insert" /\ lock = w
  BY DEF Insert, At, LockHeld, Numbered
<1>2. NewEntry(w).num[2] = settings.seq + c0 /\ NewEntry(w).num \notin Numbers
  BY DEF Insert, Insertable, NewEntry
<1> DEFINE pc1 == IF job[w].count + 1 = Len(drafts[w]) THEN "commit" ELSE "check"
           j == [job[w] EXCEPT !.count = c0 + 1, !.cfg = NotCached, !.pc = pc1]
<1>3. pc1 \in {"commit", "check"}
  OBVIOUS
<1>4. job' = [job EXCEPT ![w] = [job[w] EXCEPT !.count = c0 + 1, !.cfg = NotCached, !.pc = pc1]]
  BY <1>0 DEF Insert
<1> HIDE DEF pc1
<1>5. job[w] \in JobRecord /\ pc1 \in Pcs /\ c0 + 1 \in Nat
  BY <1>0, <1>3 DEF Pcs
<1>6. j \in JobRecord /\ j.count = c0 + 1 /\ j.cfg = NotCached /\ j.pc = pc1
  <2> HIDE DEF c0
  <2> QED BY <1>5 DEF JobRecord
<1>j. /\ job' \in [Workers -> JobRecord]
      /\ \A v \in Workers \ {w} : job'[v] = job[v]
      /\ job'[w].count = c0 + 1 /\ job'[w].cfg = NotCached /\ job'[w].pc = pc1
  BY <1>0, <1>4, <1>6
<1>s. /\ DOMAIN staged' = Workers
      /\ staged'[w] = staged[w] \cup {NewEntry(w)}
      /\ \A v \in Workers \ {w} : staged'[v] = staged[v]
  BY <1>0 DEF Insert
<1>u. UNCHANGED <<status, entries, reversed, snap, settings, lock, cache, free, drafts, started>>
  BY DEF Insert, ledger
<1> QED BY <1>0, <1>1, <1>2, <1>j, <1>s, <1>u DEF pc1

(* An entry inserted in the transaction takes the next row of the counter  *)
(* the transaction has locked.                                             *)
LEMMA CoreInsert ==
  ASSUME CoreInv, NEW w \in Workers, Insert(w)
  PROVE  CoreInv'
<1> USE ConstantsOK DEF CoreInv
<1> DEFINE e0 == NewEntry(w)
           c0 == job[w].count
<1>f. /\ job \in [Workers -> JobRecord] /\ job' \in [Workers -> JobRecord]
      /\ \A v \in Workers \ {w} : job'[v] = job[v] /\ staged'[v] = staged[v]
      /\ job[w].pc = "insert" /\ lock = w
      /\ c0 \in Nat /\ settings.seq \in Nat
      /\ job'[w].count = c0 + 1 /\ job'[w].cfg = NotCached
      /\ job'[w].pc \in {"commit", "check"}
      /\ DOMAIN staged' = Workers
      /\ staged'[w] = staged[w] \cup {e0}
      /\ e0.num[2] = settings.seq + c0 /\ e0.num \notin Numbers
      /\ UNCHANGED <<status, entries, settings, lock, cache, drafts>>
  BY InsertFacts
<1> HIDE DEF e0, c0
<1>3. ControlOK'
  BY <1>f DEF ControlOK, Sound, Holding
<1>4. LockHeld'
  BY <1>f DEF LockHeld, Numbered
<1>5. StagedRows'
  <2>1. {e.num[2] : e \in staged[w]} = settings.seq .. (settings.seq + c0 - 1)
    BY DEF StagedRows, c0
  <2>2. {e.num[2] : e \in staged[w] \cup {e0}} = settings.seq .. (settings.seq + (c0 + 1) - 1)
    <3>1. {e.num[2] : e \in staged[w] \cup {e0}} = {e.num[2] : e \in staged[w]} \cup {e0.num[2]}
      OBVIOUS
    <3>2. settings.seq .. (settings.seq + (c0 + 1) - 1)
            = (settings.seq .. (settings.seq + c0 - 1)) \cup {settings.seq + c0}
      BY <1>f
    <3> QED BY <1>f, <2>1, <3>1, <3>2
  <2>3. \A e \in staged[w] : e.num # e0.num
    <3> SUFFICES ASSUME NEW e \in staged[w] PROVE e.num[2] # e0.num[2]
      OBVIOUS
    <3>1. e.num[2] \in settings.seq .. (settings.seq + c0 - 1)
      BY <2>1
    <3> QED BY <1>f, <3>1
  <2>4. \A e, f \in staged[w] \cup {e0} : e.num = f.num => e = f
    BY <2>3 DEF StagedRows
  <2> QED BY <1>f, <2>2, <2>4 DEF StagedRows, Numbers
<1>6. UniqueNumbers'
  BY <1>f DEF UniqueNumbers
<1> QED BY <1>3, <1>4, <1>5, <1>6

(* What a commit does: the rows are published, the counter moves past them *)
(* and nobody else has rows of their own.                                  *)
LEMMA CommitFacts ==
  ASSUME CoreInv, NEW w \in Workers, Commit(w)
  PROVE  /\ job \in [Workers -> JobRecord] /\ job' \in [Workers -> JobRecord]
         /\ \A v \in Workers : job'[v] = IF v = w THEN Idle ELSE job[v]
         /\ \A v \in Workers : staged'[v] = {}
         /\ \A v \in Workers \ {w} : staged[v] = {} /\ job[v].count = 0
         /\ \A v \in Workers : job'[v].count = 0 /\ ~Numbered(job'[v])
         /\ DOMAIN staged' = Workers /\ DOMAIN drafts' = Workers
         /\ job[w].pc = "commit" /\ lock = w /\ lock' = Nobody
         /\ job[w].count \in Nat /\ settings.seq \in Nat
         /\ {e.num[2] : e \in staged[w]} = settings.seq .. (settings.seq + job[w].count - 1)
         /\ entries' = entries \cup staged[w]
         /\ settings' \in Config /\ settings'.seq = settings.seq + job[w].count
         /\ UNCHANGED <<status, cache, started>>
<1> USE ConstantsOK DEF CoreInv
<1> DEFINE c0 == job[w].count
           s0 == settings.seq
<1>0. /\ job \in [Workers -> JobRecord] /\ DOMAIN staged = Workers /\ DOMAIN drafts = Workers
      /\ s0 \in Nat /\ c0 \in Nat
  BY DEF ControlOK, JobRecord, Config
<1>1. lock = w /\ job[w].pc = "commit"
  BY DEF Commit, At, LockHeld, Numbered
<1>2. \A v \in Workers \ {w} : ~Numbered(job[v]) /\ job[v].count = 0
  BY <1>1 DEF LockHeld, Numbered
<1>i. Idle.count = 0
  BY DEF Idle
<1>j. /\ \A v \in Workers : job'[v] = IF v = w THEN Idle ELSE job[v]
      /\ job' \in [Workers -> JobRecord]
  BY <1>0, IdleType DEF Commit, Release
<1>s. /\ \A v \in Workers : staged'[v] = IF v = w THEN {} ELSE staged[v]
      /\ DOMAIN staged' = Workers /\ DOMAIN drafts' = Workers
  BY <1>0 DEF Commit, Release
<1>e. /\ entries' = entries \cup staged[w] /\ UNCHANGED <<status, cache, started>>
      /\ lock' = Nobody
  BY <1>1 DEF Commit, Release
<1>c. settings' \in Config /\ settings'.seq = s0 + c0
  <2>1. settings \in Config /\ settings' = [settings EXCEPT !.seq = s0 + c0]
    BY DEF Commit, ControlOK
  <2>2. s0 + c0 \in Nat
    BY <1>0
  <2> HIDE DEF s0, c0
  <2> QED BY <2>1, <2>2 DEF Config
<1>3. \A v \in Workers \ {w} : staged[v] = {}
  <2> SUFFICES ASSUME NEW v \in Workers \ {w} PROVE staged[v] = {}
    OBVIOUS
  <2>1. s0 .. (s0 + 0 - 1) = {}
    BY <1>0
  <2>2. {e.num[2] : e \in staged[v]} = {}
    BY <1>2, <2>1 DEF StagedRows
  <2> QED BY <2>2
<1>4. {e.num[2] : e \in staged[w]} = s0 .. (s0 + c0 - 1)
  BY DEF StagedRows
<1>5. \A v \in Workers : job'[v].count = 0 /\ ~Numbered(job'[v])
  BY <1>i, <1>j, <1>2, IdleType
<1> QED BY <1>0, <1>1, <1>2, <1>j, <1>s, <1>e, <1>c, <1>3, <1>4, <1>5

(* Commit publishes rows whose numbers were new when they were inserted    *)
(* and have stayed so under the lock.                                      *)
LEMMA CoreCommit ==
  ASSUME CoreInv, NEW w \in Workers, Commit(w)
  PROVE  CoreInv'
<1> USE ConstantsOK DEF CoreInv
<1>f. /\ job' \in [Workers -> JobRecord]
      /\ \A v \in Workers : job'[v] = IF v = w THEN Idle ELSE job[v]
      /\ \A v \in Workers : staged'[v] = {}
      /\ \A v \in Workers : job'[v].count = 0 /\ ~Numbered(job'[v])
      /\ DOMAIN staged' = Workers /\ DOMAIN drafts' = Workers
      /\ lock' = Nobody
      /\ entries' = entries \cup staged[w]
      /\ settings' \in Config
      /\ UNCHANGED <<status, cache>>
  BY CommitFacts
<1>3. ControlOK'
  BY <1>f, IdleType DEF ControlOK
<1>4. LockHeld'
  BY <1>f DEF LockHeld
<1>5. StagedRows'
  <2>1. settings'.seq \in Nat
    BY <1>f DEF Config
  <2> QED BY <1>f, <2>1 DEF StagedRows
<1>6. UniqueNumbers'
  BY <1>f DEF UniqueNumbers, StagedRows, Numbers
<1> QED BY <1>3, <1>4, <1>5, <1>6

(* Every step keeps the core invariant. *)
LEMMA CoreNext ==
  ASSUME CoreInv, [Next]_vars
  PROVE  CoreInv'
<1>1. CASE UNCHANGED vars
  BY <1>1 DEF vars, CoreInv, ControlOK, LockHeld, StagedRows, UniqueNumbers, Numbers
<1>2. ASSUME NEW w \in Workers, Request(w) \/ Step(w) \/ Abort(w)
      PROVE  CoreInv'
  <2>1. ControlOK /\ LockHeld
    BY DEF CoreInv
  <2> QED BY <1>2, <2>1, StepKinds, CoreMoves, CoreQueries, CoreEnds, CoreInsert, CoreCommit
<1> QED BY <1>1, <1>2 DEF Next, Quiesced

(* So it holds in every state. *)
LEMMA CoreAlways == Spec => []CoreInv
<1>1. Init => CoreInv
  BY CoreInit
<1>2. CoreInv /\ [Next]_vars => CoreInv'
  BY CoreNext
<1> QED BY <1>1, <1>2, PTL DEF Spec

-----------------------------------------------------------------------------
(* Numbering. *)

(* Initially no entry exists and the counter is 1. *)
LEMMA GaplessInit == Init => GaplessInv
<1> SUFFICES ASSUME Init PROVE GaplessInv
  OBVIOUS
<1> USE ConstantsOK
<1>1. CountersReached(0)
  BY DEF Init, CountersReached, Reached, Rows, Idle, Config
<1> QED BY <1>1 DEF GaplessInv

(* A configuration that a request ends up with was read somewhere, so it   *)
(* holds a counter that was reached; so does one it saves.                 *)
LEMMA GaplessMoves ==
  ASSUME CoreInv, GaplessInv, TypedCounters = {}, NEW w \in Workers, NEW j \in JobRecord,
         Moved(w, j) \/ \E ds : Opened(w, j, ds)
  PROVE  GaplessInv'
<1> USE ConstantsOK DEF CoreInv
<1>j. /\ \A v \in Workers : job'[v] = IF v = w THEN j ELSE job[v]
      /\ job[w].cfg \in Config \cup {NotCached}
  BY DEF Moved, Opened, ControlOK, JobRecord
<1>1. PICK n \in Nat : CountersReached(n)
  BY DEF GaplessInv
<1>2. Reached(job[w].cfg, n) /\ Reached(settings, n) /\ Reached(cache, n)
  BY <1>1 DEF CountersReached, Reached
<1>3. Reached(j.cfg, n)
  BY <1>2 DEF Moved, Opened, Reached
<1>4. Reached(cache', n)
  BY <1>2 DEF Moved, Opened, Reached
<1>5. settings'.seq \in 1 .. (n + 1)
  BY <1>1, <1>2 DEF Moved, Opened, Reached, CountersReached
<1>6. Rows' = Rows
  BY DEF Moved, Opened, Rows
<1>7. \A v \in Workers : Reached(job'[v].cfg, n)
  BY <1>j, <1>1, <1>3 DEF CountersReached
<1>8. CountersReached(n)'
  BY <1>1, <1>4, <1>5, <1>6, <1>7 DEF CountersReached, Reached
<1> QED BY <1>8 DEF GaplessInv

(* The year-end queries, the insert and the end of a request leave every   *)
(* copy of the counter where it was, or forget it.                         *)
LEMMA GaplessOther ==
  ASSUME CoreInv, GaplessInv, NEW w \in Workers,
         YearEndPnl(w) \/ YearEndBs(w) \/ Insert(w) \/ Ended(w)
  PROVE  GaplessInv'
<1> USE ConstantsOK DEF CoreInv
<1>1. PICK n \in Nat : CountersReached(n)
  BY DEF GaplessInv
<1>2. /\ \A v \in Workers : job'[v].cfg \in {job[v].cfg, NotCached}
      /\ UNCHANGED <<entries, settings>> /\ cache' \in {cache, NotCached}
  <2>1. CASE YearEndPnl(w) \/ YearEndBs(w)
    <3>1. PICK j \in JobRecord : job' = [job EXCEPT ![w] = j] /\ j.cfg = job[w].cfg
      BY <2>1, CoreQueries
    <3> QED BY <2>1, <3>1 DEF YearEndPnl, YearEndBs, ledger, ControlOK
  <2>2. CASE Insert(w)
    BY <2>2, InsertFacts
  <2>3. CASE Ended(w)
    BY <2>3 DEF Ended, Release, Idle, ControlOK
  <2> QED BY <2>1, <2>2, <2>3
<1>3. CountersReached(n)'
  BY <1>1, <1>2 DEF CountersReached, Reached, Rows
<1> QED BY <1>3 DEF GaplessInv

(* Commit publishes the rows that continue the counter and moves it past   *)
(* them: the issued rows stay an initial segment, whether the counter was  *)
(* at its end or had been set back.                                        *)
LEMMA GaplessCommit ==
  ASSUME CoreInv, GaplessInv, NEW w \in Workers, Commit(w)
  PROVE  GaplessInv'
<1> USE ConstantsOK
<1> DEFINE c0 == job[w].count
           s0 == settings.seq
<1>f. /\ \A v \in Workers : job'[v] = IF v = w THEN Idle ELSE job[v]
      /\ c0 \in Nat /\ s0 \in Nat
      /\ {e.num[2] : e \in staged[w]} = s0 .. (s0 + c0 - 1)
      /\ entries' = entries \cup staged[w]
      /\ settings'.seq = s0 + c0
      /\ UNCHANGED cache
  BY CommitFacts
<1>i. Idle.cfg = NotCached
  BY DEF Idle
<1>1. PICK n \in Nat : CountersReached(n)
  BY DEF GaplessInv
<1>2. s0 \in 1 .. (n + 1) /\ Rows = 1..n
  BY <1>1 DEF CountersReached
<1>3. Rows' = Rows \cup {e.num[2] : e \in staged[w]}
  BY <1>f DEF Rows
<1>m. PICK m \in Nat : m = IF s0 + c0 - 1 > n THEN s0 + c0 - 1 ELSE n
  BY <1>f, <1>2
<1>4. m >= n /\ s0 + c0 \in 1 .. (m + 1)
  BY <1>f, <1>2, <1>m
<1>5. (1..n) \cup (s0 .. (s0 + c0 - 1)) = 1..m
  BY <1>f, <1>2, <1>m
<1>6. Rows' = 1..m
  BY <1>f, <1>2, <1>3, <1>5
<1>7. Reached(cache, m) /\ \A v \in Workers : Reached(job[v].cfg, m)
  BY <1>1, <1>4 DEF CountersReached, Reached
<1>8. CountersReached(m)'
  BY <1>f, <1>i, <1>4, <1>6, <1>7 DEF CountersReached, Reached
<1> QED BY <1>8 DEF GaplessInv

(* Every step keeps the numbering invariant. *)
LEMMA GaplessNext ==
  ASSUME TypedCounters = {}, CoreInv, GaplessInv, [Next]_vars
  PROVE  GaplessInv'
<1>1. CASE UNCHANGED vars
  BY <1>1 DEF vars, GaplessInv, CountersReached, Rows
<1>2. ASSUME NEW w \in Workers, Request(w) \/ Step(w) \/ Abort(w)
      PROVE  GaplessInv'
  <2>1. ControlOK /\ LockHeld
    BY DEF CoreInv
  <2> QED BY <1>2, <2>1, StepKinds, GaplessMoves, GaplessOther, GaplessCommit
<1> QED BY <1>1, <1>2 DEF Next, Quiesced

(* The invariants say what NumbersGapless says: a segment has as many      *)
(* elements as its last one.                                               *)
LEMMA GaplessImplies == CoreInv /\ GaplessInv => NumbersGapless
<1> SUFFICES ASSUME CoreInv, GaplessInv PROVE NumbersGapless
  OBVIOUS
<1>1. PICK n \in Nat : Rows = 1..n
  BY DEF GaplessInv, CountersReached
<1>2. Cardinality(1..n) = n
  BY FS_Interval
<1> QED BY <1>1, <1>2 DEF CoreInv, UniqueNumbers, NumbersGapless

(* As long as no administrator types a counter by hand, journal numbers    *)
(* are gapless and unique for every number of concurrent requests, also    *)
(* after rollbacks, dropped requests and saved settings.                   *)
THEOREM NumberingGapless == TypedCounters = {} => (Spec => []NumbersGapless)
<1> SUFFICES ASSUME TypedCounters = {} PROVE Spec => []NumbersGapless
  OBVIOUS
<1>1. Init => GaplessInv
  BY GaplessInit
<1>2. CoreInv /\ GaplessInv /\ [Next]_vars => GaplessInv'
  BY GaplessNext
<1>3. CoreInv /\ GaplessInv => NumbersGapless
  BY GaplessImplies
<1> QED BY <1>1, <1>2, <1>3, CoreAlways, PTL DEF Spec

-----------------------------------------------------------------------------
(* What is in an entry and in the draft it is made from. *)
EntryOK(e) == /\ e.per \in Periods
              /\ e.src \in Sources
              /\ e.lines \in [Accounts -> Int]
              /\ Total(e.lines) = 0

DraftOK(d) == d.per \in Periods /\ d.src \in Sources /\ d.lines \in [Accounts -> Int]

EntryOf(e, d) == /\ e.per = d.per /\ e.src = d.src /\ e.ref = d.ref
                 /\ e.lines = Adjusted(d.lines) /\ Postable(d.lines)

(* A request posts one entry, perhaps the mirror image of an entry, ...    *)
Single(ds) ==
    \E d : /\ ds = <<d>> /\ DraftOK(d)
           /\ \/ d.ref = NoRef
              \/ \E e \in entries : /\ d.ref = RevRef(e.num)
                                    /\ \A a \in Accounts : d.lines[a] = -e.lines[a]

(* ... or the pair of entries of a year end. *)
Closing(d, y) == DraftOK(d) /\ d.ref = YecRef(y)
Opening(d, y) == /\ DraftOK(d) /\ d.ref = ObRef(y + 1)
                 /\ \A a \in ProfitLoss : d.lines[a] = 0
Turn(ds) == \E c, o : \E y \in Years : ds = <<c, o>> /\ Closing(c, y) /\ Opening(o, y)

(* What a request has planned, and how far it has come. *)
PlanOK(w) ==
    /\ Posting(job[w]) => Single(drafts[w]) \/ Turn(drafts[w])
    /\ job[w].pc = "bs" => \E d : drafts[w] = <<d>> /\ Closing(d, job[w].year)
    /\ ~Posting(job[w]) /\ job[w].pc # "bs" => drafts[w] = <<>>
    /\ Posting(job[w]) /\ job[w].pc # "commit" => job[w].count < Len(drafts[w])
    /\ job[w].pc = "commit" => job[w].count = Len(drafts[w])

(* The rows inserted so far are the first drafts, in order. *)
StagedOK(w) ==
    /\ IsFiniteSet(staged[w])
    /\ \A e \in staged[w] : \E i \in 1..job[w].count :
          e.num[2] = settings.seq + i - 1 /\ EntryOf(e, drafts[w][i])

(* A reversing entry has struck its original, and a struck number has a    *)
(* reversing entry.                                                        *)
Linked == \A r \in entries : r.ref.kind = "REV" => r.ref.id \in reversed
Mirrored ==
    \A n \in reversed : \E e, r \in entries :
        /\ e.num = n /\ r.ref = RevRef(n)
        /\ \A a \in Accounts : r.lines[a] = -e.lines[a]

PlansInv == \A w \in Workers : PlanOK(w) /\ StagedOK(w)

BooksInv ==
    /\ IsFiniteSet(entries)
    /\ \A e \in entries : EntryOK(e)
    /\ snap \in [Periods -> [Accounts -> Int]]
    /\ SnapshotLockstep
    /\ Linked
    /\ Mirrored
    /\ YearEndPaired
    /\ OpeningHasNoPnl

JournalInv == PlansInv /\ BooksInv

-----------------------------------------------------------------------------
(* Totals and movements. *)

(* Total and Movement are sums. *)
LEMMA TotalIsSum == ASSUME NEW l PROVE Total(l) = Sum(l, Accounts)
  BY DEF Total, Sum, MapThenSumSet, SumFunctionOnSet, FoldFunctionOnSet, MapThenFoldSet

(* An account's movement is a sum over the entries, of which the lemmas  *)
(* on sums speak.                                                        *)
LEMMA MovementIsSum ==
  ASSUME NEW es, NEW a
  PROVE  Movement(es, a) = Sum([e \in es |-> e.lines[a]], es)
<1> DEFINE m == [e \in es |-> e.lines[a]]
           P(g) == g = [s \in SUBSET es |-> IF s = {} THEN 0
                            ELSE Pick(s).lines[a] + g[s \ {Pick(s)}]]
<1>1. Movement(es, a) = (CHOOSE g : P(g))[es]
  BY DEF Movement, MapThenSumSet, MapThenFoldSet, Pick
<1>2. ASSUME NEW g PROVE P(g) <=> IsIter(m, es, g)
  <2>1. \A s \in SUBSET es : s # {} => Pick(s).lines[a] = m[Pick(s)]
    BY PickIn
  <2> HIDE DEF m
  <2>2. [s \in SUBSET es |-> IF s = {} THEN 0 ELSE Pick(s).lines[a] + g[s \ {Pick(s)}]]
          = [s \in SUBSET es |-> Unfold(m, g, s)]
    BY <2>1 DEF Unfold
  <2> QED BY <2>2 DEF IsIter
<1>3. Sum(m, es) = (CHOOSE g : IsIter(m, es, g))[es]
  BY DEF Sum, SumFunctionOnSet, FoldFunctionOnSet, MapThenFoldSet, IsIter, Unfold, Pick
<1> HIDE DEF P, m
<1>4. (CHOOSE g : P(g)) = (CHOOSE g : IsIter(m, es, g))
  BY <1>2
<1> QED BY <1>1, <1>3, <1>4 DEF m

(* Lines can be added up, and so can the lines of finitely many entries. *)
LEMMA TotalType ==
  ASSUME NEW l \in [Accounts -> Int]
  PROVE  Summable(l, Accounts) /\ Total(l) \in Int
<1>1. Summable(l, Accounts)
  BY ConstantsOK DEF Summable
<1> QED BY <1>1, TotalIsSum, SumType

(* Movements of finitely many sound entries are integers. *)
LEMMA MovementType ==
  ASSUME NEW es, IsFiniteSet(es), \A e \in es : EntryOK(e), NEW a \in Accounts
  PROVE  Summable([e \in es |-> e.lines[a]], es) /\ Movement(es, a) \in Int
<1>1. Summable([e \in es |-> e.lines[a]], es)
  BY DEF Summable, EntryOK
<1> QED BY <1>1, MovementIsSum, SumType

(* Without an entry nothing moves. *)
LEMMA MovementEmpty == ASSUME NEW a PROVE Movement({}, a) = 0
  BY MovementIsSum, SumEmpty

(* The movement of disjoint sets of entries adds up. *)
LEMMA MovementUnion ==
  ASSUME NEW A, NEW B, A \cap B = {}, IsFiniteSet(A), IsFiniteSet(B),
         \A e \in A \cup B : EntryOK(e), NEW a \in Accounts
  PROVE  Movement(A \cup B, a) = Movement(A, a) + Movement(B, a)
<1> DEFINE m(es) == [e \in es |-> e.lines[a]]
           U == A \cup B
<1>1. IsFiniteSet(U)
  BY FS_Union
<1>2. Summable(m(U), U) /\ Summable(m(A), A) /\ Summable(m(B), B)
  BY <1>1, MovementType
<1>3. Summable(m(U), A) /\ Summable(m(U), B)
  BY <1>2, SummableSubset
<1>4. Sum(m(U), A) = Sum(m(A), A) /\ Sum(m(U), B) = Sum(m(B), B)
  <2>1. /\ \A e \in A : m(U)[e] = m(A)[e]
        /\ \A e \in B : m(U)[e] = m(B)[e]
    OBVIOUS
  <2> HIDE DEF m
  <2> QED BY <1>3, <2>1, SumEqual
<1>5. Sum(m(U), U) = Sum(m(U), A) + Sum(m(U), B)
  <2> HIDE DEF m
  <2> QED BY <1>3, SumUnion
<1> QED BY <1>4, <1>5, MovementIsSum

(* The adjustment line balances an entry, and a balanced one needs none. *)
LEMMA AdjustedBalances ==
  ASSUME NEW l \in [Accounts -> Int]
  PROVE  /\ Adjusted(l) \in [Accounts -> Int]
         /\ Total(Adjusted(l)) = 0
         /\ Total(l) = 0 => Adjusted(l) = l
<1> DEFINE r == RoundingAccount
<1>1. r \in Accounts /\ Total(l) \in Int /\ l[r] \in Int /\ Summable(l, Accounts)
  BY ConstantsOK, TotalType DEF Accounts
<1>2. /\ Adjusted(l) \in [Accounts -> Int]
      /\ Adjusted(l)[r] = l[r] - Total(l)
      /\ \A a \in Accounts \ {r} : l[a] = Adjusted(l)[a]
  BY <1>1 DEF Adjusted
<1>3. Sum(Adjusted(l), Accounts) = Sum(l, Accounts) - l[r] + Adjusted(l)[r]
  <2> DEFINE k == Adjusted(l)
  <2>1. k[r] \in Int /\ \A a \in Accounts \ {r} : l[a] = k[a]
    BY <1>1, <1>2
  <2> HIDE DEF k, r
  <2>2. Summable(k, Accounts) /\ Sum(k, Accounts) = Sum(l, Accounts) - l[r] + k[r]
    BY <1>1, <2>1, SumChanged
  <2> QED BY <2>2 DEF k
<1>4. Total(Adjusted(l)) = 0
  BY <1>1, <1>2, <1>3, TotalIsSum
<1>5. Total(l) = 0 => Adjusted(l) = l
  BY <1>1, <1>2
<1> QED BY <1>2, <1>4, <1>5

(* The mirror image of a balanced entry is balanced. *)
LEMMA MirrorBalances ==
  ASSUME NEW l \in [Accounts -> Int], NEW k \in [Accounts -> Int], Total(l) = 0,
         \A a \in Accounts : k[a] = -l[a]
  PROVE  Total(k) = 0
<1>1. Summable(l, Accounts)
  BY TotalType
<1>2. Sum(k, Accounts) = -Sum(l, Accounts)
  BY <1>1, SumNegated
<1> QED BY <1>2, TotalIsSum

(* The lines of the year-end entries are integers. *)
LEMMA ClosingType ==
  ASSUME BooksInv, NEW y
  PROVE  ClosingLines(y) \in [Accounts -> Int]
<1> DEFINE es == PostedIn(y)
           m == [a \in ProfitLoss |-> Movement(es, a)]
           P(g) == g = [s \in SUBSET ProfitLoss |-> IF s = {} THEN 0
                            ELSE Movement(es, Pick(s)) + g[s \ {Pick(s)}]]
           net == MapThenSumSet(LAMBDA a : Movement(es, a), ProfitLoss)
<1>1. IsFiniteSet(es) /\ \A e \in es : EntryOK(e)
  <2>1. es \in SUBSET entries
    BY DEF PostedIn
  <2> QED BY <2>1, FS_Subset DEF BooksInv
<1>2. \A a \in Accounts : Movement(es, a) \in Int
  BY <1>1, MovementType
<1>3. net = (CHOOSE g : P(g))[ProfitLoss]
  BY DEF MapThenSumSet, MapThenFoldSet, Pick
<1>4. ASSUME NEW g PROVE P(g) <=> IsIter(m, ProfitLoss, g)
  <2>1. \A s \in SUBSET ProfitLoss : s # {} => Movement(es, Pick(s)) = m[Pick(s)]
    BY PickIn
  <2> HIDE DEF m, es
  <2>2. [s \in SUBSET ProfitLoss |-> IF s = {} THEN 0 ELSE Movement(es, Pick(s)) + g[s \ {Pick(s)}]]
          = [s \in SUBSET ProfitLoss |-> Unfold(m, g, s)]
    BY <2>1 DEF Unfold
  <2> QED BY <2>2 DEF IsIter
<1>5. Sum(m, ProfitLoss) = (CHOOSE g : IsIter(m, ProfitLoss, g))[ProfitLoss]
  BY DEF Sum, SumFunctionOnSet, FoldFunctionOnSet, MapThenFoldSet, IsIter, Unfold, Pick
<1>6. Summable(m, ProfitLoss)
  <2>1. IsFiniteSet(ProfitLoss)
    BY ConstantsOK, FS_Subset DEF Accounts
  <2> QED BY <1>2, <2>1 DEF Summable, Accounts
<1>7. net \in Int
  <2> HIDE DEF P, m, net
  <2>1. (CHOOSE g : P(g)) = (CHOOSE g : IsIter(m, ProfitLoss, g))
    BY <1>4
  <2> QED BY <1>3, <1>5, <1>6, <2>1, SumType
<1>8. ClosingLines(y) = [a \in Accounts |-> IF a \in ProfitLoss THEN -Movement(es, a)
                                          ELSE IF a = RetainedEarnings THEN net ELSE 0]
  BY DEF ClosingLines
<1> HIDE DEF net, es
<1> QED BY <1>2, <1>7, <1>8

(* An opening entry has a line for every account, none on profit and     *)
(* loss.                                                                 *)
LEMMA OpeningType ==
  ASSUME BooksInv, NEW y, NEW c \in [Accounts -> Int]
  PROVE  /\ OpeningLines(y, c) \in [Accounts -> Int]
         /\ \A a \in ProfitLoss : OpeningLines(y, c)[a] = 0
<1>1. PostedUpTo(y) \in SUBSET entries
  BY DEF PostedUpTo
<1>2. IsFiniteSet(PostedUpTo(y)) /\ \A e \in PostedUpTo(y) : EntryOK(e)
  BY <1>1, FS_Subset DEF BooksInv
<1>3. \A a \in Accounts : Movement(PostedUpTo(y), a) \in Int
  BY <1>2, MovementType
<1> QED BY <1>3 DEF OpeningLines, Accounts

-----------------------------------------------------------------------------
(* The plans of the requests. *)

(* A second entry goes after the first. *)
LEMMA AppendToOne == ASSUME NEW c, NEW o PROVE Append(<<c>>, o) = <<c, o>>
<1> DEFINE s == Append(<<c>>, o)
           t == <<c, o>>
<1>1. <<c>> \in Seq({c, o}) /\ t \in Seq({c, o})
  OBVIOUS
<1>2. s \in Seq({c, o}) /\ Len(s) = 2 /\ s[1] = c /\ s[2] = o
  BY <1>1
<1>3. Len(t) = 2 /\ t[1] = c /\ t[2] = o
  OBVIOUS
<1> HIDE DEF s, t
<1>4. \A i \in 1..Len(s) : s[i] = t[i]
  BY <1>2, <1>3
<1>5. s = t
  BY <1>1, <1>2, <1>3, <1>4, SeqEqual
<1> QED BY <1>5 DEF s, t

(* A request has one or two entries to post. *)
LEMMA PlanLength ==
  ASSUME NEW ds
  PROVE  /\ Single(ds) => Len(ds) = 1
         /\ Turn(ds) => Len(ds) = 2
  BY DEF Single, Turn

(* A transaction that has inserted nothing has no rows. *)
LEMMA NoRows ==
  ASSUME CoreInv, NEW v \in Workers, job[v].count = 0
  PROVE  staged[v] = {}
<1>1. settings.seq \in Nat
  BY DEF CoreInv, ControlOK, Config
<1>2. settings.seq .. (settings.seq + 0 - 1) = {}
  BY <1>1
<1>3. {e.num[2] : e \in staged[v]} = {}
  BY <1>2 DEF CoreInv, StagedRows
<1> QED BY <1>3

(* A request keeps its plan while others work: the book only grows. *)
LEMMA PlanKept ==
  ASSUME NEW v, PlanOK(v), job'[v] = job[v], drafts'[v] = drafts[v], entries \subseteq entries'
  PROVE  PlanOK(v)'
<1>1. Single(drafts[v]) => Single(drafts[v])'
  BY DEF Single
<1>2. Turn(drafts[v]) => Turn(drafts[v])'
  BY DEF Turn, Closing, Opening, DraftOK
<1>3. \A d : Closing(d, job[v].year) => Closing(d, job[v].year)'
  BY DEF Closing, DraftOK
<1> QED BY <1>1, <1>2, <1>3 DEF PlanOK

(* What a transaction staged stays sound while its own variables and the *)
(* counter rest.                                                         *)
LEMMA StagedKept ==
  ASSUME NEW v, StagedOK(v), staged'[v] = staged[v], drafts'[v] = drafts[v],
         job'[v].count = job[v].count, settings'.seq = settings.seq
  PROVE  StagedOK(v)'
  BY DEF StagedOK, EntryOf

(* A transaction that staged nothing is sound. *)
LEMMA StagedEmpty == ASSUME NEW v, staged'[v] = {} PROVE StagedOK(v)'
  BY FS_EmptySet DEF StagedOK

(* A request that posts one entry has a plan. *)
LEMMA OneDraftPlans ==
  ASSUME BooksInv, NEW d, OneDraft(d)
  PROVE  Single(<<d>>)
<1>1. CASE \E p \in Periods, src \in Sources, lines \in Postings : d = Draft(p, src, NoRef, lines)
  BY <1>1, ConstantsOK DEF Draft, Single, DraftOK
<1>2. CASE \E p \in Periods, e \in entries :
             d = Draft(p, "Manual", RevRef(e.num), [a \in Accounts |-> -e.lines[a]])
  <2>1. PICK p \in Periods, e \in entries :
             d = Draft(p, "Manual", RevRef(e.num), [a \in Accounts |-> -e.lines[a]])
    BY <1>2
  <2>2. e.lines \in [Accounts -> Int]
    BY DEF BooksInv, EntryOK
  <2>3. [a \in Accounts |-> -e.lines[a]] \in [Accounts -> Int]
    BY <2>2
  <2> QED BY <2>1, <2>3 DEF Draft, Single, DraftOK, Sources
<1> QED BY <1>1, <1>2 DEF OneDraft

(* Steps that neither insert nor commit keep every plan. *)
LEMMA PlansMove ==
  ASSUME CoreInv, JournalInv, NEW w \in Workers, NEW j \in JobRecord, Moved(w, j)
  PROVE  PlansInv'
<1> USE DEF JournalInv, PlansInv
<1>j. /\ \A v \in Workers : job'[v] = IF v = w THEN j ELSE job[v]
      /\ UNCHANGED <<entries, drafts, staged>>
      /\ j.count = job[w].count
  BY DEF Moved, CoreInv, ControlOK
<1>1. PlanOK(w)'
  <2>1. Single(drafts[w]) => Single(drafts[w])'
    BY <1>j DEF Single
  <2>2. Turn(drafts[w]) => Turn(drafts[w])'
    BY <1>j DEF Turn, Closing, Opening, DraftOK
  <2> QED BY <1>j, <2>1, <2>2 DEF PlanOK, Moved
<1>2. \A v \in Workers \ {w} : PlanOK(v)'
  BY <1>j, PlanKept
<1>3. CASE settings' = settings
  <2>1. \A v \in Workers : StagedOK(v)'
    BY <1>j, <1>3, StagedKept
  <2> QED BY <1>1, <1>2, <2>1
<1>4. CASE lock = Nobody
  <2>1. \A v \in Workers : job[v].count = 0
    BY <1>4, ConstantsOK DEF CoreInv, LockHeld, Numbered
  <2>2. \A v \in Workers : staged'[v] = {}
    BY <1>j, <2>1, NoRows
  <2>3. \A v \in Workers : StagedOK(v)'
    BY <2>2, StagedEmpty
  <2> QED BY <1>1, <1>2, <2>3
<1> QED BY <1>3, <1>4 DEF Moved

(* A request that opens a transaction has planned nothing yet. *)
LEMMA PlansOpen ==
  ASSUME CoreInv, JournalInv, NEW w \in Workers, NEW j \in JobRecord, NEW ds, Opened(w, j, ds)
  PROVE  PlansInv'
<1> USE DEF JournalInv, PlansInv
<1>j. /\ \A v \in Workers : job'[v] = IF v = w THEN j ELSE job[v]
      /\ \A v \in Workers : drafts'[v] = IF v = w THEN ds ELSE drafts[v]
      /\ UNCHANGED <<entries, staged, settings>>
  BY DEF Opened, CoreInv, ControlOK
<1>0. job[w].count = 0
  BY DEF Opened, At, CoreInv, ControlOK, Sound, Holding
<1>1. PlanOK(w)'
  <2>0. ~Holding(j) /\ j.pc \notin {"idle", "bs", "commit"} /\ j.count = 0
    BY DEF Opened, Holding
  <2>1. CASE j.pc = "begin"
    <3>1. PICK d : ds = <<d>> /\ OneDraft(d)
      BY <2>1 DEF Opened
    <3>2. Single(<<d>>)
      BY <3>1, OneDraftPlans
    <3>3. Single(ds)'
      BY <1>j, <3>1, <3>2 DEF Single
    <3>4. Len(ds) = 1
      BY <3>1
    <3> QED BY <1>j, <2>0, <2>1, <3>3, <3>4 DEF PlanOK, Posting
  <2>2. CASE j.pc # "begin"
    BY <1>j, <2>0, <2>2 DEF PlanOK, Posting, Opened
  <2> QED BY <2>1, <2>2
<1>2. \A v \in Workers \ {w} : PlanOK(v)'
  BY <1>j, PlanKept
<1>3. StagedOK(w)'
  BY <1>j, <1>0, NoRows, StagedEmpty
<1>4. \A v \in Workers \ {w} : StagedOK(v)'
  BY <1>j, StagedKept
<1> QED BY <1>1, <1>2, <1>3, <1>4

(* The queries of the year-end close read what its plan then says. *)
LEMMA PlansQuery ==
  ASSUME CoreInv, JournalInv, NEW w \in Workers, YearEndPnl(w) \/ YearEndBs(w)
  PROVE  PlansInv'
<1> USE DEF JournalInv, PlansInv
<1>j. PICK j \in JobRecord : /\ job' = [job EXCEPT ![w] = j] /\ j.count = 0
                             /\ j.year = job[w].year /\ j.per = job[w].per
                             /\ j.pc = IF At(w, "pnl") THEN "bs" ELSE "begin"
  BY CoreQueries
<1>u. /\ \A v \in Workers : job'[v] = IF v = w THEN j ELSE job[v]
      /\ \A v \in Workers \ {w} : drafts'[v] = drafts[v]
      /\ UNCHANGED <<entries, staged, settings>>
  BY <1>j DEF YearEndPnl, YearEndBs, ledger, CoreInv, ControlOK
<1>0. job[w].count = 0 /\ job[w].year \in Years /\ job[w].per \in Periods /\ ~Posting(job[w])
  BY DEF YearEndPnl, YearEndBs, At, CoreInv, ControlOK, Sound, Holding, Posting
<1>1. PlanOK(w)'
  <2> DEFINE y == job[w].year
  <2>1. CASE YearEndPnl(w)
    <3>c. PICK c : c = Draft(LastPeriod(y), "YearEndClose", YecRef(y), ClosingLines(y))
      OBVIOUS
    <3>1. job[w].pc = "pnl" /\ drafts'[w] = <<c>>
      BY <2>1, <3>c DEF YearEndPnl, At, CoreInv, ControlOK
    <3>2. LastPeriod(y) \in Periods
      BY <1>0, ConstantsOK DEF LastPeriod, Periods
    <3>3. Closing(c, y)
      BY <3>c, <3>2, ClosingType DEF Closing, DraftOK, Draft, Sources
    <3>4. j.pc = "bs" /\ ~Posting(j)
      BY <1>j, <3>1 DEF At, Posting, Holding
    <3>5. Closing(c, j.year)'
      BY <1>j, <3>3 DEF Closing, DraftOK
    <3> QED BY <1>u, <3>1, <3>4, <3>5 DEF PlanOK
  <2>2. CASE YearEndBs(w)
    <3>1. PICK c : drafts[w] = <<c>> /\ Closing(c, y)
      BY <2>2 DEF YearEndBs, At, PlanOK
    <3>o. PICK o : o = Draft(job[w].per, "OpeningBalance", ObRef(y + 1), OpeningLines(y, c.lines))
      OBVIOUS
    <3>2. job[w].pc = "bs" /\ drafts'[w] = <<c, o>>
      <4>1. drafts'[w] = Append(<<c>>, o)
        BY <2>2, <3>1, <3>o DEF YearEndBs, CoreInv, ControlOK
      <4>2. Append(<<c>>, o) = <<c, o>>
        BY AppendToOne
      <4> QED BY <2>2, <4>1, <4>2 DEF YearEndBs, At
    <3>3. Opening(o, y)
      <4>1. /\ OpeningLines(y, c.lines) \in [Accounts -> Int]
            /\ \A a \in ProfitLoss : OpeningLines(y, c.lines)[a] = 0
        BY <3>1, OpeningType DEF Closing, DraftOK
      <4> QED BY <1>0, <3>o, <4>1 DEF Opening, DraftOK, Draft, Sources
    <3>4. j.pc = "begin"
      BY <1>j, <3>2 DEF At
    <3>5. Turn(drafts[w])'
      BY <1>0, <3>1, <3>2, <3>3 DEF Turn, Closing, Opening, DraftOK
    <3>6. Len(drafts'[w]) = 2
      BY <3>2
    <3> QED BY <1>j, <1>u, <3>4, <3>5, <3>6 DEF PlanOK, Posting
  <2> QED BY <2>1, <2>2
<1>2. \A v \in Workers \ {w} : PlanOK(v)'
  BY <1>u, PlanKept
<1>3. StagedOK(w)'
  BY <1>u, <1>0, NoRows, StagedEmpty
<1>4. \A v \in Workers \ {w} : StagedOK(v)'
  BY <1>u, StagedKept
<1> QED BY <1>1, <1>2, <1>3, <1>4

(* A request that ends has no plan. *)
LEMMA PlanIdle ==
  ASSUME NEW w, job'[w] = Idle, drafts'[w] = <<>>
  PROVE  PlanOK(w)'
<1>1. ~Posting(Idle) /\ Idle.pc = "idle"
  BY DEF Idle, Posting, Holding
<1> QED BY <1>1 DEF PlanOK

(* A transaction that ends leaves no plan behind. *)
LEMMA PlansEnd ==
  ASSUME CoreInv, JournalInv, NEW w \in Workers, Ended(w)
  PROVE  PlansInv'
<1> USE DEF JournalInv, PlansInv
<1>u. /\ \A v \in Workers : /\ job'[v] = IF v = w THEN Idle ELSE job[v]
                            /\ drafts'[v] = IF v = w THEN <<>> ELSE drafts[v]
                            /\ staged'[v] = IF v = w THEN {} ELSE staged[v]
      /\ UNCHANGED <<entries, settings>>
  BY DEF Ended, Release, CoreInv, ControlOK
<1>1. PlanOK(w)' /\ StagedOK(w)'
  BY <1>u, PlanIdle, StagedEmpty
<1>2. \A v \in Workers \ {w} : PlanOK(v)' /\ StagedOK(v)'
  BY <1>u, PlanKept, StagedKept
<1> QED BY <1>1, <1>2

(* An insert carries out the next draft. *)
LEMMA PlansInsert ==
  ASSUME CoreInv, JournalInv, NEW w \in Workers, Insert(w)
  PROVE  PlansInv'
<1> USE DEF JournalInv, PlansInv
<1> DEFINE e0 == NewEntry(w)
           c0 == job[w].count
<1>f. /\ \A v \in Workers \ {w} : job'[v] = job[v] /\ staged'[v] = staged[v]
      /\ job[w].pc = "insert" /\ c0 \in Nat /\ settings.seq \in Nat
      /\ job'[w].count = c0 + 1
      /\ job'[w].pc = IF c0 + 1 = Len(drafts[w]) THEN "commit" ELSE "check"
      /\ staged'[w] = staged[w] \cup {e0}
      /\ e0.num[2] = settings.seq + c0
      /\ UNCHANGED <<entries, settings, drafts>>
  BY InsertFacts
<1>p. Posting(job[w]) /\ job[w].pc # "commit" /\ job[w].pc # "bs"
  BY <1>f DEF Posting, Holding
<1>n. EntryOf(e0, drafts[w][c0 + 1])
  BY DEF Insert, Insertable, NewEntry, Current, EntryOf
<1> HIDE DEF e0
<1>l. c0 < Len(drafts[w]) /\ Len(drafts[w]) \in Nat /\ (Single(drafts[w]) \/ Turn(drafts[w]))
  BY <1>p, PlanLength DEF PlanOK
<1>1. PlanOK(w)'
  <2>1. Single(drafts[w]) => Single(drafts[w])'
    BY <1>f DEF Single
  <2>2. Turn(drafts[w]) => Turn(drafts[w])'
    BY <1>f DEF Turn, Closing, Opening, DraftOK
  <2>3. Posting(job'[w]) /\ job'[w].pc # "bs"
    BY <1>f DEF Posting, Holding
  <2> QED BY <1>f, <1>l, <2>1, <2>2, <2>3 DEF PlanOK
<1>2. StagedOK(w)'
  <2>1. IsFiniteSet(staged'[w])
    <3>1. IsFiniteSet(staged[w])
      BY DEF StagedOK
    <3>2. IsFiniteSet(staged[w] \cup {e0})
      BY <3>1, FS_AddElement
    <3> QED BY <1>f, <3>2
  <2>2. \A e \in staged[w] : \E i \in 1..(c0 + 1) :
           e.num[2] = settings.seq + i - 1 /\ EntryOf(e, drafts[w][i])
    <3> SUFFICES ASSUME NEW e \in staged[w]
                 PROVE  \E i \in 1..(c0 + 1) :
                           e.num[2] = settings.seq + i - 1 /\ EntryOf(e, drafts[w][i])
      OBVIOUS
    <3>1. PICK i \in 1..c0 : e.num[2] = settings.seq + i - 1 /\ EntryOf(e, drafts[w][i])
      BY DEF StagedOK
    <3>2. i \in 1..(c0 + 1)
      BY <1>f
    <3> QED BY <3>1, <3>2
  <2>3. \E i \in 1..(c0 + 1) : e0.num[2] = settings.seq + i - 1 /\ EntryOf(e0, drafts[w][i])
    <3>1. c0 + 1 \in 1..(c0 + 1) /\ e0.num[2] = settings.seq + (c0 + 1) - 1
      BY <1>f
    <3> QED BY <1>n, <3>1
  <2> HIDE DEF c0
  <2>4. \A e \in staged'[w] : \E i \in 1..job'[w].count :
           e.num[2] = settings'.seq + i - 1 /\ EntryOf(e, drafts'[w][i])
    <3>1. ASSUME NEW e \in staged'[w]
          PROVE  \E i \in 1..(c0 + 1) : e.num[2] = settings.seq + i - 1 /\ EntryOf(e, drafts[w][i])
      BY <1>f, <2>2, <2>3
    <3>2. job'[w].count = c0 + 1 /\ settings' = settings /\ drafts' = drafts
      BY <1>f
    <3> QED BY <3>1, <3>2, Zenon
  <2> QED BY <2>1, <2>4, Zenon DEF StagedOK, EntryOf
<1>3. \A v \in Workers \ {w} : PlanOK(v)' /\ StagedOK(v)'
  BY <1>f, PlanKept, StagedKept
<1> QED BY <1>1, <1>2, <1>3

-----------------------------------------------------------------------------
(* The commit. *)

(* The transaction about to commit has a row for every draft, and every    *)
(* row is the entry of a draft.                                            *)
LEMMA CommitRows ==
  ASSUME CoreInv, JournalInv, NEW w \in Workers, Commit(w)
  PROVE  /\ job[w].count = Len(drafts[w])
         /\ Single(drafts[w]) \/ Turn(drafts[w])
         /\ IsFiniteSet(staged[w])
         /\ \A e \in staged[w] : \E i \in 1..Len(drafts[w]) :
               e.num[2] = settings.seq + i - 1 /\ EntryOf(e, drafts[w][i])
         /\ \A i \in 1..Len(drafts[w]) : \E e \in staged[w] :
               e.num[2] = settings.seq + i - 1 /\ EntryOf(e, drafts[w][i])
<1> DEFINE n == Len(drafts[w])
           s0 == settings.seq
<1>f. /\ job[w].pc = "commit" /\ s0 \in Nat /\ job[w].count \in Nat
      /\ {e.num[2] : e \in staged[w]} = s0 .. (s0 + job[w].count - 1)
  BY CommitFacts
<1>1. job[w].count = n /\ (Single(drafts[w]) \/ Turn(drafts[w]))
  BY <1>f DEF JournalInv, PlansInv, PlanOK, Posting, Holding
<1>2. /\ IsFiniteSet(staged[w])
      /\ \A e \in staged[w] : \E i \in 1..n :
            e.num[2] = s0 + i - 1 /\ EntryOf(e, drafts[w][i])
  BY <1>1 DEF JournalInv, PlansInv, StagedOK
<1>3. ASSUME NEW i \in 1..n
      PROVE  \E e \in staged[w] : e.num[2] = s0 + i - 1 /\ EntryOf(e, drafts[w][i])
  <2>1. n \in Nat /\ s0 + i - 1 \in s0 .. (s0 + n - 1)
    BY <1>f, <1>1
  <2>2. PICK e \in staged[w] : e.num[2] = s0 + i - 1
    BY <1>f, <1>1, <2>1
  <2>3. PICK k \in 1..n : e.num[2] = s0 + k - 1 /\ EntryOf(e, drafts[w][k])
    BY <1>2
  <2>4. k = i
    BY <1>f, <2>1, <2>2, <2>3
  <2> QED BY <2>2, <2>3, <2>4
<1> QED BY <1>1, <1>2, <1>3

(* The drafts of one plan. *)
LEMMA PlanDrafts ==
  ASSUME NEW ds, Single(ds) \/ Turn(ds), NEW i \in 1..Len(ds)
  PROVE  DraftOK(ds[i])
<1>1. CASE Single(ds)
  <2>1. PICK d : ds = <<d>> /\ DraftOK(d)
    BY <1>1 DEF Single
  <2>2. i = 1
    BY <2>1
  <2> QED BY <2>1, <2>2
<1>2. CASE Turn(ds)
  <2>1. PICK c, o : ds = <<c, o>> /\ DraftOK(c) /\ DraftOK(o)
    BY <1>2 DEF Turn, Closing, Opening
  <2>2. i \in {1, 2}
    BY <2>1
  <2> QED BY <2>1, <2>2
<1> QED BY <1>1, <1>2

(* So what is committed is typed and balanced, ... *)
LEMMA CommitEntries ==
  ASSUME CoreInv, JournalInv, NEW w \in Workers, Commit(w)
  PROVE  \A e \in staged[w] : EntryOK(e)
<1> SUFFICES ASSUME NEW e \in staged[w] PROVE EntryOK(e)
  OBVIOUS
<1>1. PICK i \in 1..Len(drafts[w]) : EntryOf(e, drafts[w][i])
  BY CommitRows
<1>2. DraftOK(drafts[w][i])
  BY CommitRows, PlanDrafts
<1>3. /\ Adjusted(drafts[w][i].lines) \in [Accounts -> Int]
      /\ Total(Adjusted(drafts[w][i].lines)) = 0
  BY <1>2, AdjustedBalances DEF DraftOK
<1> QED BY <1>1, <1>2, <1>3 DEF EntryOK, EntryOf, DraftOK

(* ... the rows are new, ... *)
LEMMA CommitNew ==
  ASSUME CoreInv, NEW w \in Workers
  PROVE  staged[w] \cap entries = {}
  BY DEF CoreInv, StagedRows, Numbers

(* ... the snapshots move with the lines, ... *)
LEMMA CommitSnapshot ==
  ASSUME CoreInv, JournalInv, NEW w \in Workers, Commit(w)
  PROVE  snap' \in [Periods -> [Accounts -> Int]] /\ SnapshotLockstep'
<1> DEFINE old(p) == {e \in entries : e.per = p}
           new(p) == {e \in staged[w] : e.per = p}
<1>0. /\ IsFiniteSet(entries) /\ IsFiniteSet(staged[w])
      /\ \A e \in entries \cup staged[w] : EntryOK(e)
      /\ snap \in [Periods -> [Accounts -> Int]] /\ SnapshotLockstep
      /\ staged[w] \cap entries = {}
  BY CommitRows, CommitEntries, CommitNew DEF JournalInv, BooksInv
<1>1. ASSUME NEW p
      PROVE  /\ IsFiniteSet(old(p)) /\ IsFiniteSet(new(p)) /\ old(p) \cap new(p) = {}
             /\ \A e \in old(p) \cup new(p) : EntryOK(e)
  <2>1. old(p) \in SUBSET entries /\ new(p) \in SUBSET staged[w]
    OBVIOUS
  <2>2. IsFiniteSet(old(p)) /\ IsFiniteSet(new(p))
    <3> HIDE DEF old, new
    <3> QED BY <1>0, <2>1, FS_Subset
  <2> QED BY <1>0, <2>2
<1>2. ASSUME NEW p, NEW a \in Accounts
      PROVE  /\ Movement(new(p), a) \in Int
             /\ Movement(old(p) \cup new(p), a) = Movement(old(p), a) + Movement(new(p), a)
  <2>1. /\ IsFiniteSet(old(p)) /\ IsFiniteSet(new(p)) /\ old(p) \cap new(p) = {}
        /\ \A e \in old(p) \cup new(p) : EntryOK(e)
    BY <1>1
  <2> HIDE DEF old, new
  <2>2. \A e \in new(p) : EntryOK(e)
    BY <2>1
  <2>3. Movement(new(p), a) \in Int
    BY <2>1, <2>2, MovementType
  <2>4. Movement(old(p) \cup new(p), a) = Movement(old(p), a) + Movement(new(p), a)
    BY <2>1, MovementUnion
  <2> QED BY <2>3, <2>4
<1>3. snap' = [p \in Periods |-> [a \in Accounts |-> snap[p][a] + Movement(new(p), a)]]
  BY DEF Commit
<1>4. \A p \in Periods, a \in Accounts : snap[p][a] = Movement(old(p), a) /\ snap[p][a] \in Int
  BY <1>0 DEF SnapshotLockstep
<1>5. \A p : {e \in entries' : e.per = p} = old(p) \cup new(p)
  BY CommitFacts
<1> HIDE DEF old, new
<1>6. snap' \in [Periods -> [Accounts -> Int]]
  <2>1. ASSUME NEW p \in Periods, NEW a \in Accounts
        PROVE  snap[p][a] + Movement(new(p), a) \in Int
    <3>1. Movement(new(p), a) \in Int /\ snap[p][a] \in Int
      BY <1>2, <1>4
    <3> QED BY <3>1
  <2>2. \A p \in Periods :
           [a \in Accounts |-> snap[p][a] + Movement(new(p), a)] \in [Accounts -> Int]
    BY <2>1
  <2> QED BY <1>3, <2>2
<1>7. \A p \in Periods, a \in Accounts : snap'[p][a] = Movement(old(p) \cup new(p), a)
  BY <1>2, <1>3, <1>4
<1>8. SnapshotLockstep'
  <2>1. \A p \in Periods, a \in Accounts : snap'[p][a] = Movement({e \in entries' : e.per = p}, a)
    BY <1>5, <1>7
  <2> QED BY <2>1 DEF SnapshotLockstep
<1> QED BY <1>6, <1>8

(* ... a reversal mirrors its original and strikes it, ... *)
LEMMA CommitMirrors ==
  ASSUME CoreInv, JournalInv, NEW w \in Workers, Commit(w), NEW r \in staged[w],
         r.ref.kind = "REV"
  PROVE  \E e \in entries : r.ref = RevRef(e.num) /\ \A a \in Accounts : r.lines[a] = -e.lines[a]
<1>1. PICK i \in 1..Len(drafts[w]) : EntryOf(r, drafts[w][i])
  BY CommitRows
<1>2. ~Turn(drafts[w])
  <2> SUFFICES ASSUME Turn(drafts[w]) PROVE FALSE
    OBVIOUS
  <2>1. PICK c, o : /\ drafts[w] = <<c, o>>
                    /\ c.ref.kind # "REV" /\ o.ref.kind # "REV"
    BY DEF Turn, Closing, Opening, YecRef, ObRef
  <2>2. i \in {1, 2}
    BY <2>1
  <2> QED BY <1>1, <2>1, <2>2 DEF EntryOf
<1>3. PICK d : /\ drafts[w] = <<d>> /\ DraftOK(d)
               /\ \/ d.ref = NoRef
                  \/ \E e \in entries : /\ d.ref = RevRef(e.num)
                                        /\ \A a \in Accounts : d.lines[a] = -e.lines[a]
  BY <1>2, CommitRows DEF Single
<1>4. EntryOf(r, d)
  <2>1. i = 1
    BY <1>3
  <2> QED BY <1>1, <1>3, <2>1
<1>5. PICK e \in entries : d.ref = RevRef(e.num) /\ \A a \in Accounts : d.lines[a] = -e.lines[a]
  BY <1>3, <1>4 DEF EntryOf, NoRef
<1>6. e.lines \in [Accounts -> Int] /\ Total(e.lines) = 0 /\ d.lines \in [Accounts -> Int]
  BY <1>3 DEF JournalInv, BooksInv, EntryOK, DraftOK
<1>7. Adjusted(d.lines) = d.lines
  BY <1>5, <1>6, MirrorBalances, AdjustedBalances
<1> QED BY <1>4, <1>5, <1>7 DEF EntryOf

(* The originals marked are those the new reversals refer to. *)
LEMMA CommitMarks ==
  ASSUME CoreInv, JournalInv, NEW w \in Workers, Commit(w)
  PROVE  Marked(w) = {r.ref.id : r \in {e \in staged[w] : e.ref.kind = "REV"}}
<1> DEFINE ds == drafts[w]
<1>1. Range(ds) = {ds[i] : i \in 1..Len(ds)}
  <2>1. DOMAIN ds = 1..Len(ds)
    BY CommitRows DEF Single, Turn
  <2> QED BY <2>1 DEF Range
<1>2. ASSUME NEW n \in Marked(w)
      PROVE  n \in {r.ref.id : r \in {e \in staged[w] : e.ref.kind = "REV"}}
  <2>1. PICK i \in 1..Len(ds) : ds[i].ref.kind = "REV" /\ n = ds[i].ref.id
    BY <1>1 DEF Marked
  <2>2. PICK r \in staged[w] : EntryOf(r, ds[i])
    BY CommitRows
  <2> QED BY <2>1, <2>2 DEF EntryOf
<1>3. ASSUME NEW r \in staged[w], r.ref.kind = "REV"
      PROVE  r.ref.id \in Marked(w)
  <2>1. PICK i \in 1..Len(ds) : EntryOf(r, ds[i])
    BY CommitRows
  <2>2. ds[i] \in Range(ds) /\ ds[i].ref.kind = "REV" /\ r.ref.id = ds[i].ref.id
    BY <1>1, <1>3, <2>1 DEF EntryOf
  <2> QED BY <2>2 DEF Marked
<1> QED BY <1>2, <1>3

(* A commit marks the reversed entry together with the one that reverses *)
(* it.                                                                   *)
LEMMA CommitLinks ==
  ASSUME CoreInv, JournalInv, NEW w \in Workers, Commit(w)
  PROVE  Linked' /\ Mirrored'
<1>f. entries' = entries \cup staged[w] /\ reversed' = reversed \cup Marked(w)
  BY DEF Commit
<1>b. Linked /\ Mirrored
  BY DEF JournalInv, BooksInv
<1>1. Linked'
  <2>1. \A r \in staged[w] : r.ref.kind = "REV" => r.ref.id \in Marked(w)
    BY CommitMarks
  <2> QED BY <1>f, <1>b, <2>1 DEF Linked
<1>2. Mirrored'
  <2> SUFFICES ASSUME NEW n \in reversed \cup Marked(w)
               PROVE  \E e, r \in entries \cup staged[w] :
                         /\ e.num = n /\ r.ref = RevRef(n)
                         /\ \A a \in Accounts : r.lines[a] = -e.lines[a]
    BY <1>f DEF Mirrored
  <2>1. CASE n \in reversed
    BY <1>b, <2>1 DEF Mirrored
  <2>2. CASE n \in Marked(w)
    <3>1. PICK r \in staged[w] : r.ref.kind = "REV" /\ n = r.ref.id
      BY <2>2, CommitMarks
    <3>2. PICK e \in entries : r.ref = RevRef(e.num) /\ \A a \in Accounts : r.lines[a] = -e.lines[a]
      BY <3>1, CommitMirrors
    <3>3. e.num = n
      BY <3>1, <3>2 DEF RevRef
    <3> QED BY <3>2, <3>3
  <2> QED BY <2>1, <2>2
<1> QED BY <1>1, <1>2

(* ... and a year end posts its two entries under consecutive numbers. *)
LEMMA CommitTurns ==
  ASSUME CoreInv, JournalInv, NEW w \in Workers, Commit(w), NEW y \in Years
  PROVE  \/ \A e \in staged[w] : e.ref # YecRef(y) /\ e.ref # ObRef(y + 1)
         \/ /\ \E e \in staged[w] : e.ref = YecRef(y)
            /\ \E e \in staged[w] : e.ref = ObRef(y + 1)
            /\ \A e \in staged[w] : /\ e.ref = YecRef(y) => e.num[2] = settings.seq
                                    /\ e.ref = ObRef(y + 1) => e.num[2] = settings.seq + 1
<1> DEFINE s0 == settings.seq
<1>r. s0 \in Nat /\ y \in Nat
  BY ConstantsOK DEF CoreInv, ControlOK, Config
<1>1. CASE Single(drafts[w])
  <2>0. PICK d : drafts[w] = <<d>> /\ (d.ref = NoRef \/ \E e \in entries : d.ref = RevRef(e.num))
    BY <1>1 DEF Single
  <2>n. NoRef.kind = "none" /\ \A n : RevRef(n).kind = "REV"
    BY DEF NoRef, RevRef
  <2>1. drafts[w] = <<d>> /\ d.ref.kind \in {"none", "REV"}
    BY <2>0, <2>n
  <2>2. \A e \in staged[w] : e.ref = d.ref
    <3> SUFFICES ASSUME NEW e \in staged[w] PROVE e.ref = d.ref
      OBVIOUS
    <3>1. PICK i \in 1..Len(drafts[w]) : EntryOf(e, drafts[w][i])
      BY CommitRows
    <3>2. i = 1
      BY <2>1
    <3> QED BY <2>1, <3>1, <3>2 DEF EntryOf
  <2>3. YecRef(y).kind = "YEC" /\ ObRef(y + 1).kind = "OB"
    BY DEF YecRef, ObRef
  <2> QED BY <2>1, <2>2, <2>3
<1>2. CASE Turn(drafts[w])
  <2>1. PICK c, o : \E x \in Years : /\ drafts[w] = <<c, o>>
                                     /\ c.ref = YecRef(x) /\ o.ref = ObRef(x + 1)
    BY <1>2 DEF Turn, Closing, Opening
  <2>0. PICK z \in Years : /\ drafts[w] = <<c, o>>
                           /\ c.ref = YecRef(z) /\ o.ref = ObRef(z + 1)
    BY <2>1
  <2>2. z \in Nat
    BY ConstantsOK
  <2>3. /\ YecRef(z) # ObRef(z + 1) /\ YecRef(y) # ObRef(z + 1) /\ YecRef(z) # ObRef(y + 1)
        /\ YecRef(y) = YecRef(z) => y = z
        /\ ObRef(y + 1) = ObRef(z + 1) => y = z
    BY <1>r, <2>2 DEF YecRef, ObRef
  <2>4. ASSUME NEW e \in staged[w]
        PROVE  \/ e.ref = YecRef(z) /\ e.num[2] = s0
               \/ e.ref = ObRef(z + 1) /\ e.num[2] = s0 + 1
    <3>1. PICK i \in 1..Len(drafts[w]) : e.num[2] = s0 + i - 1 /\ EntryOf(e, drafts[w][i])
      BY CommitRows
    <3>2. i \in {1, 2}
      BY <2>0
    <3> QED BY <1>r, <2>0, <3>1, <3>2 DEF EntryOf
  <2>5. /\ \E e \in staged[w] : e.ref = YecRef(z)
        /\ \E e \in staged[w] : e.ref = ObRef(z + 1)
    <3>1. 1 \in 1..Len(drafts[w]) /\ 2 \in 1..Len(drafts[w])
      BY <2>0
    <3>2. /\ \E e \in staged[w] : EntryOf(e, drafts[w][1])
          /\ \E e \in staged[w] : EntryOf(e, drafts[w][2])
      BY <3>1, CommitRows
    <3> QED BY <2>0, <3>2 DEF EntryOf
  <2> HIDE DEF s0
  <2>6. CASE y = z
    BY <2>3, <2>4, <2>5, <2>6 DEF s0
  <2>7. CASE y # z
    BY <2>3, <2>4, <2>7
  <2> QED BY <2>6, <2>7
<1> QED BY <1>1, <1>2, CommitRows

(* The opening entry has only its rounding residue in revenue and expense. *)
LEMMA CommitOpens ==
  ASSUME CoreInv, JournalInv, NEW w \in Workers, Commit(w)
  PROVE  OpeningHasNoPnl'
<1>f. entries' = entries \cup staged[w] /\ OpeningHasNoPnl
  BY DEF Commit, JournalInv, BooksInv
<1>1. ASSUME NEW e \in staged[w], e.ref.kind = "OB", NEW a \in ProfitLoss
      PROVE  e.lines[a] = 0 \/ (a = RoundingAccount /\ Abs(e.lines[a]) =< Tolerance)
  <2>1. PICK i \in 1..Len(drafts[w]) : EntryOf(e, drafts[w][i])
    BY CommitRows
  <2>2. DraftOK(drafts[w][i]) /\ \A b \in ProfitLoss : drafts[w][i].lines[b] = 0
    <3>1. CASE Single(drafts[w])
      <4>1. PICK d : drafts[w] = <<d>> /\ (d.ref = NoRef \/ \E f \in entries : d.ref = RevRef(f.num))
        BY <3>1 DEF Single
      <4>2. NoRef.kind = "none" /\ \A n : RevRef(n).kind = "REV"
        BY DEF NoRef, RevRef
      <4>3. i = 1
        BY <4>1
      <4> QED BY <1>1, <2>1, <4>1, <4>2, <4>3 DEF EntryOf
    <3>2. CASE Turn(drafts[w])
      <4>1. PICK c, o : \E x \in Years : drafts[w] = <<c, o>> /\ c.ref = YecRef(x) /\ Opening(o, x)
        BY <3>2 DEF Turn, Closing
      <4>2. c.ref.kind = "YEC" /\ i \in {1, 2} /\ drafts[w] = <<c, o>>
        BY <4>1 DEF YecRef
      <4>3. i = 2
        BY <1>1, <2>1, <4>2 DEF EntryOf
      <4> QED BY <4>1, <4>3 DEF Opening
    <3> QED BY <3>1, <3>2, CommitRows
  <2> DEFINE l == drafts[w][i].lines
  <2>3. l \in [Accounts -> Int] /\ l[a] = 0 /\ Total(l) \in Int /\ Abs(Total(l)) =< Tolerance
    BY <2>1, <2>2, TotalType DEF DraftOK, EntryOf, Postable
  <2>4. e.lines = [l EXCEPT ![RoundingAccount] = l[RoundingAccount] - Total(l)]
    BY <2>1 DEF EntryOf, Adjusted
  <2> HIDE DEF l
  <2>5. CASE a = RoundingAccount
    <3>1. e.lines[a] = 0 - Total(l)
      BY <2>3, <2>4, <2>5 DEF Accounts
    <3> QED BY <2>3, <2>5, <3>1, ConstantsOK DEF Abs
  <2>6. CASE a # RoundingAccount
    BY <2>3, <2>4, <2>6 DEF Accounts
  <2> QED BY <2>5, <2>6
<1> QED BY <1>f, <1>1 DEF OpeningHasNoPnl

(* A commit brings the closing and the opening entry together. *)
LEMMA CommitPairs ==
  ASSUME CoreInv, JournalInv, NEW w \in Workers, Commit(w)
  PROVE  YearEndPaired'
<1> SUFFICES ASSUME NEW y \in Years
             PROVE  {e.num[2] + 1 : e \in {f \in entries \cup staged[w] : f.ref = YecRef(y)}}
                      = {e.num[2] : e \in {f \in entries \cup staged[w] : f.ref = ObRef(y + 1)}}
  <2>1. entries' = entries \cup staged[w]
    BY DEF Commit
  <2> QED BY <2>1 DEF YearEndPaired
<1> DEFINE A == {e.num[2] + 1 : e \in {f \in entries : f.ref = YecRef(y)}}
           B == {e.num[2] : e \in {f \in entries : f.ref = ObRef(y + 1)}}
           C == {e.num[2] + 1 : e \in {f \in staged[w] : f.ref = YecRef(y)}}
           D == {e.num[2] : e \in {f \in staged[w] : f.ref = ObRef(y + 1)}}
<1>1. A = B
  BY DEF JournalInv, BooksInv, YearEndPaired
<1>2. C = D
  <2>1. CASE \A e \in staged[w] : e.ref # YecRef(y) /\ e.ref # ObRef(y + 1)
    BY <2>1
  <2>2. CASE /\ \E e \in staged[w] : e.ref = YecRef(y)
             /\ \E e \in staged[w] : e.ref = ObRef(y + 1)
             /\ \A e \in staged[w] : /\ e.ref = YecRef(y) => e.num[2] = settings.seq
                                     /\ e.ref = ObRef(y + 1) => e.num[2] = settings.seq + 1
    <3>1. C = {settings.seq + 1}
      BY <2>2
    <3>2. D = {settings.seq + 1}
      BY <2>2
    <3> QED BY <3>1, <3>2
  <2> QED BY <2>1, <2>2, CommitTurns
<1>3. {e.num[2] + 1 : e \in {f \in entries \cup staged[w] : f.ref = YecRef(y)}} = A \cup C
  OBVIOUS
<1>4. {e.num[2] : e \in {f \in entries \cup staged[w] : f.ref = ObRef(y + 1)}} = B \cup D
  OBVIOUS
<1> HIDE DEF A, B, C, D
<1> QED BY <1>1, <1>2, <1>3, <1>4

-----------------------------------------------------------------------------
(* The invariant. *)

(* Initially the book is empty. *)
LEMMA JournalInit == Init => JournalInv
<1> SUFFICES ASSUME Init PROVE JournalInv
  OBVIOUS
<1>1. PlansInv
  <2>1. ASSUME NEW w \in Workers PROVE PlanOK(w)
    <3>1. job[w] = Idle /\ drafts[w] = <<>> /\ ~Posting(Idle) /\ Idle.pc = "idle"
      BY DEF Init, Idle, Posting, Holding
    <3> QED BY <3>1 DEF PlanOK
  <2>2. ASSUME NEW w \in Workers PROVE StagedOK(w)
    BY FS_EmptySet DEF Init, StagedOK
  <2> QED BY <2>1, <2>2 DEF PlansInv
<1>2. BooksInv
  <2>1. entries = {} /\ reversed = {} /\ IsFiniteSet(entries)
    BY FS_EmptySet DEF Init
  <2>2. snap \in [Periods -> [Accounts -> Int]] /\ SnapshotLockstep
    <3>1. \A p : {e \in entries : e.per = p} = {}
      BY <2>1
    <3>2. \A p \in Periods, a \in Accounts : snap[p][a] = 0
      BY DEF Init
    <3>3. SnapshotLockstep
      BY <3>1, <3>2, MovementEmpty DEF SnapshotLockstep
    <3> QED BY <3>3 DEF Init
  <2>3. Linked /\ Mirrored /\ YearEndPaired /\ OpeningHasNoPnl
    BY <2>1 DEF Linked, Mirrored, YearEndPaired, OpeningHasNoPnl
  <2> QED BY <2>1, <2>2, <2>3 DEF BooksInv
<1> QED BY <1>1, <1>2 DEF JournalInv

(* A step that leaves the rows alone leaves the books right. *)
LEMMA BooksKept ==
  ASSUME BooksInv, UNCHANGED <<entries, reversed, snap>>
  PROVE  BooksInv'
<1>1. (\A e \in entries : EntryOK(e))'
  BY DEF BooksInv, EntryOK
<1>2. SnapshotLockstep'
  BY DEF BooksInv, SnapshotLockstep
<1>3. Linked' /\ Mirrored' /\ YearEndPaired' /\ OpeningHasNoPnl'
  BY DEF BooksInv, Linked, Mirrored, YearEndPaired, OpeningHasNoPnl
<1> QED BY <1>1, <1>2, <1>3 DEF BooksInv

(* A commit keeps them right. *)
LEMMA BooksCommit ==
  ASSUME CoreInv, JournalInv, NEW w \in Workers, Commit(w)
  PROVE  JournalInv'
<1>f. /\ \A v \in Workers : job'[v] = IF v = w THEN Idle ELSE job[v]
      /\ \A v \in Workers : staged'[v] = {}
      /\ entries' = entries \cup staged[w]
  BY CommitFacts
<1>d. \A v \in Workers : drafts'[v] = IF v = w THEN <<>> ELSE drafts[v]
  BY DEF Commit, Release, CoreInv, ControlOK
<1>1. PlansInv'
  <2>1. PlanOK(w)'
    BY <1>f, <1>d, PlanIdle
  <2>2. \A v \in Workers \ {w} : PlanOK(v)'
    BY <1>f, <1>d, PlanKept DEF JournalInv, PlansInv
  <2>3. \A v \in Workers : StagedOK(v)'
    BY <1>f, StagedEmpty
  <2> QED BY <2>1, <2>2, <2>3 DEF PlansInv
<1>2. IsFiniteSet(entries')
  <2>1. IsFiniteSet(entries) /\ IsFiniteSet(staged[w])
    BY CommitRows DEF JournalInv, BooksInv
  <2>2. IsFiniteSet(entries \cup staged[w])
    BY <2>1, FS_Union
  <2> QED BY <1>f, <2>2
<1>3. (\A e \in entries : EntryOK(e))'
  <2>1. \A e \in entries \cup staged[w] : EntryOK(e)
    BY CommitEntries DEF JournalInv, BooksInv
  <2> QED BY <1>f, <2>1 DEF EntryOK
<1>4. BooksInv'
  BY <1>2, <1>3, CommitSnapshot, CommitLinks, CommitPairs, CommitOpens DEF BooksInv
<1> QED BY <1>1, <1>4 DEF JournalInv

(* Every step keeps the invariant. *)
LEMMA JournalNext ==
  ASSUME CoreInv, JournalInv, [Next]_vars
  PROVE  JournalInv'
<1>1. CASE UNCHANGED vars
  <2>1. ASSUME NEW w \in Workers PROVE PlanOK(w)' /\ StagedOK(w)'
    BY <1>1, PlanKept, StagedKept DEF vars, JournalInv, PlansInv
  <2>2. BooksInv'
    BY <1>1, BooksKept DEF vars, JournalInv
  <2> QED BY <2>1, <2>2 DEF JournalInv, PlansInv
<1>2. ASSUME NEW w \in Workers, Request(w) \/ Step(w) \/ Abort(w)
      PROVE  JournalInv'
  <2>0. ControlOK /\ LockHeld /\ BooksInv
    BY DEF CoreInv, JournalInv
  <2>1. ASSUME NEW j \in JobRecord, NEW ds, Opened(w, j, ds) PROVE JournalInv'
    BY <2>0, <2>1, PlansOpen, BooksKept DEF Opened, JournalInv
  <2>2. ASSUME NEW j \in JobRecord, Moved(w, j) PROVE JournalInv'
    BY <2>0, <2>2, PlansMove, BooksKept DEF Moved, JournalInv
  <2>3. CASE YearEndPnl(w) \/ YearEndBs(w)
    BY <2>0, <2>3, PlansQuery, BooksKept DEF YearEndPnl, YearEndBs, ledger, JournalInv
  <2>4. CASE Insert(w)
    BY <2>0, <2>4, PlansInsert, BooksKept DEF Insert, ledger, JournalInv
  <2>5. CASE Commit(w)
    BY <2>5, BooksCommit
  <2>6. CASE Ended(w)
    BY <2>0, <2>6, PlansEnd, BooksKept DEF Ended, JournalInv
  <2> QED BY <1>2, <2>0, <2>1, <2>2, <2>3, <2>4, <2>5, <2>6, StepKinds
<1> QED BY <1>1, <1>2 DEF Next, Quiesced

(* So it holds in every state. *)
LEMMA JournalAlways == Spec => []JournalInv
<1>1. Init => JournalInv
  BY JournalInit
<1>2. CoreInv /\ JournalInv /\ [Next]_vars => JournalInv'
  BY JournalNext
<1> QED BY <1>1, <1>2, CoreAlways, PTL DEF Spec

(* Every committed entry has equal debits and credits: whichever postings  *)
(* the year-end aggregates saw, and whatever rounding residue a subsystem  *)
(* left, the adjustment line of create_and_post_in_tx closes the entry.    *)
THEOREM BooksBalance == Spec => []EntriesBalanced
<1>1. JournalInv => EntriesBalanced
  BY DEF JournalInv, BooksInv, EntryOK, EntriesBalanced
<1> QED BY <1>1, JournalAlways, PTL

(* The upserted snapshots of every period and account are the sums of the  *)
(* committed lines, for every interleaving of postings and rollbacks.      *)
THEOREM SnapshotsExact == Spec => []SnapshotLockstep
<1>1. JournalInv => SnapshotLockstep
  BY DEF JournalInv, BooksInv
<1> QED BY <1>1, JournalAlways, PTL

(* An entry is marked reversed exactly when an entry that moves every      *)
(* account the opposite way refers to it (reverse_journal_entry).          *)
THEOREM ReversalsMirrored == Spec => []ReversedIffLinked
<1>1. CoreInv /\ JournalInv => ReversedIffLinked
  <2> SUFFICES ASSUME CoreInv, JournalInv, NEW e \in entries
               PROVE  e.num \in reversed <=>
                         \E r \in entries : /\ r.ref = RevRef(e.num)
                                            /\ \A a \in Accounts : r.lines[a] = -e.lines[a]
    BY DEF ReversedIffLinked
  <2>1. ASSUME e.num \in reversed
        PROVE  \E r \in entries : /\ r.ref = RevRef(e.num)
                                  /\ \A a \in Accounts : r.lines[a] = -e.lines[a]
    <3>1. PICK f, r \in entries : /\ f.num = e.num /\ r.ref = RevRef(e.num)
                                  /\ \A a \in Accounts : r.lines[a] = -f.lines[a]
      BY <2>1 DEF JournalInv, BooksInv, Mirrored
    <3>2. f = e
      BY <3>1 DEF CoreInv, UniqueNumbers
    <3> QED BY <3>1, <3>2
  <2>2. ASSUME NEW r \in entries, r.ref = RevRef(e.num)
        PROVE  e.num \in reversed
    <3>1. r.ref.kind = "REV" /\ r.ref.id = e.num
      BY <2>2 DEF RevRef
    <3> QED BY <3>1 DEF JournalInv, BooksInv, Linked
  <2> QED BY <2>1, <2>2
<1> QED BY <1>1, CoreAlways, JournalAlways, PTL

(* A year is closed and the next one opened together, under consecutive    *)
(* numbers, however the two year-end queries and other postings overlap.   *)
THEOREM YearEndTogether == Spec => []YearEndPaired
<1>1. JournalInv => YearEndPaired
  BY DEF JournalInv, BooksInv
<1> QED BY <1>1, JournalAlways, PTL

(* A year-end close whose two queries disagree is refused: whatever is     *)
(* posted between them, an opening entry carries no revenue or expense     *)
(* beyond the rounding tolerance.                                          *)
THEOREM OpeningsClean == Spec => []OpeningHasNoPnl
<1>1. JournalInv => OpeningHasNoPnl
  BY DEF JournalInv, BooksInv
<1> QED BY <1>1, JournalAlways, PTL

-----------------------------------------------------------------------------
(* The connection pool, and types. *)

Held == {w \in Workers : Borrowing(job[w])}

(* A connection is idle or in the hands of a request.                      *)
PoolBalanced == free + Cardinality(Held) = PoolSize

PoolInv == /\ free \in Nat
           /\ PoolBalanced
           /\ lock # Nobody => Holding(job[lock])
           /\ started \in 0..MaxRequests

(* A connection is taken when a transaction begins and given back when it  *)
(* ends.                                                                   *)
LEMMA PoolStep ==
  ASSUME PoolInv, NEW w \in Workers, \A v \in Workers \ {w} : job'[v] = job[v],
         \/ (Borrowing(job'[w]) <=> Borrowing(job[w])) /\ free' = free
         \/ Borrowing(job'[w]) /\ ~Borrowing(job[w]) /\ free > 0 /\ free' = free - 1
         \/ ~Borrowing(job'[w]) /\ Borrowing(job[w]) /\ free' = free + 1
  PROVE  free' \in Nat /\ PoolBalanced'
<1>0. IsFiniteSet(Held) /\ Cardinality(Held) \in Nat
  <2>1. Held \in SUBSET Workers
    BY DEF Held
  <2> QED BY <2>1, ConstantsOK, FS_Subset, FS_CardinalityType
<1>f. free \in Nat /\ free + Cardinality(Held) = PoolSize
  BY DEF PoolInv, PoolBalanced
<1>p. PoolBalanced' <=> free' + Cardinality(Held') = PoolSize
  BY DEF PoolBalanced
<1>1. CASE (Borrowing(job'[w]) <=> Borrowing(job[w])) /\ free' = free
  <2>1. Held' = Held
    BY <1>1 DEF Held, Borrowing
  <2> QED BY <1>f, <1>p, <1>1, <2>1
<1>2. CASE Borrowing(job'[w]) /\ ~Borrowing(job[w]) /\ free > 0 /\ free' = free - 1
  <2>1. Held' = Held \cup {w} /\ w \notin Held
    BY <1>2 DEF Held, Borrowing
  <2>2. Cardinality(Held \cup {w}) = Cardinality(Held) + 1
    BY <1>0, <2>1, FS_AddElement
  <2> QED BY <1>0, <1>f, <1>p, <1>2, <2>1, <2>2
<1>3. CASE ~Borrowing(job'[w]) /\ Borrowing(job[w]) /\ free' = free + 1
  <2>1. Held' = Held \ {w} /\ w \in Held
    BY <1>3 DEF Held, Borrowing
  <2>2. Cardinality(Held \ {w}) = Cardinality(Held) - 1
    BY <1>0, <2>1, FS_RemoveElement
  <2> QED BY <1>0, <1>f, <1>p, <1>3, <2>1, <2>2
<1> QED BY <1>1, <1>2, <1>3

(* Every connection is in the pool at first. *)
LEMMA PoolInit == Init => PoolInv
<1> SUFFICES ASSUME Init PROVE PoolInv
  OBVIOUS
<1>1. Held = {}
  BY DEF Init, Held, Idle, Borrowing, Holding
<1>2. free = PoolSize /\ PoolSize \in Nat /\ MaxRequests \in Nat /\ Cardinality({}) = 0
  BY ConstantsOK, FS_EmptySet DEF Init
<1>3. PoolBalanced
  BY <1>1, <1>2 DEF PoolBalanced
<1> QED BY <1>2, <1>3 DEF Init, PoolInv

(* Every step keeps the accounts of the pool; the lock is released with    *)
(* the transaction that holds it.                                          *)
LEMMA PoolNext ==
  ASSUME CoreInv, PoolInv, [Next]_vars
  PROVE  PoolInv'
<1>1. CASE UNCHANGED vars
  BY <1>1 DEF vars, PoolInv, PoolBalanced, Held, Holding, Borrowing
<1>2. ASSUME NEW w \in Workers, Request(w) \/ Step(w) \/ Abort(w)
      PROVE  PoolInv'
  <2>0. /\ ControlOK /\ LockHeld /\ job \in [Workers -> JobRecord]
        /\ lock \in Workers \cup {Nobody} /\ Nobody \notin Workers
        /\ started \in 0..MaxRequests /\ MaxRequests \in Nat
        /\ lock # Nobody => Holding(job[lock])
    BY ConstantsOK DEF CoreInv, ControlOK, PoolInv
  <2>r. ASSUME Release(w), started' = started PROVE PoolInv'
    <3>1. /\ \A v \in Workers : job'[v] = IF v = w THEN Idle ELSE job[v]
          /\ free' = IF Borrowing(job[w]) THEN free + 1 ELSE free
          /\ lock' = IF lock = w THEN Nobody ELSE lock
      BY <2>0, <2>r DEF Release, Connected, InTx, At, Borrowing, Holding
    <3>2. free' \in Nat /\ PoolBalanced'
      <4>1. ~Borrowing(Idle)
        BY DEF Idle, Borrowing, Holding
      <4> QED BY <3>1, <4>1, PoolStep
    <3>3. lock' # Nobody => Holding(job'[lock'])
      BY <2>0, <3>1
    <3> QED BY <2>0, <2>r, <3>2, <3>3 DEF PoolInv, Borrowing
  <2>m. ASSUME NEW j \in JobRecord, job' = [job EXCEPT ![w] = j],
               \/ (Borrowing(j) <=> Borrowing(job[w])) /\ free' = free
               \/ Borrowing(j) /\ ~Borrowing(job[w]) /\ free > 0 /\ free' = free - 1
               \/ ~Borrowing(j) /\ Borrowing(job[w]) /\ free' = free + 1,
               lock' = lock \/ (lock' = w /\ Holding(j)),
               Holding(job[w]) => Holding(j),
               started' \in 0..MaxRequests
        PROVE  PoolInv'
    <3>1. \A v \in Workers : job'[v] = IF v = w THEN j ELSE job[v]
      BY <2>0, <2>m
    <3>2. free' \in Nat /\ PoolBalanced'
      BY <2>m, <3>1, PoolStep
    <3>3. lock' # Nobody => Holding(job'[lock'])
      <4>1. CASE lock' = lock /\ lock # w
        BY <2>0, <3>1, <4>1
      <4>2. CASE lock' = lock /\ lock = w
        BY <2>0, <2>m, <3>1, <4>2
      <4>3. CASE lock' = w /\ Holding(j)
        BY <3>1, <4>3
      <4> QED BY <2>m, <4>1, <4>2, <4>3
    <3> QED BY <2>m, <3>2, <3>3 DEF PoolInv, Borrowing
  <2>1. ASSUME NEW j \in JobRecord, NEW ds, Opened(w, j, ds) PROVE PoolInv'
    <3>1. ~Borrowing(job[w]) /\ ~Borrowing(j) /\ started' \in 0..MaxRequests
      BY <2>0, <2>1 DEF Opened, At, Borrowing, Holding
    <3> QED BY <2>1, <2>m, <3>1 DEF Opened, Borrowing
  <2>2. ASSUME NEW j \in JobRecord, Moved(w, j) PROVE PoolInv'
    <3>1. Holding(job[w]) => Holding(j)
      BY <2>2 DEF Moved, Posting
    <3> QED BY <2>0, <2>2, <2>m, <3>1 DEF Moved
  <2>3. CASE YearEndPnl(w) \/ YearEndBs(w)
    <3>1. PICK j \in JobRecord : /\ job' = [job EXCEPT ![w] = j]
                                 /\ j.pc = IF At(w, "pnl") THEN "bs" ELSE "begin"
      BY <2>3, CoreQueries
    <3>2. ~Borrowing(j) /\ ~Borrowing(job[w])
      BY <2>3, <3>1 DEF Borrowing, Holding, YearEndPnl, YearEndBs, At
    <3> QED BY <2>0, <2>3, <2>m, <3>1, <3>2 DEF YearEndPnl, YearEndBs, Borrowing
  <2>4. CASE Insert(w)
    <3>1. /\ job' \in [Workers -> JobRecord] /\ \A v \in Workers \ {w} : job'[v] = job[v]
          /\ job[w].pc = "insert" /\ job'[w].pc \in {"commit", "check"}
          /\ UNCHANGED <<lock, free, started>>
      BY <2>4, InsertFacts
    <3>2. Holding(job'[w]) /\ Borrowing(job'[w]) /\ Borrowing(job[w])
      BY <3>1 DEF Borrowing, Holding
    <3>3. job' = [job EXCEPT ![w] = job'[w]] /\ job'[w] \in JobRecord
      BY <2>0, <3>1
    <3>4. PICK j \in JobRecord : job' = [job EXCEPT ![w] = j] /\ Holding(j) /\ Borrowing(j)
      BY <3>2, <3>3
    <3> QED BY <2>0, <2>m, <3>1, <3>2, <3>4
  <2>5. CASE Commit(w)
    BY <2>5, <2>r DEF Commit
  <2>6. CASE Ended(w)
    BY <2>6, <2>r DEF Ended
  <2> QED BY <1>2, <2>0, <2>1, <2>2, <2>3, <2>4, <2>5, <2>6, StepKinds
<1> QED BY <1>1, <1>2 DEF Next, Quiesced

(* The pool's books balance in every state the ledger reaches. *)
LEMMA PoolAlways == Spec => []PoolInv
<1>1. Init => PoolInv
  BY PoolInit
<1>2. CoreInv /\ PoolInv /\ [Next]_vars => PoolInv'
  BY PoolNext
<1> QED BY <1>1, <1>2, CoreAlways, PTL DEF Spec

(* The type invariant: rows, settings, caches and requests keep their      *)
(* shapes, reversed numbers are numbers of entries, and whoever holds the  *)
(* settings row is in a transaction.                                       *)
THEOREM LedgerTyped == Spec => []TypeOK
<1>1. CoreInv /\ JournalInv /\ PoolInv => TypeOK
  <2> SUFFICES ASSUME CoreInv, JournalInv, PoolInv PROVE TypeOK
    OBVIOUS
  <2>1. \A e \in entries : e.per \in Periods /\ e.src \in Sources /\ e.lines \in [Accounts -> Int]
    BY DEF JournalInv, BooksInv, EntryOK
  <2>2. reversed \subseteq Numbers
    BY DEF JournalInv, BooksInv, Mirrored, Numbers
  <2>3. free \in 0..PoolSize
    <3>1. Held \in SUBSET Workers
      BY DEF Held
    <3>2. Cardinality(Held) \in Nat
      BY <3>1, ConstantsOK, FS_Subset, FS_CardinalityType
    <3> QED BY <3>2, ConstantsOK DEF PoolInv, PoolBalanced
  <2>4. ASSUME NEW w \in Workers
        PROVE  /\ job[w].pc \in Pcs /\ job[w].cfg \in Config \cup {NotCached}
               /\ job[w].count =< Len(drafts[w])
    <3>1. /\ job[w].pc \in Pcs /\ job[w].cfg \in Config \cup {NotCached}
          /\ job[w].count \in Nat /\ Sound(job[w]) /\ PlanOK(w)
      BY DEF CoreInv, ControlOK, JobRecord, JournalInv, PlansInv
    <3>2. CASE Posting(job[w])
      <4>1. Len(drafts[w]) \in Nat
        BY <3>1, <3>2, PlanLength DEF PlanOK
      <4> QED BY <3>1, <3>2, <4>1 DEF PlanOK
    <3>3. CASE ~Posting(job[w])
      <4>1. job[w].count = 0
        BY <3>1, <3>3 DEF Sound, Posting
      <4>2. Len(drafts[w]) \in Nat
        <5>1. CASE job[w].pc = "bs"
          <6>1. PICK d : drafts[w] = <<d>>
            BY <3>1, <5>1 DEF PlanOK
          <6> QED BY <6>1
        <5>2. CASE job[w].pc # "bs"
          <6>1. drafts[w] = <<>>
            BY <3>1, <3>3, <5>2 DEF PlanOK
          <6> QED BY <6>1
        <5> QED BY <5>1, <5>2
      <4> QED BY <3>1, <4>1, <4>2
    <3> QED BY <3>2, <3>3
  <2>5. lock # Nobody => lock \in Workers /\ InTx(lock)
    BY DEF CoreInv, ControlOK, PoolInv, InTx, Holding
  <2>6. /\ status \in [Periods -> Statuses] /\ settings \in Config
        /\ cache \in Config \cup {NotCached} /\ started \in 0..MaxRequests
        /\ snap \in [Periods -> [Accounts -> Int]]
    BY DEF CoreInv, ControlOK, PoolInv, JournalInv, BooksInv
  <2> QED BY <2>1, <2>2, <2>3, <2>4, <2>5, <2>6 DEF TypeOK
<1> QED BY <1>1, CoreAlways, JournalAlways, PoolAlways, PTL

-----------------------------------------------------------------------------
(* The refinement. *)

(* Journal adds up as Ledger does. *)
LEMMA SameSums == ASSUME NEW es, NEW a PROVE Book!Sums(es, a) = Movement(es, a)
  BY DEF Movement, Book!Sums, MapThenSumSet, MapThenFoldSet,
         Book!MapThenSumSet, Book!MapThenFoldSet

(* The abstract journal's balance is the sum of the ledger's lines. *)
LEMMA SameTotals == ASSUME NEW e PROVE Book!Balanced(e) <=> Total(e.lines) = 0
  BY DEF Total, Book!Balanced, MapThenSumSet, MapThenFoldSet,
         Book!MapThenSumSet, Book!MapThenFoldSet

(* The journal and the ledger count alike. *)
LEMMA SameCounts == ASSUME NEW S PROVE Book!Cardinality(S) = Cardinality(S)
  BY DEF Cardinality, Book!Cardinality, IsFiniteSet, Book!IsFiniteSet

(* A commit is one posting of the abstract book. *)
LEMMA CommitPosts ==
  ASSUME CoreInv, JournalInv, UniqueNumbers', GaplessInv', NEW w \in Workers, Commit(w)
  PROVE  Book!Post(staged[w])
<1> DEFINE es == staged[w]
<1>f. entries' = entries \cup es /\ reversed' = reversed \cup Marked(w)
  BY DEF Commit
<1>1. es # {}
  <2>1. 1 \in 1..Len(drafts[w])
    <3> DEFINE n == Len(drafts[w])
    <3>1. n \in {1, 2}
      BY CommitRows, PlanLength
    <3> HIDE DEF n
    <3>2. 1 \in 1..n
      BY <3>1
    <3> QED BY <3>2 DEF n
  <2> QED BY <2>1, CommitRows
<1>2. \A e \in es : Book!Balanced(e)
  BY CommitEntries, SameTotals DEF EntryOK
<1>3. Book!WellNumbered(es)
  <2>1. \A e \in es, g \in entries \cup es : e.num = g.num => e = g
    BY <1>f DEF UniqueNumbers
  <2>2. PICK n \in Nat : {e.num[2] : e \in entries \cup es} = 1..n
    BY <1>f DEF GaplessInv, CountersReached, Rows
  <2>3. Cardinality(1..n) = n
    BY FS_Interval
  <2> DEFINE counters == {e.num[2] : e \in entries \cup es}
  <2>4. counters = 1..Cardinality(counters)
    <3> HIDE DEF counters
    <3>1. counters = 1..n
      BY <2>2 DEF counters
    <3> QED BY <2>3, <3>1
  <2> QED BY <2>1, <2>4, SameCounts DEF Book!WellNumbered
<1>4. \A r \in Book!Of(es, "REV") : Book!Mirrors(r)
  <2> SUFFICES ASSUME NEW r \in es, r.ref.kind = "REV" PROVE Book!Mirrors(r)
    BY DEF Book!Of
  <2>1. PICK e \in entries : r.ref = RevRef(e.num) /\ \A a \in Accounts : r.lines[a] = -e.lines[a]
    BY CommitMirrors
  <2>2. r.ref.id = e.num
    BY <2>1 DEF RevRef
  <2> QED BY <2>1, <2>2 DEF Book!Mirrors
<1>5. Book!YearTurned(es)
  <2> DEFINE C == {e \in es : e.ref.kind = "YEC"}
             O == {e \in es : e.ref.kind = "OB"}
  <2>1. {e.ref.id[1] + 1 : e \in C} = {e.ref.id[1] : e \in O}
    <3>1. CASE Single(drafts[w])
      <4>1. PICK d : drafts[w] = <<d>> /\ (d.ref = NoRef \/ \E e \in entries : d.ref = RevRef(e.num))
        BY <3>1 DEF Single
      <4>n. NoRef.kind = "none" /\ \A n : RevRef(n).kind = "REV"
        BY DEF NoRef, RevRef
      <4>2. d.ref.kind # "YEC" /\ d.ref.kind # "OB"
        BY <4>1, <4>n
      <4>3. ASSUME NEW e \in es PROVE e.ref = d.ref
        <5>1. PICK i \in 1..Len(drafts[w]) : EntryOf(e, drafts[w][i])
          BY CommitRows
        <5>2. i = 1
          BY <4>1
        <5> QED BY <4>1, <5>1, <5>2 DEF EntryOf
      <4>4. C = {} /\ O = {}
        BY <4>2, <4>3
      <4> HIDE DEF C, O
      <4> QED BY <4>4
    <3>2. CASE Turn(drafts[w])
      <4>1. PICK c, o : \E x \in Years : /\ drafts[w] = <<c, o>>
                                         /\ c.ref = YecRef(x) /\ o.ref = ObRef(x + 1)
        BY <3>2 DEF Turn, Closing, Opening
      <4>2. PICK z \in Years : /\ drafts[w] = <<c, o>>
                               /\ c.ref = YecRef(z) /\ o.ref = ObRef(z + 1)
        BY <4>1
      <4>3. ASSUME NEW e \in es PROVE e.ref \in {YecRef(z), ObRef(z + 1)}
        <5>1. PICK i \in 1..Len(drafts[w]) : EntryOf(e, drafts[w][i])
          BY CommitRows
        <5>2. i \in {1, 2}
          BY <4>2
        <5> QED BY <4>2, <5>1, <5>2 DEF EntryOf
      <4>4. /\ \E e \in es : e.ref = YecRef(z)
            /\ \E e \in es : e.ref = ObRef(z + 1)
        <5>1. 1 \in 1..Len(drafts[w]) /\ 2 \in 1..Len(drafts[w])
          BY <4>2
        <5>2. /\ \E e \in es : EntryOf(e, drafts[w][1])
              /\ \E e \in es : EntryOf(e, drafts[w][2])
          BY <5>1, CommitRows
        <5> QED BY <4>2, <5>2 DEF EntryOf
      <4>5. /\ YecRef(z).kind = "YEC" /\ YecRef(z).id[1] = z
            /\ ObRef(z + 1).kind = "OB" /\ ObRef(z + 1).id[1] = z + 1
        BY DEF YecRef, ObRef
      <4>6. /\ \A e \in C : e.ref = YecRef(z)
            /\ \A e \in O : e.ref = ObRef(z + 1)
            /\ C # {} /\ O # {}
        BY <4>3, <4>4, <4>5
      <4> HIDE DEF C, O
      <4> QED BY <4>5, <4>6
    <3> QED BY <3>1, <3>2, CommitRows
  <2> QED BY <2>1 DEF Book!YearTurned, Book!Of
<1>6. reversed' = reversed \cup {r.ref.id : r \in Book!Of(es, "REV")}
  BY <1>f, CommitMarks DEF Book!Of
<1>7. snap' = [p \in Periods |-> [a \in Accounts |->
                 snap[p][a] + Book!Sums({e \in es : e.per = p}, a)]]
  <2>1. snap' = [p \in Periods |-> [a \in Accounts |->
                   snap[p][a] + Movement({e \in es : e.per = p}, a)]]
    BY DEF Commit
  <2> HIDE DEF es
  <2> QED BY <2>1, SameSums
<1> HIDE DEF es
<1>8. Book!Post(es)
  BY <1>f, <1>1, <1>2, <1>3, <1>4, <1>5, <1>6, <1>7 DEF Book!Post
<1> QED BY <1>8 DEF es

(* Every step is a posting of the abstract book or leaves it as it is. *)
LEMMA JournalStep ==
  ASSUME CoreInv, JournalInv, CoreInv', GaplessInv', [Next]_vars
  PROVE  [Book!Next]_(Book!vars)
<1>1. CASE UNCHANGED vars
  BY <1>1 DEF vars, Book!vars
<1>2. ASSUME NEW w \in Workers, Request(w) \/ Step(w) \/ Abort(w)
      PROVE  [Book!Next]_(Book!vars)
  <2>0. ControlOK /\ LockHeld
    BY DEF CoreInv
  <2>1. CASE Commit(w)
    <3>1. Book!Post(staged[w])
      BY <2>1, CommitPosts DEF CoreInv
    <3>2. entries' \ entries = staged[w]
      BY <2>1, CommitNew DEF Commit
    <3>3. Book!Next
      BY <3>1, <3>2 DEF Book!Next
    <3> QED BY <3>3
  <2>2. CASE UNCHANGED <<entries, reversed, snap>>
    BY <2>2 DEF Book!vars
  <2>3. Commit(w) \/ UNCHANGED <<entries, reversed, snap>>
    BY <1>2, <2>0, StepKinds DEF Opened, Moved, YearEndPnl, YearEndBs, Insert, Ended, ledger
  <2> QED BY <2>1, <2>2, <2>3
<1> QED BY <1>1, <1>2 DEF Next, Quiesced

(* The ledger implements the abstract journal: as long as no administrator *)
(* types a counter by hand, whatever requests overlap, fail or are cut     *)
(* off, the committed rows change only by whole postings.                  *)
THEOREM JournalImplemented == TypedCounters = {} => (Spec => ImplementsJournal)
<1> SUFFICES ASSUME TypedCounters = {} PROVE Spec => ImplementsJournal
  OBVIOUS
<1>1. Init => Book!Init
  BY DEF Init, Book!Init
<1>2. Init => GaplessInv
  BY GaplessInit
<1>3. CoreInv /\ GaplessInv /\ [Next]_vars => GaplessInv'
  BY GaplessNext
<1>4. CoreInv /\ JournalInv /\ CoreInv' /\ GaplessInv' /\ [Next]_vars => [Book!Next]_(Book!vars)
  BY JournalStep
<1> QED BY <1>1, <1>2, <1>3, <1>4, CoreAlways, JournalAlways, PTL
        DEF Spec, ImplementsJournal, Book!Spec
=============================================================================
