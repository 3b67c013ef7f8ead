------------------------------ MODULE Banking ------------------------------
(***************************************************************************)
(* From an imported statement to a reconciled bank account: matching the   *)
(* lines with journal entries, categorising, splitting, merging and        *)
(* excluding them, and completing a reconciliation against the closing     *)
(* balance of the statement.                                               *)
(*                                                                         *)
(* A request reads on the pool and commits statement by statement; it can  *)
(* stop between two commits.  An entry is its effect on the bank account   *)
(* in functional currency.                                                 *)
(***************************************************************************)
EXTENDS Integers, FiniteSets, FiniteSetsExt, Sequences, Functions

CONSTANTS
    Bankers,        \* concurrent requests
    Statement,      \* the lines imported: [day, ref, text, amount]
    Payable,        \* payments other components may book: [day, ref, amount]
    Similar,        \* pairs of references with a similarity above 0.8
    MaxLines,       \* bound: lines, the parts of a split included
    MaxBooked,      \* bound: entries on the account
    MaxRecs,        \* bound: completed reconciliations
    MaxBreaks       \* bound: requests that stop half way

VARIABLES
    lines,          \* imported_transactions, by id
    entries,        \* journal_entries on the bank account
    recs,           \* bank_reconciliations: [day, closing]; history: what was cleared up
                    \* to its day then, and whether compute had offered the selection
    teller,         \* what each request is doing
    breaks

vars == <<lines, entries, recs, teller, breaks>>

Magnitude(n) == IF n < 0 THEN -n ELSE n

Item(day, ref, text, amount, status) ==
    [day |-> day, ref |-> ref, text |-> text, amount |-> amount, status |-> status, entry |-> 0]

Entry(day, ref, amount, line) ==
    [day |-> day, ref |-> ref, amount |-> amount, line |-> line, reconciled |-> FALSE]

Free == [op |-> "idle", line |-> 0, entry |-> 0, parts |-> <<>>, day |-> 0, ids |-> {}, closing |-> 0,
         offered |-> FALSE]
Doing(b, op) == teller[b].op = op
Start(b, work) == teller[b] = Free /\ teller' = [teller EXCEPT ![b] = work]
Done(b) == teller' = [teller EXCEPT ![b] = Free]

Break(b) ==
    /\ teller[b] # Free /\ breaks < MaxBreaks
    /\ breaks' = breaks + 1
    /\ Done(b)
    /\ UNCHANGED <<lines, entries, recs>>

(* A payment another component posts to the account. *)
Record(e) ==
    /\ Len(entries) < MaxBooked
    /\ entries' = Append(entries, Entry(e.day, e.ref, e.amount, 0))
    /\ UNCHANGED <<lines, recs, teller, breaks>>

-----------------------------------------------------------------------------
(* match_bank_lines *)

Open == {l \in DOMAIN lines : lines[l].status = "uncategorised"}

(* The amount may be on either side of any line of the entry, so only its  *)
(* magnitude counts.                                                       *)
SameAmount(l, e) == Magnitude(entries[e].amount) = Magnitude(lines[l].amount)

ExactCandidates(l) ==
    {e \in DOMAIN entries : /\ entries[e].day = lines[l].day /\ SameAmount(l, e)
                            /\ entries[e].ref = lines[l].ref /\ entries[e].ref # ""}

NearCandidates(l, taken) ==
    {e \in DOMAIN entries \ taken : /\ SameAmount(l, e)
                                    /\ Magnitude(entries[e].day - lines[l].day) =< 3}

SimilarRef(l, e) ==
    lines[l].ref = entries[e].ref \/ <<lines[l].ref, entries[e].ref>> \in Similar

(* DISTINCT ON picks one candidate of a line, no order says which. *)
Picks(S, Cand(_)) ==
    {f \in [S -> DOMAIN entries] : \A l \in S : f[l] \in Cand(l)}

(* suggest_from_history: a line posted to an account, with a similar text *)
Suggested(l) == \E h \in DOMAIN lines : lines[h].status = "posted" /\ lines[h].text = lines[l].text

(* The lines that have a candidate in the second pass *)
NearLines(exact) == {l \in Open \ DOMAIN exact : NearCandidates(l, Range(exact)) # {}}

(* Pass 1, pass 2 with the candidate that was picked, pass 3 on the rest. *)
ReportOf(exact, near) ==
    LET close == {l \in DOMAIN near : SimilarRef(l, near[l])}
        rest == Open \ (DOMAIN exact \cup close)
    IN  [exact |-> exact, near |-> [l \in close |-> near[l]],
         suggested |-> {l \in rest : Suggested(l)},
         unmatched |-> {l \in rest : ~Suggested(l)}]

Reports ==
    UNION {{ReportOf(exact, near) :
                near \in Picks(NearLines(exact), LAMBDA l : NearCandidates(l, Range(exact)))} :
            exact \in Picks({l \in Open : ExactCandidates(l) # {}}, ExactCandidates)}

(* A pair of a report, which may be stale when it is confirmed *)
StartConfirm(b) ==
    \E r \in Reports : \E l \in DOMAIN r.exact \cup DOMAIN r.near :
        /\ Start(b, [Free EXCEPT !.op = "confirm", !.line = l,
                        !.entry = IF l \in DOMAIN r.exact THEN r.exact[l] ELSE r.near[l]])
        /\ UNCHANGED <<lines, entries, recs, breaks>>

(* confirm_match: the line only while it is open, the entry in any case. *)
Confirm(b) ==
    /\ Doing(b, "confirm")
    /\ LET l == teller[b].line
           e == teller[b].entry
       IN  /\ lines' = IF lines[l].status = "uncategorised"
                       THEN [lines EXCEPT ![l].entry = e, ![l].status = "posted"] ELSE lines
           /\ entries' = [entries EXCEPT ![e].reconciled = TRUE]
    /\ Done(b)
    /\ UNCHANGED <<recs, breaks>>

-----------------------------------------------------------------------------
(* The categorisation queue *)

(* categorise refuses a line that has an entry, whatever its status. *)
StartCategorise(b, l) ==
    /\ lines[l].entry = 0 /\ lines[l].amount # 0
    /\ Start(b, [Free EXCEPT !.op = "categorise", !.line = l])
    /\ UNCHANGED <<lines, entries, recs, breaks>>

PostLine(b) ==
    /\ Doing(b, "categorise") /\ Len(entries) < MaxBooked
    /\ LET l == teller[b].line
       IN  entries' = Append(entries, Entry(lines[l].day, lines[l].ref, lines[l].amount, l))
    /\ teller' = [teller EXCEPT ![b].op = "link", ![b].entry = Len(entries) + 1]
    /\ UNCHANGED <<lines, recs, breaks>>

LinkLine(b) ==
    /\ Doing(b, "link")
    /\ lines' = [lines EXCEPT ![teller[b].line].entry = teller[b].entry,
                              ![teller[b].line].status = "posted"]
    /\ Done(b)
    /\ UNCHANGED <<entries, recs, breaks>>

(* split_transaction: the parts make up the amount. *)
StartSplit(b, l, part) ==
    /\ Len(lines) + 2 =< MaxLines
    /\ LET whole == Magnitude(lines[l].amount)
           side == IF lines[l].amount < 0 THEN -1 ELSE 1
       IN  /\ part < whole
           /\ Start(b, [Free EXCEPT !.op = "split", !.line = l,
                           !.parts = <<side * part, side * (whole - part)>>])
    /\ UNCHANGED <<lines, entries, recs, breaks>>

InsertPart(b) ==
    /\ Doing(b, "split") /\ teller[b].parts # <<>> /\ Len(lines) < MaxLines
    /\ LET l == lines[teller[b].line]
       IN  lines' = Append(lines, Item(l.day, l.ref, "part", Head(teller[b].parts), "categorised"))
    /\ teller' = [teller EXCEPT ![b].parts = Tail(@)]
    /\ UNCHANGED <<entries, recs, breaks>>

(* The status of the original was never looked at. *)
ReplaceOriginal(b) ==
    /\ Doing(b, "split") /\ teller[b].parts = <<>>
    /\ lines' = [lines EXCEPT ![teller[b].line].status = "excluded"]
    /\ Done(b)
    /\ UNCHANGED <<entries, recs, breaks>>

(* exclude, and merge_transactions of the duplicate dup *)
Exclude(dup) ==
    /\ lines' = [lines EXCEPT ![dup].status = "excluded"]
    /\ UNCHANGED <<entries, recs, teller, breaks>>

-----------------------------------------------------------------------------
(* Reconciliation *)

Sum(ids) == MapThenSumSet(LAMBDA e : entries[e].amount, ids)
Until(day) == {e \in DOMAIN entries : entries[e].day =< day}
Cleared(day) == {e \in Until(day) : entries[e].reconciled}

PriorCleared(day) == Sum(Cleared(day))

(* compute offers the uncleared entries; complete takes the ids that the   *)
(* client sends, whatever they are, and the closing balance, which has to  *)
(* agree with what was cleared before and their sum.                       *)
Offered(day) == Until(day) \ Cleared(day)

StartComplete(b, day, ids) ==
    /\ Len(recs) < MaxRecs
    /\ Start(b, [Free EXCEPT !.op = "mark", !.day = day, !.ids = ids,
                    !.closing = PriorCleared(day) + Sum(ids), !.offered = ids \subseteq Offered(day)])
    /\ UNCHANGED <<lines, entries, recs, breaks>>

(* A sum whose query fails counts as zero (unwrap_or).                     *)
StartCompleteUnread(b, day, ids) ==
    /\ Len(recs) < MaxRecs /\ breaks < MaxBreaks
    /\ \E closing \in {PriorCleared(day), Sum(ids), 0} :
          Start(b, [Free EXCEPT !.op = "mark", !.day = day, !.ids = ids, !.closing = closing])
    /\ breaks' = breaks + 1
    /\ UNCHANGED <<lines, entries, recs>>

MarkCleared(b) ==
    /\ Doing(b, "mark")
    /\ entries' = [e \in DOMAIN entries |->
                      IF e \in teller[b].ids THEN [entries[e] EXCEPT !.reconciled = TRUE] ELSE entries[e]]
    /\ teller' = [teller EXCEPT ![b].op = "record"]
    /\ UNCHANGED <<lines, recs, breaks>>

Complete(b) ==
    /\ Doing(b, "record")
    /\ recs' = Append(recs, [day |-> teller[b].day, closing |-> teller[b].closing,
                             cleared |-> Sum(Cleared(teller[b].day)), offered |-> teller[b].offered])
    /\ Done(b)
    /\ UNCHANGED <<lines, entries, breaks>>

-----------------------------------------------------------------------------
Init ==
    /\ lines = [l \in DOMAIN Statement |->
                   LET s == Statement[l] IN Item(s.day, s.ref, s.text, s.amount, "uncategorised")]
    /\ entries = <<>>
    /\ recs = <<>>
    /\ teller = [b \in Bankers |-> Free]
    /\ breaks = 0

Next ==
    \/ \E e \in Payable : Record(e)
    \/ \E l \in DOMAIN lines : Exclude(l)
    \/ \E b \in Bankers :
          \/ StartConfirm(b) \/ Confirm(b)
          \/ \E l \in DOMAIN lines : StartCategorise(b, l) \/ StartSplit(b, l, 1)
          \/ PostLine(b) \/ LinkLine(b) \/ InsertPart(b) \/ ReplaceOriginal(b)
          \/ \E e \in DOMAIN entries : \E ids \in SUBSET DOMAIN entries :
                StartComplete(b, entries[e].day, ids) \/ StartCompleteUnread(b, entries[e].day, ids)
          \/ MarkCleared(b) \/ Complete(b) \/ Break(b)

Spec == Init /\ [][Next]_vars

-----------------------------------------------------------------------------
(* Properties *)

(* A report of match_bank_lines is about each open line once, in one of    *)
(* its four parts, and never offers the entry of an exact match to another *)
(* line as a near one, whichever candidates the queries pick.              *)
ReportComplete ==
    \A r \in Reports :
        LET parts == <<DOMAIN r.exact, DOMAIN r.near, r.suggested, r.unmatched>>
        IN  /\ UNION Range(parts) = Open
            /\ \A i, j \in 1..4 : i # j => parts[i] \cap parts[j] = {}
            /\ Range(r.exact) \cap Range(r.near) = {}

(* A line is in the ledger once, and once more for each request that       *)
(* stopped between the commit of the entry and that of the link, also when *)
(* it is confirmed, excluded or split in between; requests do not overlap  *)
(* (categorise, confirm_match).                                            *)
Booked(l) == {e \in DOMAIN entries : entries[e].line = l}

LineBookedOnce ==
    \A l \in DOMAIN lines :
        LET matched == {lines[l].entry} \ (Booked(l) \cup {0})
        IN  Cardinality(Booked(l)) + Cardinality(matched) =< 1 + breaks

(* While requests do not overlap, a reconciliation of entries that compute *)
(* offered was recorded only when the entries cleared up to its date made  *)
(* up the closing balance, whatever was cleared before, by matching or by  *)
(* a completion that stopped half way (routes/reconciliation.rs complete). *)
RecordedBalances ==
    \A r \in DOMAIN recs : recs[r].offered => recs[r].closing = recs[r].cleared

=============================================================================
