----------------------------- MODULE Statements -----------------------------
(***************************************************************************)
(* Bank statements: how the parsers of bank.rs (MT940, OFX, CSV),          *)
(* statement_pdf.rs and statement_xlsx.rs turn a file into lines, and how  *)
(* import_statement puts the lines into the categorisation queue without   *)
(* doubling them when files repeat or overlap.                             *)
(*                                                                         *)
(* The bank's own record of the account is the reference: a file is that   *)
(* record rendered in a format, and a parser has to read it back.  A date, *)
(* a text or a reference is one token; an absent value is the empty set.   *)
(***************************************************************************)
EXTENDS Integers, FiniteSets, FiniteSetsExt, Sequences, SequencesExt, Functions

CONSTANTS
    Importers,      \* concurrent requests of import_statement
    Movements,      \* what may happen on the account: [day, ref, text, amount]
    Formats,        \* formats statements are downloaded in
    MaxMovements,   \* bound: movements of the account
    MaxImports,     \* bound: files imported
    Opening         \* opening balance of the account

VARIABLES
    account,        \* the bank's record: a sequence of movements
    imports,        \* statement_imports: the contents imported
    queue,          \* imported_transactions: their lines, with dedup_key
    inbox           \* what each importer is importing

vars == <<account, imports, queue, inbox>>

Abs(n) == IF n < 0 THEN -n ELSE n
Some(x) == {x}
None == {}
Value(option) == CHOOSE x \in option : TRUE
NonZero(option) == {x \in option : x # 0}

(* ParsedStatementLine *)
Line(day, text, ref, debit, credit) ==
    [day |-> day, text |-> text, ref |-> ref, debit |-> debit, credit |-> credit]

(* The line of a signed amount: negative is money out, a debit. *)
SignedLine(day, text, ref, amount) ==
    IF amount < 0 THEN Line(day, text, ref, Some(-amount), None)
                  ELSE Line(day, text, ref, None, Some(amount))

(* COALESCE(debit, credit), and which way the money went. *)
Moved(line) ==
    CASE line.debit # None -> -Value(line.debit)
      [] line.debit = None /\ line.credit # None -> Value(line.credit)
      [] OTHER -> 0

Total(amounts) == FoldLeft(LAMBDA sum, x : sum + x, 0, amounts)
Map(Op(_), s) == [i \in DOMAIN s |-> Op(s[i])]

-----------------------------------------------------------------------------
(* MT940: a :61: field holds the movement, a :86: field its text. *)

Field(tag, m) == [tag |-> tag, day |-> m.day, ref |-> m.ref, text |-> m.text,
                  mark |-> IF m.amount < 0 THEN "D" ELSE "C", amount |-> Abs(m.amount)]

RenderMt940(s) == FlattenSeq(Map(LAMBDA m : IF m.text = "" THEN <<Field(":61:", m)>>
                                            ELSE <<Field(":61:", m), Field(":86:", m)>>, s))

(* parse_mt940_amount_field: a reversal mark counts like its letter. *)
Mt940Line(f) ==
    SignedLine(f.day, "", f.ref, IF f.mark \in {"D", "RD"} THEN -f.amount ELSE f.amount)

(* Commit the pending movement, if there is one, with this text. *)
Flush(current, text) == IF current = None THEN <<>>
                        ELSE <<[Value(current) EXCEPT !.text = text]>>

Mt940Field(st, f) ==
    IF f.tag = ":61:"
    THEN [lines |-> st.lines \o Flush(st.current, ""),
          current |-> Some(Mt940Line(f))]
    ELSE [lines |-> st.lines \o Flush(st.current, f.text), current |-> None]

ParseMt940(raw) ==
    LET st == FoldLeft(Mt940Field, [lines |-> <<>>, current |-> None], raw)
    IN  st.lines \o Flush(st.current, "")

(* OFX: the name or else the memo, the FITID or else the cheque number. *)
RenderOfx(s) ==
    Map(LAMBDA m : [day |-> m.day, amount |-> m.amount, name |-> "", memo |-> m.text,
                    fitid |-> m.ref, checknum |-> ""], s)

ParseOfx(raw) ==
    Map(LAMBDA b : SignedLine(b.day, IF b.name # "" THEN b.name ELSE b.memo,
                              IF b.fitid # "" THEN b.fitid ELSE b.checknum, b.amount), raw)

(* CSV: amount; amount and balance; or debit, credit and balance.  The     *)
(* first data row decides which.  A CSV row has no reference.              *)
Balance(s, i) == Opening + Total(Map(LAMBDA m : m.amount, SubSeq(s, 1, i)))

RenderCsv(format, s) ==
    [i \in DOMAIN s |->
        [day |-> s[i].day, text |-> s[i].text,
         cols |-> CASE format = "csv3" -> <<Some(s[i].amount)>>
                    [] format = "csv4" -> <<Some(s[i].amount), Some(Balance(s, i))>>
                    [] format = "csv5" ->
                         IF s[i].amount < 0
                         THEN <<Some(-s[i].amount), None, Some(Balance(s, i))>>
                         ELSE <<None, Some(s[i].amount), Some(Balance(s, i))>>]]

ParseCsv(raw) ==
    LET count == Len(raw[1].cols)
    IN  Map(LAMBDA row : IF count >= 3
                         THEN Line(row.day, row.text, "", row.cols[1], row.cols[2])
                         ELSE SignedLine(row.day, row.text, "", Value(row.cols[1])), raw)

Render(format, s) ==
    CASE format = "mt940" -> RenderMt940(s)
      [] format = "ofx" -> RenderOfx(s)
      [] OTHER -> RenderCsv(format, s)

(* parse_statement; a file without lines is refused. *)
ParseStatement(format, raw) ==
    CASE format = "mt940" -> ParseMt940(raw)
      [] format = "ofx" -> ParseOfx(raw)
      [] OTHER -> ParseCsv(raw)

-----------------------------------------------------------------------------
(* PDF text: candidate rows for review.  A line of the text is a narrative, *)
(* or a date with one, two or three trailing amounts and maybe a keyword.  *)

Hints == {"none", "credit", "debit"}

(* A flattened PDF prints the magnitude; the side is in the columns only. *)
RenderPdf(layout, hint, s) ==
    [i \in DOMAIN s |->
        LET a == s[i].amount
            b == Balance(s, i)
        IN  [day |-> s[i].day, hint |-> hint,
             amounts |-> CASE layout = "one" -> <<Abs(a)>>
                           [] layout = "two" -> <<Abs(a), b>>
                           [] layout = "three" -> IF a < 0 THEN <<-a, 0, b>> ELSE <<0, a, b>>]]

PdfRow(debit, credit, balance) == [debit |-> debit, credit |-> credit, balance |-> balance]

(* assign_side: the keyword, and without one money out. *)
AssignSide(amount, hint, balance) ==
    IF hint = "credit" THEN PdfRow(None, Some(Abs(amount)), balance)
                       ELSE PdfRow(Some(Abs(amount)), None, balance)

ParsePdfLine(line) ==
    LET a == line.amounts
    IN  CASE Len(a) = 3 -> PdfRow(NonZero(Some(a[1])), NonZero(Some(a[2])), Some(a[3]))
          [] Len(a) = 2 -> AssignSide(a[1], line.hint, Some(a[2]))
          [] Len(a) = 1 -> AssignSide(a[1], line.hint, None)

Sided(amount, delta, balance) ==
    IF delta >= 0 THEN PdfRow(None, Some(amount), balance) ELSE PdfRow(Some(amount), None, balance)

(* reconcile_running_balance: the balance column decides the side, whether *)
(* or not the magnitude agrees, and recovers an amount that is missing.    *)
ReconcileRow(st, row) ==
    LET delta == Value(row.balance) - Value(st.prev)
        amount == IF Moved(row) = 0 THEN Abs(delta) ELSE Abs(Moved(row))
    IN  IF row.balance = None THEN [st EXCEPT !.rows = Append(@, row)]
        ELSE [rows |-> Append(st.rows, IF st.prev = None \/ (delta = 0 /\ amount # 0) THEN row
                                       ELSE Sided(amount, delta, row.balance)),
              prev |-> row.balance]

ParseStatementText(lines) ==
    FoldLeft(ReconcileRow, [rows |-> <<>>, prev |-> None], Map(ParsePdfLine, lines)).rows

(* Spreadsheets: named columns, checked against the summary sheet.  A row  *)
(* whose date cannot be read is skipped.                                   *)
RenderXlsx(s, unread) ==
    [i \in DOMAIN s |->
        [day |-> IF i \in unread THEN None ELSE Some(s[i].day),
         credit |-> Some(IF s[i].amount > 0 THEN s[i].amount ELSE 0),
         debit |-> Some(IF s[i].amount < 0 THEN -s[i].amount ELSE 0)]]

ParseRange(rows) ==
    Map(LAMBDA r : PdfRow(NonZero(r.debit), NonZero(r.credit), None),
        SelectSeq(rows, LAMBDA r : r.day # None /\ NonZero(r.credit) \cup NonZero(r.debit) # {}))

PaidIn(rows) == Total(Map(LAMBDA r : IF r.credit # None THEN Value(r.credit) ELSE 0, rows))
PaidOut(rows) == Total(Map(LAMBDA r : IF r.debit # None THEN Value(r.debit) ELSE 0, rows))

(* StatementReconciliation.balanced, the summary being the bank's totals *)
SummaryBalanced(s, rows) ==
    LET sheet == ParseRange(RenderXlsx(s, {}))
    IN  PaidIn(rows) = PaidIn(sheet) /\ PaidOut(rows) = PaidOut(sheet)

-----------------------------------------------------------------------------
(* Import *)

BankMoves(m) ==
    /\ Len(account) < MaxMovements
    /\ account' = Append(account, m)
    /\ UNCHANGED <<imports, queue, inbox>>

NoFile == [format |-> "none", first |-> 0, raw |-> <<>>]

(* A file with the same content_hash *)
Imported(file) == \E f \in imports : f.format = file.format /\ f.raw = file.raw

(* The bank renders the movements first..now; the check for the content    *)
(* hash is on the pool.                                                    *)
StartImport(i, format, first) ==
    /\ inbox[i] = NoFile /\ first \in DOMAIN account
    /\ Cardinality(imports) < MaxImports
    /\ LET file == [format |-> format, first |-> first,
                    raw |-> Render(format, SubSeq(account, first, Len(account)))]
       IN  /\ file \notin imports
           /\ inbox' = [inbox EXCEPT ![i] = file]
    /\ UNCHANGED <<account, imports, queue>>

(* Mutation: equal lines of one file share a key. *)
DedupKeyOfLine(line, idx) == <<line, 0>>

(* The within-file position is part of the key. *)
DedupKey(line, idx) == <<line, idx>>

(* ON CONFLICT (dedup_key) DO NOTHING, line by line *)
Insert(q, row) == IF row.key \in {q[k].key : k \in DOMAIN q} THEN q ELSE Append(q, row)

Rows(file) ==
    LET lines == ParseStatement(file.format, file.raw)
    IN  [idx \in DOMAIN lines |-> [key |-> DedupKey(lines[idx], idx), line |-> lines[idx]]]

(* Header and lines commit together; the unique index on the content hash  *)
(* refuses the second of two imports that both passed the check.           *)
CommitImport(i) ==
    /\ inbox[i] # NoFile
    /\ \/ /\ ~Imported(inbox[i])
          /\ imports' = imports \cup {inbox[i]}
          /\ queue' = FoldLeft(Insert, queue, Rows(inbox[i]))
       \/ /\ Imported(inbox[i])
          /\ UNCHANGED <<imports, queue>>
    /\ inbox' = [inbox EXCEPT ![i] = NoFile]
    /\ UNCHANGED account

Init ==
    /\ account = <<>>
    /\ imports = {}
    /\ queue = <<>>
    /\ inbox = [i \in Importers |-> NoFile]

Next ==
    \/ \E m \in Movements : BankMoves(m)
    \/ \E i \in Importers : \/ \E f \in Formats, n \in 1..MaxMovements : StartImport(i, f, n)
                            \/ CommitImport(i)

Spec == Init /\ [][Next]_vars

-----------------------------------------------------------------------------
(* Properties *)

(* Every format reads back what the bank booked: as many lines, each with  *)
(* its day and its signed amount, whether or not movements have a text     *)
(* (parse_mt940, parse_ofx, parse_csv).                                    *)
FormatsAgree ==
    \A f \in {"mt940", "ofx", "csv3", "csv4", "csv5"} :
        account # <<>> =>
            LET lines == ParseStatement(f, Render(f, account))
            IN  /\ Len(lines) = Len(account)
                /\ \A k \in DOMAIN lines : /\ lines[k].day = account[k].day
                                           /\ Moved(lines[k]) = account[k].amount

(* A PDF with a balance column: whatever the keywords suggest, each row    *)
(* after the first gets the side and the amount the bank booked            *)
(* (reconcile_running_balance).                                            *)
PdfSides ==
    \A layout \in {"two", "three"}, hint \in Hints :
        LET rows == ParseStatementText(RenderPdf(layout, hint, account))
        IN  \A k \in 2..Len(rows) : Moved(rows[k]) = account[k].amount

(* The summary sheet of a workbook catches every row that was not read,    *)
(* whichever rows they are (parse_statement_xlsx_checked).                 *)
SummaryCatches ==
    \A unread \in SUBSET DOMAIN account :
        SummaryBalanced(account, ParseRange(RenderXlsx(account, unread))) <=> unread = {}

(* Statements of one format that all start at the same movement, imported  *)
(* in any order and by overlapping requests, put every movement into the   *)
(* queue once: a longer file adds only its new lines, and equal lines of   *)
(* one file are all kept (content_hash, dedup_key and their indexes).      *)
QueueComplete ==
    \A format \in Formats, first \in 1..MaxMovements :
        LET longest == Max({0} \cup {Len(Rows(f)) : f \in imports})
        IN  (imports # {} /\ \A f \in imports : f.format = format /\ f.first = first)
                => \A m \in Movements :
                      Cardinality({k \in DOMAIN queue : Moved(queue[k].line) = m.amount})
                    = Cardinality({k \in first..first + longest - 1 : account[k].amount = m.amount})

=============================================================================
