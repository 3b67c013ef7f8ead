---------------------------- MODULE Receivables ----------------------------
(***************************************************************************)
(* The receivables side of one tenant: invoices, customer payments, their  *)
(* application to invoices, credit notes, write-offs, and the M-Pesa and   *)
(* Paystack callbacks that turn a payer's charge into a payment.           *)
(*                                                                         *)
(* A worker is one request.  It reads rows on the pool, decides, and only  *)
(* then opens the transaction that writes; between the two every other     *)
(* request may commit (READ COMMITTED, no SELECT ... FOR UPDATE).  Inside   *)
(* the transaction the UPDATE of the invoice locks its row, and posting    *)
(* the journal entry locks the tenant's settings row, which holds the      *)
(* journal counter.  Module Ledger has create_and_post_in_tx itself; here  *)
(* it moves account balances when the transaction commits, or fails it.    *)
(*                                                                         *)
(* Amounts are whole units of the base currency, so the rounding tolerance *)
(* never applies and no exchange difference arises; debits are positive.   *)
(***************************************************************************)
EXTENDS Integers, FiniteSets, FiniteSetsExt

CONSTANTS
    Workers,        \* concurrent requests
    Invoices,       \* invoice ids
    Drafted,        \* those that are drafts initially
    Posted,         \* those that are posted initially
    Amounts,        \* amounts clients type
    OpeningGross,   \* gross total of the initial invoices
    OnAccount,      \* a payment customers hold unapplied initially, or 0
    CreditLimit,    \* the customer's credit limit
    Charges,        \* gateway references: M-Pesa receipts, Paystack references
    Mpesa,          \* those of M-Pesa
    Requests,       \* the kinds of request clients send
    MaxRequests,    \* bound: client requests in a behaviour
    MaxDeliveries,  \* bound: callbacks the gateways deliver
    MaxFaults,      \* bound: requests that fail for outside reasons
    Nobody,         \* no transaction holds the lock
    NoDoc,          \* a payment on account, applied to no invoice
    NoCharge        \* not paid through a gateway

Kinds == {"create", "edit", "delete", "post", "record", "apply", "creditNote", "writeOff"}
Statuses == {"absent", "deleted", "draft", "posted", "overdue", "partially_paid",
             "paid", "written_off"}
Answers == {"none", "recorded", "unknown"}

ASSUME ConstantsOK ==
    /\ Drafted \subseteq Invoices
    /\ Posted \subseteq Invoices \ Drafted
    /\ IsFiniteSet(Invoices)
    /\ Amounts \subseteq Nat \ {0}
    /\ OpeningGross \in Nat \ {0}
    /\ OnAccount \in Nat
    /\ CreditLimit \in Nat
    /\ Mpesa \subseteq Charges
    /\ Requests \subseteq Kinds
    /\ MaxRequests \in Nat /\ MaxDeliveries \in Nat /\ MaxFaults \in Nat
    /\ Nobody \notin Workers
    /\ NoDoc \notin Invoices
    /\ NoCharge \notin Charges

VARIABLES
    inv,        \* invoices: status, gross_total, amount_paid, balance_due, posted to the ledger
    payments,   \* payments: number, amount, applications, unapplied, gateway reference;
                \* history: what it cleared of receivables, and how many applications
                \* of it were written over another
    payNext,    \* sequences.payment_next
    acct,       \* general-ledger balances
    charge,     \* what payers have paid at the gateways
    claims,     \* mpesa_transactions and paystack_transactions
    acked,      \* how each charge's callback was answered with success, if it was
    rowLock,    \* the transaction holding each invoice row
    seqLock,    \* the transaction holding the settings row
    job,        \* what each worker is doing
    started, delivered, faults      \* the bounded counters

vars == <<inv, payments, payNext, acct, charge, claims, acked, rowLock, seqLock,
          job, started, delivered, faults>>
books == <<inv, payments, acct>>
gateway == <<charge, claims, acked>>
bounds == <<started, delivered, faults>>

(* A row of the table invoices on which nothing has been paid. *)
Billed(status, total, je) ==
    [status |-> status, gross |-> total, paid |-> 0, bal |-> total, je |-> je]
NoRow == Billed("absent", 0, FALSE)

(* A payment none of which is applied. *)
Unspent(n, a) == [num |-> n, amount |-> a, applied |-> 0, unapplied |-> a, ref |-> NoCharge,
                  spent |-> 0, overlaps |-> 0]
NoPayment == Unspent(0, 0)

NoClaim == -1       \* no row for the reference
Unlinked == 0       \* a row whose payment_id is null

Exists(i) == inv[i].status \notin {"absent", "deleted"}

-----------------------------------------------------------------------------
(* Workers *)

(* A request that continues at pc, for an amount on an invoice. *)
Job(pc, kind, i, a) ==
    [pc |-> pc, kind |-> kind, doc |-> i, amount |-> a, ref |-> NoCharge,
     num |-> 0, eff |-> 0, row |-> NoRow, pay |-> NoPayment]

Idle == Job("idle", "none", NoDoc, 0)

At(w, pc) == job[w].pc = pc
Goto(w, pc) == job' = [job EXCEPT ![w].pc = pc]

(* The locks a kind of request takes inside its transaction, in order:     *)
(* payments update the invoice and then post, the others post first.  (An  *)
(* application locks its payment's row before all of these, when it holds  *)
(* nothing anyone could wait for: that only delays it.)                    *)
Order(kind) ==
    CASE kind \in {"record", "apply"} -> <<"row", "seq", "commit">>
      [] kind \in {"post", "creditNote", "writeOff"} -> <<"seq", "row", "commit">>
      [] kind \in {"edit", "delete"} -> <<"row", "commit", "commit">>
      [] OTHER -> <<"commit", "commit", "commit">>

After(kind, pc) == IF pc = Order(kind)[1] THEN Order(kind)[2] ELSE Order(kind)[3]

(* Mutation: the settings row stays locked after the transaction. *)
UnlockRowsOnly(w) ==
    /\ rowLock' = [i \in Invoices |-> IF rowLock[i] = w THEN Nobody ELSE rowLock[i]]
    /\ seqLock' = seqLock

Unlock(w) ==
    /\ rowLock' = [i \in Invoices |-> IF rowLock[i] = w THEN Nobody ELSE rowLock[i]]
    /\ seqLock' = IF seqLock = w THEN Nobody ELSE seqLock

Finish(w) ==
    /\ Unlock(w)
    /\ job' = [job EXCEPT ![w] = Idle]

Start(w, j) ==
    /\ j.kind \in Requests
    /\ At(w, "idle")
    /\ started < MaxRequests
    /\ started' = started + 1
    /\ job' = [job EXCEPT ![w] = j]
    /\ UNCHANGED <<books, payNext, gateway, rowLock, seqLock, delivered, faults>>

-----------------------------------------------------------------------------
(* Requests, up to their first write. *)

(* create_invoice, under a fresh id. *)
StartCreate(w, i, a) ==
    /\ inv[i].status = "absent"
    /\ \A v \in Workers : job[v].doc # i
    /\ Start(w, Job("number", "create", i, a))

(* update_invoice_draft and delete_invoice_draft check the status they     *)
(* read, not the row they later write.                                     *)
StartEdit(w, i, a) ==
    /\ inv[i].status = "draft"
    /\ Start(w, Job("row", "edit", i, a))

StartDelete(w, i) ==
    /\ inv[i].status = "draft"
    /\ Start(w, Job("row", "delete", i, 0))

(* post_invoice: drafts of the customer count towards the credit limit.    *)
StartPost(w, i) ==
    /\ inv[i].status = "draft"
    /\ LET open == {k \in Invoices \ {i} : Exists(k) /\ inv[k].status # "paid"}
       IN  MapThenSumSet(LAMBDA k : inv[k].bal, open) + inv[i].gross =< CreditLimit
    /\ Start(w, Job("lines", "post", i, inv[i].gross))

(* record_payment of an amount, all of it meant for one invoice or none.    *)
StartRecord(w, i, a) ==
    Start(w, Job("number", "record", i, a))

(* apply_unapplied_payment reads the whole payment row. *)
StartApply(w, p, i, a) ==
    /\ a =< p.unapplied
    /\ Start(w, [Job("read", "apply", i, a) EXCEPT !.pay = p])

(* create_credit_note *)
StartCreditNote(w, i, a) ==
    /\ Exists(i)
    /\ inv[i].status # "draft"
    /\ a =< inv[i].bal
    /\ Start(w, [Job("number", "creditNote", i, a) EXCEPT !.row = inv[i]])

(* write_off_invoice *)
StartWriteOff(w, i, a) ==
    /\ Exists(i)
    /\ inv[i].status \notin {"draft", "written_off"}
    /\ a =< inv[i].bal
    /\ Start(w, [Job("seq", "writeOff", i, a) EXCEPT !.row = inv[i]])

-----------------------------------------------------------------------------
(* Gateways *)

(* The payer pays the outstanding balance: mpesa_stk_push, or              *)
(* paystack_initialize, which also records the reference.                  *)
PayAtGateway(c, i) ==
    /\ charge[c] = NoCharge
    /\ Exists(i)
    /\ inv[i].bal > 0
    /\ charge' = [charge EXCEPT ![c] = [doc |-> i, amount |-> inv[i].bal]]
    /\ claims' = [claims EXCEPT ![c] = IF c \in Mpesa THEN NoClaim ELSE Unlinked]
    /\ UNCHANGED <<books, payNext, acked, rowLock, seqLock, job, bounds>>

(* The gateway calls back until it is answered with success, and sometimes *)
(* after that.  An M-Pesa callback for an invoice that is gone fails.      *)
Deliver(w, c) ==
    /\ At(w, "idle")
    /\ charge[c] # NoCharge
    /\ c \in Mpesa => Exists(charge[c].doc)
    /\ delivered < MaxDeliveries
    /\ delivered' = delivered + 1
    /\ LET pc == IF c \in Mpesa THEN "claim" ELSE "lookup"
       IN  job' = [job EXCEPT ![w] =
                      [Job(pc, "record", charge[c].doc, charge[c].amount) EXCEPT !.ref = c]]
    /\ UNCHANGED <<books, payNext, gateway, rowLock, seqLock, started, faults>>

(* paystack_webhook takes an error of its first query for an unknown       *)
(* reference, and answers that with success.                               *)
Dismiss(c) ==
    /\ c \notin Mpesa
    /\ charge[c] # NoCharge
    /\ delivered < MaxDeliveries /\ delivered' = delivered + 1
    /\ faults < MaxFaults /\ faults' = faults + 1
    /\ acked' = [acked EXCEPT ![c] = IF @ = "none" THEN "unknown" ELSE @]
    /\ UNCHANGED <<books, payNext, charge, claims, rowLock, seqLock, job, started>>

(* record_mpesa_payment: INSERT INTO mpesa_transactions, unique receipt.   *)
Claim(w) ==
    /\ At(w, "claim")
    /\ LET c == job[w].ref
       IN  IF claims[c] = NoClaim
           THEN /\ claims' = [claims EXCEPT ![c] = Unlinked]
                /\ Goto(w, "number")
           ELSE /\ Goto(w, "lookup")
                /\ UNCHANGED claims
    /\ UNCHANGED <<books, payNext, charge, acked, rowLock, seqLock, bounds>>

(* Mutation: a claimed reference is taken for a recorded one. *)
LookupTrustsClaim(w) ==
    /\ At(w, "lookup")
    /\ acked' = [acked EXCEPT ![job[w].ref] = "recorded"]
    /\ Finish(w)
    /\ UNCHANGED <<books, payNext, charge, claims, bounds>>

(* A linked payment is returned; a claim without one is taken for the      *)
(* leftover of a crash, and the payment is recorded now.  Only Paystack's  *)
(* handler reads the invoice after the claim.                              *)
Lookup(w) ==
    /\ At(w, "lookup")
    /\ LET c == job[w].ref
           linked == claims[c] > Unlinked
           gone == c \notin Mpesa /\ ~Exists(job[w].doc)
       IN  /\ acked' = IF linked THEN [acked EXCEPT ![c] = "recorded"] ELSE acked
           /\ IF linked \/ gone THEN Finish(w)
              ELSE Goto(w, "number") /\ UNCHANGED <<rowLock, seqLock>>
    /\ UNCHANGED <<books, payNext, charge, claims, bounds>>

(* The payment is linked to its reference and the callback answered.  The  *)
(* link of an M-Pesa payment is best effort: an error there is ignored.    *)
Link(w) ==
    /\ At(w, "link")
    /\ LET c == job[w].ref
       IN  /\ acked' = [acked EXCEPT ![c] = "recorded"]
           /\ \/ /\ claims' = [claims EXCEPT ![c] = job[w].num]
                 /\ UNCHANGED faults
              \/ /\ c \in Mpesa
                 /\ faults < MaxFaults
                 /\ faults' = faults + 1
                 /\ UNCHANGED claims
    /\ Finish(w)
    /\ UNCHANGED <<books, payNext, charge, started, delivered>>

-----------------------------------------------------------------------------
(* Reads and locks *)

(* generate_payment_number and its like: an UPDATE of the settings row     *)
(* that commits by itself, so it waits for a posting transaction.          *)
TakeNumber(w) ==
    /\ At(w, "number")
    /\ seqLock = Nobody
    /\ IF job[w].kind = "record"
       THEN /\ payNext' = payNext + 1
            /\ job' = [job EXCEPT ![w].num = payNext, ![w].pc = "read"]
       ELSE /\ Goto(w, Order(job[w].kind)[1])
            /\ UNCHANGED payNext
    /\ UNCHANGED <<books, gateway, rowLock, seqLock, bounds>>

(* The part of the amount the invoice can take, as read before the         *)
(* transaction; negative for an invoice that is already overpaid.          *)
Effective(w) ==
    IF job[w].doc = NoDoc THEN 0
    ELSE IF job[w].amount =< inv[job[w].doc].bal THEN job[w].amount ELSE inv[job[w].doc].bal

(* The document a request reads must exist, and an application must clear  *)
(* something.                                                              *)
Readable(w) ==
    /\ job[w].doc # NoDoc => Exists(job[w].doc)
    /\ job[w].kind = "apply" => Effective(w) > 0

(* fetch_document_balance *)
Read(w) ==
    /\ At(w, "read")
    /\ Readable(w)
    /\ job' = [job EXCEPT ![w].eff = Effective(w),
                          ![w].pc = IF Effective(w) = 0 THEN "seq" ELSE "row"]
    /\ UNCHANGED <<books, payNext, gateway, rowLock, seqLock, bounds>>

(* post_invoice reads the lines after the header: what they add up to.     *)
ReadLines(w) ==
    /\ At(w, "lines")
    /\ job' = [job EXCEPT ![w].pc = "seq",
                   ![w].eff = IF Exists(job[w].doc) THEN inv[job[w].doc].gross ELSE 0]
    /\ UNCHANGED <<books, payNext, gateway, rowLock, seqLock, bounds>>

(* The UPDATE of the invoice. *)
LockRow(w) ==
    /\ At(w, "row")
    /\ rowLock[job[w].doc] = Nobody
    /\ rowLock' = [rowLock EXCEPT ![job[w].doc] = w]
    /\ Goto(w, After(job[w].kind, "row"))
    /\ UNCHANGED <<books, payNext, gateway, seqLock, bounds>>

(* create_and_post_in_tx accepts balanced lines only.  A payment has no    *)
(* line for a negative application; a posting whose header and lines were  *)
(* read on two sides of an edit does not add up.                           *)
Balanced(w) ==
    CASE job[w].kind = "record" -> job[w].eff >= 0
      [] job[w].kind = "post"   -> job[w].eff = job[w].amount
      [] OTHER                  -> TRUE

(* The journal number of create_and_post_in_tx. *)
LockSeq(w) ==
    /\ At(w, "seq")
    /\ Balanced(w)
    /\ seqLock = Nobody
    /\ seqLock' = w
    /\ Goto(w, After(job[w].kind, "seq"))
    /\ UNCHANGED <<books, payNext, gateway, rowLock, bounds>>

-----------------------------------------------------------------------------
(* Commits *)

Settled(r) == [r EXCEPT !.status = IF r.bal =< 0 THEN "paid" ELSE "partially_paid"]

(* amount_paid + x, balance_due - x of the row as it is now. *)
Reduced(r, x) == [r EXCEPT !.paid = @ + x, !.bal = @ - x]

(* An UPDATE of a row that is gone changes nothing. *)
Rewrite(i, r) == inv' = IF i # NoDoc /\ Exists(i) THEN [inv EXCEPT ![i] = r] ELSE inv

(* What is left once a payment is committed. *)
Answer(w) == IF job[w].ref = NoCharge THEN "reply" ELSE "link"

Move(bank, ar, unapplied) ==
    acct' = [bank |-> acct.bank + bank, ar |-> acct.ar + ar,
             unapplied |-> acct.unapplied + unapplied]

CommitCreate(w) ==
    /\ At(w, "commit") /\ job[w].kind = "create"
    /\ inv' = [inv EXCEPT ![job[w].doc] = Billed("draft", job[w].amount, FALSE)]
    /\ Finish(w)
    /\ UNCHANGED <<payments, acct, payNext, gateway, bounds>>

CommitEdit(w) ==
    /\ At(w, "commit") /\ job[w].kind = "edit"
    /\ LET i == job[w].doc
       IN  Rewrite(i, [inv[i] EXCEPT !.gross = job[w].amount, !.bal = job[w].amount])
    /\ Finish(w)
    /\ UNCHANGED <<payments, acct, payNext, gateway, bounds>>

CommitDelete(w) ==
    /\ At(w, "commit") /\ job[w].kind = "delete"
    /\ Rewrite(job[w].doc, Billed("deleted", 0, FALSE))
    /\ Finish(w)
    /\ UNCHANGED <<payments, acct, payNext, gateway, bounds>>

(* DR receivables / CR revenue and VAT *)
CommitPost(w) ==
    /\ At(w, "commit") /\ job[w].kind = "post"
    /\ LET i == job[w].doc
       IN  Rewrite(i, [inv[i] EXCEPT !.status = "posted", !.je = TRUE])
    /\ Move(0, job[w].amount, 0)
    /\ Finish(w)
    /\ UNCHANGED <<payments, payNext, gateway, bounds>>

(* Mutation: the unapplied part is forgotten. *)
CommitRecordForgetsExcess(w) ==
    /\ At(w, "commit") /\ job[w].kind = "record"
    /\ LET i == job[w].doc
           x == job[w].eff
           new == [num |-> job[w].num, amount |-> job[w].amount, applied |-> x,
                   unapplied |-> 0, ref |-> job[w].ref,
                   spent |-> x, overlaps |-> 0]
       IN  /\ payments' = payments \cup {new}
           /\ IF x = 0 THEN inv' = inv ELSE Rewrite(i, Settled(Reduced(inv[i], x)))
           /\ Move(job[w].amount, -x, x - job[w].amount)
           /\ job' = [job EXCEPT ![w].pc = IF x = 0 THEN Answer(w) ELSE "balance"]
    /\ Unlock(w)
    /\ UNCHANGED <<payNext, gateway, bounds>>

(* DR bank / CR receivables / CR unapplied payments; the invoice's balance *)
(* is not looked at again.                                                 *)
CommitRecord(w) ==
    /\ At(w, "commit") /\ job[w].kind = "record"
    /\ LET i == job[w].doc
           x == job[w].eff
           new == [num |-> job[w].num, amount |-> job[w].amount, applied |-> x,
                   unapplied |-> job[w].amount - x, ref |-> job[w].ref,
                   spent |-> x, overlaps |-> 0]
       IN  /\ payments' = payments \cup {new}
           /\ IF x = 0 THEN inv' = inv ELSE Rewrite(i, Settled(Reduced(inv[i], x)))
           /\ Move(job[w].amount, -x, x - job[w].amount)
           /\ job' = [job EXCEPT ![w].pc = IF x = 0 THEN Answer(w) ELSE "balance"]
    /\ Unlock(w)
    /\ UNCHANGED <<payNext, gateway, bounds>>

(* The row p of a payment after x more of it is applied, written as        *)
(* computed from the row old that was read, over whatever another          *)
(* application has made of it since.                                       *)
Split(p, old, x) == [p EXCEPT !.applied = old.applied + x,
                              !.unapplied = old.unapplied - x,
                              !.spent = p.spent + x,
                              !.overlaps = IF p = old THEN p.overlaps ELSE p.overlaps + 1]

(* Mutation: the entry debits the bank, as that of a new payment does. *)
CommitApplyFromBank(w) ==
    /\ At(w, "commit") /\ job[w].kind = "apply"
    /\ LET i == job[w].doc
           x == job[w].eff
           old == job[w].pay
       IN  /\ payments' = {IF p.num = old.num THEN Split(p, old, x) ELSE p : p \in payments}
           /\ Rewrite(i, Settled(Reduced(inv[i], x)))
           /\ Move(x, -x, 0)
    /\ Goto(w, "balance")
    /\ Unlock(w)
    /\ UNCHANGED <<payNext, gateway, bounds>>

(* DR unapplied payments / CR receivables; the payment and the document  *)
(* change with the entry.                                                  *)
CommitApply(w) ==
    /\ At(w, "commit") /\ job[w].kind = "apply"
    /\ LET i == job[w].doc
           x == job[w].eff
           old == job[w].pay
       IN  /\ payments' = {IF p.num = old.num THEN Split(p, old, x) ELSE p : p \in payments}
           /\ Rewrite(i, Settled(Reduced(inv[i], x)))
           /\ Move(0, -x, x)
    /\ Goto(w, "balance")
    /\ Unlock(w)
    /\ UNCHANGED <<payNext, gateway, bounds>>

(* Mutation: only the balance is taken from the row that was read. *)
CommitCreditNoteHalfStale(w) ==
    /\ At(w, "commit") /\ job[w].kind = "creditNote"
    /\ LET i == job[w].doc
       IN  Rewrite(i, Settled([inv[i] EXCEPT !.bal = job[w].row.bal - job[w].amount,
                                             !.paid = @ + job[w].amount]))
    /\ Move(0, -job[w].amount, 0)
    /\ Finish(w)
    /\ UNCHANGED <<payments, payNext, gateway, bounds>>

(* DR revenue and VAT / CR receivables; the invoice gets the balance, paid *)
(* amount and status computed from the row that was read.  The credit note *)
(* itself is an invoice row of its own type that owes nothing.             *)
CommitCreditNote(w) ==
    /\ At(w, "commit") /\ job[w].kind = "creditNote"
    /\ LET i == job[w].doc
           new == Reduced(job[w].row, job[w].amount)
       IN  Rewrite(i, Settled([inv[i] EXCEPT !.bal = new.bal, !.paid = new.paid]))
    /\ Move(0, -job[w].amount, 0)
    /\ Finish(w)
    /\ UNCHANGED <<payments, payNext, gateway, bounds>>

(* Mutation: the journal entry is posted for the whole balance. *)
CommitWriteOffAll(w) ==
    /\ At(w, "commit") /\ job[w].kind = "writeOff"
    /\ LET i == job[w].doc
           left == job[w].row.bal - job[w].amount
       IN  Rewrite(i, [Reduced(inv[i], job[w].amount) EXCEPT
                          !.status = IF left =< 0 THEN "written_off" ELSE job[w].row.status])
    /\ Move(0, -job[w].row.bal, 0)
    /\ Finish(w)
    /\ UNCHANGED <<payments, payNext, gateway, bounds>>

(* DR bad debt / CR receivables; the status is the one that was read.      *)
CommitWriteOff(w) ==
    /\ At(w, "commit") /\ job[w].kind = "writeOff"
    /\ LET i == job[w].doc
           left == job[w].row.bal - job[w].amount
       IN  Rewrite(i, [Reduced(inv[i], job[w].amount) EXCEPT
                          !.status = IF left =< 0 THEN "written_off" ELSE job[w].row.status])
    /\ Move(0, -job[w].amount, 0)
    /\ Finish(w)
    /\ UNCHANGED <<payments, payNext, gateway, bounds>>

-----------------------------------------------------------------------------
(* After the commit of a payment: the balance is read again for            *)
(* cancel_reminders_on_payment, which then reads the status.               *)

ReadBalance(w) ==
    /\ At(w, "balance")
    /\ LET i == job[w].doc
       IN  job' = [job EXCEPT ![w].eff = IF Exists(i) THEN inv[i].bal ELSE 0,
                              ![w].pc = "cancel"]
    /\ UNCHANGED <<books, payNext, gateway, rowLock, seqLock, bounds>>

CancelReminders(w) ==
    /\ At(w, "cancel")
    /\ Goto(w, IF inv[job[w].doc].status = "overdue" THEN "restate" ELSE Answer(w))
    /\ UNCHANGED <<books, payNext, gateway, rowLock, seqLock, bounds>>

(* The overdue invoice becomes paid or partially paid by the balance read  *)
(* before.                                                                 *)
Restate(w) ==
    /\ At(w, "restate")
    /\ rowLock[job[w].doc] = Nobody
    /\ LET i == job[w].doc
       IN  Rewrite(i, [inv[i] EXCEPT
                          !.status = IF job[w].eff =< 0 THEN "paid" ELSE "partially_paid"])
    /\ Goto(w, Answer(w))
    /\ UNCHANGED <<payments, acct, payNext, gateway, rowLock, seqLock, bounds>>

Reply(w) ==
    /\ At(w, "reply")
    /\ Finish(w)
    /\ UNCHANGED <<books, payNext, gateway, bounds>>

-----------------------------------------------------------------------------
(* Endings other than success, and the scheduler. *)

(* An early return with an error. *)
Refuse(w) ==
    /\ \/ At(w, "read") /\ ~Readable(w)
       \/ At(w, "seq") /\ ~Balanced(w)
    /\ Finish(w)
    /\ UNCHANGED <<books, payNext, gateway, bounds>>

(* The ledger refuses the entry, stock is missing, the process dies or the *)
(* client goes away: the transaction rolls back, what had committed stays. *)
Fail(w) ==
    /\ ~At(w, "idle")
    /\ faults < MaxFaults
    /\ faults' = faults + 1
    /\ Finish(w)
    /\ UNCHANGED <<books, payNext, gateway, started, delivered>>

(* w holds an invoice row and waits for the settings row, whose holder     *)
(* waits for that invoice row.                                             *)
Deadlocked(w, v) ==
    /\ At(w, "seq") /\ seqLock = v
    /\ At(v, "row") /\ rowLock[job[v].doc] = w

(* Mutation: the database does not look for deadlocks. *)
NoDeadlockDetector(w) ==
    /\ \E v \in Workers : Deadlocked(w, v) \/ Deadlocked(v, w)
    /\ UNCHANGED vars

(* Postgres finds the cycle after deadlock_timeout and rolls one back.     *)
DeadlockVictim(w) ==
    /\ \E v \in Workers : Deadlocked(w, v) \/ Deadlocked(v, w)
    /\ Finish(w)
    /\ UNCHANGED <<books, payNext, gateway, bounds>>

(* process_invoice_reminders_for marks what is past due, in one UPDATE     *)
(* that waits for the rows it matches.                                     *)
MarkOverdue ==
    LET late == {i \in Invoices : inv[i].status = "posted" /\ inv[i].bal > 0}
    IN  /\ late # {}
        /\ \A i \in late : rowLock[i] = Nobody
        /\ inv' = [i \in Invoices |-> IF i \in late THEN [inv[i] EXCEPT !.status = "overdue"]
                                      ELSE inv[i]]
        /\ UNCHANGED <<payments, acct, payNext, gateway, rowLock, seqLock, job, bounds>>

-----------------------------------------------------------------------------
Init ==
    /\ inv = [i \in Invoices |-> IF i \in Posted THEN Billed("posted", OpeningGross, TRUE)
                                  ELSE IF i \in Drafted THEN Billed("draft", OpeningGross, FALSE)
                                  ELSE NoRow]
    /\ payments = IF OnAccount = 0 THEN {} ELSE {Unspent(1, OnAccount)}
    /\ payNext = 2
    /\ acct = [bank |-> OnAccount, ar |-> OpeningGross * Cardinality(Posted),
               unapplied |-> -OnAccount]
    /\ charge = [c \in Charges |-> NoCharge]
    /\ claims = [c \in Charges |-> NoClaim]
    /\ acked = [c \in Charges |-> "none"]
    /\ rowLock = [i \in Invoices |-> Nobody]
    /\ seqLock = Nobody
    /\ job = [w \in Workers |-> Idle]
    /\ started = 0 /\ delivered = 0 /\ faults = 0

Request(w) ==
    \/ \E i \in Invoices, a \in Amounts :
          \/ StartCreate(w, i, a)
          \/ StartEdit(w, i, a)
          \/ StartCreditNote(w, i, a)
          \/ StartWriteOff(w, i, a)
          \/ \E p \in payments : StartApply(w, p, i, a)
    \/ \E i \in Invoices : StartDelete(w, i) \/ StartPost(w, i)
    \/ \E i \in Invoices \cup {NoDoc}, a \in Amounts : StartRecord(w, i, a)

Commit(w) ==
    \/ CommitCreate(w) \/ CommitEdit(w) \/ CommitDelete(w) \/ CommitPost(w)
    \/ CommitRecord(w) \/ CommitApply(w) \/ CommitCreditNote(w) \/ CommitWriteOff(w)

Step(w) ==
    \/ Claim(w) \/ Lookup(w) \/ Link(w)
    \/ TakeNumber(w) \/ Read(w) \/ ReadLines(w) \/ LockRow(w) \/ LockSeq(w)
    \/ Commit(w)
    \/ ReadBalance(w) \/ CancelReminders(w) \/ Restate(w) \/ Reply(w)
    \/ Refuse(w) \/ DeadlockVictim(w)

(* Nothing is left to serve, whether or not the clients are done. *)
Quiesced ==
    /\ \A w \in Workers : At(w, "idle")
    /\ UNCHANGED vars

Next ==
    \/ \E w \in Workers : Request(w) \/ Step(w) \/ Fail(w)
    \/ \E w \in Workers, c \in Charges : Deliver(w, c)
    \/ \E c \in Charges, i \in Invoices : PayAtGateway(c, i)
    \/ \E c \in Charges : Dismiss(c)
    \/ MarkOverdue
    \/ Quiesced

(* A started request keeps running, and a gateway keeps calling back until *)
(* it is answered.                                                         *)
Spec ==
    /\ Init /\ [][Next]_vars
    /\ \A w \in Workers : WF_vars(Step(w))
    /\ \A c \in Charges : WF_vars(acked[c] = "none" /\ \E w \in Workers : Deliver(w, c))

-----------------------------------------------------------------------------
(* Properties *)

Pcs == {"idle", "number", "row", "seq", "commit", "lines", "read", "claim", "lookup",
        "balance", "cancel", "restate", "reply", "link"}

(* Rows and requests have the shapes of the tables and the handlers, and   *)
(* only a transaction that is under way holds a lock.                      *)
TypeOK ==
    /\ \A i \in Invoices : /\ inv[i].status \in Statuses
                            /\ inv[i].gross \in Nat /\ inv[i].bal \in Int
                            /\ rowLock[i] \in Workers \cup {Nobody}
                            /\ rowLock[i] # Nobody => job[rowLock[i]].pc \in {"seq", "commit"}
    /\ \A p \in payments : p.num \in 1..(payNext - 1)
    /\ \A c \in Charges : claims[c] \in NoClaim..(payNext - 1)
    /\ \A w \in Workers : job[w].pc \in Pcs
    /\ seqLock # Nobody => job[seqLock].pc \in {"row", "commit"}

(* What an invoice bills is what has been settled plus what is still due,  *)
(* also when a credit note overwrites a concurrent payment: both columns   *)
(* are lost together (record_payment, apply_unapplied_payment,             *)
(* create_credit_note, write_off_invoice).                                 *)
InvoiceConserved == \A i \in Invoices : inv[i].gross = inv[i].paid + inv[i].bal

(* A payment row splits its amount into applications and credit, and the   *)
(* credit is never negative; and as long as no two applications of it      *)
(* overlapped, what it cleared of receivables is what its row says         *)
(* (record_payment, apply_unapplied_payment).                              *)
PaymentConserved ==
    \A p \in payments :
        /\ p.amount = p.applied + p.unapplied /\ p.unapplied >= 0
        /\ p.overlaps = 0 => p.spent = p.applied

(* The bank account has received exactly the payments on record, across    *)
(* failures between any two steps (record_payment's transaction).          *)
BankMatchesPayments == acct.bank = MapThenSumSet(LAMBDA p : p.amount, payments)

(* A gateway is told a payment is recorded only once it is, so a crash at  *)
(* any point is followed by another callback (record_mpesa_payment,        *)
(* record_paystack_payment).                                               *)
AckedIsRecorded ==
    \A c \in Charges : acked[c] = "recorded" => \E p \in payments : p.ref = c

(* Every request ends, also when a payment and a posting on the same       *)
(* invoice take their two locks in opposite orders.                        *)
RequestsTerminate == \A w \in Workers : ~At(w, "idle") ~> At(w, "idle")

(* The receivables account is what posted invoices owe, less what was      *)
(* prepaid on invoices never posted.                                       *)
ArReconciles ==
    acct.ar = MapThenSumSet(LAMBDA i : IF inv[i].je THEN inv[i].bal ELSE -inv[i].paid, Invoices)

(* The unapplied-payments account is the credit customers hold. *)
UnappliedReconciles == acct.unapplied = -MapThenSumSet(LAMBDA p : p.unapplied, payments)

(* A payer's charge reaches the books, unless its invoice was deleted or   *)
(* the webhook dismissed it: callbacks that fail at any step are repeated, *)
(* and a claim left behind does not stop the next one.                     *)
ChargesRecorded ==
    \A c \in Charges, i \in Invoices :
        charge[c] # NoCharge /\ charge[c].doc = i ~>
            (\E p \in payments : p.ref = c) \/ ~Exists(i) \/ acked[c] = "unknown"

(* "duplicate Daraja callbacks (delivered at-least-once) cannot create     *)
(* duplicate payments", "Idempotent on the Paystack reference".            *)
OnePaymentPerCharge ==
    \A p, q \in payments : p.ref = q.ref /\ p.ref # NoCharge => p = q

(* "Unknown reference - ack so Paystack stops retrying": only a charge     *)
(* whose reference is not on file is dismissed.                            *)
DismissedIsUnknown ==
    \A c \in Charges : acked[c] = "unknown" => claims[c] = NoClaim
=============================================================================
