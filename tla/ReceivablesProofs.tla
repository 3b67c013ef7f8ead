------------------------- MODULE ReceivablesProofs -------------------------
(***************************************************************************)
(* Module Receivables for every number of requests, invoices, charges and  *)
(* faults.  The first part: a gateway is only told success for money on    *)
(* record, and a payment's amount is what was applied of it plus the       *)
(* credit that is left.  The second is about the sub-ledgers and the       *)
(* ledger accounts: the bank holds the payments on record, an invoice is   *)
(* what was settled plus what is due, and the receivables and unapplied-   *)
(* payments accounts are what the invoices and the payments add up to.     *)
(* The first of these holds however requests interleave.  The others are   *)
(* proved for requests that run one at a time, and for any interleaving of *)
(* the requests that do not write what they read before their transaction. *)
(***************************************************************************)
EXTENDS Receivables, TLAPS, SumProofs

Row == [status: Statuses, gross: Int, paid: Int, bal: Int, je: BOOLEAN]
PaymentRow == [num: Nat, amount: Int, applied: Int, unapplied: Int,
               ref: Charges \cup {NoCharge}, spent: Int, overlaps: Nat]
JobRecord == [pc: Pcs, kind: Kinds \cup {"none"}, doc: Invoices \cup {NoDoc}, amount: Int,
              ref: Charges \cup {NoCharge}, num: Nat, eff: Int, row: Row, pay: PaymentRow]
ChargeRecord == [doc: Invoices, amount: Int]

(* The shapes of the variables. *)
Shapes ==
    /\ inv \in [Invoices -> Row]
    /\ payments \subseteq PaymentRow
    /\ payNext \in Nat
    /\ charge \in [Charges -> ChargeRecord \cup {NoCharge}]
    /\ claims \in [Charges -> Int]
    /\ acked \in [Charges -> Answers]
    /\ job \in [Workers -> JobRecord]

Conserved(p) == /\ p.amount = p.applied + p.unapplied /\ p.unapplied >= 0
                /\ p.overlaps = 0 => p.spent = p.applied

(* A payment that has its number and is not committed yet. *)
Pending(j) == j.kind = "record" /\ j.pc \in {"read", "row", "seq", "commit"}

(* What a request knows of the payments ps, of which the next is number n: *)
(* the callback of a committed payment finds it; the number of a pending   *)
(* payment is its own; an application was cut from the credit it read, and *)
(* only the split of that payment has changed since.                       *)
Sound(j, ps, n) ==
    /\ j.kind # "record" => j.ref = NoCharge
    /\ j.pc \in {"balance", "cancel", "restate", "link"} /\ j.ref # NoCharge
         => \E p \in ps : p.ref = j.ref
    /\ Pending(j) => j.num < n /\ \A p \in ps : p.num # j.num
    /\ j.kind \in {"record", "apply"} /\ j.pc \in {"row", "seq", "commit"}
         => j.eff =< j.amount /\ (j.doc = NoDoc => j.eff = 0)
    /\ j.doc = NoDoc => j.amount >= 0 /\ j.pc # "balance"
    /\ j.pc \in {"number", "claim", "lookup"} => j.kind \in {"record", "create", "creditNote"}
    /\ j.pc = "lines" => j.kind = "post" /\ j.doc # NoDoc
    /\ j.kind = "apply" => /\ j.doc # NoDoc
                           /\ Conserved(j.pay)
                           /\ j.amount =< j.pay.unapplied
                           /\ \E p \in ps : p.num = j.pay.num
                           /\ \A p \in ps : p.num = j.pay.num => p.amount = j.pay.amount

(* A reference is answered or linked only when its payment exists. *)
Answered ==
    \A c \in Charges : acked[c] = "recorded" \/ claims[c] > Unlinked => \E p \in payments : p.ref = c

NumbersDiffer ==
    /\ \A p \in payments : p.num < payNext
    /\ \A p, q \in payments : p.num = q.num => p.amount = q.amount
    /\ \A v, w \in Workers :
          v # w /\ Pending(job[v]) /\ Pending(job[w]) => job[v].num # job[w].num

PaymentsInv ==
    /\ Shapes
    /\ \A w \in Workers : Sound(job[w], payments, payNext)
    /\ Answered
    /\ NumbersDiffer
    /\ \A p \in payments : Conserved(p)
-----------------------------------------------------------------------------
(* The record of a worker that does nothing is sound. *)
LEMMA IdleSound ==
  /\ Idle \in JobRecord
  /\ Idle.pc = "idle" /\ Idle.kind = "none" /\ Idle.ref = NoCharge
  /\ \A ps, n : Sound(Idle, ps, n)
  /\ ~Pending(Idle)
<1>1. Idle \in JobRecord
  BY DEF Idle, Job, JobRecord, Pcs, Kinds, Row, PaymentRow, Billed, NoRow, Unspent, NoPayment,
         Statuses
<1> QED BY <1>1 DEF Idle, Job, Sound, Pending

(* Initially at most the payment on account exists, and nothing is paid.   *)
LEMMA PaymentsInit == Init => PaymentsInv
<1> SUFFICES ASSUME Init PROVE PaymentsInv
  OBVIOUS
<1> USE ConstantsOK DEF ConstantsOK
<1>1. inv \in [Invoices -> Row]
  BY DEF Init, Row, Billed, NoRow, Statuses
<1>2. payments \subseteq PaymentRow
  BY DEF Init, PaymentRow, Unspent
<1>3. Shapes
  <2>1. claims \in [Charges -> Int] /\ acked \in [Charges -> Answers] /\ payNext \in Nat
    BY DEF Init, NoClaim, Answers
  <2>2. charge \in [Charges -> ChargeRecord \cup {NoCharge}]
    BY DEF Init
  <2>3. job \in [Workers -> JobRecord]
    BY IdleSound DEF Init
  <2> QED BY <1>1, <1>2, <2>1, <2>2, <2>3 DEF Shapes
<1>4. \A w \in Workers : job[w] = Idle
  BY DEF Init
<1>5. \A w \in Workers : Sound(job[w], payments, payNext) /\ ~Pending(job[w])
  BY <1>4, IdleSound
<1>6. Answered
  BY DEF Init, Answered, NoClaim, Unlinked
<1>7. NumbersDiffer
  BY <1>5 DEF Init, NumbersDiffer, Unspent
<1>8. \A p \in payments : Conserved(p)
  BY DEF Init, Conserved, Unspent
<1> QED BY <1>3, <1>5, <1>6, <1>7, <1>8 DEF PaymentsInv

(* A step of one worker that leaves the payments alone: what it knows of   *)
(* them stays true, and a number it takes is a new one.                    *)
LEMMA MoveStep ==
  ASSUME PaymentsInv, NEW w \in Workers, NEW j \in JobRecord,
         job' = [job EXCEPT ![w] = j],
         payments' = payments, payNext' \in Nat, payNext' >= payNext,
         inv' \in [Invoices -> Row],
         charge' = charge,
         claims' \in [Charges -> Int], acked' \in [Charges -> Answers],
         Answered',
         Sound(j, payments, payNext'),
         Pending(j) => (Pending(job[w]) /\ j.num = job[w].num) \/ j.num >= payNext
  PROVE  PaymentsInv'
<1> USE DEF PaymentsInv
<1>1. job \in [Workers -> JobRecord] /\ payNext \in Nat /\ payments \subseteq PaymentRow
  BY DEF Shapes
<1>2. \A v \in Workers : job'[v] = IF v = w THEN j ELSE job[v]
  BY <1>1
<1>3. Shapes'
  BY <1>1 DEF Shapes
<1>4. \A v \in Workers : Sound(job'[v], payments', payNext')
  <2> SUFFICES ASSUME NEW v \in Workers, v # w
               PROVE  Sound(job[v], payments, payNext')
    BY <1>2
  <2>1. Sound(job[v], payments, payNext)
    OBVIOUS
  <2>2. job[v].num \in Nat
    BY <1>1 DEF JobRecord
  <2> QED BY <1>1, <2>1, <2>2 DEF Sound
<1>5. NumbersDiffer'
  <2>1. \A p \in payments : p.num < payNext' /\ p.num \in Nat
    BY <1>1 DEF NumbersDiffer, PaymentRow
  <2>2. \A v \in Workers : job[v].num \in Nat /\ (Pending(job[v]) => job[v].num < payNext)
    BY <1>1 DEF JobRecord, Sound
  <2>3. j.num \in Nat
    BY DEF JobRecord
  <2>4. \A u, v \in Workers :
           u # v /\ Pending(job'[u]) /\ Pending(job'[v]) => job'[u].num # job'[v].num
    BY <1>1, <1>2, <2>2, <2>3 DEF NumbersDiffer
  <2> QED BY <2>1, <2>4 DEF NumbersDiffer
<1> QED BY <1>3, <1>4, <1>5

(* The end of a request that leaves payments, claims and answers alone.    *)
LEMMA EndStep ==
  ASSUME PaymentsInv, NEW w \in Workers,
         job' = [job EXCEPT ![w] = Idle],
         inv' \in [Invoices -> Row],
         UNCHANGED <<payments, payNext, charge, claims>>,
         acked' \in [Charges -> Answers], Answered'
  PROVE  PaymentsInv'
<1>1. /\ payNext' \in Nat /\ payNext' >= payNext
      /\ claims' \in [Charges -> Int]
      /\ payments' = payments /\ charge' = charge
  BY DEF PaymentsInv, Shapes
<1>2. Sound(Idle, payments, payNext') /\ Idle \in JobRecord /\ ~Pending(Idle)
  BY IdleSound
<1> QED BY <1>1, <1>2, MoveStep

(* A rewritten row is a row. *)
LEMMA RewriteShape ==
  ASSUME Shapes, NEW i \in Invoices \cup {NoDoc}, NEW r,
         i \in Invoices => r \in Row,
         Rewrite(i, r)
  PROVE  inv' \in [Invoices -> Row]
BY ConstantsOK DEF ConstantsOK, Shapes, Rewrite

(* A step of one worker that changes nothing but its own record and        *)
(* invoices.                                                               *)
LEMMA JobStep ==
  ASSUME PaymentsInv, NEW w \in Workers, NEW j \in JobRecord,
         job' = [job EXCEPT ![w] = j],
         inv' \in [Invoices -> Row],
         UNCHANGED <<payments, payNext, gateway>>,
         Sound(j, payments, payNext),
         Pending(j) => Pending(job[w]) /\ j.num = job[w].num
  PROVE  PaymentsInv'
<1>1. /\ payNext' \in Nat /\ payNext' >= payNext /\ payNext' = payNext
      /\ claims' \in [Charges -> Int] /\ acked' \in [Charges -> Answers]
      /\ payments' = payments /\ charge' = charge
  BY DEF PaymentsInv, Shapes, gateway
<1>2. Answered'
  BY DEF PaymentsInv, Answered, gateway
<1>3. Sound(j, payments, payNext')
  BY <1>1
<1> QED BY <1>1, <1>2, <1>3, MoveStep

(* The same when the worker just goes on to pc.                            *)
LEMMA GotoStep ==
  ASSUME PaymentsInv, NEW w \in Workers, NEW pc \in Pcs,
         Goto(w, pc),
         inv' \in [Invoices -> Row],
         UNCHANGED <<payments, payNext, gateway>>,
         pc \in {"balance", "cancel", "restate", "link"} /\ job[w].ref # NoCharge
           => \E p \in payments : p.ref = job[w].ref,
         pc \in {"read", "row", "seq", "commit"} => job[w].pc \in {"row", "seq", "commit"}
                                                    \/ job[w].kind \in {"create", "creditNote"},
         pc \notin {"balance", "lines"},
         pc \in {"number", "claim", "lookup"} => job[w].kind \in {"record", "create", "creditNote"}
  PROVE  PaymentsInv'
<1> DEFINE j == [job[w] EXCEPT !.pc = pc]
<1>1. job \in [Workers -> JobRecord] /\ job[w] \in JobRecord
  BY DEF PaymentsInv, Shapes
<1>2. job' = [job EXCEPT ![w] = j]
  BY DEF Goto
<1>3. /\ j \in JobRecord
      /\ j.pc = pc /\ j.kind = job[w].kind /\ j.ref = job[w].ref /\ j.num = job[w].num
      /\ j.eff = job[w].eff /\ j.amount = job[w].amount /\ j.doc = job[w].doc
      /\ j.pay = job[w].pay
  BY <1>1 DEF JobRecord
<1>4. Sound(job[w], payments, payNext)
  BY DEF PaymentsInv
<1>5. Pending(j) => Pending(job[w])
  BY <1>3 DEF Pending
<1> HIDE DEF j
<1>6. Sound(j, payments, payNext)
  BY <1>3, <1>4, <1>5 DEF Sound, Pending
<1> QED BY <1>2, <1>3, <1>5, <1>6, JobStep

-----------------------------------------------------------------------------
(* What a new request is made of. *)
LEMMA JobShape ==
  ASSUME NEW pc \in Pcs, NEW kind \in Kinds, NEW i \in Invoices \cup {NoDoc}, NEW a \in Int
  PROVE  /\ Job(pc, kind, i, a) \in JobRecord
         /\ Job(pc, kind, i, a).pc = pc /\ Job(pc, kind, i, a).kind = kind
         /\ Job(pc, kind, i, a).doc = i /\ Job(pc, kind, i, a).amount = a
         /\ Job(pc, kind, i, a).ref = NoCharge
<1>1. NoRow \in Row /\ NoPayment \in PaymentRow
  BY DEF NoRow, Billed, Row, Statuses, NoPayment, Unspent, PaymentRow
<1> QED BY <1>1 DEF Job, JobRecord

(* A started request knows nothing false of the payments.                  *)
LEMMA StartStep ==
  ASSUME PaymentsInv, NEW w \in Workers, NEW j \in JobRecord,
         Start(w, j), Sound(j, payments, payNext), ~Pending(j)
  PROVE  PaymentsInv'
<1>1. inv' \in [Invoices -> Row]
  BY DEF Start, books, PaymentsInv, Shapes
<1>2. job' = [job EXCEPT ![w] = j] /\ UNCHANGED <<payments, payNext, gateway>>
  BY DEF Start, books
<1> QED BY <1>1, <1>2, JobStep

(* Each kind of client request. *)
LEMMA RequestStep == ASSUME PaymentsInv, NEW w \in Workers, Request(w) PROVE PaymentsInv'
<1> USE ConstantsOK DEF ConstantsOK
<1>0. Shapes /\ \A a \in Amounts : a \in Int /\ a >= 0
  BY DEF PaymentsInv
<1>1. ASSUME NEW i \in Invoices, NEW a \in Amounts, StartCreate(w, i, a) PROVE PaymentsInv'
  <2>0. "number" \in Pcs /\ "create" \in Kinds
    BY DEF Pcs, Kinds
  <2>1. Job("number", "create", i, a) \in JobRecord
    BY <1>0, <2>0, JobShape
  <2>2. Sound(Job("number", "create", i, a), payments, payNext)
    BY <1>0 DEF Sound, Job, Pending
  <2> QED BY <1>1, <2>1, <2>2, StartStep DEF StartCreate, Pending, Job
<1>2. ASSUME NEW i \in Invoices, NEW a \in Amounts, StartEdit(w, i, a) PROVE PaymentsInv'
  <2>1. Job("row", "edit", i, a) \in JobRecord
    BY <1>0, JobShape DEF Pcs, Kinds
  <2>2. Sound(Job("row", "edit", i, a), payments, payNext)
    BY <1>0 DEF Sound, Job, Pending
  <2> QED BY <1>2, <2>1, <2>2, StartStep DEF StartEdit, Pending, Job
<1>3. ASSUME NEW i \in Invoices, StartDelete(w, i) PROVE PaymentsInv'
  <2>1. Job("row", "delete", i, 0) \in JobRecord
    BY <1>0, JobShape DEF Pcs, Kinds
  <2>2. Sound(Job("row", "delete", i, 0), payments, payNext)
    BY <1>0 DEF Sound, Job, Pending
  <2> QED BY <1>3, <2>1, <2>2, StartStep DEF StartDelete, Pending, Job
<1>4. ASSUME NEW i \in Invoices, StartPost(w, i) PROVE PaymentsInv'
  <2>0. inv[i].gross \in Int /\ "lines" \in Pcs /\ "post" \in Kinds
    BY <1>0 DEF Shapes, Row, Pcs, Kinds
  <2>1. Job("lines", "post", i, inv[i].gross) \in JobRecord
    BY <2>0, JobShape
  <2>2. Sound(Job("lines", "post", i, inv[i].gross), payments, payNext)
    BY DEF Sound, Job, Pending
  <2> QED BY <1>4, <2>1, <2>2, StartStep DEF StartPost, Pending, Job
<1>5. ASSUME NEW i \in Invoices \cup {NoDoc}, NEW a \in Amounts, StartRecord(w, i, a)
      PROVE  PaymentsInv'
  <2>1. Job("number", "record", i, a) \in JobRecord
    BY <1>0, JobShape DEF Pcs, Kinds
  <2>2. Sound(Job("number", "record", i, a), payments, payNext)
    BY <1>0 DEF Sound, Job, Pending
  <2> QED BY <1>5, <2>1, <2>2, StartStep DEF StartRecord, Pending, Job
<1>6. ASSUME NEW p \in payments, NEW i \in Invoices, NEW a \in Amounts, StartApply(w, p, i, a)
      PROVE  PaymentsInv'
  <2> DEFINE j == [Job("read", "apply", i, a) EXCEPT !.pay = p]
  <2>0. /\ Job("read", "apply", i, a) \in JobRecord
        /\ p \in PaymentRow /\ Conserved(p) /\ a =< p.unapplied
        /\ \A q \in payments : q.num = p.num => q.amount = p.amount
    BY <1>0, <1>6, JobShape DEF Pcs, Kinds, Shapes, PaymentsInv, NumbersDiffer, StartApply
  <2>1. /\ j \in JobRecord
        /\ j.pc = "read" /\ j.kind = "apply" /\ j.ref = NoCharge /\ j.doc = i
        /\ j.amount = a /\ j.pay = p
    BY <2>0, JobShape DEF JobRecord, Job
  <2> HIDE DEF j
  <2>2. Sound(j, payments, payNext)
    BY <2>0, <2>1 DEF Sound, Pending
  <2>3. Start(w, j) /\ ~Pending(j)
    BY <1>6, <2>1 DEF StartApply, Pending, j
  <2> QED BY <2>1, <2>2, <2>3, StartStep
<1>7. ASSUME NEW i \in Invoices, NEW a \in Amounts,
             StartCreditNote(w, i, a) \/ StartWriteOff(w, i, a)
      PROVE  PaymentsInv'
  <2>0. inv[i] \in Row
    BY <1>0 DEF Shapes
  <2>1. PICK pc \in {"number", "seq"}, kind \in {"creditNote", "writeOff"} :
           /\ pc = "number" => kind = "creditNote"
           /\ Start(w, [Job(pc, kind, i, a) EXCEPT !.row = inv[i]])
    BY <1>7 DEF StartCreditNote, StartWriteOff
  <2> DEFINE j == [Job(pc, kind, i, a) EXCEPT !.row = inv[i]]
  <2>2. Job(pc, kind, i, a) \in JobRecord
    BY <1>0, JobShape DEF Pcs, Kinds
  <2>3. /\ j \in JobRecord
        /\ j.pc = pc /\ j.kind = kind /\ j.ref = NoCharge /\ j.doc = i /\ j.amount = a
    BY <2>0, <2>2 DEF JobRecord, Job
  <2>4. Start(w, j)
    BY <2>1
  <2> HIDE DEF j
  <2>5. Sound(j, payments, payNext) /\ ~Pending(j)
    BY <1>0, <2>1, <2>3 DEF Sound, Pending
  <2> QED BY <2>3, <2>4, <2>5, StartStep
<1> QED BY <1>1, <1>2, <1>3, <1>4, <1>5, <1>6, <1>7 DEF Request

-----------------------------------------------------------------------------
(* A charge is recorded as an unlinked claim at most. *)
LEMMA PayStep ==
  ASSUME PaymentsInv, NEW c \in Charges, NEW i \in Invoices, PayAtGateway(c, i)
  PROVE  PaymentsInv'
<1> USE DEF PaymentsInv
<1>1. /\ UNCHANGED <<inv, payments, payNext, acked, job>>
      /\ charge' = [charge EXCEPT ![c] = [doc |-> i, amount |-> inv[i].bal]]
      /\ claims' = [claims EXCEPT ![c] = IF c \in Mpesa THEN NoClaim ELSE Unlinked]
  BY DEF PayAtGateway, books
<1>2. [doc |-> i, amount |-> inv[i].bal] \in ChargeRecord
  BY DEF Shapes, Row, ChargeRecord
<1>3. NoClaim \in Int /\ Unlinked \in Int /\ ~(NoClaim > Unlinked) /\ ~(Unlinked > Unlinked)
  BY DEF NoClaim, Unlinked
<1>4. charge' \in [Charges -> ChargeRecord \cup {NoCharge}]
  BY <1>1, <1>2 DEF Shapes
<1>5. claims' \in [Charges -> Int]
  BY <1>1, <1>3 DEF Shapes
<1>6. Shapes'
  BY <1>1, <1>4, <1>5 DEF Shapes
<1>7. \A d \in Charges : claims'[d] > Unlinked => claims[d] > Unlinked
  BY <1>1, <1>3 DEF Shapes
<1>8. Answered'
  BY <1>1, <1>7 DEF Answered
<1>9. NumbersDiffer'
  BY <1>1 DEF NumbersDiffer
<1> QED BY <1>1, <1>6, <1>8, <1>9

(* A callback starts as a payment without a number. *)
LEMMA DeliverStep ==
  ASSUME PaymentsInv, NEW w \in Workers, NEW c \in Charges, Deliver(w, c)
  PROVE  PaymentsInv'
<1>1. charge[c] \in ChargeRecord
  BY DEF Deliver, PaymentsInv, Shapes
<1>2. PICK pc \in {"claim", "lookup"} :
         job' = [job EXCEPT ![w] =
                    [Job(pc, "record", charge[c].doc, charge[c].amount) EXCEPT !.ref = c]]
  BY DEF Deliver
<1> DEFINE k == Job(pc, "record", charge[c].doc, charge[c].amount)
           j == [k EXCEPT !.ref = c]
<1>3. k \in JobRecord /\ k.pc = pc /\ k.kind = "record" /\ k.doc \in Invoices
  <2>1. pc \in Pcs /\ "record" \in Kinds
    BY DEF Pcs, Kinds
  <2>2. charge[c].doc \in Invoices /\ charge[c].amount \in Int
    BY <1>1 DEF ChargeRecord
  <2> QED BY <2>1, <2>2, JobShape
<1>4. job' = [job EXCEPT ![w] = j]
  BY <1>2
<1> HIDE DEF k
<1>5. j \in JobRecord /\ j.pc = pc /\ j.kind = "record" /\ j.doc \in Invoices
  BY <1>3 DEF JobRecord
<1> HIDE DEF j
<1>6. Sound(j, payments, payNext) /\ ~Pending(j)
  BY <1>5, ConstantsOK DEF ConstantsOK, Sound, Pending
<1>7. inv' \in [Invoices -> Row] /\ UNCHANGED <<payments, payNext, gateway>>
  BY DEF Deliver, books, PaymentsInv, Shapes
<1> QED BY <1>4, <1>5, <1>6, <1>7, JobStep

(* A dismissed callback is not answered as recorded. *)
LEMMA DismissStep == ASSUME PaymentsInv, NEW c \in Charges, Dismiss(c) PROVE PaymentsInv'
<1>1. /\ UNCHANGED <<inv, payments, payNext, charge, claims, job>>
      /\ acked' = [acked EXCEPT ![c] = IF acked[c] = "none" THEN "unknown" ELSE acked[c]]
  BY DEF Dismiss, books
<1>2. acked \in [Charges -> Answers] /\ "unknown" \in Answers
  BY DEF PaymentsInv, Shapes, Answers
<1>3. /\ acked' \in [Charges -> Answers]
      /\ \A d \in Charges : acked'[d] = "recorded" => acked[d] = "recorded"
  BY <1>1, <1>2
<1>4. Answered'
  BY <1>1, <1>3 DEF Answered, PaymentsInv
<1>5. Shapes' /\ NumbersDiffer'
  BY <1>1, <1>3 DEF PaymentsInv, Shapes, NumbersDiffer
<1> QED BY <1>1, <1>4, <1>5 DEF PaymentsInv

(* The claim of a receipt is unlinked. *)
LEMMA ClaimStep == ASSUME PaymentsInv, NEW w \in Workers, Claim(w) PROVE PaymentsInv'
<1> DEFINE c == job[w].ref
<1>1. /\ UNCHANGED <<inv, payments, payNext, charge, acked>>
      /\ claims' = [claims EXCEPT ![c] = Unlinked] \/ claims' = claims
      /\ job[w].pc = "claim"
  BY DEF Claim, books, At
<1>2. PICK pc \in {"number", "lookup"} : Goto(w, pc)
  BY DEF Claim
<1>3. Sound(job[w], payments, payNext) /\ job[w] \in JobRecord /\ job \in [Workers -> JobRecord]
  BY DEF PaymentsInv, Shapes
<1> DEFINE j == [job[w] EXCEPT !.pc = pc]
<1>4. /\ j \in JobRecord /\ job' = [job EXCEPT ![w] = j]
      /\ j.pc = pc /\ j.kind = job[w].kind /\ j.ref = job[w].ref /\ j.doc = job[w].doc
      /\ j.amount = job[w].amount /\ j.pay = job[w].pay
  BY <1>2, <1>3 DEF JobRecord, Pcs, Goto
<1> HIDE DEF j
<1>5. Sound(j, payments, payNext) /\ ~Pending(j)
  BY <1>1, <1>3, <1>4 DEF Sound, Pending
<1>6. claims' \in [Charges -> Int] /\ \A d \in Charges : claims'[d] > Unlinked => claims[d] > Unlinked
  BY <1>1 DEF PaymentsInv, Shapes, Unlinked
<1>7. Answered'
  BY <1>1, <1>6 DEF Answered, PaymentsInv
<1>8. /\ inv' \in [Invoices -> Row] /\ acked' \in [Charges -> Answers]
      /\ payNext' \in Nat /\ payNext' >= payNext /\ payNext' = payNext
      /\ payments' = payments /\ charge' = charge
  BY <1>1 DEF PaymentsInv, Shapes
<1> QED BY <1>4, <1>5, <1>6, <1>7, <1>8, MoveStep

(* A callback is answered from a linked claim, whose payment exists. *)
LEMMA LookupStep == ASSUME PaymentsInv, NEW w \in Workers, Lookup(w) PROVE PaymentsInv'
<1> DEFINE c == job[w].ref
<1>1. /\ UNCHANGED <<inv, payments, payNext, charge, claims>> /\ job[w].pc = "lookup"
      /\ inv' \in [Invoices -> Row]
  BY DEF Lookup, books, At, PaymentsInv, Shapes
<1>2. Sound(job[w], payments, payNext)
  BY DEF PaymentsInv
<1>3. /\ acked' \in [Charges -> Answers]
      /\ \A d \in Charges : acked'[d] = "recorded" => acked[d] = "recorded" \/ (d = c /\ claims[c] > Unlinked)
  BY DEF Lookup, PaymentsInv, Shapes, Answers
<1>4. Answered'
  BY <1>1, <1>3 DEF Answered, PaymentsInv
<1>5. CASE job' = [job EXCEPT ![w] = Idle]
  BY <1>1, <1>3, <1>4, <1>5, EndStep
<1>6. CASE Goto(w, "number") /\ ~(claims[c] > Unlinked)
  <2>1. UNCHANGED <<payments, payNext, gateway>>
    BY <1>1, <1>6 DEF Lookup, gateway
  <2>2. job[w].kind \in {"record", "create", "creditNote"} /\ "number" \in Pcs
    BY <1>1, <1>2 DEF Sound, Pcs
  <2> QED BY <1>1, <1>6, <2>1, <2>2, GotoStep
<1> QED BY <1>5, <1>6 DEF Lookup, Finish

(* The callback of a committed payment links and answers it. *)
LEMMA LinkStep == ASSUME PaymentsInv, NEW w \in Workers, Link(w) PROVE PaymentsInv'
<1> DEFINE c == job[w].ref
<1>1. /\ UNCHANGED <<inv, payments, payNext, charge>> /\ job[w].pc = "link"
      /\ acked' = [acked EXCEPT ![c] = "recorded"]
      /\ claims' = [claims EXCEPT ![c] = job[w].num] \/ claims' = claims
      /\ job' = [job EXCEPT ![w] = Idle]
  BY DEF Link, books, At, Finish
<1>2. Sound(job[w], payments, payNext) /\ job[w].num \in Int
  BY DEF PaymentsInv, Shapes, JobRecord
<1>3. c # NoCharge => \E p \in payments : p.ref = c
  BY <1>1, <1>2 DEF Sound
<1>4. acked' \in [Charges -> Answers] /\ claims' \in [Charges -> Int]
  BY <1>1, <1>2 DEF PaymentsInv, Shapes, Answers
<1>5. \A d \in Charges : d # c => acked'[d] = acked[d] /\ claims'[d] = claims[d]
  BY <1>1 DEF PaymentsInv, Shapes
<1>6. Answered'
  <2> SUFFICES ASSUME NEW d \in Charges, acked'[d] = "recorded" \/ claims'[d] > Unlinked
               PROVE  \E p \in payments : p.ref = d
    BY <1>1 DEF Answered
  <2>1. CASE d = c
    BY <1>3, <2>1, ConstantsOK DEF ConstantsOK
  <2>2. CASE d # c
    BY <1>5, <2>2 DEF Answered, PaymentsInv
  <2> QED BY <2>1, <2>2
<1>7. /\ inv' \in [Invoices -> Row]
      /\ payNext' \in Nat /\ payNext' >= payNext
      /\ payments' = payments /\ charge' = charge
  BY <1>1 DEF PaymentsInv, Shapes
<1>8. Idle \in JobRecord /\ Sound(Idle, payments, payNext') /\ ~Pending(Idle)
  BY IdleSound
<1> QED BY <1>1, <1>4, <1>6, <1>7, <1>8, MoveStep

-----------------------------------------------------------------------------
(* A payment number is new to every payment and every pending payment.     *)
LEMMA TakeNumberStep == ASSUME PaymentsInv, NEW w \in Workers, TakeNumber(w) PROVE PaymentsInv'
<1>1. /\ UNCHANGED <<inv, payments, gateway>> /\ job[w].pc = "number"
      /\ inv' \in [Invoices -> Row]
      /\ job \in [Workers -> JobRecord] /\ job[w] \in JobRecord /\ payNext \in Nat
      /\ payments \subseteq PaymentRow
  BY DEF TakeNumber, books, At, PaymentsInv, Shapes
<1>2. Sound(job[w], payments, payNext)
  BY DEF PaymentsInv
<1>3. CASE job[w].kind = "record"
  <2> DEFINE j == [job[w] EXCEPT !.num = payNext, !.pc = "read"]
  <2>1. job' = [job EXCEPT ![w] = j] /\ payNext' = payNext + 1
    BY <1>3 DEF TakeNumber
  <2>2. /\ j \in JobRecord /\ j.pc = "read" /\ j.kind = "record" /\ j.num = payNext
        /\ j.doc = job[w].doc /\ j.amount = job[w].amount /\ j.ref = job[w].ref
    BY <1>1, <1>3 DEF JobRecord, Pcs
  <2> HIDE DEF j
  <2>3. \A p \in payments : p.num \in Nat /\ p.num < payNext
    BY <1>1 DEF PaymentsInv, NumbersDiffer, PaymentRow
  <2>4. Sound(j, payments, payNext')
    BY <1>1, <1>2, <2>1, <2>2, <2>3 DEF Sound, Pending
  <2>5. Answered'
    BY <1>1 DEF PaymentsInv, Answered, gateway
  <2>6. /\ payNext' \in Nat /\ payNext' >= payNext /\ j.num >= payNext
        /\ payments' = payments /\ charge' = charge
        /\ claims' \in [Charges -> Int] /\ acked' \in [Charges -> Answers]
    BY <1>1, <2>1, <2>2 DEF PaymentsInv, Shapes, gateway
  <2> QED BY <1>1, <2>1, <2>2, <2>4, <2>5, <2>6, MoveStep
<1>4. CASE job[w].kind # "record"
  <2>1. job[w].kind \in {"create", "creditNote"}
    BY <1>1, <1>2, <1>4 DEF Sound
  <2>2. PICK pc \in {"commit", "seq"} : Goto(w, pc)
    BY <1>4, <2>1 DEF TakeNumber, Order
  <2>3. UNCHANGED <<payments, payNext, gateway>> /\ pc \in Pcs
    BY <1>1, <1>4 DEF TakeNumber, Pcs
  <2> QED BY <1>1, <2>1, <2>2, <2>3, GotoStep
<1> QED BY <1>3, <1>4

(* What is applied is at most the amount. *)
LEMMA ReadStep == ASSUME PaymentsInv, NEW w \in Workers, Read(w) PROVE PaymentsInv'
<1> USE ConstantsOK DEF ConstantsOK
<1> DEFINE pc == IF Effective(w) = 0 THEN "seq" ELSE "row"
           j == [job[w] EXCEPT !.eff = Effective(w), !.pc = pc]
<1>1. /\ UNCHANGED <<payments, payNext, gateway>> /\ job[w].pc = "read"
      /\ inv' \in [Invoices -> Row] /\ inv \in [Invoices -> Row]
      /\ job \in [Workers -> JobRecord] /\ job[w] \in JobRecord
  BY DEF Read, books, At, PaymentsInv, Shapes
<1>2. Sound(job[w], payments, payNext)
  BY DEF PaymentsInv
<1>3. job[w].amount \in Int /\ job[w].doc \in Invoices \cup {NoDoc}
  BY <1>1 DEF JobRecord
<1>4. /\ Effective(w) \in Int /\ Effective(w) =< job[w].amount
      /\ job[w].doc = NoDoc => Effective(w) = 0
  <2>1. CASE job[w].doc = NoDoc
    BY <1>2, <1>3, <2>1 DEF Effective, Sound
  <2>2. CASE job[w].doc # NoDoc
    <3>1. inv[job[w].doc].bal \in Int
      BY <1>1, <1>3, <2>2 DEF Row
    <3> QED BY <1>3, <2>2, <3>1 DEF Effective
  <2> QED BY <2>1, <2>2
<1>5. job' = [job EXCEPT ![w] = j] /\ pc \in Pcs /\ pc \in {"seq", "row"}
  BY DEF Read, Pcs
<1> HIDE DEF pc
<1>6. /\ j \in JobRecord /\ j.pc = pc /\ j.eff = Effective(w) /\ j.kind = job[w].kind
      /\ j.doc = job[w].doc /\ j.amount = job[w].amount /\ j.ref = job[w].ref
      /\ j.num = job[w].num /\ j.pay = job[w].pay
  BY <1>1, <1>4, <1>5 DEF JobRecord
<1> HIDE DEF j
<1>7. Pending(j) => Pending(job[w])
  BY <1>1, <1>6 DEF Pending
<1>8. Sound(j, payments, payNext)
  BY <1>2, <1>4, <1>5, <1>6, <1>7 DEF Sound
<1> QED BY <1>1, <1>5, <1>6, <1>7, <1>8, JobStep

(* post_invoice reads its lines. *)
LEMMA ReadLinesStep == ASSUME PaymentsInv, NEW w \in Workers, ReadLines(w) PROVE PaymentsInv'
<1> USE ConstantsOK DEF ConstantsOK
<1> DEFINE x == IF Exists(job[w].doc) THEN inv[job[w].doc].gross ELSE 0
           j == [job[w] EXCEPT !.pc = "seq", !.eff = x]
<1>1. /\ UNCHANGED <<payments, payNext, gateway>> /\ job[w].pc = "lines"
      /\ inv' \in [Invoices -> Row] /\ inv \in [Invoices -> Row]
      /\ job \in [Workers -> JobRecord] /\ job[w] \in JobRecord
  BY DEF ReadLines, books, At, PaymentsInv, Shapes
<1>2. Sound(job[w], payments, payNext)
  BY DEF PaymentsInv
<1>3. job[w].kind = "post" /\ job[w].doc \in Invoices
  BY <1>1, <1>2 DEF Sound, JobRecord
<1>4. x \in Int
  BY <1>1, <1>3 DEF Row
<1>5. job' = [job EXCEPT ![w] = j] /\ "seq" \in Pcs
  BY DEF ReadLines, Pcs
<1> HIDE DEF x
<1>6. /\ j \in JobRecord /\ j.pc = "seq" /\ j.kind = "post" /\ j.ref = job[w].ref
      /\ j.doc = job[w].doc
  BY <1>1, <1>3, <1>4, <1>5 DEF JobRecord
<1> HIDE DEF j
<1>7. Sound(j, payments, payNext) /\ ~Pending(j)
  BY <1>2, <1>3, <1>6 DEF Sound, Pending
<1> QED BY <1>1, <1>5, <1>6, <1>7, JobStep

(* Locks change nothing the payments depend on. *)
LEMMA LockStep ==
  ASSUME PaymentsInv, NEW w \in Workers, LockRow(w) \/ LockSeq(w) PROVE PaymentsInv'
<1>1. /\ UNCHANGED <<payments, payNext, gateway>> /\ job[w].pc \in {"row", "seq"}
      /\ inv' \in [Invoices -> Row]
  BY DEF LockRow, LockSeq, books, At, PaymentsInv, Shapes
<1>2. PICK pc : Goto(w, pc) /\ (pc = After(job[w].kind, "row") \/ pc = After(job[w].kind, "seq"))
  BY DEF LockRow, LockSeq
<1>3. pc \in {"row", "seq", "commit"}
  BY <1>2 DEF After, Order
<1>4. pc \in Pcs
  BY <1>3 DEF Pcs
<1> QED BY <1>1, <1>2, <1>3, <1>4, GotoStep

-----------------------------------------------------------------------------
(* A reduced row is a row. *)
LEMMA ReducedShape == ASSUME NEW r \in Row, NEW x \in Int PROVE Reduced(r, x) \in Row
<1>1. r.paid + x \in Int /\ r.bal - x \in Int
  BY DEF Row
<1>2. \A a, b \in Int : [r EXCEPT !.paid = a, !.bal = b] \in Row
  BY DEF Row
<1>3. Reduced(r, x) = [r EXCEPT !.paid = r.paid + x, !.bal = r.bal - x]
  BY DEF Reduced, Row
<1> QED BY <1>1, <1>2, <1>3

(* A settled row is a row. *)
LEMMA SettledShape == ASSUME NEW r \in Row PROVE Settled(r) \in Row
BY DEF Row, Settled, Statuses

(* The commits that touch no payment, and the scheduler: rows stay rows.   *)
LEMMA OtherCommitStep ==
  ASSUME PaymentsInv, NEW w \in Workers,
         \/ CommitCreate(w) \/ CommitEdit(w) \/ CommitDelete(w) \/ CommitPost(w)
         \/ CommitCreditNote(w) \/ CommitWriteOff(w)
  PROVE  PaymentsInv'
<1> USE ConstantsOK DEF ConstantsOK
<1> DEFINE i == job[w].doc
<1>1. /\ UNCHANGED <<payments, payNext, charge, claims, acked>>
      /\ job' = [job EXCEPT ![w] = Idle]
  BY DEF CommitCreate, CommitEdit, CommitDelete, CommitPost, CommitCreditNote, CommitWriteOff,
         Finish, gateway
<1>2. /\ Shapes /\ inv \in [Invoices -> Row] /\ acked \in [Charges -> Answers]
      /\ job[w] \in JobRecord
  BY DEF PaymentsInv, Shapes
<1>3. /\ i \in Invoices \cup {NoDoc} /\ job[w].amount \in Int /\ job[w].row \in Row
      /\ i \in Invoices => inv[i] \in Row
  BY <1>2 DEF JobRecord
<1>4. Answered'
  BY <1>1 DEF PaymentsInv, Answered
<1>5. inv' \in [Invoices -> Row]
  <2>1. CASE CommitCreate(w)
    <3>1. Billed("draft", job[w].amount, FALSE) \in Row
      BY <1>3 DEF Billed, Row, Statuses
    <3> QED BY <1>2, <2>1, <3>1 DEF CommitCreate
  <2>2. CASE CommitEdit(w)
    <3>1. i \in Invoices => [inv[i] EXCEPT !.gross = job[w].amount, !.bal = job[w].amount] \in Row
      BY <1>3 DEF Row
    <3> QED BY <1>2, <1>3, <2>2, <3>1, RewriteShape DEF CommitEdit
  <2>3. CASE CommitDelete(w)
    <3>1. Billed("deleted", 0, FALSE) \in Row
      BY DEF Billed, Row, Statuses
    <3> QED BY <1>2, <1>3, <2>3, <3>1, RewriteShape DEF CommitDelete
  <2>4. CASE CommitPost(w)
    <3>1. i \in Invoices => [inv[i] EXCEPT !.status = "posted", !.je = TRUE] \in Row
      BY <1>3 DEF Row, Statuses
    <3> QED BY <1>2, <1>3, <2>4, <3>1, RewriteShape DEF CommitPost
  <2>5. CASE CommitCreditNote(w)
    <3> DEFINE new == Reduced(job[w].row, job[w].amount)
    <3>1. new.bal \in Int /\ new.paid \in Int
      BY <1>3 DEF Reduced, Row
    <3> HIDE DEF new
    <3>2. i \in Invoices => Settled([inv[i] EXCEPT !.bal = new.bal, !.paid = new.paid]) \in Row
      BY <1>3, <3>1 DEF Row, Settled, Statuses
    <3>3. Rewrite(i, Settled([inv[i] EXCEPT !.bal = new.bal, !.paid = new.paid]))
      BY <2>5 DEF CommitCreditNote, new
    <3> QED BY <1>2, <1>3, <3>2, <3>3, RewriteShape
  <2>6. CASE CommitWriteOff(w)
    <3>1. PICK s \in Statuses :
             Rewrite(i, [Reduced(inv[i], job[w].amount) EXCEPT !.status = s])
      BY <1>3, <2>6 DEF CommitWriteOff, Row, Statuses
    <3>2. i \in Invoices => Reduced(inv[i], job[w].amount) \in Row
      BY <1>3, ReducedShape
    <3>3. \A r \in Row : [r EXCEPT !.status = s] \in Row
      BY DEF Row
    <3> QED BY <1>2, <1>3, <3>1, <3>2, <3>3, RewriteShape
  <2> QED BY <2>1, <2>2, <2>3, <2>4, <2>5, <2>6
<1>6. acked' \in [Charges -> Answers]
  BY <1>1, <1>2
<1> QED BY <1>1, <1>4, <1>5, <1>6, EndStep

(* A recorded payment is conserved, has a number of its own, and its       *)
(* callback finds it.                                                      *)
LEMMA CommitRecordStep == ASSUME PaymentsInv, NEW w \in Workers, CommitRecord(w) PROVE PaymentsInv'
<1> USE ConstantsOK DEF ConstantsOK
<1> DEFINE i == job[w].doc
           x == job[w].eff
           new == [num |-> job[w].num, amount |-> job[w].amount, applied |-> x,
                   unapplied |-> job[w].amount - x, ref |-> job[w].ref,
                   spent |-> x, overlaps |-> 0]
           pc == IF x = 0 THEN Answer(w) ELSE "balance"
           j == [job[w] EXCEPT !.pc = pc]
<1>1. /\ payments' = payments \cup {new} /\ UNCHANGED <<payNext, gateway>>
      /\ job' = [job EXCEPT ![w] = j]
      /\ job[w].pc = "commit" /\ job[w].kind = "record"
  BY DEF CommitRecord, At
<1>2. /\ Shapes /\ job \in [Workers -> JobRecord] /\ job[w] \in JobRecord
      /\ payments \subseteq PaymentRow /\ payNext \in Nat
      /\ inv \in [Invoices -> Row]
  BY DEF PaymentsInv, Shapes
<1>3. /\ i \in Invoices \cup {NoDoc} /\ job[w].amount \in Int /\ x \in Int
      /\ job[w].num \in Nat /\ job[w].ref \in Charges \cup {NoCharge}
  BY <1>2 DEF JobRecord
<1>4. Sound(job[w], payments, payNext)
  BY DEF PaymentsInv
<1>5. /\ x =< job[w].amount /\ (i = NoDoc => x = 0)
      /\ Pending(job[w]) /\ job[w].num < payNext /\ \A p \in payments : p.num # job[w].num
  BY <1>1, <1>4 DEF Sound, Pending
<1>6. /\ new \in PaymentRow /\ Conserved(new)
      /\ new.num = job[w].num /\ new.ref = job[w].ref
  BY <1>3, <1>5 DEF PaymentRow, Conserved
<1>7. inv' \in [Invoices -> Row]
  <2>1. CASE x = 0
    BY <1>2, <2>1 DEF CommitRecord
  <2>2. CASE x # 0
    <3>1. Rewrite(i, Settled(Reduced(inv[i], x)))
      BY <2>2 DEF CommitRecord
    <3>2. i \in Invoices => Settled(Reduced(inv[i], x)) \in Row
      BY <1>2, <1>3, ReducedShape, SettledShape
    <3> QED BY <1>2, <1>3, <3>1, <3>2, RewriteShape
  <2> QED BY <2>1, <2>2
<1> HIDE DEF new
<1>8. /\ pc \in {"reply", "link", "balance"} /\ pc \in Pcs
      /\ i = NoDoc => pc # "balance"
  BY <1>5 DEF Answer, Pcs
<1> HIDE DEF pc
<1>9. /\ j \in JobRecord /\ j.pc = pc /\ j.kind = "record" /\ j.ref = job[w].ref
      /\ j.doc = i /\ j.amount = job[w].amount /\ j.num = job[w].num
  BY <1>1, <1>2, <1>8 DEF JobRecord
<1> HIDE DEF j
<1>10. \A v \in Workers : job'[v] = IF v = w THEN j ELSE job[v]
  BY <1>1, <1>2
<1>11. Shapes'
  BY <1>1, <1>2, <1>6, <1>7, <1>9 DEF Shapes, gateway
<1>12. \A v \in Workers : Sound(job'[v], payments', payNext')
  <2>1. Sound(j, payments', payNext')
    BY <1>1, <1>4, <1>6, <1>8, <1>9 DEF Sound, Pending
  <2>2. ASSUME NEW v \in Workers, v # w PROVE Sound(job[v], payments', payNext)
    <3>1. Sound(job[v], payments, payNext)
      BY DEF PaymentsInv
    <3>2. Pending(job[v]) => job[v].num # new.num
      BY <1>5, <1>6, <2>2 DEF PaymentsInv, NumbersDiffer
    <3>3. job[v].kind = "apply" => job[v].pay.num # new.num
      BY <1>5, <1>6, <3>1 DEF Sound
    <3> QED BY <1>1, <3>1, <3>2, <3>3 DEF Sound
  <2> QED BY <1>1, <1>10, <2>1, <2>2
<1>13. Answered'
  BY <1>1 DEF PaymentsInv, Answered, gateway
<1>14. NumbersDiffer'
  <2>1. ~Pending(j)
    BY <1>8, <1>9 DEF Pending
  <2>2. \A p, q \in payments' : p.num = q.num => p.amount = q.amount
    BY <1>1, <1>5, <1>6 DEF PaymentsInv, NumbersDiffer
  <2>3. \A p \in payments' : p.num < payNext'
    BY <1>1, <1>5, <1>6 DEF PaymentsInv, NumbersDiffer
  <2> QED BY <1>10, <2>1, <2>2, <2>3 DEF PaymentsInv, NumbersDiffer
<1>15. \A p \in payments' : Conserved(p)
  BY <1>1, <1>6 DEF PaymentsInv
<1> QED BY <1>11, <1>12, <1>13, <1>14, <1>15 DEF PaymentsInv

(* What an application makes of a payment. *)
LEMMA SplitShape ==
  ASSUME NEW p \in PaymentRow, NEW old \in PaymentRow, NEW x \in Int
  PROVE  /\ Split(p, old, x) \in PaymentRow
         /\ Split(p, old, x).applied = old.applied + x
         /\ Split(p, old, x).unapplied = old.unapplied - x
         /\ Split(p, old, x).spent = p.spent + x
         /\ Split(p, old, x).overlaps = 0 => p = old /\ p.overlaps = 0
         /\ Split(p, old, x).num = p.num
         /\ Split(p, old, x).amount = p.amount
         /\ Split(p, old, x).ref = p.ref
<1>1. PICK a, u, s \in Int : a = old.applied + x /\ u = old.unapplied - x /\ s = p.spent + x
  BY DEF PaymentRow
<1>2. PICK n \in Nat : n = IF p = old THEN p.overlaps ELSE p.overlaps + 1
  BY DEF PaymentRow
<1>3. n = 0 => p = old /\ p.overlaps = 0
  BY <1>2 DEF PaymentRow
<1> DEFINE q == [p EXCEPT !.applied = a, !.unapplied = u, !.spent = s, !.overlaps = n]
<1>4. Split(p, old, x) = q
  BY <1>1, <1>2 DEF Split
<1>5. q \in PaymentRow
  BY DEF PaymentRow
<1>6. /\ q.applied = a /\ q.unapplied = u /\ q.spent = s /\ q.overlaps = n
      /\ q.num = p.num /\ q.amount = p.amount /\ q.ref = p.ref
  BY DEF PaymentRow
<1> HIDE DEF q
<1> QED BY <1>1, <1>3, <1>4, <1>5, <1>6

(* An application splits its payment anew, from the split it read.         *)
LEMMA CommitApplyStep == ASSUME PaymentsInv, NEW w \in Workers, CommitApply(w) PROVE PaymentsInv'
<1> USE ConstantsOK DEF ConstantsOK
<1> DEFINE i == job[w].doc
           x == job[w].eff
           old == job[w].pay
           split(p) == IF p.num = old.num THEN Split(p, old, x) ELSE p
           j == [job[w] EXCEPT !.pc = "balance"]
<1>1. /\ payments' = {split(p) : p \in payments} /\ UNCHANGED <<payNext, gateway>>
      /\ job' = [job EXCEPT ![w] = j]
      /\ job[w].pc = "commit" /\ job[w].kind = "apply"
      /\ Rewrite(i, Settled(Reduced(inv[i], x)))
  BY DEF CommitApply, At, Goto
<1>2. /\ Shapes /\ job \in [Workers -> JobRecord] /\ job[w] \in JobRecord
      /\ payments \subseteq PaymentRow /\ payNext \in Nat
      /\ inv \in [Invoices -> Row]
  BY DEF PaymentsInv, Shapes
<1>3. /\ i \in Invoices \cup {NoDoc} /\ job[w].amount \in Int /\ x \in Int
      /\ old \in PaymentRow
  BY <1>2 DEF JobRecord
<1>4. Sound(job[w], payments, payNext)
  BY DEF PaymentsInv
<1>5. /\ x =< job[w].amount /\ i # NoDoc
      /\ Conserved(old) /\ job[w].amount =< old.unapplied
      /\ \A p \in payments : p.num = old.num => p.amount = old.amount
      /\ job[w].ref = NoCharge
  BY <1>1, <1>4 DEF Sound
<1>6. inv' \in [Invoices -> Row]
  <2>1. i \in Invoices => Settled(Reduced(inv[i], x)) \in Row
    BY <1>2, <1>3, ReducedShape, SettledShape
  <2> QED BY <1>1, <1>2, <1>3, <2>1, RewriteShape
<1>7. old.applied \in Int /\ old.unapplied \in Int /\ old.amount \in Int
  BY <1>3 DEF PaymentRow
<1>8. ASSUME NEW p \in payments
      PROVE  /\ split(p) \in PaymentRow /\ Conserved(split(p))
             /\ split(p).num = p.num /\ split(p).amount = p.amount /\ split(p).ref = p.ref
  <2>1. p \in PaymentRow /\ Conserved(p)
    BY <1>2 DEF PaymentsInv
  <2>2. CASE p.num = old.num
    <3>1. /\ split(p) \in PaymentRow
          /\ split(p).applied = old.applied + x /\ split(p).unapplied = old.unapplied - x
          /\ split(p).spent = p.spent + x
          /\ split(p).overlaps = 0 => p = old /\ p.overlaps = 0
          /\ split(p).num = p.num /\ split(p).amount = p.amount /\ split(p).ref = p.ref
      <4>1. split(p) = Split(p, old, x)
        BY <2>2
      <4>2. p \in PaymentRow /\ old \in PaymentRow /\ x \in Int
        BY <1>3, <2>1
      <4> HIDE DEF split, old, x
      <4>3. /\ Split(p, old, x) \in PaymentRow
            /\ Split(p, old, x).applied = old.applied + x
            /\ Split(p, old, x).unapplied = old.unapplied - x
            /\ Split(p, old, x).spent = p.spent + x
            /\ Split(p, old, x).num = p.num
            /\ Split(p, old, x).amount = p.amount
            /\ Split(p, old, x).ref = p.ref
        BY <4>2, SplitShape
      <4>4. Split(p, old, x).overlaps = 0 => p = old /\ p.overlaps = 0
        BY <4>2, SplitShape
      <4> QED BY <4>1, <4>3, <4>4
    <3>2. p.amount = old.amount
      BY <1>5, <2>2
    <3> HIDE DEF split
    <3>3. split(p).overlaps = 0 => split(p).spent = split(p).applied
      BY <1>5, <3>1 DEF Conserved
    <3> QED BY <1>3, <1>5, <1>7, <3>1, <3>2, <3>3 DEF Conserved
  <2>3. CASE p.num # old.num
    BY <2>1, <2>3
  <2> QED BY <2>2, <2>3
<1> HIDE DEF split
<1>9. /\ \A q \in payments' : \E p \in payments :
            q.num = p.num /\ q.amount = p.amount /\ q.ref = p.ref
      /\ \A p \in payments : \E q \in payments' :
            q.num = p.num /\ q.amount = p.amount /\ q.ref = p.ref
      /\ \A q \in payments' : q \in PaymentRow /\ Conserved(q)
  BY <1>1, <1>8
<1>10. /\ j \in JobRecord /\ j.pc = "balance" /\ j.kind = "apply" /\ j.ref = NoCharge
       /\ j.doc = i /\ j.amount = job[w].amount /\ j.pay = old
  BY <1>1, <1>2, <1>5 DEF JobRecord, Pcs
<1> HIDE DEF j
<1>11. \A v \in Workers : job'[v] = IF v = w THEN j ELSE job[v]
  BY <1>1, <1>2
<1>12. Shapes'
  BY <1>1, <1>2, <1>6, <1>9, <1>10 DEF Shapes, gateway
<1>13. \A v \in Workers : Sound(job'[v], payments', payNext')
  <2>1. Sound(j, payments, payNext)
    BY <1>1, <1>4, <1>5, <1>10 DEF Sound, Pending
  <2>2. ASSUME NEW k, Sound(k, payments, payNext) PROVE Sound(k, payments', payNext)
    BY <1>9, <2>2 DEF Sound
  <2>3. \A v \in Workers : Sound(job[v], payments, payNext)
    BY DEF PaymentsInv
  <2> QED BY <1>1, <1>11, <2>1, <2>2, <2>3
<1>14. Answered'
  BY <1>1, <1>9 DEF PaymentsInv, Answered, gateway
<1>15. NumbersDiffer'
  <2>1. ~Pending(j)
    BY <1>10 DEF Pending
  <2>2. \A p, q \in payments' : p.num = q.num => p.amount = q.amount
    BY <1>9 DEF PaymentsInv, NumbersDiffer
  <2>3. \A p \in payments' : p.num < payNext'
    BY <1>1, <1>9 DEF PaymentsInv, NumbersDiffer
  <2> QED BY <1>11, <2>1, <2>2, <2>3 DEF PaymentsInv, NumbersDiffer
<1> QED BY <1>9, <1>12, <1>13, <1>14, <1>15 DEF PaymentsInv

-----------------------------------------------------------------------------
(* After the commit of a payment. *)
LEMMA AftermathStep ==
  ASSUME PaymentsInv, NEW w \in Workers, ReadBalance(w) \/ CancelReminders(w) \/ Restate(w)
  PROVE  PaymentsInv'
<1> USE ConstantsOK DEF ConstantsOK
<1> DEFINE i == job[w].doc
<1>1. /\ UNCHANGED <<payments, payNext, gateway>>
      /\ job[w].pc \in {"balance", "cancel", "restate"}
  BY DEF ReadBalance, CancelReminders, Restate, books, At
<1>2. /\ Shapes /\ job \in [Workers -> JobRecord] /\ job[w] \in JobRecord
      /\ inv \in [Invoices -> Row] /\ i \in Invoices \cup {NoDoc}
  BY DEF PaymentsInv, Shapes, JobRecord
<1>3. Sound(job[w], payments, payNext)
  BY DEF PaymentsInv
<1>4. job[w].ref # NoCharge => \E p \in payments : p.ref = job[w].ref
  BY <1>1, <1>3 DEF Sound
<1>5. CASE ReadBalance(w)
  <2> DEFINE x == IF Exists(i) THEN inv[i].bal ELSE 0
             j == [job[w] EXCEPT !.eff = x, !.pc = "cancel"]
  <2>1. job' = [job EXCEPT ![w] = j] /\ inv' \in [Invoices -> Row] /\ job[w].pc = "balance"
    BY <1>2, <1>5 DEF ReadBalance, books, At
  <2>2. i \in Invoices
    BY <1>2, <1>3, <2>1 DEF Sound
  <2>3. x \in Int /\ "cancel" \in Pcs
    BY <1>2, <2>2 DEF Row, Pcs
  <2> HIDE DEF x
  <2>4. /\ j \in JobRecord /\ j.pc = "cancel" /\ j.kind = job[w].kind /\ j.ref = job[w].ref
        /\ j.doc = i /\ j.amount = job[w].amount /\ j.pay = job[w].pay
    BY <1>2, <2>3 DEF JobRecord
  <2> HIDE DEF j
  <2>5. Sound(j, payments, payNext) /\ ~Pending(j)
    BY <1>3, <1>4, <2>4 DEF Sound, Pending
  <2> QED BY <1>1, <2>1, <2>4, <2>5, JobStep
<1>6. CASE CancelReminders(w) \/ Restate(w)
  <2>1. PICK pc \in {"restate", "reply", "link"} : Goto(w, pc)
    BY <1>6 DEF CancelReminders, Restate, Answer
  <2>2. inv' \in [Invoices -> Row]
    <3>1. CASE CancelReminders(w)
      BY <1>2, <3>1 DEF CancelReminders, books
    <3>2. CASE Restate(w)
      <4>1. PICK s \in {"paid", "partially_paid"} : Rewrite(i, [inv[i] EXCEPT !.status = s])
        BY <3>2 DEF Restate
      <4>2. i \in Invoices => [inv[i] EXCEPT !.status = s] \in Row
        BY <1>2, <4>1 DEF Row, Statuses
      <4> QED BY <1>2, <4>1, <4>2, RewriteShape
    <3> QED BY <1>6, <3>1, <3>2
  <2>3. pc \in Pcs
    BY DEF Pcs
  <2> QED BY <1>1, <1>4, <2>1, <2>2, <2>3, GotoStep
<1> QED BY <1>5, <1>6

(* Every step preserves the invariant. *)
LEMMA PaymentsNext == PaymentsInv /\ [Next]_vars => PaymentsInv'
<1> SUFFICES ASSUME PaymentsInv, [Next]_vars PROVE PaymentsInv'
  OBVIOUS
<1>1. ASSUME NEW w \in Workers, Request(w) PROVE PaymentsInv'
  BY <1>1, RequestStep
<1>2. ASSUME NEW w \in Workers, Commit(w) PROVE PaymentsInv'
  BY <1>2, OtherCommitStep, CommitRecordStep, CommitApplyStep DEF Commit
<1>3. ASSUME NEW w \in Workers, Reply(w) \/ Refuse(w) \/ DeadlockVictim(w) \/ Fail(w)
      PROVE  PaymentsInv'
  <2>1. /\ job' = [job EXCEPT ![w] = Idle] /\ UNCHANGED <<inv, payments, payNext, gateway>>
    BY <1>3 DEF Reply, Refuse, DeadlockVictim, Fail, Finish, books
  <2>2. /\ inv' \in [Invoices -> Row] /\ acked' \in [Charges -> Answers]
        /\ UNCHANGED <<payments, payNext, charge, claims>> /\ Answered'
    BY <2>1 DEF PaymentsInv, Shapes, Answered, gateway
  <2> QED BY <2>1, <2>2, EndStep
<1>4. ASSUME NEW w \in Workers, Step(w) PROVE PaymentsInv'
  BY <1>2, <1>3, <1>4, ClaimStep, LookupStep, LinkStep, TakeNumberStep, ReadStep,
     ReadLinesStep, LockStep, AftermathStep DEF Step
<1>5. ASSUME NEW w \in Workers, NEW c \in Charges, Deliver(w, c) PROVE PaymentsInv'
  BY <1>5, DeliverStep
<1>6. ASSUME NEW c \in Charges, NEW i \in Invoices, PayAtGateway(c, i) PROVE PaymentsInv'
  BY <1>6, PayStep
<1>7. CASE MarkOverdue
  <2>1. UNCHANGED <<payments, payNext, gateway, job>>
    BY <1>7 DEF MarkOverdue
  <2>2. inv' \in [Invoices -> Row]
    <3>1. inv \in [Invoices -> Row]
      BY DEF PaymentsInv, Shapes
    <3>2. \A r \in Row : [r EXCEPT !.status = "overdue"] \in Row
      BY DEF Row, Statuses
    <3> QED BY <1>7, <3>1, <3>2 DEF MarkOverdue
  <2> QED BY <2>1, <2>2 DEF PaymentsInv, Shapes, Answered, NumbersDiffer, gateway
<1>8. CASE UNCHANGED vars \/ Quiesced
  <2>1. UNCHANGED vars
    BY <1>8 DEF Quiesced
  <2> QED BY <2>1 DEF vars, PaymentsInv, Shapes, Answered, NumbersDiffer
<1>9. ASSUME NEW c \in Charges, Dismiss(c) PROVE PaymentsInv'
  BY <1>9, DismissStep
<1> QED BY <1>1, <1>3, <1>4, <1>5, <1>6, <1>7, <1>8, <1>9 DEF Next

(* A gateway is answered with success only once its charge is on record,   *)
(* however requests interleave, fail or are repeated                       *)
(* (record_mpesa_payment, record_paystack_payment).                        *)
THEOREM AnsweredIsRecorded == Spec => []AckedIsRecorded
<1>1. PaymentsInv => AckedIsRecorded
  BY DEF PaymentsInv, Answered, AckedIsRecorded
<1> QED BY <1>1, PaymentsInit, PaymentsNext, PTL DEF Spec

(* Every payment row is the sum of its applications and of the credit      *)
(* left, which is never negative, however applications of it overlap; and  *)
(* when none did, no more was cleared with it than its row says            *)
(* (record_payment, apply_unapplied_payment).                              *)
THEOREM PaymentsConserved == Spec => []PaymentConserved
<1>1. PaymentsInv => PaymentConserved
  BY DEF PaymentsInv, Conserved, PaymentConserved
<1> QED BY <1>1, PaymentsInit, PaymentsNext, PTL DEF Spec

-----------------------------------------------------------------------------
(* What payments bring in, what of it is held as credit, and what a row of *)
(* the table invoices contributes to the receivables account.              *)
PaidIn(ps) == Sum([p \in ps |-> p.amount], ps)
Held(ps) == Sum([p \in ps |-> p.unapplied], ps)
Owed(r) == IF r.je THEN r.bal ELSE -r.paid
OwedBy(rows) == Sum([i \in Invoices |-> Owed(rows[i])], Invoices)

Balances == [bank: Int, ar: Int, unapplied: Int]

(* The payments as a table: finitely many, and a number is a key. *)
Table(ps) == IsFiniteSet(ps) /\ \A p, q \in ps : p.num = q.num => p = q

BankInv ==
    /\ Table(payments)
    /\ acct \in Balances
    /\ acct.bank = PaidIn(payments)

-----------------------------------------------------------------------------
(* The sums of the properties are these sums. *)
LEMMA PaidInIsSum == ASSUME NEW ps PROVE MapThenSumSet(LAMBDA p : p.amount, ps) = PaidIn(ps)
<1> DEFINE m == [p \in ps |-> p.amount]
           P(g) == g = [s \in SUBSET ps |-> IF s = {} THEN 0
                            ELSE Pick(s).amount + g[s \ {Pick(s)}]]
<1>1. MapThenSumSet(LAMBDA p : p.amount, ps) = (CHOOSE g : P(g))[ps]
  BY DEF MapThenSumSet, MapThenFoldSet, Pick
<1>2. ASSUME NEW g PROVE P(g) <=> IsIter(m, ps, g)
  <2>1. \A s \in SUBSET ps : s # {} => Pick(s).amount = m[Pick(s)]
    BY PickIn
  <2> HIDE DEF m
  <2>2. [s \in SUBSET ps |-> IF s = {} THEN 0 ELSE Pick(s).amount + g[s \ {Pick(s)}]]
          = [s \in SUBSET ps |-> Unfold(m, g, s)]
    BY <2>1 DEF Unfold
  <2> QED BY <2>2 DEF IsIter
<1>3. Sum(m, ps) = (CHOOSE g : IsIter(m, ps, g))[ps]
  BY DEF Sum, SumFunctionOnSet, FoldFunctionOnSet, MapThenFoldSet, IsIter, Unfold, Pick
<1> HIDE DEF P, m
<1>4. (CHOOSE g : P(g)) = (CHOOSE g : IsIter(m, ps, g))
  BY <1>2
<1> QED BY <1>1, <1>3, <1>4 DEF m, PaidIn

(* The credit held is a sum over payments, of which the lemmas on sums   *)
(* speak.                                                                *)
LEMMA HeldIsSum == ASSUME NEW ps PROVE MapThenSumSet(LAMBDA p : p.unapplied, ps) = Held(ps)
<1> DEFINE m == [p \in ps |-> p.unapplied]
           P(g) == g = [s \in SUBSET ps |-> IF s = {} THEN 0
                            ELSE Pick(s).unapplied + g[s \ {Pick(s)}]]
<1>1. MapThenSumSet(LAMBDA p : p.unapplied, ps) = (CHOOSE g : P(g))[ps]
  BY DEF MapThenSumSet, MapThenFoldSet, Pick
<1>2. ASSUME NEW g PROVE P(g) <=> IsIter(m, ps, g)
  <2>1. \A s \in SUBSET ps : s # {} => Pick(s).unapplied = m[Pick(s)]
    BY PickIn
  <2> HIDE DEF m
  <2>2. [s \in SUBSET ps |-> IF s = {} THEN 0 ELSE Pick(s).unapplied + g[s \ {Pick(s)}]]
          = [s \in SUBSET ps |-> Unfold(m, g, s)]
    BY <2>1 DEF Unfold
  <2> QED BY <2>2 DEF IsIter
<1>3. Sum(m, ps) = (CHOOSE g : IsIter(m, ps, g))[ps]
  BY DEF Sum, SumFunctionOnSet, FoldFunctionOnSet, MapThenFoldSet, IsIter, Unfold, Pick
<1> HIDE DEF P, m
<1>4. (CHOOSE g : P(g)) = (CHOOSE g : IsIter(m, ps, g))
  BY <1>2
<1> QED BY <1>1, <1>3, <1>4 DEF m, Held

(* What the invoices owe is a sum over invoices. *)
LEMMA OwedByIsSum ==
  MapThenSumSet(LAMBDA i : IF inv[i].je THEN inv[i].bal ELSE -inv[i].paid, Invoices) = OwedBy(inv)
<1> DEFINE owed(i) == IF inv[i].je THEN inv[i].bal ELSE -inv[i].paid
           m == [i \in Invoices |-> owed(i)]
           P(g) == g = [s \in SUBSET Invoices |-> IF s = {} THEN 0
                            ELSE owed(Pick(s)) + g[s \ {Pick(s)}]]
<1>1. MapThenSumSet(LAMBDA i : owed(i), Invoices) = (CHOOSE g : P(g))[Invoices]
  BY DEF MapThenSumSet, MapThenFoldSet, Pick
<1>2. ASSUME NEW g PROVE P(g) <=> IsIter(m, Invoices, g)
  <2> HIDE DEF owed
  <2>1. \A s \in SUBSET Invoices : s # {} => owed(Pick(s)) = m[Pick(s)]
    BY PickIn
  <2> HIDE DEF m
  <2>2. [s \in SUBSET Invoices |-> IF s = {} THEN 0 ELSE owed(Pick(s)) + g[s \ {Pick(s)}]]
          = [s \in SUBSET Invoices |-> Unfold(m, g, s)]
    BY <2>1 DEF Unfold
  <2> QED BY <2>2 DEF IsIter
<1>3. Sum(m, Invoices) = (CHOOSE g : IsIter(m, Invoices, g))[Invoices]
  BY DEF Sum, SumFunctionOnSet, FoldFunctionOnSet, MapThenFoldSet, IsIter, Unfold, Pick
<1>4. Sum(m, Invoices) = OwedBy(inv)
  BY DEF OwedBy, Owed
<1> HIDE DEF P, m
<1>5. (CHOOSE g : P(g)) = (CHOOSE g : IsIter(m, Invoices, g))
  BY <1>2
<1> QED BY <1>1, <1>3, <1>4, <1>5

(* A payment more. *)
LEMMA PaymentAdded ==
  ASSUME NEW ps \in SUBSET PaymentRow, IsFiniteSet(ps), NEW new \in PaymentRow, new \notin ps
  PROVE  /\ IsFiniteSet(ps \cup {new})
         /\ PaidIn(ps) \in Int /\ PaidIn(ps \cup {new}) = PaidIn(ps) + new.amount
         /\ Held(ps) \in Int /\ Held(ps \cup {new}) = Held(ps) + new.unapplied
<1> DEFINE all == ps \cup {new}
           a == [p \in all |-> p.amount]
           u == [p \in all |-> p.unapplied]
           a0 == [p \in ps |-> p.amount]
           u0 == [p \in ps |-> p.unapplied]
<1>1. IsFiniteSet(all)
  BY FS_AddElement
<1>2. Summable(a, all) /\ Summable(u, all) /\ Summable(a0, ps) /\ Summable(u0, ps)
  BY <1>1 DEF Summable, PaymentRow
<1>3. /\ \A p \in ps : a0[p] = a[p] /\ u0[p] = u[p]
      /\ a[new] = new.amount /\ u[new] = new.unapplied
  OBVIOUS
<1>4. PaidIn(ps) = Sum(a0, ps) /\ Held(ps) = Sum(u0, ps) /\ PaidIn(all) = Sum(a, all) /\ Held(all) = Sum(u, all)
  BY DEF PaidIn, Held
<1> HIDE DEF a, u, a0, u0
<1>5. Sum(a, all) = Sum(a, ps) + a[new]
  BY <1>2, SumAdd
<1>6. Sum(u, all) = Sum(u, ps) + u[new]
  BY <1>2, SumAdd
<1>7. Sum(a0, ps) = Sum(a, ps)
  BY <1>2, <1>3, SumEqual
<1>8. Sum(u0, ps) = Sum(u, ps)
  BY <1>2, <1>3, SumEqual
<1>9. Sum(a0, ps) \in Int
  BY <1>2, SumType
<1>10. Sum(u0, ps) \in Int
  BY <1>2, SumType
<1> QED BY <1>1, <1>3, <1>4, <1>5, <1>6, <1>7, <1>8, <1>9, <1>10

(* A payment in the place of another. *)
LEMMA PaymentReplaced ==
  ASSUME NEW ps \in SUBSET PaymentRow, IsFiniteSet(ps), NEW old \in ps,
         NEW new \in PaymentRow, new \notin ps \ {old}
  PROVE  LET now == (ps \ {old}) \cup {new}
         IN  /\ IsFiniteSet(now)
             /\ PaidIn(ps) \in Int /\ PaidIn(now) = PaidIn(ps) - old.amount + new.amount
             /\ Held(ps) \in Int /\ Held(now) = Held(ps) - old.unapplied + new.unapplied
<1> DEFINE rest == ps \ {old}
<1>1. rest \in SUBSET PaymentRow /\ old \in PaymentRow /\ old \notin rest /\ rest \cup {old} = ps
  OBVIOUS
<1>2. IsFiniteSet(rest)
  BY FS_RemoveElement
<1> HIDE DEF rest
<1>3. /\ PaidIn(rest) \in Int /\ PaidIn(rest \cup {old}) = PaidIn(rest) + old.amount
      /\ Held(rest) \in Int /\ Held(rest \cup {old}) = Held(rest) + old.unapplied
  BY <1>1, <1>2, PaymentAdded
<1>4. new \notin rest
  BY DEF rest
<1>5. /\ IsFiniteSet(rest \cup {new})
      /\ PaidIn(rest \cup {new}) = PaidIn(rest) + new.amount
      /\ Held(rest \cup {new}) = Held(rest) + new.unapplied
  BY <1>1, <1>2, <1>4, PaymentAdded
<1>6. old.amount \in Int /\ old.unapplied \in Int /\ new.amount \in Int /\ new.unapplied \in Int
  BY <1>1 DEF PaymentRow
<1>7. /\ PaidIn(ps) \in Int /\ PaidIn(rest \cup {new}) = PaidIn(ps) - old.amount + new.amount
      /\ Held(ps) \in Int /\ Held(rest \cup {new}) = Held(ps) - old.unapplied + new.unapplied
  <2>1. PaidIn(ps) = PaidIn(rest) + old.amount /\ Held(ps) = Held(rest) + old.unapplied
    <3>1. rest \cup {old} = ps
      BY <1>1
    <3> QED BY <1>3, <3>1
  <2> QED BY <1>3, <1>5, <1>6, <2>1
<1> QED BY <1>5, <1>7 DEF rest

-----------------------------------------------------------------------------
(* The steps, by what they do to the books.  Only a commit moves money or  *)
(* changes what an invoice owes; the others change at most the status of   *)
(* rows that stay.                                                         *)

Unbilled == {"absent", "draft", "deleted"}

Restated ==
    /\ UNCHANGED <<payments, acct>>
    /\ \A i \in Invoices :
          /\ inv'[i].gross = inv[i].gross /\ inv'[i].paid = inv[i].paid
          /\ inv'[i].bal = inv[i].bal /\ inv'[i].je = inv[i].je
          /\ \/ inv'[i].status = inv[i].status
             \/ inv[i].status \notin {"absent", "deleted"} /\ inv'[i].status \notin Unbilled

(* Only a commit changes amounts; every other step leaves them as they   *)
(* are.                                                                  *)
LEMMA BookSteps ==
  ASSUME PaymentsInv, [Next]_vars, ~ \E w \in Workers : Commit(w)
  PROVE  Restated
<1>0. inv \in [Invoices -> Row]
  BY DEF PaymentsInv, Shapes
<1>1. CASE UNCHANGED books
  BY <1>1 DEF books, Restated
<1>2. ASSUME NEW w \in Workers, Restate(w) PROVE Restated
  <2> DEFINE i == job[w].doc
  <2>1. PICK s \in {"paid", "partially_paid"} : Rewrite(i, [inv[i] EXCEPT !.status = s])
    BY <1>2 DEF Restate
  <2>2. UNCHANGED <<payments, acct>>
    BY <1>2 DEF Restate
  <2>3. CASE i \in Invoices /\ Exists(i)
    <3>1. inv' = [inv EXCEPT ![i] = [inv[i] EXCEPT !.status = s]]
      BY <2>1, <2>3, ConstantsOK DEF Rewrite, ConstantsOK
    <3>2. inv[i] \in Row
      BY <1>0, <2>3
    <3>3. \A k \in Invoices : inv'[k] = IF k = i THEN [inv[i] EXCEPT !.status = s] ELSE inv[k]
      BY <1>0, <3>1
    <3> QED BY <2>2, <2>3, <3>2, <3>3 DEF Restated, Row, Exists, Unbilled
  <2>4. CASE ~(i \in Invoices /\ Exists(i))
    <3>1. inv' = inv
      <4>1. i \in Invoices \cup {NoDoc}
        BY DEF PaymentsInv, Shapes, JobRecord
      <4> QED BY <2>1, <2>4, <4>1 DEF Rewrite
    <3> QED BY <2>2, <3>1 DEF Restated
  <2> QED BY <2>3, <2>4
<1>3. CASE MarkOverdue
  <2>1. /\ UNCHANGED <<payments, acct>>
        /\ \A i \in Invoices : \/ inv'[i] = inv[i]
                               \/ /\ inv[i].status = "posted"
                                  /\ inv'[i] = [inv[i] EXCEPT !.status = "overdue"]
    BY <1>3 DEF MarkOverdue
  <2>2. \A i \in Invoices : inv[i] \in Row
    BY <1>0
  <2> QED BY <2>1, <2>2 DEF Restated, Row, Unbilled
<1>4. ASSUME NEW w \in Workers, Request(w) PROVE UNCHANGED books
  BY <1>4 DEF Request, StartCreate, StartEdit, StartDelete, StartPost, StartRecord, StartApply,
       StartCreditNote, StartWriteOff, Start
<1>5. ASSUME NEW w \in Workers, Step(w), ~Restate(w) PROVE UNCHANGED books
  BY <1>5 DEF Step, Claim, Lookup, Link, TakeNumber, Read, ReadLines, LockRow, LockSeq,
       ReadBalance, CancelReminders, Reply, Refuse, DeadlockVictim
<1>6. ASSUME NEW w \in Workers, NEW c \in Charges, Deliver(w, c) PROVE UNCHANGED books
  BY <1>6 DEF Deliver
<1>7. ASSUME NEW c \in Charges, NEW i \in Invoices, PayAtGateway(c, i) PROVE UNCHANGED books
  BY <1>7 DEF PayAtGateway
<1>8. ASSUME NEW c \in Charges, Dismiss(c) PROVE UNCHANGED books
  BY <1>8 DEF Dismiss
<1>9. ASSUME NEW w \in Workers, Fail(w) PROVE UNCHANGED books
  BY <1>9 DEF Fail
<1>10. ASSUME UNCHANGED vars \/ Quiesced PROVE UNCHANGED books
  BY <1>10 DEF vars, books, Quiesced
<1> QED BY <1>1, <1>2, <1>3, <1>4, <1>5, <1>6, <1>7, <1>8, <1>9, <1>10 DEF Next

(* The commits that touch no payment leave the bank alone. *)
LEMMA OtherCommits ==
  ASSUME NEW w \in Workers, Commit(w), ~CommitRecord(w), ~CommitApply(w), acct \in Balances
  PROVE  /\ payments' = payments
         /\ acct'.bank = acct.bank /\ acct'.unapplied = acct.unapplied
<1>1. payments' = payments
  BY DEF Commit, CommitCreate, CommitEdit, CommitDelete, CommitPost, CommitCreditNote,
         CommitWriteOff
<1>2. acct' = acct \/ \E a : Move(0, a, 0)
  BY DEF Commit, CommitCreate, CommitEdit, CommitDelete, CommitPost, CommitCreditNote,
         CommitWriteOff
<1> QED BY <1>1, <1>2 DEF Move, Balances

(* What every commit does to the ledger accounts. *)
LEMMA MovedTypes ==
  ASSUME PaymentsInv, acct \in Balances, NEW w \in Workers, Commit(w)
  PROVE  acct' \in Balances
<1>1. job[w].amount \in Int /\ job[w].eff \in Int
  BY DEF PaymentsInv, Shapes, JobRecord
<1>2. \/ acct' = acct
      \/ Move(0, job[w].amount, 0) \/ Move(0, -job[w].amount, 0)
      \/ Move(job[w].amount, -job[w].eff, job[w].eff - job[w].amount)
      \/ Move(0, -job[w].eff, job[w].eff)
  BY DEF Commit, CommitCreate, CommitEdit, CommitDelete, CommitPost, CommitRecord, CommitApply,
         CommitCreditNote, CommitWriteOff
<1>3. \A a, b, c \in Int : Move(a, b, c) => acct' \in Balances
  BY DEF Move, Balances
<1>4. /\ 0 \in Int /\ -job[w].amount \in Int /\ -job[w].eff \in Int
      /\ job[w].eff - job[w].amount \in Int
  BY <1>1
<1> QED BY <1>1, <1>2, <1>3, <1>4, Zenon

(* A recorded payment is a new row. *)
LEMMA RecordedPayment ==
  ASSUME PaymentsInv, Table(payments), acct \in Balances, NEW w \in Workers, CommitRecord(w)
  PROVE  /\ Table(payments')
         /\ acct'.bank = acct.bank + job[w].amount
         /\ acct'.unapplied = acct.unapplied + job[w].eff - job[w].amount
         /\ PaidIn(payments) \in Int /\ PaidIn(payments') = PaidIn(payments) + job[w].amount
         /\ Held(payments) \in Int
         /\ Held(payments') = Held(payments) + job[w].amount - job[w].eff
<1>1. PICK new : /\ new = [num |-> job[w].num, amount |-> job[w].amount, applied |-> job[w].eff,
                           unapplied |-> job[w].amount - job[w].eff, ref |-> job[w].ref,
                           spent |-> job[w].eff, overlaps |-> 0]
                 /\ payments' = payments \cup {new}
  BY DEF CommitRecord
<1>2. /\ job[w].amount \in Int /\ job[w].eff \in Int /\ job[w].num \in Nat
      /\ job[w].ref \in Charges \cup {NoCharge} /\ payments \in SUBSET PaymentRow
  BY DEF PaymentsInv, Shapes, JobRecord
<1>3. \A p \in payments : p.num # job[w].num
  <2>1. Sound(job[w], payments, payNext) /\ Pending(job[w])
    BY DEF PaymentsInv, CommitRecord, At, Pending
  <2> QED BY <2>1 DEF Sound
<1>4. /\ new \in PaymentRow /\ new.num = job[w].num /\ new.amount = job[w].amount
      /\ new.unapplied = job[w].amount - job[w].eff
  BY <1>1, <1>2 DEF PaymentRow
<1>5. new \notin payments
  BY <1>3, <1>4
<1>6. /\ IsFiniteSet(payments \cup {new})
      /\ PaidIn(payments) \in Int /\ PaidIn(payments \cup {new}) = PaidIn(payments) + new.amount
      /\ Held(payments) \in Int /\ Held(payments \cup {new}) = Held(payments) + new.unapplied
  BY <1>2, <1>4, <1>5, PaymentAdded DEF Table
<1>7. Move(job[w].amount, -job[w].eff, job[w].eff - job[w].amount)
  BY DEF CommitRecord
<1>8. /\ acct'.bank = acct.bank + job[w].amount
      /\ acct'.unapplied = acct.unapplied + job[w].eff - job[w].amount
  BY <1>2, <1>7 DEF Move, Balances
<1>9. Table(payments')
  BY <1>1, <1>3, <1>4, <1>6 DEF Table
<1>10. Held(payments') = Held(payments) + job[w].amount - job[w].eff
  BY <1>1, <1>2, <1>4, <1>6
<1> QED BY <1>1, <1>4, <1>6, <1>8, <1>9, <1>10

(* An application replaces the row of its payment, whose number is a key.  *)
LEMMA AppliedPayment ==
  ASSUME PaymentsInv, Table(payments), acct \in Balances, NEW w \in Workers, CommitApply(w)
  PROVE  /\ Table(payments')
         /\ acct'.bank = acct.bank
         /\ acct'.unapplied = acct.unapplied + job[w].eff
         /\ PaidIn(payments) \in Int /\ PaidIn(payments') = PaidIn(payments)
         /\ Held(payments) \in Int
         /\ job[w].pay \in payments => Held(payments') = Held(payments) - job[w].eff
<1>1. PICK old, x : old = job[w].pay /\ x = job[w].eff
  OBVIOUS
<1> DEFINE split(p) == Split(p, old, x)
<1>2. /\ payments' = {IF p.num = old.num THEN split(p) ELSE p : p \in payments}
      /\ Move(0, -x, x)
      /\ job[w].kind = "apply"
  BY <1>1 DEF CommitApply
<1>3. /\ x \in Int /\ old \in PaymentRow /\ payments \in SUBSET PaymentRow
  BY <1>1 DEF PaymentsInv, Shapes, JobRecord
<1>4. Sound(job[w], payments, payNext)
  BY DEF PaymentsInv
<1>5. PICK p0 \in payments : p0.num = old.num
  BY <1>1, <1>2, <1>4 DEF Sound
<1>6. \A p \in payments : p.num = old.num <=> p = p0
  BY <1>5 DEF Table
<1>7. p0 \in PaymentRow /\ old.applied + x \in Int /\ old.unapplied - x \in Int
  BY <1>3 DEF PaymentRow
<1>8. PICK new : new = split(p0)
  OBVIOUS
<1>9. /\ new \in PaymentRow /\ new.num = p0.num /\ new.amount = p0.amount
      /\ new.unapplied = old.unapplied - x
  BY <1>3, <1>7, <1>8, SplitShape
<1>10. payments' = (payments \ {p0}) \cup {new}
  <2> HIDE DEF split
  <2> QED BY <1>2, <1>5, <1>6, <1>8
<1>11. new \notin payments \ {p0}
  BY <1>5, <1>6, <1>9
<1>12. IsFiniteSet(payments)
  BY DEF Table
<1>13. /\ IsFiniteSet((payments \ {p0}) \cup {new})
       /\ PaidIn(payments) \in Int
       /\ PaidIn((payments \ {p0}) \cup {new}) = PaidIn(payments) - p0.amount + new.amount
       /\ Held(payments) \in Int
       /\ Held((payments \ {p0}) \cup {new}) = Held(payments) - p0.unapplied + new.unapplied
  BY <1>3, <1>9, <1>11, <1>12, PaymentReplaced
<1>14. p0.amount \in Int /\ p0.unapplied \in Int /\ old.unapplied \in Int
  BY <1>3, <1>7 DEF PaymentRow
<1>15. acct'.bank = acct.bank /\ acct'.unapplied = acct.unapplied + x
  <2>1. acct.bank \in Int /\ acct.unapplied \in Int
    BY DEF Balances
  <2> HIDE DEF split
  <2> QED BY <1>2, <1>3, <2>1 DEF Move
<1>16. Table(payments')
  BY <1>5, <1>6, <1>9, <1>10, <1>13 DEF Table
<1>17. old \in payments => p0 = old
  BY <1>6
<1>18. PaidIn(payments') = PaidIn(payments)
  BY <1>9, <1>10, <1>13, <1>14
<1>19. old \in payments => Held(payments') = Held(payments) - x
  BY <1>3, <1>9, <1>10, <1>13, <1>14, <1>17
<1> QED BY <1>1, <1>13, <1>15, <1>16, <1>18, <1>19

(* The bank holds the payment on account initially. *)
LEMMA BankInit == Init => BankInv /\ acct.unapplied = -Held(payments)
<1> SUFFICES ASSUME Init PROVE BankInv /\ acct.unapplied = -Held(payments)
  OBVIOUS
<1> USE ConstantsOK DEF ConstantsOK
<1>1. /\ acct.bank = OnAccount /\ acct.unapplied = -OnAccount
      /\ acct = [bank |-> OnAccount, ar |-> OpeningGross * Cardinality(Posted),
                 unapplied |-> -OnAccount]
  BY DEF Init
<1>2. Cardinality(Posted) \in Nat
  <2>1. IsFiniteSet(Posted)
    BY FS_Subset
  <2> QED BY <2>1, FS_CardinalityType
<1>3. OpeningGross * Cardinality(Posted) \in Int
  BY <1>2
<1>4. acct \in Balances
  BY <1>1, <1>3 DEF Balances
<1>5. PaidIn({}) = 0 /\ Held({}) = 0
  BY SumEmpty DEF PaidIn, Held
<1>6. CASE OnAccount = 0
  <2>1. payments = {} /\ IsFiniteSet({})
    BY <1>6, FS_EmptySet DEF Init
  <2> QED BY <1>1, <1>4, <1>5, <1>6, <2>1 DEF BankInv, Table
<1>7. CASE OnAccount # 0
  <2>1. PICK new : new = Unspent(1, OnAccount)
    OBVIOUS
  <2>2. /\ payments = {} \cup {new} /\ new \in PaymentRow /\ {} \in SUBSET PaymentRow
        /\ new.amount = OnAccount /\ new.unapplied = OnAccount /\ new \notin {}
    BY <1>7, <2>1 DEF Init, Unspent, PaymentRow
  <2>3. IsFiniteSet({})
    BY FS_EmptySet
  <2>4. /\ IsFiniteSet({} \cup {new})
        /\ PaidIn({} \cup {new}) = PaidIn({}) + new.amount
        /\ Held({} \cup {new}) = Held({}) + new.unapplied
    BY <2>2, <2>3, PaymentAdded
  <2> QED BY <1>1, <1>4, <1>5, <2>2, <2>4 DEF BankInv, Table
<1> QED BY <1>6, <1>7

(* The bank grows by the payment a commit records. *)
LEMMA BankNext == PaymentsInv /\ BankInv /\ [Next]_vars => BankInv'
<1> SUFFICES ASSUME PaymentsInv, BankInv, [Next]_vars PROVE BankInv'
  OBVIOUS
<1> USE DEF BankInv
<1>1. CASE ~ \E w \in Workers : Commit(w)
  BY <1>1, BookSteps DEF Restated
<1>2. ASSUME NEW w \in Workers, Commit(w) PROVE BankInv'
  <2>0. acct' \in Balances
    BY <1>2, MovedTypes
  <2>1. CASE CommitRecord(w)
    BY <2>0, <2>1, RecordedPayment
  <2>2. CASE CommitApply(w)
    BY <2>0, <2>2, AppliedPayment
  <2>3. CASE ~CommitRecord(w) /\ ~CommitApply(w)
    BY <1>2, <2>0, <2>3, OtherCommits
  <2> QED BY <2>1, <2>2, <2>3
<1> QED BY <1>1, <1>2

(* The bank account has received exactly the payments on record, however   *)
(* many requests record, apply and fail (record_payment,                   *)
(* apply_unapplied_payment, create_and_post_in_tx).                        *)
THEOREM BankHoldsPayments == Spec => []BankMatchesPayments
<1>1. BankInv => BankMatchesPayments
  BY PaidInIsSum DEF BankInv, BankMatchesPayments
<1>2. Init => PaymentsInv /\ BankInv
  BY PaymentsInit, BankInit
<1>3. PaymentsInv /\ BankInv /\ [Next]_vars => (PaymentsInv /\ BankInv)'
  BY PaymentsNext, BankNext
<1> QED BY <1>1, <1>2, <1>3, PTL DEF Spec

-----------------------------------------------------------------------------
(* The steps of a worker, by what they do to its record.                   *)

Billable == {"posted", "overdue", "partially_paid", "paid", "written_off"}

(* What follows the commit of a payment. *)
Settling == {"balance", "cancel", "restate", "reply", "link"}

(* What a request knows when it starts. *)
Fresh(j) ==
    /\ j.kind \in Requests \cup {"record"}
    /\ j.pc \notin Settling \cup {"commit", "idle"}
    /\ j.kind = "record" => j.pc \in {"claim", "lookup", "number"}
    /\ j.kind = "apply" => j.pc = "read" /\ j.pay \in payments
    /\ j.kind \in {"create", "edit"} => j.amount \in Nat
    /\ j.kind = "create" => /\ j.doc \in Invoices /\ inv[j.doc].status = "absent"
                            /\ \A v \in Workers : job[v].doc # j.doc
    /\ j.kind \in {"edit", "delete", "post"} => j.doc \in Invoices /\ inv[j.doc].status = "draft"
    /\ j.kind = "post" => j.amount = inv[j.doc].gross
    /\ j.kind \in {"creditNote", "writeOff"} =>
          /\ j.doc \in Invoices /\ j.row = inv[j.doc] /\ inv[j.doc].status \in Billable

Begun(w) ==
    /\ \E j \in JobRecord : Fresh(j) /\ job' = [job EXCEPT ![w] = j]
    /\ At(w, "idle")
    /\ UNCHANGED <<books, payNext, claims, rowLock, seqLock>>

(* What a request still is when it goes on: only TakeNumber gives it a     *)
(* payment number; until its commit the books stand still; what it applies *)
(* was read from an invoice that existed then.                             *)
Onward(j, k) ==
    /\ k.kind = j.kind /\ k.doc = j.doc /\ k.amount = j.amount /\ k.ref = j.ref
    /\ k.row = j.row /\ k.pay = j.pay
    /\ j.pc # "idle"
    /\ k.pc \in Settling => j.pc \in Settling \/ j.kind \in {"record", "apply"}
    /\ k.pc = "link" => k.ref # NoCharge
    /\ IF j.pc = "number" /\ j.kind = "record"
       THEN k.pc = "read" /\ k.num = payNext /\ payNext' = payNext + 1
       ELSE k.num = j.num /\ payNext' = payNext
    /\ j.pc \in {"claim", "lookup"} <=> k.pc \in {"number", "lookup"}
    /\ k.pc \notin Settling =>
          /\ k.pc \in {"number", "lookup", "read", "row", "seq", "commit"}
          /\ UNCHANGED books
          /\ j.pc \in {"claim", "lookup", "number", "read", "lines", "row", "seq"}
    /\ k.kind \in {"record", "apply"} /\ k.pc \in {"row", "seq", "commit"} =>
          \/ j.pc = "read" /\ j.doc = NoDoc /\ k.eff = 0
          \/ j.pc = "read" /\ j.doc # NoDoc /\ Exists(j.doc)
          \/ j.pc \in {"row", "seq"} /\ k.eff = j.eff

Continued(w) == \E k \in JobRecord : Onward(job[w], k) /\ job' = [job EXCEPT ![w] = k]

Ended(w) == Finish(w) /\ payNext' = payNext

(* The record of a request that goes on to pc. *)
LEMMA GotoFields ==
  ASSUME job \in [Workers -> JobRecord], NEW w \in Workers, NEW pc, Goto(w, pc)
  PROVE  \E k : /\ job' = [job EXCEPT ![w] = k]
                /\ k.pc = pc /\ k.kind = job[w].kind /\ k.doc = job[w].doc
                /\ k.amount = job[w].amount /\ k.ref = job[w].ref /\ k.row = job[w].row
                /\ k.pay = job[w].pay /\ k.num = job[w].num /\ k.eff = job[w].eff
<1> DEFINE k == [job[w] EXCEPT !.pc = pc]
<1>1. job[w] \in JobRecord
  OBVIOUS
<1>2. /\ k.pc = pc /\ k.kind = job[w].kind /\ k.doc = job[w].doc
      /\ k.amount = job[w].amount /\ k.ref = job[w].ref /\ k.row = job[w].row
      /\ k.pay = job[w].pay /\ k.num = job[w].num /\ k.eff = job[w].eff
  BY <1>1 DEF JobRecord
<1>3. job' = [job EXCEPT ![w] = k]
  BY DEF Goto
<1> HIDE DEF k
<1> QED BY <1>2, <1>3

(* Each step of a request that is not its last goes on with the same       *)
(* request.                                                                *)
LEMMA ContinueSteps ==
  ASSUME PaymentsInv, NEW w \in Workers,
         \/ Claim(w) \/ (Lookup(w) /\ ~Finish(w)) \/ TakeNumber(w) \/ Read(w) \/ ReadLines(w)
         \/ LockRow(w) \/ LockSeq(w) \/ CommitRecord(w) \/ CommitApply(w)
         \/ ReadBalance(w) \/ CancelReminders(w) \/ Restate(w)
  PROVE  \E k : Onward(job[w], k) /\ job' = [job EXCEPT ![w] = k]
<1>0. /\ job \in [Workers -> JobRecord] /\ job[w] \in JobRecord
      /\ Sound(job[w], payments, payNext)
  BY DEF PaymentsInv, Shapes
<1> USE DEF Settling
<1>1. ASSUME NEW pc, Goto(w, pc), payNext' = payNext,
             job[w].pc # "idle",
             pc \in Settling => job[w].pc \in Settling \/ job[w].kind \in {"record", "apply"},
             job[w].pc = "number" => job[w].kind # "record",
             pc = "link" => job[w].ref # NoCharge,
             job[w].pc \in {"claim", "lookup"} <=> pc \in {"number", "lookup"},
             pc \notin Settling =>
                /\ pc \in {"number", "lookup", "read", "row", "seq", "commit"}
                /\ UNCHANGED books
                /\ job[w].pc \in {"claim", "lookup", "number", "row", "seq"},
             job[w].kind \in {"record", "apply"} /\ pc \in {"row", "seq", "commit"} =>
                job[w].pc \in {"row", "seq"}
      PROVE  \E k : Onward(job[w], k) /\ job' = [job EXCEPT ![w] = k]
  <2>1. PICK k : /\ job' = [job EXCEPT ![w] = k]
                 /\ k.pc = pc /\ k.kind = job[w].kind /\ k.doc = job[w].doc
                 /\ k.amount = job[w].amount /\ k.ref = job[w].ref /\ k.row = job[w].row
                 /\ k.pay = job[w].pay /\ k.num = job[w].num /\ k.eff = job[w].eff
    BY <1>0, <1>1, GotoFields
  <2>2. Onward(job[w], k)
    BY <1>1, <2>1 DEF Onward
  <2> QED BY <2>1, <2>2
<1>2. CASE Claim(w)
  <2>1. PICK pc \in {"number", "lookup"} : Goto(w, pc)
    BY <1>2 DEF Claim
  <2> QED BY <1>1, <1>2, <2>1 DEF Claim, At
<1>3. CASE Lookup(w) /\ ~Finish(w)
  BY <1>1, <1>3 DEF Lookup, At
<1>4. CASE TakeNumber(w)
  <2>1. CASE job[w].kind = "record"
    <3> DEFINE k == [job[w] EXCEPT !.num = payNext, !.pc = "read"]
    <3>1. /\ job' = [job EXCEPT ![w] = k] /\ payNext' = payNext + 1 /\ UNCHANGED books
          /\ job[w].pc = "number"
      BY <1>4, <2>1 DEF TakeNumber, At
    <3>2. /\ k.pc = "read" /\ k.kind = job[w].kind /\ k.doc = job[w].doc
          /\ k.amount = job[w].amount /\ k.ref = job[w].ref /\ k.row = job[w].row
          /\ k.pay = job[w].pay /\ k.num = payNext
      BY <1>0 DEF JobRecord
    <3> HIDE DEF k
    <3>3. Onward(job[w], k)
      BY <2>1, <3>1, <3>2 DEF Onward
    <3> QED BY <3>1, <3>3
  <2>2. CASE job[w].kind # "record"
    <3>1. job[w].pc = "number" /\ job[w].kind \in {"create", "creditNote"}
      BY <1>0, <1>4, <2>2 DEF Sound, TakeNumber, At
    <3>2. PICK pc \in {"commit", "seq"} : Goto(w, pc)
      BY <1>4, <2>2, <3>1 DEF TakeNumber, Order
    <3>3. UNCHANGED books /\ payNext' = payNext
      BY <1>4, <2>2 DEF TakeNumber
    <3> QED BY <1>1, <2>2, <3>1, <3>2, <3>3
  <2> QED BY <2>1, <2>2
<1>5. CASE Read(w)
  <2> DEFINE pc == IF Effective(w) = 0 THEN "seq" ELSE "row"
             k == [job[w] EXCEPT !.eff = Effective(w), !.pc = pc]
  <2>1. /\ job' = [job EXCEPT ![w] = k] /\ payNext' = payNext /\ UNCHANGED books
        /\ job[w].pc = "read" /\ pc \in {"seq", "row"} /\ Readable(w)
    BY <1>5 DEF Read, At
  <2> HIDE DEF pc
  <2>2. /\ k.pc = pc /\ k.kind = job[w].kind /\ k.doc = job[w].doc
        /\ k.amount = job[w].amount /\ k.ref = job[w].ref /\ k.row = job[w].row
        /\ k.pay = job[w].pay /\ k.num = job[w].num /\ k.eff = Effective(w)
    BY <1>0 DEF JobRecord
  <2>3. job[w].doc = NoDoc => Effective(w) = 0
    BY DEF Effective
  <2> HIDE DEF k
  <2>4. Onward(job[w], k)
    BY <2>1, <2>2, <2>3 DEF Onward, Readable
  <2> QED BY <2>1, <2>4
<1>6. CASE ReadLines(w)
  <2> DEFINE x == IF Exists(job[w].doc) THEN inv[job[w].doc].gross ELSE 0
             k == [job[w] EXCEPT !.pc = "seq", !.eff = x]
  <2>1. /\ job' = [job EXCEPT ![w] = k] /\ payNext' = payNext /\ UNCHANGED books
        /\ job[w].pc = "lines"
    BY <1>6 DEF ReadLines, At
  <2>2. job[w].kind = "post"
    BY <1>0, <2>1 DEF Sound
  <2> HIDE DEF x
  <2>3. /\ k.pc = "seq" /\ k.kind = job[w].kind /\ k.doc = job[w].doc
        /\ k.amount = job[w].amount /\ k.ref = job[w].ref /\ k.row = job[w].row
        /\ k.pay = job[w].pay /\ k.num = job[w].num
    BY <1>0 DEF JobRecord
  <2> HIDE DEF k
  <2>4. Onward(job[w], k)
    BY <2>1, <2>2, <2>3 DEF Onward
  <2> QED BY <2>1, <2>4
<1>7. CASE LockRow(w) \/ LockSeq(w)
  <2>1. PICK pc \in {"row", "seq", "commit"} : Goto(w, pc)
    BY <1>7 DEF LockRow, LockSeq, After, Order
  <2>2. UNCHANGED books /\ payNext' = payNext /\ job[w].pc \in {"row", "seq"}
    BY <1>7 DEF LockRow, LockSeq, At
  <2> QED BY <1>1, <2>1, <2>2
<1>8. CASE CommitRecord(w)
  <2>1. PICK pc \in {"reply", "link", "balance"} :
           Goto(w, pc) /\ (pc = "link" => job[w].ref # NoCharge)
    BY <1>8 DEF CommitRecord, Goto, Answer
  <2> QED BY <1>1, <1>8, <2>1 DEF CommitRecord, At
<1>9. CASE CommitApply(w)
  BY <1>1, <1>9 DEF CommitApply, At
<1>10. CASE ReadBalance(w)
  <2> DEFINE x == IF Exists(job[w].doc) THEN inv[job[w].doc].bal ELSE 0
             k == [job[w] EXCEPT !.eff = x, !.pc = "cancel"]
  <2>1. /\ job' = [job EXCEPT ![w] = k] /\ payNext' = payNext /\ job[w].pc = "balance"
    BY <1>10 DEF ReadBalance, At
  <2> HIDE DEF x
  <2>2. /\ k.pc = "cancel" /\ k.kind = job[w].kind /\ k.doc = job[w].doc
        /\ k.amount = job[w].amount /\ k.ref = job[w].ref /\ k.row = job[w].row
        /\ k.pay = job[w].pay /\ k.num = job[w].num
    BY <1>0 DEF JobRecord
  <2> HIDE DEF k
  <2>3. Onward(job[w], k)
    BY <2>1, <2>2 DEF Onward
  <2> QED BY <2>1, <2>3
<1>11. CASE CancelReminders(w) \/ Restate(w)
  <2>1. PICK pc \in {"restate", "reply", "link"} :
           Goto(w, pc) /\ (pc = "link" => job[w].ref # NoCharge)
    BY <1>11 DEF CancelReminders, Restate, Answer
  <2>2. payNext' = payNext /\ job[w].pc \in {"cancel", "restate"}
    BY <1>11 DEF CancelReminders, Restate, At
  <2> QED BY <1>1, <2>1, <2>2
<1> QED BY <1>2, <1>3, <1>4, <1>5, <1>6, <1>7, <1>8, <1>9, <1>10, <1>11

(* A request starts with what it read. *)
LEMMA BeginSteps ==
  ASSUME PaymentsInv, NEW w \in Workers, Request(w) \/ \E c \in Charges : Deliver(w, c)
  PROVE  /\ \E j : Fresh(j) /\ job' = [job EXCEPT ![w] = j]
         /\ At(w, "idle")
         /\ UNCHANGED <<books, payNext, claims, rowLock, seqLock>>
<1> USE ConstantsOK DEF ConstantsOK, Settling
<1>0. \A i \in Invoices : inv[i].status \in Statuses
  BY DEF PaymentsInv, Shapes, Row
<1>1. ASSUME NEW j, Start(w, j), Fresh(j)
      PROVE  /\ \E k : Fresh(k) /\ job' = [job EXCEPT ![w] = k]
             /\ At(w, "idle")
             /\ UNCHANGED <<books, payNext, claims, rowLock, seqLock>>
  BY <1>1 DEF Start, gateway
<1>2. ASSUME NEW i \in Invoices, NEW a \in Amounts, StartCreate(w, i, a)
      PROVE  \E j : Start(w, j) /\ Fresh(j)
  <2>1. Start(w, Job("number", "create", i, a)) /\ Fresh(Job("number", "create", i, a))
    BY <1>2 DEF StartCreate, Start, Job, Fresh
  <2> QED BY <2>1
<1>3. ASSUME NEW i \in Invoices, NEW a \in Amounts, StartEdit(w, i, a)
      PROVE  \E j : Start(w, j) /\ Fresh(j)
  <2>1. Start(w, Job("row", "edit", i, a)) /\ Fresh(Job("row", "edit", i, a))
    BY <1>3 DEF StartEdit, Start, Job, Fresh
  <2> QED BY <2>1
<1>4. ASSUME NEW i \in Invoices, StartDelete(w, i) PROVE \E j : Start(w, j) /\ Fresh(j)
  <2>1. Start(w, Job("row", "delete", i, 0)) /\ Fresh(Job("row", "delete", i, 0))
    BY <1>4 DEF StartDelete, Start, Job, Fresh
  <2> QED BY <2>1
<1>5. ASSUME NEW i \in Invoices, StartPost(w, i) PROVE \E j : Start(w, j) /\ Fresh(j)
  <2>1. /\ Start(w, Job("lines", "post", i, inv[i].gross))
        /\ Fresh(Job("lines", "post", i, inv[i].gross))
    BY <1>5 DEF StartPost, Start, Job, Fresh
  <2> QED BY <2>1
<1>6. ASSUME NEW i, NEW a \in Amounts, StartRecord(w, i, a) PROVE \E j : Start(w, j) /\ Fresh(j)
  <2>1. Start(w, Job("number", "record", i, a)) /\ Fresh(Job("number", "record", i, a))
    BY <1>6 DEF StartRecord, Start, Job, Fresh
  <2> QED BY <2>1
<1>7. ASSUME NEW p \in payments, NEW i \in Invoices, NEW a \in Amounts, StartApply(w, p, i, a)
      PROVE  \E j : Start(w, j) /\ Fresh(j)
  <2> DEFINE j == [Job("read", "apply", i, a) EXCEPT !.pay = p]
  <2>1. j.kind = "apply" /\ j.pc = "read" /\ j.pay = p
    BY DEF Job
  <2>2. Start(w, j)
    BY <1>7 DEF StartApply
  <2> HIDE DEF j
  <2>3. Fresh(j)
    BY <2>1, <2>2 DEF Fresh, Start
  <2> QED BY <2>2, <2>3
<1>8. ASSUME NEW i \in Invoices, NEW a \in Amounts,
             StartCreditNote(w, i, a) \/ StartWriteOff(w, i, a)
      PROVE  \E j : Start(w, j) /\ Fresh(j)
  <2>1. PICK pc \in {"number", "seq"}, kind \in {"creditNote", "writeOff"} :
           Start(w, [Job(pc, kind, i, a) EXCEPT !.row = inv[i]])
    BY <1>8 DEF StartCreditNote, StartWriteOff
  <2> DEFINE j == [Job(pc, kind, i, a) EXCEPT !.row = inv[i]]
  <2>2. Start(w, j) /\ j.pc = pc /\ j.kind = kind /\ j.doc = i /\ j.row = inv[i]
    BY <2>1 DEF Job
  <2>3. inv[i].status \in Billable
    BY <1>0, <1>8 DEF StartCreditNote, StartWriteOff, Exists, Statuses, Billable
  <2> HIDE DEF j
  <2>4. Fresh(j)
    BY <2>1, <2>2, <2>3 DEF Fresh, Start
  <2> QED BY <2>2, <2>4
<1>9. ASSUME NEW c \in Charges, Deliver(w, c)
      PROVE  /\ \E j : Fresh(j) /\ job' = [job EXCEPT ![w] = j]
             /\ At(w, "idle")
             /\ UNCHANGED <<books, payNext, claims, rowLock, seqLock>>
  <2>1. PICK pc \in {"claim", "lookup"} :
           job' = [job EXCEPT ![w] =
                      [Job(pc, "record", charge[c].doc, charge[c].amount) EXCEPT !.ref = c]]
    BY <1>9 DEF Deliver
  <2> DEFINE j == [Job(pc, "record", charge[c].doc, charge[c].amount) EXCEPT !.ref = c]
  <2>2. j.pc = pc /\ j.kind = "record" /\ job' = [job EXCEPT ![w] = j]
    BY <2>1 DEF Job
  <2> HIDE DEF j
  <2>3. Fresh(j)
    BY <2>1, <2>2 DEF Fresh
  <2> QED BY <1>9, <2>2, <2>3 DEF Deliver, gateway
<1>10. CASE Request(w)
  <2>1. \E j : Start(w, j) /\ Fresh(j)
    BY <1>2, <1>3, <1>4, <1>5, <1>6, <1>7, <1>8, <1>10 DEF Request
  <2> QED BY <1>1, <2>1
<1> QED BY <1>9, <1>10

(* The work of one worker. *)
Works(w) == Request(w) \/ Step(w) \/ Fail(w) \/ \E c \in Charges : Deliver(w, c)

(* A request begins, goes on or ends, and leaves the others alone. *)
LEMMA WorkerSteps ==
  ASSUME PaymentsInv, [Next]_vars, NEW w \in Workers, Works(w)
  PROVE  /\ Begun(w) \/ Continued(w) \/ Ended(w)
         /\ \A v \in Workers : v # w => job'[v] = job[v]
<1>0. PaymentsInv' /\ job \in [Workers -> JobRecord] /\ job' \in [Workers -> JobRecord]
  BY PaymentsNext DEF PaymentsInv, Shapes
<1>1. ASSUME NEW k, job' = [job EXCEPT ![w] = k]
      PROVE  k \in JobRecord /\ \A v \in Workers : v # w => job'[v] = job[v]
  <2>1. job'[w] = k
    BY <1>0, <1>1
  <2> QED BY <1>0, <1>1, <2>1
<1>2. CASE Request(w) \/ \E c \in Charges : Deliver(w, c)
  BY <1>1, <1>2, BeginSteps DEF Begun
<1>3. CASE \/ Claim(w) \/ (Lookup(w) /\ ~Finish(w)) \/ TakeNumber(w) \/ Read(w) \/ ReadLines(w)
           \/ LockRow(w) \/ LockSeq(w) \/ CommitRecord(w) \/ CommitApply(w)
           \/ ReadBalance(w) \/ CancelReminders(w) \/ Restate(w)
  BY <1>1, <1>3, ContinueSteps DEF Continued
<1>4. CASE \/ (Lookup(w) /\ Finish(w)) \/ Link(w) \/ Reply(w) \/ Refuse(w) \/ DeadlockVictim(w)
           \/ Fail(w) \/ CommitCreate(w) \/ CommitEdit(w) \/ CommitDelete(w) \/ CommitPost(w)
           \/ CommitCreditNote(w) \/ CommitWriteOff(w)
  <2>1. Ended(w)
    BY <1>4 DEF Ended, Lookup, Link, Reply, Refuse, DeadlockVictim, Fail, CommitCreate, CommitEdit,
         CommitDelete, CommitPost, CommitCreditNote, CommitWriteOff
  <2> QED BY <1>1, <2>1 DEF Ended, Finish
<1> QED BY <1>2, <1>3, <1>4 DEF Works, Step, Commit

(* The steps of nobody: payers, gateways, the scheduler. *)
LEMMA OutsideSteps ==
  ASSUME PaymentsInv, [Next]_vars, ~ \E w \in Workers : Works(w)
  PROVE  /\ UNCHANGED <<job, payNext, payments, acct, rowLock, seqLock>>
         /\ \A i \in Invoices : \/ inv'[i] = inv[i]
                                \/ /\ inv[i].status = "posted"
                                   /\ inv'[i] = [inv[i] EXCEPT !.status = "overdue"]
         /\ \/ claims' = claims
            \/ \E c \in Charges, n \in {NoClaim, Unlinked} : claims' = [claims EXCEPT ![c] = n]
<1>1. CASE UNCHANGED vars \/ Quiesced
  BY <1>1 DEF vars, Quiesced
<1>2. CASE MarkOverdue
  BY <1>2 DEF MarkOverdue, gateway
<1>3. ASSUME NEW c \in Charges, NEW i \in Invoices, PayAtGateway(c, i)
      PROVE  /\ UNCHANGED <<inv, job, payNext, payments, acct, rowLock, seqLock>>
             /\ \E n \in {NoClaim, Unlinked} : claims' = [claims EXCEPT ![c] = n]
  BY <1>3 DEF PayAtGateway, books
<1>4. ASSUME NEW c \in Charges, Dismiss(c)
      PROVE  UNCHANGED <<inv, job, payNext, payments, acct, rowLock, seqLock, claims>>
  BY <1>4 DEF Dismiss, books
<1>5. \/ \E w \in Workers : Works(w)
      \/ \E c \in Charges, i \in Invoices : PayAtGateway(c, i)
      \/ \E c \in Charges : Dismiss(c)
      \/ MarkOverdue \/ Quiesced \/ UNCHANGED vars
  BY DEF Next, Works
<1> QED BY <1>1, <1>2, <1>3, <1>4, <1>5

-----------------------------------------------------------------------------
(* What the commit of a request j makes of the row s of its invoice. *)
Became(j, s, r) ==
    CASE j.kind = "edit" ->
            /\ r.gross = j.amount /\ r.bal = j.amount
            /\ r.paid = s.paid /\ r.je = s.je /\ r.status = s.status
      [] j.kind = "delete" -> r = Billed("deleted", 0, FALSE)
      [] j.kind = "post" ->
            /\ r.status = "posted" /\ r.je = TRUE
            /\ r.gross = s.gross /\ r.paid = s.paid /\ r.bal = s.bal
      [] j.kind \in {"record", "apply"} ->
            /\ r.gross = s.gross /\ r.je = s.je
            /\ r.paid = s.paid + j.eff /\ r.bal = s.bal - j.eff
            /\ r.status \in {"paid", "partially_paid"}
      [] j.kind = "creditNote" ->
            /\ r.gross = s.gross /\ r.je = s.je
            /\ r.paid = j.row.paid + j.amount /\ r.bal = j.row.bal - j.amount
            /\ r.status \in {"paid", "partially_paid"}
      [] j.kind = "writeOff" ->
            /\ r.gross = s.gross /\ r.je = s.je
            /\ r.paid = s.paid + j.amount /\ r.bal = s.bal - j.amount
            /\ r.status \in {"written_off", j.row.status}
      [] OTHER -> FALSE

(* A rewritten row is one row that existed. *)
LEMMA Rewritten ==
  ASSUME inv \in [Invoices -> Row], NEW i \in Invoices \cup {NoDoc}, NEW r, Rewrite(i, r)
  PROVE  \/ i \in Invoices /\ Exists(i) /\ inv' = [inv EXCEPT ![i] = r]
         \/ inv' = inv /\ (i = NoDoc \/ ~Exists(i))
BY ConstantsOK DEF ConstantsOK, Rewrite

(* A commit other than a creation changes the row of its invoice, or finds *)
(* it gone, or applies nothing.                                            *)
LEMMA CommitRows ==
  ASSUME PaymentsInv, NEW w \in Workers, Commit(w), ~CommitCreate(w)
  PROVE  \/ /\ job[w].doc \in Invoices /\ Exists(job[w].doc)
            /\ \E r : Became(job[w], inv[job[w].doc], r) /\ inv' = [inv EXCEPT ![job[w].doc] = r]
         \/ /\ inv' = inv
            /\ \/ job[w].doc = NoDoc \/ ~Exists(job[w].doc)
               \/ job[w].kind = "record" /\ job[w].eff = 0
<1> DEFINE j == job[w]
           i == j.doc
           Done == \/ /\ i \in Invoices /\ Exists(i)
                      /\ \E r : Became(j, inv[i], r) /\ inv' = [inv EXCEPT ![i] = r]
                   \/ /\ inv' = inv
                      /\ i = NoDoc \/ ~Exists(i) \/ (j.kind = "record" /\ j.eff = 0)
<1>0. /\ inv \in [Invoices -> Row] /\ i \in Invoices \cup {NoDoc}
      /\ j.amount \in Int /\ j.eff \in Int /\ j.row \in Row
      /\ i \in Invoices => inv[i] \in Row
  BY DEF PaymentsInv, Shapes, JobRecord
<1>1. ASSUME NEW r, Rewrite(i, r), i \in Invoices => Became(j, inv[i], r) PROVE Done
  <2>1. \/ i \in Invoices /\ Exists(i) /\ inv' = [inv EXCEPT ![i] = r]
        \/ inv' = inv /\ (i = NoDoc \/ ~Exists(i))
    <3> HIDE DEF i
    <3> QED BY <1>0, <1>1, Rewritten
  <2> QED BY <1>1, <2>1
<1>2. CASE CommitEdit(w)
  <2>1. PICK r : Rewrite(i, r) /\ r = [inv[i] EXCEPT !.gross = j.amount, !.bal = j.amount]
    BY <1>2 DEF CommitEdit
  <2>2. i \in Invoices => Became(j, inv[i], r)
    BY <1>0, <1>2, <2>1 DEF Became, Row, CommitEdit
  <2> QED BY <1>1, <2>1, <2>2
<1>3. CASE CommitDelete(w)
  <2>1. Became(j, inv[i], Billed("deleted", 0, FALSE)) /\ Rewrite(i, Billed("deleted", 0, FALSE))
    BY <1>3 DEF CommitDelete, Became
  <2> QED BY <1>1, <2>1
<1>4. CASE CommitPost(w)
  <2>1. PICK r : Rewrite(i, r) /\ r = [inv[i] EXCEPT !.status = "posted", !.je = TRUE]
    BY <1>4 DEF CommitPost
  <2>2. i \in Invoices => Became(j, inv[i], r)
    BY <1>0, <1>4, <2>1 DEF Became, Row, CommitPost
  <2> QED BY <1>1, <2>1, <2>2
<1>5. CASE CommitRecord(w) \/ CommitApply(w)
  <2>1. CASE inv' = inv /\ j.kind = "record" /\ j.eff = 0
    BY <2>1
  <2>2. CASE Rewrite(i, Settled(Reduced(inv[i], j.eff)))
    <3>1. PICK r : r = Settled(Reduced(inv[i], j.eff))
      OBVIOUS
    <3>2. i \in Invoices => /\ r.gross = inv[i].gross /\ r.je = inv[i].je
                            /\ r.paid = inv[i].paid + j.eff /\ r.bal = inv[i].bal - j.eff
                            /\ r.status \in {"paid", "partially_paid"}
      BY <1>0, <3>1 DEF Settled, Reduced, Row
    <3>3. j.kind \in {"record", "apply"}
      BY <1>5 DEF CommitRecord, CommitApply
    <3>4. i \in Invoices => Became(j, inv[i], r)
      BY <3>2, <3>3 DEF Became
    <3> QED BY <1>1, <2>2, <3>1, <3>4
  <2> QED BY <1>5, <2>1, <2>2 DEF CommitRecord, CommitApply
<1>6. CASE CommitCreditNote(w)
  <2> DEFINE new == Reduced(j.row, j.amount)
  <2>1. new.bal = j.row.bal - j.amount /\ new.paid = j.row.paid + j.amount
    BY <1>0 DEF Reduced, Row
  <2>2. PICK r : /\ Rewrite(i, r)
                 /\ r = Settled([inv[i] EXCEPT !.bal = new.bal, !.paid = new.paid])
    BY <1>6 DEF CommitCreditNote
  <2> HIDE DEF new
  <2>3. i \in Invoices => /\ r.gross = inv[i].gross /\ r.je = inv[i].je
                          /\ r.paid = new.paid /\ r.bal = new.bal
                          /\ r.status \in {"paid", "partially_paid"}
    BY <1>0, <2>2 DEF Settled, Row
  <2>4. j.kind = "creditNote"
    BY <1>6 DEF CommitCreditNote
  <2>5. i \in Invoices => Became(j, inv[i], r)
    BY <2>1, <2>3, <2>4 DEF Became
  <2> QED BY <1>1, <2>2, <2>5
<1>7. CASE CommitWriteOff(w)
  <2>1. PICK s \in {"written_off", j.row.status} :
           Rewrite(i, [Reduced(inv[i], j.amount) EXCEPT !.status = s])
    BY <1>7 DEF CommitWriteOff
  <2>2. PICK r : r = [Reduced(inv[i], j.amount) EXCEPT !.status = s]
    OBVIOUS
  <2>3. i \in Invoices => /\ r.gross = inv[i].gross /\ r.je = inv[i].je
                          /\ r.paid = inv[i].paid + j.amount /\ r.bal = inv[i].bal - j.amount
                          /\ r.status = s
    BY <1>0, <2>2 DEF Reduced, Row
  <2>4. j.kind = "writeOff"
    BY <1>7 DEF CommitWriteOff
  <2>5. i \in Invoices => Became(j, inv[i], r)
    BY <2>1, <2>3, <2>4 DEF Became
  <2> QED BY <1>1, <2>1, <2>2, <2>5
<1> QED BY <1>2, <1>3, <1>4, <1>5, <1>6, <1>7 DEF Commit

(* How rows change, then: restated, created, or as a commit makes them.    *)
LEMMA RowSteps ==
  ASSUME PaymentsInv, [Next]_vars
  PROVE  \/ Restated
         \/ \E w \in Workers : CommitCreate(w)
         \/ \E w \in Workers : Commit(w) /\ ~CommitCreate(w) /\ inv' = inv
         \/ \E w \in Workers, r \in Row :
               /\ Commit(w) /\ ~CommitCreate(w)
               /\ job[w].doc \in Invoices /\ Exists(job[w].doc)
               /\ Became(job[w], inv[job[w].doc], r)
               /\ \A k \in Invoices : inv'[k] = IF k = job[w].doc THEN r ELSE inv[k]
<1>1. CASE ~ \E w \in Workers : Commit(w)
  BY <1>1, BookSteps
<1>2. ASSUME NEW w \in Workers, Commit(w), ~CommitCreate(w), inv' # inv
      PROVE  \E r \in Row : /\ job[w].doc \in Invoices /\ Exists(job[w].doc)
                            /\ Became(job[w], inv[job[w].doc], r)
                            /\ \A k \in Invoices : inv'[k] = IF k = job[w].doc THEN r ELSE inv[k]
  <2>0. inv \in [Invoices -> Row] /\ inv' \in [Invoices -> Row]
    BY PaymentsNext DEF PaymentsInv, Shapes
  <2>1. PICK r : /\ job[w].doc \in Invoices /\ Exists(job[w].doc)
                 /\ Became(job[w], inv[job[w].doc], r)
                 /\ inv' = [inv EXCEPT ![job[w].doc] = r]
    BY <1>2, CommitRows
  <2>2. \A k \in Invoices : inv'[k] = IF k = job[w].doc THEN r ELSE inv[k]
    BY <2>0, <2>1
  <2>3. r \in Row
    BY <2>0, <2>1, <2>2
  <2> QED BY <2>1, <2>2, <2>3
<1> QED BY <1>1, <1>2

-----------------------------------------------------------------------------
(* What holds of every request and every row, however requests interleave. *)

RowOK(r) == r.gross \in Nat /\ (r.status \in Unbilled => r.paid = 0 /\ r.je = FALSE)

JobOK(j, rows, n) ==
    /\ j.kind \in Requests \cup {"none", "record"}
    /\ j.pc \in Settling => j.kind \in {"record", "apply"}
    /\ j.pc = "link" => j.kind = "record"
    /\ j.kind = "record" /\ j.pc \notin {"claim", "lookup", "number"} => 1 =< j.num /\ j.num < n
    /\ j.kind \in {"create", "edit"} => j.amount \in Nat
    /\ j.kind = "create" => j.doc \in Invoices /\ rows[j.doc].status = "absent"
    /\ j.kind = "writeOff" => j.row.status \in Billable
    /\ j.kind \in {"edit", "delete", "post", "creditNote", "writeOff"} =>
          j.doc \in Invoices /\ rows[j.doc].status # "absent"

(* Two requests never create the same invoice. *)
Creators ==
    \A v, w \in Workers :
        v # w /\ job[v].kind = "create" /\ job[w].kind = "create" => job[v].doc # job[w].doc

JobsInv ==
    /\ \A w \in Workers : JobOK(job[w], inv, payNext)
    /\ \A i \in Invoices : RowOK(inv[i])
    /\ Creators
    /\ payNext >= 2
    /\ \A p \in payments : p.num >= 1
    /\ \A c \in Charges : NoClaim =< claims[c] /\ claims[c] < payNext

(* No request is under way at first. *)
LEMMA JobsInit == Init => JobsInv
<1> SUFFICES ASSUME Init PROVE JobsInv
  OBVIOUS
<1> USE ConstantsOK DEF ConstantsOK
<1>1. \A w \in Workers : job[w] = Idle
  BY DEF Init
<1>2. \A rows, n : JobOK(Idle, rows, n)
  BY IdleSound DEF JobOK, Settling
<1>3. Idle.kind = "none"
  BY IdleSound
<1>4. Creators
  BY <1>1, <1>3 DEF Creators
<1>5. \A i \in Invoices : RowOK(inv[i])
  BY DEF Init, RowOK, Billed, NoRow, Unbilled
<1>6. payNext >= 2 /\ \A p \in payments : p.num >= 1
  BY DEF Init, Unspent
<1>7. \A c \in Charges : NoClaim =< claims[c] /\ claims[c] < payNext
  BY DEF Init, NoClaim
<1> QED BY <1>1, <1>2, <1>4, <1>5, <1>6, <1>7 DEF JobsInv

(* Rows keep to their rules; a row stays once it is there, and only its    *)
(* creator brings it in.                                                   *)
LEMMA RowsKept ==
  ASSUME PaymentsInv, JobsInv, [Next]_vars
  PROVE  /\ \A i \in Invoices : RowOK(inv'[i])
         /\ \A i \in Invoices : inv[i].status # "absent" => inv'[i].status # "absent"
         /\ \A i \in Invoices : inv[i].status = "absent" =>
               inv'[i].status = "absent" \/ \E w \in Workers : CommitCreate(w) /\ job[w].doc = i
<1>0. inv \in [Invoices -> Row] /\ \A i \in Invoices : RowOK(inv[i])
  BY DEF PaymentsInv, Shapes, JobsInv
<1>1. CASE Restated
  BY <1>0, <1>1 DEF Restated, RowOK, Unbilled
<1>2. ASSUME NEW w \in Workers, CommitCreate(w)
      PROVE  \A i \in Invoices : inv'[i] = IF i = job[w].doc THEN Billed("draft", job[w].amount, FALSE)
                                           ELSE inv[i]
  BY <1>0, <1>2 DEF CommitCreate
<1>3. ASSUME NEW w \in Workers, CommitCreate(w)
      PROVE  RowOK(Billed("draft", job[w].amount, FALSE))
  BY <1>3 DEF CommitCreate, JobsInv, JobOK, RowOK, Billed
<1>4. CASE \E w \in Workers : CommitCreate(w)
  <2>1. PICK w \in Workers : CommitCreate(w)
    BY <1>4
  <2>2. Billed("draft", job[w].amount, FALSE).status = "draft"
    BY DEF Billed
  <2> HIDE DEF RowOK
  <2> QED BY <1>0, <1>2, <1>3, <2>1, <2>2
<1>5. ASSUME NEW w \in Workers, NEW r \in Row, Commit(w),
             job[w].doc \in Invoices, Exists(job[w].doc), Became(job[w], inv[job[w].doc], r)
      PROVE  RowOK(r) /\ r.status # "absent"
  <2>1. /\ RowOK(inv[job[w].doc]) /\ JobOK(job[w], inv, payNext)
        /\ inv[job[w].doc].status \notin {"absent", "deleted"}
    BY <1>5 DEF JobsInv, Exists
  <2>2. CASE job[w].kind = "edit"
    BY <1>5, <2>1, <2>2 DEF Became, RowOK, JobOK
  <2>3. CASE job[w].kind = "delete"
    BY <1>5, <2>1, <2>3 DEF Became, RowOK, Billed
  <2>4. CASE job[w].kind \in {"post", "record", "apply", "creditNote"}
    BY <1>5, <2>1, <2>4 DEF Became, RowOK, Unbilled
  <2>5. CASE job[w].kind = "writeOff"
    BY <1>5, <2>1, <2>5 DEF Became, RowOK, JobOK, Unbilled, Billable
  <2> QED BY <1>5, <2>2, <2>3, <2>4, <2>5 DEF Became
<1>6. CASE \E w \in Workers, r \in Row :
              /\ Commit(w) /\ ~CommitCreate(w)
              /\ job[w].doc \in Invoices /\ Exists(job[w].doc)
              /\ Became(job[w], inv[job[w].doc], r)
              /\ \A k \in Invoices : inv'[k] = IF k = job[w].doc THEN r ELSE inv[k]
  <2>1. PICK w \in Workers, r \in Row :
              /\ Commit(w)
              /\ job[w].doc \in Invoices /\ Exists(job[w].doc)
              /\ Became(job[w], inv[job[w].doc], r)
              /\ \A k \in Invoices : inv'[k] = IF k = job[w].doc THEN r ELSE inv[k]
    BY <1>6
  <2>2. RowOK(r) /\ r.status # "absent" /\ inv[job[w].doc].status # "absent"
    BY <1>5, <2>1 DEF Exists
  <2> HIDE DEF RowOK
  <2> QED BY <1>0, <2>1, <2>2
<1>7. CASE inv' = inv
  BY <1>0, <1>7
<1> QED BY <1>1, <1>4, <1>6, <1>7, RowSteps

(* Every step keeps requests in their places. *)
LEMMA JobsNext == PaymentsInv /\ JobsInv /\ [Next]_vars => JobsInv'
<1> SUFFICES ASSUME PaymentsInv, JobsInv, [Next]_vars PROVE JobsInv'
  OBVIOUS
<1>0. /\ payNext \in Nat /\ payNext' \in Nat /\ payments \subseteq PaymentRow
      /\ job \in [Workers -> JobRecord] /\ job' \in [Workers -> JobRecord]
      /\ claims \in [Charges -> Int] /\ claims' \in [Charges -> Int]
  BY PaymentsNext DEF PaymentsInv, Shapes
<1>1. /\ \A i \in Invoices : RowOK(inv'[i])
      /\ \A i \in Invoices : inv[i].status # "absent" => inv'[i].status # "absent"
      /\ \A i \in Invoices : inv[i].status = "absent" =>
            inv'[i].status = "absent" \/ \E w \in Workers : CommitCreate(w) /\ job[w].doc = i
  BY RowsKept
<1>2. ASSUME NEW w \in Workers, CommitCreate(w) PROVE job[w].kind = "create" /\ job'[w].kind = "none"
  BY <1>0, <1>2, IdleSound DEF CommitCreate, Finish
<1>3. payNext' >= payNext
  <2>1. CASE \E w \in Workers : Works(w)
    BY <1>0, <2>1, WorkerSteps DEF Begun, Continued, Onward, Ended
  <2>2. CASE ~ \E w \in Workers : Works(w)
    BY <1>0, <2>2, OutsideSteps
  <2> QED BY <2>1, <2>2
<1>4. ASSUME NEW j \in JobRecord, NEW v \in Workers, job[v] = j, job'[v] = j
      PROVE  JobOK(j, inv', payNext')
  <2>1. JobOK(j, inv, payNext)
    BY <1>4 DEF JobsInv
  <2>2. j.kind = "create" => inv'[j.doc].status = "absent"
    BY <1>1, <1>2, <1>4, <2>1 DEF JobOK, JobsInv, Creators
  <2>3. j.num \in Nat
    BY DEF JobRecord
  <2> QED BY <1>0, <1>1, <1>3, <2>1, <2>2, <2>3 DEF JobOK
<1>5. ASSUME NEW w \in Workers, Works(w)
      PROVE  (\A v \in Workers : JobOK(job'[v], inv', payNext')) /\ Creators'
  <2>1. \A v \in Workers : v # w => job'[v] = job[v] /\ JobOK(job'[v], inv', payNext')
    BY <1>0, <1>4, <1>5, WorkerSteps
  <2>2. CASE Ended(w)
    <3>1. job'[w] = Idle
      BY <1>0, <2>2 DEF Ended, Finish
    <3>2. JobOK(Idle, inv', payNext') /\ Idle.kind = "none"
      BY IdleSound DEF JobOK, Settling
    <3> QED BY <2>1, <3>1, <3>2 DEF JobsInv, Creators
  <2>3. CASE Begun(w)
    <3>1. PICK j \in JobRecord : Fresh(j) /\ job'[w] = j /\ UNCHANGED <<inv, payNext>>
      BY <1>0, <2>3 DEF Begun, books
    <3>2. JobOK(j, inv', payNext')
      BY <3>1 DEF JobOK, Fresh, Billable, Settling
    <3>3. Creators'
      BY <2>1, <3>1 DEF JobsInv, Creators, Fresh
    <3> QED BY <2>1, <3>1, <3>2, <3>3
  <2>4. CASE Continued(w)
    <3>1. PICK k \in JobRecord : Onward(job[w], k) /\ job'[w] = k
      BY <1>0, <2>4 DEF Continued
    <3>2. JobOK(job[w], inv, payNext) /\ job[w].num \in Nat
      BY <1>0 DEF JobsInv, JobRecord
    <3>3. k.kind = "create" => inv'[k.doc].status = "absent"
      <4>1. k.kind = job[w].kind /\ k.doc = job[w].doc
        BY <3>1 DEF Onward
      <4>2. ASSUME CommitCreate(w), k.kind = "create" PROVE FALSE
        BY <1>2, <3>1, <4>2
      <4>3. ASSUME NEW v \in Workers, CommitCreate(v), v # w, k.kind = "create"
            PROVE  job[v].doc # job[w].doc
        BY <1>2, <4>1, <4>3 DEF JobsInv, Creators
      <4>4. k.kind = "create" => k.doc \in Invoices /\ inv[k.doc].status = "absent"
        BY <3>2, <4>1 DEF JobOK
      <4> QED BY <1>1, <4>1, <4>2, <4>3, <4>4
    <3>4. k.kind = "record" /\ k.pc \notin {"claim", "lookup", "number"} =>
             1 =< k.num /\ k.num < payNext'
      BY <1>0, <1>3, <3>1, <3>2 DEF Onward, JobOK, JobsInv
    <3>5. k.pc = "link" => k.kind = "record"
      <4>1. Sound(job[w], payments, payNext)
        BY DEF PaymentsInv
      <4> QED BY <3>1, <4>1 DEF Onward, Sound
    <3>6. JobOK(k, inv', payNext')
      BY <1>1, <3>1, <3>2, <3>3, <3>4, <3>5 DEF Onward, JobOK
    <3>7. Creators'
      BY <2>1, <3>1 DEF JobsInv, Creators, Onward
    <3> QED BY <2>1, <3>1, <3>6, <3>7
  <2> QED BY <1>5, <2>2, <2>3, <2>4, WorkerSteps
<1>6. (\A v \in Workers : JobOK(job'[v], inv', payNext')) /\ Creators'
  <2>1. CASE ~ \E w \in Workers : Works(w)
    <3>1. job' = job
      BY <2>1, OutsideSteps
    <3> QED BY <1>0, <1>4, <3>1 DEF JobsInv, Creators
  <2> QED BY <1>5, <2>1
<1>7. \A p \in payments' : p.num >= 1
  <2>1. CASE payments' = payments
    BY <2>1 DEF JobsInv
  <2>2. ASSUME NEW w \in Workers, CommitRecord(w) PROVE \A p \in payments' : p.num >= 1
    <3>1. 1 =< job[w].num
      BY <2>2 DEF CommitRecord, At, JobsInv, JobOK
    <3>2. PICK new : new.num = job[w].num /\ payments' = payments \cup {new}
      BY <2>2 DEF CommitRecord
    <3>3. job[w].num \in Nat
      BY <1>0 DEF JobRecord
    <3> QED BY <3>1, <3>2, <3>3 DEF JobsInv
  <2>3. ASSUME NEW w \in Workers, CommitApply(w) PROVE \A p \in payments' : p.num >= 1
    <3> DEFINE old == job[w].pay
               split(p) == Split(p, old, job[w].eff)
    <3>1. payments' = {IF p.num = old.num THEN split(p) ELSE p : p \in payments}
      BY <2>3 DEF CommitApply
    <3>2. \A p \in payments : split(p).num = p.num
      <4>1. old \in PaymentRow /\ job[w].eff \in Int /\ payments \subseteq PaymentRow
        BY <1>0 DEF JobRecord
      <4> QED BY <4>1, SplitShape
    <3> HIDE DEF split
    <3> QED BY <3>1, <3>2 DEF JobsInv
  <2>4. ASSUME NEW w \in Workers, Commit(w), ~CommitRecord(w), ~CommitApply(w)
        PROVE  payments' = payments
    BY <2>4 DEF Commit, CommitCreate, CommitEdit, CommitDelete, CommitPost, CommitCreditNote,
         CommitWriteOff
  <2>5. CASE ~ \E w \in Workers : Commit(w)
    BY <2>1, <2>5, BookSteps DEF Restated
  <2> QED BY <2>1, <2>2, <2>3, <2>4, <2>5
<1>8. \A c \in Charges : NoClaim =< claims'[c] /\ claims'[c] < payNext'
  <2>0. NoClaim \in Int /\ Unlinked \in Int /\ NoClaim =< Unlinked /\ Unlinked < payNext
    BY <1>0 DEF NoClaim, Unlinked, JobsInv
  <2>1. ASSUME NEW c, NEW n \in Int, NoClaim =< n, n < payNext, claims' = [claims EXCEPT ![c] = n]
        PROVE  \A d \in Charges : NoClaim =< claims'[d] /\ claims'[d] < payNext'
    BY <1>0, <1>3, <2>1 DEF JobsInv
  <2>2. CASE claims' = claims
    BY <1>0, <1>3, <2>2 DEF JobsInv
  <2>3. CASE ~ \E w \in Workers : Works(w)
    <3>1. \A n \in {NoClaim, Unlinked} : n \in Int /\ NoClaim =< n /\ n < payNext
      BY <1>0, <2>0
    <3> QED BY <2>1, <2>2, <2>3, <3>1, OutsideSteps
  <2>4. ASSUME NEW w \in Workers, Claim(w)
        PROVE  claims' = claims \/ \E c : claims' = [claims EXCEPT ![c] = Unlinked]
    BY <2>4 DEF Claim
  <2>5. ASSUME NEW w \in Workers, Link(w)
        PROVE  claims' = claims \/ \E c : claims' = [claims EXCEPT ![c] = job[w].num]
    BY <2>5 DEF Link
  <2>6. ASSUME NEW w \in Workers, Link(w)
        PROVE  job[w].num \in Int /\ NoClaim =< job[w].num /\ job[w].num < payNext
    <3>1. job[w].pc = "link" /\ job[w].num \in Nat
      BY <1>0, <2>6 DEF Link, At, JobRecord
    <3>2. job[w].num < payNext
      BY <3>1 DEF JobsInv, JobOK
    <3> QED BY <1>0, <3>1, <3>2 DEF NoClaim
  <2>7. ASSUME NEW w \in Workers, Works(w), ~Claim(w), ~Link(w) PROVE claims' = claims
    BY <2>7 DEF Works, Request, StartCreate, StartEdit, StartDelete, StartPost, StartRecord,
         StartApply, StartCreditNote, StartWriteOff, Start, Step, Lookup, TakeNumber, Read,
         ReadLines, LockRow, LockSeq, Commit, CommitCreate, CommitEdit, CommitDelete, CommitPost,
         CommitRecord, CommitApply, CommitCreditNote, CommitWriteOff, ReadBalance,
         CancelReminders, Restate, Reply, Refuse, DeadlockVictim, Fail, Deliver, gateway
  <2> QED BY <2>0, <2>1, <2>2, <2>3, <2>4, <2>5, <2>6, <2>7
<1>9. payNext' >= 2
  BY <1>0, <1>3 DEF JobsInv
<1> QED BY <1>1, <1>6, <1>7, <1>8, <1>9 DEF JobsInv

-----------------------------------------------------------------------------
(* A transaction holds the locks it has taken so far, in its own order.    *)

HoldsRow(j) == j.pc = "commit" \/ (j.pc = "seq" /\ j.kind \in {"record", "apply"})
HoldsSeq(j) == j.pc = "commit" \/ (j.pc = "row" /\ j.kind \in {"post", "creditNote", "writeOff"})

LockInv ==
    /\ rowLock \in [Invoices -> Workers \cup {Nobody}]
    /\ seqLock \in Workers \cup {Nobody}
    /\ \A i \in Invoices : rowLock[i] # Nobody => HoldsRow(job[rowLock[i]])
    /\ seqLock # Nobody => HoldsSeq(job[seqLock])

(* A request takes or gives back locks, or leaves them and works         *)
(* without.                                                              *)
LEMMA LockSteps ==
  ASSUME NEW w \in Workers, Works(w)
  PROVE  \/ Unlock(w) \/ LockRow(w) \/ LockSeq(w)
         \/ UNCHANGED <<rowLock, seqLock>> /\ job[w].pc \notin {"row", "seq", "commit"}
<1>1. CASE Request(w) \/ \E c \in Charges : Deliver(w, c)
  <2>1. (\E j : Start(w, j)) \/ \E c \in Charges : Deliver(w, c)
    BY <1>1 DEF Request, StartCreate, StartEdit, StartDelete, StartPost, StartRecord,
         StartApply, StartCreditNote, StartWriteOff
  <2> QED BY <2>1 DEF Start, Deliver, At
<1>2. CASE Commit(w) \/ Link(w) \/ Reply(w) \/ Refuse(w) \/ DeadlockVictim(w) \/ Fail(w)
  BY <1>2 DEF Commit, CommitCreate, CommitEdit, CommitDelete, CommitPost, CommitRecord,
       CommitApply, CommitCreditNote, CommitWriteOff, Link, Reply, Refuse, DeadlockVictim, Fail,
       Finish
<1>3. CASE \/ Claim(w) \/ Lookup(w) \/ TakeNumber(w) \/ Read(w) \/ ReadLines(w)
           \/ ReadBalance(w) \/ CancelReminders(w) \/ Restate(w)
  BY <1>3 DEF Claim, Lookup, TakeNumber, Read, ReadLines, ReadBalance, CancelReminders, Restate,
       Finish, At
<1> QED BY <1>1, <1>2, <1>3 DEF Works, Step

(* Locks stay with the transactions that took them. *)
LEMMA LockNext == PaymentsInv /\ LockInv /\ [Next]_vars => LockInv'
<1> SUFFICES ASSUME PaymentsInv, LockInv, [Next]_vars PROVE LockInv'
  OBVIOUS
<1> USE ConstantsOK DEF ConstantsOK
<1>0. /\ job \in [Workers -> JobRecord] /\ job' \in [Workers -> JobRecord]
      /\ rowLock \in [Invoices -> Workers \cup {Nobody}] /\ seqLock \in Workers \cup {Nobody}
  BY PaymentsNext DEF PaymentsInv, Shapes, LockInv
<1>1. CASE ~ \E w \in Workers : Works(w)
  BY <1>1, OutsideSteps DEF LockInv
<1>2. ASSUME NEW w \in Workers, Works(w) PROVE LockInv'
  <2>0. \A v \in Workers : v # w => job'[v] = job[v]
    BY <1>2, WorkerSteps
  <2>1. CASE Unlock(w)
    <3>1. /\ rowLock' \in [Invoices -> Workers \cup {Nobody}]
          /\ \A i \in Invoices : rowLock'[i] # w /\ (rowLock'[i] = rowLock[i] \/ rowLock'[i] = Nobody)
          /\ seqLock' # w /\ (seqLock' = seqLock \/ seqLock' = Nobody)
      BY <1>0, <2>1 DEF Unlock
    <3> QED BY <1>0, <2>0, <3>1 DEF LockInv
  <2>2. CASE LockRow(w)
    <3> DEFINE pc == After(job[w].kind, "row")
    <3>1. /\ rowLock' = [rowLock EXCEPT ![job[w].doc] = w] /\ seqLock' = seqLock
          /\ job[w].pc = "row" /\ Goto(w, pc)
      BY <2>2 DEF LockRow, At
    <3>2. /\ rowLock' \in [Invoices -> Workers \cup {Nobody}]
          /\ \A i \in Invoices : rowLock'[i] = w \/ rowLock'[i] = rowLock[i]
      BY <1>0, <3>1
    <3>3. job'[w].pc = pc /\ job'[w].kind = job[w].kind
      <4>1. PICK k : job' = [job EXCEPT ![w] = k] /\ k.pc = pc /\ k.kind = job[w].kind
        BY <1>0, <3>1, GotoFields
      <4> QED BY <1>0, <4>1
    <3>4. HoldsRow(job'[w])
      BY <3>3 DEF HoldsRow, After, Order
    <3>5. \A i \in Invoices : rowLock'[i] # Nobody => HoldsRow(job'[rowLock'[i]])
      BY <1>0, <2>0, <3>2, <3>4 DEF LockInv
    <3>6. seqLock' # Nobody => HoldsSeq(job'[seqLock'])
      <4>1. CASE seqLock = w
        BY <3>1, <3>3, <4>1 DEF LockInv, HoldsSeq, After, Order
      <4>2. CASE seqLock # w
        BY <1>0, <2>0, <3>1, <4>2 DEF LockInv
      <4> QED BY <4>1, <4>2
    <3> QED BY <1>0, <3>1, <3>2, <3>5, <3>6 DEF LockInv
  <2>3. CASE LockSeq(w)
    <3> DEFINE pc == After(job[w].kind, "seq")
    <3>1. /\ seqLock' = w /\ rowLock' = rowLock
          /\ job[w].pc = "seq" /\ Goto(w, pc)
      BY <2>3 DEF LockSeq, At
    <3>2. job'[w].pc = pc /\ job'[w].kind = job[w].kind
      <4>1. PICK k : job' = [job EXCEPT ![w] = k] /\ k.pc = pc /\ k.kind = job[w].kind
        BY <1>0, <3>1, GotoFields
      <4> QED BY <1>0, <4>1
    <3>3. HoldsSeq(job'[w])
      BY <3>2 DEF HoldsSeq, After, Order
    <3>4. \A i \in Invoices : rowLock'[i] # Nobody => HoldsRow(job'[rowLock'[i]])
      <4> SUFFICES ASSUME NEW i \in Invoices, rowLock[i] # Nobody PROVE HoldsRow(job'[rowLock[i]])
        BY <3>1
      <4>0. rowLock[i] \in Workers /\ HoldsRow(job[rowLock[i]])
        BY <1>0 DEF LockInv
      <4>1. CASE rowLock[i] = w
        BY <3>1, <3>2, <4>0, <4>1 DEF HoldsRow, After, Order
      <4>2. CASE rowLock[i] # w
        BY <2>0, <4>0, <4>2
      <4> QED BY <4>1, <4>2
    <3> QED BY <1>0, <3>1, <3>3, <3>4 DEF LockInv
  <2>4. CASE UNCHANGED <<rowLock, seqLock>> /\ job[w].pc \notin {"row", "seq", "commit"}
    <3>1. seqLock # w /\ \A i \in Invoices : rowLock[i] # w
      BY <2>4 DEF LockInv, HoldsRow, HoldsSeq
    <3> QED BY <1>0, <2>0, <2>4, <3>1 DEF LockInv
  <2> QED BY <1>2, <2>1, <2>2, <2>3, <2>4, LockSteps
<1> QED BY <1>1, <1>2

(* Rows, requests and claims keep the shapes of the tables, and only a     *)
(* transaction under way holds a lock, so an error, a deadlock or a crash  *)
(* leaves none behind (the handlers of services/invoicing.rs and           *)
(* services/payments.rs).                                                  *)
THEOREM ReceivablesTyped == Spec => []TypeOK
<1> DEFINE I == PaymentsInv /\ JobsInv /\ LockInv
<1>1. Init => I
  <2>1. Init => LockInv
    BY DEF Init, LockInv
  <2> QED BY <2>1, PaymentsInit, JobsInit
<1>2. I /\ [Next]_vars => I'
  BY PaymentsNext, JobsNext, LockNext
<1>3. I => TypeOK
  <2> SUFFICES ASSUME I PROVE TypeOK
    OBVIOUS
  <2>1. ASSUME NEW i \in Invoices
        PROVE  /\ inv[i].status \in Statuses /\ inv[i].gross \in Nat /\ inv[i].bal \in Int
               /\ rowLock[i] \in Workers \cup {Nobody}
               /\ rowLock[i] # Nobody => job[rowLock[i]].pc \in {"seq", "commit"}
    BY DEF PaymentsInv, Shapes, Row, JobsInv, RowOK, LockInv, HoldsRow
  <2>2. \A p \in payments : p.num \in 1..(payNext - 1)
    <3>1. \A p \in payments : p.num \in Nat /\ p.num >= 1 /\ p.num < payNext
      BY DEF PaymentsInv, Shapes, PaymentRow, NumbersDiffer, JobsInv
    <3> QED BY <3>1 DEF PaymentsInv, Shapes
  <2>3. \A c \in Charges : claims[c] \in NoClaim..(payNext - 1)
    <3>1. \A c \in Charges : claims[c] \in Int /\ NoClaim =< claims[c] /\ claims[c] < payNext
      BY DEF PaymentsInv, Shapes, JobsInv
    <3> QED BY <3>1 DEF PaymentsInv, Shapes, NoClaim
  <2>4. \A w \in Workers : job[w].pc \in Pcs
    BY DEF PaymentsInv, Shapes, JobRecord
  <2>5. seqLock # Nobody => job[seqLock].pc \in {"row", "commit"}
    BY DEF LockInv, HoldsSeq
  <2> QED BY <2>1, <2>2, <2>3, <2>4, <2>5 DEF TypeOK
<1> QED BY <1>1, <1>2, <1>3, PTL DEF Spec

-----------------------------------------------------------------------------
(* Requests one at a time: what a request read before its transaction is   *)
(* still so when it commits.                                               *)

Serial == \A v, w \in Workers : v = w

Stands(r) == r.status \notin {"absent", "deleted"}
Spending(j) ==
    j.kind \in {"record", "apply"} /\ j.pc \in {"row", "seq", "commit"} /\ j.eff # 0

(* What is settled by a commit is settled on an invoice that is there. *)
Lasting(j, rows) ==
    /\ j.kind = "writeOff" => Stands(rows[j.doc])
    /\ Spending(j) => j.doc # NoDoc /\ Stands(rows[j.doc])

Current(j, rows, ps) ==
    /\ Lasting(j, rows)
    /\ j.kind \in {"edit", "delete", "post"} => rows[j.doc].status = "draft"
    /\ j.kind = "post" => j.amount = rows[j.doc].gross
    /\ j.kind = "creditNote" =>
          /\ Stands(rows[j.doc]) /\ j.row.gross = rows[j.doc].gross
          /\ j.row.paid = rows[j.doc].paid /\ j.row.bal = rows[j.doc].bal
    /\ j.kind = "apply" /\ j.pc \in {"read", "row", "seq", "commit"} => j.pay \in ps

SerialInv == Serial => \A w \in Workers : Current(job[w], inv, payments)

(* No request rewrites an invoice from what it read earlier. *)
NoRewriting == Requests \cap {"edit", "delete", "post", "creditNote"} = {}

LastingInv == NoRewriting => \A w \in Workers : Lasting(job[w], inv)

(* A worker's own steps keep what it spends on a standing invoice. *)
LEMMA OwnLasting ==
  ASSUME PaymentsInv, JobsInv, [Next]_vars, NEW w \in Workers, Works(w), Lasting(job[w], inv)
  PROVE  Lasting(job'[w], inv')
<1>0. job \in [Workers -> JobRecord] /\ JobOK(job[w], inv, payNext)
  BY DEF PaymentsInv, Shapes, JobsInv
<1>1. CASE Ended(w)
  <2>1. job'[w] = Idle
    BY <1>0, <1>1 DEF Ended, Finish
  <2> QED BY <2>1, IdleSound DEF Lasting, Spending
<1>2. CASE Begun(w)
  <2>1. PICK j \in JobRecord : Fresh(j) /\ job'[w] = j /\ inv' = inv
    BY <1>0, <1>2 DEF Begun, books
  <2> QED BY <2>1 DEF Fresh, Lasting, Spending, Stands, Billable
<1>3. CASE Continued(w)
  <2>1. PICK k \in JobRecord : Onward(job[w], k) /\ job'[w] = k
    BY <1>0, <1>3 DEF Continued
  <2>2. CASE k.pc \in Settling
    BY <1>0, <2>1, <2>2 DEF Onward, Lasting, Spending, JobOK, Settling
  <2>3. CASE k.pc \notin Settling
    <3>1. inv' = inv
      BY <2>1, <2>3 DEF Onward, books
    <3>2. k.kind = "writeOff" => Stands(inv[k.doc])
      BY <2>1 DEF Onward, Lasting
    <3>3. Spending(k) => k.doc # NoDoc /\ Stands(inv[k.doc])
      BY <2>1 DEF Onward, Lasting, Spending, Exists, Stands
    <3> QED BY <2>1, <3>1, <3>2, <3>3 DEF Lasting
  <2> QED BY <2>2, <2>3
<1> QED BY <1>1, <1>2, <1>3, WorkerSteps

(* Only a deletion takes an invoice away. *)
LEMMA Standing ==
  ASSUME PaymentsInv, JobsInv, [Next]_vars, "delete" \notin Requests, NEW i \in Invoices,
         Stands(inv[i])
  PROVE  Stands(inv'[i])
<1>1. CASE Restated
  BY <1>1 DEF Restated, Stands, Unbilled
<1>2. CASE inv' = inv
  BY <1>2
<1>3. ASSUME NEW w \in Workers, CommitCreate(w) PROVE Stands(inv'[i])
  <2>1. job[w].doc # i
    BY <1>3 DEF CommitCreate, JobsInv, JobOK, Stands
  <2>2. inv'[i] = inv[i]
    BY <1>3, <2>1 DEF CommitCreate, PaymentsInv, Shapes
  <2> QED BY <2>2
<1>4. ASSUME NEW w \in Workers, NEW r \in Row,
             job[w].doc \in Invoices /\ Exists(job[w].doc),
             Became(job[w], inv[job[w].doc], r),
             \A k \in Invoices : inv'[k] = IF k = job[w].doc THEN r ELSE inv[k]
      PROVE  Stands(inv'[i])
  <2>1. JobOK(job[w], inv, payNext) /\ job[w].kind # "delete"
    BY DEF JobsInv, JobOK
  <2>2. Stands(r)
    BY <1>4, <2>1 DEF Became, Stands, Exists, JobOK, Billable
  <2> QED BY <1>4, <2>2
<1> QED BY <1>1, <1>2, <1>3, <1>4, RowSteps

(* What a request read and nobody may change stays so. *)
LEMMA LastingNext == PaymentsInv /\ JobsInv /\ LastingInv /\ [Next]_vars => LastingInv'
<1> SUFFICES ASSUME PaymentsInv, JobsInv, LastingInv, [Next]_vars, NoRewriting,
                    NEW v \in Workers
             PROVE  Lasting(job'[v], inv')
  BY DEF LastingInv, NoRewriting
<1>0. Lasting(job[v], inv) /\ "delete" \notin Requests
  BY DEF LastingInv, NoRewriting
<1>1. job[v].doc \in Invoices \cup {NoDoc} /\ JobOK(job[v], inv, payNext)
  BY DEF PaymentsInv, Shapes, JobRecord, JobsInv
<1>2. CASE job'[v] = job[v]
  <2>1. ASSUME NEW i \in Invoices, Stands(inv[i]) PROVE Stands(inv'[i])
    BY <1>0, <2>1, Standing
  <2> QED BY <1>0, <1>1, <1>2, <2>1 DEF Lasting, JobOK
<1>3. CASE Works(v)
  BY <1>0, <1>3, OwnLasting
<1>4. CASE ~ \E w \in Workers : Works(w)
  BY <1>2, <1>4, OutsideSteps
<1> QED BY <1>2, <1>3, <1>4, WorkerSteps

(* While requests come one by one, all a request read stays so. *)
LEMMA SerialNext == PaymentsInv /\ JobsInv /\ SerialInv /\ [Next]_vars => SerialInv'
<1> SUFFICES ASSUME PaymentsInv, JobsInv, SerialInv, [Next]_vars, Serial, NEW w \in Workers
             PROVE  Current(job'[w], inv', payments')
  BY DEF SerialInv, Serial
<1>0. /\ job \in [Workers -> JobRecord] /\ inv \in [Invoices -> Row]
      /\ Current(job[w], inv, payments) /\ JobOK(job[w], inv, payNext)
      /\ job[w].doc \in Invoices \cup {NoDoc}
  BY DEF PaymentsInv, Shapes, SerialInv, JobsInv, JobRecord
<1>1. CASE Works(w)
  <2>0. Lasting(job'[w], inv')
    BY <1>0, <1>1, OwnLasting DEF Current
  <2>1. CASE Ended(w)
    <3>1. job'[w] = Idle
      BY <1>0, <2>1 DEF Ended, Finish
    <3> QED BY <2>0, <3>1, IdleSound DEF Current
  <2>2. CASE Begun(w)
    <3>1. PICK j \in JobRecord : Fresh(j) /\ job'[w] = j /\ inv' = inv /\ payments' = payments
      BY <1>0, <2>2 DEF Begun, books
    <3> QED BY <2>0, <3>1 DEF Fresh, Current, Stands, Billable
  <2>3. CASE Continued(w)
    <3>1. PICK k \in JobRecord : Onward(job[w], k) /\ job'[w] = k
      BY <1>0, <2>3 DEF Continued
    <3>2. CASE k.pc \in Settling
      BY <1>0, <2>0, <3>1, <3>2 DEF Onward, Current, JobOK, Settling
    <3>3. CASE k.pc \notin Settling
      <4>1. inv' = inv /\ payments' = payments
        BY <3>1, <3>3 DEF Onward, books
      <4>2. k.kind = "apply" => job[w].pc \in {"read", "row", "seq"}
        <5>1. Sound(job[w], payments, payNext)
          BY DEF PaymentsInv
        <5> QED BY <3>1, <3>3, <5>1 DEF Onward, Sound
      <4> QED BY <1>0, <2>0, <3>1, <4>1, <4>2 DEF Onward, Current
    <3> QED BY <3>2, <3>3
  <2> QED BY <1>1, <2>1, <2>2, <2>3, WorkerSteps
<1>2. CASE ~ \E v \in Workers : Works(v)
  <2>1. /\ job' = job /\ payments' = payments
        /\ \A i \in Invoices : \/ inv'[i] = inv[i]
                               \/ /\ inv[i].status = "posted"
                                  /\ inv'[i] = [inv[i] EXCEPT !.status = "overdue"]
    BY <1>2, OutsideSteps
  <2>2. \A i \in Invoices : /\ inv'[i].gross = inv[i].gross /\ inv'[i].paid = inv[i].paid
                            /\ inv'[i].bal = inv[i].bal
                            /\ inv[i].status = "draft" => inv'[i].status = "draft"
                            /\ Stands(inv[i]) => Stands(inv'[i])
    BY <1>0, <2>1 DEF Row, Stands
  <2>3. Lasting(job[w], inv')
    BY <1>0, <2>2 DEF Current, Lasting, JobOK
  <2> QED BY <1>0, <2>1, <2>2, <2>3 DEF Current, JobOK
<1> QED BY <1>1, <1>2 DEF Serial

(* Before the first request there is nothing read. *)
LEMMA ReadingInit == Init => SerialInv /\ LastingInv
<1> SUFFICES ASSUME Init PROVE SerialInv /\ LastingInv
  OBVIOUS
<1>1. \A w \in Workers : job[w] = Idle
  BY DEF Init
<1>2. \A rows, ps : Current(Idle, rows, ps) /\ Lasting(Idle, rows)
  BY IdleSound DEF Current, Lasting, Spending
<1> QED BY <1>1, <1>2 DEF SerialInv, LastingInv

(* The payments, requests and rows, and what requests have read. *)
BaseInv == PaymentsInv /\ BankInv /\ JobsInv /\ SerialInv /\ LastingInv

(* The invariants below the one of invoices hold at first, *)
LEMMA BaseInit == Init => BaseInv
BY PaymentsInit, BankInit, JobsInit, ReadingInit DEF BaseInv

(* and every step keeps them. *)
LEMMA BaseNext == BaseInv /\ [Next]_vars => BaseInv'
BY PaymentsNext, BankNext, JobsNext, SerialNext, LastingNext DEF BaseInv

-----------------------------------------------------------------------------
(* What an invoice bills.  A credit note overwrites both columns from the  *)
(* row it read: they still add up, since no edit has changed the total.    *)
NoteOK(j, rows) ==
    j.kind = "creditNote" =>
        /\ j.row.gross = j.row.paid + j.row.bal
        /\ Stands(rows[j.doc]) => j.row.gross = rows[j.doc].gross

InvoiceInv == InvoiceConserved /\ \A w \in Workers : NoteOK(job[w], inv)

(* No invoice has been settled at first. *)
LEMMA InvoiceInit == Init => InvoiceInv
<1> SUFFICES ASSUME Init PROVE InvoiceInv
  OBVIOUS
<1>1. \A w \in Workers : job[w] = Idle
  BY DEF Init
<1>2. \A rows : NoteOK(Idle, rows)
  BY IdleSound DEF NoteOK
<1>3. InvoiceConserved
  BY ConstantsOK DEF ConstantsOK, Init, InvoiceConserved, Billed, NoRow
<1> QED BY <1>1, <1>2, <1>3 DEF InvoiceInv

(* Without edits the total of an invoice stands as long as the invoice.    *)
LEMMA GrossKept ==
  ASSUME BaseInv, [Next]_vars, "edit" \notin Requests, NEW i \in Invoices,
         inv[i].status # "absent", Stands(inv'[i])
  PROVE  Stands(inv[i]) /\ inv'[i].gross = inv[i].gross
<1> USE DEF BaseInv
<1>1. CASE Restated
  BY <1>1 DEF Restated, Stands, Unbilled
<1>2. CASE inv' = inv
  BY <1>2
<1>3. ASSUME NEW w \in Workers, CommitCreate(w)
      PROVE  Stands(inv[i]) /\ inv'[i].gross = inv[i].gross
  <2>1. job[w].doc # i
    BY <1>3 DEF CommitCreate, JobsInv, JobOK
  <2>2. inv'[i] = inv[i]
    BY <1>3, <2>1 DEF CommitCreate, PaymentsInv, Shapes
  <2> QED BY <2>2
<1>4. ASSUME NEW w \in Workers, NEW r \in Row,
             job[w].doc \in Invoices /\ Exists(job[w].doc),
             Became(job[w], inv[job[w].doc], r),
             \A k \in Invoices : inv'[k] = IF k = job[w].doc THEN r ELSE inv[k]
      PROVE  Stands(inv[i]) /\ inv'[i].gross = inv[i].gross
  <2>1. job[w].kind # "edit"
    BY DEF JobsInv, JobOK
  <2>2. Stands(r) => r.gross = inv[job[w].doc].gross
    BY <1>4, <2>1 DEF Became, Stands, Billed
  <2> QED BY <1>4, <2>2 DEF Exists, Stands
<1> QED BY <1>1, <1>2, <1>3, <1>4, RowSteps

(* Totals stay settled and due together, when requests come one by one   *)
(* or drafts are not edited.                                             *)
LEMMA InvoiceNext ==
  ASSUME Serial \/ "edit" \notin Requests
  PROVE  BaseInv /\ InvoiceInv /\ [Next]_vars => InvoiceInv'
<1> SUFFICES ASSUME BaseInv, InvoiceInv, [Next]_vars PROVE InvoiceInv'
  OBVIOUS
<1>0. /\ inv \in [Invoices -> Row] /\ job \in [Workers -> JobRecord]
      /\ JobsInv /\ PaymentsInv /\ SerialInv /\ BaseInv' /\ SerialInv'
  BY BaseNext DEF BaseInv, PaymentsInv, Shapes
<1>1. ASSUME NEW i \in Invoices PROVE inv'[i].gross = inv'[i].paid + inv'[i].bal
  <2>0. inv[i] \in Row /\ inv[i].gross = inv[i].paid + inv[i].bal
    BY <1>0 DEF InvoiceInv, InvoiceConserved
  <2>1. CASE Restated
    BY <2>0, <2>1 DEF Restated
  <2>2. CASE inv' = inv
    BY <2>0, <2>2
  <2>3. ASSUME NEW w \in Workers, CommitCreate(w) PROVE inv'[i].gross = inv'[i].paid + inv'[i].bal
    <3>1. inv'[i] = inv[i] \/ inv'[i] = Billed("draft", job[w].amount, FALSE)
      BY <1>0, <2>3 DEF CommitCreate
    <3>2. job[w].amount \in Int
      BY <1>0 DEF JobRecord
    <3> QED BY <2>0, <3>1, <3>2 DEF Billed
  <2>4. ASSUME NEW w \in Workers, NEW r \in Row,
               job[w].doc \in Invoices /\ Exists(job[w].doc),
               Became(job[w], inv[job[w].doc], r),
               \A k \in Invoices : inv'[k] = IF k = job[w].doc THEN r ELSE inv[k]
        PROVE  inv'[i].gross = inv'[i].paid + inv'[i].bal
    <3> DEFINE j == job[w]
               s == inv[j.doc]
    <3>1. /\ s \in Row /\ s.gross = s.paid + s.bal /\ JobOK(j, inv, payNext) /\ NoteOK(j, inv)
          /\ j.amount \in Int /\ j.eff \in Int /\ j.row \in Row /\ Stands(s) /\ RowOK(s)
      BY <1>0, <2>4 DEF JobsInv, InvoiceInv, InvoiceConserved, JobRecord, Exists, Stands
    <3>2. /\ s.gross \in Int /\ s.paid \in Int /\ s.bal \in Int
          /\ j.row.gross \in Int /\ j.row.paid \in Int /\ j.row.bal \in Int
      BY <3>1 DEF Row
    <3>3. j.kind = "edit" => s.paid = 0
      <4>1. j.kind = "edit" => Serial
        BY <3>1 DEF JobOK
      <4>2. j.kind = "edit" => s.status = "draft"
        BY <1>0, <4>1 DEF SerialInv, Current
      <4> QED BY <3>1, <4>2 DEF RowOK, Unbilled
    <3>4. r.gross = r.paid + r.bal
      <4> HIDE DEF s
      <4>0. Became(j, s, r)
        BY <2>4 DEF s
      <4> HIDE DEF j
      <4>1. CASE j.kind = "edit"
        BY <3>1, <3>3, <4>0, <4>1 DEF Became
      <4>2. CASE j.kind = "delete"
        BY <4>0, <4>2 DEF Became, Billed
      <4>3. CASE j.kind = "post"
        BY <3>1, <4>0, <4>3 DEF Became
      <4>4. CASE j.kind \in {"record", "apply"}
        BY <3>1, <3>2, <4>0, <4>4 DEF Became
      <4>5. CASE j.kind = "creditNote"
        <5>1. j.row.gross = j.row.paid + j.row.bal /\ j.row.gross = s.gross
          BY <3>1, <4>5 DEF NoteOK, s
        <5> QED BY <3>1, <3>2, <4>0, <4>5, <5>1 DEF Became
      <4>6. CASE j.kind = "writeOff"
        BY <3>1, <3>2, <4>0, <4>6 DEF Became
      <4> QED BY <4>0, <4>1, <4>2, <4>3, <4>4, <4>5, <4>6 DEF Became
    <3> QED BY <2>0, <2>4, <3>4
  <2> QED BY <1>0, <2>1, <2>2, <2>3, <2>4, RowSteps
<1>2. ASSUME NEW v \in Workers PROVE NoteOK(job'[v], inv')
  <2>0. NoteOK(job[v], inv) /\ JobOK(job[v], inv, payNext)
    BY <1>0 DEF InvoiceInv, JobsInv
  <2>1. ASSUME NEW k, k.kind = job[v].kind, k.doc = job[v].doc, k.row = job[v].row,
               Serial => Current(k, inv', payments')
        PROVE  NoteOK(k, inv')
    <3>1. CASE Serial
      BY <2>0, <2>1, <3>1 DEF NoteOK, Current
    <3>2. CASE "edit" \notin Requests
      <4>1. k.kind = "creditNote" => k.doc \in Invoices /\ inv[k.doc].status # "absent"
        BY <2>0, <2>1 DEF JobOK
      <4>2. ASSUME k.kind = "creditNote", Stands(inv'[k.doc])
            PROVE  Stands(inv[k.doc]) /\ inv'[k.doc].gross = inv[k.doc].gross
        BY <3>2, <4>1, <4>2, GrossKept
      <4> QED BY <2>0, <2>1, <4>2 DEF NoteOK
    <3> QED BY <3>1, <3>2
  <2>2. Serial => Current(job'[v], inv', payments')
    BY <1>0 DEF SerialInv, Serial
  <2>3. CASE job'[v] = job[v]
    BY <2>1, <2>2, <2>3
  <2>4. CASE Works(v)
    <3>1. CASE Ended(v)
      <4>1. job'[v] = Idle
        BY <1>0, <3>1 DEF Ended, Finish
      <4> QED BY <4>1, IdleSound DEF NoteOK
    <3>2. CASE Begun(v)
      <4>1. PICK j \in JobRecord : Fresh(j) /\ job'[v] = j /\ inv' = inv
        BY <1>0, <3>2 DEF Begun, books
      <4> QED BY <4>1 DEF Fresh, NoteOK, InvoiceInv, InvoiceConserved
    <3>3. CASE Continued(v)
      <4>1. PICK k \in JobRecord : Onward(job[v], k) /\ job'[v] = k
        BY <1>0, <3>3 DEF Continued
      <4> QED BY <2>1, <2>2, <4>1 DEF Onward
    <3> QED BY <1>0, <2>4, <3>1, <3>2, <3>3, WorkerSteps
  <2>5. CASE ~ \E w \in Workers : Works(w)
    <3>1. job' = job
      BY <1>0, <2>5, OutsideSteps
    <3> QED BY <2>3, <3>1
  <2> QED BY <1>0, <2>3, <2>4, <2>5, WorkerSteps
<1> QED BY <1>1, <1>2 DEF InvoiceInv, InvoiceConserved

(* What an invoice bills is what was settled plus what is due: also when a *)
(* credit note or a write-off commits over a concurrent payment, as long   *)
(* as no draft is edited meanwhile (record_payment,                        *)
(* apply_unapplied_payment, create_credit_note, write_off_invoice,         *)
(* update_invoice_draft).                                                  *)
THEOREM InvoicesConserved ==
  Serial \/ "edit" \notin Requests => (Spec => []InvoiceConserved)
<1> SUFFICES ASSUME Serial \/ "edit" \notin Requests PROVE Spec => []InvoiceConserved
  OBVIOUS
<1>1. Init => BaseInv /\ InvoiceInv
  BY BaseInit, InvoiceInit
<1>2. BaseInv /\ InvoiceInv /\ [Next]_vars => (BaseInv /\ InvoiceInv)'
  BY BaseNext, InvoiceNext
<1>3. InvoiceInv => InvoiceConserved
  BY DEF InvoiceInv
<1> QED BY <1>1, <1>2, <1>3, PTL DEF Spec

-----------------------------------------------------------------------------
(* The receivables account. *)

(* An invoice that is neither posted nor paid contributes nothing. *)
LEMMA OwedNothing == ASSUME NEW r, r.je = FALSE, r.paid = 0 PROVE Owed(r) = 0
<1>1. \A n \in Int : n >= 0 /\ n =< 0 => -n = 0
  OBVIOUS
<1>2. r.paid \in Int /\ r.paid >= 0 /\ r.paid =< 0
  OBVIOUS
<1>3. -r.paid = 0
  BY <1>1, <1>2
<1> QED BY <1>3 DEF Owed

(* What rows contribute changes with the row that changes. *)
LEMMA OwedChanged ==
  ASSUME NEW a \in [Invoices -> Row], NEW b \in [Invoices -> Row], NEW y \in Invoices,
         \A i \in Invoices \ {y} : Owed(a[i]) = Owed(b[i])
  PROVE  /\ OwedBy(a) \in Int /\ Owed(a[y]) \in Int /\ Owed(b[y]) \in Int
         /\ OwedBy(b) = OwedBy(a) - Owed(a[y]) + Owed(b[y])
<1> DEFINE f == [i \in Invoices |-> Owed(a[i])]
           g == [i \in Invoices |-> Owed(b[i])]
<1>1. \A r \in Row : Owed(r) \in Int
  BY DEF Owed, Row
<1>2. Summable(f, Invoices)
  BY <1>1, ConstantsOK DEF ConstantsOK, Summable
<1>3. /\ f[y] = Owed(a[y]) /\ g[y] = Owed(b[y]) /\ g[y] \in Int /\ f[y] \in Int
      /\ \A i \in Invoices \ {y} : f[i] = g[i]
  BY <1>1
<1>4. OwedBy(a) = Sum(f, Invoices) /\ OwedBy(b) = Sum(g, Invoices)
  BY DEF OwedBy
<1> HIDE DEF f, g
<1>5. Summable(g, Invoices) /\ Sum(g, Invoices) = Sum(f, Invoices) - f[y] + g[y]
  <2>1. g[y] \in Int
    BY <1>3
  <2>2. \A i \in Invoices \ {y} : f[i] = g[i]
    BY <1>3
  <2> QED BY <1>2, <2>1, <2>2, SumChanged
<1>6. Sum(f, Invoices) \in Int
  BY <1>2, SumType
<1> QED BY <1>3, <1>4, <1>5, <1>6

(* Invoices that owe the same one by one owe the same in all. *)
LEMMA OwedSame ==
  ASSUME NEW a \in [Invoices -> Row], NEW b \in [Invoices -> Row],
         \A i \in Invoices : Owed(a[i]) = Owed(b[i])
  PROVE  OwedBy(b) = OwedBy(a)
<1> DEFINE f == [i \in Invoices |-> Owed(a[i])]
           g == [i \in Invoices |-> Owed(b[i])]
<1>1. f = g
  OBVIOUS
<1> QED BY <1>1 DEF OwedBy

(* Initially it is the totals of the posted invoices. *)
LEMMA OwedInit == Init => acct.ar = OwedBy(inv)
<1> SUFFICES ASSUME Init PROVE acct.ar = OwedBy(inv)
  OBVIOUS
<1> USE ConstantsOK DEF ConstantsOK
<1> DEFINE f == [i \in Invoices |-> Owed(inv[i])]
           rest == Invoices \ Posted
<1>1. acct.ar = OpeningGross * Cardinality(Posted) /\ OwedBy(inv) = Sum(f, Invoices)
  BY DEF Init, OwedBy
<1>2. /\ \A i \in Posted : f[i] = OpeningGross
      /\ \A i \in rest : f[i] = 0
  <2>1. ASSUME NEW i \in Posted PROVE f[i] = OpeningGross
    BY DEF Init, Owed, Billed
  <2>2. ASSUME NEW i \in rest PROVE f[i] = 0
    <3>1. inv[i].je = FALSE /\ inv[i].paid = 0
      BY DEF Init, Billed, NoRow
    <3> QED BY <3>1, OwedNothing
  <2> QED BY <2>1, <2>2
<1>3. /\ Posted \cup rest = Invoices /\ Posted \cap rest = {}
  OBVIOUS
<1>4. IsFiniteSet(Posted) /\ IsFiniteSet(rest)
  BY FS_Subset
<1>5. Summable(f, Posted) /\ Summable(f, rest)
  BY <1>2, <1>4 DEF Summable
<1> HIDE DEF f, rest
<1>6. Sum(f, Posted) = OpeningGross * Cardinality(Posted) /\ OpeningGross \in Int
  BY <1>2, <1>4, SumConstant
<1>7. Sum(f, rest) = 0
  BY <1>2, <1>4, SumZero
<1>8. Sum(f, Posted \cup rest) = Sum(f, Posted) + Sum(f, rest)
  BY <1>3, <1>5, SumUnion
<1>9. Sum(f, Posted) \in Int
  BY <1>5, SumType
<1>10. Sum(f, Invoices) = Sum(f, Posted) + Sum(f, rest)
  BY <1>3, <1>8, Zenon
<1> QED BY <1>1, <1>6, <1>7, <1>9, <1>10

(* What each commit moves. *)
LEMMA ReceivablesMoved ==
  ASSUME BaseInv, NEW w \in Workers, Commit(w)
  PROVE  acct'.ar = acct.ar + (CASE job[w].kind = "post" -> job[w].amount
                                 [] job[w].kind \in {"record", "apply"} -> -job[w].eff
                                 [] job[w].kind \in {"creditNote", "writeOff"} -> -job[w].amount
                                 [] OTHER -> 0)
<1>0. acct.ar \in Int /\ acct \in Balances
  BY DEF BaseInv, BankInv, Balances
<1>1. CASE CommitCreate(w) \/ CommitEdit(w) \/ CommitDelete(w)
  <2>1. acct' = acct /\ job[w].kind \in {"create", "edit", "delete"}
    BY <1>1 DEF CommitCreate, CommitEdit, CommitDelete
  <2>2. acct'.ar = acct.ar + 0
    BY <1>0, <2>1
  <2> QED BY <2>1, <2>2
<1>2. CASE CommitPost(w)
  BY <1>2 DEF CommitPost, Move
<1>3. CASE CommitRecord(w)
  BY <1>3 DEF CommitRecord, Move
<1>4. CASE CommitApply(w)
  BY <1>4 DEF CommitApply, Move
<1>5. CASE CommitCreditNote(w) \/ CommitWriteOff(w)
  BY <1>5 DEF CommitCreditNote, CommitWriteOff, Move
<1> QED BY <1>1, <1>2, <1>3, <1>4, <1>5 DEF Commit

(* The receivables account follows what the invoices owe, when requests  *)
(* come one by one or no row is rewritten.                               *)
LEMMA OwedNext ==
  ASSUME Serial \/ NoRewriting
  PROVE  BaseInv /\ InvoiceInv /\ acct.ar = OwedBy(inv) /\ [Next]_vars => acct'.ar = OwedBy(inv')
<1> SUFFICES ASSUME BaseInv, InvoiceInv, acct.ar = OwedBy(inv), [Next]_vars
             PROVE  acct'.ar = OwedBy(inv')
  OBVIOUS
<1>0. /\ inv \in [Invoices -> Row] /\ inv' \in [Invoices -> Row] /\ job \in [Workers -> JobRecord]
      /\ PaymentsInv /\ JobsInv /\ acct.ar \in Int
  BY BaseNext DEF BaseInv, PaymentsInv, Shapes, BankInv, Balances
<1>1. CASE Restated
  <2>1. \A i \in Invoices : Owed(inv[i]) = Owed(inv'[i])
    BY <1>1 DEF Restated, Owed
  <2> QED BY <1>0, <1>1, <2>1, OwedSame DEF Restated
<1>2. ASSUME NEW w \in Workers, CommitCreate(w) PROVE acct'.ar = OwedBy(inv')
  <2>1. \A i \in Invoices : Owed(inv[i]) = Owed(inv'[i])
    <3>1. \A i \in Invoices : \/ inv'[i] = inv[i]
                              \/ i = job[w].doc /\ inv'[i] = Billed("draft", job[w].amount, FALSE)
      BY <1>0, <1>2 DEF CommitCreate
    <3>2. /\ job[w].doc \in Invoices /\ inv[job[w].doc].status = "absent"
      BY <1>0, <1>2 DEF CommitCreate, JobsInv, JobOK
    <3>3. inv[job[w].doc].paid = 0 /\ inv[job[w].doc].je = FALSE
      BY <1>0, <3>2 DEF JobsInv, RowOK, Unbilled
    <3>4. Owed(Billed("draft", job[w].amount, FALSE)) = 0
      BY OwedNothing DEF Billed
    <3>5. Owed(inv[job[w].doc]) = 0
      BY <3>3, OwedNothing
    <3> QED BY <3>1, <3>4, <3>5
  <2>2. acct' = acct
    BY <1>2 DEF CommitCreate
  <2> QED BY <1>0, <2>1, <2>2, OwedSame
<1>3. ASSUME NEW w \in Workers PROVE Lasting(job[w], inv) /\ (Serial => Current(job[w], inv, payments))
  BY DEF BaseInv, SerialInv, LastingInv, Current
<1>4. ASSUME NEW w \in Workers, Commit(w) PROVE job[w].pc = "commit"
  BY <1>4 DEF Commit, CommitCreate, CommitEdit, CommitDelete, CommitPost, CommitRecord,
       CommitApply, CommitCreditNote, CommitWriteOff, At
<1>5. ASSUME NEW w \in Workers PROVE job[w].kind \in {"edit", "delete", "post", "creditNote"} => Serial
  BY <1>0 DEF JobsInv, JobOK, NoRewriting
<1>6. ASSUME NEW w \in Workers, Commit(w), ~CommitCreate(w), inv' = inv,
             job[w].doc = NoDoc \/ ~Exists(job[w].doc) \/ (job[w].kind = "record" /\ job[w].eff = 0)
      PROVE  acct'.ar = acct.ar
  <2>1. job[w].pc = "commit" /\ job[w].kind # "none" /\ job[w].kind # "create"
    BY <1>4, <1>6 DEF Commit, CommitCreate, CommitEdit, CommitDelete, CommitPost, CommitRecord,
       CommitApply, CommitCreditNote, CommitWriteOff
  <2>2. JobOK(job[w], inv, payNext) /\ job[w].doc \in Invoices \cup {NoDoc} /\ NoDoc \notin Invoices
    BY <1>0, ConstantsOK DEF JobsInv, JobRecord, ConstantsOK
  <2>3. job[w].kind \in {"edit", "delete"} \/ (job[w].kind \in {"record", "apply"} /\ job[w].eff = 0)
    <3>1. job[w].kind \notin {"post", "creditNote"}
      BY <1>3, <1>5, <1>6, <2>2 DEF Current, Stands, Exists, JobOK
    <3>2. job[w].kind # "writeOff"
      BY <1>3, <1>6, <2>2 DEF Lasting, Stands, Exists, JobOK
    <3>3. job[w].kind \in {"record", "apply"} => job[w].eff = 0
      BY <1>3, <1>6, <2>1, <2>2 DEF Lasting, Spending, Stands, Exists
    <3>4. job[w].kind \in Kinds \cup {"none"}
      BY <1>0 DEF JobRecord
    <3> QED BY <2>1, <3>1, <3>2, <3>3, <3>4 DEF Kinds
  <2>4. CASE job[w].kind \in {"edit", "delete"}
    BY <1>0, <1>6, <2>4, ReceivablesMoved
  <2>5. CASE job[w].kind \in {"record", "apply"} /\ job[w].eff = 0
    BY <1>0, <1>6, <2>5, ReceivablesMoved
  <2> QED BY <2>3, <2>4, <2>5
<1>7. ASSUME NEW w \in Workers, NEW r \in Row, Commit(w), ~CommitCreate(w),
             job[w].doc \in Invoices, Exists(job[w].doc),
             Became(job[w], inv[job[w].doc], r),
             \A k \in Invoices : inv'[k] = IF k = job[w].doc THEN r ELSE inv[k]
      PROVE  acct'.ar = OwedBy(inv')
  <2>1. PICK j, s : j = job[w] /\ s = inv[job[w].doc]
    OBVIOUS
  <2>2. /\ s \in Row /\ RowOK(s) /\ Became(j, s, r) /\ j.amount \in Int /\ j.eff \in Int
        /\ s.gross = s.paid + s.bal /\ s.status # "absent"
        /\ s.gross \in Int /\ s.paid \in Int /\ s.bal \in Int /\ s.je \in BOOLEAN
    BY <1>0, <1>7, <2>1 DEF JobsInv, JobRecord, InvoiceInv, InvoiceConserved, Exists, Row
  <2>3. acct'.ar = acct.ar + (CASE j.kind = "post" -> j.amount
                                [] j.kind \in {"record", "apply"} -> -j.eff
                                [] j.kind \in {"creditNote", "writeOff"} -> -j.amount
                                [] OTHER -> 0)
    BY <1>7, <2>1, ReceivablesMoved
  <2>4. /\ Owed(s) \in Int /\ Owed(r) \in Int
        /\ OwedBy(inv') = OwedBy(inv) - Owed(s) + Owed(r)
    <3>1. \A i \in Invoices \ {job[w].doc} : Owed(inv[i]) = Owed(inv'[i])
      BY <1>7
    <3>2. inv'[job[w].doc] = r
      BY <1>7
    <3> QED BY <1>0, <1>7, <2>1, <3>1, <3>2, OwedChanged
  <2>5. j.kind \in {"edit", "delete", "post"} => s.status = "draft" /\ s.paid = 0 /\ s.je = FALSE
    <3>1. j.kind \in {"edit", "delete", "post"} => s.status = "draft"
      BY <1>3, <1>5, <2>1 DEF Current
    <3> QED BY <2>2, <3>1 DEF RowOK, Unbilled
  <2>6. j.kind = "post" => j.amount = s.gross
    BY <1>3, <1>5, <2>1 DEF Current
  <2>7. j.kind = "creditNote" => j.row.paid = s.paid /\ j.row.bal = s.bal
    BY <1>3, <1>5, <2>1 DEF Current
  <2>8. CASE j.kind = "edit"
    <3>1. Owed(s) = 0 /\ Owed(r) = 0
      BY <2>2, <2>5, <2>8 DEF Became, Owed
    <3> QED BY <1>0, <2>3, <2>4, <2>8, <3>1
  <2>9. CASE j.kind = "delete"
    <3>1. Owed(s) = 0 /\ Owed(r) = 0
      BY <2>2, <2>5, <2>9 DEF Became, Owed, Billed
    <3> QED BY <1>0, <2>3, <2>4, <2>9, <3>1
  <2>10. CASE j.kind = "post"
    <3>1. Owed(s) = 0 /\ Owed(r) = j.amount
      BY <2>2, <2>5, <2>6, <2>10 DEF Became, Owed
    <3> QED BY <1>0, <2>2, <2>3, <2>4, <2>10, <3>1
  <2>11. CASE j.kind \in {"record", "apply"}
    <3>1. Owed(r) = Owed(s) - j.eff
      BY <2>2, <2>11 DEF Became, Owed
    <3> QED BY <1>0, <2>2, <2>3, <2>4, <2>11, <3>1
  <2>12. CASE j.kind = "creditNote"
    <3>1. Owed(r) = Owed(s) - j.amount
      BY <2>2, <2>7, <2>12 DEF Became, Owed
    <3> QED BY <1>0, <2>2, <2>3, <2>4, <2>12, <3>1
  <2>13. CASE j.kind = "writeOff"
    <3>1. Owed(r) = Owed(s) - j.amount
      BY <2>2, <2>13 DEF Became, Owed
    <3> QED BY <1>0, <2>2, <2>3, <2>4, <2>13, <3>1
  <2> QED BY <2>2, <2>8, <2>9, <2>10, <2>11, <2>12, <2>13 DEF Became
<1>8. ASSUME NEW w \in Workers, Commit(w), ~CommitCreate(w), inv' = inv PROVE acct'.ar = OwedBy(inv')
  <2>1. CASE job[w].doc = NoDoc \/ ~Exists(job[w].doc) \/ (job[w].kind = "record" /\ job[w].eff = 0)
    BY <1>6, <1>8, <2>1
  <2>2. ASSUME NEW r, job[w].doc \in Invoices, Exists(job[w].doc),
               Became(job[w], inv[job[w].doc], r), inv' = [inv EXCEPT ![job[w].doc] = r]
        PROVE  acct'.ar = OwedBy(inv')
    <3>1. \A k \in Invoices : inv'[k] = IF k = job[w].doc THEN r ELSE inv[k]
      BY <1>0, <2>2
    <3>2. r \in Row
      BY <1>0, <2>2, <3>1
    <3> QED BY <1>7, <1>8, <2>2, <3>1, <3>2
  <2> QED BY <1>0, <1>8, <2>1, <2>2, CommitRows
<1> QED BY <1>0, <1>1, <1>2, <1>7, <1>8, RowSteps

(* The receivables account is what posted invoices owe, less what was      *)
(* prepaid on invoices never posted: when requests run one at a time, and  *)
(* for any interleaving of payments, applications, write-offs and new      *)
(* drafts (post_invoice, record_payment, apply_unapplied_payment,          *)
(* create_credit_note, write_off_invoice).                                 *)
THEOREM ReceivablesReconcile == Serial \/ NoRewriting => (Spec => []ArReconciles)
<1> SUFFICES ASSUME Serial \/ NoRewriting PROVE Spec => []ArReconciles
  OBVIOUS
<1> DEFINE I == BaseInv /\ InvoiceInv /\ acct.ar = OwedBy(inv)
<1>1. Init => I
  BY BaseInit, InvoiceInit, OwedInit
<1>2. Serial \/ "edit" \notin Requests
  BY DEF NoRewriting
<1>3. I /\ [Next]_vars => I'
  <2> SUFFICES ASSUME I, [Next]_vars PROVE I'
    OBVIOUS
  <2>1. BaseInv'
    BY BaseNext
  <2>2. InvoiceInv'
    BY <1>2, InvoiceNext
  <2>3. acct'.ar = OwedBy(inv')
    BY OwedNext
  <2> QED BY <2>1, <2>2, <2>3
<1>4. I => ArReconciles
  BY OwedByIsSum DEF ArReconciles
<1> QED BY <1>1, <1>3, <1>4, PTL DEF Spec

(* The unapplied-payments account is the credit customers hold: when       *)
(* requests run one at a time, and for any interleaving as long as none    *)
(* applies a credit it read before (record_payment,                        *)
(* apply_unapplied_payment).                                               *)
THEOREM CreditReconciles ==
  Serial \/ "apply" \notin Requests => (Spec => []UnappliedReconciles)
<1> SUFFICES ASSUME Serial \/ "apply" \notin Requests PROVE Spec => []UnappliedReconciles
  OBVIOUS
<1> DEFINE I == BaseInv /\ acct.unapplied = -Held(payments)
<1>1. Init => I
  BY BaseInit, BankInit
<1>2. I /\ [Next]_vars => I'
  <2> SUFFICES ASSUME I, [Next]_vars PROVE I'
    OBVIOUS
  <2>0. /\ BaseInv' /\ PaymentsInv /\ JobsInv /\ Table(payments) /\ acct \in Balances
        /\ acct.unapplied \in Int /\ job \in [Workers -> JobRecord]
    BY BaseNext DEF BaseInv, BankInv, PaymentsInv, Shapes, Balances
  <2>1. CASE ~ \E w \in Workers : Commit(w)
    BY <2>0, <2>1, BookSteps DEF Restated
  <2>2. ASSUME NEW w \in Workers, Commit(w) PROVE acct'.unapplied = -Held(payments')
    <3>0. job[w].amount \in Int /\ job[w].eff \in Int
      BY <2>0 DEF JobRecord
    <3>1. CASE CommitRecord(w)
      BY <2>0, <3>0, <3>1, RecordedPayment
    <3>2. CASE CommitApply(w)
      <4>1. job[w].kind = "apply" /\ job[w].pc = "commit"
        BY <3>2 DEF CommitApply, At
      <4>2. Serial
        BY <2>0, <4>1 DEF JobsInv, JobOK
      <4>3. job[w].pay \in payments
        BY <4>1, <4>2 DEF BaseInv, SerialInv, Current
      <4> QED BY <2>0, <3>0, <3>2, <4>3, AppliedPayment
    <3>3. CASE ~CommitRecord(w) /\ ~CommitApply(w)
      BY <2>0, <2>2, <3>3, OtherCommits
    <3> QED BY <3>1, <3>2, <3>3
  <2> QED BY <2>0, <2>1, <2>2
<1>3. I => UnappliedReconciles
  BY HeldIsSum DEF UnappliedReconciles
<1> QED BY <1>1, <1>2, <1>3, PTL DEF Spec
=============================================================================
