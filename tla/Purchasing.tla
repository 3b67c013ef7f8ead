----------------------------- MODULE Purchasing -----------------------------
(***************************************************************************)
(* Procure to pay: requisitions, tenders and bids, purchase orders, goods  *)
(* receipts, vendor bills with the three-way match, their posting and      *)
(* payment, supplier credit and debit notes, and staff expense claims.     *)
(*                                                                         *)
(* A handler is a request of a clerk.  It reads on the pool and commits in *)
(* one or more statements; each commit is an action, so two clerks         *)
(* interleave between them and a request can stop there (a crash, a        *)
(* refused posting, a lost connection).  A unit costs one, so a quantity   *)
(* is also an amount.                                                      *)
(***************************************************************************)
EXTENDS Integers, FiniteSets, FiniteSetsExt, Functions

CONSTANTS
    Clerks,         \* concurrent requests
    Flows,          \* the documents a behaviour is about
    Vendors,        \* vendors that bid
    Ordered,        \* quantity of the purchase order
    MaxReceived,    \* bound: quantity received in all
    MaxBills,       \* bound: bills
    MaxOff,         \* bound: what a bill has on lines the order does not have
    Limit,          \* approval limit of the approver's role
    Totals,         \* totals a requisition or claim may have
    MaxLapses,      \* bound: requests that stop half way
    MaxDocs         \* bound: orders, tenders or notes from one source

BillIds == 1..MaxBills

VARIABLES
    flow,           \* which of Flows
    requisition,    \* purchase_requisitions: status, estimated_total
    sourced,        \* tenders and orders a requisition was converted to
    tender,         \* tenders.status
    bids,           \* a vendor's bid: its id and status
    orders,         \* orders awarded to each vendor
    order,          \* purchase_orders.status
    received,       \* goods_receipt_lines, summed
    bills,          \* bills: status, po_id, quantity on the lines of the order and off
                    \* them, amount_paid, balance_due, entries; history: whether it was
                    \* approved without the sum of what was billed
    claim,          \* expense_claims: status, total, entries
    notes,          \* debit and supplier credit notes: issued, with an entry
    desk,           \* what each clerk is doing
    lapses

vars == <<flow, requisition, sourced, tender, bids, orders, order, received, bills, claim,
          notes, desk, lapses>>
sourcing == <<requisition, sourced>>
tendering == <<tender, bids, orders>>
billing == <<order, received, bills>>
documents == <<sourcing, tendering, billing, claim, notes>>

Bill(status, po, qty, off) ==
    [status |-> status, po |-> po, qty |-> qty, off |-> off, paid |-> 0,
     balance |-> qty + off, entries |-> 0, blind |-> FALSE]
NoBill == Bill("none", FALSE, 0, 0)

-----------------------------------------------------------------------------
(* Requests *)

Idle == [op |-> "idle", pc |-> "read", bill |-> 0, bid |-> 0, vendor |-> "none", amount |-> 0,
         off |-> 0]

At(c, op, pc) == desk[c].op = op /\ desk[c].pc = pc
Go(c, pc) == desk' = [desk EXCEPT ![c].pc = pc]
Finish(c) == desk' = [desk EXCEPT ![c] = Idle]

(* A request arrives and reads what it needs. *)
Begin(c, request) ==
    /\ desk[c].op = "idle"
    /\ desk' = [desk EXCEPT ![c] = request]
    /\ UNCHANGED <<flow, lapses, documents>>

(* The request stops between two commits: what it committed stays. *)
Lapse(c) ==
    /\ desk[c].op # "idle"
    /\ lapses < MaxLapses
    /\ lapses' = lapses + 1
    /\ Finish(c)
    /\ UNCHANGED <<flow, documents>>

Request(op) == [Idle EXCEPT !.op = op]
OnBill(op, b) == [Idle EXCEPT !.op = op, !.bill = b]

(* assert_within_limit *)
WithinLimit(total) == total =< Limit

-----------------------------------------------------------------------------
(* Requisitions *)

CreateRequisition(total) ==
    /\ flow = "requisition" /\ requisition.status = "none"
    /\ requisition' = [status |-> "draft", total |-> total]
    /\ UNCHANGED <<flow, lapses, desk, sourced, tendering, billing, claim, notes>>

(* UPDATE ... WHERE status = from: one statement, nothing in any other status. *)
SetRequisition(from, to) ==
    /\ requisition.status = from
    /\ requisition' = [requisition EXCEPT !.status = to]
    /\ UNCHANGED <<flow, lapses, sourced, tendering, billing, claim, notes>>

SubmitRequisition == SetRequisition("draft", "submitted") /\ UNCHANGED desk

RejectRequisition == SetRequisition("submitted", "rejected") /\ UNCHANGED desk

StartApproveRequisition(c) ==
    /\ requisition.status = "submitted" /\ WithinLimit(requisition.total)
    /\ Begin(c, Request("approve_requisition"))

ApproveRequisition(c) ==
    /\ At(c, "approve_requisition", "read")
    /\ \/ SetRequisition("submitted", "approved")
       \/ /\ requisition.status # "submitted"
          /\ UNCHANGED <<flow, lapses, documents>>
    /\ Finish(c)

StartConvert(c) ==
    /\ requisition.status = "approved"
    /\ Begin(c, Request("convert"))

(* create_tender or create_purchase_order with the requisition's lines. *)
ConvertToDocument(c) ==
    /\ At(c, "convert", "read")
    /\ sourced < MaxDocs
    /\ sourced' = sourced + 1
    /\ Go(c, "mark")
    /\ UNCHANGED <<flow, lapses, requisition, tendering, billing, claim, notes>>

MarkConverted(c) ==
    /\ At(c, "convert", "mark")
    /\ requisition' = [requisition EXCEPT !.status = "converted"]
    /\ Finish(c)
    /\ UNCHANGED <<flow, lapses, sourced, tendering, billing, claim, notes>>

-----------------------------------------------------------------------------
(* Tenders and bids *)

CreateTender ==
    /\ flow = "tender" /\ tender = "none"
    /\ tender' = "draft"
    /\ UNCHANGED <<flow, lapses, desk, sourcing, bids, orders, billing, claim, notes>>

PublishTender ==
    /\ tender = "draft"
    /\ tender' = "open"
    /\ UNCHANGED <<flow, lapses, desk, sourcing, bids, orders, billing, claim, notes>>

StartBid(c, v) ==
    /\ tender = "open" /\ bids[v].id < MaxDocs
    /\ Begin(c, [Request("bid") EXCEPT !.vendor = v])

SetBids(new) ==
    /\ bids' = new
    /\ UNCHANGED <<flow, lapses, sourcing, tender, orders, billing, claim, notes>>

(* submit_bid replaces the vendor's bid in two commits, unless it won. *)
DeleteBid(c) ==
    /\ At(c, "bid", "read")
    /\ SetBids([bids EXCEPT ![desk[c].vendor].status = IF @ = "awarded" THEN @ ELSE "none"])
    /\ Go(c, "insert")

(* UNIQUE (tender_id, vendor_id) refuses a second one. *)
InsertBid(c) ==
    /\ At(c, "bid", "insert")
    /\ LET v == desk[c].vendor
       IN  SetBids(IF bids[v].status # "none" THEN bids
                   ELSE [bids EXCEPT ![v] = [id |-> @.id + 1, status |-> "submitted"]])
    /\ Finish(c)

(* award_tender reads a bid, whatever the status of bid and tender. *)
StartAward(c, v) ==
    /\ bids[v].status # "none"
    /\ Begin(c, [Request("award") EXCEPT !.vendor = v, !.bid = bids[v].id])

AwardOrder(c) ==
    /\ At(c, "award", "read")
    /\ orders[desk[c].vendor] < MaxDocs
    /\ orders' = [orders EXCEPT ![desk[c].vendor] = @ + 1]
    /\ Go(c, "award")
    /\ UNCHANGED <<flow, lapses, sourcing, tender, bids, billing, claim, notes>>

(* The bid that was read, which its vendor may have replaced since. *)
Won(c, v) == v = desk[c].vendor /\ bids[v].id = desk[c].bid

(* Every bid that exists and is one of which gets the status. *)
Mark(status, which(_)) ==
    SetBids([v \in Vendors |-> IF bids[v].status # "none" /\ which(v)
                               THEN [bids[v] EXCEPT !.status = status] ELSE bids[v]])

Award(c) ==
    /\ At(c, "award", "award")
    /\ Mark("awarded", LAMBDA v : Won(c, v))
    /\ Go(c, "reject")

RejectOthers(c) ==
    /\ At(c, "award", "reject")
    /\ Mark("rejected", LAMBDA v : ~Won(c, v))
    /\ Go(c, "close")

CloseTender(c) ==
    /\ At(c, "award", "close")
    /\ tender' = "awarded"
    /\ Finish(c)
    /\ UNCHANGED <<flow, lapses, sourcing, bids, orders, billing, claim, notes>>

-----------------------------------------------------------------------------
(* Orders, receipts and bills *)

CreatePurchaseOrder ==
    /\ flow = "bill" /\ order = "none"
    /\ order' = "issued"
    /\ UNCHANGED <<flow, lapses, desk, sourcing, tendering, received, bills, claim, notes>>

(* create_goods_receipt: any number of partial receipts, any quantity. *)
CreateGoodsReceipt(q) ==
    /\ order # "none" /\ received + q =< MaxReceived
    /\ received' = received + q
    /\ UNCHANGED <<flow, lapses, desk, sourcing, tendering, order, bills, claim, notes>>

SetBills(new) ==
    /\ bills' = new
    /\ UNCHANGED <<flow, lapses, sourcing, tendering, order, received, claim, notes>>

SetBill(b, new) == SetBills([bills EXCEPT ![b] = new])

(* An UPDATE finds the bill only if it still exists. *)
UpdateBill(b, new) == SetBill(b, IF bills[b].status = "none" THEN bills[b] ELSE new)

Unused == {b \in BillIds : bills[b] = NoBill}

CreateBill(qty) ==
    /\ flow = "bill" /\ Unused # {}
    /\ SetBill(Min(Unused), Bill("draft", FALSE, qty, 0))
    /\ UNCHANGED desk

(* The lines of the order, or those the vendor gives: qty on lines that    *)
(* the order has too, off on others.                                       *)
StartLodge(c, qty, off) ==
    /\ order \notin {"none", "invoiced"}
    /\ Begin(c, [Request("lodge") EXCEPT !.amount = qty, !.off = off])

LodgeBill(c) ==
    /\ At(c, "lodge", "read")
    /\ Unused # {}
    /\ SetBill(Min(Unused), Bill("draft", FALSE, desk[c].amount, desk[c].off))
    /\ desk' = [desk EXCEPT ![c].pc = "link", ![c].bill = Min(Unused)]

LinkBill(c) ==
    /\ At(c, "lodge", "link")
    /\ LET b == desk[c].bill
       IN  UpdateBill(b, [bills[b] EXCEPT !.po = TRUE, !.status = "pending_approval"])
    /\ Go(c, "invoiced")

MarkInvoiced(c) ==
    /\ At(c, "lodge", "invoiced")
    /\ order' = "invoiced"
    /\ Finish(c)
    /\ UNCHANGED <<flow, lapses, sourcing, tendering, received, bills, claim, notes>>

(* three_way_match walks the lines of the order (here one): over every     *)
(* bill of the order, what was billed for it.  A line that only a bill has *)
(* is matched with nothing.                                                *)
Billed == LET Linked == {b \in BillIds : bills[b].status # "none" /\ bills[b].po}
          IN  MapThenSumSet(LAMBDA b : bills[b].qty, Linked)

(* Mutation: the match looks at the bill alone. *)
MatchesAlone(b) == ~bills[b].po \/ bills[b].qty =< received

(* assert_bill_receivable, for a bill that has an order *)
Matches(b) == ~bills[b].po \/ Billed =< received

StartApproveBill(c, b) ==
    /\ bills[b].status \in {"draft", "pending_approval"}
    /\ WithinLimit(bills[b].qty + bills[b].off) /\ Matches(b)
    /\ Begin(c, OnBill("approve_bill", b))

(* A query for what was billed that fails counts as nothing billed         *)
(* (unwrap_or_default), and the match passes.                              *)
StartApproveUnmatched(c, b) ==
    /\ bills[b].status \in {"draft", "pending_approval"} /\ bills[b].po
    /\ WithinLimit(bills[b].qty + bills[b].off)
    /\ desk[c].op = "idle"
    /\ lapses < MaxLapses
    /\ lapses' = lapses + 1
    /\ desk' = [desk EXCEPT ![c] = [OnBill("approve_bill", b) EXCEPT !.pc = "blind"]]
    /\ UNCHANGED <<flow, documents>>

ApproveBill(c) ==
    /\ At(c, "approve_bill", "read") \/ At(c, "approve_bill", "blind")
    /\ LET b == desk[c].bill
       IN  UpdateBill(b, [bills[b] EXCEPT !.status = "approved",
                                          !.blind = desk[c].pc = "blind"])
    /\ Finish(c)

StartEditBill(c, b, qty, off) ==
    /\ bills[b].status = "draft"
    /\ Begin(c, [OnBill("edit_bill", b) EXCEPT !.amount = qty, !.off = off])

(* update_bill_draft rewrites lines, totals and balance, not the status. *)
EditBill(c) ==
    /\ At(c, "edit_bill", "read")
    /\ LET b == desk[c].bill
           a == desk[c].amount
           o == desk[c].off
       IN  UpdateBill(b, [bills[b] EXCEPT !.qty = a, !.off = o, !.balance = a + o])
    /\ Finish(c)

StartDeleteBill(c, b) ==
    /\ bills[b].status = "draft"
    /\ Begin(c, OnBill("delete_bill", b))

DeleteBill(c) ==
    /\ At(c, "delete_bill", "read")
    /\ SetBill(desk[c].bill, NoBill)
    /\ Finish(c)

StartPostBill(c, b) ==
    /\ bills[b].status = "approved"
    /\ Begin(c, OnBill("post_bill", b))

(* The entry and the status commit together. *)
PostBill(c) ==
    /\ At(c, "post_bill", "read")
    /\ LET b == desk[c].bill
       IN  SetBill(b, [bills[b] EXCEPT !.status = IF @ = "none" THEN @ ELSE "posted",
                                       !.entries = IF @ < 2 THEN @ + 1 ELSE @])
    /\ Finish(c)

(* record_payment of a vendor: the part applied is capped at the balance   *)
(* read; the rest is held on account.                                      *)
StartPayBill(c, b, amount) ==
    /\ bills[b].status \notin {"none", "draft", "pending_approval"}
    /\ bills[b].balance > 0
    /\ Begin(c, [OnBill("pay_bill", b) EXCEPT !.amount = Min({amount, bills[b].balance})])

PayBill(c) ==
    /\ At(c, "pay_bill", "read")
    /\ LET b == desk[c].bill
           a == desk[c].amount
           left == bills[b].balance - a
       IN  UpdateBill(b, [bills[b] EXCEPT !.paid = @ + a, !.balance = left,
                             !.status = IF left =< 0 THEN "paid" ELSE "partially_paid"])
    /\ Finish(c)

-----------------------------------------------------------------------------
(* Debit notes, supplier credit notes and expense claims *)

SetNotes(new) ==
    /\ notes' = new
    /\ UNCHANGED <<flow, lapses, sourcing, tendering, billing, claim>>

(* create_debit_note stores the note, then posts its entry. *)
StoreDebitNote(c) ==
    /\ flow = "note" /\ desk[c].op = "idle" /\ notes.issued < MaxDocs
    /\ SetNotes([notes EXCEPT !.issued = @ + 1])
    /\ desk' = [desk EXCEPT ![c] = Request("debit_note")]

PostDebitNote(c) ==
    /\ At(c, "debit_note", "read")
    /\ SetNotes([notes EXCEPT !.posted = @ + 1])
    /\ Finish(c)

(* create_supplier_credit_note: note and entry in one transaction. *)
CreateSupplierCreditNote(c) ==
    /\ flow = "note" /\ desk[c].op = "idle" /\ notes.credited < MaxDocs
    /\ SetNotes([notes EXCEPT !.credited = @ + 1, !.reversed = @ + 1])
    /\ UNCHANGED desk

SetClaim(new) ==
    /\ claim' = new
    /\ UNCHANGED <<flow, lapses, sourcing, tendering, billing, notes>>

CreateClaim(total) ==
    /\ flow = "claim" /\ claim.status = "none"
    /\ SetClaim([status |-> "draft", total |-> total, entries |-> 0])
    /\ UNCHANGED desk

SubmitClaim ==
    /\ claim.status = "draft"
    /\ SetClaim([claim EXCEPT !.status = "submitted"])
    /\ UNCHANGED desk

RejectClaim ==
    /\ claim.status = "submitted"
    /\ SetClaim([claim EXCEPT !.status = "rejected"])
    /\ UNCHANGED desk

StartApproveClaim(c) ==
    /\ claim.status = "submitted" /\ WithinLimit(claim.total)
    /\ Begin(c, Request("approve_claim"))

PostClaim(c) ==
    /\ At(c, "approve_claim", "read")
    /\ SetClaim([claim EXCEPT !.entries = IF @ < 2 THEN @ + 1 ELSE @])
    /\ Go(c, "mark")

(* The status is not looked at again. *)
MarkClaim(c) ==
    /\ At(c, "approve_claim", "mark")
    /\ SetClaim([claim EXCEPT !.status = "approved"])
    /\ Finish(c)

-----------------------------------------------------------------------------
Init ==
    /\ flow \in Flows
    /\ requisition = [status |-> "none", total |-> 0]
    /\ sourced = 0
    /\ tender = "none"
    /\ bids = [v \in Vendors |-> [id |-> 0, status |-> "none"]]
    /\ orders = [v \in Vendors |-> 0]
    /\ order = "none"
    /\ received = 0
    /\ bills = [b \in BillIds |-> NoBill]
    /\ claim = [status |-> "none", total |-> 0, entries |-> 0]
    /\ notes = [issued |-> 0, posted |-> 0, credited |-> 0, reversed |-> 0]
    /\ desk = [c \in Clerks |-> Idle]
    /\ lapses = 0

Requisitions(c) ==
    \/ StartApproveRequisition(c) \/ ApproveRequisition(c)
    \/ StartConvert(c) \/ ConvertToDocument(c) \/ MarkConverted(c)

Tenders(c) ==
    \/ \E v \in Vendors : StartBid(c, v) \/ StartAward(c, v)
    \/ DeleteBid(c) \/ InsertBid(c)
    \/ AwardOrder(c) \/ Award(c) \/ RejectOthers(c) \/ CloseTender(c)

Bills(c) ==
    \/ \E q, off \in 0..Ordered : off =< MaxOff /\ q + off \in 1..Ordered /\ StartLodge(c, q, off)
    \/ LodgeBill(c) \/ LinkBill(c) \/ MarkInvoiced(c)
    \/ \E b \in BillIds :
          \/ StartApproveBill(c, b) \/ StartApproveUnmatched(c, b)
          \/ StartPostBill(c, b) \/ StartDeleteBill(c, b)
          \/ \E q \in 1..Ordered : StartPayBill(c, b, q)
          \/ \E q, off \in 0..Ordered : off =< MaxOff /\ q + off \in 1..Ordered /\ StartEditBill(c, b, q, off)
    \/ ApproveBill(c) \/ EditBill(c) \/ DeleteBill(c) \/ PostBill(c) \/ PayBill(c)

Claims(c) == StartApproveClaim(c) \/ PostClaim(c) \/ MarkClaim(c)

Notes(c) == StoreDebitNote(c) \/ PostDebitNote(c) \/ CreateSupplierCreditNote(c)

Next ==
    \/ \E t \in Totals : CreateRequisition(t) \/ CreateClaim(t)
    \/ SubmitRequisition \/ RejectRequisition
    \/ CreateTender \/ PublishTender \/ CreatePurchaseOrder
    \/ \E q \in 1..Ordered : CreateGoodsReceipt(q) \/ CreateBill(q)
    \/ SubmitClaim \/ RejectClaim
    \/ \E c \in Clerks :
          Requisitions(c) \/ Tenders(c) \/ Bills(c) \/ Claims(c) \/ Notes(c) \/ Lapse(c)

Spec == Init /\ [][Next]_vars

-----------------------------------------------------------------------------
(* Properties *)

(* A decision on a requisition is final, however the requests of approvers *)
(* and buyers overlap: a rejected one is never approved or converted, an   *)
(* approved one never goes back (the guarded UPDATEs of procurement.rs).   *)
RequisitionDecided ==
    [][/\ requisition.status \in {"rejected", "converted"} => requisition' = requisition
       /\ requisition.status = "approved" => requisition'.status \in {"approved", "converted"}]_vars

(* Two awards of one tender that overlap leave at most one winning bid     *)
(* once both requests are through, for award_tender rejects all others     *)
(* after its own award.                                                    *)
OneWinner ==
    (lapses = 0 /\ \A c \in Clerks : desk[c].op # "award")
        => Cardinality({v \in Vendors : bids[v].status = "awarded"}) =< 1

(* What is marked as approved or posted is in the ledger, under any        *)
(* overlap and wherever a request stops: approve_claim posts before it     *)
(* marks, post_bill does both in one transaction.                          *)
BookedBeforeMarked ==
    /\ claim.status = "approved" => claim.entries > 0
    /\ \A b \in BillIds : bills[b].status = "posted" => bills[b].entries > 0

(* While requests do not overlap, the approved bills of an order never     *)
(* exceed, on the lines of the order, what was received, even when a       *)
(* lodgement stopped half way and the vendor lodged again: the three-way   *)
(* match counts every bill of the order.  It covers neither lines the      *)
(* order does not have nor a bill approved while what was billed could not *)
(* be read.                                                                *)
Approved == {b \in BillIds : bills[b].po /\ bills[b].status \notin
                                {"none", "draft", "pending_approval"}}
ReceiptsCoverApprovals ==
    MapThenSumSet(LAMBDA b : bills[b].qty, {b \in Approved : ~bills[b].blind}) =< received

(* While requests do not overlap, a bill is posted once and its payments   *)
(* and balance make up its total, without overpayment.                     *)
BillConserved ==
    \A b \in BillIds :
        /\ bills[b].paid + bills[b].balance = bills[b].qty + bills[b].off
        /\ bills[b].balance >= 0 /\ bills[b].entries < 2

=============================================================================
