------------------------------- MODULE Stock -------------------------------
(***************************************************************************)
(* Inventory at weighted average cost, its warehouses, work orders and the *)
(* till.  A request of a member of staff runs one transaction, or several  *)
(* in the case of a sale; a transaction reads first, without locking, and  *)
(* the statements from its first UPDATE to its commit are one action, for  *)
(* they hold the lock on the item's row.                                   *)
(*                                                                         *)
(* The ledger is kept in cents, a unit cost in hundredths of a cent (four  *)
(* decimals); a posted amount is rounded to a cent.                        *)
(***************************************************************************)
EXTENDS Integers, Sequences, FiniteSets, FiniteSetsExt

CONSTANTS
    Staff,          \* concurrent requests
    Areas,          \* what a behaviour is about: "shelf", "count", "making", "till"
    Lots,           \* receipts: <<quantity, unit cost>>
    Output, PartsPer, Overhead,    \* a work order: units made, parts in all, its overhead
    Price, Float,   \* of a unit at the till; the opening float
    MaxMoves,       \* bound: stock movements
    MaxStops        \* bound: requests that stop half way

Items == {"part", "good"}
Sites == {"MAIN", "DEPOT"}
Fine == 100         \* unit costs are in 1/Fine cents

VARIABLES
    area,           \* one of Areas
    items,          \* inventory_items: on_hand, available, unit_cost
    shelf,          \* warehouse_stock.quantity
    sites,          \* the warehouses, oldest first
    defaults,       \* the warehouses with is_default
    gl,             \* account balances: inventory, WIP
    wo,             \* work_orders: status, material_cost
    session,        \* pos_sessions: status, expected_cash
    sales,          \* units invoiced, paid and tagged to the shift
    task,           \* what each member of staff is doing
    moves, stops

vars == <<area, items, shelf, sites, defaults, gl, wo, session, sales, task, moves, stops>>
stock == <<items, shelf, gl>>
houses == <<sites, defaults>>
till == <<session, sales>>

-----------------------------------------------------------------------------
(* Requests *)

Free == [op |-> "free", pc |-> "start", item |-> "part", qty |-> 0, cost |-> 0, on |-> 0,
         site |-> "none", to |-> "none", tender |-> "none"]

At(s, op, pc) == task[s].op = op /\ task[s].pc = pc
Goto(s, pc) == task' = [task EXCEPT ![s].pc = pc]
End(s) == task' = [task EXCEPT ![s] = Free]

Begin(s, t) ==
    /\ task[s].op = "free"
    /\ task' = [task EXCEPT ![s] = t]
    /\ UNCHANGED <<area, stock, houses, wo, till, moves, stops>>

Request(op, pc) == [Free EXCEPT !.op = op, !.pc = pc]

(* The request fails or its process dies; open transactions roll back. *)
Stop(s) ==
    /\ task[s].op # "free" /\ stops < MaxStops
    /\ stops' = stops + 1
    /\ End(s)
    /\ UNCHANGED <<area, stock, houses, wo, till, moves>>

Move == moves < MaxMoves /\ moves' = moves + 1

-----------------------------------------------------------------------------
(* Warehouses *)

(* ensure_default_warehouse_tx: the default, else the oldest, else MAIN. *)
Home(w) ==
    IF defaults # {} THEN w \in defaults /\ UNCHANGED houses
    ELSE /\ w = IF sites = <<>> THEN "MAIN" ELSE Head(sites)
         /\ defaults' = {w}
         /\ sites' = IF sites = <<>> THEN <<w>> ELSE sites

(* The warehouse named by the request, or home. *)
Place(named, w) == IF named = "none" THEN Home(w) ELSE w = named /\ UNCHANGED houses

Known == {sites[k] : k \in DOMAIN sites}

(* create_warehouse: the first one becomes the default, which the others   *)
(* lose in a commit of its own.                                            *)
StartWarehouse(s, w, flag) ==
    /\ area = "shelf" /\ w \notin Known
    /\ task[s].op = "free"
    /\ LET default == flag \/ sites = <<>>
       IN  /\ task' = [task EXCEPT ![s] = [Request("warehouse", "insert") EXCEPT
                                              !.site = w, !.on = IF default THEN 1 ELSE 0]]
           /\ defaults' = IF default THEN {} ELSE defaults
    /\ UNCHANGED <<area, stock, sites, wo, till, moves, stops>>

(* The code of a warehouse is unique. *)
InsertWarehouse(s) ==
    /\ At(s, "warehouse", "insert")
    /\ LET w == task[s].site
       IN  IF w \in Known THEN UNCHANGED houses
           ELSE /\ sites' = Append(sites, w)
                /\ defaults' = IF task[s].on = 1 THEN defaults \cup {w} ELSE defaults
    /\ End(s)
    /\ UNCHANGED <<area, stock, wo, till, moves, stops>>

StartTransfer(s, i, from, to, q) ==
    /\ area = "shelf" /\ {from, to} \subseteq Known /\ from # to
    /\ shelf[i][from] >= q
    /\ Begin(s, [Request("transfer", "commit") EXCEPT !.item = i, !.qty = q, !.site = from, !.to = to])

Transfer(s) ==
    /\ At(s, "transfer", "commit")
    /\ Move
    /\ LET t == task[s]
       IN  shelf' = [shelf EXCEPT ![t.item][t.site] = @ - t.qty, ![t.item][t.to] = @ + t.qty]
    /\ End(s)
    /\ UNCHANGED <<area, items, gl, houses, wo, till, stops>>

-----------------------------------------------------------------------------
(* Receipts, issues and counts *)

RoundDiv(a, b) ==
    LET q == a \div b
        r == a % b
    IN  IF 2 * r > b \/ (2 * r = b /\ q % 2 = 1) THEN q + 1 ELSE q

Cents(fine) == RoundDiv(fine, Fine)

(* Mutation: the cost of the last receipt instead of the average. *)
LatestCost(row, q, cost) == cost

Averaged(row, q, cost) == RoundDiv(row.onHand * row.cost + q * cost, row.onHand + q)

(* receive_inventory_in_tx: one UPDATE computes from the row as it is. *)
Received(row, q, cost) ==
    [onHand |-> row.onHand + q, available |-> row.available + q, cost |-> Averaged(row, q, cost)]

Post(inventory, wip) == gl' = [inventory |-> gl.inventory + inventory, wip |-> gl.wip + wip]

Receive(s, i, lot, named, w) ==
    LET q == lot[1]
        cost == lot[2]
    IN  /\ task[s].op = "free"
        /\ named \in Known \cup {"none"} /\ Place(named, w)
        /\ items[i].onHand + q # 0
        /\ Move
        /\ items' = [items EXCEPT ![i] = Received(@, q, cost)]
        /\ shelf' = [shelf EXCEPT ![i][w] = @ + q]
        /\ Post(Cents(q * cost), 0)
        /\ UNCHANGED <<area, wo, till, task, stops>>

(* Mutation: the stock at hand is not looked at. *)
AnyStock(s) == TRUE

(* issue_inventory_in_tx reads the item and what is available. *)
Enough(s) == items[task[s].item].available >= task[s].qty

(* The read of the transaction: refused, or on with the cost that was read. *)
CheckIssue(s) ==
    /\ task[s].pc = "check"
    /\ IF Enough(s)
       THEN task' = [task EXCEPT ![s].pc = "commit", ![s].cost = items[task[s].item].cost]
       ELSE End(s)
    /\ UNCHANGED <<area, stock, houses, wo, till, moves, stops>>

(* The UPDATE and the warehouse's share, from the row as it is by then. *)
Take(s, w) ==
    LET t == task[s]
    IN  /\ Place(t.site, w)
        /\ Move
        /\ items' = [items EXCEPT ![t.item].onHand = @ - t.qty, ![t.item].available = @ - t.qty]
        /\ shelf' = [shelf EXCEPT ![t.item][w] = @ - t.qty]

(* What was issued, at the cost read before. *)
IssuedCost(s) == Cents(task[s].qty * task[s].cost)

StartIssue(s, i, q, named) ==
    /\ area \in {"shelf", "count"} /\ named \in Known \cup {"none"}
    /\ Begin(s, [Request("issue", "check") EXCEPT !.item = i, !.qty = q, !.site = named])

Issue(s, w) ==
    /\ At(s, "issue", "commit")
    /\ Take(s, w)
    /\ Post(-IssuedCost(s), 0)
    /\ End(s)
    /\ UNCHANGED <<area, wo, till, stops>>

(* adjust_inventory reads the item, then sets on_hand to what was counted. *)
StartAdjust(s, i, counted) ==
    /\ area = "count" /\ counted # items[i].onHand
    /\ Begin(s, [Request("adjust", "commit") EXCEPT
                    !.item = i, !.on = counted, !.qty = counted - items[i].onHand,
                    !.cost = items[i].cost])

Adjust(s, w) ==
    /\ At(s, "adjust", "commit")
    /\ LET t == task[s]
           value == Cents((IF t.qty < 0 THEN -t.qty ELSE t.qty) * t.cost)
       IN  /\ Home(w)
           /\ Move
           /\ items' = [items EXCEPT ![t.item].onHand = t.on, ![t.item].available = @ + t.qty]
           /\ shelf' = [shelf EXCEPT ![t.item][w] = @ + t.qty]
           /\ Post(IF t.qty > 0 THEN value ELSE -value, 0)
    /\ End(s)
    /\ UNCHANGED <<area, wo, till, stops>>

-----------------------------------------------------------------------------
(* Work orders *)

SetOrder(new) ==
    /\ wo' = new
    /\ UNCHANGED <<area, till, stops>>

CreateWorkOrder ==
    /\ area = "making" /\ wo.status \in {"none", "cancelled", "completed"}
    /\ moves < MaxMoves
    /\ SetOrder([status |-> "draft", material |-> 0])
    /\ UNCHANGED <<stock, houses, moves, task>>

StartStart(s) ==
    /\ wo.status = "draft"
    /\ Begin(s, [Request("start", "check") EXCEPT !.item = "part", !.qty = PartsPer])

(* Components out of stock into WIP, at cost. *)
StartWorkOrder(s, w) ==
    /\ At(s, "start", "commit")
    /\ Take(s, w)
    /\ Post(-IssuedCost(s), IssuedCost(s))
    /\ SetOrder([status |-> "in_progress", material |-> IssuedCost(s)])
    /\ End(s)

StartComplete(s) ==
    /\ wo.status = "in_progress"
    /\ Begin(s, [Request("complete", "commit") EXCEPT !.cost = wo.material])

UnitCost(total) == RoundDiv(total * Fine, Output)

(* Finished goods into stock at material and overhead, WIP cleared. *)
CompleteWorkOrder(s, w) ==
    /\ At(s, "complete", "commit")
    /\ Home(w) /\ Move
    /\ LET total == task[s].cost + Overhead
       IN  /\ items' = [items EXCEPT !["good"] = Received(@, Output, UnitCost(total))]
           /\ shelf' = [shelf EXCEPT !["good"][w] = @ + Output]
           /\ Post(total, -task[s].cost)
    /\ SetOrder([wo EXCEPT !.status = "completed"])
    /\ End(s)

StartCancel(s) ==
    /\ wo.status = "draft"
    /\ Begin(s, Request("cancel", "commit"))

CancelWorkOrder(s) ==
    /\ At(s, "cancel", "commit")
    /\ SetOrder([wo EXCEPT !.status = "cancelled"])
    /\ End(s)
    /\ UNCHANGED <<stock, houses, moves>>

-----------------------------------------------------------------------------
(* The till: one shift, sales of one unit of the good *)

Tenders == {"cash", "mpesa"}

OpenSession ==
    /\ area = "till" /\ session.status = "none"
    /\ session' = [session EXCEPT !.status = "open"]
    /\ UNCHANGED <<area, stock, houses, wo, sales, task, moves, stops>>

(* complete_sale needs an open shift; the draft invoice has no effect yet. *)
StartSale(s, tender) ==
    /\ session.status = "open"
    /\ Begin(s, [Request("sale", "check") EXCEPT !.item = "good", !.qty = 1, !.tender = tender])

PostSale(s, w) ==
    /\ At(s, "sale", "commit")
    /\ Take(s, w)
    /\ Post(-IssuedCost(s), 0)
    /\ sales' = [sales EXCEPT !.posted = @ + 1]
    /\ Goto(s, "pay")
    /\ UNCHANGED <<area, wo, session, stops>>

Tagged(tender) == sales.tagged[tender]

(* record_payment settles the invoice in full. *)
PaySale(s) ==
    /\ At(s, "sale", "pay")
    /\ sales' = [sales EXCEPT !.paid[task[s].tender] = @ + 1]
    /\ Goto(s, "tag")
    /\ UNCHANGED <<area, stock, houses, wo, session, moves, stops>>

(* The sale is tagged to the shift, open or not by now. *)
TagSale(s) ==
    /\ At(s, "sale", "tag")
    /\ sales' = [sales EXCEPT !.tagged[task[s].tender] = @ + 1]
    /\ End(s)
    /\ UNCHANGED <<area, stock, houses, wo, session, moves, stops>>

(* close_session, like z_report, adds the cash sales to the float. *)
ExpectedCash == Float + Price * Tagged("cash")

StartClose(s) ==
    /\ area = "till" /\ session.status # "none"
    /\ Begin(s, [Request("close", "commit") EXCEPT !.on = ExpectedCash])

(* Mutation: the shift is closed whatever its status. *)
CloseAgain(s) ==
    /\ At(s, "close", "commit")
    /\ session' = [status |-> "closed", expected |-> task[s].on]
    /\ End(s)
    /\ UNCHANGED <<area, stock, houses, wo, sales, moves, stops>>

CloseSession(s) ==
    /\ At(s, "close", "commit")
    /\ session' = IF session.status = "open"
                  THEN [status |-> "closed", expected |-> task[s].on] ELSE session
    /\ End(s)
    /\ UNCHANGED <<area, stock, houses, wo, sales, moves, stops>>

-----------------------------------------------------------------------------
Init ==
    /\ area \in Areas
    /\ items = [i \in Items |-> [onHand |-> 0, available |-> 0, cost |-> 0]]
    /\ shelf = [i \in Items |-> [w \in Sites |-> 0]]
    /\ sites = <<>> /\ defaults = {}
    /\ gl = [inventory |-> 0, wip |-> 0]
    /\ wo = [status |-> "none", material |-> 0]
    /\ session = [status |-> "none", expected |-> 0]
    /\ sales = [posted |-> 0, paid |-> [t \in Tenders |-> 0], tagged |-> [t \in Tenders |-> 0]]
    /\ task = [s \in Staff |-> Free]
    /\ moves = 0 /\ stops = 0

(* What is bought: parts for production, goods for the till. *)
Bought == IF area = "till" THEN "good" ELSE "part"
Named == IF area = "shelf" THEN Known \cup {"none"} ELSE {"none"}

Work(s) ==
    \/ \E lot \in Lots, n \in Named, w \in Sites : Receive(s, Bought, lot, n, w)
    \/ CheckIssue(s)
    \/ \E q \in 1..2, n \in Named : StartIssue(s, "part", q, n)
    \/ \E q \in 0..2 : StartAdjust(s, "part", q)
    \/ \E from, to \in Known : StartTransfer(s, "part", from, to, 1)
    \/ Transfer(s)
    \/ \E w \in Sites, flag \in BOOLEAN : StartWarehouse(s, w, flag)
    \/ InsertWarehouse(s)
    \/ \E w \in Sites : \/ Issue(s, w) \/ Adjust(s, w)
                        \/ StartWorkOrder(s, w) \/ CompleteWorkOrder(s, w) \/ PostSale(s, w)
    \/ StartStart(s) \/ StartComplete(s) \/ StartCancel(s) \/ CancelWorkOrder(s)
    \/ \E t \in Tenders : StartSale(s, t)
    \/ PaySale(s) \/ TagSale(s) \/ StartClose(s) \/ CloseSession(s)
    \/ Stop(s)

Next ==
    \/ CreateWorkOrder \/ OpenSession
    \/ \E s \in Staff : Work(s)

Spec == Init /\ [][Next]_vars

-----------------------------------------------------------------------------
(* Properties *)

(* The shelves of all warehouses add up to the item's on_hand, which       *)
(* warehousing.rs promises: under any overlap of receipts, issues,         *)
(* transfers, production and sales, and while stock is not counted.        *)
ShelvesAddUp ==
    \A i \in Items : items[i].onHand = MapThenSumSet(LAMBDA w : shelf[i][w], Sites)

(* One request at a time never sells or uses stock that is not there.      *)
StockCovered == \A i \in Items : items[i].onHand >= 0 /\ items[i].available = items[i].onHand

(* One request at a time keeps the inventory account within half a cent    *)
(* per movement of the value of the stock, counts and requests that        *)
(* stopped included: receipts average the cost, issues leave at it.        *)
LedgerTracksStock ==
    LET value == MapThenSumSet(LAMBDA i : items[i].onHand * items[i].cost, Items)
        drift == gl.inventory * Fine - value
    IN  drift =< moves * (Fine \div 2 + 2) /\ -drift =< moves * (Fine \div 2 + 2)

(* One request at a time, work in progress is exactly the material of the  *)
(* order in progress and nothing once it is completed.                     *)
WipNetsToZero == gl.wip = IF wo.status = "in_progress" THEN wo.material ELSE 0

(* Whatever overlaps or stops, a sale the shift knows of was paid for, and *)
(* a payment belongs to a posted invoice: the Z report never shows takings *)
(* the bank account did not get.                                           *)
TakingsDeposited ==
    /\ \A t \in Tenders : Tagged(t) =< sales.paid[t]
    /\ MapThenSumSet(LAMBDA t : sales.paid[t], Tenders) =< sales.posted

(* The figures of a closed shift are final, however many close it at once. *)
ShiftFinal == [][session.status = "closed" => session' = session]_vars

=============================================================================
