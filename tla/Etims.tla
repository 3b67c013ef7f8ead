------------------------------- MODULE Etims -------------------------------
(***************************************************************************)
(* Transmission of invoices and credit notes to the revenue authority      *)
(* (KRA eTIMS): the device row with its invoice counter, the registration  *)
(* of products, and transmit_invoice with every outcome of the call.  The  *)
(* authority is external: it may accept a request, refuse it, or accept it *)
(* while the answer is lost.                                               *)
(*                                                                         *)
(* Every statement commits by itself; a request may stop between two.      *)
(***************************************************************************)
EXTENDS Integers, FiniteSets, Sequences

CONSTANTS
    Papers,         \* posted invoices and credit notes
    CorrectedBy,    \* credit note -> the invoice it corrects
    Products,       \* products on every paper
    Senders,        \* concurrent transmissions
    Switches,       \* what enabled may be set to
    MaxSlips,       \* bound: stops and lost answers
    MaxReceipts     \* bound: held the authority issues

VARIABLES
    device,         \* etims_devices: [enabled, initialized, pin, serial, last]
    papers,         \* invoices: [posted, status, no]
    registry,       \* etims_item_registry: products registered
    held,       \* what the authority holds: [paper, no, org]
    sender,         \* what each transmission is doing
    slips,          \* answers lost
    gaps            \* stops between the receipt and the counter

vars == <<device, papers, registry, held, sender, slips, gaps>>

Resting == [op |-> "idle", paper |-> "none", no |-> 0, org |-> 0]

IsCredit(p) == p \in DOMAIN CorrectedBy

-----------------------------------------------------------------------------
(* The device *)

(* save_config over the row get_device creates *)
SaveConfig(enabled) ==
    /\ device' = [device EXCEPT !.enabled = enabled, !.pin = TRUE, !.serial = TRUE]
    /\ UNCHANGED <<papers, registry, held, sender, slips, gaps>>

(* Initialising again keeps the counter. *)
InitializeDevice ==
    /\ device.pin /\ device.serial
    /\ device' = [device EXCEPT !.initialized = TRUE]
    /\ UNCHANGED <<papers, registry, held, sender, slips, gaps>>

Ready == device.enabled /\ device.initialized

(* register_item, by itself or for a paper: the outcome is recorded. *)
RegisterItem(product, ok) ==
    /\ Ready
    /\ registry' = IF ok THEN registry \cup {product} ELSE registry \ {product}
    /\ UNCHANGED <<device, papers, held, sender, slips, gaps>>

-----------------------------------------------------------------------------
(* transmit_invoice *)

Post(p) ==
    /\ ~papers[p].posted
    /\ IsCredit(p) => papers[CorrectedBy[p]].posted
    /\ papers' = [papers EXCEPT ![p].posted = TRUE]
    /\ UNCHANGED <<device, registry, held, sender, slips, gaps>>

(* The number of the sale a credit note corrects; 0 when it has none *)
Original(p) == IF IsCredit(p) THEN papers[CorrectedBy[p]].no ELSE 0

MayTransmit(p) ==
    /\ IsCredit(p) => Original(p) # 0
    /\ papers[p].status # "transmitted"
    /\ papers[p].posted

(* The device row, with the counter, is read before everything else. *)
StartTransmit(s, p) ==
    /\ sender[s] = Resting /\ Ready /\ MayTransmit(p)
    /\ sender' = [sender EXCEPT ![s] = [op |-> "items", paper |-> p, no |-> device.last + 1,
                                        org |-> Original(p)]]
    /\ UNCHANGED <<device, papers, registry, held, slips, gaps>>

(* ensure_items_registered, best effort *)
EnsureItemsRegistered(s) ==
    /\ sender[s].op = "items"
    /\ IF Ready THEN \E done \in SUBSET (Products \ registry) : registry' = registry \cup done
       ELSE registry' = registry
    /\ sender' = [sender EXCEPT ![s].op = "post"]
    /\ UNCHANGED <<device, papers, held, slips, gaps>>

Receipt(w) == [paper |-> w.paper, no |-> w.no, org |-> w.org]

Accepted(s) ==
    /\ sender[s].op = "post" /\ Len(held) < MaxReceipts
    /\ held' = Append(held, Receipt(sender[s]))
    /\ sender' = [sender EXCEPT ![s].op = "record"]
    /\ UNCHANGED <<device, papers, registry, slips, gaps>>

Refused(s) ==
    /\ sender[s].op = "post"
    /\ sender' = [sender EXCEPT ![s].op = "failed"]
    /\ UNCHANGED <<device, papers, registry, held, slips, gaps>>

(* A time-out or an answer that cannot be read *)
AnswerLost(s) ==
    /\ sender[s].op = "post" /\ Len(held) < MaxReceipts /\ slips + gaps < MaxSlips
    /\ held' = Append(held, Receipt(sender[s]))
    /\ slips' = slips + 1
    /\ sender' = [sender EXCEPT ![s].op = "failed"]
    /\ UNCHANGED <<device, papers, registry, gaps>>

RecordReceipt(s) ==
    /\ sender[s].op = "record"
    /\ papers' = [papers EXCEPT ![sender[s].paper].status = "transmitted",
                                ![sender[s].paper].no = sender[s].no]
    /\ sender' = [sender EXCEPT ![s].op = "advance"]
    /\ UNCHANGED <<device, registry, held, slips, gaps>>

(* Mutation: the counter is not advanced for credit notes. *)
AdvanceSalesOnly(s) ==
    /\ sender[s].op = "advance"
    /\ device' = IF IsCredit(sender[s].paper) THEN device ELSE [device EXCEPT !.last = sender[s].no]
    /\ sender' = [sender EXCEPT ![s] = Resting]
    /\ UNCHANGED <<papers, registry, held, slips, gaps>>

(* The counter takes the number that was used, not one more than it holds. *)
AdvanceCounter(s) ==
    /\ sender[s].op = "advance"
    /\ device' = [device EXCEPT !.last = sender[s].no]
    /\ sender' = [sender EXCEPT ![s] = Resting]
    /\ UNCHANGED <<papers, registry, held, slips, gaps>>

RecordFailure(s) ==
    /\ sender[s].op = "failed"
    /\ papers' = [papers EXCEPT ![sender[s].paper].status = "transmission_failed"]
    /\ sender' = [sender EXCEPT ![s] = Resting]
    /\ UNCHANGED <<device, registry, held, slips, gaps>>

(* The request ends early; only these two stops leave a trace. *)
Stop(s) ==
    /\ sender[s] # Resting
    /\ sender[s].op \in {"record", "advance"} => slips + gaps < MaxSlips
    /\ slips' = IF sender[s].op = "record" THEN slips + 1 ELSE slips
    /\ gaps' = IF sender[s].op = "advance" THEN gaps + 1 ELSE gaps
    /\ sender' = [sender EXCEPT ![s] = Resting]
    /\ UNCHANGED <<device, papers, registry, held>>

-----------------------------------------------------------------------------
Init ==
    /\ device = [enabled |-> FALSE, initialized |-> FALSE, pin |-> FALSE, serial |-> FALSE, last |-> 0]
    /\ papers = [p \in Papers |-> [posted |-> FALSE, status |-> "none", no |-> 0]]
    /\ registry = {} /\ held = <<>>
    /\ sender = [s \in Senders |-> Resting]
    /\ slips = 0 /\ gaps = 0

Next ==
    \/ \E b \in Switches : SaveConfig(b)
    \/ InitializeDevice
    \/ \E i \in Products, ok \in BOOLEAN : RegisterItem(i, ok)
    \/ \E p \in Papers : Post(p)
    \/ \E s \in Senders :
          \/ \E p \in Papers : StartTransmit(s, p)
          \/ EnsureItemsRegistered(s) \/ Accepted(s) \/ Refused(s) \/ AnswerLost(s)
          \/ RecordReceipt(s) \/ AdvanceCounter(s) \/ RecordFailure(s) \/ Stop(s)

Spec == Init /\ [][Next]_vars

-----------------------------------------------------------------------------
(* Properties *)

Transmitted == {p \in Papers : papers[p].status = "transmitted"}

(* While requests do not overlap, two invoices carry one eTIMS number only *)
(* for a request that stopped between recording the receipt and advancing  *)
(* the counter (transmit_invoice).                                         *)
NumbersDistinct ==
    Cardinality(Transmitted) =< Cardinality({papers[p].no : p \in Transmitted}) + gaps

(* While requests do not overlap, the authority holds a paper more than    *)
(* once only for an answer that was lost or a stop before it was recorded. *)
HeldOnce ==
    \A p \in Papers : Cardinality({r \in DOMAIN held : held[r].paper = p}) =< 1 + slips

(* However requests overlap, stop or fail, a number stored with an invoice *)
(* is one the authority issued a receipt for, and every credit note it     *)
(* holds refers to a receipt of the sale it corrects.                      *)
ReceiptsFollow ==
    /\ \A p \in Papers : papers[p].no # 0 =>
          \E r \in DOMAIN held : held[r].paper = p /\ held[r].no = papers[p].no
    /\ \A r \in DOMAIN held : IsCredit(held[r].paper) =>
          \E o \in 1..r - 1 : /\ held[o].paper = CorrectedBy[held[r].paper]
                              /\ held[o].no = held[r].org

=============================================================================
