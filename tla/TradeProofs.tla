---------------------------- MODULE TradeProofs -----------------------------
(***************************************************************************)
(* The flows of goods and papers: transmission to the tax authority        *)
(* (Etims), purchases (Purchasing) and stock, production and the till      *)
(* (Stock), for every value of their parameters.                           *)
(***************************************************************************)
EXTENDS Integers, Sequences, FiniteSets, SumProofs

(* Etims: parameters and state *)
CONSTANTS Papers, CorrectedBy, Products, Senders, Switches, MaxSlips, MaxReceipts
VARIABLES device, papers, registry, held, sender, slips, gaps

(* Purchasing: parameters and state *)
CONSTANTS Clerks, Flows, Vendors, Ordered, MaxReceived, MaxBills, MaxOff, Limit, Totals, MaxLapses,
          MaxDocs
VARIABLES flow, requisition, sourced, tender, bids, orders, order, received, bills, claim,
          notes, desk, lapses

(* Stock: parameters and state *)
CONSTANTS Staff, Areas, Lots, Output, PartsPer, Overhead, Price, Float, MaxMoves, MaxStops
VARIABLES area, items, shelf, sites, defaults, gl, wo, session, sales, task, moves, stops

E == INSTANCE Etims
Pu == INSTANCE Purchasing
St == INSTANCE Stock

-----------------------------------------------------------------------------
(* Etims: receipts follow the papers for every set of papers and products, *)
(* and however many transmissions overlap; numbers and receipts are given  *)
(* once while they do not.                                                 *)

(* Transmission counts as these proofs do. *)
LEMMA SlipCards == \A S : E!Cardinality(S) = Cardinality(S)
  BY DEF Cardinality, E!Cardinality, IsFiniteSet, E!IsFiniteSet

(* What the code knows of its papers: they are rows of a table, and the    *)
(* invoice a credit note corrects is one of them.                          *)
PapersOK == /\ IsFiniteSet(Papers)
            /\ \A p \in Papers : E!IsCredit(p) => CorrectedBy[p] \in Papers

SenderOps == {"idle", "items", "post", "record", "advance", "failed"}
Statuses == {"none", "transmitted", "transmission_failed"}
Tasks == [op: SenderOps, paper: Papers \cup {"none"}, no: Nat, org: Nat]
Receipts == [paper: Papers, no: Nat, org: Nat]

DeviceOK ==
    /\ DOMAIN device = {"enabled", "initialized", "pin", "serial", "last"} /\ device.last \in Nat
    /\ papers \in [Papers -> [posted: BOOLEAN, status: Statuses, no: Nat]]
    /\ held \in Seq(Receipts)
    /\ sender \in [Senders -> Tasks]
    /\ \A s \in Senders : sender[s].op # "idle" => sender[s].paper \in Papers
    /\ slips \in Nat /\ gaps \in Nat

Lists(h, p, n) == \E r \in DOMAIN h : h[r].paper = p /\ h[r].no = n
Issued(p, n) == Lists(held, p, n)

(* A number on its way to a paper was issued for it, and a credit note on  *)
(* its way to the authority refers to a receipt.                           *)
InTransit ==
    \A s \in Senders :
       /\ sender[s].op = "record" => Issued(sender[s].paper, sender[s].no)
       /\ sender[s].op \in {"items", "post"} /\ E!IsCredit(sender[s].paper) =>
             Issued(CorrectedBy[sender[s].paper], sender[s].org)

EtimsInv == DeviceOK /\ InTransit /\ E!ReceiptsFollow

(* A sender at rest is one of the shapes a sender has. *)
LEMMA RestingOp == E!Resting.op = "idle" /\ E!Resting \in Tasks
  BY DEF E!Resting, Tasks, SenderOps

(* Nothing has been sent at first. *)
LEMMA EtimsStart ==
  ASSUME E!Init PROVE EtimsInv
<1> USE DEF E!Init
<1>1. DeviceOK
  BY RestingOp DEF DeviceOK, Statuses
<1>2. InTransit
  BY RestingOp DEF InTransit
<1>3. E!ReceiptsFollow
  BY DEF E!ReceiptsFollow
<1> QED BY <1>1, <1>2, <1>3 DEF EtimsInv

(* A step that issues no receipt, whatever else it does: the papers keep   *)
(* their numbers or get one that was issued.                               *)
LEMMA NothingIssued ==
  ASSUME EtimsInv, DeviceOK', held' = held,
         \A p \in Papers : papers'[p].no = papers[p].no \/ Issued(p, papers'[p].no),
         \A s \in Senders : \/ sender'[s] = sender[s]
                            \/ sender'[s].op \in {"idle", "advance", "failed"}
                            \/ /\ sender'[s].op \in {"items", "post"}
                               /\ E!IsCredit(sender'[s].paper) =>
                                     Issued(CorrectedBy[sender'[s].paper], sender'[s].org)
  PROVE  EtimsInv'
<1> USE DEF EtimsInv
<1>1. InTransit'
  BY DEF InTransit, Issued, E!IsCredit
<1>2. E!ReceiptsFollow'
  BY DEF E!ReceiptsFollow, Issued, Lists, E!IsCredit
<1> QED BY <1>1, <1>2

(* The authority takes a paper. *)
LEMMA OneIssued ==
  ASSUME EtimsInv, DeviceOK', NEW s \in Senders, sender[s].op = "post",
         held' = Append(held, E!Receipt(sender[s])), papers' = papers,
         \A t \in Senders : t # s => sender'[t] = sender[t],
         sender'[s] = [sender[s] EXCEPT !.op = "record"] \/ sender'[s].op = "failed"
  PROVE  EtimsInv'
<1> USE DEF EtimsInv
<1> DEFINE n == Len(held) + 1
           r == E!Receipt(sender[s])
<1>1. /\ held \in Seq(Receipts) /\ n \in Nat /\ DOMAIN held = 1..Len(held)
      /\ DOMAIN held' = 1..n /\ held'[n] = r /\ \A i \in 1..Len(held) : held'[i] = held[i]
      /\ r.paper = sender[s].paper /\ r.no = sender[s].no /\ r.org = sender[s].org
  <2>1. r \in Receipts
    BY DEF DeviceOK, Tasks, Receipts, E!Receipt
  <2>2. held \in Seq(Receipts)
    BY DEF DeviceOK
  <2>3. r.paper = sender[s].paper /\ r.no = sender[s].no /\ r.org = sender[s].org
    BY DEF E!Receipt
  <2> HIDE DEF r
  <2> QED BY <2>1, <2>2, <2>3 DEF r
<1>2. sender[s] \in Tasks
  BY DEF DeviceOK
<1> HIDE DEF n, r
<1>k. \A p, m : Issued(p, m) => Lists(held', p, m)
  BY <1>1 DEF Issued, Lists, n
<1>3. InTransit'
  <2>1. Lists(held', r.paper, r.no)
    BY <1>1 DEF Lists, n
  <2>2. sender'[s].op = "record" => sender'[s].paper = r.paper /\ sender'[s].no = r.no
    BY <1>1, <1>2 DEF Tasks
  <2>3. sender'[s].op \in {"record", "failed"}
    BY <1>2 DEF Tasks
  <2> QED BY <1>k, <2>1, <2>2, <2>3 DEF InTransit, Issued, E!IsCredit
<1>4. E!ReceiptsFollow'
  <2>1. \A p \in Papers : papers[p].no # 0 => Lists(held', p, papers[p].no)
    BY <1>k DEF E!ReceiptsFollow, Issued, Lists
  <2>2. \A i \in 1..Len(held) : E!IsCredit(held[i].paper) =>
           \E o \in 1..i - 1 : held[o].paper = CorrectedBy[held[i].paper] /\ held[o].no = held[i].org
    BY <1>1 DEF E!ReceiptsFollow
  <2>3. \A i \in 1..Len(held) : E!IsCredit(held'[i].paper) =>
           \E o \in 1..i - 1 : held'[o].paper = CorrectedBy[held'[i].paper] /\ held'[o].no = held'[i].org
    <3> SUFFICES ASSUME NEW i \in 1..Len(held), E!IsCredit(held'[i].paper)
                 PROVE  \E o \in 1..i - 1 : /\ held'[o].paper = CorrectedBy[held'[i].paper]
                                            /\ held'[o].no = held'[i].org
      OBVIOUS
    <3>1. held'[i] = held[i]
      BY <1>1
    <3>2. PICK o \in 1..i - 1 : held[o].paper = CorrectedBy[held[i].paper] /\ held[o].no = held[i].org
      BY <2>2, <3>1
    <3>3. held'[o] = held[o]
      BY <1>1, <3>2
    <3> QED BY <3>1, <3>2, <3>3
  <2>4. E!IsCredit(r.paper) => \E o \in 1..n - 1 : held'[o].paper = CorrectedBy[r.paper] /\ held'[o].no = r.org
    <3>1. E!IsCredit(r.paper) => Issued(CorrectedBy[r.paper], r.org)
      BY <1>1 DEF InTransit
    <3>2. 1..n - 1 = DOMAIN held /\ \A o \in DOMAIN held : held'[o] = held[o]
      BY <1>1 DEF n
    <3> QED BY <3>1, <3>2 DEF Issued, Lists
  <2>5. \A i \in 1..n : i = n \/ i \in 1..Len(held)
    BY <1>1 DEF n
  <2>6. \A i \in DOMAIN held' : E!IsCredit(held'[i].paper) =>
           \E o \in 1..i - 1 : held'[o].paper = CorrectedBy[held'[i].paper] /\ held'[o].no = held'[i].org
    BY <1>1, <2>3, <2>4, <2>5
  <2> QED BY <2>1, <2>6 DEF E!ReceiptsFollow, Lists, E!IsCredit
<1> QED BY <1>3, <1>4

(* The device and its counter, the registry of products and posting. *)
LEMMA OfficeKeeps ==
  ASSUME EtimsInv,
         \/ \E b \in Switches : E!SaveConfig(b)
         \/ E!InitializeDevice
         \/ \E i \in Products, ok \in BOOLEAN : E!RegisterItem(i, ok)
         \/ \E p \in Papers : E!Post(p)
         \/ UNCHANGED E!vars
  PROVE  /\ UNCHANGED <<held, sender, slips, gaps>> /\ device'.last = device.last
         /\ \A p \in Papers : papers'[p].no = papers[p].no /\ papers'[p].status = papers[p].status
         /\ DeviceOK'
<1>1. DeviceOK
  BY DEF EtimsInv
<1>2. UNCHANGED <<held, sender, slips, gaps>>
  BY DEF E!SaveConfig, E!InitializeDevice, E!RegisterItem, E!Post, E!vars
<1>3. DOMAIN device' = DOMAIN device /\ device'.last = device.last
  BY <1>1 DEF DeviceOK, E!SaveConfig, E!InitializeDevice, E!RegisterItem, E!Post, E!vars
<1>4. papers' = papers \/ \E p \in Papers : papers' = [papers EXCEPT ![p].posted = TRUE]
  BY DEF E!SaveConfig, E!InitializeDevice, E!RegisterItem, E!Post, E!vars
<1>5. /\ papers' \in [Papers -> [posted: BOOLEAN, status: Statuses, no: Nat]]
      /\ \A p \in Papers : papers'[p].no = papers[p].no /\ papers'[p].status = papers[p].status
  <2>1. CASE papers' = papers
    BY <1>1, <2>1 DEF DeviceOK
  <2>2. ASSUME NEW p \in Papers, papers' = [papers EXCEPT ![p].posted = TRUE]
        PROVE  /\ papers' \in [Papers -> [posted: BOOLEAN, status: Statuses, no: Nat]]
               /\ \A q \in Papers : papers'[q].no = papers[q].no /\ papers'[q].status = papers[q].status
    <3>1. papers \in [Papers -> [posted: BOOLEAN, status: Statuses, no: Nat]]
      BY <1>1 DEF DeviceOK
    <3> DEFINE row == [papers[p] EXCEPT !.posted = TRUE]
    <3>2. /\ row \in [posted: BOOLEAN, status: Statuses, no: Nat]
          /\ row.no = papers[p].no /\ row.status = papers[p].status
      BY <3>1
    <3>3. papers' = [papers EXCEPT ![p] = row]
      BY <2>2
    <3> HIDE DEF row
    <3> QED BY <3>1, <3>2, <3>3
  <2> QED BY <1>4, <2>1, <2>2
<1> QED BY <1>1, <1>2, <1>3, <1>5 DEF DeviceOK

(* What each step of a transmission does, with the types it keeps. *)
Only(s, errand) == sender' = [sender EXCEPT ![s] = errand] /\ errand \in Tasks
                 /\ (errand.op # "idle" => errand.paper \in Papers)

(* A step of one sender leaves the others where they are. *)
LEMMA OnlyOne ==
  ASSUME DeviceOK, NEW s \in Senders, NEW errand, Only(s, errand)
  PROVE  /\ sender'[s] = errand /\ \A t \in Senders : t # s => sender'[t] = sender[t]
         /\ sender' \in [Senders -> Tasks]
         /\ \A t \in Senders : sender'[t].op # "idle" => sender'[t].paper \in Papers
  BY DEF DeviceOK, Only

(* What a sender and the tables look like, field by field. *)
LEMMA ReadyFacts ==
  ASSUME EtimsInv, NEW s \in Senders
  PROVE  /\ sender[s] \in Tasks /\ sender \in [Senders -> Tasks]
         /\ sender[s].op # "idle" => sender[s].paper \in Papers
         /\ held \in Seq(Receipts) /\ device.last \in Nat /\ slips \in Nat /\ gaps \in Nat
         /\ \A op \in SenderOps : [sender[s] EXCEPT !.op = op] \in Tasks
         /\ \A op \in SenderOps : /\ [sender[s] EXCEPT !.op = op].op = op
                                  /\ [sender[s] EXCEPT !.op = op].paper = sender[s].paper
                                  /\ [sender[s] EXCEPT !.op = op].no = sender[s].no
                                  /\ [sender[s] EXCEPT !.op = op].org = sender[s].org
  BY DEF EtimsInv, DeviceOK, Tasks

(* A transmission begins with the next number, for a paper not           *)
(* transmitted yet.                                                      *)
LEMMA StartKeeps ==
  ASSUME PapersOK, EtimsInv, NEW s \in Senders, NEW p \in Papers, E!StartTransmit(s, p)
  PROVE  /\ EtimsInv'
         /\ sender[s].op = "idle" /\ sender'[s].op = "items" /\ sender'[s].paper = p
         /\ sender'[s].no = device.last + 1 /\ papers[p].status # "transmitted"
         /\ UNCHANGED <<device, papers, held, slips, gaps>>
<1> DEFINE errand == [op |-> "items", paper |-> p, no |-> device.last + 1, org |-> E!Original(p)]
<1>0. EtimsInv /\ DeviceOK
  BY DEF EtimsInv
<1>1. E!Original(p) \in Nat /\ (E!IsCredit(p) => Issued(CorrectedBy[p], E!Original(p)))
  BY <1>0 DEF E!StartTransmit, E!MayTransmit, E!Original, EtimsInv, DeviceOK, E!ReceiptsFollow,
     Issued, Lists,
              PapersOK
<1>2. Only(s, errand)
  BY <1>0, <1>1 DEF E!StartTransmit, Only, Tasks, SenderOps, DeviceOK
<1>3. /\ errand.op = "items" /\ errand.paper = p /\ errand.no = device.last + 1
      /\ errand.org = E!Original(p)
  OBVIOUS
<1> HIDE DEF errand
<1>4. UNCHANGED <<device, papers, held, slips, gaps>>
  BY DEF E!StartTransmit
<1>5. DeviceOK'
  BY <1>0, <1>2, <1>4, OnlyOne DEF DeviceOK
<1>6. EtimsInv'
  BY <1>0, <1>1, <1>2, <1>3, <1>4, <1>5, OnlyOne, NothingIssued
<1>7. sender[s].op = "idle" /\ papers[p].status # "transmitted"
  BY RestingOp DEF E!StartTransmit, E!MayTransmit
<1> QED BY <1>0, <1>2, <1>3, <1>4, <1>6, <1>7, OnlyOne

(* A step that only moves the transmission on. *)
Advanced(s, from, op) ==
    /\ sender[s].op = from /\ sender' = [sender EXCEPT ![s].op = op]
    /\ UNCHANGED <<device, papers, held, slips, gaps>>

(* Registering items, and a refusal, leave papers and receipts alone. *)
LEMMA MovesKeep ==
  ASSUME EtimsInv, NEW s \in Senders, E!EnsureItemsRegistered(s) \/ E!Refused(s)
  PROVE  /\ EtimsInv'
         /\ \/ sender[s].op = "items" /\ sender'[s].op = "post"
            \/ sender[s].op = "post" /\ sender'[s].op = "failed"
         /\ sender'[s].paper = sender[s].paper /\ sender'[s].no = sender[s].no
         /\ UNCHANGED <<device, papers, held, slips, gaps>>
<1>0. EtimsInv /\ DeviceOK
  BY DEF EtimsInv
<1>u. UNCHANGED <<device, papers, held, slips, gaps>>
  BY DEF E!EnsureItemsRegistered, E!Refused
<1>1. PICK op \in {"post", "failed"} :
         /\ sender' = [sender EXCEPT ![s].op = op]
         /\ sender[s].op = IF op = "post" THEN "items" ELSE "post"
  BY DEF E!EnsureItemsRegistered, E!Refused
<1> DEFINE errand == [sender[s] EXCEPT !.op = op]
<1>2. Only(s, errand)
  BY <1>0, <1>1, ReadyFacts DEF Only, SenderOps
<1>3. errand.op = op /\ errand.paper = sender[s].paper /\ errand.no = sender[s].no /\ errand.org = sender[s].org
  BY ReadyFacts DEF SenderOps
<1> HIDE DEF errand
<1>4. DeviceOK'
  BY <1>0, <1>2, <1>u, OnlyOne DEF DeviceOK
<1>5. E!IsCredit(errand.paper) /\ op = "post" => Issued(CorrectedBy[errand.paper], errand.org)
  BY <1>0, <1>1, <1>3 DEF EtimsInv, InTransit
<1>6. EtimsInv'
  BY <1>0, <1>2, <1>3, <1>4, <1>5, <1>u, OnlyOne, NothingIssued
<1> QED BY <1>0, <1>1, <1>2, <1>3, <1>6, <1>u, OnlyOne

(* The authority gives out one receipt, whether the answer arrives or    *)
(* not.                                                                  *)
LEMMA IssueKeeps ==
  ASSUME EtimsInv, NEW s \in Senders, E!Accepted(s) \/ E!AnswerLost(s)
  PROVE  /\ EtimsInv'
         /\ sender[s].op = "post" /\ sender[s].paper \in Papers
         /\ \/ sender'[s].op = "record" /\ slips' = slips
            \/ sender'[s].op = "failed" /\ slips' = slips + 1
         /\ sender'[s].paper = sender[s].paper /\ sender'[s].no = sender[s].no
         /\ held' = Append(held, E!Receipt(sender[s])) /\ E!Receipt(sender[s]) \in Receipts
         /\ UNCHANGED <<device, papers, gaps>>
<1>0. EtimsInv /\ DeviceOK
  BY DEF EtimsInv
<1>1. PICK op \in {"record", "failed"} :
         /\ sender' = [sender EXCEPT ![s].op = op]
         /\ slips' = IF op = "record" THEN slips ELSE slips + 1
  BY DEF E!Accepted, E!AnswerLost
<1>u. /\ UNCHANGED <<device, papers, gaps>> /\ sender[s].op = "post"
      /\ held' = Append(held, E!Receipt(sender[s]))
  BY DEF E!Accepted, E!AnswerLost
<1> DEFINE errand == [sender[s] EXCEPT !.op = op]
<1>2. Only(s, errand)
  BY <1>0, <1>1, <1>u, ReadyFacts DEF Only, SenderOps
<1>3. errand.op = op /\ errand.paper = sender[s].paper /\ errand.no = sender[s].no /\ errand.org = sender[s].org
  BY ReadyFacts DEF SenderOps
<1>4. op = "record" => errand = [sender[s] EXCEPT !.op = "record"]
  OBVIOUS
<1> HIDE DEF errand
<1>5. E!Receipt(sender[s]) \in Receipts
  BY <1>u, ReadyFacts DEF E!Receipt, Receipts, Tasks
<1>6. held' \in Seq(Receipts) /\ slips' \in Nat
  BY <1>1, <1>5, <1>u, ReadyFacts
<1>7. DeviceOK'
  BY <1>0, <1>2, <1>6, <1>u, OnlyOne DEF DeviceOK
<1>8. EtimsInv'
  BY <1>0, <1>2, <1>3, <1>4, <1>7, <1>u, OnlyOne, OneIssued
<1> QED BY <1>0, <1>1, <1>2, <1>3, <1>5, <1>8, <1>u, OnlyOne, ReadyFacts

(* Recording the receipt or the failure. *)
LEMMA RecordKeeps ==
  ASSUME EtimsInv, NEW s \in Senders, E!RecordReceipt(s)
  PROVE  /\ EtimsInv'
         /\ sender[s].op = "record" /\ sender'[s].op = "advance" /\ sender[s].paper \in Papers
         /\ sender'[s].paper = sender[s].paper /\ sender'[s].no = sender[s].no
         /\ papers'[sender[s].paper].status = "transmitted"
         /\ papers'[sender[s].paper].no = sender[s].no
         /\ \A p \in Papers \ {sender[s].paper} : papers'[p] = papers[p]
         /\ UNCHANGED <<device, held, slips, gaps>>
<1>0. EtimsInv /\ DeviceOK
  BY DEF EtimsInv
<1> DEFINE errand == [sender[s] EXCEPT !.op = "advance"]
           q == sender[s].paper
<1>u. /\ UNCHANGED <<device, held, slips, gaps>> /\ sender[s].op = "record"
      /\ papers' = [papers EXCEPT ![q].status = "transmitted", ![q].no = sender[s].no]
      /\ sender' = [sender EXCEPT ![s] = errand]
  BY DEF E!RecordReceipt
<1>1. q \in Papers /\ sender[s].no \in Nat
  BY <1>u, ReadyFacts DEF Tasks
<1>2. Only(s, errand)
  BY <1>1, <1>u, ReadyFacts DEF Only, SenderOps
<1>3. errand.op = "advance" /\ errand.paper = q /\ errand.no = sender[s].no
  BY ReadyFacts DEF SenderOps
<1> HIDE DEF errand, q
<1>4. /\ papers' \in [Papers -> [posted: BOOLEAN, status: Statuses, no: Nat]]
      /\ papers'[q].status = "transmitted" /\ papers'[q].no = sender[s].no
      /\ \A p \in Papers \ {q} : papers'[p] = papers[p]
  BY <1>0, <1>1, <1>u DEF DeviceOK, Statuses
<1>5. DeviceOK'
  BY <1>0, <1>2, <1>4, <1>u, OnlyOne DEF DeviceOK
<1>6. Issued(q, sender[s].no)
  BY <1>0, <1>u DEF EtimsInv, InTransit, q
<1>7. EtimsInv'
  BY <1>0, <1>2, <1>3, <1>4, <1>5, <1>6, <1>u, OnlyOne, NothingIssued
<1> QED BY <1>0, <1>1, <1>2, <1>3, <1>4, <1>7, <1>u, OnlyOne DEF q

(* A failure is recorded with the paper that failed. *)
LEMMA FailureKeeps ==
  ASSUME EtimsInv, NEW s \in Senders, E!RecordFailure(s)
  PROVE  /\ EtimsInv'
         /\ sender[s].op = "failed" /\ sender'[s].op = "idle" /\ sender[s].paper \in Papers
         /\ papers'[sender[s].paper].status = "transmission_failed"
         /\ \A p \in Papers \ {sender[s].paper} : papers'[p] = papers[p]
         /\ UNCHANGED <<device, held, slips, gaps>>
<1>0. EtimsInv /\ DeviceOK
  BY DEF EtimsInv
<1> DEFINE q == sender[s].paper
<1>u. /\ UNCHANGED <<device, held, slips, gaps>> /\ sender[s].op = "failed"
      /\ papers' = [papers EXCEPT ![q].status = "transmission_failed"]
      /\ sender' = [sender EXCEPT ![s] = E!Resting]
  BY DEF E!RecordFailure
<1>1. q \in Papers
  BY <1>u, ReadyFacts
<1>2. Only(s, E!Resting)
  BY <1>u, RestingOp DEF Only
<1> HIDE DEF q
<1>4. /\ papers' \in [Papers -> [posted: BOOLEAN, status: Statuses, no: Nat]]
      /\ papers'[q].status = "transmission_failed" /\ papers'[q].no = papers[q].no
      /\ \A p \in Papers \ {q} : papers'[p] = papers[p]
  BY <1>0, <1>1, <1>u DEF DeviceOK, Statuses
<1>5. DeviceOK'
  BY <1>0, <1>2, <1>4, <1>u, OnlyOne DEF DeviceOK
<1>6. EtimsInv'
  BY <1>0, <1>2, <1>4, <1>5, <1>u, OnlyOne, NothingIssued, RestingOp
<1> QED BY <1>0, <1>1, <1>2, <1>4, <1>6, <1>u, OnlyOne, RestingOp DEF q

(* Advancing the counter ends a transmission, and a stop leaves it open. *)
LEMMA EndKeeps ==
  ASSUME EtimsInv, NEW s \in Senders, E!AdvanceCounter(s) \/ E!Stop(s)
  PROVE  /\ EtimsInv' /\ sender'[s].op = "idle" /\ UNCHANGED <<papers, held>>
         /\ \/ /\ sender[s].op = "advance" /\ device'.last = sender[s].no
               /\ slips' = slips /\ gaps' = gaps
            \/ /\ device'.last = device.last
               /\ slips' = slips + (IF sender[s].op = "record" THEN 1 ELSE 0)
               /\ gaps' = gaps + (IF sender[s].op = "advance" THEN 1 ELSE 0)
<1>0. EtimsInv /\ DeviceOK
  BY DEF EtimsInv
<1>u. UNCHANGED <<papers, held>> /\ sender' = [sender EXCEPT ![s] = E!Resting]
  BY DEF E!AdvanceCounter, E!Stop
<1>1. Only(s, E!Resting)
  BY <1>u, RestingOp DEF Only
<1>t. device.last \in Nat /\ slips \in Nat /\ gaps \in Nat /\ sender[s].no \in Nat
  BY ReadyFacts DEF Tasks
<1>2. /\ \/ /\ sender[s].op = "advance" /\ device'.last = sender[s].no
            /\ slips' = slips /\ gaps' = gaps
         \/ /\ device'.last = device.last
            /\ slips' = slips + (IF sender[s].op = "record" THEN 1 ELSE 0)
            /\ gaps' = gaps + (IF sender[s].op = "advance" THEN 1 ELSE 0)
      /\ DOMAIN device' = DOMAIN device
  <2>1. CASE E!AdvanceCounter(s)
    BY <1>0, <2>1 DEF E!AdvanceCounter, DeviceOK
  <2>2. CASE E!Stop(s)
    BY <1>t, <2>2 DEF E!Stop
  <2> QED BY <2>1, <2>2
<1>3. device'.last \in Nat /\ slips' \in Nat /\ gaps' \in Nat
  BY <1>2, <1>t
<1>4. DeviceOK'
  BY <1>0, <1>1, <1>2, <1>3, <1>u, OnlyOne DEF DeviceOK
<1>5. EtimsInv'
  BY <1>0, <1>1, <1>4, <1>u, OnlyOne, NothingIssued, RestingOp
<1> QED BY <1>0, <1>1, <1>2, <1>5, <1>u, OnlyOne, RestingOp

(* Every step keeps the invariant of transmission. *)
LEMMA EtimsStep ==
  ASSUME PapersOK, EtimsInv, [E!Next]_E!vars PROVE EtimsInv'
<1>1. CASE \/ \E b \in Switches : E!SaveConfig(b)
           \/ E!InitializeDevice
           \/ \E i \in Products, ok \in BOOLEAN : E!RegisterItem(i, ok)
           \/ \E p \in Papers : E!Post(p)
           \/ UNCHANGED E!vars
  BY <1>1, OfficeKeeps, NothingIssued
<1>2. CASE \E s \in Senders :
          \/ \E p \in Papers : E!StartTransmit(s, p)
          \/ E!EnsureItemsRegistered(s) \/ E!Accepted(s) \/ E!Refused(s) \/ E!AnswerLost(s)
          \/ E!RecordReceipt(s) \/ E!AdvanceCounter(s) \/ E!RecordFailure(s) \/ E!Stop(s)
  BY <1>2, StartKeeps, MovesKeep, IssueKeeps, RecordKeeps, FailureKeeps, EndKeeps
<1> QED BY <1>1, <1>2 DEF E!Next

(* However transmissions overlap, stop or fail, a number stored with an    *)
(* invoice is one the authority issued, and a credit note it holds refers  *)
(* to a receipt it issued before.                                          *)
THEOREM ReceiptsInOrder == PapersOK => (E!Spec => []E!ReceiptsFollow)
<1> SUFFICES ASSUME PapersOK PROVE E!Spec => []E!ReceiptsFollow
  OBVIOUS
<1>1. E!Init => EtimsInv
  BY EtimsStart
<1>2. EtimsInv /\ [E!Next]_E!vars => EtimsInv'
  BY EtimsStep
<1>3. EtimsInv => E!ReceiptsFollow
  BY DEF EtimsInv
<1> QED BY <1>1, <1>2, <1>3, PTL DEF E!Spec

-----------------------------------------------------------------------------
(* One transmission at a time. *)

Alone == \A s, t \in Senders : s = t

(* A paper on its way has no receipt yet, and its number is the next one;  *)
(* only after it is recorded is the counter behind.                        *)
Underway ==
    \A s \in Senders :
       /\ sender[s].op \in {"items", "post", "record", "failed"} =>
             papers[sender[s].paper].status # "transmitted"
       /\ sender[s].op \in {"items", "post", "record", "advance"} => sender[s].no = device.last + 1
       /\ sender[s].op = "advance" => /\ papers[sender[s].paper].status = "transmitted"
                                      /\ papers[sender[s].paper].no = sender[s].no

Copies(p) == {r \in DOMAIN held : held[r].paper = p}
Told(p) == papers[p].status = "transmitted" \/ \E s \in Senders : sender[s].op = "record" /\ sender[s].paper = p

(* Every receipt but one was lost. *)
CopiesCounted ==
    \A p \in Papers : Cardinality(Copies(p)) =< slips + (IF Told(p) THEN 1 ELSE 0)

Used == {papers[p].no : p \in E!Transmitted}
Pending == device.last + 1 \in Used /\ \A s \in Senders : sender[s].op # "advance"

(* No number is beyond the next one, and where that is used already a stop *)
(* is to blame that no repeated number accounts for yet.                   *)
NumbersCounted ==
    /\ \A n \in Used : n =< device.last + 1
    /\ Cardinality(E!Transmitted) + (IF Pending THEN 1 ELSE 0) =< Cardinality(Used) + gaps

AloneInv == Underway /\ CopiesCounted /\ NumbersCounted

(* Papers, numbers and receipts are finitely many. *)
LEMMA Finite ==
  ASSUME PapersOK, EtimsInv
  PROVE  /\ IsFiniteSet(E!Transmitted) /\ IsFiniteSet(Used)
         /\ Cardinality(E!Transmitted) \in Nat /\ Cardinality(Used) \in Nat
         /\ \A p : IsFiniteSet(Copies(p)) /\ Cardinality(Copies(p)) \in Nat
         /\ Used \subseteq Nat
<1>1. IsFiniteSet(E!Transmitted)
  BY FS_Subset DEF PapersOK, E!Transmitted
<1>2. IsFiniteSet(Used)
  <2> DEFINE f == [p \in E!Transmitted |-> papers[p].no]
  <2>1. f \in Surjection(E!Transmitted, Used)
    BY DEF Surjection, Used
  <2> QED BY <1>1, <2>1, FS_Surjection
<1>3. ASSUME NEW p PROVE IsFiniteSet(Copies(p))
  <2>1. DOMAIN held = 1..Len(held) /\ Len(held) \in Nat
    BY DEF EtimsInv, DeviceOK
  <2>2. IsFiniteSet(1..Len(held))
    BY <2>1, FS_Interval
  <2>3. Copies(p) \subseteq 1..Len(held)
    BY <2>1 DEF Copies
  <2> QED BY <2>2, <2>3, FS_Subset
<1>4. Used \subseteq Nat
  BY DEF Used, E!Transmitted, EtimsInv, DeviceOK
<1> QED BY <1>1, <1>2, <1>3, <1>4, FS_CardinalityType

(* No number is used at first. *)
LEMMA AloneStart ==
  ASSUME E!Init PROVE AloneInv
<1> USE DEF E!Init
<1>1. Underway
  BY RestingOp DEF Underway
<1>2. CopiesCounted
  <2>1. ASSUME NEW p PROVE Copies(p) = {}
    BY DEF Copies
  <2>2. \A p \in Papers : Cardinality(Copies(p)) = 0
    BY <2>1, FS_EmptySet
  <2>3. slips = 0
    OBVIOUS
  <2> HIDE DEF E!Init
  <2> QED BY <2>2, <2>3 DEF CopiesCounted
<1>3. NumbersCounted
  <2>1. E!Transmitted = {}
    BY DEF E!Transmitted
  <2>2. Used = {}
    BY <2>1 DEF Used
  <2> QED BY <2>1, <2>2, FS_EmptySet DEF NumbersCounted, Pending
<1> QED BY <1>1, <1>2, <1>3 DEF AloneInv

(* Papers that keep their status and number use the numbers they used. *)
LEMMA PapersSame ==
  ASSUME \A p \in Papers : papers'[p].status = "transmitted" <=> papers[p].status = "transmitted",
         \A p \in E!Transmitted : papers'[p].no = papers[p].no
  PROVE  E!Transmitted' = E!Transmitted /\ Used' = Used
<1>1. E!Transmitted' = E!Transmitted
  BY DEF E!Transmitted
<1> QED BY <1>1 DEF Used

(* A step that gives out nothing and ends nothing. *)
LEMMA Untouched ==
  ASSUME PapersOK, EtimsInv, AloneInv, Underway', held' = held, slips' = slips, gaps' = gaps,
         device'.last = device.last,
         \A p \in Papers : papers'[p].status = "transmitted" <=> papers[p].status = "transmitted",
         \A p \in E!Transmitted : papers'[p].no = papers[p].no,
         \A s \in Senders : /\ sender'[s].op = "record" <=> sender[s].op = "record"
                            /\ sender'[s].op = "advance" <=> sender[s].op = "advance"
                            /\ sender'[s].op = "record" => sender'[s].paper = sender[s].paper
  PROVE  AloneInv'
<1>1. \A p : Copies(p)' = Copies(p)
  BY DEF Copies
<1>2. \A p \in Papers : Told(p)' <=> Told(p)
  BY DEF Told
<1>3. CopiesCounted'
  BY <1>1, <1>2 DEF AloneInv, CopiesCounted
<1>4. E!Transmitted' = E!Transmitted /\ Used' = Used
  BY PapersSame
<1>5. Pending' <=> Pending
  BY <1>4 DEF Pending
<1>6. NumbersCounted'
  BY <1>4, <1>5 DEF AloneInv, NumbersCounted
<1> QED BY <1>3, <1>6 DEF AloneInv

(* A lone sender's receipt has a number no paper has. *)
LEMMA AloneIssue ==
  ASSUME Alone, PapersOK, EtimsInv, AloneInv, NEW s \in Senders, E!Accepted(s) \/ E!AnswerLost(s)
  PROVE  AloneInv'
<1>q. PICK q \in Papers : q = sender[s].paper
  BY IssueKeeps
<1> DEFINE n == Len(held) + 1
<1>f. /\ sender[s].op = "post" /\ q \in Papers
      /\ \/ sender'[s].op = "record" /\ slips' = slips
         \/ sender'[s].op = "failed" /\ slips' = slips + 1
      /\ sender'[s].paper = q /\ sender'[s].no = sender[s].no
      /\ held' = Append(held, E!Receipt(sender[s])) /\ E!Receipt(sender[s]) \in Receipts
      /\ UNCHANGED <<device, papers, gaps>>
  BY <1>q, IssueKeeps
<1>a. \A t \in Senders : t = s
  BY DEF Alone
<1>1. Underway'
  BY <1>a, <1>f, <1>q DEF AloneInv, Underway
<1>2. /\ Copies(q)' = Copies(q) \cup {n} /\ n \notin Copies(q)
      /\ \A p \in Papers \ {q} : Copies(p)' = Copies(p)
  <2>1. /\ DOMAIN held = 1..Len(held) /\ DOMAIN held' = 1..n /\ Len(held) \in Nat
        /\ held'[n].paper = q /\ \A i \in 1..Len(held) : held'[i] = held[i]
    <3>1. held \in Seq(Receipts)
      BY DEF EtimsInv, DeviceOK
    <3>2. E!Receipt(sender[s]).paper = q
      BY <1>q DEF E!Receipt
    <3> QED BY <1>f, <3>1, <3>2
  <2>2. n \in 1..n /\ n \notin 1..Len(held) /\ 1..n = 1..Len(held) \cup {n}
    BY <2>1
  <2> HIDE DEF n
  <2>3. Copies(q)' = Copies(q) \cup {n}
    BY <2>1, <2>2 DEF Copies
  <2>4. n \notin Copies(q)
    BY <2>1, <2>2 DEF Copies
  <2>5. ASSUME NEW p \in Papers \ {q} PROVE Copies(p)' = Copies(p)
    BY <2>1, <2>2 DEF Copies
  <2> QED BY <2>3, <2>4, <2>5
<1>3. Cardinality(Copies(q)') = Cardinality(Copies(q)) + 1 /\ Cardinality(Copies(q)) \in Nat
  BY <1>2, Finite, FS_AddElement
<1>4. /\ ~Told(q) /\ (Told(q)' <=> sender'[s].op = "record")
      /\ \A p \in Papers \ {q} : Told(p)' <=> Told(p)
  BY <1>a, <1>f, <1>q DEF Told, AloneInv, Underway
<1>5. slips \in Nat
  BY DEF EtimsInv, DeviceOK
<1>6. CopiesCounted'
  <2>1. Cardinality(Copies(q)') =< slips' + (IF Told(q)' THEN 1 ELSE 0)
    <3>1. Cardinality(Copies(q)) =< slips
      BY <1>4, <1>5, <1>f DEF AloneInv, CopiesCounted
    <3> QED BY <1>3, <1>4, <1>5, <1>f, <3>1
  <2>2. ASSUME NEW p \in Papers \ {q}
        PROVE  Cardinality(Copies(p)') =< slips' + (IF Told(p)' THEN 1 ELSE 0)
    <3>1. Cardinality(Copies(p)) =< slips + (IF Told(p) THEN 1 ELSE 0)
      BY DEF AloneInv, CopiesCounted
    <3>2. Cardinality(Copies(p)) \in Nat
      BY Finite
    <3> QED BY <1>2, <1>4, <1>5, <1>f, <3>1, <3>2
  <2> QED BY <2>1, <2>2 DEF CopiesCounted
<1>7. E!Transmitted' = E!Transmitted /\ Used' = Used
  BY <1>f, PapersSame
<1>8. Pending' <=> Pending
  BY <1>7, <1>a, <1>f DEF Pending
<1>9. NumbersCounted'
  BY <1>7, <1>8, <1>f DEF AloneInv, NumbersCounted
<1> QED BY <1>1, <1>6, <1>9 DEF AloneInv

(* A lone sender records the receipt it was given. *)
LEMMA AloneRecord ==
  ASSUME Alone, PapersOK, EtimsInv, AloneInv, NEW s \in Senders, E!RecordReceipt(s)
  PROVE  AloneInv'
<1> DEFINE q == sender[s].paper
           n == device.last + 1
<1>f. /\ sender[s].op = "record" /\ sender'[s].op = "advance" /\ q \in Papers
      /\ sender'[s].paper = q /\ sender'[s].no = sender[s].no
      /\ papers'[q].status = "transmitted" /\ papers'[q].no = sender[s].no
      /\ \A p \in Papers \ {q} : papers'[p] = papers[p]
      /\ UNCHANGED <<device, held, slips, gaps>>
  BY RecordKeeps
<1>a. \A t \in Senders : t = s
  BY DEF Alone
<1>n. sender[s].no = n /\ papers[q].status # "transmitted"
  BY <1>f DEF AloneInv, Underway
<1>1. Underway'
  BY <1>a, <1>f, <1>n DEF Underway
<1>2. CopiesCounted'
  <2>1. \A p : Copies(p)' = Copies(p)
    BY <1>f DEF Copies
  <2>2. \A p \in Papers : Told(p)' <=> Told(p)
    BY <1>a, <1>f DEF Told
  <2> QED BY <1>f, <2>1, <2>2 DEF AloneInv, CopiesCounted
<1>3. E!Transmitted' = E!Transmitted \cup {q} /\ q \notin E!Transmitted
  BY <1>f, <1>n DEF E!Transmitted
<1>4. Used' = Used \cup {n}
  <2>1. \A p \in E!Transmitted : papers'[p].no = papers[p].no
    BY <1>3, <1>f DEF E!Transmitted
  <2>2. papers'[q].no = n
    BY <1>f, <1>n
  <2>3. Used' = {papers'[p].no : p \in E!Transmitted \cup {q}}
    BY <1>3 DEF Used
  <2> HIDE DEF q, n
  <2> QED BY <2>1, <2>2, <2>3 DEF Used
<1>5. /\ Cardinality(E!Transmitted') = Cardinality(E!Transmitted) + 1
      /\ Cardinality(Used') = IF n \in Used THEN Cardinality(Used) ELSE Cardinality(Used) + 1
      /\ Cardinality(E!Transmitted) \in Nat /\ Cardinality(Used) \in Nat /\ gaps \in Nat
  BY <1>3, <1>4, Finite, FS_AddElement DEF EtimsInv, DeviceOK
<1>6. (Pending <=> n \in Used) /\ ~Pending'
  BY <1>a, <1>f DEF Pending
<1>7. NumbersCounted'
  <2>1. device.last \in Nat /\ Used \subseteq Nat
    BY Finite DEF EtimsInv, DeviceOK
  <2>2. \A m \in Used' : m =< device'.last + 1
    BY <1>4, <1>f, <2>1 DEF AloneInv, NumbersCounted
  <2>3. Cardinality(E!Transmitted) + (IF n \in Used THEN 1 ELSE 0) =< Cardinality(Used) + gaps
    BY <1>6 DEF AloneInv, NumbersCounted
  <2>4. Cardinality(E!Transmitted') =< Cardinality(Used') + gaps'
    BY <1>5, <1>f, <2>3
  <2>5. Cardinality(E!Transmitted') + 0 = Cardinality(E!Transmitted')
    BY <1>5
  <2> QED BY <1>6, <2>2, <2>4, <2>5 DEF NumbersCounted
<1> QED BY <1>1, <1>2, <1>7 DEF AloneInv

(* A lone sender's last step keeps numbers and gaps counted. *)
LEMMA AloneEnd ==
  ASSUME Alone, PapersOK, EtimsInv, AloneInv, NEW s \in Senders, E!AdvanceCounter(s) \/ E!Stop(s)
  PROVE  AloneInv'
<1> DEFINE n == device.last + 1
<1>f. /\ sender'[s].op = "idle" /\ UNCHANGED <<papers, held>>
      /\ \/ /\ sender[s].op = "advance" /\ device'.last = sender[s].no
            /\ slips' = slips /\ gaps' = gaps
         \/ /\ device'.last = device.last
            /\ slips' = slips + (IF sender[s].op = "record" THEN 1 ELSE 0)
            /\ gaps' = gaps + (IF sender[s].op = "advance" THEN 1 ELSE 0)
  BY EndKeeps
<1>a. \A t \in Senders : t = s
  BY DEF Alone
<1>t. /\ device.last \in Nat /\ slips \in Nat /\ gaps \in Nat /\ Used \subseteq Nat
      /\ Cardinality(E!Transmitted) \in Nat /\ Cardinality(Used) \in Nat
  BY Finite DEF EtimsInv, DeviceOK
<1>1. Underway'
  BY <1>a, <1>f DEF Underway
<1>2. CopiesCounted'
  <2>1. \A p : Copies(p)' = Copies(p)
    BY <1>f DEF Copies
  <2>2. \A p \in Papers : \/ Told(p)' <=> Told(p)
                          \/ ~Told(p)' /\ sender[s].op = "record"
    BY <1>a, <1>f DEF Told
  <2>3. slips' \in Nat /\ slips' >= slips /\ (sender[s].op = "record" => slips' = slips + 1)
    BY <1>f, <1>t
  <2> SUFFICES ASSUME NEW p \in Papers
               PROVE  Cardinality(Copies(p)') =< slips' + (IF Told(p)' THEN 1 ELSE 0)
    BY DEF CopiesCounted
  <2>4. Cardinality(Copies(p)) =< slips + (IF Told(p) THEN 1 ELSE 0) /\ Cardinality(Copies(p)) \in Nat
    BY Finite DEF AloneInv, CopiesCounted
  <2> QED BY <1>t, <2>1, <2>2, <2>3, <2>4
<1>3. E!Transmitted' = E!Transmitted /\ Used' = Used
  BY <1>f, PapersSame
<1>4. NumbersCounted'
  <2>0. /\ \A m \in Used : m =< n
        /\ Cardinality(E!Transmitted) + (IF Pending THEN 1 ELSE 0) =< Cardinality(Used) + gaps
    BY DEF AloneInv, NumbersCounted
  <2>1. CASE sender[s].op = "advance" /\ device'.last = sender[s].no /\ gaps' = gaps
    <3>1. device'.last = n
      BY <2>1 DEF AloneInv, Underway
    <3>2. ~Pending'
      BY <1>3, <1>t, <2>0, <3>1 DEF Pending
    <3>3. \A m \in Used' : m =< device'.last + 1
      BY <1>3, <1>t, <2>0, <3>1
    <3>4. Cardinality(E!Transmitted) =< Cardinality(Used) + gaps
      BY <1>t, <2>0
    <3>5. Cardinality(E!Transmitted) + 0 = Cardinality(E!Transmitted)
      BY <1>t
    <3> QED BY <1>3, <2>1, <3>2, <3>3, <3>4, <3>5 DEF NumbersCounted
  <2>2. CASE /\ device'.last = device.last
             /\ gaps' = gaps + (IF sender[s].op = "advance" THEN 1 ELSE 0)
    <3>1. \A m \in Used' : m =< device'.last + 1
      BY <1>3, <2>0, <2>2
    <3>2. sender[s].op # "advance" => (Pending' <=> Pending)
      BY <1>3, <1>a, <1>f, <2>2 DEF Pending
    <3>3. Cardinality(E!Transmitted) + (IF Pending' THEN 1 ELSE 0) =< Cardinality(Used) + gaps'
      BY <1>t, <2>0, <2>2, <3>2
    <3> QED BY <1>3, <3>1, <3>3 DEF NumbersCounted
  <2> QED BY <1>f, <2>1, <2>2
<1> QED BY <1>1, <1>2, <1>4 DEF AloneInv

(* Every step of a lone sender keeps the count of receipts. *)
LEMMA AloneStep ==
  ASSUME Alone, PapersOK, EtimsInv, AloneInv, [E!Next]_E!vars PROVE AloneInv'
<1>1. CASE \/ \E b \in Switches : E!SaveConfig(b)
           \/ E!InitializeDevice
           \/ \E i \in Products, ok \in BOOLEAN : E!RegisterItem(i, ok)
           \/ \E p \in Papers : E!Post(p)
           \/ UNCHANGED E!vars
  <2>1. /\ UNCHANGED <<held, sender, slips, gaps>> /\ device'.last = device.last
        /\ \A p \in Papers : papers'[p].no = papers[p].no /\ papers'[p].status = papers[p].status
    BY <1>1, OfficeKeeps
  <2>2. Underway'
    BY <2>1 DEF AloneInv, Underway, EtimsInv, DeviceOK
  <2> QED BY <2>1, <2>2, Untouched DEF E!Transmitted
<1>2. ASSUME NEW s \in Senders, NEW p \in Papers, E!StartTransmit(s, p) PROVE AloneInv'
  <2>1. /\ sender[s].op = "idle" /\ sender'[s].op = "items" /\ sender'[s].paper = p
        /\ sender'[s].no = device.last + 1 /\ papers[p].status # "transmitted"
        /\ UNCHANGED <<device, papers, held, slips, gaps>> /\ \A t \in Senders : t = s
    BY <1>2, StartKeeps DEF Alone
  <2>2. Underway'
    BY <2>1 DEF AloneInv, Underway
  <2> QED BY <2>1, <2>2, Untouched
<1>3. ASSUME NEW s \in Senders, E!EnsureItemsRegistered(s) \/ E!Refused(s) PROVE AloneInv'
  <2>1. /\ \/ sender[s].op = "items" /\ sender'[s].op = "post"
           \/ sender[s].op = "post" /\ sender'[s].op = "failed"
        /\ sender'[s].paper = sender[s].paper /\ sender'[s].no = sender[s].no
        /\ UNCHANGED <<device, papers, held, slips, gaps>> /\ \A t \in Senders : t = s
    BY <1>3, MovesKeep DEF Alone
  <2>2. Underway'
    BY <2>1 DEF AloneInv, Underway
  <2> QED BY <2>1, <2>2, Untouched
<1>4. ASSUME NEW s \in Senders, E!RecordFailure(s) PROVE AloneInv'
  <2>1. /\ sender[s].op = "failed" /\ sender'[s].op = "idle" /\ sender[s].paper \in Papers
        /\ papers'[sender[s].paper].status = "transmission_failed"
        /\ \A p \in Papers \ {sender[s].paper} : papers'[p] = papers[p]
        /\ UNCHANGED <<device, held, slips, gaps>> /\ \A t \in Senders : t = s
    BY <1>4, FailureKeeps DEF Alone
  <2>2. papers[sender[s].paper].status # "transmitted"
    BY <2>1 DEF AloneInv, Underway
  <2>3. Underway'
    BY <2>1 DEF Underway
  <2> QED BY <2>1, <2>2, <2>3, Untouched DEF E!Transmitted
<1> QED BY <1>1, <1>2, <1>3, <1>4, AloneIssue, AloneRecord, AloneEnd DEF E!Next

(* What is promised of receipts follows for a lone sender. *)
LEMMA AloneImplies ==
  ASSUME PapersOK, EtimsInv, AloneInv PROVE E!NumbersDistinct /\ E!HeldOnce
<1>1. E!NumbersDistinct
  BY Finite, SlipCards DEF E!NumbersDistinct, AloneInv, NumbersCounted, Used, EtimsInv, DeviceOK
<1>2. E!HeldOnce
  <2> SUFFICES ASSUME NEW p \in Papers PROVE Cardinality(Copies(p)) =< 1 + slips
    BY SlipCards DEF E!HeldOnce, Copies
  <2>1. Cardinality(Copies(p)) =< slips + (IF Told(p) THEN 1 ELSE 0)
    BY DEF AloneInv, CopiesCounted
  <2>2. Cardinality(Copies(p)) \in Nat /\ slips \in Nat
    BY Finite DEF EtimsInv, DeviceOK
  <2> QED BY <2>1, <2>2
<1> QED BY <1>1, <1>2

(* While transmissions do not overlap, two papers share a number only for  *)
(* a stop before the counter moved, and the authority holds a paper twice  *)
(* only for an answer or a record that was lost.                           *)
THEOREM ReceiptsOnce == PapersOK /\ Alone => (E!Spec => [](E!NumbersDistinct /\ E!HeldOnce))
<1> SUFFICES ASSUME PapersOK, Alone PROVE E!Spec => [](E!NumbersDistinct /\ E!HeldOnce)
  OBVIOUS
<1>1. E!Init => EtimsInv /\ AloneInv
  BY EtimsStart, AloneStart
<1>2. (EtimsInv /\ AloneInv) /\ [E!Next]_E!vars => (EtimsInv /\ AloneInv)'
  BY EtimsStep, AloneStep
<1>3. EtimsInv /\ AloneInv => E!NumbersDistinct /\ E!HeldOnce
  BY AloneImplies
<1> QED BY <1>1, <1>2, <1>3, PTL DEF E!Spec

-----------------------------------------------------------------------------
(* Purchasing: from requisitions and tenders to bills, claims and notes.    *)

(* Purchasing counts as these proofs do. *)
LEMMA BidCards == \A S : Pu!Cardinality(S) = Cardinality(S)
  BY DEF Cardinality, Pu!Cardinality, IsFiniteSet, Pu!IsFiniteSet

(* Quantities are counted in units. *)
UnitsOK == Ordered \in Nat /\ MaxBills \in Nat

-----------------------------------------------------------------------------
(* The inductive invariant of overlapping requests *)

Ops == {"idle", "approve_requisition", "convert", "approve_claim", "bid", "award", "lodge",
        "approve_bill", "edit_bill", "delete_bill", "post_bill", "pay_bill", "debit_note"}
Pcs == {"read", "mark", "insert", "award", "reject", "close", "link", "invoiced", "blind"}
BillStatuses == {"none", "draft", "pending_approval", "approved", "posted", "partially_paid", "paid"}
BidStatuses == {"none", "submitted", "awarded", "rejected"}
PaperStatuses == {"none", "draft", "submitted", "approved", "rejected", "converted"}

BillRows == [status : BillStatuses, po : BOOLEAN, qty : Nat, off : Nat, paid : Nat, balance : Int,
             entries : Nat, blind : BOOLEAN]
DeskRows == [op : Ops, pc : Pcs, bill : Pu!BillIds \cup {0}, bid : Nat,
             vendor : Vendors \cup {"none"}, amount : Nat, off : Nat]

PapersType ==
    /\ requisition \in [status : PaperStatuses, total : Totals \cup {0}]
    /\ bids \in [Vendors -> [id : Nat, status : BidStatuses]]
    /\ received \in Nat
    /\ bills \in [Pu!BillIds -> BillRows]
    /\ claim \in [status : PaperStatuses, total : Totals \cup {0}, entries : Nat]
    /\ claim.status = "none" => claim.entries = 0
    /\ lapses \in Nat

Sourcing == requisition.status \in {"approved", "converted"}

(* What a request that is under way knows, whatever the others did since. *)
DeskOK(t) ==
    /\ t.op \in {"approve_bill", "edit_bill", "delete_bill", "post_bill", "pay_bill"} => t.bill \in Pu!BillIds
    /\ t.op = "lodge" /\ t.pc \in {"link", "invoiced"} => t.bill \in Pu!BillIds
    /\ t.op \in {"bid", "award"} => t.vendor \in Vendors
    /\ t.op = "convert" => Sourcing
    /\ t.op = "approve_claim" => claim.status # "none"
    /\ t.op = "approve_claim" /\ t.pc = "mark" => claim.entries > 0

DesksOK == desk \in [Clerks -> DeskRows] /\ \A c \in Clerks : DeskOK(desk[c])

(* Several bids are marked as awarded only until an award that is under way *)
(* has rejected the others.                                                 *)
Single == \A v, w \in Vendors : bids[v].status = "awarded" /\ bids[w].status = "awarded" => v = w
WinnerInv == lapses = 0 => Single \/ \E c \in Clerks : Pu!At(c, "award", "reject")

PurchaseInv == PapersType /\ DesksOK /\ Pu!BookedBeforeMarked /\ WinnerInv

-----------------------------------------------------------------------------
(* What every step that is not about the winner, the desk or the books     *)
(* leaves as it was.                                                       *)
LEMMA IdleFacts == Pu!Idle \in DeskRows /\ Pu!Idle.op = "idle"
  BY DEF Pu!Idle, DeskRows, Ops, Pcs

(* An idle clerk knows nothing that could become false. *)
LEMMA IdleOK == DeskOK(Pu!Idle)'
  BY DEF Pu!Idle, DeskOK

(* What a request was known of is still known of it. *)
Onward ==
    /\ Sourcing => Sourcing'
    /\ claim.entries > 0 => claim'.entries > 0
    /\ claim.status # "none" => claim'.status # "none"

(* What a clerk knows stays true when only another's work goes on. *)
LEMMA DesksKept ==
  ASSUME PurchaseInv, NEW c \in Clerks, NEW t \in DeskRows, desk' = [desk EXCEPT ![c] = t],
         Onward, DeskOK(t)'
  PROVE  DesksOK'
<1>1. desk \in [Clerks -> DeskRows] /\ \A d \in Clerks : DeskOK(desk[d])
  BY DEF PurchaseInv, DesksOK
<1>2. desk' \in [Clerks -> DeskRows] /\ desk'[c] = t /\ \A d \in Clerks \ {c} : desk'[d] = desk[d]
  BY <1>1
<1>3. ASSUME NEW d \in Clerks \ {c} PROVE DeskOK(desk[d])'
  BY <1>1, <1>2 DEF DeskOK, Onward
<1>4. DeskOK(desk[c])'
  BY <1>2 DEF DeskOK
<1> QED BY <1>2, <1>3, <1>4 DEF DesksOK

(* It stays true as well when no clerk moves. *)
LEMMA DesksStay ==
  ASSUME PurchaseInv, desk' = desk, Onward
  PROVE  DesksOK'
  BY DEF PurchaseInv, DesksOK, DeskOK, Onward

(* A tender keeps its winner while a clerk is elsewhere. *)
LEMMA WinnerKept ==
  ASSUME PurchaseInv, NEW c \in Clerks, NEW t \in DeskRows, desk' = [desk EXCEPT ![c] = t],
         ~Pu!At(c, "award", "reject"), bids' = bids, lapses' = lapses
  PROVE  WinnerInv'
<1>1. desk \in [Clerks -> DeskRows]
  BY DEF PurchaseInv, DesksOK
<1>2. CASE lapses = 0 /\ ~Single
  <2>1. PICK d \in Clerks : Pu!At(d, "award", "reject")
    BY <1>2 DEF PurchaseInv, WinnerInv
  <2>2. desk'[d] = desk[d]
    BY <1>1, <2>1
  <2> QED BY <2>1, <2>2 DEF WinnerInv, Pu!At
<1>3. CASE lapses # 0 \/ Single
  BY <1>3 DEF WinnerInv, Single
<1> QED BY <1>2, <1>3

(* A tender keeps its winner while the bids rest. *)
LEMMA WinnerStays ==
  ASSUME PurchaseInv, desk' = desk, bids' = bids, lapses' = lapses
  PROVE  WinnerInv'
  BY DEF PurchaseInv, WinnerInv, Single, Pu!At

(* The smaller of two numbers. *)
LEMMA SmallerOf ==
  ASSUME NEW x \in Int, NEW y \in Int
  PROVE  Pu!Min({x, y}) \in {x, y} /\ Pu!Min({x, y}) =< x /\ Pu!Min({x, y}) =< y
<1>1. \E m \in {x, y} : \A n \in {x, y} : m =< n
  OBVIOUS
<1> QED BY <1>1 DEF Pu!Min

-----------------------------------------------------------------------------
(* Requests that begin, and those that stop. *)
LEMMA BeginStep ==
  ASSUME PurchaseInv, NEW c \in Clerks, NEW t \in DeskRows, DeskOK(t), Pu!Begin(c, t)
  PROVE  PurchaseInv'
<1>1. /\ desk[c].op = "idle" /\ desk' = [desk EXCEPT ![c] = t]
      /\ UNCHANGED <<requisition, bids, received, bills, claim, lapses>>
  BY DEF Pu!Begin, Pu!documents, Pu!sourcing, Pu!tendering, Pu!billing
<1>2. Onward /\ DeskOK(t)'
  BY <1>1 DEF Onward, Sourcing, DeskOK
<1>3. DesksOK'
  BY <1>1, <1>2, DesksKept
<1>4. WinnerInv'
  BY <1>1, WinnerKept DEF Pu!At
<1>5. PapersType' /\ Pu!BookedBeforeMarked'
  BY <1>1 DEF PurchaseInv, PapersType, Pu!BookedBeforeMarked
<1> QED BY <1>3, <1>4, <1>5 DEF PurchaseInv

(* A clerk who gives up leaves everything as it is. *)
LEMMA LapseStep == ASSUME PurchaseInv, NEW c \in Clerks, Pu!Lapse(c) PROVE PurchaseInv'
<1>1. /\ desk' = [desk EXCEPT ![c] = Pu!Idle] /\ lapses' = lapses + 1
      /\ UNCHANGED <<requisition, bids, received, bills, claim>>
  BY DEF Pu!Lapse, Pu!Finish, Pu!documents, Pu!sourcing, Pu!tendering, Pu!billing
<1>2. Onward
  BY <1>1 DEF Onward, Sourcing
<1>3. DesksOK'
  BY <1>1, <1>2, DesksKept, IdleFacts, IdleOK
<1>4. PapersType' /\ Pu!BookedBeforeMarked' /\ lapses' # 0
  BY <1>1 DEF PurchaseInv, PapersType, Pu!BookedBeforeMarked
<1> QED BY <1>3, <1>4 DEF PurchaseInv, WinnerInv

(* A request begins whose query failed. *)
LEMMA BlindStep ==
  ASSUME PurchaseInv, NEW c \in Clerks, NEW b \in Pu!BillIds, Pu!StartApproveUnmatched(c, b)
  PROVE  PurchaseInv'
<1>1. PICK t : t = [Pu!OnBill("approve_bill", b) EXCEPT !.pc = "blind"]
  OBVIOUS
<1>2. t \in DeskRows /\ t.op = "approve_bill" /\ t.bill = b
  BY <1>1 DEF Pu!OnBill, Pu!Idle, DeskRows, Ops, Pcs
<1>3. /\ desk' = [desk EXCEPT ![c] = t] /\ lapses' = lapses + 1
      /\ UNCHANGED <<requisition, bids, received, bills, claim>>
  BY <1>1 DEF Pu!StartApproveUnmatched, Pu!documents, Pu!sourcing, Pu!tendering, Pu!billing
<1>4. Onward /\ DeskOK(t)'
  BY <1>2, <1>3 DEF Onward, Sourcing, DeskOK
<1>5. DesksOK'
  BY <1>2, <1>3, <1>4, DesksKept
<1>6. PapersType' /\ Pu!BookedBeforeMarked' /\ lapses' # 0
  BY <1>3 DEF PurchaseInv, PapersType, Pu!BookedBeforeMarked
<1> QED BY <1>5, <1>6 DEF PurchaseInv, WinnerInv

(* A request that begins has only read. *)
LEMMA StartSteps ==
  ASSUME UnitsOK, PurchaseInv, NEW c \in Clerks,
         \/ Pu!StartApproveRequisition(c) \/ Pu!StartConvert(c) \/ Pu!StartApproveClaim(c)
         \/ \E v \in Vendors : Pu!StartBid(c, v) \/ Pu!StartAward(c, v)
         \/ \E q, off \in 0..Ordered : Pu!StartLodge(c, q, off)
         \/ \E b \in Pu!BillIds : \/ Pu!StartApproveBill(c, b) \/ Pu!StartPostBill(c, b) \/ Pu!StartDeleteBill(c, b)
                                  \/ \E q \in 1..Ordered : Pu!StartPayBill(c, b, q)
                                  \/ \E q, off \in 0..Ordered : Pu!StartEditBill(c, b, q, off)
  PROVE  PurchaseInv'
<1>0. Pu!Idle = [op |-> "idle", pc |-> "read", bill |-> 0, bid |-> 0, vendor |-> "none", amount |-> 0,
                 off |-> 0]
  BY DEF Pu!Idle
<1>00. \A q \in 0..Ordered : q \in Nat
  BY DEF UnitsOK
<1>1. CASE Pu!StartApproveRequisition(c)
  <2>1. PICK t : t = Pu!Request("approve_requisition")
    OBVIOUS
  <2>2. t \in DeskRows /\ DeskOK(t)
    BY <1>0, <2>1 DEF Pu!Request, DeskRows, DeskOK, Ops, Pcs
  <2> QED BY <1>1, <2>1, <2>2, BeginStep DEF Pu!StartApproveRequisition
<1>2. CASE Pu!StartConvert(c)
  <2>1. PICK t : t = Pu!Request("convert")
    OBVIOUS
  <2>2. t \in DeskRows /\ DeskOK(t)
    BY <1>0, <1>2, <2>1 DEF Pu!Request, DeskRows, DeskOK, Ops, Pcs, Pu!StartConvert, Sourcing
  <2> QED BY <1>2, <2>1, <2>2, BeginStep DEF Pu!StartConvert
<1>3. CASE Pu!StartApproveClaim(c)
  <2>1. PICK t : t = Pu!Request("approve_claim")
    OBVIOUS
  <2>2. t \in DeskRows /\ DeskOK(t)
    BY <1>0, <1>3, <2>1 DEF Pu!StartApproveClaim, Pu!Request, DeskRows, DeskOK, Ops, Pcs
  <2> QED BY <1>3, <2>1, <2>2, BeginStep DEF Pu!StartApproveClaim
<1>4. ASSUME NEW v \in Vendors, Pu!StartBid(c, v) PROVE PurchaseInv'
  <2>1. PICK t : t = [Pu!Request("bid") EXCEPT !.vendor = v]
    OBVIOUS
  <2>2. t \in DeskRows /\ DeskOK(t)
    BY <1>0, <2>1 DEF Pu!Request, DeskRows, DeskOK, Ops, Pcs
  <2> QED BY <1>4, <2>1, <2>2, BeginStep DEF Pu!StartBid
<1>5. ASSUME NEW v \in Vendors, Pu!StartAward(c, v) PROVE PurchaseInv'
  <2>1. PICK t : t = [Pu!Request("award") EXCEPT !.vendor = v, !.bid = bids[v].id]
    OBVIOUS
  <2>2. bids[v].id \in Nat
    BY DEF PurchaseInv, PapersType
  <2>3. t \in DeskRows /\ DeskOK(t)
    BY <1>0, <2>1, <2>2 DEF Pu!Request, DeskRows, DeskOK, Ops, Pcs
  <2> QED BY <1>5, <2>1, <2>3, BeginStep DEF Pu!StartAward
<1>6. ASSUME NEW q \in 0..Ordered, NEW off \in 0..Ordered, Pu!StartLodge(c, q, off) PROVE PurchaseInv'
  <2>1. PICK t : t = [Pu!Request("lodge") EXCEPT !.amount = q, !.off = off]
    OBVIOUS
  <2>2. t \in DeskRows /\ DeskOK(t)
    BY <1>0, <1>00, <2>1 DEF Pu!Request, DeskRows, DeskOK, Ops, Pcs
  <2> QED BY <1>6, <2>1, <2>2, BeginStep DEF Pu!StartLodge
<1>7. ASSUME NEW b \in Pu!BillIds, NEW op \in {"approve_bill", "post_bill", "delete_bill"},
             Pu!Begin(c, Pu!OnBill(op, b)) PROVE PurchaseInv'
  <2>1. PICK t : t = Pu!OnBill(op, b)
    OBVIOUS
  <2>2. t \in DeskRows /\ DeskOK(t)
    BY <1>0, <2>1 DEF Pu!OnBill, DeskRows, DeskOK, Ops, Pcs
  <2> QED BY <1>7, <2>1, <2>2, BeginStep
<1>8. ASSUME NEW b \in Pu!BillIds, NEW q \in 0..Ordered, NEW off \in 0..Ordered,
             Pu!StartEditBill(c, b, q, off)
      PROVE  PurchaseInv'
  <2>1. PICK t : t = [Pu!OnBill("edit_bill", b) EXCEPT !.amount = q, !.off = off]
    OBVIOUS
  <2>2. t \in DeskRows /\ DeskOK(t)
    BY <1>0, <1>00, <2>1 DEF Pu!OnBill, DeskRows, DeskOK, Ops, Pcs
  <2> QED BY <1>8, <2>1, <2>2, BeginStep DEF Pu!StartEditBill
<1>9. ASSUME NEW b \in Pu!BillIds, NEW q \in 1..Ordered, Pu!StartPayBill(c, b, q) PROVE PurchaseInv'
  <2>1. PICK a : a = Pu!Min({q, bills[b].balance})
    OBVIOUS
  <2>2. a \in Nat
    <3>1. bills[b].balance \in Int /\ bills[b].balance > 0
      BY <1>9 DEF Pu!StartPayBill, PurchaseInv, PapersType, BillRows
    <3>2. q \in Int /\ q \in Nat /\ bills[b].balance \in Nat
      BY <1>00, <3>1
    <3>3. a \in {q, bills[b].balance}
      BY <2>1, <3>1, <3>2, SmallerOf
    <3> QED BY <3>2, <3>3
  <2>3. PICK t : t = [Pu!OnBill("pay_bill", b) EXCEPT !.amount = a]
    OBVIOUS
  <2>4. t \in DeskRows /\ DeskOK(t)
    BY <1>0, <2>2, <2>3 DEF Pu!OnBill, DeskRows, DeskOK, Ops, Pcs
  <2> QED BY <1>9, <2>1, <2>3, <2>4, BeginStep DEF Pu!StartPayBill
<1> QED BY <1>1, <1>2, <1>3, <1>4, <1>5, <1>6, <1>7, <1>8, <1>9
        DEF Pu!StartApproveBill, Pu!StartPostBill, Pu!StartDeleteBill

-----------------------------------------------------------------------------
(* Requisitions *)

(* A requisition is created, submitted and rejected in order. *)
LEMMA RequisitionSteps ==
  ASSUME PurchaseInv,
         \/ \E n \in Totals : Pu!CreateRequisition(n)
         \/ Pu!SubmitRequisition \/ Pu!RejectRequisition
  PROVE  PurchaseInv'
<1>1. /\ desk' = desk /\ ~Sourcing /\ UNCHANGED <<bids, received, bills, claim, lapses>>
      /\ requisition' \in [status : PaperStatuses, total : Totals \cup {0}]
  BY DEF Pu!CreateRequisition, Pu!SubmitRequisition, Pu!RejectRequisition, Pu!SetRequisition,
     Sourcing, Pu!tendering,
         Pu!billing, PurchaseInv, PapersType, PaperStatuses
<1>2. Onward
  BY <1>1 DEF Onward
<1>3. DesksOK' /\ WinnerInv'
  BY <1>1, <1>2, DesksStay, WinnerStays
<1>4. PapersType' /\ Pu!BookedBeforeMarked'
  BY <1>1 DEF PurchaseInv, PapersType, Pu!BookedBeforeMarked
<1> QED BY <1>3, <1>4 DEF PurchaseInv

(* The request that is under way goes on to another step. *)
LEMMA Goes ==
  ASSUME PurchaseInv, NEW c \in Clerks, NEW pc \in Pcs, Pu!Go(c, pc)
  PROVE  \E t \in DeskRows : /\ desk' = [desk EXCEPT ![c] = t] /\ t.op = desk[c].op /\ t.pc = pc
                             /\ t.bill = desk[c].bill /\ t.vendor = desk[c].vendor
                             /\ t.bid = desk[c].bid /\ t.amount = desk[c].amount
<1>1. desk \in [Clerks -> DeskRows] /\ desk[c] \in DeskRows
  BY DEF PurchaseInv, DesksOK
<1>2. PICK t : t = [desk[c] EXCEPT !.pc = pc]
  OBVIOUS
<1>3. /\ t \in DeskRows /\ t.op = desk[c].op /\ t.pc = pc /\ t.bill = desk[c].bill
      /\ t.vendor = desk[c].vendor /\ t.bid = desk[c].bid /\ t.amount = desk[c].amount
  BY <1>1, <1>2 DEF DeskRows
<1>4. desk' = [desk EXCEPT ![c] = t]
  BY <1>1, <1>2 DEF Pu!Go
<1> QED BY <1>3, <1>4

(* A requisition is approved and then converted in order. *)
LEMMA ConvertSteps ==
  ASSUME PurchaseInv, NEW c \in Clerks,
         Pu!ApproveRequisition(c) \/ Pu!ConvertToDocument(c) \/ Pu!MarkConverted(c)
  PROVE  PurchaseInv'
<1>1. requisition \in [status : PaperStatuses, total : Totals \cup {0}] /\ DeskOK(desk[c])
  BY DEF PurchaseInv, PapersType, DesksOK
<1>2. /\ UNCHANGED <<bids, received, bills, claim, lapses>> /\ Onward
      /\ requisition' \in [status : PaperStatuses, total : Totals \cup {0}]
      /\ ~Pu!At(c, "award", "reject")
  BY <1>1 DEF Pu!ApproveRequisition, Pu!ConvertToDocument, Pu!MarkConverted, Pu!SetRequisition,
     Sourcing, Pu!tendering,
         Pu!billing, Pu!documents, Pu!sourcing, PaperStatuses, Onward, Pu!At, DeskOK
<1>3. PICK t \in DeskRows : desk' = [desk EXCEPT ![c] = t] /\ DeskOK(t)'
  <2>1. CASE Pu!ConvertToDocument(c)
    <3>1. PICK t \in DeskRows : desk' = [desk EXCEPT ![c] = t] /\ t.op = "convert"
      BY <2>1, Goes DEF Pu!ConvertToDocument, Pu!At, Pcs
    <3>2. Sourcing'
      BY <1>1, <1>2, <2>1 DEF Pu!ConvertToDocument, Pu!At, DeskOK, Onward
    <3> QED BY <3>1, <3>2 DEF DeskOK
  <2>2. CASE Pu!ApproveRequisition(c) \/ Pu!MarkConverted(c)
    BY <2>2, IdleFacts, IdleOK DEF Pu!ApproveRequisition, Pu!MarkConverted, Pu!Finish
  <2> QED BY <2>1, <2>2
<1>4. DesksOK' /\ WinnerInv'
  BY <1>2, <1>3, DesksKept, WinnerKept
<1>5. PapersType' /\ Pu!BookedBeforeMarked'
  BY <1>2 DEF PurchaseInv, PapersType, Pu!BookedBeforeMarked
<1> QED BY <1>4, <1>5 DEF PurchaseInv

-----------------------------------------------------------------------------
(* Tenders *)

(* What a step on the tender or its bids leaves alone. *)
Aside == UNCHANGED <<requisition, received, bills, claim, lapses>>

(* A step aside from bills and receipts leaves them sound. *)
LEMMA AsideFacts == ASSUME PurchaseInv, Aside, bids' \in [Vendors -> [id : Nat, status : BidStatuses]]
                    PROVE  PapersType' /\ Pu!BookedBeforeMarked' /\ Onward
  BY DEF PurchaseInv, PapersType, Pu!BookedBeforeMarked, Onward, Sourcing, Aside

(* A tender is created and published without a winner. *)
LEMMA TenderSteps == ASSUME PurchaseInv, Pu!CreateTender \/ Pu!PublishTender PROVE PurchaseInv'
<1>1. desk' = desk /\ bids' = bids /\ Aside
  BY DEF Pu!CreateTender, Pu!PublishTender, Aside, Pu!sourcing, Pu!billing
<1>2. bids' \in [Vendors -> [id : Nat, status : BidStatuses]]
  BY <1>1 DEF PurchaseInv, PapersType
<1> QED BY <1>1, <1>2, AsideFacts, DesksStay, WinnerStays DEF PurchaseInv, Aside

(* No bid is awarded that was not. *)
Fewer == \A v \in Vendors : bids'[v].status = "awarded" => bids[v].status = "awarded"

(* A bid replaces the vendor's own and no other. *)
LEMMA BidSteps ==
  ASSUME PurchaseInv, NEW c \in Clerks, Pu!DeleteBid(c) \/ Pu!InsertBid(c)
  PROVE  PurchaseInv'
<1>1. desk[c].op = "bid" /\ desk[c].vendor \in Vendors /\ ~Pu!At(c, "award", "reject") /\ Aside
  BY DEF Pu!DeleteBid, Pu!InsertBid, Pu!SetBids, Aside, Pu!sourcing, Pu!billing, Pu!At,
     PurchaseInv, DesksOK, DeskOK
<1>2. PICK v \in Vendors : v = desk[c].vendor
  BY <1>1
<1>3. PICK r \in [id : Nat, status : BidStatuses \ {"awarded"}] \cup {bids[v]} :
        bids' = [bids EXCEPT ![v] = r]
  <2>1. bids \in [Vendors -> [id : Nat, status : BidStatuses]]
    BY DEF PurchaseInv, PapersType
  <2>2. CASE Pu!DeleteBid(c)
    <3>1. PICK r : r = IF bids[v].status = "awarded" THEN bids[v] ELSE [bids[v] EXCEPT !.status = "none"]
      OBVIOUS
    <3>2. bids' = [bids EXCEPT ![v] = r]
      BY <1>2, <2>1, <2>2, <3>1 DEF Pu!DeleteBid, Pu!SetBids
    <3>3. r \in [id : Nat, status : BidStatuses \ {"awarded"}] \cup {bids[v]}
      BY <2>1, <3>1 DEF BidStatuses
    <3> QED BY <3>2, <3>3
  <2>3. CASE Pu!InsertBid(c)
    <3>1. PICK r : r = IF bids[v].status # "none" THEN bids[v]
                       ELSE [id |-> bids[v].id + 1, status |-> "submitted"]
      OBVIOUS
    <3>2. bids' = [bids EXCEPT ![v] = r]
      BY <1>2, <2>1, <2>3, <3>1 DEF Pu!InsertBid, Pu!SetBids
    <3>3. r \in [id : Nat, status : BidStatuses \ {"awarded"}] \cup {bids[v]}
      BY <2>1, <3>1 DEF BidStatuses
    <3> QED BY <3>2, <3>3
  <2> QED BY <2>2, <2>3
<1>4. bids' \in [Vendors -> [id : Nat, status : BidStatuses]] /\ Fewer
  BY <1>3 DEF PurchaseInv, PapersType, Fewer, BidStatuses
<1>5. PICK t \in DeskRows : desk' = [desk EXCEPT ![c] = t] /\ DeskOK(t)'
  <2>1. CASE Pu!DeleteBid(c)
    <3>1. PICK t \in DeskRows : desk' = [desk EXCEPT ![c] = t] /\ t.op = "bid" /\ t.vendor \in Vendors
      BY <1>1, <2>1, Goes DEF Pu!DeleteBid, Pcs
    <3> QED BY <3>1 DEF DeskOK
  <2>2. CASE Pu!InsertBid(c)
    BY <2>2, IdleFacts, IdleOK DEF Pu!InsertBid, Pu!Finish
  <2> QED BY <2>1, <2>2
<1>6. WinnerInv'
  <2>1. desk \in [Clerks -> DeskRows]
    BY DEF PurchaseInv, DesksOK
  <2>2. CASE lapses = 0 /\ ~Single
    <3>1. PICK d \in Clerks : Pu!At(d, "award", "reject")
      BY <2>2 DEF PurchaseInv, WinnerInv
    <3>2. desk'[d] = desk[d]
      BY <1>1, <1>5, <2>1, <3>1
    <3> QED BY <3>1, <3>2 DEF WinnerInv, Pu!At
  <2>3. CASE lapses # 0 \/ Single
    BY <1>1, <1>4, <2>3 DEF WinnerInv, Single, Fewer, Aside
  <2> QED BY <2>2, <2>3
<1> QED BY <1>1, <1>4, <1>5, <1>6, AsideFacts, DesksKept DEF PurchaseInv

(* An award leaves one winner and rejects the others. *)
LEMMA AwardSteps ==
  ASSUME PurchaseInv, NEW c \in Clerks,
         Pu!AwardOrder(c) \/ Pu!Award(c) \/ Pu!RejectOthers(c) \/ Pu!CloseTender(c)
  PROVE  PurchaseInv'
<1>0. /\ desk \in [Clerks -> DeskRows] /\ bids \in [Vendors -> [id : Nat, status : BidStatuses]]
      /\ DeskOK(desk[c])
  BY DEF PurchaseInv, PapersType, DesksOK
<1>1. desk[c].op = "award" /\ desk[c].vendor \in Vendors /\ Aside
  BY <1>0 DEF Pu!AwardOrder, Pu!Award, Pu!RejectOthers, Pu!CloseTender, Pu!Mark, Pu!SetBids,
     Aside, Pu!sourcing, Pu!billing, Pu!At,
              DeskOK
<1>2. bids' \in [Vendors -> [id : Nat, status : BidStatuses]]
  <2>1. ASSUME NEW v \in Vendors, NEW s \in BidStatuses
        PROVE  [bids[v] EXCEPT !.status = s] \in [id : Nat, status : BidStatuses]
    BY <1>0
  <2>2. "awarded" \in BidStatuses /\ "rejected" \in BidStatuses
    BY DEF BidStatuses
  <2> QED BY <1>0, <2>1, <2>2 DEF Pu!AwardOrder, Pu!Award, Pu!RejectOthers, Pu!CloseTender,
             Pu!Mark, Pu!SetBids
<1>3. PICK t \in DeskRows : desk' = [desk EXCEPT ![c] = t] /\ DeskOK(t)' /\ (Pu!Award(c) => t.op = "award" /\ t.pc = "reject")
  <2>1. ASSUME NEW pc \in Pcs, Pu!Go(c, pc)
        PROVE  \E t \in DeskRows : /\ desk' = [desk EXCEPT ![c] = t] /\ DeskOK(t)'
                                   /\ t.op = "award" /\ t.pc = pc
    <3>1. PICK t \in DeskRows : /\ desk' = [desk EXCEPT ![c] = t] /\ t.op = "award" /\ t.pc = pc
                                /\ t.vendor \in Vendors
      BY <1>1, <2>1, Goes
    <3> QED BY <3>1 DEF DeskOK
  <2>2. "award" \in Pcs /\ "reject" \in Pcs /\ "close" \in Pcs
    BY DEF Pcs
  <2>3. CASE Pu!CloseTender(c)
    BY <2>3, IdleFacts, IdleOK DEF Pu!CloseTender, Pu!Finish, Pu!Award, Pu!At
  <2>4. CASE Pu!AwardOrder(c)
    BY <2>1, <2>2, <2>4 DEF Pu!AwardOrder, Pu!Award, Pu!At
  <2>5. CASE Pu!Award(c)
    BY <2>1, <2>2, <2>5 DEF Pu!Award
  <2>6. CASE Pu!RejectOthers(c)
    BY <2>1, <2>2, <2>6 DEF Pu!RejectOthers, Pu!Award, Pu!At
  <2> QED BY <2>3, <2>4, <2>5, <2>6
<1>4. WinnerInv'
  <2>1. CASE Pu!AwardOrder(c) \/ Pu!CloseTender(c)
    <3>1. bids' = bids /\ ~Pu!At(c, "award", "reject") /\ lapses' = lapses
      BY <1>1, <2>1 DEF Pu!AwardOrder, Pu!CloseTender, Pu!At, Aside
    <3> QED BY <1>3, <3>1, WinnerKept
  <2>2. CASE Pu!Award(c)
    <3>1. desk'[c].op = "award" /\ desk'[c].pc = "reject"
      BY <1>0, <1>3, <2>2
    <3> QED BY <3>1 DEF WinnerInv, Pu!At
  <2>3. CASE Pu!RejectOthers(c)
    <3>1. \A v \in Vendors : bids'[v] = IF bids[v].status # "none" /\ ~Pu!Won(c, v)
                                        THEN [bids[v] EXCEPT !.status = "rejected"] ELSE bids[v]
      BY <2>3 DEF Pu!RejectOthers, Pu!Mark, Pu!SetBids
    <3>2. \A v \in Vendors : bids'[v].status = "awarded" => v = desk[c].vendor
      BY <1>0, <3>1 DEF Pu!Won
    <3> QED BY <3>2 DEF WinnerInv, Single
  <2> QED BY <2>1, <2>2, <2>3
<1> QED BY <1>1, <1>2, <1>3, <1>4, AsideFacts, DesksKept DEF PurchaseInv

-----------------------------------------------------------------------------
(* Orders, receipts and bills *)

(* A step that is about one bill at most and stores in it a row that is    *)
(* booked if it is posted, or leaves it.                                   *)
OneBill ==
    /\ UNCHANGED <<requisition, bids, claim, lapses>> /\ received' \in Nat
    /\ \E b \in Pu!BillIds, r \in BillRows : /\ r.status = "posted" => r.entries > 0
                                             /\ bills' = [bills EXCEPT ![b] = r]

(* A step on one bill leaves every other paper sound. *)
LEMMA OneBillFacts ==
  ASSUME PurchaseInv, OneBill \/ (UNCHANGED <<requisition, bids, claim, lapses, bills>> /\ received' \in Nat)
  PROVE  PapersType' /\ Pu!BookedBeforeMarked' /\ Onward
<1>1. /\ UNCHANGED <<requisition, bids, claim, lapses>> /\ received' \in Nat
      /\ bills' \in [Pu!BillIds -> BillRows]
      /\ \A b \in Pu!BillIds : bills'[b].status = "posted" => bills'[b].entries > 0
  <2>1. /\ bills \in [Pu!BillIds -> BillRows]
        /\ \A b \in Pu!BillIds : bills[b].status = "posted" => bills[b].entries > 0
    BY DEF PurchaseInv, PapersType, Pu!BookedBeforeMarked
  <2>2. CASE OneBill
    BY <2>1, <2>2 DEF OneBill
  <2> QED BY <2>1, <2>2
<1> QED BY <1>1 DEF PurchaseInv, PapersType, Pu!BookedBeforeMarked, Onward, Sourcing

(* The next free row. *)
LEMMA UnusedRow ==
  ASSUME UnitsOK, Pu!Unused # {}
  PROVE  Pu!Min(Pu!Unused) \in Pu!BillIds /\ bills[Pu!Min(Pu!Unused)] = Pu!NoBill
<1>1. Pu!Unused \in SUBSET Nat /\ Pu!Unused \subseteq Pu!BillIds
  BY DEF Pu!Unused, Pu!BillIds, UnitsOK
<1>2. \E m \in Pu!Unused : \A n \in Pu!Unused : m =< n
  BY <1>1, LeastNatural
<1>3. Pu!Min(Pu!Unused) \in Pu!Unused
  BY <1>2 DEF Pu!Min
<1> QED BY <1>3 DEF Pu!Unused

(* What a new bill looks like, field by field. *)
LEMMA NewRow ==
  ASSUME NEW s \in BillStatuses, NEW n \in Nat, NEW o \in Nat
  PROVE  /\ Pu!Bill(s, FALSE, n, o) \in BillRows /\ Pu!Bill(s, FALSE, n, o).status = s
         /\ Pu!Bill(s, FALSE, n, o).po = FALSE /\ Pu!Bill(s, FALSE, n, o).qty = n
         /\ Pu!Bill(s, FALSE, n, o).off = o /\ Pu!Bill(s, FALSE, n, o).paid = 0
         /\ Pu!Bill(s, FALSE, n, o).balance = n + o /\ Pu!Bill(s, FALSE, n, o).entries = 0
  BY DEF Pu!Bill, BillRows

(* Orders, receipts and new bills keep the invariant. *)
LEMMA OrderSteps ==
  ASSUME UnitsOK, PurchaseInv,
         \/ Pu!CreatePurchaseOrder
         \/ \E q \in 1..Ordered : Pu!CreateGoodsReceipt(q) \/ Pu!CreateBill(q)
  PROVE  PurchaseInv'
<1>0. \A q \in 1..Ordered : q \in Nat
  BY DEF UnitsOK
<1>1. desk' = desk /\ bids' = bids /\ lapses' = lapses
  BY DEF Pu!CreatePurchaseOrder, Pu!CreateGoodsReceipt, Pu!CreateBill, Pu!SetBill, Pu!SetBills,
     Pu!tendering
<1>2. OneBill \/ (UNCHANGED <<requisition, bids, claim, lapses, bills>> /\ received' \in Nat)
  <2>1. CASE Pu!CreatePurchaseOrder \/ \E q \in 1..Ordered : Pu!CreateGoodsReceipt(q)
    BY <1>0, <2>1 DEF Pu!CreatePurchaseOrder, Pu!CreateGoodsReceipt, Pu!sourcing, Pu!tendering,
       PurchaseInv, PapersType
  <2>2. ASSUME NEW q \in 1..Ordered, Pu!CreateBill(q) PROVE OneBill
    <3>1. PICK r : r = Pu!Bill("draft", FALSE, q, 0)
      OBVIOUS
    <3>2. r \in BillRows /\ r.status = "draft"
      <4>1. "draft" \in BillStatuses /\ q \in Nat /\ 0 \in Nat
        BY <1>0 DEF BillStatuses
      <4> QED BY <3>1, <4>1, NewRow
    <3>3. bills' = [bills EXCEPT ![Pu!Min(Pu!Unused)] = r] /\ Pu!Min(Pu!Unused) \in Pu!BillIds
      BY <2>2, <3>1, UnusedRow DEF Pu!CreateBill, Pu!SetBill, Pu!SetBills
    <3>4. UNCHANGED <<requisition, bids, claim, lapses>> /\ received' \in Nat
      BY <2>2 DEF Pu!CreateBill, Pu!SetBill, Pu!SetBills, Pu!sourcing, Pu!tendering, PurchaseInv,
         PapersType
    <3> QED BY <3>2, <3>3, <3>4 DEF OneBill
  <2> QED BY <2>1, <2>2
<1> QED BY <1>1, <1>2, OneBillFacts, DesksStay, WinnerStays DEF PurchaseInv

(* A request that has its bill. *)
LEMMA HasBill ==
  ASSUME PurchaseInv, NEW c \in Clerks,
         \/ desk[c].op \in {"approve_bill", "edit_bill", "delete_bill", "post_bill", "pay_bill"}
         \/ desk[c].op = "lodge" /\ desk[c].pc \in {"link", "invoiced"}
  PROVE  desk[c].bill \in Pu!BillIds /\ bills[desk[c].bill] \in BillRows
  BY DEF PurchaseInv, DesksOK, DeskOK, PapersType

(* Writing bills touches no other paper. *)
LEMMA BillRest == ASSUME PurchaseInv, NEW new, Pu!SetBills(new)
                  PROVE  UNCHANGED <<requisition, bids, claim, lapses>> /\ received' \in Nat /\ bills' = new
  BY DEF Pu!SetBills, Pu!sourcing, Pu!tendering, PurchaseInv, PapersType

(* The handlers that rewrite a bill. *)
LEMMA BillRewritten ==
  ASSUME PurchaseInv, NEW c \in Clerks,
         Pu!LinkBill(c) \/ Pu!ApproveBill(c) \/ Pu!EditBill(c) \/ Pu!DeleteBill(c) \/ Pu!PostBill(c) \/ Pu!PayBill(c)
  PROVE  OneBill
<1>0. desk[c] \in DeskRows
  BY DEF PurchaseInv, DesksOK
<1>1. /\ \/ desk[c].op \in {"approve_bill", "edit_bill", "delete_bill", "post_bill", "pay_bill"}
         \/ desk[c].op = "lodge" /\ desk[c].pc \in {"link", "invoiced"}
      /\ UNCHANGED <<requisition, bids, claim, lapses>> /\ received' \in Nat
  BY BillRest DEF Pu!LinkBill, Pu!ApproveBill, Pu!EditBill, Pu!DeleteBill, Pu!PostBill,
     Pu!PayBill, Pu!At, Pu!UpdateBill, Pu!SetBill
<1>2. PICK b \in Pu!BillIds, row \in BillRows, a \in Nat :
        b = desk[c].bill /\ row = bills[b] /\ a = desk[c].amount
  BY <1>0, <1>1, HasBill DEF DeskRows
<1>3. row.status = "posted" => row.entries > 0
  BY <1>2 DEF PurchaseInv, Pu!BookedBeforeMarked
<1>4. ASSUME NEW r, Pu!UpdateBill(b, r), r \in BillRows, r.status = "posted" => r.entries > 0
      PROVE  OneBill
  <2>1. PICK s \in {row, r} : bills' = [bills EXCEPT ![b] = s]
    BY <1>2, <1>4, BillRest DEF Pu!UpdateBill, Pu!SetBill
  <2> QED BY <1>1, <1>3, <1>4, <2>1 DEF OneBill
<1>5. CASE Pu!LinkBill(c)
  <2>1. Pu!UpdateBill(b, [row EXCEPT !.po = TRUE, !.status = "pending_approval"])
    BY <1>2, <1>5 DEF Pu!LinkBill
  <2>2. PICK r : r = [row EXCEPT !.po = TRUE, !.status = "pending_approval"]
    OBVIOUS
  <2>3. r \in BillRows /\ r.status = "pending_approval"
    BY <2>2 DEF BillRows, BillStatuses
  <2> QED BY <1>4, <2>1, <2>2, <2>3
<1>6. CASE Pu!ApproveBill(c)
  <2>0. PICK blind \in BOOLEAN : blind = (desk[c].pc = "blind")
    OBVIOUS
  <2>1. Pu!UpdateBill(b, [row EXCEPT !.status = "approved", !.blind = blind])
    BY <1>2, <1>6, <2>0 DEF Pu!ApproveBill
  <2>2. PICK r : r = [row EXCEPT !.status = "approved", !.blind = blind]
    OBVIOUS
  <2>3. r \in BillRows /\ r.status = "approved"
    BY <2>2 DEF BillRows, BillStatuses
  <2> QED BY <1>4, <2>1, <2>2, <2>3
<1>7. CASE Pu!EditBill(c)
  <2>0. PICK o \in Nat, i \in Int : o = desk[c].off /\ i = a + o
    BY <1>0 DEF DeskRows
  <2>1. Pu!UpdateBill(b, [row EXCEPT !.qty = a, !.off = o, !.balance = i])
    BY <1>2, <1>7, <2>0 DEF Pu!EditBill
  <2>2. PICK r : r = [row EXCEPT !.qty = a, !.off = o, !.balance = i]
    OBVIOUS
  <2>3. r \in BillRows /\ r.status = row.status /\ r.entries = row.entries
    BY <2>2 DEF BillRows
  <2> QED BY <1>3, <1>4, <2>1, <2>2, <2>3
<1>8. CASE Pu!DeleteBill(c)
  <2>1. bills' = [bills EXCEPT ![b] = Pu!NoBill]
    BY <1>2, <1>8, BillRest DEF Pu!DeleteBill, Pu!SetBill
  <2>2. Pu!NoBill \in BillRows /\ Pu!NoBill.status = "none"
    <3>1. "none" \in BillStatuses /\ 0 \in Nat
      BY DEF BillStatuses
    <3> QED BY <3>1, NewRow DEF Pu!NoBill
  <2> QED BY <1>1, <2>1, <2>2 DEF OneBill
<1>9. CASE Pu!PostBill(c)
  <2>1. PICK r : r = [row EXCEPT !.status = IF @ = "none" THEN @ ELSE "posted",
                                 !.entries = IF @ < 2 THEN @ + 1 ELSE @]
    OBVIOUS
  <2>2. bills' = [bills EXCEPT ![b] = r]
    BY <1>2, <1>9, <2>1, BillRest DEF Pu!PostBill, Pu!SetBill
  <2>3. PICK e \in Nat : e = IF row.entries < 2 THEN row.entries + 1 ELSE row.entries
    BY DEF BillRows
  <2>4. PICK s \in BillStatuses : s = IF row.status = "none" THEN "none" ELSE "posted"
    BY DEF BillStatuses
  <2>5. r = [row EXCEPT !.status = s, !.entries = e] /\ e > 0
    <3>1. s = IF row.status = "none" THEN row.status ELSE "posted"
      BY <2>4
    <3>2. row.entries \in Nat
      BY DEF BillRows
    <3>3. e > 0
      BY <2>3, <3>2
    <3>4. r = [row EXCEPT !.status = s, !.entries = e]
      BY <2>1, <2>3, <3>1
    <3> QED BY <3>3, <3>4
  <2>6. r \in BillRows /\ r.entries = e
    BY <2>5 DEF BillRows
  <2> QED BY <1>1, <2>2, <2>5, <2>6 DEF OneBill
<1>10. CASE Pu!PayBill(c)
  <2>1. PICK s \in {"paid", "partially_paid"}, left \in {row.balance - a} : left = row.balance - a
           /\ Pu!UpdateBill(b, [row EXCEPT !.paid = @ + a, !.balance = left, !.status = s])
    BY <1>2, <1>10 DEF Pu!PayBill
  <2>2. PICK p \in Nat : p = row.paid + a
    BY DEF BillRows
  <2>3. PICK r : r = [row EXCEPT !.paid = p, !.balance = left, !.status = s]
    OBVIOUS
  <2>4. left \in Int
    BY <2>1 DEF BillRows
  <2>5. r \in BillRows /\ r.status = s
    BY <2>3, <2>4 DEF BillRows, BillStatuses
  <2> QED BY <1>4, <2>1, <2>2, <2>3, <2>5
<1> QED BY <1>5, <1>6, <1>7, <1>8, <1>9, <1>10

(* The handlers of bills keep the invariant, *)
LEMMA BillSteps ==
  ASSUME UnitsOK, PurchaseInv, NEW c \in Clerks,
         \/ Pu!LodgeBill(c) \/ Pu!LinkBill(c) \/ Pu!MarkInvoiced(c)
         \/ Pu!ApproveBill(c) \/ Pu!EditBill(c) \/ Pu!DeleteBill(c) \/ Pu!PostBill(c) \/ Pu!PayBill(c)
  PROVE  PurchaseInv'
<1>0. desk[c] \in DeskRows /\ DeskOK(desk[c])
  BY DEF PurchaseInv, DesksOK
<1>1. ~Pu!At(c, "award", "reject") /\ bids' = bids /\ lapses' = lapses
  BY BillRest DEF Pu!LodgeBill, Pu!LinkBill, Pu!MarkInvoiced, Pu!ApproveBill, Pu!EditBill,
     Pu!DeleteBill, Pu!PostBill, Pu!PayBill,
         Pu!At, Pu!UpdateBill, Pu!SetBill, Pu!tendering
<1>2. OneBill \/ (UNCHANGED <<requisition, bids, claim, lapses, bills>> /\ received' \in Nat)
  <2>1. CASE Pu!LodgeBill(c)
    <3>1. PICK r : r = Pu!Bill("draft", FALSE, desk[c].amount, desk[c].off)
      OBVIOUS
    <3>2. r \in BillRows /\ r.status = "draft"
      <4>1. "draft" \in BillStatuses /\ desk[c].amount \in Nat /\ desk[c].off \in Nat
        BY <1>0 DEF BillStatuses, DeskRows
      <4> QED BY <3>1, <4>1, NewRow
    <3>3. Pu!SetBills([bills EXCEPT ![Pu!Min(Pu!Unused)] = r]) /\ Pu!Min(Pu!Unused) \in Pu!BillIds
      BY <2>1, <3>1, UnusedRow DEF Pu!LodgeBill, Pu!SetBill
    <3> QED BY <3>2, <3>3, BillRest DEF OneBill
  <2>2. CASE Pu!MarkInvoiced(c)
    BY <2>2 DEF Pu!MarkInvoiced, Pu!sourcing, Pu!tendering, PurchaseInv, PapersType
  <2> QED BY <2>1, <2>2, BillRewritten
<1>3. PICK t \in DeskRows : desk' = [desk EXCEPT ![c] = t] /\ DeskOK(t)'
  <2>1. CASE Pu!LodgeBill(c)
    <3>1. PICK b \in Pu!BillIds : b = Pu!Min(Pu!Unused)
      BY <2>1, UnusedRow DEF Pu!LodgeBill
    <3>2. PICK t : t = [desk[c] EXCEPT !.pc = "link", !.bill = b]
      OBVIOUS
    <3>3. t \in DeskRows /\ t.op = "lodge" /\ t.bill \in Pu!BillIds
      BY <1>0, <2>1, <3>2 DEF DeskRows, Pcs, Pu!LodgeBill, Pu!At
    <3>4. desk' = [desk EXCEPT ![c] = t]
      BY <2>1, <3>1, <3>2 DEF Pu!LodgeBill, PurchaseInv, DesksOK
    <3> QED BY <3>3, <3>4 DEF DeskOK
  <2>2. CASE Pu!LinkBill(c)
    <3>1. PICK t \in DeskRows : desk' = [desk EXCEPT ![c] = t] /\ t.op = "lodge" /\ t.bill \in Pu!BillIds
      BY <2>2, Goes, HasBill DEF Pu!LinkBill, Pu!At, Pcs
    <3> QED BY <3>1 DEF DeskOK
  <2>3. CASE ~Pu!LodgeBill(c) /\ ~Pu!LinkBill(c)
    BY <2>3, IdleFacts, IdleOK DEF Pu!MarkInvoiced, Pu!ApproveBill, Pu!EditBill, Pu!DeleteBill,
       Pu!PostBill, Pu!PayBill, Pu!Finish
  <2> QED BY <2>1, <2>2, <2>3
<1> QED BY <1>1, <1>2, <1>3, OneBillFacts, DesksKept, WinnerKept DEF PurchaseInv

-----------------------------------------------------------------------------
(* Notes and claims *)

(* those of notes too, *)
LEMMA NoteSteps ==
  ASSUME PurchaseInv, NEW c \in Clerks,
         Pu!StoreDebitNote(c) \/ Pu!PostDebitNote(c) \/ Pu!CreateSupplierCreditNote(c)
  PROVE  PurchaseInv'
<1>1. UNCHANGED <<requisition, bids, received, bills, claim, lapses>> /\ ~Pu!At(c, "award", "reject")
  BY DEF Pu!StoreDebitNote, Pu!PostDebitNote, Pu!CreateSupplierCreditNote, Pu!SetNotes,
     Pu!sourcing, Pu!tendering, Pu!billing, Pu!At
<1>2. Onward /\ PapersType' /\ Pu!BookedBeforeMarked'
  BY <1>1 DEF Onward, Sourcing, PurchaseInv, PapersType, Pu!BookedBeforeMarked
<1>3. CASE Pu!CreateSupplierCreditNote(c)
  BY <1>1, <1>2, <1>3, DesksStay, WinnerStays DEF Pu!CreateSupplierCreditNote, PurchaseInv
<1>4. CASE ~Pu!CreateSupplierCreditNote(c)
  <2>1. PICK t \in DeskRows : desk' = [desk EXCEPT ![c] = t] /\ DeskOK(t)'
    <3>1. CASE Pu!StoreDebitNote(c)
      <4>1. PICK t : t = Pu!Request("debit_note")
        OBVIOUS
      <4>2. t \in DeskRows /\ t.op = "debit_note"
        BY <4>1 DEF Pu!Request, Pu!Idle, DeskRows, Ops, Pcs
      <4> QED BY <3>1, <4>1, <4>2 DEF Pu!StoreDebitNote, DeskOK
    <3>2. CASE Pu!PostDebitNote(c)
      BY <3>2, IdleFacts, IdleOK DEF Pu!PostDebitNote, Pu!Finish
    <3> QED BY <1>4, <3>1, <3>2
  <2> QED BY <1>1, <1>2, <2>1, DesksKept, WinnerKept DEF PurchaseInv
<1> QED BY <1>3, <1>4

(* and those of expense claims. *)
LEMMA ClaimSteps ==
  ASSUME PurchaseInv,
         \/ Pu!SubmitClaim \/ Pu!RejectClaim
         \/ \E n \in Totals : Pu!CreateClaim(n)
         \/ \E c \in Clerks : Pu!PostClaim(c) \/ Pu!MarkClaim(c)
  PROVE  PurchaseInv'
<1>0. claim \in [status : PaperStatuses, total : Totals \cup {0}, entries : Nat]
  BY DEF PurchaseInv, PapersType
<1>1. UNCHANGED <<requisition, bids, received, bills, lapses>>
  BY DEF Pu!SubmitClaim, Pu!RejectClaim, Pu!CreateClaim, Pu!PostClaim, Pu!MarkClaim, Pu!SetClaim,
     Pu!sourcing, Pu!tendering, Pu!billing
<1>2. /\ claim' \in [status : PaperStatuses, total : Totals \cup {0}, entries : Nat]
      /\ claim'.status = "approved" => claim'.entries > 0
      /\ claim'.status = "none" => claim'.entries = 0
      /\ Onward
      /\ DesksOK'
      /\ WinnerInv'
  <2>1. CASE Pu!SubmitClaim \/ Pu!RejectClaim
    <3>1. PICK s \in {"submitted", "rejected"} : claim' = [claim EXCEPT !.status = s]
      BY <2>1 DEF Pu!SubmitClaim, Pu!RejectClaim, Pu!SetClaim
    <3>2. claim' \in [status : PaperStatuses, total : Totals \cup {0}, entries : Nat]
          /\ claim'.status = s /\ claim'.entries = claim.entries
      BY <1>0, <3>1 DEF PaperStatuses
    <3>3. Onward /\ desk' = desk
      BY <1>1, <2>1, <3>2 DEF Onward, Sourcing, Pu!SubmitClaim, Pu!RejectClaim
    <3> QED BY <1>1, <3>2, <3>3, DesksStay, WinnerStays
  <2>2. ASSUME NEW n \in Totals, Pu!CreateClaim(n)
        PROVE  /\ claim' \in [status : PaperStatuses, total : Totals \cup {0}, entries : Nat]
               /\ claim'.status = "approved" => claim'.entries > 0
               /\ claim'.status = "none" => claim'.entries = 0
               /\ Onward
               /\ DesksOK'
               /\ WinnerInv'
    <3>1. claim' = [status |-> "draft", total |-> n, entries |-> 0] /\ desk' = desk
          /\ claim.status = "none"
      BY <2>2 DEF Pu!CreateClaim, Pu!SetClaim
    <3>2. claim' \in [status : PaperStatuses, total : Totals \cup {0}, entries : Nat]
          /\ claim'.status = "draft"
      BY <3>1 DEF PaperStatuses
    <3>3. Onward /\ DesksOK'
      <4>1. claim.entries = 0
        BY <3>1 DEF PurchaseInv, PapersType
      <4>2. Onward
        BY <1>1, <3>1, <4>1 DEF Onward, Sourcing
      <4> QED BY <3>1, <4>2, DesksStay
    <3> QED BY <1>1, <3>1, <3>2, <3>3, DesksStay, WinnerStays
  <2>3. ASSUME NEW c \in Clerks, Pu!PostClaim(c)
        PROVE  /\ claim' \in [status : PaperStatuses, total : Totals \cup {0}, entries : Nat]
               /\ claim'.status = "approved" => claim'.entries > 0
               /\ claim'.status = "none" => claim'.entries = 0
               /\ Onward
               /\ DesksOK'
               /\ WinnerInv'
    <3>1. PICK e \in Nat : e = IF claim.entries < 2 THEN claim.entries + 1 ELSE claim.entries
      BY <1>0
    <3>2. claim' = [claim EXCEPT !.entries = e] /\ e > 0 /\ ~Pu!At(c, "award", "reject")
      BY <1>0, <2>3, <3>1 DEF Pu!PostClaim, Pu!SetClaim, Pu!At
    <3>3. claim' \in [status : PaperStatuses, total : Totals \cup {0}, entries : Nat]
          /\ claim'.entries = e /\ claim'.status = claim.status
      BY <1>0, <3>2
    <3>30. claim.status # "none"
      BY <2>3 DEF Pu!PostClaim, Pu!At, PurchaseInv, DesksOK, DeskOK
    <3>4. Onward
      BY <1>1, <3>2, <3>3 DEF Onward, Sourcing
    <3>5. PICK t \in DeskRows : desk' = [desk EXCEPT ![c] = t] /\ t.op = "approve_claim"
      BY <2>3, Goes DEF Pu!PostClaim, Pu!At, Pcs
    <3>6. DeskOK(t)'
      BY <3>2, <3>3, <3>30, <3>5 DEF DeskOK
    <3> QED BY <1>1, <3>2, <3>30, <3>3, <3>4, <3>5, <3>6, DesksKept, WinnerKept
  <2>4. ASSUME NEW c \in Clerks, Pu!MarkClaim(c)
        PROVE  /\ claim' \in [status : PaperStatuses, total : Totals \cup {0}, entries : Nat]
               /\ claim'.status = "approved" => claim'.entries > 0
               /\ claim'.status = "none" => claim'.entries = 0
               /\ Onward
               /\ DesksOK'
               /\ WinnerInv'
    <3>1. claim.entries > 0 /\ ~Pu!At(c, "award", "reject")
      BY <2>4 DEF Pu!MarkClaim, Pu!At, PurchaseInv, DesksOK, DeskOK
    <3>2. claim' = [claim EXCEPT !.status = "approved"] /\ desk' = [desk EXCEPT ![c] = Pu!Idle]
      BY <2>4 DEF Pu!MarkClaim, Pu!SetClaim, Pu!Finish
    <3>3. claim' \in [status : PaperStatuses, total : Totals \cup {0}, entries : Nat]
          /\ claim'.entries = claim.entries /\ claim'.status = "approved"
      BY <1>0, <3>2 DEF PaperStatuses
    <3>4. Onward
      BY <1>1, <3>3 DEF Onward, Sourcing
    <3> QED BY <1>1, <3>1, <3>2, <3>3, <3>4, IdleFacts, IdleOK, DesksKept, WinnerKept
  <2> QED BY <2>1, <2>2, <2>3, <2>4
<1>3. PapersType' /\ Pu!BookedBeforeMarked'
  BY <1>1, <1>2 DEF PurchaseInv, PapersType, Pu!BookedBeforeMarked
<1> QED BY <1>2, <1>3 DEF PurchaseInv

-----------------------------------------------------------------------------
(* The first theorem *)

(* Nothing is bought at first. *)
LEMMA PurchaseStart == ASSUME UnitsOK, Pu!Init PROVE PurchaseInv
<1>1. Pu!NoBill \in BillRows /\ Pu!NoBill.status = "none"
  <2>1. "none" \in BillStatuses /\ 0 \in Nat
    BY DEF BillStatuses
  <2> QED BY <2>1, NewRow DEF Pu!NoBill
<1>2. PapersType
  BY <1>1 DEF Pu!Init, PapersType, PaperStatuses, BidStatuses
<1>3. DesksOK
  BY IdleFacts DEF Pu!Init, DesksOK, DeskOK
<1>4. Pu!BookedBeforeMarked
  BY <1>1 DEF Pu!Init, Pu!BookedBeforeMarked
<1>5. WinnerInv
  BY DEF Pu!Init, WinnerInv, Single
<1> QED BY <1>2, <1>3, <1>4, <1>5 DEF PurchaseInv

(* Every step keeps the invariant of purchasing. *)
LEMMA PurchaseStep == ASSUME UnitsOK, PurchaseInv, [Pu!Next]_Pu!vars PROVE PurchaseInv'
<1>1. CASE UNCHANGED Pu!vars
  BY <1>1 DEF Pu!vars, PurchaseInv, PapersType, DesksOK, DeskOK, Sourcing, Pu!BookedBeforeMarked,
     WinnerInv,
              Single, Pu!At
<1>2. ASSUME NEW c \in Clerks, Pu!Requisitions(c) PROVE PurchaseInv'
  BY <1>2, StartSteps, ConvertSteps DEF Pu!Requisitions
<1>3. ASSUME NEW c \in Clerks, Pu!Tenders(c) PROVE PurchaseInv'
  BY <1>3, StartSteps, BidSteps, AwardSteps DEF Pu!Tenders
<1>4. ASSUME NEW c \in Clerks, Pu!Bills(c) PROVE PurchaseInv'
  BY <1>4, StartSteps, BlindStep, BillSteps DEF Pu!Bills
<1>5. ASSUME NEW c \in Clerks, Pu!Claims(c) PROVE PurchaseInv'
  BY <1>5, StartSteps, ClaimSteps DEF Pu!Claims
<1>6. ASSUME NEW c \in Clerks, Pu!Notes(c) PROVE PurchaseInv'
  BY <1>6, NoteSteps DEF Pu!Notes
<1>7. ASSUME NEW c \in Clerks, Pu!Lapse(c) PROVE PurchaseInv'
  BY <1>7, LapseStep
<1>8. CASE \E n \in Totals : Pu!CreateRequisition(n)
  BY <1>8, RequisitionSteps
<1>9. CASE \E n \in Totals : Pu!CreateClaim(n)
  BY <1>9, ClaimSteps
<1>10. CASE Pu!SubmitRequisition \/ Pu!RejectRequisition
  BY <1>10, RequisitionSteps
<1>11. CASE Pu!CreateTender \/ Pu!PublishTender
  BY <1>11, TenderSteps
<1>12. CASE Pu!CreatePurchaseOrder \/ \E q \in 1..Ordered : Pu!CreateGoodsReceipt(q) \/ Pu!CreateBill(q)
  BY <1>12, OrderSteps
<1>13. CASE Pu!SubmitClaim \/ Pu!RejectClaim
  BY <1>13, ClaimSteps
<1> QED BY <1>1, <1>2, <1>3, <1>4, <1>5, <1>6, <1>7, <1>8, <1>9, <1>10, <1>11, <1>12, <1>13
           DEF Pu!Next

(* A tender with a single winner. *)
LEMMA OneWinnerHolds == ASSUME PurchaseInv PROVE Pu!OneWinner
<1> DEFINE W == {v \in Vendors : bids[v].status = "awarded"}
<1> SUFFICES ASSUME lapses = 0, \A c \in Clerks : desk[c].op # "award" PROVE Cardinality(W) =< 1
  BY BidCards DEF Pu!OneWinner
<1>1. \A v, w \in W : v = w
  BY DEF PurchaseInv, WinnerInv, Single, Pu!At
<1> HIDE DEF W
<1>2. CASE W = {}
  BY <1>2, FS_EmptySet
<1>3. ASSUME NEW v \in W PROVE Cardinality(W) = 1
  <2>1. W = {v}
    BY <1>1
  <2> QED BY <2>1, FS_Singleton
<1> QED BY <1>2, <1>3

(* What a step does to the requisition. *)
LEMMA RequisitionMoves ==
  ASSUME PurchaseInv, [Pu!Next]_Pu!vars
  PROVE  \/ requisition' = requisition \/ requisition.status \in {"none", "draft", "submitted"}
         \/ requisition.status = "approved" /\ requisition'.status = "converted"
<1>1. CASE UNCHANGED Pu!vars
  BY <1>1 DEF Pu!vars
<1>2. ASSUME NEW c \in Clerks, NEW t, Pu!Begin(c, t) PROVE requisition' = requisition
  BY <1>2 DEF Pu!Begin, Pu!documents, Pu!sourcing
<1>3. ASSUME NEW c \in Clerks, Pu!Requisitions(c)
      PROVE  \/ requisition' = requisition \/ requisition.status = "submitted"
             \/ requisition.status = "approved" /\ requisition'.status = "converted"
  <2>1. CASE Pu!StartApproveRequisition(c) \/ Pu!StartConvert(c)
    BY <1>2, <2>1 DEF Pu!StartApproveRequisition, Pu!StartConvert
  <2>2. CASE Pu!ApproveRequisition(c) \/ Pu!ConvertToDocument(c)
    BY <2>2 DEF Pu!ApproveRequisition, Pu!ConvertToDocument, Pu!SetRequisition, Pu!documents,
       Pu!sourcing
  <2>3. CASE Pu!MarkConverted(c)
    <3>1. requisition \in [status : PaperStatuses, total : Totals \cup {0}] /\ Sourcing
      BY <2>3 DEF Pu!MarkConverted, Pu!At, PurchaseInv, PapersType, DesksOK, DeskOK
    <3>2. requisition' = [requisition EXCEPT !.status = "converted"]
      BY <2>3 DEF Pu!MarkConverted
    <3> QED BY <3>1, <3>2 DEF Sourcing
  <2> QED BY <1>3, <2>1, <2>2, <2>3 DEF Pu!Requisitions
<1>4. ASSUME NEW c \in Clerks, Pu!Tenders(c) PROVE requisition' = requisition
  <2>1. CASE \E v \in Vendors : Pu!StartBid(c, v) \/ Pu!StartAward(c, v)
    BY <1>2, <2>1 DEF Pu!StartBid, Pu!StartAward
  <2> QED BY <1>4, <2>1 DEF Pu!Tenders, Pu!DeleteBid, Pu!InsertBid, Pu!AwardOrder, Pu!Award,
             Pu!RejectOthers, Pu!CloseTender,
             Pu!Mark, Pu!SetBids, Pu!sourcing
<1>5. ASSUME NEW c \in Clerks, Pu!Bills(c) PROVE requisition' = requisition
  <2>1. CASE \E q, off \in 0..Ordered : Pu!StartLodge(c, q, off)
    BY <1>2, <2>1 DEF Pu!StartLodge
  <2>2. CASE \E b \in Pu!BillIds : Pu!StartApproveBill(c, b) \/ Pu!StartPostBill(c, b) \/ Pu!StartDeleteBill(c, b)
    BY <1>2, <2>2 DEF Pu!StartApproveBill, Pu!StartPostBill, Pu!StartDeleteBill
  <2>3. CASE \E b \in Pu!BillIds, q, off \in 0..Ordered : Pu!StartEditBill(c, b, q, off)
    BY <1>2, <2>3 DEF Pu!StartEditBill
  <2>6. CASE \E b \in Pu!BillIds, q \in 1..Ordered : Pu!StartPayBill(c, b, q)
    BY <1>2, <2>6 DEF Pu!StartPayBill
  <2>7. CASE \E b \in Pu!BillIds : Pu!StartApproveUnmatched(c, b)
    BY <2>7 DEF Pu!StartApproveUnmatched, Pu!documents, Pu!sourcing
  <2>4. CASE Pu!LodgeBill(c) \/ Pu!MarkInvoiced(c)
    BY <2>4 DEF Pu!LodgeBill, Pu!MarkInvoiced, Pu!SetBill, Pu!SetBills, Pu!sourcing
  <2>5. CASE Pu!LinkBill(c) \/ Pu!ApproveBill(c) \/ Pu!EditBill(c) \/ Pu!DeleteBill(c) \/ Pu!PostBill(c) \/ Pu!PayBill(c)
    BY <2>5, BillRewritten DEF OneBill
  <2> QED BY <1>5, <2>1, <2>2, <2>3, <2>4, <2>5, <2>6, <2>7 DEF Pu!Bills
<1>6. ASSUME NEW c \in Clerks, Pu!Claims(c) \/ Pu!Notes(c) \/ Pu!Lapse(c)
      PROVE  requisition' = requisition
  <2>1. CASE Pu!StartApproveClaim(c)
    BY <1>2, <2>1 DEF Pu!StartApproveClaim
  <2>2. CASE Pu!PostClaim(c) \/ Pu!MarkClaim(c)
    BY <2>2 DEF Pu!PostClaim, Pu!MarkClaim, Pu!SetClaim, Pu!sourcing
  <2>3. CASE Pu!Notes(c)
    BY <2>3 DEF Pu!Notes, Pu!StoreDebitNote, Pu!PostDebitNote, Pu!CreateSupplierCreditNote,
       Pu!SetNotes, Pu!sourcing
  <2>4. CASE Pu!Lapse(c)
    BY <2>4 DEF Pu!Lapse, Pu!documents, Pu!sourcing
  <2> QED BY <1>6, <2>1, <2>2, <2>3, <2>4 DEF Pu!Claims
<1>7. CASE (\E n \in Totals : Pu!CreateRequisition(n)) \/ Pu!SubmitRequisition \/ Pu!RejectRequisition
  BY <1>7 DEF Pu!CreateRequisition, Pu!SubmitRequisition, Pu!RejectRequisition, Pu!SetRequisition
<1>8. CASE Pu!CreateTender \/ Pu!PublishTender \/ Pu!CreatePurchaseOrder
  BY <1>8 DEF Pu!CreateTender, Pu!PublishTender, Pu!CreatePurchaseOrder, Pu!sourcing
<1>9. CASE \E q \in 1..Ordered : Pu!CreateGoodsReceipt(q) \/ Pu!CreateBill(q)
  BY <1>9 DEF Pu!CreateGoodsReceipt, Pu!CreateBill, Pu!SetBill, Pu!SetBills, Pu!sourcing
<1>10. CASE Pu!SubmitClaim \/ Pu!RejectClaim \/ \E n \in Totals : Pu!CreateClaim(n)
  BY <1>10 DEF Pu!SubmitClaim, Pu!RejectClaim, Pu!CreateClaim, Pu!SetClaim, Pu!sourcing
<1> QED BY <1>1, <1>3, <1>4, <1>5, <1>6, <1>7, <1>8, <1>9, <1>10 DEF Pu!Next

(* A decision is final. *)
LEMMA StepDecides ==
  ASSUME PurchaseInv, [Pu!Next]_Pu!vars
  PROVE  /\ requisition.status \in {"rejected", "converted"} => requisition' = requisition
         /\ requisition.status = "approved" => requisition'.status \in {"approved", "converted"}
  BY RequisitionMoves

(* However requests overlap and wherever they stop, what is marked as      *)
(* booked is in the ledger and two awards leave one winner.                *)
THEOREM PapersHold == UnitsOK => (Pu!Spec => [](Pu!BookedBeforeMarked /\ Pu!OneWinner))
<1> SUFFICES ASSUME UnitsOK PROVE Pu!Spec => [](Pu!BookedBeforeMarked /\ Pu!OneWinner)
  OBVIOUS
<1>1. Pu!Init => PurchaseInv
  BY PurchaseStart
<1>2. PurchaseInv /\ [Pu!Next]_Pu!vars => PurchaseInv'
  BY PurchaseStep
<1>3. PurchaseInv => Pu!BookedBeforeMarked /\ Pu!OneWinner
  BY OneWinnerHolds DEF PurchaseInv
<1> QED BY <1>1, <1>2, <1>3, PTL DEF Pu!Spec

(* A rejected or converted requisition stays as it is, an approved one is  *)
(* converted at most (the guarded updates of procurement.rs).              *)
THEOREM RequisitionsDecided == UnitsOK => (Pu!Spec => Pu!RequisitionDecided)
<1> SUFFICES ASSUME UnitsOK PROVE Pu!Spec => Pu!RequisitionDecided
  OBVIOUS
<1>1. Pu!Init => PurchaseInv
  BY PurchaseStart
<1>2. PurchaseInv /\ [Pu!Next]_Pu!vars => PurchaseInv'
  BY PurchaseStep
<1>3. PurchaseInv /\ [Pu!Next]_Pu!vars =>
        [/\ requisition.status \in {"rejected", "converted"} => requisition' = requisition
         /\ requisition.status = "approved" => requisition'.status \in {"approved", "converted"}]_Pu!vars
  BY StepDecides
<1> QED BY <1>1, <1>2, <1>3, PTL DEF Pu!Spec, Pu!RequisitionDecided

-----------------------------------------------------------------------------
(* Requests one at a time: bills and what was received *)

(* There is one clerk at most. *)
OneClerk == \A c, d \in Clerks : c = d

Early == {"none", "draft", "pending_approval"}

BillOK(r) ==
    /\ r.paid + r.balance = r.qty + r.off /\ r.balance >= 0 /\ r.entries < 2
    /\ r.status \in Early \cup {"approved"} => r.entries = 0
    /\ r.status \in Early => r.paid = 0

(* A bill of the order that was approved by what was read of it. *)
Counts(r) == r.po /\ r.status \notin Early /\ ~r.blind

Approvals == {b \in Pu!BillIds : Counts(bills[b])}
Linked == {b \in Pu!BillIds : bills[b].status # "none" /\ bills[b].po}
Quantities == [b \in Pu!BillIds |-> bills[b].qty]

Covered == Sum(Quantities, Approvals) =< received
Room(b) == bills[b].po => Sum(Quantities, Linked) =< received

(* What the request under way has read and nobody else changed. *)
ReadOK(t) ==
    /\ t.op = "lodge" /\ t.pc = "link" => bills[t.bill].status = "draft"
    /\ t.op = "approve_bill" => bills[t.bill].status \in {"draft", "pending_approval"}
    /\ t.op = "approve_bill" /\ t.pc = "read" => Room(t.bill)
    /\ t.op \in {"edit_bill", "delete_bill"} => bills[t.bill].status = "draft"
    /\ t.op = "post_bill" => bills[t.bill].status = "approved"
    /\ t.op = "pay_bill" => bills[t.bill].status \notin Early /\ t.amount =< bills[t.bill].balance

ShelfInv == (\A b \in Pu!BillIds : BillOK(bills[b])) /\ Covered
ReadsOK == \A c \in Clerks : ReadOK(desk[c])
ClerkInv == PurchaseInv /\ ShelfInv /\ ReadsOK

(* The sums of the properties are these sums. *)
LEMMA QuantitySum ==
  ASSUME NEW S \in SUBSET Pu!BillIds
  PROVE  Pu!MapThenSumSet(LAMBDA b : bills[b].qty, S) = Sum(Quantities, S)
<1> DEFINE m == [b \in S |-> bills[b].qty]
           P(g) == g = [s \in SUBSET S |-> IF s = {} THEN 0 ELSE bills[Pick(s)].qty + g[s \ {Pick(s)}]]
<1>1. Pu!MapThenSumSet(LAMBDA b : bills[b].qty, S) = (CHOOSE g : P(g))[S]
  BY DEF Pu!MapThenSumSet, Pu!MapThenFoldSet, Pick
<1>2. ASSUME NEW g PROVE P(g) <=> IsIter(Quantities, S, g)
  <2>1. \A s \in SUBSET S : s # {} => bills[Pick(s)].qty = Quantities[Pick(s)]
    BY PickIn DEF Quantities
  <2>2. [s \in SUBSET S |-> IF s = {} THEN 0 ELSE bills[Pick(s)].qty + g[s \ {Pick(s)}]]
          = [s \in SUBSET S |-> Unfold(Quantities, g, s)]
    BY <2>1 DEF Unfold
  <2> QED BY <2>2 DEF IsIter
<1>3. Sum(Quantities, S) = (CHOOSE g : IsIter(Quantities, S, g))[S]
  BY DEF Sum, SumFunctionOnSet, FoldFunctionOnSet, MapThenFoldSet, IsIter, Unfold, Pick
<1> HIDE DEF P
<1>4. (CHOOSE g : P(g)) = (CHOOSE g : IsIter(Quantities, S, g))
  BY <1>2
<1> QED BY <1>1, <1>3, <1>4

(* There are finitely many bills. *)
LEMMA RowsFinite == ASSUME UnitsOK PROVE IsFiniteSet(Pu!BillIds) /\ Pu!BillIds \subseteq Nat
<1>1. IsFiniteSet(1..MaxBills)
  BY FS_Interval DEF UnitsOK
<1> QED BY <1>1 DEF Pu!BillIds, UnitsOK

(* The quantities of bills are natural numbers. *)
LEMMA QuantityType ==
  ASSUME PurchaseInv
  PROVE  bills \in [Pu!BillIds -> BillRows] /\ \A b \in Pu!BillIds : Quantities[b] = bills[b].qty /\ Quantities[b] \in Nat
  BY DEF PurchaseInv, PapersType, BillRows, Quantities

(* A bill that matches leaves the approved quantities within the         *)
(* receipts.                                                             *)
LEMMA MatchIsRoom == ASSUME NEW b, Pu!Matches(b) PROVE Room(b)
<1>1. Linked \in SUBSET Pu!BillIds
  BY DEF Linked
<1>2. Pu!Billed = Sum(Quantities, Linked)
  BY <1>1, QuantitySum DEF Pu!Billed, Linked
<1> QED BY <1>2 DEF Pu!Matches, Room

(* Covered, as a sum over bills, is what the model states. *)
LEMMA CoveredIsReceipts == Covered <=> Pu!ReceiptsCoverApprovals
<1>1. Approvals \in SUBSET Pu!BillIds
  BY DEF Approvals
<1>2. Pu!MapThenSumSet(LAMBDA b : bills[b].qty, Approvals) = Sum(Quantities, Approvals)
  BY <1>1, QuantitySum
<1>3. Approvals = {b \in Pu!Approved : ~bills[b].blind}
  BY DEF Approvals, Counts, Pu!Approved, Early
<1> QED BY <1>2, <1>3 DEF Covered, Pu!ReceiptsCoverApprovals

(* No more is approved than was: what is approved now was approved before, *)
(* with the same quantity.                                                 *)
LEMMA StillCovered ==
  ASSUME UnitsOK, PurchaseInv, PurchaseInv', Covered, received' >= received,
         \A b \in Pu!BillIds : Counts(bills'[b]) => Counts(bills[b]) /\ bills'[b].qty = bills[b].qty
  PROVE  Covered'
<1>1. Approvals' \in SUBSET Approvals /\ Approvals \in SUBSET Pu!BillIds /\ IsFiniteSet(Approvals)
  BY RowsFinite, FS_Subset DEF Approvals
<1>2. \A b \in Approvals' : Quantities'[b] = Quantities[b]
  BY DEF Approvals, Quantities
<1>3. \A b \in Approvals : Quantities[b] \in Nat
  BY <1>1, QuantityType
<1>4. Sum(Quantities, Approvals) \in Nat
  BY <1>1, <1>3, SumNatural
<1>5. Sum(Quantities', Approvals') =< Sum(Quantities, Approvals) /\ Sum(Quantities', Approvals') \in Nat
  BY <1>1, <1>2, <1>3, SumWithin
<1>6. received \in Nat /\ received' \in Nat
  BY DEF PurchaseInv, PapersType
<1> QED BY <1>4, <1>5, <1>6 DEF Covered

(* A bill is approved that the receipts have room for. *)
LEMMA ApprovalCovered ==
  ASSUME UnitsOK, PurchaseInv, PurchaseInv', Covered, received' = received, NEW b \in Pu!BillIds, Room(b),
         bills[b].status # "none", bills'[b].po = bills[b].po, bills'[b].qty = bills[b].qty,
         \A a \in Pu!BillIds \ {b} : bills'[a] = bills[a]
  PROVE  Covered'
<1>1. CASE bills[b].po
  <2>1. Approvals' \in SUBSET Linked /\ Linked \in SUBSET Pu!BillIds /\ IsFiniteSet(Linked)
    BY <1>1, RowsFinite, FS_Subset DEF Approvals, Counts, Linked, Early
  <2>2. \A a \in Approvals' : Quantities'[a] = Quantities[a]
    BY DEF Approvals, Quantities
  <2>3. \A a \in Linked : Quantities[a] \in Nat
    BY <2>1, QuantityType
  <2>4. Sum(Quantities, Linked) \in Nat
    BY <2>1, <2>3, SumNatural
  <2>5. Sum(Quantities', Approvals') =< Sum(Quantities, Linked) /\ Sum(Quantities', Approvals') \in Nat
    BY <2>1, <2>2, <2>3, SumWithin
  <2>6. received \in Nat /\ received' = received
    BY DEF PurchaseInv, PapersType
  <2> QED BY <1>1, <2>4, <2>5, <2>6 DEF Covered, Room
<1>2. CASE ~bills[b].po
  <2>1. received' >= received
    BY DEF PurchaseInv, PapersType
  <2>2. \A a \in Pu!BillIds : Counts(bills'[a]) => Counts(bills[a]) /\ bills'[a].qty = bills[a].qty
    BY <1>2 DEF Counts
  <2> QED BY <2>1, <2>2, StillCovered
<1> QED BY <1>1, <1>2

(* A step that is not about the bills. *)
Aloof == bills' = bills /\ received' \in Nat /\ received' >= received

(* A step aside from bills keeps receipts ahead of approvals. *)
LEMMA AloofShelf == ASSUME UnitsOK, ClerkInv, PurchaseInv', Aloof PROVE ShelfInv'
<1>1. Covered'
  BY StillCovered DEF Aloof, ClerkInv, ShelfInv
<1> QED BY <1>1 DEF Aloof, ClerkInv, ShelfInv, BillOK

(* It leaves what a clerk read true, *)
LEMMA AloofRead == ASSUME UnitsOK, ClerkInv, Aloof, NEW t, ReadOK(t) PROVE ReadOK(t)'
<1>1. Sum(Quantities, Linked) = Sum(Quantities', Linked') /\ Linked \in SUBSET Pu!BillIds
  BY DEF Linked, Quantities, Aloof
<1>2. received \in Nat
  BY DEF ClerkInv, PurchaseInv, PapersType
<1>3. Room(t.bill) /\ t.op = "approve_bill" => Room(t.bill)'
  <2>1. SUFFICES ASSUME bills'[t.bill].po, Sum(Quantities, Linked) =< received, t.op = "approve_bill"
                 PROVE  Sum(Quantities', Linked') =< received'
    BY DEF Room, Aloof
  <2>2. IsFiniteSet(Linked) /\ \A b \in Linked : Quantities[b] \in Nat
    BY <1>1, RowsFinite, FS_Subset, QuantityType DEF ClerkInv
  <2>3. Sum(Quantities, Linked) \in Nat
    BY <2>2, SumNatural
  <2> QED BY <1>1, <1>2, <2>1, <2>3 DEF Aloof
<1> QED BY <1>3 DEF ReadOK, Aloof

(* The only request is the one that moved. *)
LEMMA OnlyRead == ASSUME OneClerk, NEW c \in Clerks, ReadOK(desk[c])' PROVE ReadsOK'
  BY DEF OneClerk, ReadsOK, ReadOK

(* and keeps the whole invariant. *)
LEMMA AloofStep ==
  ASSUME UnitsOK, OneClerk, ClerkInv, PurchaseInv', Aloof,
         desk' = desk \/ \E c \in Clerks : ReadOK(desk[c])'
  PROVE  ClerkInv'
<1>1. ReadsOK'
  <2>1. CASE desk' = desk
    <3>1. \A c \in Clerks : ReadOK(desk[c])
      BY DEF ClerkInv, ReadsOK
    <3>2. ASSUME NEW c \in Clerks PROVE ReadOK(desk[c])'
      <4>1. PICK t : t = desk[c]
        OBVIOUS
      <4>2. ReadOK(t)'
        BY <3>1, <4>1, AloofRead
      <4> QED BY <2>1, <4>1, <4>2 DEF ReadOK
    <3> QED BY <3>2 DEF ReadsOK
  <2> QED BY <2>1, OnlyRead
<1> QED BY <1>1, AloofShelf DEF ClerkInv

(* A request that goes by what it has read of a bill. *)
Reads(t) ==
    \/ t.op \in {"approve_bill", "edit_bill", "delete_bill", "post_bill", "pay_bill"}
    \/ t.op = "lodge" /\ t.pc = "link"

(* A step of a request that leaves it with nothing it has read. *)
Unread(c) ==
    /\ desk'[c].op \notin {"approve_bill", "edit_bill", "delete_bill", "post_bill", "pay_bill"}
    /\ ~(desk'[c].op = "lodge" /\ desk'[c].pc = "link")

(* A clerk who has read no bill knows nothing about one. *)
LEMMA UnreadOK == ASSUME NEW c, Unread(c) PROVE ReadOK(desk[c])'
  BY DEF Unread, ReadOK

(* A clerk is where the step puts it. *)
LEMMA AtDesk ==
  ASSUME PurchaseInv, NEW c \in Clerks, NEW t, desk' = [desk EXCEPT ![c] = t]
  PROVE  desk'[c] = t
  BY DEF PurchaseInv, DesksOK

(* A step onward keeps the request and its bill. *)
LEMMA AtStep == ASSUME PurchaseInv, NEW c \in Clerks, NEW pc, Pu!Go(c, pc)
                PROVE  desk'[c].op = desk[c].op /\ desk'[c].pc = pc /\ desk'[c].bill = desk[c].bill
<1>1. desk \in [Clerks -> DeskRows] /\ desk[c] \in DeskRows
  BY DEF PurchaseInv, DesksOK
<1> QED BY <1>1 DEF Pu!Go, DeskRows

(* The steps of a request that is not about a bill. *)
LEMMA OtherRequests ==
  ASSUME UnitsOK, OneClerk, ClerkInv, PurchaseInv', NEW c \in Clerks,
         \/ Pu!Requisitions(c) \/ Pu!Tenders(c) \/ Pu!Claims(c) \/ Pu!Notes(c) \/ Pu!Lapse(c) \/ Pu!MarkInvoiced(c)
         \/ \E q, off \in 0..Ordered : Pu!StartLodge(c, q, off)
  PROVE  ClerkInv'
<1>0. PurchaseInv /\ received \in Nat
  BY DEF ClerkInv, PurchaseInv, PapersType
<1>1. ASSUME NEW t, Pu!Begin(c, t) PROVE Aloof /\ desk'[c] = t
  <2>1. desk' = [desk EXCEPT ![c] = t] /\ bills' = bills /\ received' = received
    BY <1>1 DEF Pu!Begin, Pu!documents, Pu!billing
  <2>2. desk'[c] = t
    BY <1>0, <2>1, AtDesk
  <2> QED BY <1>0, <2>1, <2>2 DEF Aloof
<1>2. CASE Pu!Finish(c) /\ UNCHANGED <<bills, received>>
  <2>1. desk'[c] = Pu!Idle
    BY <1>0, <1>2, AtDesk DEF Pu!Finish
  <2>2. Unread(c) /\ Aloof
    BY <1>0, <1>2, <2>1 DEF Pu!Idle, Unread, Aloof
  <2> QED BY <2>2, AloofStep, UnreadOK
<1>3. ASSUME NEW pc \in Pcs, Pu!Go(c, pc), desk[c].op \in {"convert", "bid", "award", "approve_claim"},
             UNCHANGED <<bills, received>>
      PROVE  ClerkInv'
  BY <1>0, <1>3, AtStep, AloofStep, UnreadOK DEF Aloof, Unread
<1>4. CASE Pu!Requisitions(c)
  <2>1. CASE Pu!StartApproveRequisition(c)
    BY <1>1, <2>1, AloofStep, UnreadOK DEF Pu!StartApproveRequisition, Pu!Request, Pu!Idle, Unread
  <2>2. CASE Pu!StartConvert(c)
    BY <1>1, <2>2, AloofStep, UnreadOK DEF Pu!StartConvert, Pu!Request, Pu!Idle, Unread
  <2>3. CASE Pu!ApproveRequisition(c) \/ Pu!MarkConverted(c)
    BY <1>2, <2>3 DEF Pu!ApproveRequisition, Pu!MarkConverted, Pu!SetRequisition, Pu!documents,
       Pu!billing
  <2>4. CASE Pu!ConvertToDocument(c)
    BY <1>3, <2>4 DEF Pu!ConvertToDocument, Pu!At, Pu!billing, Pcs
  <2> QED BY <1>4, <2>1, <2>2, <2>3, <2>4 DEF Pu!Requisitions
<1>5. CASE Pu!Tenders(c)
  <2>1. ASSUME NEW v \in Vendors, Pu!StartBid(c, v) PROVE ClerkInv'
    <3>1. PICK t : t = [Pu!Request("bid") EXCEPT !.vendor = v]
      OBVIOUS
    <3>2. t.op = "bid" /\ Pu!Begin(c, t)
      BY <2>1, <3>1 DEF Pu!StartBid, Pu!Request, Pu!Idle
    <3>3. Aloof /\ Unread(c)
      BY <1>1, <3>2 DEF Unread
    <3> QED BY <3>3, AloofStep, UnreadOK
  <2>2. ASSUME NEW v \in Vendors, Pu!StartAward(c, v) PROVE ClerkInv'
    <3>1. PICK t : t = [Pu!Request("award") EXCEPT !.vendor = v, !.bid = bids[v].id]
      OBVIOUS
    <3>2. t.op = "award" /\ Pu!Begin(c, t)
      BY <2>2, <3>1 DEF Pu!StartAward, Pu!Request, Pu!Idle
    <3>3. Aloof /\ Unread(c)
      BY <1>1, <3>2 DEF Unread
    <3> QED BY <3>3, AloofStep, UnreadOK
  <2>3. CASE Pu!InsertBid(c) \/ Pu!CloseTender(c)
    BY <1>2, <2>3 DEF Pu!InsertBid, Pu!CloseTender, Pu!SetBids, Pu!billing
  <2>4. CASE Pu!DeleteBid(c)
    BY <1>3, <2>4 DEF Pu!DeleteBid, Pu!SetBids, Pu!At, Pu!billing, Pcs
  <2>5. CASE Pu!AwardOrder(c)
    BY <1>3, <2>5 DEF Pu!AwardOrder, Pu!At, Pu!billing, Pcs
  <2>6. CASE Pu!Award(c) \/ Pu!RejectOthers(c)
    BY <1>3, <2>6 DEF Pu!Award, Pu!RejectOthers, Pu!Mark, Pu!SetBids, Pu!At, Pu!billing, Pcs
  <2> QED BY <1>5, <2>1, <2>2, <2>3, <2>4, <2>5, <2>6 DEF Pu!Tenders
<1>6. CASE Pu!Claims(c)
  <2>1. CASE Pu!StartApproveClaim(c)
    BY <1>1, <2>1, AloofStep, UnreadOK DEF Pu!StartApproveClaim, Pu!Request, Pu!Idle, Unread
  <2>2. CASE Pu!PostClaim(c)
    BY <1>3, <2>2 DEF Pu!PostClaim, Pu!SetClaim, Pu!At, Pu!billing, Pcs
  <2>3. CASE Pu!MarkClaim(c)
    BY <1>2, <2>3 DEF Pu!MarkClaim, Pu!SetClaim, Pu!billing
  <2> QED BY <1>6, <2>1, <2>2, <2>3 DEF Pu!Claims
<1>7. CASE Pu!Notes(c)
  <2>1. bills' = bills /\ received' = received
    BY <1>7 DEF Pu!Notes, Pu!StoreDebitNote, Pu!PostDebitNote, Pu!CreateSupplierCreditNote,
       Pu!SetNotes, Pu!billing
  <2>2. CASE Pu!StoreDebitNote(c)
    BY <1>0, <2>1, <2>2, AtDesk, AloofStep, UnreadOK DEF Pu!StoreDebitNote, Pu!Request, Pu!Idle,
       Unread, Aloof
  <2>3. CASE Pu!PostDebitNote(c)
    BY <1>2, <2>1, <2>3 DEF Pu!PostDebitNote
  <2>4. CASE Pu!CreateSupplierCreditNote(c)
    BY <1>0, <2>1, <2>4, AloofStep DEF Pu!CreateSupplierCreditNote, Aloof
  <2> QED BY <1>7, <2>2, <2>3, <2>4 DEF Pu!Notes
<1>8. CASE Pu!Lapse(c) \/ Pu!MarkInvoiced(c)
  BY <1>2, <1>8 DEF Pu!Lapse, Pu!MarkInvoiced, Pu!documents, Pu!billing
<1>9. ASSUME NEW q \in 0..Ordered, NEW off \in 0..Ordered, Pu!StartLodge(c, q, off) PROVE ClerkInv'
  <2>1. PICK t : t = [Pu!Request("lodge") EXCEPT !.amount = q, !.off = off]
    OBVIOUS
  <2>2. t.op = "lodge" /\ t.pc = "read" /\ Pu!Begin(c, t)
    BY <1>9, <2>1 DEF Pu!StartLodge, Pu!Request, Pu!Idle
  <2>3. Aloof /\ Unread(c)
    BY <1>1, <2>2 DEF Unread
  <2> QED BY <2>3, AloofStep, UnreadOK
<1> QED BY <1>4, <1>5, <1>6, <1>7, <1>8, <1>9

(* A request that reads a bill. *)
LEMMA ReadingRequests ==
  ASSUME UnitsOK, OneClerk, ClerkInv, PurchaseInv', NEW c \in Clerks, NEW b \in Pu!BillIds,
         \/ Pu!StartApproveBill(c, b) \/ Pu!StartPostBill(c, b) \/ Pu!StartDeleteBill(c, b)
         \/ Pu!StartApproveUnmatched(c, b)
         \/ \E q \in 1..Ordered : Pu!StartPayBill(c, b, q)
         \/ \E q, off \in 0..Ordered : Pu!StartEditBill(c, b, q, off)
  PROVE  ClerkInv'
<1>0. PurchaseInv /\ received \in Nat
  BY DEF ClerkInv, PurchaseInv, PapersType
<1>1. ASSUME NEW t, Pu!Begin(c, t), ReadOK(t) PROVE ClerkInv'
  <2>0. desk' = [desk EXCEPT ![c] = t] /\ bills' = bills /\ received' = received
    BY <1>1 DEF Pu!Begin, Pu!documents, Pu!billing
  <2>1. Aloof /\ desk'[c] = t
    <3>1. desk'[c] = t
      BY <1>0, <2>0, AtDesk
    <3> QED BY <1>0, <2>0, <3>1 DEF Aloof
  <2>2. ReadOK(t)'
    BY <1>1, <2>1, AloofRead
  <2>3. ReadOK(desk[c])'
    BY <2>1, <2>2 DEF ReadOK
  <2> QED BY <2>1, <2>3, AloofStep
<1>2. CASE Pu!StartApproveBill(c, b)
  <2>1. PICK t : t = Pu!OnBill("approve_bill", b)
    OBVIOUS
  <2>2. t.op = "approve_bill" /\ t.bill = b /\ Room(b)
    BY <1>2, <2>1, MatchIsRoom DEF Pu!OnBill, Pu!Idle, Pu!StartApproveBill
  <2>3. ReadOK(t)
    BY <1>2, <2>2 DEF ReadOK, Pu!StartApproveBill
  <2> QED BY <1>1, <1>2, <2>1, <2>3 DEF Pu!StartApproveBill
<1>7. CASE Pu!StartApproveUnmatched(c, b)
  <2>1. PICK t : t = [Pu!OnBill("approve_bill", b) EXCEPT !.pc = "blind"]
    OBVIOUS
  <2>2. t.op = "approve_bill" /\ t.pc = "blind" /\ t.bill = b
    BY <2>1 DEF Pu!OnBill, Pu!Idle
  <2>3. desk' = [desk EXCEPT ![c] = t] /\ bills' = bills /\ received' = received
    BY <1>7, <2>1 DEF Pu!StartApproveUnmatched, Pu!documents, Pu!billing
  <2>4. desk'[c] = t
    BY <1>0, <2>3, AtDesk
  <2>5. bills'[t.bill].status \in {"draft", "pending_approval"}
    BY <1>7, <2>2, <2>3 DEF Pu!StartApproveUnmatched
  <2>6. ReadOK(desk[c])'
    BY <2>2, <2>4, <2>5 DEF ReadOK
  <2>7. Aloof
    BY <1>0, <2>3 DEF Aloof
  <2> QED BY <2>6, <2>7, AloofStep
<1>3. CASE Pu!StartPostBill(c, b)
  <2>1. PICK t : t = Pu!OnBill("post_bill", b)
    OBVIOUS
  <2>2. t.op = "post_bill" /\ t.bill = b
    BY <2>1 DEF Pu!OnBill, Pu!Idle
  <2>3. ReadOK(t)
    BY <1>3, <2>2 DEF ReadOK, Pu!StartPostBill
  <2> QED BY <1>1, <1>3, <2>1, <2>3 DEF Pu!StartPostBill
<1>4. CASE Pu!StartDeleteBill(c, b)
  <2>1. PICK t : t = Pu!OnBill("delete_bill", b)
    OBVIOUS
  <2>2. t.op = "delete_bill" /\ t.bill = b
    BY <2>1 DEF Pu!OnBill, Pu!Idle
  <2>3. ReadOK(t)
    BY <1>4, <2>2 DEF ReadOK, Pu!StartDeleteBill
  <2> QED BY <1>1, <1>4, <2>1, <2>3 DEF Pu!StartDeleteBill
<1>5. ASSUME NEW q \in 0..Ordered, NEW off \in 0..Ordered, Pu!StartEditBill(c, b, q, off) PROVE ClerkInv'
  <2>1. PICK t : t = [Pu!OnBill("edit_bill", b) EXCEPT !.amount = q, !.off = off]
    OBVIOUS
  <2>2. t.op = "edit_bill" /\ t.bill = b
    BY <2>1 DEF Pu!OnBill, Pu!Idle
  <2>3. ReadOK(t)
    BY <1>5, <2>2 DEF ReadOK, Pu!StartEditBill
  <2> QED BY <1>1, <1>5, <2>1, <2>3 DEF Pu!StartEditBill
<1>6. ASSUME NEW q \in 1..Ordered, Pu!StartPayBill(c, b, q) PROVE ClerkInv'
  <2>1. PICK a : a = Pu!Min({q, bills[b].balance})
    OBVIOUS
  <2>2. q \in Int /\ bills[b].balance \in Int
    BY <1>0, QuantityType DEF UnitsOK, BillRows
  <2>3. a =< bills[b].balance
    BY <2>1, <2>2, SmallerOf
  <2>4. PICK t : t = [Pu!OnBill("pay_bill", b) EXCEPT !.amount = a]
    OBVIOUS
  <2>5. t.op = "pay_bill" /\ t.bill = b /\ t.amount = a
    BY <2>4 DEF Pu!OnBill, Pu!Idle
  <2>6. ReadOK(t)
    BY <1>6, <2>3, <2>5 DEF ReadOK, Pu!StartPayBill, Early
  <2> QED BY <1>1, <1>6, <2>1, <2>4, <2>6 DEF Pu!StartPayBill
<1> QED BY <1>2, <1>3, <1>4, <1>5, <1>6, <1>7

(* A bill is rewritten, without being approved by that. *)
LEMMA ShelfKept ==
  ASSUME UnitsOK, ClerkInv, PurchaseInv', received' = received, NEW b \in Pu!BillIds, NEW r \in BillRows,
         bills' = [bills EXCEPT ![b] = r], BillOK(r),
         Counts(r) => Counts(bills[b]) /\ r.qty = bills[b].qty
  PROVE  ShelfInv'
<1>1. bills \in [Pu!BillIds -> BillRows] /\ PurchaseInv /\ received \in Nat
  BY DEF ClerkInv, PurchaseInv, PapersType
<1>2. bills'[b] = r /\ \A a \in Pu!BillIds \ {b} : bills'[a] = bills[a]
  BY <1>1
<1>3. \A a \in Pu!BillIds : BillOK(bills'[a])
  BY <1>2 DEF ClerkInv, ShelfInv
<1>4. \A a \in Pu!BillIds : Counts(bills'[a]) => Counts(bills[a]) /\ bills'[a].qty = bills[a].qty
  BY <1>2
<1>5. Covered'
  BY <1>1, <1>4, StillCovered DEF ClerkInv, ShelfInv
<1> QED BY <1>3, <1>5 DEF ShelfInv, BillOK

(* A new bill owes what it bills and is linked to no order. *)
LEMMA FreshRow ==
  ASSUME NEW n \in Nat, NEW o \in Nat, NEW s \in {"none", "draft"}
  PROVE  /\ Pu!Bill(s, FALSE, n, o) \in BillRows /\ BillOK(Pu!Bill(s, FALSE, n, o))
         /\ Pu!Bill(s, FALSE, n, o).status = s /\ ~Pu!Bill(s, FALSE, n, o).po
<1>1. s \in BillStatuses
  BY DEF BillStatuses
<1>2. PICK b \in Nat : b = n + o
  OBVIOUS
<1>20. PICK r : r = Pu!Bill(s, FALSE, n, o)
  OBVIOUS
<1>21. r = [status |-> s, po |-> FALSE, qty |-> n, off |-> o, paid |-> 0, balance |-> b, entries |-> 0,
            blind |-> FALSE]
  BY <1>2, <1>20 DEF Pu!Bill
<1>3. /\ r \in BillRows /\ r.status = s /\ ~r.po /\ r.qty = n /\ r.off = o /\ r.paid = 0
      /\ r.balance = b /\ r.entries = 0
  BY <1>1, <1>21 DEF BillRows
<1>4. BillOK(r)
  BY <1>2, <1>3 DEF BillOK
<1> QED BY <1>20, <1>3, <1>4

(* A bill is created while a request is under way. *)
LEMMA CreateStep ==
  ASSUME UnitsOK, OneClerk, ClerkInv, PurchaseInv', NEW q \in 1..Ordered, Pu!CreateBill(q)
  PROVE  ClerkInv'
<1>0. /\ bills \in [Pu!BillIds -> BillRows] /\ PurchaseInv /\ q \in Nat /\ desk' = desk /\ received' = received
  BY DEF ClerkInv, PurchaseInv, PapersType, UnitsOK, Pu!CreateBill, Pu!SetBill, Pu!SetBills
<1>1. PICK b \in Pu!BillIds, r \in {Pu!Bill("draft", FALSE, q, 0)} :
                              /\ b = Pu!Min(Pu!Unused) /\ r = Pu!Bill("draft", FALSE, q, 0) /\ bills[b] = Pu!NoBill
                              /\ bills' = [bills EXCEPT ![b] = r]
  BY UnusedRow DEF Pu!CreateBill, Pu!SetBill, Pu!SetBills
<1>2. r \in BillRows /\ BillOK(r) /\ r.status = "draft" /\ ~r.po
  BY <1>0, <1>1, FreshRow
<1>3. bills[b].status = "none" /\ bills[b].po = FALSE
  BY <1>1 DEF Pu!NoBill, Pu!Bill
<1>4. ShelfInv'
  BY <1>0, <1>1, <1>2, ShelfKept DEF Counts
<1>5. bills'[b] = r /\ \A a \in Pu!BillIds \ {b} : bills'[a] = bills[a]
  BY <1>0, <1>1
<1>6. Sum(Quantities', Linked') = Sum(Quantities, Linked)
  <2>1. Linked' = Linked /\ Linked \in SUBSET Pu!BillIds
    BY <1>2, <1>3, <1>5 DEF Linked
  <2>2. \A a \in Linked : Quantities[a] = Quantities'[a]
    BY <1>3, <1>5 DEF Linked, Quantities
  <2>3. Summable(Quantities, Linked)
    BY <1>0, <2>1, RowsFinite, FS_Subset, QuantityType DEF Summable
  <2> QED BY <2>1, <2>2, <2>3, SumEqual
<1>7. ASSUME NEW c \in Clerks PROVE ReadOK(desk[c])'
  <2>1. ReadOK(desk[c]) /\ DeskOK(desk[c]) /\ desk'[c] = desk[c]
    BY <1>0 DEF ClerkInv, ReadsOK, PurchaseInv, DesksOK
  <2>2. CASE Reads(desk[c])
    <3>1. desk[c].bill \in Pu!BillIds
      BY <2>1, <2>2 DEF DeskOK, Reads
    <3>2. bills[desk[c].bill].status # "none"
      BY <2>1, <2>2 DEF ReadOK, Early, Reads
    <3>3. bills'[desk[c].bill] = bills[desk[c].bill]
      BY <1>3, <1>5, <3>1, <3>2
    <3>4. Room(desk[c].bill) => Room(desk[c].bill)'
      BY <1>0, <1>6, <2>1, <3>3 DEF Room
    <3> QED BY <2>1, <3>3, <3>4 DEF ReadOK
  <2>3. CASE ~Reads(desk[c])
    <3>1. PICK t : t = desk[c] /\ t = desk'[c]
      BY <2>1
    <3>2. t.op \notin {"approve_bill", "edit_bill", "delete_bill", "post_bill", "pay_bill"}
      BY <2>3, <3>1 DEF Reads
    <3>3. ~(t.op = "lodge" /\ t.pc = "link")
      BY <2>3, <3>1 DEF Reads
    <3>4. Unread(c)
      BY <3>1, <3>2, <3>3 DEF Unread
    <3> QED BY <3>4, UnreadOK
  <2> QED BY <2>2, <2>3
<1> QED BY <1>0, <1>4, <1>7 DEF ClerkInv, ReadsOK

(* The commits of a request that is about a bill. *)
LEMMA LodgeStep ==
  ASSUME UnitsOK, OneClerk, ClerkInv, PurchaseInv', NEW c \in Clerks, Pu!LodgeBill(c)
  PROVE  ClerkInv'
<1>0. /\ bills \in [Pu!BillIds -> BillRows] /\ PurchaseInv /\ desk[c] \in DeskRows /\ received' = received
      /\ desk \in [Clerks -> DeskRows]
  BY DEF ClerkInv, PurchaseInv, PapersType, DesksOK, Pu!LodgeBill, Pu!SetBill, Pu!SetBills
<1>1. PICK b \in Pu!BillIds, r \in {Pu!Bill("draft", FALSE, desk[c].amount, desk[c].off)} :
                              /\ b = Pu!Min(Pu!Unused) /\ r = Pu!Bill("draft", FALSE, desk[c].amount, desk[c].off)
                              /\ bills' = [bills EXCEPT ![b] = r]
  BY UnusedRow DEF Pu!LodgeBill, Pu!SetBill, Pu!SetBills
<1>2. r \in BillRows /\ BillOK(r) /\ r.status = "draft" /\ ~r.po
  <2>1. desk[c].amount \in Nat /\ desk[c].off \in Nat
    BY <1>0 DEF DeskRows
  <2> QED BY <1>1, <2>1, FreshRow
<1>3. ShelfInv'
  BY <1>0, <1>1, <1>2, ShelfKept DEF Counts
<1>4. desk'[c].op = "lodge" /\ desk'[c].bill = b
  BY <1>0, <1>1 DEF Pu!LodgeBill, Pu!At, DeskRows
<1>5. bills'[b].status = "draft"
  BY <1>0, <1>1, <1>2
<1>6. ReadOK(desk[c])'
  BY <1>4, <1>5 DEF ReadOK
<1> QED BY <1>3, <1>6, OnlyRead DEF ClerkInv

(* The handlers of bills keep the invariant of a lone clerk. *)
LEMMA HandlerStep ==
  ASSUME UnitsOK, OneClerk, ClerkInv, PurchaseInv', NEW c \in Clerks,
         Pu!LinkBill(c) \/ Pu!ApproveBill(c) \/ Pu!EditBill(c) \/ Pu!DeleteBill(c) \/ Pu!PostBill(c) \/ Pu!PayBill(c)
  PROVE  ClerkInv'
<1>0. /\ bills \in [Pu!BillIds -> BillRows] /\ PurchaseInv /\ desk[c] \in DeskRows
      /\ ReadOK(desk[c])
  BY DEF ClerkInv, PurchaseInv, PapersType, DesksOK, ReadsOK
<1>1. /\ \/ desk[c].op \in {"approve_bill", "edit_bill", "delete_bill", "post_bill", "pay_bill"}
         \/ desk[c].op = "lodge" /\ desk[c].pc \in {"link", "invoiced"}
      /\ received' = received
  BY DEF Pu!LinkBill, Pu!ApproveBill, Pu!EditBill, Pu!DeleteBill, Pu!PostBill, Pu!PayBill, Pu!At,
     Pu!UpdateBill, Pu!SetBill, Pu!SetBills
<1>2. PICK b \in Pu!BillIds, row \in BillRows, a \in Nat :
        b = desk[c].bill /\ row = bills[b] /\ a = desk[c].amount
  BY <1>0, <1>1, HasBill DEF DeskRows
<1>3. BillOK(row) /\ row.qty \in Nat /\ row.paid \in Nat /\ row.balance \in Int /\ row.entries \in Nat
  BY <1>2 DEF ClerkInv, ShelfInv, BillRows
<1>4. ReadsOK'
  <2>1. CASE Pu!LinkBill(c)
    <3>1. desk'[c].pc = "invoiced" /\ desk'[c].op = "lodge"
      BY <1>0, <2>1, AtStep DEF Pu!LinkBill, Pu!At
    <3>2. Unread(c)
      BY <3>1 DEF Unread
    <3> QED BY <3>2, UnreadOK, OnlyRead
  <2>2. CASE ~Pu!LinkBill(c)
    <3>1. desk'[c] = Pu!Idle
      BY <1>0, <2>2, AtDesk DEF Pu!ApproveBill, Pu!EditBill, Pu!DeleteBill, Pu!PostBill,
         Pu!PayBill, Pu!Finish
    <3>2. Unread(c)
      BY <3>1 DEF Pu!Idle, Unread
    <3> QED BY <3>2, UnreadOK, OnlyRead
  <2> QED BY <2>1, <2>2
<1>5. ASSUME NEW r, Pu!UpdateBill(b, r), row.status # "none" PROVE bills' = [bills EXCEPT ![b] = r]
  BY <1>2, <1>5 DEF Pu!UpdateBill, Pu!SetBill, Pu!SetBills
<1>6. CASE Pu!LinkBill(c)
  <2>1. row.status = "draft"
    BY <1>0, <1>2, <1>6 DEF ReadOK, Pu!LinkBill, Pu!At
  <2>2. PICK r : r = [row EXCEPT !.po = TRUE, !.status = "pending_approval"]
    OBVIOUS
  <2>3. bills' = [bills EXCEPT ![b] = r]
    BY <1>2, <1>5, <1>6, <2>1, <2>2 DEF Pu!LinkBill
  <2>4. /\ r \in BillRows /\ r.status = "pending_approval" /\ r.qty = row.qty /\ r.off = row.off /\ r.paid = row.paid
        /\ r.balance = row.balance /\ r.entries = row.entries
    BY <2>2 DEF BillRows, BillStatuses
  <2>5. BillOK(r) /\ r.status \in Early
    BY <1>3, <2>1, <2>4 DEF BillOK, Early
  <2> QED BY <1>1, <1>4, <2>3, <2>4, <2>5, ShelfKept DEF ClerkInv, Counts
<1>7. CASE Pu!ApproveBill(c)
  <2>0. PICK blind \in BOOLEAN : blind = (desk[c].pc = "blind")
    OBVIOUS
  <2>1. row.status \in {"draft", "pending_approval"} /\ (blind \/ Room(b))
    BY <1>0, <1>2, <1>7, <2>0 DEF ReadOK, Pu!ApproveBill, Pu!At
  <2>2. PICK r : r = [row EXCEPT !.status = "approved", !.blind = blind]
    OBVIOUS
  <2>3. bills' = [bills EXCEPT ![b] = r]
    <3>1. Pu!UpdateBill(b, r)
      BY <1>2, <1>7, <2>0, <2>2 DEF Pu!ApproveBill
    <3> QED BY <1>5, <2>1, <3>1
  <2>4. /\ r \in BillRows /\ r.status = "approved" /\ r.qty = row.qty /\ r.off = row.off
        /\ r.paid = row.paid /\ r.po = row.po /\ r.blind = blind
        /\ r.balance = row.balance /\ r.entries = row.entries
    BY <2>2 DEF BillRows, BillStatuses
  <2>5. BillOK(r)
    BY <1>3, <2>1, <2>4 DEF BillOK, Early
  <2>6. CASE blind
    <3>1. ~Counts(r)
      BY <2>4, <2>6 DEF Counts
    <3> QED BY <1>1, <1>4, <2>3, <2>4, <2>5, <3>1, ShelfKept DEF ClerkInv, Counts
  <2>7. CASE ~blind
    <3>1. bills'[b] = r /\ \A d \in Pu!BillIds \ {b} : bills'[d] = bills[d]
      BY <1>0, <2>3
    <3>2. \A d \in Pu!BillIds : BillOK(bills'[d])
      BY <2>5, <3>1 DEF ClerkInv, ShelfInv
    <3>3. Covered'
      BY <1>0, <1>1, <1>2, <2>1, <2>4, <2>7, <3>1, ApprovalCovered DEF ClerkInv, ShelfInv
    <3> QED BY <1>4, <3>2, <3>3 DEF ClerkInv, ShelfInv, BillOK
  <2> QED BY <2>6, <2>7
<1>8. CASE Pu!EditBill(c)
  <2>1. row.status = "draft"
    BY <1>0, <1>2, <1>8 DEF ReadOK, Pu!EditBill, Pu!At
  <2>20. PICK o \in Nat, i \in Int : o = desk[c].off /\ i = a + o
    BY <1>0 DEF DeskRows
  <2>2. PICK r : r = [row EXCEPT !.qty = a, !.off = o, !.balance = i]
    OBVIOUS
  <2>3. bills' = [bills EXCEPT ![b] = r]
    BY <1>2, <1>5, <1>8, <2>1, <2>20, <2>2 DEF Pu!EditBill
  <2>4. /\ r \in BillRows /\ r.status = row.status /\ r.qty = a /\ r.off = o /\ r.paid = row.paid
        /\ r.balance = a + o /\ r.entries = row.entries
    BY <2>20, <2>2 DEF BillRows
  <2>5. BillOK(r) /\ r.status \in Early
    BY <1>3, <2>1, <2>4 DEF BillOK, Early
  <2> QED BY <1>1, <1>4, <2>3, <2>4, <2>5, ShelfKept DEF ClerkInv, Counts
<1>9. CASE Pu!DeleteBill(c)
  <2>1. bills' = [bills EXCEPT ![b] = Pu!NoBill]
    BY <1>2, <1>9 DEF Pu!DeleteBill, Pu!SetBill, Pu!SetBills
  <2>2. Pu!NoBill \in BillRows /\ BillOK(Pu!NoBill) /\ ~Pu!NoBill.po
    BY FreshRow DEF Pu!NoBill
  <2> QED BY <1>1, <1>4, <2>1, <2>2, ShelfKept DEF ClerkInv, Counts
<1>10. CASE Pu!PostBill(c)
  <2>1. row.status = "approved" /\ row.entries = 0
    BY <1>0, <1>2, <1>3, <1>10 DEF ReadOK, Pu!PostBill, Pu!At, BillOK
  <2>2. PICK r : r = [row EXCEPT !.status = "posted", !.entries = 1]
    OBVIOUS
  <2>3. bills' = [bills EXCEPT ![b] = r]
    BY <1>2, <1>10, <2>1, <2>2 DEF Pu!PostBill, Pu!SetBill, Pu!SetBills
  <2>4. /\ r \in BillRows /\ r.status = "posted" /\ r.qty = row.qty /\ r.off = row.off /\ r.paid = row.paid
        /\ r.po = row.po /\ r.blind = row.blind
        /\ r.balance = row.balance /\ r.entries = 1
    BY <2>2 DEF BillRows, BillStatuses
  <2>5. BillOK(r) /\ row.status \notin Early
    BY <1>3, <2>1, <2>4 DEF BillOK, Early
  <2> QED BY <1>1, <1>2, <1>4, <2>3, <2>4, <2>5, ShelfKept DEF ClerkInv, Counts
<1>11. CASE Pu!PayBill(c)
  <2>1. row.status \notin Early /\ a =< row.balance /\ row.status # "none"
    BY <1>0, <1>2, <1>11 DEF ReadOK, Pu!PayBill, Pu!At, Early
  <2>20. PICK left \in Int : left = row.balance - a
    BY <1>3
  <2>2. PICK s \in {"paid", "partially_paid"} :
           Pu!UpdateBill(b, [row EXCEPT !.paid = @ + a, !.balance = left, !.status = s])
    BY <1>2, <1>11, <2>20 DEF Pu!PayBill
  <2>3. PICK p \in Nat : p = row.paid + a
    BY <1>3
  <2>4. PICK r : r = [row EXCEPT !.paid = p, !.balance = left, !.status = s]
    OBVIOUS
  <2>5. bills' = [bills EXCEPT ![b] = r]
    BY <1>5, <2>1, <2>2, <2>3, <2>4
  <2>6. /\ r \in BillRows /\ r.status = s /\ r.qty = row.qty /\ r.off = row.off /\ r.paid = p
        /\ r.po = row.po /\ r.blind = row.blind
        /\ r.balance = left /\ r.entries = row.entries
    BY <2>4 DEF BillRows, BillStatuses
  <2>7. BillOK(r)
    BY <1>3, <2>1, <2>20, <2>3, <2>6 DEF BillOK, Early
  <2> QED BY <1>1, <1>2, <1>4, <2>1, <2>5, <2>6, <2>7, ShelfKept DEF ClerkInv, Counts
<1> QED BY <1>6, <1>7, <1>8, <1>9, <1>10, <1>11

(* It holds at first, *)
LEMMA ClerkStart == ASSUME UnitsOK, Pu!Init PROVE ClerkInv
<1>0. PurchaseInv
  BY PurchaseStart
<1>1. Pu!NoBill \in BillRows /\ BillOK(Pu!NoBill) /\ Pu!NoBill.status = "none" /\ ~Pu!NoBill.po
  BY FreshRow DEF Pu!NoBill
<1>2. \A b \in Pu!BillIds : bills[b] = Pu!NoBill
  BY DEF Pu!Init
<1>3. Approvals = {}
  BY <1>1, <1>2 DEF Approvals, Counts
<1>4. Covered
  BY <1>3, SumEmpty DEF Covered, Pu!Init
<1>5. ReadsOK
  BY IdleFacts DEF Pu!Init, ReadsOK, ReadOK
<1> QED BY <1>0, <1>1, <1>2, <1>4, <1>5 DEF ClerkInv, ShelfInv

(* every step of a lone clerk keeps it, *)
LEMMA ClerkStep == ASSUME UnitsOK, OneClerk, ClerkInv, [Pu!Next]_Pu!vars PROVE ClerkInv'
<1>0. PurchaseInv' /\ PurchaseInv /\ received \in Nat
  BY PurchaseStep DEF ClerkInv, PurchaseInv, PapersType
<1>1. CASE desk' = desk /\ bills' = bills /\ received' \in Nat /\ received' >= received
  BY <1>0, <1>1, AloofStep DEF Aloof
<1>2. CASE UNCHANGED Pu!vars
  BY <1>0, <1>1, <1>2 DEF Pu!vars
<1>3. CASE (\E n \in Totals : Pu!CreateRequisition(n)) \/ Pu!SubmitRequisition \/ Pu!RejectRequisition
  BY <1>0, <1>1, <1>3 DEF Pu!CreateRequisition, Pu!SubmitRequisition, Pu!RejectRequisition,
     Pu!SetRequisition, Pu!billing
<1>4. CASE Pu!CreateTender \/ Pu!PublishTender \/ Pu!CreatePurchaseOrder
  BY <1>0, <1>1, <1>4 DEF Pu!CreateTender, Pu!PublishTender, Pu!CreatePurchaseOrder, Pu!billing
<1>5. CASE Pu!SubmitClaim \/ Pu!RejectClaim \/ \E n \in Totals : Pu!CreateClaim(n)
  BY <1>0, <1>1, <1>5 DEF Pu!SubmitClaim, Pu!RejectClaim, Pu!CreateClaim, Pu!SetClaim, Pu!billing
<1>6. ASSUME NEW q \in 1..Ordered, Pu!CreateGoodsReceipt(q) PROVE ClerkInv'
  <2>1. q \in Nat /\ q > 0
    BY DEF UnitsOK
  <2> QED BY <1>0, <1>1, <1>6, <2>1 DEF Pu!CreateGoodsReceipt
<1>7. ASSUME NEW q \in 1..Ordered, Pu!CreateBill(q) PROVE ClerkInv'
  BY <1>0, <1>7, CreateStep
<1>8. ASSUME NEW c \in Clerks, Pu!Requisitions(c) \/ Pu!Tenders(c) \/ Pu!Claims(c) \/ Pu!Notes(c) \/ Pu!Lapse(c)
      PROVE  ClerkInv'
  BY <1>0, <1>8, OtherRequests
<1>9. ASSUME NEW c \in Clerks, Pu!Bills(c) PROVE ClerkInv'
  <2>1. CASE Pu!MarkInvoiced(c) \/ \E q, off \in 0..Ordered : Pu!StartLodge(c, q, off)
    BY <1>0, <2>1, OtherRequests
  <2>2. ASSUME NEW b \in Pu!BillIds,
               \/ Pu!StartApproveBill(c, b) \/ Pu!StartPostBill(c, b) \/ Pu!StartDeleteBill(c, b)
               \/ Pu!StartApproveUnmatched(c, b)
               \/ \E q \in 1..Ordered : Pu!StartPayBill(c, b, q)
               \/ \E q, off \in 0..Ordered : Pu!StartEditBill(c, b, q, off)
        PROVE  ClerkInv'
    BY <1>0, <2>2, ReadingRequests
  <2>3. CASE Pu!LodgeBill(c)
    BY <1>0, <2>3, LodgeStep
  <2>4. CASE Pu!LinkBill(c) \/ Pu!ApproveBill(c) \/ Pu!EditBill(c) \/ Pu!DeleteBill(c) \/ Pu!PostBill(c) \/ Pu!PayBill(c)
    BY <1>0, <2>4, HandlerStep
  <2> QED BY <1>9, <2>1, <2>2, <2>3, <2>4 DEF Pu!Bills
<1> QED BY <1>2, <1>3, <1>4, <1>5, <1>6, <1>7, <1>8, <1>9 DEF Pu!Next

(* and what is promised of bills follows from it. *)
LEMMA ClerkHolds == ASSUME ClerkInv PROVE Pu!ReceiptsCoverApprovals /\ Pu!BillConserved
  BY CoveredIsReceipts DEF ClerkInv, ShelfInv, BillOK, Pu!BillConserved

(* While requests do not overlap, what is approved was received, wherever  *)
(* a request stopped, and a bill is posted once and never overpaid.        *)
THEOREM BillsHold == UnitsOK /\ OneClerk => (Pu!Spec => [](Pu!ReceiptsCoverApprovals /\ Pu!BillConserved))
<1> SUFFICES ASSUME UnitsOK, OneClerk PROVE Pu!Spec => [](Pu!ReceiptsCoverApprovals /\ Pu!BillConserved)
  OBVIOUS
<1>1. Pu!Init => ClerkInv
  BY ClerkStart
<1>2. ClerkInv /\ [Pu!Next]_Pu!vars => ClerkInv'
  BY ClerkStep
<1>3. ClerkInv => Pu!ReceiptsCoverApprovals /\ Pu!BillConserved
  BY ClerkHolds
<1> QED BY <1>1, <1>2, <1>3, PTL DEF Pu!Spec

-----------------------------------------------------------------------------
(* Stock: shelves, production and the till.                                *)

(* Lots and what an order makes and uses are counted in units. *)
LotsOK ==
    /\ Lots \subseteq (Nat \ {0}) \X Nat
    /\ Output \in Nat \ {0} /\ PartsPer \in Nat \ {0} /\ Overhead \in Nat
    /\ Price \in Nat /\ Float \in Nat
    /\ IsFiniteSet(Staff)

OneStaff == \A r, s \in Staff : r = s

(* Two requests may overlap where stock is not counted. *)
CountedAlone == "count" \notin Areas \/ OneStaff

-----------------------------------------------------------------------------
(* The inductive invariant of overlapping requests *)

Columns == {"onHand", "available", "cost"}
Fields == {"op", "pc", "item", "qty", "cost", "on", "site", "to", "tender"}

StoreOK ==
    /\ DOMAIN items = St!Items
    /\ \A i \in St!Items : DOMAIN items[i] = Columns /\ items[i].onHand \in Int /\ items[i].available \in Int
    /\ shelf \in [St!Items -> [St!Sites -> Int]]
    /\ sites \in Seq(St!Sites) /\ defaults \subseteq St!Sites
    /\ area \in Areas

(* A count is taken alone, so what it read of the item still holds. *)
TaskOK(t) ==
    /\ DOMAIN t = Fields
    /\ t.item \in St!Items /\ t.qty \in Int /\ t.on \in Int /\ t.site \in St!Sites \cup {"none"}
    /\ t.op = "warehouse" => t.site \in St!Sites
    /\ t.op = "transfer" => t.site \in St!Sites /\ t.to \in St!Sites /\ t.site # t.to
    /\ t.op = "sale" => t.tender \in St!Tenders
    /\ t.op = "adjust" => OneStaff /\ t.qty = t.on - items[t.item].onHand

TasksOK == DOMAIN task = Staff /\ \A s \in Staff : TaskOK(task[s])

ShelvesOK == \A i \in St!Items : items[i].onHand = shelf[i]["MAIN"] + shelf[i]["DEPOT"]

(* Sales that are invoiced and not paid yet, and those paid and not tagged. *)
Unpaid == {s \in Staff : St!At(s, "sale", "pay")}
Untagged(t) == {s \in Staff : St!At(s, "sale", "tag") /\ task[s].tender = t}

TillOK ==
    /\ sales \in [posted : Nat, paid : [St!Tenders -> Nat], tagged : [St!Tenders -> Nat]]
    /\ \A t \in St!Tenders : sales.tagged[t] + Cardinality(Untagged(t)) =< sales.paid[t]
    /\ sales.paid["cash"] + sales.paid["mpesa"] + Cardinality(Unpaid) =< sales.posted

StockInv == StoreOK /\ TasksOK /\ ShelvesOK /\ TillOK

-----------------------------------------------------------------------------
(* Tasks *)

(* What a free hand looks like, field by field. *)
LEMMA FreeFacts == DOMAIN St!Free = Fields /\ St!Free.item \in St!Items /\ St!Free.qty = 0 /\ St!Free.on = 0
                   /\ St!Free.site = "none" /\ St!Free.op = "free" /\ St!Free.pc = "start" /\ St!Free.cost = 0
  BY DEF St!Free, Fields, St!Items

(* A free hand carries nothing that could become false. *)
LEMMA FreeOK == TaskOK(St!Free)'
  BY FreeFacts DEF TaskOK

(* The task of one changes; if another one counted, there would be no other. *)
LEMMA TaskStep ==
  ASSUME StockInv, NEW s \in Staff, NEW t, task' = [task EXCEPT ![s] = t], TaskOK(t)'
  PROVE  TasksOK'
<1>1. DOMAIN task = Staff /\ \A r \in Staff : TaskOK(task[r])
  BY DEF StockInv, TasksOK
<1>2. DOMAIN task' = Staff /\ task'[s] = t /\ \A r \in Staff \ {s} : task'[r] = task[r]
  BY <1>1
<1>3. ASSUME NEW r \in Staff \ {s} PROVE TaskOK(task[r])'
  BY <1>1, <1>2 DEF TaskOK, OneStaff
<1>4. TaskOK(task[s])'
  BY <1>2 DEF TaskOK
<1> QED BY <1>2, <1>3, <1>4 DEF TasksOK

(* Tasks stay sound while they and the items rest. *)
LEMMA TasksStay == ASSUME StockInv, task' = task, items' = items PROVE TasksOK'
  BY DEF StockInv, TasksOK, TaskOK

-----------------------------------------------------------------------------
(* The till *)

(* There are finitely many people with a sale to pay or to tag. *)
LEMMA StaffFinite == ASSUME LotsOK PROVE
  /\ IsFiniteSet(Unpaid) /\ Cardinality(Unpaid) \in Nat
  /\ \A t : IsFiniteSet(Untagged(t)) /\ Cardinality(Untagged(t)) \in Nat
<1>1. Unpaid \subseteq Staff /\ \A t : Untagged(t) \subseteq Staff
  BY DEF Unpaid, Untagged
<1> QED BY <1>1, FS_Subset, FS_CardinalityType DEF LotsOK

(* And so after a step. *)
LEMMA StaffFinitePrime == ASSUME LotsOK PROVE
  /\ Cardinality(Unpaid') \in Nat
  /\ \A t : Cardinality(Untagged(t)') \in Nat
<1>1. Unpaid' \subseteq Staff /\ \A t : Untagged(t)' \subseteq Staff
  BY DEF Unpaid, Untagged
<1> QED BY <1>1, FS_Subset, FS_CardinalityType DEF LotsOK

(* No sale moves on at the till. *)
LEMMA TillFewer ==
  ASSUME LotsOK, StockInv, sales' = sales, Unpaid' \subseteq Unpaid,
         \A t \in St!Tenders : Untagged(t)' \subseteq Untagged(t)
  PROVE  TillOK'
<1>1. Cardinality(Unpaid') =< Cardinality(Unpaid) /\ Cardinality(Unpaid') \in Nat /\ Cardinality(Unpaid) \in Nat
  BY StaffFinite, StaffFinitePrime, FS_Subset
<1>2. ASSUME NEW t \in St!Tenders
      PROVE  sales'.tagged[t] + Cardinality(Untagged(t)') =< sales'.paid[t]
  <2>1. /\ Cardinality(Untagged(t)') =< Cardinality(Untagged(t))
        /\ Cardinality(Untagged(t)') \in Nat /\ Cardinality(Untagged(t)) \in Nat
    BY StaffFinite, StaffFinitePrime, FS_Subset
  <2>2. sales.tagged[t] + Cardinality(Untagged(t)) =< sales.paid[t] /\ sales.tagged[t] \in Nat /\ sales.paid[t] \in Nat
    BY DEF StockInv, TillOK
  <2> QED BY <2>1, <2>2
<1>3. sales'.paid["cash"] + sales'.paid["mpesa"] + Cardinality(Unpaid') =< sales'.posted
  <2>1. /\ sales.paid["cash"] + sales.paid["mpesa"] + Cardinality(Unpaid) =< sales.posted
        /\ sales.paid["cash"] \in Nat /\ sales.paid["mpesa"] \in Nat /\ sales.posted \in Nat
    BY DEF StockInv, TillOK, St!Tenders
  <2> QED BY <1>1, <2>1
<1> QED BY <1>2, <1>3 DEF StockInv, TillOK

(* A task that neither pays nor tags a sale leaves the till alone. *)
LEMMA TillStep ==
  ASSUME LotsOK, StockInv, NEW s \in Staff, NEW t, task' = [task EXCEPT ![s] = t], sales' = sales,
         ~(t.op = "sale" /\ t.pc \in {"pay", "tag"})
  PROVE  TillOK'
<1>1. task'[s] = t /\ \A r \in Staff \ {s} : task'[r] = task[r]
  BY DEF StockInv, TasksOK
<1>2. Unpaid' \subseteq Unpaid
  BY <1>1 DEF Unpaid, St!At
<1>3. \A x \in St!Tenders : Untagged(x)' \subseteq Untagged(x)
  BY <1>1 DEF Untagged, St!At
<1> QED BY <1>2, <1>3, TillFewer

(* The till stays right while nobody moves. *)
LEMMA TillStays == ASSUME LotsOK, StockInv, task' = task, sales' = sales PROVE TillOK'
<1>1. Unpaid' = Unpaid /\ \A x \in St!Tenders : Untagged(x)' = Untagged(x)
  BY DEF Unpaid, Untagged, St!At
<1> QED BY <1>1, TillFewer

-----------------------------------------------------------------------------
(* Shelves *)

(* Stock of an item comes to a warehouse or leaves it. *)
Moves(i, w, n) ==
    /\ DOMAIN items' = St!Items /\ \A j \in St!Items \ {i} : items'[j] = items[j]
    /\ DOMAIN items'[i] = Columns
    /\ items'[i].onHand = items[i].onHand + n /\ items'[i].available = items[i].available + n
    /\ shelf' = [shelf EXCEPT ![i][w] = @ + n]

(* Warehouses change as the requests name them. *)
HousesOK == sites' \in Seq(St!Sites) /\ defaults' \subseteq St!Sites /\ area' = area

(* Goods that move on one shelf move on the item as well. *)
LEMMA ShelfStep ==
  ASSUME StockInv, HousesOK, NEW i \in St!Items, NEW w \in St!Sites, NEW n \in Int, Moves(i, w, n)
  PROVE  StoreOK' /\ ShelvesOK'
<1>1. /\ \A j \in St!Items : DOMAIN items[j] = Columns /\ items[j].onHand \in Int /\ items[j].available \in Int
      /\ shelf \in [St!Items -> [St!Sites -> Int]] /\ area \in Areas
      /\ \A j \in St!Items : items[j].onHand = shelf[j]["MAIN"] + shelf[j]["DEPOT"]
  BY DEF StockInv, StoreOK, ShelvesOK
<1>2. shelf' \in [St!Items -> [St!Sites -> Int]]
  BY <1>1 DEF Moves
<1>3. \A j \in St!Items : DOMAIN items'[j] = Columns /\ items'[j].onHand \in Int /\ items'[j].available \in Int
  BY <1>1 DEF Moves
<1>4. ASSUME NEW j \in St!Items PROVE items'[j].onHand = shelf'[j]["MAIN"] + shelf'[j]["DEPOT"]
  <2>1. CASE j = i
    <3>1. shelf'[i][w] = shelf[i][w] + n /\ \A x \in St!Sites \ {w} : shelf'[i][x] = shelf[i][x]
      BY <1>1 DEF Moves
    <3>2. shelf[i]["MAIN"] \in Int /\ shelf[i]["DEPOT"] \in Int
      BY <1>1 DEF St!Sites
    <3>3. w = "MAIN" \/ w = "DEPOT"
      BY DEF St!Sites
    <3>4. items'[i].onHand = items[i].onHand + n /\ items[i].onHand = shelf[i]["MAIN"] + shelf[i]["DEPOT"]
      BY <1>1 DEF Moves
    <3>5. CASE w = "MAIN"
      BY <2>1, <3>1, <3>2, <3>4, <3>5 DEF St!Sites
    <3>6. CASE w = "DEPOT"
      BY <2>1, <3>1, <3>2, <3>4, <3>6 DEF St!Sites
    <3> QED BY <3>3, <3>5, <3>6
  <2>2. CASE j # i
    BY <1>1, <2>2 DEF Moves
  <2> QED BY <2>1, <2>2
<1> QED BY <1>1, <1>2, <1>3, <1>4 DEF StoreOK, ShelvesOK, HousesOK, Moves

(* Shelves stay right while nothing moves. *)
LEMMA ShelfStays ==
  ASSUME StockInv, HousesOK, items' = items, shelf' = shelf
  PROVE  StoreOK' /\ ShelvesOK'
  BY DEF StockInv, HousesOK, StoreOK, ShelvesOK

(* The warehouses that are known are among the sites. *)
LEMMA KnownSites == ASSUME StoreOK PROVE St!Known \subseteq St!Sites
  BY DEF St!Known, StoreOK

(* Finding the home warehouse keeps the list of them right, *)
LEMMA HomeOK == ASSUME StoreOK, NEW w \in St!Sites, area' = area, St!Home(w) PROVE HousesOK
<1>1. sites \in Seq(St!Sites) /\ defaults \subseteq St!Sites
  BY DEF StoreOK
<1>2. <<w>> \in Seq(St!Sites)
  OBVIOUS
<1> QED BY <1>1, <1>2 DEF St!Home, HousesOK, St!houses

(* so does finding the place a request names, *)
LEMMA PlaceOK ==
  ASSUME StoreOK, NEW w \in St!Sites, NEW x, area' = area, St!Place(x, w)
  PROVE  HousesOK
<1>1. CASE x = "none"
  BY <1>1, HomeOK DEF St!Place
<1>2. CASE x # "none"
  BY <1>2 DEF St!Place, StoreOK, HousesOK, St!houses
<1> QED BY <1>1, <1>2

-----------------------------------------------------------------------------
(* Steps *)

(* With nothing counted, or by the one member of staff, tasks stay good.   *)
LEMMA TasksKeep ==
  ASSUME StockInv, task' = task, NEW s \in Staff, task[s].op # "adjust"
  PROVE  TasksOK'
<1>1. DOMAIN task = Staff /\ \A r \in Staff : TaskOK(task[r])
  BY DEF StockInv, TasksOK
<1>2. ASSUME NEW r \in Staff PROVE TaskOK(task[r])'
  BY <1>1 DEF TaskOK, OneStaff
<1> QED BY <1>1, <1>2 DEF TasksOK

(* and a step that needs no place. *)
LEMMA Waits == ASSUME StoreOK, UNCHANGED <<area, St!houses>> PROVE HousesOK
  BY DEF StoreOK, HousesOK, St!houses

(* A task that begins by reading keeps the invariant. *)
LEMMA ReaderBegins ==
  ASSUME LotsOK, StockInv, NEW s \in Staff, NEW t, TaskOK(t), St!Begin(s, t),
         ~(t.op = "sale" /\ t.pc \in {"pay", "tag"})
  PROVE  StockInv'
<1>1. TaskOK(t)'
  BY DEF St!Begin, St!stock, TaskOK
<1>2. StoreOK' /\ ShelvesOK'
  BY ShelfStays, Waits DEF St!Begin, St!stock, StockInv
<1>3. TasksOK' /\ TillOK'
  BY <1>1, TaskStep, TillStep DEF St!Begin, St!till
<1> QED BY <1>2, <1>3 DEF StockInv

(* What a new request looks like, field by field. *)
LEMMA RequestFacts ==
  ASSUME NEW op, NEW pc
  PROVE  /\ DOMAIN St!Request(op, pc) = Fields /\ St!Request(op, pc).op = op /\ St!Request(op, pc).pc = pc
         /\ St!Request(op, pc).item \in St!Items /\ St!Request(op, pc).qty = 0 /\ St!Request(op, pc).on = 0
         /\ St!Request(op, pc).site = "none" /\ St!Request(op, pc).cost = 0
  BY DEF St!Request, St!Free, Fields, St!Items

(* A request that carries nothing is sound. *)
LEMMA BareOK ==
  ASSUME NEW op, op \notin {"warehouse", "transfer", "sale", "adjust"}, NEW pc
  PROVE  TaskOK(St!Request(op, pc))
  BY RequestFacts DEF TaskOK

(* Whoever reads starts with nothing done. *)
LEMMA ReaderSteps ==
  ASSUME LotsOK, CountedAlone, StockInv, NEW s \in Staff,
         \/ \E q \in 1..2, n \in St!Named : St!StartIssue(s, "part", q, n)
         \/ \E q \in 0..2 : St!StartAdjust(s, "part", q)
         \/ \E from, to \in St!Known : St!StartTransfer(s, "part", from, to, 1)
         \/ St!StartStart(s) \/ St!StartComplete(s) \/ St!StartCancel(s)
         \/ \E t \in St!Tenders : St!StartSale(s, t)
         \/ St!StartClose(s)
  PROVE  StockInv'
<1>0. StoreOK /\ St!Known \subseteq St!Sites /\ St!Named \subseteq St!Sites \cup {"none"} /\ "part" \in St!Items /\ "good" \in St!Items
  BY KnownSites DEF StockInv, St!Named, St!Items
<1>1. ASSUME NEW q \in 1..2, NEW n \in St!Named, St!StartIssue(s, "part", q, n) PROVE StockInv'
  <2>1. PICK t : t = [St!Request("issue", "check") EXCEPT !.item = "part", !.qty = q, !.site = n]
    OBVIOUS
  <2>2. TaskOK(t) /\ t.op = "issue"
    BY <1>0, <2>1, RequestFacts DEF TaskOK, Fields
  <2>3. St!Begin(s, t)
    BY <1>1, <2>1 DEF St!StartIssue
  <2> QED BY <2>2, <2>3, ReaderBegins
<1>2. ASSUME NEW q \in 0..2, St!StartAdjust(s, "part", q) PROVE StockInv'
  <2>0. items["part"].onHand \in Int
    BY <1>0 DEF StoreOK
  <2>1. PICK t : t = [St!Request("adjust", "commit") EXCEPT
                        !.item = "part", !.on = q, !.qty = q - items["part"].onHand,
                        !.cost = items["part"].cost]
    OBVIOUS
  <2>2. OneStaff
    BY <1>0, <1>2 DEF St!StartAdjust, CountedAlone, StoreOK
  <2>3. TaskOK(t) /\ t.op = "adjust"
    BY <1>0, <2>0, <2>1, <2>2, RequestFacts DEF TaskOK, Fields
  <2>4. St!Begin(s, t)
    BY <1>2, <2>1 DEF St!StartAdjust
  <2> QED BY <2>3, <2>4, ReaderBegins
<1>3. ASSUME NEW from \in St!Known, NEW to \in St!Known, St!StartTransfer(s, "part", from, to, 1)
      PROVE  StockInv'
  <2>1. PICK t : t = [St!Request("transfer", "commit") EXCEPT
                        !.item = "part", !.qty = 1, !.site = from, !.to = to]
    OBVIOUS
  <2>2. DOMAIN t = Fields /\ t.op = "transfer" /\ t.item = "part" /\ t.qty = 1 /\ t.on = 0
        /\ t.site = from /\ t.to = to
    BY <2>1, RequestFacts DEF Fields
  <2>4. from \in St!Sites /\ to \in St!Sites /\ from # to
    BY <1>0, <1>3 DEF St!StartTransfer
  <2>5. TaskOK(t)
    BY <1>0, <2>2, <2>4 DEF TaskOK
  <2>3. St!Begin(s, t)
    BY <1>3, <2>1 DEF St!StartTransfer
  <2> QED BY <2>2, <2>3, <2>5, ReaderBegins
<1>4. CASE St!StartStart(s)
  <2>0. PartsPer \in Int
    BY DEF LotsOK
  <2>1. PICK t : t = [St!Request("start", "check") EXCEPT !.item = "part", !.qty = PartsPer]
    OBVIOUS
  <2>2. TaskOK(t) /\ t.op = "start"
    BY <1>0, <2>0, <2>1, RequestFacts DEF TaskOK, Fields
  <2>3. St!Begin(s, t)
    BY <1>4, <2>1 DEF St!StartStart
  <2> QED BY <2>2, <2>3, ReaderBegins
<1>5. CASE St!StartComplete(s)
  <2>1. PICK t : t = [St!Request("complete", "commit") EXCEPT !.cost = wo.material]
    OBVIOUS
  <2>2. TaskOK(t) /\ t.op = "complete"
    BY <2>1, RequestFacts DEF TaskOK, Fields
  <2>3. St!Begin(s, t)
    BY <1>5, <2>1 DEF St!StartComplete
  <2> QED BY <2>2, <2>3, ReaderBegins
<1>6. CASE St!StartCancel(s)
  <2>1. TaskOK(St!Request("cancel", "commit")) /\ St!Request("cancel", "commit").op = "cancel"
    BY BareOK, RequestFacts
  <2> QED BY <1>6, <2>1, ReaderBegins DEF St!StartCancel
<1>7. ASSUME NEW x \in St!Tenders, St!StartSale(s, x) PROVE StockInv'
  <2>1. PICK t : t = [St!Request("sale", "check") EXCEPT !.item = "good", !.qty = 1, !.tender = x]
    OBVIOUS
  <2>2. TaskOK(t) /\ t.pc = "check"
    BY <1>0, <2>1, RequestFacts DEF TaskOK, Fields
  <2>3. St!Begin(s, t)
    BY <1>7, <2>1 DEF St!StartSale
  <2> QED BY <2>2, <2>3, ReaderBegins
<1>8. CASE St!StartClose(s)
  <2>0. St!ExpectedCash \in Int
    <3>1. sales.tagged["cash"] \in Nat
      BY DEF StockInv, TillOK, St!Tenders
    <3> QED BY <3>1 DEF St!ExpectedCash, St!Tagged, LotsOK
  <2>1. PICK t : t = [St!Request("close", "commit") EXCEPT !.on = St!ExpectedCash]
    OBVIOUS
  <2>2. TaskOK(t) /\ t.op = "close"
    BY <2>0, <2>1, RequestFacts DEF TaskOK, Fields
  <2>3. St!Begin(s, t)
    BY <1>8, <2>1 DEF St!StartClose
  <2> QED BY <2>2, <2>3, ReaderBegins
<1> QED BY <1>1, <1>2, <1>3, <1>4, <1>5, <1>6, <1>7, <1>8

(* The request ends and no stock has moved. *)
LEMMA EndSteps ==
  ASSUME LotsOK, StockInv, NEW s \in Staff,
         St!CancelWorkOrder(s) \/ St!CloseSession(s) \/ St!Stop(s)
  PROVE  StockInv'
<1>1. /\ St!End(s) /\ sales' = sales /\ items' = items /\ shelf' = shelf
      /\ UNCHANGED <<area, St!houses>>
  BY DEF St!CancelWorkOrder, St!CloseSession, St!Stop, St!SetOrder, St!stock, St!till
<1>2. StoreOK' /\ ShelvesOK'
  BY <1>1, ShelfStays, Waits DEF StockInv
<1>3. TasksOK' /\ TillOK'
  BY <1>1, FreeOK, FreeFacts, TaskStep, TillStep DEF St!End
<1> QED BY <1>2, <1>3 DEF StockInv

(* Checking the quantity before an issue keeps the invariant. *)
LEMMA CheckStep ==
  ASSUME LotsOK, StockInv, NEW s \in Staff, St!CheckIssue(s)
  PROVE  StockInv'
<1>0. DOMAIN task = Staff /\ TaskOK(task[s])
  BY DEF StockInv, TasksOK
<1>1. /\ sales' = sales /\ items' = items /\ shelf' = shelf
      /\ UNCHANGED <<area, St!houses>>
  BY DEF St!CheckIssue, St!stock, St!till
<1>2. StoreOK' /\ ShelvesOK'
  BY <1>1, ShelfStays, Waits DEF StockInv
<1>3. CASE St!End(s)
  <2>1. TasksOK' /\ TillOK'
    BY <1>1, <1>3, FreeOK, FreeFacts, TaskStep, TillStep DEF St!End
  <2> QED BY <1>2, <2>1 DEF StockInv
<1>4. CASE task' = [task EXCEPT ![s].pc = "commit", ![s].cost = items[task[s].item].cost]
  <2>1. PICK t : t = [task[s] EXCEPT !.pc = "commit", !.cost = items[task[s].item].cost]
    OBVIOUS
  <2>2. task' = [task EXCEPT ![s] = t]
    BY <1>0, <1>4, <2>1
  <2>3. TaskOK(t) /\ t.pc = "commit"
    BY <1>0, <2>1 DEF TaskOK, Fields
  <2>4. TaskOK(t)'
    BY <1>1, <2>3 DEF TaskOK
  <2>5. TasksOK' /\ TillOK'
    BY <1>1, <2>2, <2>3, <2>4, TaskStep, TillStep
  <2> QED BY <1>2, <2>5 DEF StockInv
<1> QED BY <1>3, <1>4 DEF St!CheckIssue

(* Warehouses. *)
LEMMA WarehouseSteps ==
  ASSUME LotsOK, StockInv, NEW s \in Staff,
         St!InsertWarehouse(s) \/ \E w \in St!Sites, flag \in BOOLEAN : St!StartWarehouse(s, w, flag)
  PROVE  StockInv'
<1>0. DOMAIN task = Staff /\ TaskOK(task[s]) /\ StoreOK
  BY DEF StockInv, TasksOK
<1>1. CASE St!InsertWarehouse(s)
  <2>1. St!End(s) /\ sales' = sales /\ items' = items /\ shelf' = shelf /\ area' = area
    BY <1>1 DEF St!InsertWarehouse, St!stock, St!till
  <2>2. task[s].site \in St!Sites
    BY <1>0, <1>1 DEF St!InsertWarehouse, St!At, TaskOK
  <2>a. sites \in Seq(St!Sites) /\ defaults \subseteq St!Sites /\ Append(sites, task[s].site) \in Seq(St!Sites)
    BY <1>0, <2>2 DEF StoreOK
  <2>b. sites' = sites \/ sites' = Append(sites, task[s].site)
    BY <1>1 DEF St!InsertWarehouse, St!houses
  <2>c. defaults' \subseteq St!Sites
    BY <1>1, <2>2, <2>a DEF St!InsertWarehouse, St!houses
  <2>3. HousesOK
    BY <2>1, <2>a, <2>b, <2>c DEF HousesOK
  <2>4. StoreOK' /\ ShelvesOK'
    BY <2>1, <2>3, ShelfStays
  <2>5. TasksOK' /\ TillOK'
    BY <2>1, FreeOK, FreeFacts, TaskStep, TillStep DEF St!End
  <2> QED BY <2>4, <2>5 DEF StockInv
<1>2. ASSUME NEW w \in St!Sites, NEW flag \in BOOLEAN, St!StartWarehouse(s, w, flag) PROVE StockInv'
  <2>1. PICK n \in {0, 1} : n = IF flag \/ sites = <<>> THEN 1 ELSE 0
    OBVIOUS
  <2>2. PICK t : t = [St!Request("warehouse", "insert") EXCEPT !.site = w, !.on = n]
    OBVIOUS
  <2>3. TaskOK(t) /\ t.op = "warehouse"
    BY <2>2, RequestFacts DEF TaskOK, Fields
  <2>4. task' = [task EXCEPT ![s] = t] /\ sales' = sales /\ items' = items /\ shelf' = shelf
    BY <1>2, <2>1, <2>2 DEF St!StartWarehouse, St!stock, St!till
  <2>5. HousesOK
    BY <1>0, <1>2 DEF St!StartWarehouse, HousesOK, StoreOK
  <2>6. StoreOK' /\ ShelvesOK'
    BY <2>4, <2>5, ShelfStays
  <2>7. TaskOK(t)'
    BY <2>3, <2>4 DEF TaskOK
  <2>8. TasksOK' /\ TillOK'
    BY <2>3, <2>4, <2>7, TaskStep, TillStep
  <2> QED BY <2>6, <2>8 DEF StockInv
<1> QED BY <1>1, <1>2

(* What one warehouse gives the other gets. *)
LEMMA TransferStep ==
  ASSUME LotsOK, StockInv, NEW s \in Staff, St!Transfer(s)
  PROVE  StockInv'
<1>0. DOMAIN task = Staff /\ TaskOK(task[s]) /\ StoreOK /\ ShelvesOK
  BY DEF StockInv, TasksOK
<1>1. PICK i, v, w, q : i = task[s].item /\ v = task[s].site /\ w = task[s].to /\ q = task[s].qty
  OBVIOUS
<1>2. i \in St!Items /\ v \in St!Sites /\ w \in St!Sites /\ v # w /\ q \in Int
  BY <1>0, <1>1 DEF St!Transfer, St!At, TaskOK
<1>3. St!End(s) /\ sales' = sales /\ items' = items /\ UNCHANGED <<area, St!houses>>
      /\ shelf' = [shelf EXCEPT ![i][v] = @ - q, ![i][w] = @ + q]
  BY <1>1 DEF St!Transfer, St!till
<1>4. shelf \in [St!Items -> [St!Sites -> Int]]
  BY <1>0 DEF StoreOK
<1>5. /\ shelf' \in [St!Items -> [St!Sites -> Int]] /\ \A j \in St!Items \ {i} : shelf'[j] = shelf[j]
      /\ shelf'[i][v] = shelf[i][v] - q /\ shelf'[i][w] = shelf[i][w] + q
  BY <1>2, <1>3, <1>4
<1>6. shelf'[i]["MAIN"] + shelf'[i]["DEPOT"] = shelf[i]["MAIN"] + shelf[i]["DEPOT"]
  <2>1. \/ v = "MAIN" /\ w = "DEPOT"
        \/ v = "DEPOT" /\ w = "MAIN"
    BY <1>2 DEF St!Sites
  <2>2. shelf[i]["MAIN"] \in Int /\ shelf[i]["DEPOT"] \in Int
    BY <1>2, <1>4 DEF St!Sites
  <2> QED BY <1>2, <1>5, <2>1, <2>2
<1>7. ShelvesOK'
  BY <1>0, <1>3, <1>5, <1>6 DEF ShelvesOK
<1>8. StoreOK'
  BY <1>0, <1>3, <1>5 DEF StoreOK, St!houses
<1>9. TasksOK' /\ TillOK'
  BY <1>3, FreeOK, FreeFacts, TaskStep, TillStep DEF St!End
<1> QED BY <1>7, <1>8, <1>9 DEF StockInv

(* A receipt changes items while nobody counts. *)
LEMMA ReceiveStep ==
  ASSUME LotsOK, StockInv, NEW s \in Staff, NEW i \in St!Items, NEW lot \in Lots, NEW n \in St!Named,
         NEW w \in St!Sites, St!Receive(s, i, lot, n, w)
  PROVE  StockInv'
<1>0. DOMAIN task = Staff /\ StoreOK
  BY DEF StockInv, TasksOK
<1>1. PICK q : q = lot[1]
  OBVIOUS
<1>2. q \in Int
  BY <1>1 DEF LotsOK
<1>3. HousesOK
  BY <1>0, PlaceOK DEF St!Receive
<1>4. Moves(i, w, q)
  BY <1>0, <1>1, <1>2 DEF St!Receive, StoreOK, St!Received, Columns, Moves
<1>5. StoreOK' /\ ShelvesOK'
  BY <1>2, <1>3, <1>4, ShelfStep
<1>6. task[s].op # "adjust" /\ task' = task /\ sales' = sales
  BY DEF St!Receive, St!till
<1>7. TasksOK' /\ TillOK'
  BY <1>6, TasksKeep, TillStays
<1> QED BY <1>5, <1>7 DEF StockInv

(* Stock is taken for an issue, an order or a sale. *)
LEMMA TakeMoves ==
  ASSUME StockInv, NEW s \in Staff, NEW w \in St!Sites, St!Take(s, w), area' = area
  PROVE  StoreOK' /\ ShelvesOK'
<1>0. DOMAIN task = Staff /\ StoreOK /\ TaskOK(task[s])
  BY DEF StockInv, TasksOK
<1>1. PICK i, q : i = task[s].item /\ q = task[s].qty
  OBVIOUS
<1>2. i \in St!Items /\ q \in Int /\ -q \in Int
  BY <1>0, <1>1 DEF TaskOK
<1>3. HousesOK
  BY <1>0, PlaceOK DEF St!Take
<1>4. items' = [items EXCEPT ![i].onHand = @ - q, ![i].available = @ - q]
      /\ shelf' = [shelf EXCEPT ![i][w] = @ - q]
  BY <1>1 DEF St!Take
<1>5. /\ DOMAIN items' = St!Items /\ \A j \in St!Items \ {i} : items'[j] = items[j]
      /\ DOMAIN items'[i] = Columns
      /\ items'[i].onHand = items[i].onHand - q /\ items'[i].available = items[i].available - q
  BY <1>0, <1>2, <1>4 DEF StoreOK, Columns
<1>6. items[i].onHand - q = items[i].onHand + (-q) /\ items[i].available - q = items[i].available + (-q)
  BY <1>0, <1>2 DEF StoreOK
<1>7. shelf' = [shelf EXCEPT ![i][w] = @ + (-q)]
  BY <1>0, <1>2, <1>4 DEF StoreOK
<1>8. Moves(i, w, -q)
  BY <1>5, <1>6, <1>7 DEF Moves
<1> QED BY <1>2, <1>3, <1>8, ShelfStep

(* Goods are issued from the shelf that was named. *)
LEMMA IssueSteps ==
  ASSUME LotsOK, StockInv, NEW s \in Staff, NEW w \in St!Sites, St!Issue(s, w) \/ St!StartWorkOrder(s, w)
  PROVE  StockInv'
<1>1. St!Take(s, w) /\ St!End(s) /\ area' = area /\ sales' = sales
  BY DEF St!Issue, St!StartWorkOrder, St!SetOrder, St!till
<1>2. StoreOK' /\ ShelvesOK'
  BY <1>1, TakeMoves
<1>3. TasksOK' /\ TillOK'
  BY <1>1, FreeOK, FreeFacts, TaskStep, TillStep DEF St!End
<1> QED BY <1>2, <1>3 DEF StockInv

(* What was counted is what is there, because the read still holds. *)
LEMMA AdjustStep ==
  ASSUME LotsOK, StockInv, NEW s \in Staff, NEW w \in St!Sites, St!Adjust(s, w)
  PROVE  StockInv'
<1>0. DOMAIN task = Staff /\ StoreOK /\ TaskOK(task[s])
  BY DEF StockInv, TasksOK
<1>1. PICK i, q, n : i = task[s].item /\ q = task[s].qty /\ n = task[s].on
  OBVIOUS
<1>2. i \in St!Items /\ q \in Int /\ n \in Int /\ q = n - items[i].onHand
  BY <1>0, <1>1 DEF TaskOK, St!Adjust, St!At
<1>3. St!Home(w) /\ St!End(s) /\ area' = area /\ sales' = sales
      /\ items' = [items EXCEPT ![i].onHand = n, ![i].available = @ + q]
      /\ shelf' = [shelf EXCEPT ![i][w] = @ + q]
  BY <1>1 DEF St!Adjust, St!till
<1>4. n = items[i].onHand + q
  BY <1>0, <1>2 DEF StoreOK
<1>5. Moves(i, w, q)
  BY <1>0, <1>2, <1>3, <1>4 DEF StoreOK, Columns, Moves
<1>6. StoreOK' /\ ShelvesOK'
  BY <1>0, <1>2, <1>3, <1>5, HomeOK, ShelfStep
<1>7. TasksOK' /\ TillOK'
  BY <1>3, FreeOK, FreeFacts, TaskStep, TillStep DEF St!End
<1> QED BY <1>6, <1>7 DEF StockInv

(* Completing a work order puts its output on a shelf. *)
LEMMA CompleteStep ==
  ASSUME LotsOK, StockInv, NEW s \in Staff, NEW w \in St!Sites, St!CompleteWorkOrder(s, w)
  PROVE  StockInv'
<1>0. DOMAIN task = Staff /\ StoreOK /\ Output \in Int /\ "good" \in St!Items
  BY DEF StockInv, TasksOK, LotsOK, St!Items
<1>1. PICK c : c = St!UnitCost(task[s].cost + Overhead)
  OBVIOUS
<1>2. St!Home(w) /\ St!End(s) /\ area' = area /\ sales' = sales
      /\ items' = [items EXCEPT !["good"] = St!Received(@, Output, c)]
      /\ shelf' = [shelf EXCEPT !["good"][w] = @ + Output]
  BY <1>1 DEF St!CompleteWorkOrder, St!SetOrder, St!till
<1>3. Moves("good", w, Output)
  BY <1>0, <1>2 DEF StoreOK, St!Received, Columns, Moves
<1>4. StoreOK' /\ ShelvesOK'
  BY <1>0, <1>2, <1>3, HomeOK, ShelfStep
<1>5. TasksOK' /\ TillOK'
  BY <1>2, FreeOK, FreeFacts, TaskStep, TillStep DEF St!End
<1> QED BY <1>4, <1>5 DEF StockInv

-----------------------------------------------------------------------------
(* Sales *)

(* A sale is posted and waits to be paid. *)
LEMMA PostStep ==
  ASSUME LotsOK, StockInv, NEW s \in Staff, NEW w \in St!Sites, St!PostSale(s, w)
  PROVE  StockInv'
<1>0. DOMAIN task = Staff /\ TaskOK(task[s]) /\ task[s].op = "sale" /\ task[s].pc = "commit"
  BY DEF StockInv, TasksOK, St!PostSale, St!At
<1>1. StoreOK' /\ ShelvesOK'
  BY TakeMoves DEF St!PostSale
<1>2. PICK t : t = [task[s] EXCEPT !.pc = "pay"]
  OBVIOUS
<1>3. task' = [task EXCEPT ![s] = t]
  BY <1>0, <1>2 DEF St!PostSale, St!Goto
<1>4. DOMAIN t = Fields /\ t.pc = "pay" /\ \A f \in Fields \ {"pc"} : t[f] = task[s][f]
  BY <1>0, <1>2 DEF TaskOK, Fields
<1>5. TaskOK(t)'
  <2>1. t.op = "sale" /\ t.item \in St!Items /\ t.qty \in Int /\ t.on \in Int /\ t.site \in St!Sites \cup {"none"}
        /\ t.tender \in St!Tenders
    BY <1>0, <1>4 DEF TaskOK, Fields
  <2> QED BY <1>4, <2>1 DEF TaskOK
<1>6. TasksOK'
  BY <1>3, <1>5, TaskStep
<1>7. task'[s] = t /\ \A r \in Staff \ {s} : task'[r] = task[r]
  BY <1>0, <1>3
<1>8. Unpaid' = Unpaid \cup {s} /\ s \notin Unpaid
  BY <1>0, <1>4, <1>7 DEF Unpaid, St!At, Fields
<1>9. \A x \in St!Tenders : Untagged(x)' = Untagged(x)
  BY <1>0, <1>4, <1>7 DEF Untagged, St!At, Fields
<1>10. Cardinality(Unpaid') = Cardinality(Unpaid) + 1 /\ Cardinality(Unpaid) \in Nat
  BY <1>8, StaffFinite, FS_AddElement
<1>11. sales' = [sales EXCEPT !.posted = @ + 1]
  BY DEF St!PostSale
<1>12. /\ sales \in [posted : Nat, paid : [St!Tenders -> Nat], tagged : [St!Tenders -> Nat]]
       /\ \A x \in St!Tenders : sales.tagged[x] + Cardinality(Untagged(x)) =< sales.paid[x]
       /\ sales.paid["cash"] + sales.paid["mpesa"] + Cardinality(Unpaid) =< sales.posted
  BY DEF StockInv, TillOK
<1>13. /\ sales'.posted = sales.posted + 1 /\ sales'.paid = sales.paid /\ sales'.tagged = sales.tagged
       /\ sales' \in [posted : Nat, paid : [St!Tenders -> Nat], tagged : [St!Tenders -> Nat]]
  BY <1>11, <1>12
<1>14. sales.paid["cash"] \in Nat /\ sales.paid["mpesa"] \in Nat /\ sales.posted \in Nat
  BY <1>12 DEF St!Tenders
<1>15. TillOK'
  BY <1>9, <1>10, <1>12, <1>13, <1>14 DEF TillOK
<1> QED BY <1>1, <1>6, <1>15 DEF StockInv

(* It is paid, and waits to be tagged to the shift. *)
LEMMA PayStep ==
  ASSUME LotsOK, StockInv, NEW s \in Staff, St!PaySale(s)
  PROVE  StockInv'
<1>0. DOMAIN task = Staff /\ TaskOK(task[s]) /\ task[s].op = "sale" /\ task[s].pc = "pay"
  BY DEF StockInv, TasksOK, St!PaySale, St!At
<1>1. StoreOK' /\ ShelvesOK'
  BY ShelfStays, Waits DEF St!PaySale, St!stock, StockInv
<1>2. PICK t : t = [task[s] EXCEPT !.pc = "tag"]
  OBVIOUS
<1>3. task' = [task EXCEPT ![s] = t]
  BY <1>0, <1>2 DEF St!PaySale, St!Goto
<1>4. DOMAIN t = Fields /\ t.pc = "tag" /\ \A f \in Fields \ {"pc"} : t[f] = task[s][f]
  BY <1>0, <1>2 DEF TaskOK, Fields
<1>t. PICK y \in St!Tenders : y = task[s].tender /\ t.tender = y
  BY <1>0, <1>4 DEF TaskOK, Fields
<1>5. TaskOK(t)'
  <2>1. t.op = "sale" /\ t.item \in St!Items /\ t.qty \in Int /\ t.on \in Int /\ t.site \in St!Sites \cup {"none"}
        /\ t.tender \in St!Tenders
    BY <1>0, <1>4 DEF TaskOK, Fields
  <2> QED BY <1>4, <2>1 DEF TaskOK
<1>6. TasksOK'
  BY <1>3, <1>5, TaskStep
<1>7. task'[s] = t /\ \A r \in Staff \ {s} : task'[r] = task[r]
  BY <1>0, <1>3
<1>8. Unpaid' = Unpaid \ {s} /\ s \in Unpaid
  BY <1>0, <1>4, <1>7 DEF Unpaid, St!At, Fields
<1>9. \A x \in St!Tenders \ {y} : Untagged(x)' = Untagged(x)
  BY <1>0, <1>4, <1>7, <1>t DEF Untagged, St!At, Fields
<1>10. Untagged(y)' = Untagged(y) \cup {s} /\ s \notin Untagged(y)
  BY <1>0, <1>4, <1>7, <1>t DEF Untagged, St!At, Fields
<1>11. /\ Cardinality(Unpaid') = Cardinality(Unpaid) - 1 /\ Cardinality(Unpaid) \in Nat
       /\ Cardinality(Untagged(y)') = Cardinality(Untagged(y)) + 1 /\ Cardinality(Untagged(y)) \in Nat
  BY <1>8, <1>10, StaffFinite, FS_AddElement, FS_RemoveElement
<1>12. /\ sales \in [posted : Nat, paid : [St!Tenders -> Nat], tagged : [St!Tenders -> Nat]]
       /\ \A x \in St!Tenders : sales.tagged[x] + Cardinality(Untagged(x)) =< sales.paid[x]
       /\ sales.paid["cash"] + sales.paid["mpesa"] + Cardinality(Unpaid) =< sales.posted
  BY DEF StockInv, TillOK
<1>13. sales' = [sales EXCEPT !.paid[y] = @ + 1]
  BY <1>t DEF St!PaySale
<1>14. /\ sales'.posted = sales.posted /\ sales'.paid[y] = sales.paid[y] + 1 /\ sales'.tagged = sales.tagged
       /\ \A x \in St!Tenders \ {y} : sales'.paid[x] = sales.paid[x]
       /\ sales' \in [posted : Nat, paid : [St!Tenders -> Nat], tagged : [St!Tenders -> Nat]]
  BY <1>12, <1>13
<1>15. /\ sales.paid["cash"] \in Nat /\ sales.paid["mpesa"] \in Nat /\ sales.posted \in Nat
       /\ sales.paid[y] \in Nat /\ sales.tagged[y] \in Nat
  BY <1>12 DEF St!Tenders
<1>16. sales'.tagged[y] + Cardinality(Untagged(y)') =< sales'.paid[y]
  BY <1>11, <1>12, <1>14, <1>15
<1>17. \A x \in St!Tenders : sales'.tagged[x] + Cardinality(Untagged(x)') =< sales'.paid[x]
  BY <1>9, <1>12, <1>14, <1>16
<1>18. sales'.paid["cash"] + sales'.paid["mpesa"] = sales.paid["cash"] + sales.paid["mpesa"] + 1
  <2>1. y = "cash" \/ y = "mpesa"
    BY DEF St!Tenders
  <2> QED BY <1>14, <1>15, <2>1 DEF St!Tenders
<1>19. sales'.paid["cash"] + sales'.paid["mpesa"] + Cardinality(Unpaid') =< sales'.posted
  BY <1>11, <1>12, <1>14, <1>15, <1>18
<1> QED BY <1>1, <1>6, <1>14, <1>17, <1>19 DEF StockInv, TillOK

(* It is tagged. *)
LEMMA TagStep ==
  ASSUME LotsOK, StockInv, NEW s \in Staff, St!TagSale(s)
  PROVE  StockInv'
<1>0. DOMAIN task = Staff /\ TaskOK(task[s]) /\ task[s].op = "sale" /\ task[s].pc = "tag"
  BY DEF StockInv, TasksOK, St!TagSale, St!At
<1>1. StoreOK' /\ ShelvesOK'
  BY ShelfStays, Waits DEF St!TagSale, St!stock, StockInv
<1>2. TasksOK'
  BY FreeOK, TaskStep DEF St!TagSale, St!End
<1>t. PICK y \in St!Tenders : y = task[s].tender
  BY <1>0 DEF TaskOK
<1>3. task'[s] = St!Free /\ \A r \in Staff \ {s} : task'[r] = task[r]
  BY <1>0 DEF St!TagSale, St!End
<1>4. Unpaid' = Unpaid
  BY <1>0, <1>3, FreeFacts DEF Unpaid, St!At
<1>5. \A x \in St!Tenders \ {y} : Untagged(x)' = Untagged(x)
  BY <1>0, <1>3, <1>t, FreeFacts DEF Untagged, St!At
<1>6. Untagged(y)' = Untagged(y) \ {s} /\ s \in Untagged(y)
  BY <1>0, <1>3, <1>t, FreeFacts DEF Untagged, St!At
<1>7. Cardinality(Untagged(y)') = Cardinality(Untagged(y)) - 1 /\ Cardinality(Untagged(y)) \in Nat
  BY <1>6, StaffFinite, FS_RemoveElement
<1>8. /\ sales \in [posted : Nat, paid : [St!Tenders -> Nat], tagged : [St!Tenders -> Nat]]
      /\ \A x \in St!Tenders : sales.tagged[x] + Cardinality(Untagged(x)) =< sales.paid[x]
      /\ sales.paid["cash"] + sales.paid["mpesa"] + Cardinality(Unpaid) =< sales.posted
  BY DEF StockInv, TillOK
<1>9. sales' = [sales EXCEPT !.tagged[y] = @ + 1]
  BY <1>t DEF St!TagSale
<1>10. /\ sales'.posted = sales.posted /\ sales'.paid = sales.paid
       /\ sales'.tagged[y] = sales.tagged[y] + 1
       /\ \A x \in St!Tenders \ {y} : sales'.tagged[x] = sales.tagged[x]
       /\ sales' \in [posted : Nat, paid : [St!Tenders -> Nat], tagged : [St!Tenders -> Nat]]
  BY <1>8, <1>9
<1>11. sales.paid[y] \in Nat /\ sales.tagged[y] \in Nat
  BY <1>8
<1>12. sales'.tagged[y] + Cardinality(Untagged(y)') =< sales'.paid[y]
  BY <1>7, <1>8, <1>10, <1>11
<1>13. \A x \in St!Tenders : sales'.tagged[x] + Cardinality(Untagged(x)') =< sales'.paid[x]
  BY <1>5, <1>8, <1>10, <1>12
<1> QED BY <1>1, <1>2, <1>4, <1>8, <1>10, <1>13 DEF StockInv, TillOK

-----------------------------------------------------------------------------
(* The invariant *)

(* Shelves, till and tasks agree at first. *)
LEMMA StockStart == ASSUME LotsOK, St!Init PROVE StockInv
<1>1. StoreOK
  <2>1. \A i \in St!Items : items[i] = [onHand |-> 0, available |-> 0, cost |-> 0]
    BY DEF St!Init
  <2>2. DOMAIN items = St!Items /\ shelf \in [St!Items -> [St!Sites -> Int]] /\ area \in Areas
    BY DEF St!Init
  <2>3. sites \in Seq(St!Sites) /\ defaults \subseteq St!Sites
    BY DEF St!Init
  <2> QED BY <2>1, <2>2, <2>3 DEF StoreOK, Columns
<1>2. TasksOK
  <2>1. TaskOK(St!Free)
    BY FreeFacts DEF TaskOK
  <2> QED BY <2>1 DEF St!Init, TasksOK
<1>3. ShelvesOK
  BY DEF St!Init, ShelvesOK, St!Sites
<1>4. TillOK
  <2>1. Unpaid = {} /\ \A t : Untagged(t) = {}
    BY FreeFacts DEF St!Init, Unpaid, Untagged, St!At
  <2>2. Cardinality(Unpaid) = 0 /\ \A t : Cardinality(Untagged(t)) = 0
    BY <2>1, FS_EmptySet
  <2>3. sales = [posted |-> 0, paid |-> [t \in St!Tenders |-> 0], tagged |-> [t \in St!Tenders |-> 0]]
    BY DEF St!Init
  <2>4. sales.posted = 0 /\ \A t \in St!Tenders : sales.paid[t] = 0 /\ sales.tagged[t] = 0
    BY <2>3
  <2>5. sales \in [posted : Nat, paid : [St!Tenders -> Nat], tagged : [St!Tenders -> Nat]]
    BY <2>3
  <2>6. sales.paid["cash"] = 0 /\ sales.paid["mpesa"] = 0
    BY <2>4 DEF St!Tenders
  <2> QED BY <2>2, <2>4, <2>5, <2>6 DEF TillOK
<1> QED BY <1>1, <1>2, <1>3, <1>4 DEF StockInv

(* What is bought is an item of the shop. *)
LEMMA BoughtItem == St!Bought \in St!Items
  BY DEF St!Bought, St!Items

(* Every step keeps the invariant of the stock. *)
LEMMA StockStep ==
  ASSUME LotsOK, CountedAlone, StockInv, [St!Next]_St!vars
  PROVE  StockInv'
<1>1. CASE UNCHANGED St!vars
  <2>1. /\ items' = items /\ shelf' = shelf /\ area' = area /\ UNCHANGED St!houses
        /\ task' = task /\ sales' = sales
    BY <1>1 DEF St!vars, St!houses
  <2>2. StoreOK' /\ ShelvesOK'
    BY <2>1, ShelfStays, Waits DEF StockInv
  <2> QED BY <2>1, <2>2, TasksStay, TillStays DEF StockInv
<1>2. CASE St!CreateWorkOrder \/ St!OpenSession
  <2>1. /\ items' = items /\ shelf' = shelf /\ area' = area /\ UNCHANGED St!houses
        /\ task' = task /\ sales' = sales
    BY <1>2 DEF St!CreateWorkOrder, St!OpenSession, St!SetOrder, St!stock, St!till
  <2>2. StoreOK' /\ ShelvesOK'
    BY <2>1, ShelfStays, Waits DEF StockInv
  <2> QED BY <2>1, <2>2, TasksStay, TillStays DEF StockInv
<1>3. ASSUME NEW s \in Staff, St!Work(s) PROVE StockInv'
  <2>1. ASSUME NEW lot \in Lots, NEW n \in St!Named, NEW w \in St!Sites, St!Receive(s, St!Bought, lot, n, w)
        PROVE  StockInv'
    BY <2>1, BoughtItem, ReceiveStep
  <2>2. CASE St!CheckIssue(s)
    BY <2>2, CheckStep
  <2>3. CASE \/ \E q \in 1..2, n \in St!Named : St!StartIssue(s, "part", q, n)
             \/ \E q \in 0..2 : St!StartAdjust(s, "part", q)
             \/ \E from, to \in St!Known : St!StartTransfer(s, "part", from, to, 1)
             \/ St!StartStart(s) \/ St!StartComplete(s) \/ St!StartCancel(s)
             \/ \E t \in St!Tenders : St!StartSale(s, t)
             \/ St!StartClose(s)
    BY <2>3, ReaderSteps
  <2>4. CASE St!Transfer(s)
    BY <2>4, TransferStep
  <2>5. CASE St!InsertWarehouse(s) \/ \E w \in St!Sites, flag \in BOOLEAN : St!StartWarehouse(s, w, flag)
    BY <2>5, WarehouseSteps
  <2>6. ASSUME NEW w \in St!Sites, St!Issue(s, w) \/ St!StartWorkOrder(s, w) PROVE StockInv'
    BY <2>6, IssueSteps
  <2>7. ASSUME NEW w \in St!Sites, St!Adjust(s, w) PROVE StockInv'
    BY <2>7, AdjustStep
  <2>8. ASSUME NEW w \in St!Sites, St!CompleteWorkOrder(s, w) PROVE StockInv'
    BY <2>8, CompleteStep
  <2>9. ASSUME NEW w \in St!Sites, St!PostSale(s, w) PROVE StockInv'
    BY <2>9, PostStep
  <2>10. CASE St!PaySale(s) \/ St!TagSale(s)
    BY <2>10, PayStep, TagStep
  <2>11. CASE St!CancelWorkOrder(s) \/ St!CloseSession(s) \/ St!Stop(s)
    BY <2>11, EndSteps
  <2> QED BY <1>3, <2>1, <2>2, <2>3, <2>4, <2>5, <2>6, <2>7, <2>8, <2>9, <2>10, <2>11 DEF St!Work
<1> QED BY <1>1, <1>2, <1>3 DEF St!Next

(* The sums of the properties have two terms. *)
LEMMA PairSum ==
  ASSUME NEW f, NEW a, NEW b, a # b, f[a] \in Int, f[b] \in Int
  PROVE  Sum(f, {a, b}) = f[a] + f[b]
<1>1. Summable(f, {a, b}) /\ Summable(f, {b})
  BY FS_EmptySet, FS_AddElement, FS_Singleton, FS_Subset DEF Summable
<1>2. {a, b} \ {a} = {b} /\ {b} \ {b} = {}
  OBVIOUS
<1>3. Sum(f, {a, b}) = f[a] + Sum(f, {b})
  BY <1>1, <1>2, SumRemove
<1>4. Sum(f, {b}) = f[b] + 0
  BY <1>1, <1>2, SumEmpty, SumRemove
<1> QED BY <1>3, <1>4

(* The sum over sites is that over the two warehouses, *)
LEMMA SitesSum ==
  ASSUME NEW i \in St!Items, StoreOK
  PROVE  St!MapThenSumSet(LAMBDA w : shelf[i][w], St!Sites) = shelf[i]["MAIN"] + shelf[i]["DEPOT"]
<1>1. St!MapThenSumSet(LAMBDA w : shelf[i][w], St!Sites) = Sum(shelf[i], St!Sites)
  BY DEF St!MapThenSumSet, St!MapThenFoldSet, Sum, SumFunctionOnSet, FoldFunctionOnSet,
     MapThenFoldSet
<1>2. shelf[i]["MAIN"] \in Int /\ shelf[i]["DEPOT"] \in Int
  BY DEF StoreOK, St!Sites
<1>3. Sum(shelf[i], {"MAIN", "DEPOT"}) = shelf[i]["MAIN"] + shelf[i]["DEPOT"]
  BY <1>2, PairSum
<1> QED BY <1>1, <1>3 DEF St!Sites

(* and the sum over tenders that over cash and mobile money. *)
LEMMA TendersSum ==
  ASSUME TillOK
  PROVE  St!MapThenSumSet(LAMBDA t : sales.paid[t], St!Tenders) = sales.paid["cash"] + sales.paid["mpesa"]
<1>1. St!MapThenSumSet(LAMBDA t : sales.paid[t], St!Tenders) = Sum(sales.paid, St!Tenders)
  BY DEF St!MapThenSumSet, St!MapThenFoldSet, Sum, SumFunctionOnSet, FoldFunctionOnSet,
     MapThenFoldSet
<1>2. sales.paid["cash"] \in Int /\ sales.paid["mpesa"] \in Int
  BY DEF TillOK, St!Tenders
<1>3. Sum(sales.paid, {"cash", "mpesa"}) = sales.paid["cash"] + sales.paid["mpesa"]
  BY <1>2, PairSum
<1> QED BY <1>1, <1>3 DEF St!Tenders

(* What is promised of shelves and till follows from the invariant. *)
LEMMA StockHolds == ASSUME LotsOK, StockInv PROVE St!ShelvesAddUp /\ St!TakingsDeposited
<1>1. StoreOK /\ ShelvesOK /\ TillOK
  BY DEF StockInv
<1>2. St!ShelvesAddUp
  BY <1>1, SitesSum DEF St!ShelvesAddUp, ShelvesOK
<1>3. ASSUME NEW t \in St!Tenders PROVE St!Tagged(t) =< sales.paid[t]
  <2>1. Cardinality(Untagged(t)) \in Nat /\ sales.tagged[t] \in Nat /\ sales.paid[t] \in Nat
        /\ sales.tagged[t] + Cardinality(Untagged(t)) =< sales.paid[t]
    BY <1>1, StaffFinite DEF TillOK
  <2> QED BY <2>1 DEF St!Tagged
<1>4. St!MapThenSumSet(LAMBDA t : sales.paid[t], St!Tenders) =< sales.posted
  <2>1. Cardinality(Unpaid) \in Nat /\ sales.paid["cash"] \in Nat /\ sales.paid["mpesa"] \in Nat
        /\ sales.posted \in Nat /\ sales.paid["cash"] + sales.paid["mpesa"] + Cardinality(Unpaid) =< sales.posted
    BY <1>1, StaffFinite DEF TillOK, St!Tenders
  <2>2. sales.paid["cash"] + sales.paid["mpesa"] =< sales.posted
    BY <2>1
  <2> QED BY <1>1, <2>2, TendersSum
<1> QED BY <1>2, <1>3, <1>4 DEF St!TakingsDeposited

(* Whatever receipts, issues, transfers, orders and sales overlap or stop  *)
(* half way, the warehouses add up to what is on hand, and the shift never *)
(* knows of takings that were not paid.                                    *)
THEOREM ShelvesHold == LotsOK /\ CountedAlone => (St!Spec => [](St!ShelvesAddUp /\ St!TakingsDeposited))
<1> SUFFICES ASSUME LotsOK, CountedAlone PROVE St!Spec => [](St!ShelvesAddUp /\ St!TakingsDeposited)
  OBVIOUS
<1>1. St!Init => StockInv
  BY StockStart
<1>2. StockInv /\ [St!Next]_St!vars => StockInv'
  BY StockStep
<1>3. StockInv => St!ShelvesAddUp /\ St!TakingsDeposited
  BY StockHolds
<1> QED BY <1>1, <1>2, <1>3, PTL DEF St!Spec

(* A closed shift is not written again, whoever closes it at once. *)
LEMMA StepKeepsShift ==
  ASSUME [St!Next]_St!vars, session.status = "closed"
  PROVE  session' = session
<1>1. CASE UNCHANGED St!vars
  BY <1>1 DEF St!vars
<1>2. CASE St!CreateWorkOrder \/ St!OpenSession
  BY <1>2 DEF St!CreateWorkOrder, St!OpenSession, St!SetOrder, St!till
<1>3. ASSUME NEW s \in Staff, St!Work(s) PROVE session' = session
  <2>1. CASE St!CloseSession(s)
    BY <2>1 DEF St!CloseSession
  <2>2. CASE \E lot \in Lots, n \in St!Named, w \in St!Sites : St!Receive(s, St!Bought, lot, n, w)
    BY <2>2 DEF St!Receive, St!till
  <2>3. CASE St!CheckIssue(s) \/ St!Transfer(s) \/ St!InsertWarehouse(s)
             \/ \E w \in St!Sites, flag \in BOOLEAN : St!StartWarehouse(s, w, flag)
    BY <2>3 DEF St!CheckIssue, St!Transfer, St!InsertWarehouse, St!StartWarehouse, St!till
  <2>4. CASE \/ \E q \in 1..2, n \in St!Named : St!StartIssue(s, "part", q, n)
             \/ \E q \in 0..2 : St!StartAdjust(s, "part", q)
             \/ \E from, to \in St!Known : St!StartTransfer(s, "part", from, to, 1)
             \/ St!StartStart(s) \/ St!StartComplete(s) \/ St!StartCancel(s)
             \/ \E t \in St!Tenders : St!StartSale(s, t)
             \/ St!StartClose(s)
    BY <2>4 DEF St!StartIssue, St!StartAdjust, St!StartTransfer, St!StartStart, St!StartComplete,
       St!StartCancel,
                St!StartSale, St!StartClose, St!Begin, St!till
  <2>5. CASE \E w \in St!Sites : \/ St!Issue(s, w) \/ St!Adjust(s, w)
                                 \/ St!StartWorkOrder(s, w) \/ St!CompleteWorkOrder(s, w) \/ St!PostSale(s, w)
    BY <2>5 DEF St!Issue, St!Adjust, St!StartWorkOrder, St!CompleteWorkOrder, St!PostSale,
       St!SetOrder, St!till
  <2>6. CASE St!CancelWorkOrder(s) \/ St!PaySale(s) \/ St!TagSale(s) \/ St!Stop(s)
    BY <2>6 DEF St!CancelWorkOrder, St!PaySale, St!TagSale, St!Stop, St!SetOrder, St!till
  <2> QED BY <1>3, <2>1, <2>2, <2>3, <2>4, <2>5, <2>6 DEF St!Work
<1> QED BY <1>1, <1>2, <1>3 DEF St!Next

(* The figures of a closed shift are final, for any staff and any overlap. *)
THEOREM ShiftHolds == St!Spec => St!ShiftFinal
<1>1. [St!Next]_St!vars => [session.status = "closed" => session' = session]_St!vars
  BY StepKeepsShift
<1> QED BY <1>1, PTL DEF St!Spec, St!ShiftFinal

-----------------------------------------------------------------------------
(* Requests one at a time: the inductive invariant *)

(* Costs and balances are whole numbers. *)
CostsOK ==
    /\ \A i \in St!Items : items[i].cost \in Int
    /\ gl.wip \in Int /\ wo.material \in Int
    /\ DOMAIN wo = {"status", "material"}
    /\ \A s \in Staff : task[s].cost \in Int

TakingOps == {"issue", "start", "sale"}

(* What a request read still holds when it writes. *)
StillHolds(t) ==
    /\ t.op \in TakingOps /\ t.pc = "commit" => items[t.item].available >= t.qty
    /\ t.op = "adjust" => t.on >= 0
    /\ t.op \in {"start", "cancel"} => wo.status = "draft"
    /\ t.op = "complete" => t.pc = "commit" /\ wo.status = "in_progress" /\ t.cost = wo.material

SoloInv ==
    /\ StockInv /\ CostsOK /\ St!StockCovered /\ St!WipNetsToZero
    /\ \A s \in Staff : StillHolds(task[s])

(* Rounding gives a whole number. *)
LEMMA Rounded == ASSUME NEW a \in Int, NEW b \in Int, b > 0 PROVE St!RoundDiv(a, b) \in Int
<1>1. a \div b \in Int
  OBVIOUS
<1> QED BY <1>1 DEF St!RoundDiv

(* Rounding an integer gives an integer. *)
LEMMA CentsType == ASSUME NEW a \in Int PROVE St!Cents(a) \in Int
  BY Rounded DEF St!Cents, St!Fine

(* The cost of an issue is an integer. *)
LEMMA IssuedType == ASSUME SoloInv, NEW s \in Staff PROVE St!IssuedCost(s) \in Int
<1>1. task[s].qty \in Int /\ task[s].cost \in Int
  BY DEF SoloInv, StockInv, TasksOK, TaskOK, CostsOK
<1>2. task[s].qty * task[s].cost \in Int
  BY <1>1
<1> QED BY <1>2, CentsType DEF St!IssuedCost

(* What a new task claims to have read, and the one task there is. *)
LEMMA OnlyTask ==
  ASSUME OneStaff, StockInv, StockInv', NEW s \in Staff, task'[s].cost \in Int, StillHolds(task[s])'
  PROVE  (\A r \in Staff : StillHolds(task[r]))' /\ \A r \in Staff : task'[r].cost \in Int
<1>1. \A r \in Staff : r = s
  BY DEF OneStaff
<1> QED BY <1>1

(* The task of the one member of staff changes and nothing it is about. *)
LEMMA TaskOnly ==
  ASSUME OneStaff, SoloInv, StockInv', NEW s \in Staff, NEW t, task' = [task EXCEPT ![s] = t],
         items' = items, gl' = gl, wo' = wo, t.cost \in Int, StillHolds(t)
  PROVE  SoloInv'
<1>1. task'[s] = t
  BY DEF SoloInv, StockInv, TasksOK
<1>2. StillHolds(task[s])'
  BY <1>1 DEF StillHolds
<1>3. (\A r \in Staff : StillHolds(task[r]))' /\ \A r \in Staff : task'[r].cost \in Int
  BY <1>1, <1>2, OnlyTask DEF SoloInv
<1>4. CostsOK'
  BY <1>3 DEF SoloInv, CostsOK
<1>5. St!StockCovered' /\ St!WipNetsToZero'
  BY DEF SoloInv, St!StockCovered, St!WipNetsToZero
<1> QED BY <1>3, <1>4, <1>5 DEF SoloInv

(* A free hand has read nothing. *)
LEMMA FreeReads == StillHolds(St!Free) /\ StillHolds(St!Free)' /\ St!Free.cost \in Int
  BY FreeFacts DEF StillHolds, TakingOps

(* It ends. *)
LEMMA EndOnly ==
  ASSUME OneStaff, SoloInv, StockInv', NEW s \in Staff, St!End(s), CostsOK', St!StockCovered', St!WipNetsToZero'
  PROVE  SoloInv'
<1>1. task'[s] = St!Free
  BY DEF SoloInv, StockInv, TasksOK, St!End
<1>2. StillHolds(task[s])'
  BY <1>1, FreeReads DEF StillHolds
<1>3. (\A r \in Staff : StillHolds(task[r]))'
  BY <1>1, <1>2, FreeReads, OnlyTask DEF SoloInv
<1> QED BY <1>3 DEF SoloInv

(* Costs stay integers when a task ends. *)
LEMMA EndCost ==
  ASSUME OneStaff, SoloInv, NEW s \in Staff, St!End(s) PROVE \A r \in Staff : task'[r].cost \in Int
<1>1. task'[s] = St!Free /\ \A r \in Staff : r = s
  BY DEF SoloInv, StockInv, TasksOK, St!End, OneStaff
<1> QED BY <1>1, FreeReads

-----------------------------------------------------------------------------
(* Requests one at a time: steps *)

(* The only person's new task has read what still holds. *)
LEMMA BeginOnly ==
  ASSUME OneStaff, SoloInv, StockInv', NEW s \in Staff, NEW t, St!Begin(s, t), t.cost \in Int, StillHolds(t)
  PROVE  SoloInv'
  BY TaskOnly DEF St!Begin, St!stock

(* Requests that begin keep the invariant of one person alone, *)
LEMMA StartsOnly ==
  ASSUME LotsOK, OneStaff, SoloInv, StockInv', NEW s \in Staff,
         \/ \E q \in 1..2, n \in St!Named : St!StartIssue(s, "part", q, n)
         \/ \E q \in 0..2 : St!StartAdjust(s, "part", q)
         \/ \E from, to \in St!Known : St!StartTransfer(s, "part", from, to, 1)
         \/ St!StartStart(s) \/ St!StartComplete(s) \/ St!StartCancel(s)
         \/ \E t \in St!Tenders : St!StartSale(s, t)
         \/ St!StartClose(s)
  PROVE  SoloInv'
<1>0. "part" \in St!Items /\ items["part"].cost \in Int /\ wo.material \in Int
  BY DEF SoloInv, CostsOK, St!Items
<1>1. ASSUME NEW q \in 1..2, NEW n \in St!Named, St!StartIssue(s, "part", q, n) PROVE SoloInv'
  <2>1. PICK t : t = [St!Request("issue", "check") EXCEPT !.item = "part", !.qty = q, !.site = n]
    OBVIOUS
  <2>2. t.op = "issue" /\ t.pc = "check" /\ t.cost = 0
    BY <2>1, RequestFacts DEF Fields
  <2>3. St!Begin(s, t)
    BY <1>1, <2>1 DEF St!StartIssue
  <2> QED BY <2>2, <2>3, BeginOnly DEF StillHolds
<1>2. ASSUME NEW q \in 0..2, St!StartAdjust(s, "part", q) PROVE SoloInv'
  <2>1. PICK t : t = [St!Request("adjust", "commit") EXCEPT
                        !.item = "part", !.on = q, !.qty = q - items["part"].onHand,
                        !.cost = items["part"].cost]
    OBVIOUS
  <2>2. t.op = "adjust" /\ t.on = q /\ t.cost = items["part"].cost
    BY <2>1, RequestFacts DEF Fields
  <2>3. St!Begin(s, t)
    BY <1>2, <2>1 DEF St!StartAdjust
  <2> QED BY <1>0, <2>2, <2>3, BeginOnly DEF StillHolds, TakingOps
<1>3. ASSUME NEW from \in St!Known, NEW to \in St!Known, St!StartTransfer(s, "part", from, to, 1)
      PROVE  SoloInv'
  <2>1. PICK t : t = [St!Request("transfer", "commit") EXCEPT
                        !.item = "part", !.qty = 1, !.site = from, !.to = to]
    OBVIOUS
  <2>2. t.op = "transfer" /\ t.cost = 0
    BY <2>1, RequestFacts DEF Fields
  <2>3. St!Begin(s, t)
    BY <1>3, <2>1 DEF St!StartTransfer
  <2> QED BY <2>2, <2>3, BeginOnly DEF StillHolds, TakingOps
<1>4. CASE St!StartStart(s)
  <2>1. PICK t : t = [St!Request("start", "check") EXCEPT !.item = "part", !.qty = PartsPer]
    OBVIOUS
  <2>2. t.op = "start" /\ t.pc = "check" /\ t.cost = 0
    BY <2>1, RequestFacts DEF Fields
  <2>3. St!Begin(s, t) /\ wo.status = "draft"
    BY <1>4, <2>1 DEF St!StartStart
  <2> QED BY <2>2, <2>3, BeginOnly DEF StillHolds
<1>5. CASE St!StartComplete(s)
  <2>1. PICK t : t = [St!Request("complete", "commit") EXCEPT !.cost = wo.material]
    OBVIOUS
  <2>2. t.op = "complete" /\ t.pc = "commit" /\ t.cost = wo.material
    BY <2>1, RequestFacts DEF Fields
  <2>3. St!Begin(s, t) /\ wo.status = "in_progress"
    BY <1>5, <2>1 DEF St!StartComplete
  <2> QED BY <1>0, <2>2, <2>3, BeginOnly DEF StillHolds, TakingOps
<1>6. CASE St!StartCancel(s)
  <2>1. St!Request("cancel", "commit").op = "cancel" /\ St!Request("cancel", "commit").cost = 0
    BY RequestFacts
  <2>2. St!Begin(s, St!Request("cancel", "commit")) /\ wo.status = "draft"
    BY <1>6 DEF St!StartCancel
  <2>3. StillHolds(St!Request("cancel", "commit"))
    BY <2>1, <2>2 DEF StillHolds, TakingOps
  <2> QED BY <2>1, <2>2, <2>3, BeginOnly
<1>7. ASSUME NEW x \in St!Tenders, St!StartSale(s, x) PROVE SoloInv'
  <2>1. PICK t : t = [St!Request("sale", "check") EXCEPT !.item = "good", !.qty = 1, !.tender = x]
    OBVIOUS
  <2>2. t.op = "sale" /\ t.pc = "check" /\ t.cost = 0
    BY <2>1, RequestFacts DEF Fields
  <2>3. St!Begin(s, t)
    BY <1>7, <2>1 DEF St!StartSale
  <2> QED BY <2>2, <2>3, BeginOnly DEF StillHolds
<1>8. CASE St!StartClose(s)
  <2>1. PICK t : t = [St!Request("close", "commit") EXCEPT !.on = St!ExpectedCash]
    OBVIOUS
  <2>2. t.op = "close" /\ t.cost = 0
    BY <2>1, RequestFacts DEF Fields
  <2>3. St!Begin(s, t)
    BY <1>8, <2>1 DEF St!StartClose
  <2> QED BY <2>2, <2>3, BeginOnly DEF StillHolds, TakingOps
<1> QED BY <1>1, <1>2, <1>3, <1>4, <1>5, <1>6, <1>7, <1>8

(* Nothing a property of one request at a time is about changes. *)
LEMMA QuietOnly ==
  ASSUME OneStaff, SoloInv, StockInv', NEW s \in Staff,
         \/ St!Transfer(s) \/ St!InsertWarehouse(s) \/ St!CloseSession(s) \/ St!TagSale(s) \/ St!Stop(s)
         \/ St!CancelWorkOrder(s)
  PROVE  SoloInv'
<1>1. St!End(s) /\ items' = items /\ gl' = gl
  BY DEF St!Transfer, St!InsertWarehouse, St!CloseSession, St!TagSale, St!Stop,
     St!CancelWorkOrder, St!stock
<1>2. \/ wo' = wo
      \/ task[s].op = "cancel" /\ wo' = [wo EXCEPT !.status = "cancelled"]
  BY DEF St!Transfer, St!InsertWarehouse, St!CloseSession, St!TagSale, St!Stop,
     St!CancelWorkOrder, St!SetOrder, St!At
<1>3. StillHolds(task[s]) /\ DOMAIN wo = {"status", "material"} /\ wo.material \in Int
  BY DEF SoloInv, CostsOK
<1>4. St!WipNetsToZero' /\ wo'.material \in Int /\ DOMAIN wo' = {"status", "material"}
  <2>1. CASE wo' = wo
    BY <1>1, <1>3, <2>1 DEF SoloInv, St!WipNetsToZero
  <2>2. CASE task[s].op = "cancel" /\ wo' = [wo EXCEPT !.status = "cancelled"]
    <3>1. wo.status = "draft" /\ wo'.status = "cancelled" /\ wo'.material = wo.material
          /\ DOMAIN wo' = {"status", "material"}
      BY <1>3, <2>2 DEF StillHolds
    <3> QED BY <1>1, <1>3, <3>1 DEF SoloInv, St!WipNetsToZero
  <2> QED BY <1>2, <2>1, <2>2
<1>5. CostsOK'
  BY <1>1, <1>4, EndCost DEF SoloInv, CostsOK
<1>6. St!StockCovered'
  BY <1>1 DEF SoloInv, St!StockCovered
<1> QED BY <1>1, <1>4, <1>5, <1>6, EndOnly

(* as do the check before an issue, *)
LEMMA CheckOnly ==
  ASSUME OneStaff, SoloInv, StockInv', NEW s \in Staff, St!CheckIssue(s)
  PROVE  SoloInv'
<1>0. /\ items' = items /\ gl' = gl /\ wo' = wo /\ DOMAIN task = Staff /\ TaskOK(task[s])
      /\ StillHolds(task[s]) /\ task[s].cost \in Int
  BY DEF St!CheckIssue, St!stock, SoloInv, StockInv, TasksOK, CostsOK
<1>1. CASE St!End(s)
  BY <1>0, <1>1, TaskOnly, FreeReads DEF St!End
<1>2. CASE St!Enough(s) /\ task' = [task EXCEPT ![s].pc = "commit", ![s].cost = items[task[s].item].cost]
  <2>1. PICK t : t = [task[s] EXCEPT !.pc = "commit", !.cost = items[task[s].item].cost]
    OBVIOUS
  <2>2. task' = [task EXCEPT ![s] = t]
    BY <1>0, <1>2, <2>1
  <2>3. /\ t.pc = "commit" /\ t.op = task[s].op /\ t.item = task[s].item /\ t.qty = task[s].qty
        /\ t.on = task[s].on /\ t.cost = items[task[s].item].cost
    BY <1>0, <2>1 DEF TaskOK, Fields
  <2>4. t.cost \in Int
    BY <1>0, <2>3 DEF TaskOK, SoloInv, CostsOK
  <2>5. task[s].pc = "check" /\ items[t.item].available >= t.qty
    BY <1>2, <2>3 DEF St!CheckIssue, St!Enough
  <2>6. task[s].op # "complete"
    BY <1>0, <2>5 DEF StillHolds
  <2>7. StillHolds(t)
    BY <1>0, <2>3, <2>5, <2>6 DEF StillHolds
  <2> QED BY <1>0, <2>2, <2>4, <2>7, TaskOnly
<1> QED BY <1>1, <1>2 DEF St!CheckIssue

(* Only the sale moves on. *)
LEMMA PayOnly ==
  ASSUME OneStaff, SoloInv, StockInv', NEW s \in Staff, St!PaySale(s)
  PROVE  SoloInv'
<1>0. /\ items' = items /\ gl' = gl /\ wo' = wo /\ DOMAIN task = Staff /\ TaskOK(task[s])
      /\ task[s].cost \in Int /\ task[s].op = "sale"
  BY DEF St!PaySale, St!At, St!stock, SoloInv, StockInv, TasksOK, CostsOK
<1>1. PICK t : t = [task[s] EXCEPT !.pc = "tag"]
  OBVIOUS
<1>2. task' = [task EXCEPT ![s] = t]
  BY <1>0, <1>1 DEF St!PaySale, St!Goto
<1>3. t.pc = "tag" /\ t.op = "sale" /\ t.cost = task[s].cost
  BY <1>0, <1>1 DEF TaskOK, Fields
<1>4. StillHolds(t)
  BY <1>3 DEF StillHolds
<1> QED BY <1>0, <1>2, <1>3, <1>4, TaskOnly

(* a new warehouse, *)
LEMMA WarehouseOnly ==
  ASSUME OneStaff, SoloInv, StockInv', NEW s \in Staff, NEW w \in St!Sites, NEW flag \in BOOLEAN,
         St!StartWarehouse(s, w, flag)
  PROVE  SoloInv'
<1>1. PICK n : n = IF flag \/ sites = <<>> THEN 1 ELSE 0
  OBVIOUS
<1>2. PICK t : t = [St!Request("warehouse", "insert") EXCEPT !.site = w, !.on = n]
  OBVIOUS
<1>3. t.op = "warehouse" /\ t.cost = 0
  BY <1>2, RequestFacts DEF Fields
<1>4. task' = [task EXCEPT ![s] = t] /\ items' = items /\ gl' = gl /\ wo' = wo
  BY <1>1, <1>2 DEF St!StartWarehouse, St!stock
<1>5. StillHolds(t) /\ t.cost \in Int
  BY <1>3 DEF StillHolds, TakingOps
<1> QED BY <1>4, <1>5, TaskOnly

(* A receipt comes in while the one member of staff has no other request.  *)
LEMMA ReceiveOnly ==
  ASSUME LotsOK, OneStaff, SoloInv, StockInv', NEW s \in Staff, NEW i \in St!Items, NEW lot \in Lots,
         NEW n \in St!Named, NEW w \in St!Sites, St!Receive(s, i, lot, n, w)
  PROVE  SoloInv'
<1>1. PICK q, c : q = lot[1] /\ c = lot[2]
  OBVIOUS
<1>2. q \in Nat /\ q > 0 /\ c \in Nat
  BY <1>1 DEF LotsOK
<1>3. /\ DOMAIN items = St!Items /\ items[i].onHand \in Int /\ items[i].cost \in Int
      /\ items[i].onHand >= 0 /\ items[i].available = items[i].onHand
  BY DEF SoloInv, StockInv, StoreOK, CostsOK, St!StockCovered
<1>4. PICK a : a = St!Averaged(items[i], q, c)
  OBVIOUS
<1>5. a \in Int
  <2>1. items[i].onHand * items[i].cost + q * c \in Int /\ items[i].onHand + q \in Int
        /\ items[i].onHand + q > 0
    BY <1>2, <1>3
  <2> QED BY <1>4, <2>1, Rounded DEF St!Averaged
<1>6. items' = [items EXCEPT ![i] = [onHand |-> items[i].onHand + q, available |-> items[i].available + q,
                                     cost |-> a]]
  BY <1>1, <1>4 DEF St!Receive, St!Received
<1>7. /\ items'[i].onHand = items[i].onHand + q /\ items'[i].available = items[i].available + q
      /\ items'[i].cost = a /\ \A j \in St!Items \ {i} : items'[j] = items[j]
  BY <1>3, <1>6
<1>8. gl'.wip = gl.wip + 0 /\ wo' = wo /\ task' = task /\ task[s].op = "free"
  BY DEF St!Receive, St!Post
<1>9. CostsOK'
  BY <1>5, <1>7, <1>8 DEF SoloInv, CostsOK
<1>10. St!StockCovered'
  <2>1. items'[i].onHand >= 0 /\ items'[i].available = items'[i].onHand
    BY <1>2, <1>3, <1>7
  <2> QED BY <1>7, <2>1 DEF SoloInv, St!StockCovered
<1>11. St!WipNetsToZero'
  <2>1. gl'.wip = gl.wip
    BY <1>8 DEF SoloInv, CostsOK
  <2> QED BY <1>8, <2>1 DEF SoloInv, St!WipNetsToZero
<1>12. StillHolds(task[s])'
  BY <1>8 DEF StillHolds, TakingOps
<1>13. task'[s].cost \in Int
  BY <1>8 DEF SoloInv, CostsOK
<1>14. StockInv
  BY DEF SoloInv
<1> QED BY <1>9, <1>10, <1>11, <1>12, <1>13, <1>14, OnlyTask DEF SoloInv

(* What was read as available is still there. *)
LEMMA TakeCovered ==
  ASSUME SoloInv, NEW s \in Staff, NEW w \in St!Sites, St!Take(s, w), task[s].op \in TakingOps, task[s].pc = "commit"
  PROVE  St!StockCovered' /\ \A i \in St!Items : items'[i].cost \in Int
<1>0. DOMAIN task = Staff /\ StoreOK /\ TaskOK(task[s]) /\ StillHolds(task[s])
  BY DEF SoloInv, StockInv, TasksOK
<1>1. PICK i, q : i = task[s].item /\ q = task[s].qty
  OBVIOUS
<1>2. i \in St!Items /\ q \in Int /\ items[i].available >= q
  BY <1>0, <1>1 DEF TaskOK, StillHolds
<1>3. items' = [items EXCEPT ![i].onHand = @ - q, ![i].available = @ - q]
  BY <1>1 DEF St!Take
<1>4. /\ \A j \in St!Items \ {i} : items'[j] = items[j]
      /\ items'[i].onHand = items[i].onHand - q /\ items'[i].available = items[i].available - q
      /\ items'[i].cost = items[i].cost
  BY <1>0, <1>2, <1>3 DEF StoreOK, Columns
<1>5. /\ items[i].onHand \in Int /\ items[i].available \in Int
      /\ items[i].onHand >= 0 /\ items[i].available = items[i].onHand /\ items[i].cost \in Int
  BY <1>0, <1>2 DEF StoreOK, SoloInv, St!StockCovered, CostsOK
<1>6. items'[i].onHand >= 0 /\ items'[i].available = items'[i].onHand
  BY <1>2, <1>4, <1>5
<1>7. \A j \in St!Items : items'[j].cost \in Int
  BY <1>4, <1>5 DEF SoloInv, CostsOK
<1> QED BY <1>4, <1>6, <1>7 DEF SoloInv, St!StockCovered

(* the issue itself, *)
LEMMA IssueOnly ==
  ASSUME OneStaff, SoloInv, StockInv', NEW s \in Staff, NEW w \in St!Sites, St!Issue(s, w)
  PROVE  SoloInv'
<1>1. /\ St!Take(s, w) /\ St!End(s) /\ wo' = wo /\ gl'.wip = gl.wip + 0
      /\ task[s].op \in TakingOps /\ task[s].pc = "commit"
  BY DEF St!Issue, St!Post, St!At, TakingOps
<1>2. St!StockCovered' /\ \A i \in St!Items : items'[i].cost \in Int
  BY <1>1, TakeCovered
<1>3. gl'.wip = gl.wip /\ gl.wip \in Int
  BY <1>1 DEF SoloInv, CostsOK
<1>4. St!WipNetsToZero'
  BY <1>1, <1>3 DEF SoloInv, St!WipNetsToZero
<1>5. CostsOK'
  BY <1>1, <1>2, <1>3, EndCost DEF SoloInv, CostsOK
<1> QED BY <1>1, <1>2, <1>4, <1>5, EndOnly

(* the posting of a sale, *)
LEMMA PostOnly ==
  ASSUME OneStaff, SoloInv, StockInv', NEW s \in Staff, NEW w \in St!Sites, St!PostSale(s, w)
  PROVE  SoloInv'
<1>0. DOMAIN task = Staff /\ TaskOK(task[s]) /\ task[s].op = "sale" /\ task[s].cost \in Int /\ StockInv
  BY DEF St!PostSale, St!At, SoloInv, StockInv, TasksOK, CostsOK
<1>1. /\ St!Take(s, w) /\ wo' = wo /\ gl'.wip = gl.wip + 0
      /\ task[s].op \in TakingOps /\ task[s].pc = "commit"
  BY DEF St!PostSale, St!Post, St!At, TakingOps
<1>2. St!StockCovered' /\ \A i \in St!Items : items'[i].cost \in Int
  BY <1>1, TakeCovered
<1>3. gl'.wip = gl.wip /\ gl.wip \in Int
  BY <1>1 DEF SoloInv, CostsOK
<1>4. St!WipNetsToZero'
  BY <1>1, <1>3 DEF SoloInv, St!WipNetsToZero
<1>5. PICK t : t = [task[s] EXCEPT !.pc = "pay"]
  OBVIOUS
<1>6. task' = [task EXCEPT ![s] = t]
  BY <1>0, <1>5 DEF St!PostSale, St!Goto
<1>7. task'[s] = t /\ t.pc = "pay" /\ t.op = "sale" /\ t.cost = task[s].cost
  BY <1>0, <1>5, <1>6 DEF TaskOK, Fields
<1>8. StillHolds(task[s])' /\ task'[s].cost \in Int
  BY <1>0, <1>7 DEF StillHolds
<1>9. (\A r \in Staff : StillHolds(task[r]))' /\ \A r \in Staff : task'[r].cost \in Int
  BY <1>0, <1>8, OnlyTask
<1>10. CostsOK'
  BY <1>1, <1>2, <1>3, <1>9 DEF SoloInv, CostsOK
<1> QED BY <1>2, <1>4, <1>9, <1>10 DEF SoloInv

(* The material goes into WIP, which was empty. *)
LEMMA StartOnly ==
  ASSUME OneStaff, SoloInv, StockInv', NEW s \in Staff, NEW w \in St!Sites, St!StartWorkOrder(s, w)
  PROVE  SoloInv'
<1>1. PICK c : c = St!IssuedCost(s)
  OBVIOUS
<1>2. c \in Int
  BY <1>1, IssuedType
<1>3. /\ St!Take(s, w) /\ St!End(s) /\ gl'.wip = gl.wip + c
      /\ wo' = [status |-> "in_progress", material |-> c]
      /\ task[s].op = "start" /\ task[s].pc = "commit"
  BY <1>1 DEF St!StartWorkOrder, St!Post, St!At, St!SetOrder
<1>4. St!StockCovered' /\ \A i \in St!Items : items'[i].cost \in Int
  BY <1>3, TakeCovered DEF TakingOps
<1>5. wo.status = "draft"
  BY <1>3 DEF SoloInv, StillHolds
<1>6. gl.wip = 0
  BY <1>5 DEF SoloInv, St!WipNetsToZero
<1>7. gl'.wip = c
  BY <1>2, <1>3, <1>6
<1>8. wo'.status = "in_progress" /\ wo'.material = c /\ DOMAIN wo' = {"status", "material"}
  BY <1>3
<1>9. St!WipNetsToZero'
  BY <1>7, <1>8 DEF St!WipNetsToZero
<1>10. CostsOK'
  BY <1>2, <1>3, <1>4, <1>7, <1>8, EndCost DEF CostsOK
<1> QED BY <1>3, <1>4, <1>9, <1>10, EndOnly

(* and an adjustment to what was counted. *)
LEMMA AdjustOnly ==
  ASSUME OneStaff, SoloInv, StockInv', NEW s \in Staff, NEW w \in St!Sites, St!Adjust(s, w)
  PROVE  SoloInv'
<1>0. DOMAIN task = Staff /\ StoreOK /\ TaskOK(task[s]) /\ StillHolds(task[s])
  BY DEF SoloInv, StockInv, TasksOK
<1>1. PICK i, q, n : i = task[s].item /\ q = task[s].qty /\ n = task[s].on
  OBVIOUS
<1>2. i \in St!Items /\ q \in Int /\ n \in Int /\ q = n - items[i].onHand /\ n >= 0
  BY <1>0, <1>1 DEF TaskOK, StillHolds, St!Adjust, St!At
<1>3. /\ St!End(s) /\ wo' = wo /\ gl'.wip = gl.wip + 0
      /\ items' = [items EXCEPT ![i].onHand = n, ![i].available = @ + q]
  BY <1>1 DEF St!Adjust, St!Post
<1>4. /\ \A j \in St!Items \ {i} : items'[j] = items[j]
      /\ items'[i].onHand = n /\ items'[i].available = items[i].available + q
      /\ items'[i].cost = items[i].cost
  BY <1>0, <1>2, <1>3 DEF StoreOK, Columns
<1>5. items[i].available = items[i].onHand /\ items[i].onHand \in Int
  BY <1>0, <1>2 DEF StoreOK, SoloInv, St!StockCovered
<1>6. items'[i].onHand >= 0 /\ items'[i].available = items'[i].onHand
  BY <1>2, <1>4, <1>5
<1>7. St!StockCovered'
  BY <1>4, <1>6 DEF SoloInv, St!StockCovered
<1>8. gl'.wip = gl.wip /\ gl.wip \in Int
  BY <1>3 DEF SoloInv, CostsOK
<1>9. St!WipNetsToZero'
  BY <1>3, <1>8 DEF SoloInv, St!WipNetsToZero
<1>10. CostsOK'
  BY <1>2, <1>3, <1>4, <1>8, EndCost DEF SoloInv, CostsOK
<1> QED BY <1>3, <1>7, <1>9, <1>10, EndOnly

(* WIP is cleared of the material that was read. *)
LEMMA CompleteOnly ==
  ASSUME LotsOK, OneStaff, SoloInv, StockInv', NEW s \in Staff, NEW w \in St!Sites, St!CompleteWorkOrder(s, w)
  PROVE  SoloInv'
<1>0. DOMAIN task = Staff /\ StoreOK /\ TaskOK(task[s]) /\ StillHolds(task[s]) /\ "good" \in St!Items
  BY DEF SoloInv, StockInv, TasksOK, St!Items
<1>1. PICK m, c : m = task[s].cost /\ c = St!UnitCost(m + Overhead)
  OBVIOUS
<1>2. PICK a : a = St!Averaged(items["good"], Output, c)
  OBVIOUS
<1>3. task[s].op = "complete" /\ m = wo.material /\ wo.status = "in_progress" /\ m \in Int
  BY <1>0, <1>1 DEF St!CompleteWorkOrder, St!At, StillHolds, SoloInv, CostsOK
<1>4. /\ items["good"].onHand \in Int /\ items["good"].cost \in Int
      /\ items["good"].onHand >= 0 /\ items["good"].available = items["good"].onHand
  BY <1>0 DEF SoloInv, StoreOK, CostsOK, St!StockCovered
<1>5. Output \in Int /\ Output > 0 /\ Overhead \in Int
  BY DEF LotsOK
<1>6. c \in Int
  <2>1. (m + Overhead) * St!Fine \in Int
    BY <1>3, <1>5 DEF St!Fine
  <2> QED BY <1>1, <1>5, <2>1, Rounded DEF St!UnitCost
<1>7. a \in Int
  <2>1. items["good"].onHand * items["good"].cost + Output * c \in Int
        /\ items["good"].onHand + Output \in Int /\ items["good"].onHand + Output > 0
    BY <1>4, <1>5, <1>6
  <2> QED BY <1>2, <2>1, Rounded DEF St!Averaged
<1>8. /\ St!End(s) /\ wo' = [wo EXCEPT !.status = "completed"] /\ gl'.wip = gl.wip + (-m)
      /\ items' = [items EXCEPT !["good"] = [onHand |-> items["good"].onHand + Output,
                                              available |-> items["good"].available + Output,
                                              cost |-> a]]
  BY <1>1, <1>2 DEF St!CompleteWorkOrder, St!SetOrder, St!Post, St!Received
<1>9. /\ items'["good"].onHand = items["good"].onHand + Output
      /\ items'["good"].available = items["good"].available + Output /\ items'["good"].cost = a
      /\ \A j \in St!Items \ {"good"} : items'[j] = items[j]
  BY <1>0, <1>8 DEF StoreOK
<1>10. St!StockCovered'
  <2>1. items'["good"].onHand >= 0 /\ items'["good"].available = items'["good"].onHand
    BY <1>4, <1>5, <1>9
  <2> QED BY <1>9, <2>1 DEF SoloInv, St!StockCovered
<1>11. gl.wip = m
  BY <1>3 DEF SoloInv, St!WipNetsToZero
<1>12. gl'.wip = 0
  BY <1>3, <1>8, <1>11
<1>13. DOMAIN wo' = {"status", "material"} /\ wo'.status = "completed" /\ wo'.material \in Int
  BY <1>8 DEF SoloInv, CostsOK
<1>14. St!WipNetsToZero'
  BY <1>12, <1>13 DEF St!WipNetsToZero
<1>15. CostsOK'
  BY <1>7, <1>8, <1>9, <1>12, <1>13, EndCost DEF SoloInv, CostsOK
<1> QED BY <1>8, <1>10, <1>14, <1>15, EndOnly

(* A new order starts with nothing used. *)
LEMMA CreateOnly ==
  ASSUME SoloInv, StockInv', St!CreateWorkOrder
  PROVE  SoloInv'
<1>1. /\ items' = items /\ gl' = gl /\ task' = task /\ wo' = [status |-> "draft", material |-> 0]
      /\ wo.status \in {"none", "cancelled", "completed"}
  BY DEF St!CreateWorkOrder, St!SetOrder, St!stock
<1>2. DOMAIN wo' = {"status", "material"} /\ wo'.status = "draft" /\ wo'.material = 0
  BY <1>1
<1>3. gl.wip = 0
  BY <1>1 DEF SoloInv, St!WipNetsToZero
<1>4. St!WipNetsToZero' /\ St!StockCovered'
  BY <1>1, <1>2, <1>3 DEF SoloInv, St!WipNetsToZero, St!StockCovered
<1>5. CostsOK'
  BY <1>1, <1>2 DEF SoloInv, CostsOK
<1>6. ASSUME NEW s \in Staff PROVE StillHolds(task[s])'
  <2>1. StillHolds(task[s])
    BY DEF SoloInv
  <2> QED BY <1>1, <2>1 DEF StillHolds
<1> QED BY <1>4, <1>5, <1>6 DEF SoloInv

(* The invariant of one person alone holds at first, *)
LEMMA SoloStart == ASSUME LotsOK, St!Init PROVE SoloInv
<1>1. /\ \A i \in St!Items : items[i] = [onHand |-> 0, available |-> 0, cost |-> 0]
      /\ \A s \in Staff : task[s] = St!Free
      /\ gl = [inventory |-> 0, wip |-> 0] /\ wo = [status |-> "none", material |-> 0]
  BY DEF St!Init
<1>2. CostsOK
  BY <1>1, FreeReads DEF CostsOK
<1>3. St!StockCovered /\ St!WipNetsToZero
  BY <1>1 DEF St!StockCovered, St!WipNetsToZero
<1>4. \A s \in Staff : StillHolds(task[s])
  BY <1>1, FreeReads
<1> QED BY <1>2, <1>3, <1>4, StockStart DEF SoloInv

(* and every step keeps it. *)
LEMMA SoloStep ==
  ASSUME LotsOK, OneStaff, SoloInv, [St!Next]_St!vars
  PROVE  SoloInv'
<1>0. StockInv'
  BY StockStep DEF CountedAlone, SoloInv
<1>1. CASE UNCHANGED St!vars \/ St!OpenSession
  <2>1. items' = items /\ gl' = gl /\ task' = task /\ wo' = wo
    BY <1>1 DEF St!vars, St!OpenSession, St!stock
  <2> QED BY <1>0, <2>1 DEF SoloInv, CostsOK, St!StockCovered, St!WipNetsToZero, StillHolds
<1>2. CASE St!CreateWorkOrder
  BY <1>0, <1>2, CreateOnly
<1>3. ASSUME NEW s \in Staff, St!Work(s) PROVE SoloInv'
  <2>1. ASSUME NEW lot \in Lots, NEW n \in St!Named, NEW w \in St!Sites, St!Receive(s, St!Bought, lot, n, w)
        PROVE  SoloInv'
    BY <1>0, <2>1, BoughtItem, ReceiveOnly
  <2>2. CASE St!CheckIssue(s)
    BY <1>0, <2>2, CheckOnly
  <2>3. CASE \/ \E q \in 1..2, n \in St!Named : St!StartIssue(s, "part", q, n)
             \/ \E q \in 0..2 : St!StartAdjust(s, "part", q)
             \/ \E from, to \in St!Known : St!StartTransfer(s, "part", from, to, 1)
             \/ St!StartStart(s) \/ St!StartComplete(s) \/ St!StartCancel(s)
             \/ \E t \in St!Tenders : St!StartSale(s, t)
             \/ St!StartClose(s)
    BY <1>0, <2>3, StartsOnly
  <2>4. CASE \/ St!Transfer(s) \/ St!InsertWarehouse(s) \/ St!CloseSession(s) \/ St!TagSale(s) \/ St!Stop(s)
             \/ St!CancelWorkOrder(s)
    BY <1>0, <2>4, QuietOnly
  <2>5. ASSUME NEW w \in St!Sites, NEW flag \in BOOLEAN, St!StartWarehouse(s, w, flag)
        PROVE  SoloInv'
    BY <1>0, <2>5, WarehouseOnly
  <2>6. ASSUME NEW w \in St!Sites,
               \/ St!Issue(s, w) \/ St!Adjust(s, w)
               \/ St!StartWorkOrder(s, w) \/ St!CompleteWorkOrder(s, w) \/ St!PostSale(s, w)
        PROVE  SoloInv'
    BY <1>0, <2>6, IssueOnly, AdjustOnly, StartOnly, CompleteOnly, PostOnly
  <2>7. CASE St!PaySale(s)
    BY <1>0, <2>7, PayOnly
  <2> QED BY <1>3, <2>1, <2>2, <2>3, <2>4, <2>5, <2>6, <2>7 DEF St!Work
<1> QED BY <1>1, <1>2, <1>3 DEF St!Next

(* While requests do not overlap, nothing is issued that is not there,     *)
(* what is available is what is on hand, and WIP is the material of the    *)
(* order in progress, wherever a request stopped.                          *)
THEOREM CoverHolds == LotsOK /\ OneStaff => (St!Spec => [](St!StockCovered /\ St!WipNetsToZero))
<1> SUFFICES ASSUME LotsOK, OneStaff PROVE St!Spec => [](St!StockCovered /\ St!WipNetsToZero)
  OBVIOUS
<1>1. St!Init => SoloInv
  BY SoloStart
<1>2. SoloInv /\ [St!Next]_St!vars => SoloInv'
  BY SoloStep
<1>3. SoloInv => St!StockCovered /\ St!WipNetsToZero
  BY DEF SoloInv
<1> QED BY <1>1, <1>2, <1>3, PTL DEF St!Spec

=============================================================================
