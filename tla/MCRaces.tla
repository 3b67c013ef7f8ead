------------------------------ MODULE MCRaces -------------------------------
(***************************************************************************)
(* Where the code does not do what its comments say: a specification of    *)
(* one component for each, with what the comment says as an invariant that *)
(* TLC finds violated.                                                     *)
(***************************************************************************)
EXTENDS MCOperations

(* Two requests that overlap while stock is counted. *)
Taking == INSTANCE Stock WITH Staff <- {s1, s2}, MaxStops <- 0,
              Lots <- {<<1, 150>>}, Areas <- {"count"}

StockTakeSpec ==
    /\ focus = "counter" /\ Taking!Init /\ OthersRest
    /\ [][Taking!Next /\ OthersStay]_vars

(* What warehousing.rs says of apply_stock_delta_tx, called from receive,  *)
(* issue and adjust: it keeps SUM(warehouse_stock.quantity) == on_hand.    *)
ShelvesMatchOnHand == Taking!ShelvesAddUp

(* The reports after one entry and its reversal. *)
ReportsSpec ==
    /\ focus = "reporting" /\ Reporting!Init /\ side = "book" /\ OthersRest
    /\ [][Reporting!Next /\ OthersStay]_vars

(* What cash_flow says of its reconciling line: "so the statement always   *)
(* ties to real cash rather than silently drifting".                       *)
CashFlowTies == Reporting!CashFlowTies

=============================================================================
