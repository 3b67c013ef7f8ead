------------------------------ MODULE MCLedger ------------------------------
(* Small instances of Ledger for TLC. *)
EXTENDS Ledger

CONSTANTS w1, w2, cash, re, sales

MCCalendarYear == [p \in Periods |-> p[1] + 1]
MCBegun == {<<1, n>> : n \in 1..PeriodsPerYear}

Sale(c, s) == [a \in Accounts |-> CASE a = cash -> c [] a = sales -> -s [] OTHER -> 0]
OneSale == {Sale(5, 5)}
\* the second is off by the rounding tolerance
SalesOffByOne == {Sale(5, 5), Sale(5, 4)}
=============================================================================
