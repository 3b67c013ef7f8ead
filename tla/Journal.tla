------------------------------ MODULE Journal ------------------------------
(***************************************************************************)
(* What the general ledger promises to those who read it: a book to which  *)
(* balanced entries are added, never changed or taken away, under numbers  *)
(* without a gap; a reversal strikes its original in the same moment; and  *)
(* the totals of every period move with the book.  There are no requests,  *)
(* transactions, locks or caches here: Ledger has them and implements      *)
(* this.                                                                   *)
(***************************************************************************)
EXTENDS Integers, FiniteSets, FiniteSetsExt

CONSTANTS Periods, Accounts

VARIABLES
    book,       \* the entries: [num, per, src, ref, lines]
    struck,     \* numbers of the entries that are reversed
    totals      \* the movement of each account in each period

vars == <<book, struck, totals>>

Of(es, kind) == {e \in es : e.ref.kind = kind}
Sums(es, a) == MapThenSumSet(LAMBDA e : e.lines[a], es)
Balanced(e) == MapThenSumSet(LAMBDA a : e.lines[a], Accounts) = 0

(* Numbers are new, differ from each other and leave no counter out. *)
WellNumbered(es) ==
    LET counters == {e.num[2] : e \in book \cup es}
    IN  /\ \A e \in es, f \in book \cup es : e.num = f.num => e = f
        /\ counters = 1 .. Cardinality(counters)

(* A reversal mirrors an entry of the book. *)
Mirrors(r) == \E e \in book : e.num = r.ref.id /\ \A a \in Accounts : r.lines[a] = -e.lines[a]

(* The books of a year are closed and those of the next opened together. *)
YearTurned(es) == {e.ref.id[1] + 1 : e \in Of(es, "YEC")} = {e.ref.id[1] : e \in Of(es, "OB")}

Init ==
    /\ book = {} /\ struck = {}
    /\ totals = [p \in Periods |-> [a \in Accounts |-> 0]]

Post(es) ==
    /\ es # {}
    /\ \A e \in es : Balanced(e)
    /\ WellNumbered(es)
    /\ \A r \in Of(es, "REV") : Mirrors(r)
    /\ YearTurned(es)
    /\ book' = book \cup es
    /\ struck' = struck \cup {r.ref.id : r \in Of(es, "REV")}
    /\ totals' = [p \in Periods |-> [a \in Accounts |->
                     totals[p][a] + Sums({e \in es : e.per = p}, a)]]

Next == Post(book' \ book)

Spec == Init /\ [][Next]_vars
=============================================================================
