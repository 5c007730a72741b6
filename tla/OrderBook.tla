----------------------------- MODULE OrderBook ------------------------------
(***************************************************************************)
(* What the order path promises of every order a sleeve places, whatever   *)
(* acks, answers and processes are lost on the way: the books follow the   *)
(* broker's count share by share, never ahead of it, and an order is       *)
(* settled once, at a moment when the books hold all of its shares and no  *)
(* more can come.                                                          *)
(***************************************************************************)
EXTENDS Naturals

CONSTANTS Order, Qty

VARIABLES
    intent,   \* "none", "open" while a reservation is held, then "settled"
    bought,   \* shares the broker has executed
    book      \* shares recorded as fills

bookVars == <<intent, bought, book>>

Init ==
    /\ intent = [o \in Order |-> "none"]
    /\ bought = [o \in Order |-> 0]
    /\ book = [o \in Order |-> 0]

Reserve(o) ==
    /\ intent[o] = "none"
    /\ intent' = [intent EXCEPT ![o] = "open"]
    /\ UNCHANGED <<bought, book>>

Execute(o) ==
    /\ intent[o] = "open"
    /\ \E q \in (bought[o] + 1)..Qty : bought' = [bought EXCEPT ![o] = q]
    /\ UNCHANGED <<intent, book>>

Record(o) ==
    /\ intent[o] = "open"
    /\ \E q \in (book[o] + 1)..bought[o] : book' = [book EXCEPT ![o] = q]
    /\ UNCHANGED <<intent, bought>>

Settle(o) ==
    /\ intent[o] = "open" /\ book[o] = bought[o]
    /\ intent' = [intent EXCEPT ![o] = "settled"]
    /\ UNCHANGED <<bought, book>>

Next == \E o \in Order : Reserve(o) \/ Execute(o) \/ Record(o) \/ Settle(o)

Spec == Init /\ [][Next]_bookVars
=============================================================================
