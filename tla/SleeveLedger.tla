---------------------------- MODULE SleeveLedger ----------------------------
(***************************************************************************)
(* The ledger of a sleeve (sleeves/ledger.py): a pure fold of the sleeve's *)
(* persisted orders, oldest first, into cash, reservations, a position and *)
(* realized profit.  Nothing of it is stored: every reader folds again.    *)
(*                                                                         *)
(* One symbol; the sleeve's other symbols have a position each and share   *)
(* the cash.  Money is counted in whole units.  The fills of an order are  *)
(* kept as their total quantity and notional: they are contiguous in the   *)
(* fold, and a buy adds them up while successive sells at the average cost *)
(* remove what one sell of the total does.  An exception is a ledger that  *)
(* is not ok; the fold that met it returns nothing to its caller.          *)
(***************************************************************************)
EXTENDS Integers, SequencesExt

LedgerState == [ok : BOOLEAN, cash : Int, reserved : Int, realized : Int, qty : Int, cost : Int]
Side == {"buy", "sell"}

\* _RESERVATION_TERMINAL_STATUSES, and the statuses of an open order.
Terminal == {"filled", "canceled", "rejected"}
OrderStatus == Terminal \cup {"accepted"}
IsOpen(o) == o.status \notin Terminal

new_ledger(capital) ==
    [ok |-> TRUE, cash |-> capital, reserved |-> 0, realized |-> 0, qty |-> 0, cost |-> 0]

Raises(ledger) == [ledger EXCEPT !.ok = FALSE]

\* InsufficientCashError when the cash does not cover the reservation.
reserve(ledger, notional) ==
    IF notional > ledger.cash THEN Raises(ledger)
    ELSE [ledger EXCEPT !.cash = @ - notional, !.reserved = @ + notional]

release(ledger, notional) ==
    [ledger EXCEPT !.cash = @ + notional, !.reserved = @ - notional]

\* apply_fill, a buy: the difference to what was reserved returns to the cash,
\* or is drawn from it, with no floor.
BuyFill(ledger, qty, notional, reserved) ==
    [ledger EXCEPT !.cash = @ + (reserved - notional), !.reserved = @ - reserved,
                   !.qty = @ + qty, !.cost = @ + notional]

\* apply_fill, a sell at the average cost; InsufficientPositionError.
SellFill(ledger, qty, notional) ==
    IF ledger.qty <= 0 \/ qty > ledger.qty THEN Raises(ledger)
    ELSE LET removed == (qty * ledger.cost) \div ledger.qty
         IN  [ledger EXCEPT !.cash = @ + notional, !.realized = @ + (notional - removed),
                            !.qty = @ - qty, !.cost = @ - removed]

\* Mutant: a terminal order releases its whole reservation.
FoldBuy_ReleasesAll(ledger, o) ==
    LET taken  == reserve(ledger, o.qty * o.price)
        filled == BuyFill(taken, o.filled, o.notional, o.filled * o.price)
    IN  IF ~taken.ok THEN taken
        ELSE IF ~IsOpen(o) THEN release(filled, o.qty * o.price) ELSE filled

\* A buy: reserved in full, then its fills, then the unfilled rest released
\* once the order is terminal.
FoldBuy(ledger, o) ==
    LET taken  == reserve(ledger, o.qty * o.price)
        filled == BuyFill(taken, o.filled, o.notional, o.filled * o.price)
    IN  IF ~taken.ok THEN taken
        ELSE IF ~IsOpen(o) THEN release(filled, (o.qty - o.filled) * o.price)
        ELSE filled

FoldSell(ledger, o) ==
    IF o.filled = 0 THEN ledger ELSE SellFill(ledger, o.filled, o.notional)

FoldOrder(ledger, o) ==
    IF ~ledger.ok THEN ledger
    ELSE IF o.side = "buy" THEN FoldBuy(ledger, o) ELSE FoldSell(ledger, o)

reconstruct_from_history(capital, orders) == FoldLeft(FoldOrder, new_ledger(capital), orders)

-----------------------------------------------------------------------------
\* No money appears or vanishes: what the ledger holds in cash, reservations
\* and at cost is the capital and what was realized.
Balanced(ledger, capital) ==
    ledger.cash + ledger.reserved + ledger.cost = capital + ledger.realized

\* What an order may still spend, at the price it was reserved at.
OpenPart(o) == IF o.side = "buy" /\ IsOpen(o) THEN (o.qty - o.filled) * o.price ELSE 0
=============================================================================
