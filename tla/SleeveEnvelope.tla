--------------------------- MODULE SleeveEnvelope ---------------------------
(***************************************************************************)
(* How large an order of a sleeve may be: sizing proposes                  *)
(* (sleeves/sizing.py), the hard box disposes (sleeves/envelope.py).  Both *)
(* are pure and count whole shares; a quantity of zero is an error of the  *)
(* sizing or a refusal of the box, and places nothing.                     *)
(*                                                                         *)
(* Fractions of the equity are percentages here, amounts whole dollars,    *)
(* and the price is known: a rule's symbol has a close.                    *)
(***************************************************************************)
EXTENDS Integers, FiniteSetsExt

None == -1
Mode == {"risk_pct", "pct_of_sleeve", "dollars", "shares"}
\* A limit of None, or an absent one, is no limit.
Limit == Nat \cup {None}
Envelope == [allowed : BOOLEAN, max_position_pct : Limit, max_order_usd : Limit,
             max_daily_turnover_usd : Limit]

Floored(qty) == IF qty > 0 THEN qty ELSE 0

\* stop is the distance from the price to the stop of the order.
size_order(mode, amount, equity, price, stop) ==
    IF price <= 0 THEN 0
    ELSE CASE mode = "shares"        -> Floored(amount)
           [] mode = "dollars"       -> Floored(amount \div price)
           [] mode = "pct_of_sleeve" -> Floored((amount * equity) \div (100 * price))
           [] mode = "risk_pct"      ->
                IF stop <= 0 THEN 0 ELSE Floored((amount * equity) \div (100 * stop))

Ceiling(limit, room) == IF limit = None THEN {} ELSE {Floored(room)}

\* The ceilings of an order: the position it sells from or the room left for a
\* position, the dollars of an order, the dollars left for the day.
Ceilings(side, price, box, equity, position, turnover) ==
    (IF side = "sell" THEN {Floored(position)}
     ELSE Ceiling(box.max_position_pct, (box.max_position_pct * equity) \div (100 * price) - position))
    \cup Ceiling(box.max_order_usd, box.max_order_usd \div price)
    \cup Ceiling(box.max_daily_turnover_usd,
                 Floored(box.max_daily_turnover_usd - turnover) \div price)

\* The list of tickers binds buys only: no position is trapped by it.
clamp_order(side, qty, price, box, equity, position, turnover) ==
    IF side = "buy" /\ ~box.allowed THEN 0
    ELSE Floored(Min({qty} \cup Ceilings(side, price, box, equity, position, turnover)))
=============================================================================
