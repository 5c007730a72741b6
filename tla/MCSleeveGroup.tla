---------------------------- MODULE MCSleeveGroup ----------------------------
(* The instances of SleeveGroup that TLC checks. *)
EXTENDS SleeveGroup

\* Three shares asked for: an order has room for two, a day for four.
ThreeShares == {[mode |-> "shares", amount |-> 3]}
Tight == [allowed |-> TRUE, max_position_pct |-> 100, max_order_usd |-> 4,
          max_daily_turnover_usd |-> 8]

\* No limit at all.
OneShare == {[mode |-> "shares", amount |-> 1]}
Loose == [allowed |-> TRUE, max_position_pct |-> None, max_order_usd |-> None,
          max_daily_turnover_usd |-> None]
=============================================================================
