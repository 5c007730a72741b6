----------------------------- MODULE SleeveGroup -----------------------------
(***************************************************************************)
(* The sleeves that share one broker account, through the engine's sleeve  *)
(* tick (sleeves/tick_orchestrator.py run_sleeve_tick_for_all_sleeves):    *)
(* fills are polled sleeve by sleeve, SHADOW sleeves have their orders     *)
(* cancelled, the whole group is reconciled against the account, and the   *)
(* sleeves that pass evaluate their rules.  The broker fills orders, the   *)
(* operator arms, disarms and trades by hand between any two broker calls. *)
(*                                                                         *)
(* Every buy is a bracket: once it has filled, its exit legs (take-profit  *)
(* and stop-loss) hold its shares at the broker and may sell them.  They   *)
(* have no row of their own and no call reads them, so nothing records it. *)
(*                                                                         *)
(* Every call answers at once and in full here: SleeveOrders has the lost  *)
(* and late answers.  One symbol, one trading day, the tolerances are      *)
(* zero, and an order is sent at the last close, which does not move.      *)
(***************************************************************************)
EXTENDS SleeveLedger, SleeveEnvelope

CONSTANTS
    Sleeves,
    Capital,        \* capital_usd of each sleeve
    Float,          \* the account's cash beyond the sleeves' capital
    Close,          \* the last daily close: the price orders are reserved at
    FillPrices,     \* the prices at which market orders fill
    Box,            \* envelope_json of each sleeve
    Sizings,        \* the sizing an action declares: its mode and amount
    StopDistance,   \* from the close to the stop a buy declares
    Actions,        \* actions that the rules of a sleeve dispatch in a tick
    MaxOrders,      \* bound: orders of all the sleeves
    MaxOutside      \* bound: shares traded by hand or by exit legs

ASSUME MoneyAssumption == /\ {Capital, Float} \subseteq Nat
                          /\ {Close, StopDistance, Actions} \cup FillPrices \subseteq Nat \ {0}
                          /\ Sizings \subseteq [mode : Mode, amount : Int] /\ Box \in Envelope
ASSUME BoundAssumption == {MaxOrders, MaxOutside} \subseteq Nat
ASSUME SleevesAssumption == IsFiniteSet(Sleeves)

VARIABLES
    status,     \* sleeves.status
    orders,     \* sleeve_orders with their recorded fills, oldest first
    broker,     \* the broker's own view of each of these orders
    legs,       \* the shares that the exit legs of each order hold at the broker
    account,    \* the broker account: cash and shares
    tick,       \* the sleeve tick in progress
    byHand,     \* the operator's trades so far
    slipped,    \* history: the sleeves a buy of which has filled above its reservation
    exits       \* history: the shares that exit legs have sold, and for how much
vars == <<status, orders, broker, legs, account, tick, byHand, slipped, exits>>

Status == {"SHADOW", "PAPER", "PAUSED"}
Paused == "PAUSED"
NoAnswer == -1
\* What every rule of a sleeve is told in a tick, and the actions still to come.
NoContext == [left |-> 0, entries |-> FALSE, qty |-> 0, equity |-> 0, turnover |-> 0]
Idle == [pc |-> "idle", todo |-> {}, shadow |-> {}, cleaning |-> {}, skip |-> {},
         armed |-> {}, positions |-> 0, ctx |-> NoContext]

Init ==
    /\ status = [s \in Sleeves |-> "SHADOW"]
    /\ orders = [s \in Sleeves |-> <<>>] /\ broker = [s \in Sleeves |-> <<>>]
    /\ account = [cash |-> Cardinality(Sleeves) * Capital + Float, qty |-> 0]
    /\ legs = [key \in Sleeves \X (1..MaxOrders) |-> 0]
    /\ tick = Idle /\ byHand = 0 /\ slipped = {} /\ exits = [qty |-> 0, cash |-> 0]

Ledger(s) == reconstruct_from_history(Capital, orders[s])
CashClaim(S) == SumFunction([s \in S |-> LET ledger == Ledger(s) IN ledger.cash + ledger.reserved])
Held(S) == SumFunction([s \in S |-> Ledger(s).qty])
OrderCount == SumFunction([s \in Sleeves |-> Len(orders[s])])
Sign(o) == IF o.side = "buy" THEN 1 ELSE -1

-----------------------------------------------------------------------------
(* The tick: run_sleeve_tick_for_all_sleeves *)

\* The rows are visited in the order of get_all_sleeves.
IsNext(s) == s = CHOOSE row \in tick.todo : TRUE

\* The rows of all sleeves are read once: what the tick does with a sleeve
\* depends on the status it had now.  A paused one is left out.
BeginTick ==
    /\ tick.pc = "idle"
    /\ tick' = [Idle EXCEPT !.pc = "poll", !.skip = {s \in Sleeves : status[s] = Paused},
                            !.todo = {s \in Sleeves : status[s] # Paused},
                            !.shadow = {s \in Sleeves : status[s] = "SHADOW"}]
    /\ UNCHANGED <<status, orders, broker, legs, account, byHand, slipped, exits>>

\* Mutant: the status is recorded, the fills are not.
Recorded_StatusOnly(o, b) == IF IsOpen(o) THEN [o EXCEPT !.status = b.status] ELSE o

\* An order's row once the broker's view b of it is recorded.
Recorded(o, b) ==
    IF IsOpen(o) THEN [o EXCEPT !.filled = b.filled, !.notional = b.notional, !.status = b.status]
    ELSE o
RecordedAll(s, view) == [i \in DOMAIN orders[s] |-> Recorded(orders[s][i], view[i])]

\* poll_and_apply_fills.  New fills make it fold the history (the warning on
\* negative cash): an exception of the fold ends the sleeve's first phase.
poll_and_apply_fills(s) ==
    LET polled == RecordedAll(s, broker[s])
        raises == /\ \E i \in DOMAIN polled : polled[i].filled # orders[s][i].filled
                  /\ ~reconstruct_from_history(Capital, polled).ok
    IN  /\ tick.pc = "poll" /\ tick.cleaning = {} /\ s \in tick.todo /\ IsNext(s)
        /\ orders' = [orders EXCEPT ![s] = polled]
        /\ tick' = [tick EXCEPT !.todo = @ \ {s}, !.shadow = @ \ {s},
                        !.skip = IF raises THEN @ \cup {s} ELSE @,
                        !.cleaning = IF raises THEN {} ELSE tick.shadow \cap {s}]
        /\ UNCHANGED <<status, broker, legs, account, byHand, slipped, exits>>

\* cancel_open_orders_for_shadow_sleeve: the broker cancels what it has not
\* filled, or the exit legs of what it has, and its view of each order is
\* recorded.
cancel_open_orders(s) ==
    LET view == [i \in DOMAIN broker[s] |->
            IF IsOpen(orders[s][i]) /\ IsOpen(broker[s][i])
            THEN [broker[s][i] EXCEPT !.status = "canceled"] ELSE broker[s][i]]
    IN  /\ s \in tick.cleaning /\ tick' = [tick EXCEPT !.cleaning = {}]
        /\ broker' = [broker EXCEPT ![s] = view]
        /\ orders' = [orders EXCEPT ![s] = RecordedAll(s, view)]
        /\ legs' = [key \in DOMAIN legs |->
               IF key[1] = s /\ key[2] \in DOMAIN orders[s] /\ IsOpen(orders[s][key[2]])
               THEN 0 ELSE legs[key]]
        /\ UNCHANGED <<status, account, byHand, slipped, exits>>

-----------------------------------------------------------------------------
(* The tick: _run_aggregate_reconciliation *)

Checkable == Sleeves \ tick.skip
ReadyToReconcile == tick.pc = "poll" /\ tick.todo = {} /\ tick.cleaning = {}

\* An exception in the fold of one sleeve skips the evaluation of the group.
FoldRaises ==
    /\ ReadyToReconcile /\ \E s \in Checkable : ~Ledger(s).ok
    /\ tick' = [Idle EXCEPT !.pc = "rules"]
    /\ UNCHANGED <<status, orders, broker, legs, account, byHand, slipped, exits>>

\* The histories are folded and the positions fetched; the account follows.
get_positions ==
    /\ ReadyToReconcile /\ \A s \in Checkable : Ledger(s).ok
    /\ \E answer \in {account.qty, NoAnswer} :
            tick' = IF Checkable = {} THEN [Idle EXCEPT !.pc = "rules"]
                    ELSE [tick EXCEPT !.pc = "account", !.positions = answer]
    /\ UNCHANGED <<status, orders, broker, legs, account, byHand, slipped, exits>>

\* Mutant: the check is two-sided, as the per-sleeve one was.
CashBreach_TwoSided == CashClaim(Checkable) # account.cash
\* reconcile_aggregate_cash: cash that no sleeve claims is no breach.
CashBreach == CashClaim(Checkable) > account.cash
Holders == {s \in Checkable : Ledger(s).qty # 0}
\* Mutant: only a holding of which the broker has nothing is a breach.
ToPause_MissingOnly ==
    IF tick.positions = NoAnswer \/ CashBreach THEN Checkable
    ELSE IF Holders # {} THEN IF tick.positions = 0 THEN Holders ELSE {}
    ELSE IF tick.positions # 0 THEN {s \in Checkable : orders[s] # <<>>}
    ELSE {}

\* The sleeves that this reconciliation pauses: the group for an unreachable
\* broker or a cash breach; the holders of a symbol held beyond the broker's
\* position; the sleeves that once traded a symbol that nobody holds and the
\* broker does.
ToPause ==
    IF tick.positions = NoAnswer \/ CashBreach THEN Checkable
    ELSE IF Holders # {} THEN IF Held(Holders) > tick.positions THEN Holders ELSE {}
    ELSE IF tick.positions # 0 THEN {s \in Checkable : orders[s] # <<>>}
    ELSE {}

\* The account is fetched, the breaches paused, the rules of the rest loaded.
Reconcile ==
    /\ tick.pc = "account"
    /\ status' = [s \in Sleeves |-> IF s \in ToPause THEN Paused ELSE status[s]]
    /\ LET evaluable == Checkable \ ToPause
       IN  tick' = [Idle EXCEPT !.pc = "rules", !.todo = evaluable,
                                !.armed = {s \in evaluable : status[s] = "PAPER"}]
    /\ UNCHANGED <<orders, broker, legs, account, byHand, slipped, exits>>

-----------------------------------------------------------------------------
(* The tick: rule evaluation *)

\* _book_equity_usd, at the close.
Equity(ledger) == ledger.cash + ledger.reserved + ledger.qty * Close

\* get_daily_turnover_usd: what has executed, and the open part of what is
\* reserved; an open sell reserves nothing.
Turnover(s) ==
    SumFunction([i \in DOMAIN orders[s] |-> orders[s][i].notional + OpenPart(orders[s][i])])

\* The history is folded and the turnover read once for all rules of the
\* sleeve.  An exception of the fold ends its turn; a SHADOW sleeve's rules
\* place nothing.
BeginRules(s) ==
    /\ tick.pc = "rules" /\ tick.ctx = NoContext /\ s \in tick.todo /\ IsNext(s)
    /\ IF s \in tick.armed /\ Ledger(s).ok
       THEN tick' = [tick EXCEPT !.ctx =
                [left |-> Actions, entries |-> FALSE, qty |-> Ledger(s).qty,
                 equity |-> Equity(Ledger(s)), turnover |-> Turnover(s)]]
       ELSE tick' = [tick EXCEPT !.todo = @ \ {s}, !.armed = @ \ {s}]
    /\ UNCHANGED <<status, orders, broker, legs, account, byHand, slipped, exits>>

\* The rule's turn passes, after n actions of its sleeve.
Passes(s, n, entries) ==
    tick' = IF tick.ctx.left > n
            THEN [tick EXCEPT !.ctx.left = @ - n, !.ctx.entries = entries]
            ELSE [tick EXCEPT !.ctx = NoContext, !.todo = @ \ {s}, !.armed = @ \ {s}]
Dispatching(s) == tick.ctx # NoContext /\ s \in tick.todo /\ IsNext(s)

\* The row and the broker's order.  A buy is a bracket, whose exit legs wait at
\* the broker until it has filled: Fill.
Places(s, side, qty, price, st) ==
    /\ OrderCount < MaxOrders
    /\ orders' = [orders EXCEPT ![s] = Append(@,
            [side |-> side, qty |-> qty, price |-> price, status |-> st, filled |-> 0, notional |-> 0])]
    /\ broker' = [broker EXCEPT ![s] = Append(@, [status |-> st, filled |-> 0, notional |-> 0])]
    /\ UNCHANGED <<status, legs, account, byHand, slipped, exits>>

\* Shares that no open sell and no exit leg has claimed at the broker.
OnSale(os, bs) == SumFunction([i \in DOMAIN os |->
    IF os[i].side = "sell" /\ IsOpen(bs[i]) THEN os[i].qty - bs[i].filled ELSE 0])
Available ==
    account.qty - SumFunction(legs) - SumFunction([s \in Sleeves |-> OnSale(orders[s], broker[s])])

Clamped(side, qty) ==
    clamp_order(side, qty, Close, Box, tick.ctx.equity, tick.ctx.qty, tick.ctx.turnover)
\* Only a buy declares a stop.
_size_and_clamp(side, z) ==
    LET stop     == IF side = "buy" THEN StopDistance ELSE 0
        proposed == size_order(z.mode, z.amount, tick.ctx.equity, Close, stop)
    IN  IF proposed = 0 THEN 0 ELSE Clamped(side, proposed)

\* Mutant: the reservation is tried on what the tick has read.
_dispatch_buy_Stale(s, qty) ==
    /\ Dispatching(s) /\ qty > 0 /\ Passes(s, 1, TRUE)
    /\ qty * Close <= tick.ctx.equity - tick.ctx.qty * Close
    /\ \E st \in {"accepted", "rejected"} : Places(s, "buy", qty, Close, st)

\* _dispatch_buy: the reservation is tried on a ledger folded anew.
_dispatch_buy(s, qty) ==
    /\ Dispatching(s) /\ qty > 0 /\ Passes(s, 1, TRUE)
    /\ Ledger(s).ok /\ qty * Close <= Ledger(s).cash
    /\ \E st \in {"accepted", "rejected"} : Places(s, "buy", qty, Close, st)

\* _finish_sell_like and _dispatch_set_stop: clamped to the position the tick
\* has read, whatever sells are open.  Exits are evaluated before entries.
Sells(s, qty) ==
    /\ Dispatching(s) /\ ~tick.ctx.entries /\ Passes(s, 1, FALSE)
    /\ Places(s, "sell", qty, 0, IF qty \in 1..Available THEN "accepted" ELSE "rejected")
_dispatch_sell(s, qty) == qty > 0 /\ Sells(s, qty)
_dispatch_go_to_cash(s) ==
    LET qty == Clamped("sell", tick.ctx.qty) IN qty > 0 /\ Sells(s, qty)
\* No clamp, and no refusal: a stop without a position is the broker's to reject.
_dispatch_set_stop(s) == Sells(s, tick.ctx.qty)

\* Nothing more fires, the box or the cash refuses, or the evaluation raises.
NoOrder(s) ==
    /\ Dispatching(s) /\ \E n \in 1..tick.ctx.left : Passes(s, n, tick.ctx.entries)
    /\ UNCHANGED <<status, orders, broker, legs, account, byHand, slipped, exits>>

EndTick ==
    /\ tick.pc = "rules" /\ tick.todo = {} /\ tick' = Idle
    /\ UNCHANGED <<status, orders, broker, legs, account, byHand, slipped, exits>>

-----------------------------------------------------------------------------
(* The broker and the operator *)

\* A share of a market order fills.  With the last share of a buy its exit legs
\* are activated, or rejected if others have claimed what the account has left.
Fill(s, i) ==
    \E price \in FillPrices :
        LET b == broker[s][i]
            o == orders[s][i]
            full == b.filled + 1 = o.qty
        IN  /\ IsOpen(b)
            /\ broker' = [broker EXCEPT ![s][i] =
                    [status   |-> IF full THEN "filled" ELSE b.status,
                     filled   |-> b.filled + 1, notional |-> b.notional + price]]
            /\ legs' = [legs EXCEPT ![<<s, i>>] =
                    IF o.side = "buy" /\ full /\ o.qty <= Available + 1 THEN o.qty ELSE @]
            /\ account' = [cash |-> account.cash - Sign(o) * price, qty |-> account.qty + Sign(o)]
            /\ slipped' = slipped \cup (IF o.side = "buy" /\ price > o.price THEN {s} ELSE {})
            /\ UNCHANGED <<status, orders, tick, byHand, exits>>

\* A share of an exit leg fills: the account has sold it, and no row says so.
LegFill(key) ==
    /\ byHand + exits.qty < MaxOutside
    /\ legs[key] > 0 /\ legs' = [legs EXCEPT ![key] = @ - 1]
    /\ \E price \in FillPrices :
        /\ account' = [cash |-> account.cash + price, qty |-> account.qty - 1]
        /\ exits' = [qty |-> exits.qty + 1, cash |-> exits.cash + price]
    /\ UNCHANGED <<status, orders, broker, tick, byHand, slipped>>

\* The exit legs expire, or the operator cancels them.
LegsEnd(key) ==
    /\ legs[key] > 0 /\ legs' = [legs EXCEPT ![key] = 0]
    /\ UNCHANGED <<status, orders, broker, account, tick, byHand, slipped, exits>>

\* The arm route: a SHADOW sleeve goes to PAPER, a paused one is refused.
Arm(s) ==
    /\ status[s] = "SHADOW" /\ status' = [status EXCEPT ![s] = "PAPER"]
    /\ UNCHANGED <<orders, broker, legs, account, tick, byHand, slipped, exits>>

\* The disarm route: any sleeve, a paused one too.
Disarm(s) ==
    /\ status[s] # "SHADOW" /\ status' = [status EXCEPT ![s] = "SHADOW"]
    /\ UNCHANGED <<orders, broker, legs, account, tick, byHand, slipped, exits>>

\* The operator trades a share in the shared account.
ByHand ==
    /\ byHand + exits.qty < MaxOutside /\ byHand' = byHand + 1
    /\ \/ Available > 0 /\ account' = [cash |-> account.cash + Close, qty |-> account.qty - 1]
       \/ account' = [cash |-> account.cash - Close, qty |-> account.qty + 1]
    /\ UNCHANGED <<status, orders, broker, legs, tick, slipped, exits>>

-----------------------------------------------------------------------------
TickStep ==
    \/ BeginTick \/ FoldRaises \/ get_positions \/ Reconcile \/ EndTick
    \/ \E s \in Sleeves :
        \/ poll_and_apply_fills(s) \/ cancel_open_orders(s) \/ BeginRules(s) \/ NoOrder(s)
        \/ _dispatch_go_to_cash(s) \/ _dispatch_set_stop(s)
        \/ \E z \in Sizings : \/ _dispatch_buy(s, _size_and_clamp("buy", z))
                             \/ _dispatch_sell(s, _size_and_clamp("sell", z))
Next ==
    \/ TickStep \/ ByHand \/ \E key \in DOMAIN legs : LegFill(key) \/ LegsEnd(key)
    \/ \E s \in Sleeves : Arm(s) \/ Disarm(s) \/ \E i \in DOMAIN orders[s] : Fill(s, i)

Spec == Init /\ [][Next]_vars
\* The scheduler runs a tick every minute, and a tick's calls answer.  A step
\* of the tick is enabled in every state, changes tick, and is the only kind to
\* do so, so weak fairness is just this.
FairSpec == Spec /\ []<><<tick' # tick>>_vars

-----------------------------------------------------------------------------
Order == [side : Side, qty : Nat, price : {0, Close}, status : OrderStatus,
          filled : Nat, notional : Nat]
View == [status : OrderStatus, filled : Nat, notional : Nat]
Context == [left : 0..Actions, entries : BOOLEAN, qty : Nat, equity : Int, turnover : Int]
TypeOK ==
    /\ status \in [Sleeves -> Status]
    /\ orders \in [Sleeves -> Seq(Order)] /\ broker \in [Sleeves -> Seq(View)]
    /\ legs \in [Sleeves \X (1..MaxOrders) -> Nat] /\ account \in [cash : Int, qty : Nat]
    /\ tick \in [pc : {"idle", "poll", "account", "rules"}, todo : SUBSET Sleeves,
                 shadow : SUBSET Sleeves, cleaning : SUBSET Sleeves, skip : SUBSET Sleeves,
                 armed : SUBSET Sleeves, positions : Nat \cup {NoAnswer}, ctx : Context]
    /\ byHand \in 0..MaxOutside /\ slipped \subseteq Sleeves /\ exits \in [qty : Nat, cash : Nat]

AllFold == \A s \in Sleeves : Ledger(s).ok

\* What the broker has done with the orders and no row records yet.
Unrecorded(s, i) == broker[s][i].filled # orders[s][i].filled
\* Shares bought, and dollars spent, by the fills a poll will still record.
PendingQty(s) == SumFunction([i \in DOMAIN orders[s] |->
    IF IsOpen(orders[s][i])
    THEN Sign(orders[s][i]) * (broker[s][i].filled - orders[s][i].filled) ELSE 0])
PendingCash(s) == SumFunction([i \in DOMAIN orders[s] |->
    IF IsOpen(orders[s][i])
    THEN Sign(orders[s][i]) * (broker[s][i].notional - orders[s][i].notional) ELSE 0])

\* As long as the operator leaves the account alone, the folded ledgers and the
\* fills that a poll will still record account for every dollar and share of the
\* broker but for those that exit legs have sold and been paid, which nothing
\* records: polling, cancelling and folding lose nothing else and count nothing twice.
BookMatchesBroker ==
    byHand = 0 /\ AllFold =>
        /\ CashClaim(Sleeves) + Float - SumFunction([s \in Sleeves |-> PendingCash(s)])
              = account.cash - exits.cash
        /\ Held(Sleeves) + SumFunction([s \in Sleeves |-> PendingQty(s)]) = account.qty + exits.qty

\* A ledger that folds creates and loses no money, and reserves what its open
\* buys may still spend: a reject, a cancel or a partial fill releases or
\* resolves exactly its own part.
LedgersAddUp ==
    \A s \in Sleeves : Ledger(s).ok =>
        /\ Balanced(Ledger(s), Capital)
        /\ Ledger(s).reserved = SumFunction([i \in DOMAIN orders[s] |-> OpenPart(orders[s][i])])

\* The actions of a tick are clamped against one snapshot of position and
\* turnover, and still reserve each dollar once: a history fails to fold only
\* after a fill above its reservation, or a sale of shares the sleeve has not.
Oversold(s) == \E n \in DOMAIN orders[s] :
    SumFunction([i \in 1..n |-> Sign(orders[s][i]) * orders[s][i].filled]) < 0
CashIsReservedOnce == \A s \in Sleeves : ~Ledger(s).ok => s \in slipped \/ Oversold(s)

\* A sleeve is paused for a cause: the operator's own trades, a broker that did
\* not answer, a sleeve left out of the check, a fill after the poll, or a sale by
\* exit legs, which pauses none but the sleeves whose books hold shares.
PauseHasCause ==
    [][\A s \in Sleeves : status[s] # Paused /\ status'[s] = Paused =>
            \/ byHand > 0 \/ tick.positions = NoAnswer \/ tick.skip # {}
            \/ \E t \in Sleeves : \E i \in DOMAIN orders[t] : Unrecorded(t, i)
            \/ exits.qty > 0 /\ Ledger(s).qty > 0]_vars

\* Sleeves that are not paused never go on claiming more than the account has
\* ("sleeves never COLLECTIVELY claiming more than the account truly holds"),
\* unless the operator keeps taking paused sleeves out of their pause.
Active == {s \in Sleeves : status[s] # Paused}
Overclaim ==
    /\ Active # {}
    /\ Held(Active) > account.qty \/ CashClaim(Active) > account.cash
    /\ \A s \in Active : Ledger(s).ok
Unpaused == \E s \in Sleeves : status[s] = Paused /\ status'[s] # Paused
OverclaimIsCaught == []<>~Overclaim \/ []<><<Unpaused>>_vars

\* "one sleeve's bug must never cost another sleeve its tick": when the rules'
\* turn comes, each sleeve that was checked and whose own history folds is
\* evaluated, or has been paused.
SleevesAreIsolated ==
    [][tick.pc # "rules" /\ tick'.pc = "rules" =>
        \A s \in Checkable : Ledger(s).ok => s \in tick'.todo \/ status'[s] = Paused]_vars

-----------------------------------------------------------------------------
(* The inductive strengthening of the properties above. *)

\* How a row o and the broker's view b of its order relate: the row is behind
\* or agrees, a settled row is final, and what the row does not know of has
\* cost no more than was reserved for it, if its sleeve has not slipped.
RowInv(o, b, slip) ==
    /\ o.filled <= b.filled /\ b.filled <= o.qty /\ (IsOpen(b) => b.filled < o.qty)
    /\ o.notional <= b.notional /\ (o.filled = b.filled => o.notional = b.notional)
    /\ o.filled = 0 => o.notional = 0
    /\ ~IsOpen(o) => o.status = b.status /\ o.filled = b.filled
    /\ o.side = "buy" => o.price = Close
    /\ o.side = "buy" /\ ~slip => b.notional - o.notional <= (b.filled - o.filled) * Close
Rows(os, bs, slip) ==
    Len(bs) = Len(os) /\ \A i \in DOMAIN os : RowInv(os[i], bs[i], slip)
RowsInv == \A s \in Sleeves : Rows(orders[s], broker[s], s \in slipped)

\* The account is what the broker's fills, those of exit legs too, have made of it.
Spent(os, bs) == SumFunction([i \in DOMAIN os |-> Sign(os[i]) * bs[i].notional])
Bought(os, bs) == SumFunction([i \in DOMAIN os |-> Sign(os[i]) * bs[i].filled])
AccountInv ==
    byHand = 0 =>
        /\ account.cash = Cardinality(Sleeves) * Capital + Float + exits.cash
                             - SumFunction([s \in Sleeves |-> Spent(orders[s], broker[s])])
        /\ account.qty = SumFunction([s \in Sleeves |-> Bought(orders[s], broker[s])]) - exits.qty

\* No open sell and no exit leg waits for shares that the account does not have.
SaleInv == Available >= 0

\* A buy of a sleeve that has not slipped was, and still is, covered by the
\* cash that the orders before it leave.
CashEffect(o) == IF o.side = "buy" THEN -o.notional - OpenPart(o) ELSE o.notional
CashBefore(os, n) == Capital + SumFunction([i \in 1..(n - 1) |-> CashEffect(os[i])])
Covered(os) ==
    \A n \in DOMAIN os : os[n].side = "buy" => os[n].qty * Close <= CashBefore(os, n)
AffordInv == \A s \in Sleeves \ slipped : Covered(orders[s])

\* Between the positions and the account the histories still fold, and the
\* positions are those of the account but for fills that no row records yet or ever.
CheckInv ==
    tick.pc = "account" =>
        /\ \A s \in Checkable : Ledger(s).ok
        /\ \/ byHand > 0 \/ exits.qty > 0 \/ tick.positions \in {NoAnswer, account.qty}
           \/ \E s \in Sleeves : \E i \in DOMAIN orders[s] : Unrecorded(s, i)

\* Orders are cancelled and sent in their own phase of the tick.
PhaseInv ==
    /\ tick.cleaning # {} => tick.pc = "poll"
    /\ tick.ctx # NoContext => tick.pc = "rules"

IInv ==
    /\ TypeOK /\ RowsInv /\ AccountInv /\ SaleInv /\ AffordInv
    /\ CheckInv /\ PhaseInv
=============================================================================
