---------------------------- MODULE SleeveOrders ----------------------------
(***************************************************************************)
(* The order lifecycle of one managed sleeve: the write-ahead row in       *)
(* sleeve_orders, the broker call, lost-ack recovery, the fill poll and    *)
(* the cancel path of a disarmed sleeve (sleeves/rules/actions.py,         *)
(* sleeves/alpaca_orders.py, sleeves/tick_orchestrator.py).                *)
(*                                                                         *)
(* The engine process runs one tick at a time and may crash at any step;   *)
(* every database statement and every broker call is a step of its own.    *)
(* The broker (Alpaca, one paper and one live host) executes and closes    *)
(* orders by itself between any two engine steps.                          *)
(*                                                                         *)
(* Faults names the broker and network behaviours that the order path does *)
(* not survive; with Faults = {} timeouts, transport errors, outages,      *)
(* crashes and price-publication lag are still there.                      *)
(***************************************************************************)
EXTENDS Naturals

CONSTANTS
    Order,        \* client_order_ids the sleeve may mint
    Qty,          \* shares of every order
    Modes,        \* sleeve statuses the operator and the reconciler set
    Faults,       \* subset of FaultKind the environment may exhibit
    MaxTries,     \* attempts of one POST (max_retries)
    MaxFaults     \* bound: crashes plus failed reads over a behaviour

FaultKind == {"lostReply",    \* POST processed, the client sees a non-timeout error
              "lateArrival",  \* POST processed after the client gave up on it
              "slowCancel"}   \* DELETE accepted, the order still working for a while

SleeveStatus == {"SHADOW", "PAPER", "LIVE", "PAUSED_RECONCILIATION"}

ASSUME QtyAssumption == Qty \in Nat \ {0}
ASSUME BoundAssumption == MaxTries \in Nat \ {0} /\ MaxFaults \in Nat
ASSUME ModeAssumption == Modes \subseteq SleeveStatus
ASSUME FaultAssumption == Faults \subseteq FaultKind

Working  == {"open", "pending_cancel"}              \* broker statuses that can fill
Closed   == {"filled", "canceled", "expired"}       \* broker statuses that cannot
Terminal == Closed \cup {"rejected"}                \* _TERMINAL_ORDER_STATUSES
RowStatus == {"absent", "RESERVED"} \cup Working \cup Terminal

VARIABLES
    sleeve,     \* sleeves.status
    status,     \* sleeve_orders.status, "absent" before the row is inserted
    acked,      \* sleeve_orders.alpaca_order_id is set
    recorded,   \* sum of sleeve_fills.filled_qty of the order
    broker,     \* the order's status at the broker, "none" if it never arrived
    host,       \* the broker host it was sent to
    filled,     \* cumulative filled_qty at the broker
    priced,     \* filled_avg_price covers all of filled
    wire,       \* POSTs given up on by the client and not yet processed
    pc,         \* where the engine is in its tick
    tick,       \* the sleeve row's status as this tick read it
    phase,      \* the loop the engine is in: "poll" or "cancel"
    todo,       \* orders the loop has still to visit
    cur,        \* the order being worked on
    snap,       \* the broker order last fetched, with the quantity already recorded
    tries,      \* attempts made of the current POST
    faults,     \* crashes and failed reads so far
    astray      \* history: orders that one of the faults, or the host asked, has misled
                \* the engine about

rows    == <<status, acked, recorded>>
market  == <<broker, host, filled, priced, wire, astray>>
engine  == <<pc, tick, phase, todo, cur, snap, tries>>
vars    == <<sleeve, rows, market, engine, faults>>

\* sleeves.alpaca_orders.resolve_host under the tick's live gates (the live
\* keys and the SLEEVE_LIVE_EXECUTION switch are taken to be set).
resolve_host(s) == IF s = "LIVE" THEN "live" ELSE "paper"

NonTerminal(o) == status[o] \notin Terminal \cup {"absent"}
\* Mutant: the poll does not pass over terminal rows.
OpenRows_WithTerminal == {o \in Order : status[o] # "absent"}
OpenRows == {o \in Order : NonTerminal(o)}
\* The host this tick talks to knows the order.
Visible(o) == broker[o] # "none" /\ host[o] = resolve_host(tick)

Init ==
    /\ sleeve \in Modes
    /\ status = [o \in Order |-> "absent"]
    /\ acked = [o \in Order |-> FALSE]
    /\ recorded = [o \in Order |-> 0]
    /\ broker = [o \in Order |-> "none"]
    /\ host = [o \in Order |-> "paper"]
    /\ filled = [o \in Order |-> 0]
    /\ priced = [o \in Order |-> TRUE]
    /\ wire = {}
    /\ pc = "idle" /\ tick = "SHADOW" /\ phase = "poll" /\ todo = {}
    /\ cur \in Order
    /\ snap = [status |-> "open", filled |-> 0, priced |-> TRUE, known |-> 0]
    /\ tries = 0
    /\ faults = 0 /\ astray = {}

-----------------------------------------------------------------------------
(* The tick: run_sleeve_tick_for_all_sleeves for this sleeve. *)

\* The sleeve row is read once; a paused sleeve's tick does nothing at all.  An
\* open row whose order is at the other host is misled from now on.
BeginTick ==
    /\ pc = "idle"
    /\ sleeve # "PAUSED_RECONCILIATION"
    /\ tick' = sleeve
    /\ pc' = "poll" /\ phase' = "poll" /\ todo' = OpenRows
    /\ astray' = astray \cup
           {o \in OpenRows : broker[o] # "none" /\ host[o] # resolve_host(sleeve)}
    /\ UNCHANGED <<sleeve, rows, broker, host, filled, priced, wire, cur, snap, tries, faults>>

\* Mutant: a sleeve read as SHADOW is not sent through the cancel loop.
PollDone_NoCancel ==
    /\ pc = "poll" /\ todo = {}
    /\ pc' = "rules"
    /\ UNCHANGED <<sleeve, rows, market, tick, phase, todo, cur, snap, tries, faults>>

\* End of the poll loop: a sleeve read as SHADOW goes on to the cancel loop.
PollDone ==
    /\ pc = "poll" /\ todo = {}
    /\ IF tick = "SHADOW"
       THEN pc' = "cancel" /\ phase' = "cancel" /\ todo' = {o \in OpenRows : acked[o]}
       ELSE pc' = "rules" /\ UNCHANGED <<phase, todo>>
    /\ UNCHANGED <<sleeve, rows, market, tick, cur, snap, tries, faults>>

CancelDone ==
    /\ pc = "cancel" /\ todo = {}
    /\ pc' = "rules"
    /\ UNCHANGED <<sleeve, rows, market, tick, phase, todo, cur, snap, tries, faults>>

EndTick ==
    /\ pc = "rules"
    /\ pc' = "idle"
    /\ UNCHANGED <<sleeve, rows, market, tick, phase, todo, cur, snap, tries, faults>>

Skip(o) == pc' = phase /\ todo' = todo \ {o}
Fetched(o) == [status |-> broker[o], filled |-> filled[o], priced |-> priced[o],
               known |-> recorded[o]]

-----------------------------------------------------------------------------
(* poll_and_apply_fills *)

\* get_order answers: fetch the broker's view of an acknowledged row.
PollFetch(o) ==
    /\ pc = "poll" /\ o \in todo /\ acked[o] /\ Visible(o)
    /\ pc' = "record" /\ cur' = o /\ snap' = Fetched(o)
    /\ UNCHANGED <<sleeve, rows, market, tick, phase, todo, tries, faults>>

\* Mutant: rows without a broker id are passed over, not looked up.
PollAdopt_Skips(o) ==
    /\ pc = "poll" /\ o \in todo /\ ~acked[o] /\ Visible(o)
    /\ Skip(o)
    /\ UNCHANGED <<sleeve, rows, market, tick, phase, cur, snap, tries, faults>>

\* A row without broker id is looked up by its client_order_id and adopted.
PollAdopt(o) ==
    /\ pc = "poll" /\ o \in todo /\ ~acked[o] /\ Visible(o)
    /\ acked' = [acked EXCEPT ![o] = TRUE]
    /\ pc' = "record" /\ cur' = o /\ snap' = Fetched(o)
    /\ UNCHANGED <<sleeve, status, recorded, market, tick, phase, todo, tries, faults>>

\* ... or, on HTTP 404, declared never to have reached the broker.
PollNeverLanded(o) ==
    /\ pc = "poll" /\ o \in todo /\ ~acked[o] /\ ~Visible(o)
    /\ status' = [status EXCEPT ![o] = "rejected"]
    /\ Skip(o)
    /\ UNCHANGED <<sleeve, acked, recorded, market, tick, phase, cur, snap, tries, faults>>

\* HTTP 404 on an acknowledged row is only a broker error: next tick.
PollMissing(o) ==
    /\ pc = "poll" /\ o \in todo /\ acked[o] /\ ~Visible(o)
    /\ Skip(o)
    /\ UNCHANGED <<sleeve, rows, market, tick, phase, cur, snap, tries, faults>>

\* The broker does not answer the read: the row waits for the next tick.
PollOutage(o) ==
    /\ pc = "poll" /\ o \in todo
    /\ faults < MaxFaults /\ faults' = faults + 1
    /\ Skip(o)
    /\ UNCHANGED <<sleeve, rows, market, tick, phase, cur, snap, tries>>

-----------------------------------------------------------------------------
(* _record_new_fill_delta, shared by the poll and the cancel loop *)

FillDelta == snap.filled - snap.known

\* Mutant: an unpriced fill is passed over and the status written all the same.
DeferFill_StatusAnyway ==
    /\ pc = "record" /\ snap.filled > snap.known /\ ~snap.priced
    /\ pc' = "status"
    /\ UNCHANGED <<sleeve, rows, market, tick, phase, todo, cur, snap, tries, faults>>

\* A new quantity without a usable price: neither booked nor passed over.
DeferFill ==
    /\ pc = "record" /\ snap.filled > snap.known /\ ~snap.priced
    /\ Skip(cur)
    /\ UNCHANGED <<sleeve, rows, market, tick, phase, cur, snap, tries, faults>>

RecordFill ==
    /\ pc = "record" /\ (snap.filled > snap.known => snap.priced)
    /\ recorded' = IF snap.filled > snap.known
                   THEN [recorded EXCEPT ![cur] = @ + FillDelta]
                   ELSE recorded
    /\ pc' = "status"
    /\ UNCHANGED <<sleeve, status, acked, market, tick, phase, todo, cur, snap, tries, faults>>

\* The status the loop writes: the broker's own, except that the cancel loop
\* turns a still-working order into "canceled".
Verdict == IF phase = "cancel" /\ snap.status \notin Terminal
           THEN "canceled" ELSE snap.status

WriteStatus ==
    /\ pc = "status"
    /\ status' = [status EXCEPT ![cur] = Verdict]
    /\ Skip(cur)
    /\ UNCHANGED <<sleeve, acked, recorded, market, tick, phase, cur, snap, tries, faults>>

-----------------------------------------------------------------------------
(* cancel_open_orders_for_shadow_sleeve *)

\* DELETE accepted; a closed order is left as it is (a filled bracket parent
\* accepts the DELETE for its legs).
CancelAccepted(o) ==
    /\ pc = "cancel" /\ o \in todo /\ Visible(o)
    /\ \/ broker[o] \in Closed /\ UNCHANGED <<broker, astray>>
       \/ /\ broker[o] \in Working /\ UNCHANGED astray
          /\ broker' = [broker EXCEPT ![o] = "canceled"]
       \/ /\ "slowCancel" \in Faults /\ broker[o] \in Working
          /\ broker' = [broker EXCEPT ![o] = "pending_cancel"]
          /\ astray' = astray \cup {o}
    /\ pc' = "repoll" /\ cur' = o
    /\ UNCHANGED <<sleeve, rows, host, filled, priced, wire, tick, phase, todo,
                   snap, tries, faults>>

\* DELETE refused: unknown at this host, already closed, or no answer.
CancelRefused(o) ==
    /\ pc = "cancel" /\ o \in todo
    /\ \/ ~Visible(o) /\ UNCHANGED faults
       \/ broker[o] \in Closed /\ UNCHANGED faults
       \/ faults < MaxFaults /\ faults' = faults + 1
    /\ Skip(o)
    /\ UNCHANGED <<sleeve, rows, market, tick, phase, cur, snap, tries>>

\* Mutant: no poll after the DELETE; the books' own count is taken for the truth.
CancelRepoll_Blind ==
    /\ pc = "repoll" /\ Visible(cur)
    /\ pc' = "record"
    /\ snap' = [status |-> "open", filled |-> recorded[cur], priced |-> TRUE,
                known |-> recorded[cur]]
    /\ UNCHANGED <<sleeve, rows, market, tick, phase, todo, cur, tries, faults>>

\* Broker truth is fetched again before any terminal status is written.
CancelRepoll ==
    /\ pc = "repoll" /\ Visible(cur)
    /\ pc' = "record" /\ snap' = Fetched(cur)
    /\ UNCHANGED <<sleeve, rows, market, tick, phase, todo, cur, tries, faults>>

CancelRepollFails ==
    /\ pc = "repoll"
    /\ faults < MaxFaults /\ faults' = faults + 1
    /\ Skip(cur)
    /\ UNCHANGED <<sleeve, rows, market, tick, phase, cur, snap, tries>>

-----------------------------------------------------------------------------
(* _place_order_with_reservation and _request_with_retry *)

\* A rule of an armed sleeve fires: the RESERVED row precedes the broker call.
Place(o) ==
    /\ pc = "rules" /\ tick \in {"PAPER", "LIVE"} /\ status[o] = "absent"
    /\ status' = [status EXCEPT ![o] = "RESERVED"]
    /\ pc' = "post" /\ cur' = o /\ tries' = 1
    /\ UNCHANGED <<sleeve, acked, recorded, market, tick, phase, todo, snap, faults>>

\* The broker processes a POST: one order per client_order_id.
Accept(o) ==
    /\ broker[o] = "none"
    /\ broker' = [broker EXCEPT ![o] = "open"]
    /\ host' = [host EXCEPT ![o] = resolve_host(tick)]
    /\ UNCHANGED <<filled, priced>>

\* HTTP 200: the broker's order id is attached to the row.
PostAck ==
    /\ pc = "post" /\ Accept(cur)
    /\ acked' = [acked EXCEPT ![cur] = TRUE]
    /\ pc' = "rules"
    /\ UNCHANGED <<sleeve, status, recorded, wire, astray, tick, phase, todo, cur, snap, tries, faults>>

\* Any other answer that is not retried (a 4xx; 422 on a duplicate id), or the
\* last attempt's transport error: the row is closed as rejected.
PostRejected ==
    /\ pc = "post"
    /\ status' = [status EXCEPT ![cur] = "rejected"]
    /\ pc' = "rules"
    /\ UNCHANGED <<sleeve, acked, recorded, market, tick, phase, todo, cur, snap, tries, faults>>

\* A transport error, 429 or 5xx before the broker processed the request.
PostRetry ==
    /\ pc = "post" /\ tries < MaxTries
    /\ tries' = tries + 1
    /\ UNCHANGED <<sleeve, rows, market, pc, tick, phase, todo, cur, snap, faults>>

\* The same, after the broker processed it: the reply is what was lost.
PostLostReply ==
    /\ "lostReply" \in Faults
    /\ pc = "post" /\ Accept(cur) /\ astray' = astray \cup {cur}
    /\ IF tries < MaxTries
       THEN tries' = tries + 1 /\ UNCHANGED <<status, pc>>
       ELSE status' = [status EXCEPT ![cur] = "rejected"] /\ pc' = "rules" /\ UNCHANGED tries
    /\ UNCHANGED <<sleeve, acked, recorded, wire, tick, phase, todo, cur, snap, faults>>

\* A timeout is not retried; the request was processed, was lost, or is late.
PostTimeout ==
    /\ pc = "post" /\ pc' = "lookup"
    /\ \/ Accept(cur) /\ UNCHANGED <<wire, astray>>
       \/ UNCHANGED market
       \/ /\ "lateArrival" \in Faults /\ broker[cur] = "none"
          /\ wire' = wire \cup {cur} /\ host' = [host EXCEPT ![cur] = resolve_host(tick)]
          /\ astray' = astray \cup {cur} /\ UNCHANGED <<broker, filled, priced>>
    /\ UNCHANGED <<sleeve, rows, tick, phase, todo, cur, snap, tries, faults>>

\* get_order_by_client_order_id right after the timeout.
LookupFound ==
    /\ pc = "lookup" /\ Visible(cur)
    /\ acked' = [acked EXCEPT ![cur] = TRUE]
    /\ pc' = "rules"
    /\ UNCHANGED <<sleeve, status, recorded, market, tick, phase, todo, cur, snap, tries, faults>>

LookupNeverLanded ==
    /\ pc = "lookup" /\ ~Visible(cur)
    /\ status' = [status EXCEPT ![cur] = "rejected"]
    /\ pc' = "rules"
    /\ UNCHANGED <<sleeve, acked, recorded, market, tick, phase, todo, cur, snap, tries, faults>>

\* Mutant: an unanswered lookup releases the reservation.
LookupFails_Rejects ==
    /\ pc = "lookup"
    /\ faults < MaxFaults /\ faults' = faults + 1
    /\ status' = [status EXCEPT ![cur] = "rejected"]
    /\ pc' = "rules"
    /\ UNCHANGED <<sleeve, acked, recorded, market, tick, phase, todo, cur, snap, tries>>

\* No answer either: the row stays RESERVED for the next tick's poll.
LookupFails ==
    /\ pc = "lookup"
    /\ faults < MaxFaults /\ faults' = faults + 1
    /\ pc' = "rules"
    /\ UNCHANGED <<sleeve, rows, market, tick, phase, todo, cur, snap, tries>>

-----------------------------------------------------------------------------
(* The environment: process death, the operator and the broker. *)

Crash ==
    /\ pc # "idle" /\ faults < MaxFaults
    /\ pc' = "idle" /\ faults' = faults + 1
    /\ UNCHANGED <<sleeve, rows, market, tick, phase, todo, cur, snap, tries>>

\* Arm, disarm, arm-live and the reconciliation pause, as sleeve status writes.
SetStatus(s) ==
    /\ sleeve # s /\ sleeve' = s
    /\ UNCHANGED <<rows, market, engine, faults>>

BrokerLands(o) ==
    /\ o \in wire /\ broker[o] = "none"
    /\ broker' = [broker EXCEPT ![o] = "open"] /\ wire' = wire \ {o}
    /\ UNCHANGED <<sleeve, rows, host, filled, priced, astray, engine, faults>>

BrokerFill(o) ==
    /\ broker[o] \in Working
    /\ \E q \in (filled[o] + 1)..Qty, p \in BOOLEAN :
        /\ filled' = [filled EXCEPT ![o] = q]
        /\ priced' = [priced EXCEPT ![o] = p]
        /\ broker' = IF q = Qty THEN [broker EXCEPT ![o] = "filled"] ELSE broker
    /\ UNCHANGED <<sleeve, rows, host, wire, astray, engine, faults>>

BrokerPrices(o) ==
    /\ ~priced[o] /\ priced' = [priced EXCEPT ![o] = TRUE]
    /\ UNCHANGED <<sleeve, rows, broker, host, filled, wire, astray, engine, faults>>

\* A day order ends unfilled, or a pending cancel completes.
BrokerCloses(o) ==
    /\ broker[o] \in Working
    /\ broker' = [broker EXCEPT ![o] = IF broker[o] = "open" THEN "expired" ELSE "canceled"]
    /\ UNCHANGED <<sleeve, rows, host, filled, priced, wire, astray, engine, faults>>

-----------------------------------------------------------------------------
Poll == \/ PollDone
        \/ \E o \in Order : \/ PollFetch(o) \/ PollAdopt(o) \/ PollNeverLanded(o)
                            \/ PollMissing(o) \/ PollOutage(o)
Cancel == \/ CancelDone \/ CancelRepoll \/ CancelRepollFails
          \/ \E o \in Order : CancelAccepted(o) \/ CancelRefused(o)
Book == DeferFill \/ RecordFill \/ WriteStatus
Submit == \/ \E o \in Order : Place(o)
          \/ PostAck \/ PostRejected \/ PostRetry \/ PostLostReply \/ PostTimeout
          \/ LookupFound \/ LookupNeverLanded \/ LookupFails

Engine == BeginTick \/ Poll \/ Book \/ Cancel \/ Submit \/ EndTick
Broker == \E o \in Order : BrokerLands(o) \/ BrokerFill(o) \/ BrokerPrices(o) \/ BrokerCloses(o)

Next == Engine \/ Crash \/ (\E s \in Modes : SetStatus(s)) \/ Broker

Spec == Init /\ [][Next]_vars

\* One tick a minute while the daemon runs, each tick taken to its end unless
\* the process dies (MaxFaults bounds that): weak fairness of the engine.  The
\* broker publishes the price of every fill.
EngineFair == WF_vars(Engine) /\ \A o \in Order : WF_vars(BrokerPrices(o))
TickSpec == Spec /\ EngineFair

-----------------------------------------------------------------------------
TypeOK ==
    /\ sleeve \in SleeveStatus
    /\ status \in [Order -> RowStatus]
    /\ acked \in [Order -> BOOLEAN]
    /\ recorded \in [Order -> 0..Qty]
    /\ broker \in [Order -> {"none"} \cup Working \cup Closed]
    /\ host \in [Order -> {"paper", "live"}]
    /\ filled \in [Order -> 0..Qty]
    /\ priced \in [Order -> BOOLEAN]
    /\ wire \in SUBSET Order
    /\ pc \in {"idle", "poll", "record", "status", "cancel", "repoll", "rules",
               "post", "lookup"}
    /\ tick \in SleeveStatus
    /\ phase \in {"poll", "cancel"}
    /\ todo \in SUBSET Order
    /\ cur \in Order
    /\ snap \in [status : {"none"} \cup Working \cup Closed, filled : 0..Qty,
                 priced : BOOLEAN, known : 0..Qty]
    /\ tries \in 0..MaxTries
    /\ faults \in 0..MaxFaults
    /\ astray \subseteq Order

\* Shares the broker has bought or may still buy for the order.
Exposure(o) == IF broker[o] \in Working \/ o \in wire THEN Qty ELSE filled[o]
\* Shares the sleeve's books hold cash against: the reservation of a row that
\* is not terminal, the recorded fills of one that is.
Committed(o) == IF NonTerminal(o) THEN Qty ELSE recorded[o]

\* The books never hold less cash against an order than the broker can spend
\* on it: neither a live order without its reservation nor a lost fill.
BookCoversBroker == \A o \in Order : Committed(o) >= Exposure(o)

\* No share is booked twice and none that the broker did not report: polling,
\* adoption and the post-cancel poll all book against the same cumulative count.
NeverOverRecorded == \A o \in Order : recorded[o] <= filled[o]

\* What the books can lose, and by what alone.  With every fault there is, on
\* both hosts and in every mode, the books hold less against an order than the
\* broker can spend on it, or has, only if the reply to its POST was lost, its
\* POST landed after the client gave up, its cancel was only pending when it was
\* written as done, or a tick asked the other host.  Crashes, timeouts, unanswered
\* reads and unpriced fills are no such cause, at any step (_request_with_retry,
\* poll_and_apply_fills, cancel_open_orders_for_shadow_sleeve).
OnlyAstrayAreLost == \A o \in Order \ astray : Committed(o) >= Exposure(o)

\* What is settled stays settled: no tick, adoption or cancel of a later tick
\* reopens a terminal row or books another fill on it.
SettledForGood ==
    [][\A o \in Order : status[o] \in Terminal =>
           status'[o] = status[o] /\ recorded'[o] = recorded[o]]_vars

\* Every reserved order that the broker has done with (or never got) is
\* eventually settled with all its fills booked, whatever acks, answers or
\* processes were lost on the way.
EveryOrderSettles ==
    \A o \in Order :
        (<>[](status[o] # "absent" /\ broker[o] \notin Working)) =>
            <>[](status[o] \in Terminal /\ recorded[o] = filled[o])

\* The kill switch: once a sleeve stays disarmed, the ticks cancel every order
\* it still has working at the broker, whichever acks were lost before.
DisarmStopsOrders ==
    (<>[](sleeve = "SHADOW")) => <>[](\A o \in Order : broker[o] \notin Working)

\* How an order stands, seen from outside: the books of a sleeve implement
\* OrderBook, share for share.
Intent(o) == CASE status[o] = "absent" -> "none"
               [] status[o] \in Terminal -> "settled"
               [] OTHER -> "open"

Promise == INSTANCE OrderBook WITH
    intent <- [o \in Order |-> Intent(o)], bought <- filled, book <- recorded

\* Every step of the tick, of the broker and of a crash is a step of OrderBook
\* or leaves the order as it was: no settlement before the last fill is booked,
\* no fill after it, no order executed that holds no reservation.
ImplementsOrderBook == Promise!Spec

-----------------------------------------------------------------------------
\* The inductive strengthening, for every fault, host and mode.  Of an order that
\* is not astray, what is settled is complete, and a tick under way asks the host
\* that has it.
Told(o) ==
    /\ status[o] \in Terminal => broker[o] \notin Working /\ recorded[o] = filled[o]
    /\ pc # "idle" /\ NonTerminal(o) /\ broker[o] # "none" => host[o] = resolve_host(tick)
RowInv ==
    \A o \in Order :
        /\ status[o] = "absent" => broker[o] = "none" /\ o \notin wire
        /\ broker[o] = "none" => ~acked[o] /\ filled[o] = 0
        /\ recorded[o] <= filled[o]
        /\ o \in wire => o \in astray
        /\ o \notin astray => Told(o)

\* What each program counter may rely on: the rows at work are not terminal, what
\* was fetched is not ahead of the broker, and what was fetched closed is final.
EngineInv ==
    /\ pc \in {"poll", "cancel", "record", "status", "repoll"} =>
           \A o \in todo : NonTerminal(o)
    /\ pc \in {"record", "status", "repoll", "post", "lookup"} => NonTerminal(cur)
    /\ pc = "cancel" => phase = "cancel"
    /\ pc = "poll" => phase = "poll"
    /\ pc = "post" => broker[cur] = "none" \/ cur \in astray
    /\ pc = "repoll" => phase = "cancel" /\ (broker[cur] \in Closed \/ cur \in astray)
    /\ pc \in {"record", "status"} =>
           /\ snap.filled <= filled[cur]
           /\ snap.status # "none"
           /\ snap.status \in Closed => broker[cur] = snap.status /\ filled[cur] = snap.filled
           /\ phase = "cancel" => snap.status \in Closed \/ cur \in astray
    /\ pc = "record" => snap.known = recorded[cur]
    /\ pc = "status" => recorded[cur] >= snap.filled

IInv == TypeOK /\ RowInv /\ EngineInv
=============================================================================
