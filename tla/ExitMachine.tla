----------------------------- MODULE ExitMachine -----------------------------
(***************************************************************************)
(* The exit machine of one symphony: the persisted bot_state entry, the    *)
(* per-tick decisions of math_engine.py and the cycle of                   *)
(* alpha_bot_execution.main that composes them, from the data phase to the *)
(* execution queue.  A cycle holds the engine lock, so it is one step here *)
(* (EngineRuns looks inside it).                                           *)
(*                                                                         *)
(* Returns are integers, in any unit the thresholds are multiples of; the   *)
(* Monte Carlo reading is one of five bands, since the code compares it    *)
(* with three thresholds only; the stop distance (volatility, time squeeze,*)
(* parabolic squeeze) is an input.  Variable h is history: it counts what  *)
(* actually happened, so that the counters of the code can be judged.      *)
(***************************************************************************)
EXTENDS Integers

CONSTANTS
    Returns,        \* last_percent_change readings
    Distances,      \* compute_active_trailing_stop results
    Opinions,       \* Monte Carlo bands that occur
    VwapGates,      \* coverage above the floor and price under VWAP: subset of BOOLEAN
    Graces,         \* in the open-window grace: subset of BOOLEAN
    Regimes,        \* apply_regime_exit_adjustment results
    LiveModes,      \* LIVE_EXECUTION and live_mode: subset of BOOLEAN
    MAGNITUDE_FLOOR_PCT, ACTIVATION, VWAP_CROSS_HWM_PCT, VWAP_BLEED_ARM_PCT,
    DISARM_CONFIRM_TICKS, TP_CONFIRM_TICKS, VWAP_BREAK_CONFIRM_TICKS,
    VWAP_BLEED_TICKS, HWM_HOLD_TICKS_THRESHOLD,
    Cap,            \* bound: counters above every threshold are alike
    MaxMoves,       \* bound: positions opened or closed at Composer
    MaxDays,        \* bound: new dates (or LIVE_EXECUTION toggles)
    MaxMisses,      \* bound: cycles that see no symphony data or no price history
    MaxFailures     \* bound: sell orders Composer refuses

\* Monte Carlo bands: absent, below TAKE_PROFIT_MC_PCT, up to
\* TRIGGER_THRESHOLD_PCT, up to MC_BREAKDOWN_THRESHOLD, from there on.
Opinion == {"none", "ahead", "band", "between", "breakdown"}
Reason == {"VWAP Breakdown", "Take-Profit", "VWAP Bleed Cut", "Trailing Stop"}
NoMark == -999

ASSUME ReturnAssumption == Returns \subseteq Int /\ \A r \in Returns : r > NoMark
ASSUME InputAssumption ==
    /\ Distances \subseteq Nat /\ Opinions \subseteq Opinion
    /\ VwapGates \subseteq BOOLEAN /\ Graces \subseteq BOOLEAN /\ LiveModes \subseteq BOOLEAN
    /\ MAGNITUDE_FLOOR_PCT \in Nat /\ ACTIVATION \in Int
    /\ VWAP_CROSS_HWM_PCT \in Int /\ VWAP_BLEED_ARM_PCT \in Int
ASSUME TickAssumption ==
    /\ Cap \in Nat
    /\ Regimes \subseteq 1..Cap
    /\ DISARM_CONFIRM_TICKS \in 1..Cap /\ TP_CONFIRM_TICKS \in 1..Cap
    /\ VWAP_BREAK_CONFIRM_TICKS \in 1..Cap /\ VWAP_BLEED_TICKS \in 1..Cap
    /\ HWM_HOLD_TICKS_THRESHOLD \in 1..Cap
ASSUME BoundAssumption ==
    MaxMoves \in Nat /\ MaxDays \in Nat /\ MaxMisses \in Nat /\ MaxFailures \in Nat

VARIABLES
    e,          \* bot_state[symphony_id]
    held,       \* the position at Composer is positive
    moved,      \* held changed since the last cycle
    rolled,     \* bot_state["date"] (or last_execution_mode) is out of date
    gate,       \* EXECUTION_START_TIME has been reached
    regime,     \* exit ticks of today's cached regime label
    fired,      \* what the last cycle queued, "none" if nothing
    h,          \* history of the position since it was opened or the day began
    used        \* how much of each bound is spent

vars == <<e, held, moved, rolled, gate, regime, fired, h, used>>

Entry == [armed : BOOLEAN, disarm_confirm_count : 0..Cap, below_stop_count : 0..Cap,
          breakeven_locked : BOOLEAN, hwm_hold_ticks : 0..Cap,
          tp_armed : BOOLEAN, above_tp_count : 0..Cap,
          vwap_ticks : 0..Cap, vwap_bleed_ticks : 0..Cap,
          triggered : BOOLEAN, high_water_mark : Int, last_holdings_positive : BOOLEAN]

\* Consecutive evaluated ticks of each kind, the best return seen, the exits
\* taken, and whether the position that was exited is still the one held.
History == [breach : 0..Cap, recovery : 0..Cap, bleed : 0..Cap,
            break : 0..Cap, peak : Int, exits : 0..2, stale : BOOLEAN, blind : 0..Cap]
NoHistory == [breach |-> 0, recovery |-> 0, bleed |-> 0, break |-> 0,
              peak |-> NoMark, exits |-> 0, stale |-> FALSE, blind |-> 0]

Bump(n) == IF n < Cap THEN n + 1 ELSE n
Run(n, continues) == IF continues THEN Bump(n) ELSE 0

\* What a cycle reads: the return, the stop distance, the Monte Carlo band, the
\* System A gate and the open-window grace.
Reading == [ret : Returns, dist : Distances, mc : Opinions, vwap : VwapGates,
            grace : Graces]

Init ==
    /\ held \in BOOLEAN
    /\ e = [armed |-> FALSE, disarm_confirm_count |-> 0, below_stop_count |-> 0,
            breakeven_locked |-> FALSE, hwm_hold_ticks |-> 0,
            tp_armed |-> FALSE, above_tp_count |-> 0, vwap_ticks |-> 0,
            vwap_bleed_ticks |-> 0, triggered |-> FALSE, high_water_mark |-> NoMark,
            last_holdings_positive |-> held]
    /\ moved = FALSE /\ rolled = FALSE /\ gate = FALSE
    /\ regime \in Regimes
    /\ fired = "none" /\ h = NoHistory
    /\ used = [moves |-> 0, days |-> 0, misses |-> 0, failures |-> 0]

-----------------------------------------------------------------------------
(* math_engine.py: the decisions of one tick, as functions of the entry. *)

\* Mutant: an absent Monte Carlo reading no longer arms the stop.
compute_arm_disarm_decision_FailClosed(s, mc) ==
    IF s.triggered THEN s
    ELSE IF ~s.armed THEN [s EXCEPT !.armed = (mc = "band"), !.disarm_confirm_count = 0]
    ELSE IF mc = "ahead" /\ s.disarm_confirm_count + 1 >= DISARM_CONFIRM_TICKS
    THEN [s EXCEPT !.armed = FALSE, !.disarm_confirm_count = 0, !.below_stop_count = 0]
    ELSE [s EXCEPT !.disarm_confirm_count = Run(@, mc = "ahead")]

\* Mutant: a tick out of recovery leaves the disarm ladder where it was.
compute_arm_disarm_decision_NoReset(s, mc) ==
    IF s.triggered THEN s
    ELSE IF ~s.armed
    THEN [s EXCEPT !.armed = mc \in {"band", "none"}, !.disarm_confirm_count = 0]
    ELSE IF mc = "ahead" /\ s.disarm_confirm_count + 1 >= DISARM_CONFIRM_TICKS
    THEN [s EXCEPT !.armed = FALSE, !.disarm_confirm_count = 0, !.below_stop_count = 0]
    ELSE [s EXCEPT !.disarm_confirm_count = IF mc = "ahead" THEN Bump(@) ELSE @]

\* Arms on the band and on an absent reading, disarms after enough consecutive
\* recovered ticks; the caller then clears the exit confirmation.
compute_arm_disarm_decision(s, mc) ==
    IF s.triggered THEN s
    ELSE IF ~s.armed
    THEN [s EXCEPT !.armed = mc \in {"band", "none"}, !.disarm_confirm_count = 0]
    ELSE IF mc = "ahead" /\ s.disarm_confirm_count + 1 >= DISARM_CONFIRM_TICKS
    THEN [s EXCEPT !.armed = FALSE, !.disarm_confirm_count = 0, !.below_stop_count = 0]
    ELSE [s EXCEPT !.disarm_confirm_count = Run(@, mc = "ahead")]

compute_breakeven_update(s, ret) ==
    LET ticks == Run(s.hwm_hold_ticks, ret >= ACTIVATION)
    IN  [s EXCEPT !.hwm_hold_ticks = ticks,
                  !.breakeven_locked = @ \/ ticks >= HWM_HOLD_TICKS_THRESHOLD]

safe_hwm(s, i) == IF s.high_water_mark # NoMark THEN s.high_water_mark ELSE i.ret
stop_trigger_level(s, i) ==
    LET base == safe_hwm(s, i) - i.dist
    IN  IF s.breakeven_locked /\ base < 0 THEN 0 ELSE base

\* The tick qualifies: far enough under the stop, and the Monte Carlo reading
\* either confirms the breakdown or is absent.
below_stop_condition(s, i) ==
    /\ i.ret <= stop_trigger_level(s, i) - MAGNITUDE_FLOOR_PCT
    /\ i.mc \in {"none", "breakdown"}

compute_exit_confirmation(s, i) ==
    IF s.armed /\ ~s.triggered
    THEN [s EXCEPT !.below_stop_count = Run(@, below_stop_condition(s, i))]
    ELSE s

\* The take-profit ladder.  A reading "ahead" arms it, and leaves an armed
\* ladder as it is.
compute_tp_confirmation(s, i) ==
    IF s.triggered \/ (s.tp_armed /\ i.mc = "ahead") THEN s
    ELSE IF i.mc = "ahead" THEN [s EXCEPT !.tp_armed = TRUE, !.above_tp_count = 0]
    ELSE IF ~s.tp_armed THEN s
    ELSE IF i.mc = "none" THEN [s EXCEPT !.above_tp_count = 0]
    ELSE IF s.above_tp_count + 1 >= TP_CONFIRM_TICKS /\ i.ret <= 0
    THEN [s EXCEPT !.tp_armed = FALSE, !.above_tp_count = 0]
    ELSE [s EXCEPT !.above_tp_count = Bump(@)]

broken_condition(s, i) ==
    i.vwap /\ safe_hwm(s, i) >= VWAP_CROSS_HWM_PCT /\ i.ret < safe_hwm(s, i)
bleed_condition(i) == i.ret <= VWAP_BLEED_ARM_PCT

\* Mutant: the gate of System A also wipes the bleed ladder it does not own,
\* and a bounce above the bleed arm does not.
compute_vwap_breakdown_update_Coupled(s, i) ==
    IF s.triggered THEN s
    ELSE [s EXCEPT
            !.vwap_bleed_ticks = IF ~i.vwap THEN 0
                                 ELSE IF bleed_condition(i) THEN Bump(@) ELSE @,
            !.vwap_ticks = Run(@, broken_condition(s, i))]

compute_vwap_breakdown_update(s, i) ==
    IF s.triggered THEN s
    ELSE [s EXCEPT !.vwap_bleed_ticks = Run(@, bleed_condition(i)),
                   !.vwap_ticks = Run(@, broken_condition(s, i))]

-----------------------------------------------------------------------------
(* alpha_bot_execution.main *)

\* disarm_confirm_count is left alone.
wipe_transient_state(s) ==
    [s EXCEPT !.high_water_mark = NoMark, !.armed = FALSE, !.tp_armed = FALSE,
              !.triggered = FALSE, !.breakeven_locked = FALSE, !.below_stop_count = 0,
              !.above_tp_count = 0, !.vwap_ticks = 0, !.vwap_bleed_ticks = 0,
              !.hwm_hold_ticks = 0]

\* The first cycle of a date (or after a mode toggle) wipes and saves at once.
Started == IF rolled THEN wipe_transient_state(e) ELSE e

Reopened == ~e.last_holdings_positive /\ held

\* Mutant: the reset of a re-opened position keeps the old high-water mark.
Reset_KeepsMark(s, ret) ==
    [wipe_transient_state(s) EXCEPT !.high_water_mark = s.high_water_mark,
                                    !.disarm_confirm_count = 0]

\* The zero -> positive reset.
Reset(s, ret) == [wipe_transient_state(s) EXCEPT !.high_water_mark = ret,
                                                 !.disarm_confirm_count = 0]

\* Mutant: the entry never learns that the position was sold to cash.
DataPhase_NeverCash(ret) ==
    LET s == IF Reopened THEN Reset(Started, ret) ELSE Started
    IN  [s EXCEPT !.high_water_mark = IF ~s.triggered /\ ret > @ THEN ret ELSE @,
                  !.last_holdings_positive = @ \/ held]

\* Reset if the position was re-opened, raise the high-water mark, note whether
\* the position is positive.
DataPhase(ret) ==
    LET s == IF Reopened THEN Reset(Started, ret) ELSE Started
    IN  [s EXCEPT !.high_water_mark = IF ~s.triggered /\ ret > @ THEN ret ELSE @,
                  !.last_holdings_positive = held]

\* The decisions of the action phase, in the order main makes them.
Decide(s, i) ==
    compute_vwap_breakdown_update(
        compute_tp_confirmation(
            compute_exit_confirmation(
                compute_breakeven_update(
                    compute_arm_disarm_decision(s, i.mc), i.ret), i), i), i)

\* Mutant: the exits do not look at the triggered flag.
Fires_AfterExit(s, d, i) ==
    {r \in Reason :
        \/ /\ r = "Trailing Stop" /\ d.armed /\ below_stop_condition(d, i)
           /\ d.below_stop_count >= regime
        \/ /\ r = "Take-Profit" /\ s.tp_armed /\ i.mc \in Opinion \ {"none", "ahead"}
           /\ d.above_tp_count >= TP_CONFIRM_TICKS /\ i.ret > 0
        \/ r = "VWAP Breakdown" /\ ~i.grace /\ d.vwap_ticks >= VWAP_BREAK_CONFIRM_TICKS
        \/ r = "VWAP Bleed Cut" /\ ~i.grace /\ d.vwap_bleed_ticks >= VWAP_BLEED_TICKS}

\* The exits that fire, given the entry before and after Decide.
FiresAt(confirm, s, d, i) ==
    IF d.triggered THEN {}
    ELSE {r \in Reason :
        \/ /\ r = "Trailing Stop" /\ d.armed /\ below_stop_condition(d, i)
           /\ d.below_stop_count >= confirm
        \/ /\ r = "Take-Profit" /\ s.tp_armed /\ i.mc \in Opinion \ {"none", "ahead"}
           /\ d.above_tp_count >= TP_CONFIRM_TICKS /\ i.ret > 0
        \/ r = "VWAP Breakdown" /\ ~i.grace /\ d.vwap_ticks >= VWAP_BREAK_CONFIRM_TICKS
        \/ r = "VWAP Bleed Cut" /\ ~i.grace /\ d.vwap_bleed_ticks >= VWAP_BLEED_TICKS}
Fires(s, d, i) == FiresAt(regime, s, d, i)

resolve_trigger_priority(S) ==
    IF S = {} THEN "none"
    ELSE IF "VWAP Breakdown" \in S THEN "VWAP Breakdown"
    ELSE IF "Take-Profit" \in S THEN "Take-Profit"
    ELSE IF "VWAP Bleed Cut" \in S THEN "VWAP Bleed Cut"
    ELSE "Trailing Stop"

\* What the execution queue writes after a sell that went through.
Exited(d) == [d EXCEPT !.armed = FALSE, !.tp_armed = FALSE, !.triggered = TRUE,
                       !.high_water_mark = NoMark]

\* The history of the position, from the readings alone; after the exit there
\* is no more to count.
NextHistory(d, i) ==
    LET old == IF rolled \/ Reopened THEN NoHistory ELSE h
    IN  IF d.triggered THEN [NoHistory EXCEPT !.exits = old.exits, !.stale = old.stale]
        ELSE [old EXCEPT
            !.breach = Run(@, d.armed /\ below_stop_condition(d, i)),
            !.recovery = Run(@, i.mc = "ahead"),
            !.bleed = Run(@, bleed_condition(i)),
            !.break = Run(@, broken_condition(d, i)),
            !.peak = IF i.ret > @ THEN i.ret ELSE @,
            !.blind = Run(@, i.mc = "none" /\ below_stop_condition(d, i))]

\* A full cycle.  A sell is sent when the symphony is live, and may be refused.
ActionCycle(i, live) ==
    LET s == DataPhase(i.ret)
        d == Decide(s, i)
        reason == resolve_trigger_priority(Fires(s, d, i))
        hist == NextHistory(d, i)
    IN  /\ gate
        /\ \/ /\ reason = "none" /\ e' = d /\ h' = hist
              /\ UNCHANGED used
           \/ /\ reason # "none"
              /\ e' = Exited(d)
              /\ h' = [hist EXCEPT !.exits = IF @ < 2 THEN @ + 1 ELSE @]
              /\ UNCHANGED used
           \/ /\ reason # "none" /\ live /\ used.failures < MaxFailures
              /\ e' = d /\ h' = hist
              /\ used' = [used EXCEPT !.failures = @ + 1]
        /\ fired' = reason
        /\ moved' = FALSE /\ rolled' = FALSE
        /\ UNCHANGED <<held, gate, regime>>

\* Before EXECUTION_START_TIME: the data phase alone, saved.
PreGateCycle(ret) ==
    /\ ~gate
    /\ e' = DataPhase(ret)
    /\ h' = LET old == IF rolled \/ Reopened THEN NoHistory ELSE h
            IN  [old EXCEPT !.peak = IF ret > @ THEN ret ELSE @]
    /\ fired' = "none" /\ moved' = FALSE /\ rolled' = FALSE
    /\ UNCHANGED <<held, gate, regime, used>>

\* Composer does not answer, or fetch_alpaca_history returns nothing: the
\* cycle ends without a save; only a wipe at its start was saved.
MissedCycle ==
    /\ used.misses < MaxMisses /\ used' = [used EXCEPT !.misses = @ + 1]
    /\ e' = Started
    /\ h' = IF rolled THEN NoHistory ELSE h
    /\ fired' = "none" /\ moved' = FALSE /\ rolled' = FALSE
    /\ UNCHANGED <<held, gate, regime>>

-----------------------------------------------------------------------------
(* The environment: Composer, the clock and the regime job. *)

\* A position is sold to cash or opened again.  One move between two cycles:
\* the engine samples holdings once a minute and cannot see more.
Move ==
    /\ ~moved /\ used.moves < MaxMoves
    /\ held' = ~held /\ moved' = TRUE
    /\ used' = [used EXCEPT !.moves = @ + 1]
    /\ h' = [h EXCEPT !.stale = @ \/ (held' /\ e.triggered)]
    /\ fired' = "none"
    /\ UNCHANGED <<e, rolled, gate, regime>>

GateOpens ==
    /\ ~gate /\ gate' = TRUE /\ fired' = "none"
    /\ UNCHANGED <<e, held, moved, rolled, regime, h, used>>

\* A new date, with the label the regime job has cached for it.
NewDay ==
    /\ ~rolled /\ used.days < MaxDays
    /\ rolled' = TRUE /\ gate' = FALSE /\ regime' \in Regimes /\ fired' = "none"
    /\ used' = [used EXCEPT !.days = @ + 1]
    /\ UNCHANGED <<e, held, moved, h>>

Cycle == \/ \E i \in Reading, live \in LiveModes : ActionCycle(i, live)
         \/ \E ret \in Returns : PreGateCycle(ret)
         \/ MissedCycle
Next == Cycle \/ Move \/ GateOpens \/ NewDay

Spec == Init /\ [][Next]_vars

-----------------------------------------------------------------------------
TypeOK ==
    /\ e \in Entry
    /\ held \in BOOLEAN /\ moved \in BOOLEAN /\ rolled \in BOOLEAN /\ gate \in BOOLEAN
    /\ regime \in Regimes
    /\ fired \in Reason \cup {"none"}
    /\ h \in History
    /\ used \in [moves : 0..MaxMoves, days : 0..MaxDays, misses : 0..MaxMisses,
                 failures : 0..MaxFailures]

\* The trailing stop, the bleed cut and the VWAP breakdown fire only on as many
\* consecutive qualifying ticks of this position and this day as each demands;
\* nothing is carried over a disarm, a re-opened position or a night.
ExitConfirmed ==
    [][/\ fired' = "Trailing Stop" => h'.breach >= regime
       /\ fired' = "VWAP Bleed Cut" => h'.bleed >= VWAP_BLEED_TICKS
       /\ fired' = "VWAP Breakdown" => h'.break >= VWAP_BREAK_CONFIRM_TICKS]_vars

\* An armed stop is disarmed only by an exit, a new position or day, or by
\* DISARM_CONFIRM_TICKS consecutive recovered ticks.
DisarmConfirmed ==
    [][e.armed /\ ~e'.armed =>
           e'.triggered \/ rolled \/ Reopened \/ h'.recovery >= DISARM_CONFIRM_TICKS]_vars

\* A position is exited at most once a day: no exit machine fires on after the
\* sale, whichever of the four sold.
ExitedOnce == h.exits <= 1

\* The high-water mark is the best return of the position since it was opened
\* or the day began, as long as it has not been exited.
MarkIsPeak == ~e.triggered => e.high_water_mark = h.peak

\* The first cycle that reads Composer after a position was re-opened never
\* manages it with the triggered flag of the one sold before it
\* (alpha_bot_execution.py: the zero -> positive reset "Closes E-1 (AlphaBot
\* exit then Composer rebuy intraday)"), as long as no cycle was missed.
ReopenedIsReset ==
    [][moved /\ ~moved' /\ used'.misses = 0 /\ held => ~h'.stale]_vars

\* An absent Monte Carlo reading never disables the protective stop: on the
\* tick that completes the confirmation, counted from the readings alone and
\* whether the stop was armed before or not, an exit is queued.
BlindStopFires ==
    [][h'.blind > h.blind /\ h'.blind >= regime => fired' # "none"]_vars

-----------------------------------------------------------------------------
(* The inductive strengthening of the properties above. *)

\* No counter of an entry that may still exit runs ahead of what happened.
CountInv ==
    ~e.triggered =>
        /\ ~e.armed => e.below_stop_count = 0
        /\ e.below_stop_count <= h.breach
        /\ e.armed => e.disarm_confirm_count <= h.recovery
        /\ e.vwap_bleed_ticks <= h.bleed
        /\ e.vwap_ticks <= h.break

ExitInv ==
    /\ e.triggered => ~e.armed
    /\ ~e.triggered => h.exits = 0
    /\ h.exits <= 1

IInv == TypeOK /\ CountInv /\ ExitInv /\ MarkIsPeak

\* What BlindStopFires rests on: the ladder of the stop has counted every blind
\* tick under it, the one that armed it included.
BlindInv == ~e.triggered => h.blind <= e.below_stop_count

\* What ReopenedIsReset rests on: as long as every cycle saved, the entry knows
\* the holdings that the last cycle saw.
SeenInv == used.misses = 0 => (moved <=> e.last_holdings_positive # held)
=============================================================================
