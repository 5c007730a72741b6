----------------------------- MODULE ExitReplay -----------------------------
(***************************************************************************)
(* The autotuner scores a parameter set by replaying the exits of past     *)
(* days (autotuner._replay_exit_tick).  The replay shares the seams of     *)
(* math_engine with the engine, and has its own orchestration: its own     *)
(* entry, gate, grace window, clock and order.  Here one day after another *)
(* runs through both, minute by minute, on the same bars: the live side is *)
(* ExitMachine with its parabolic squeeze and stop distance added.         *)
(*                                                                         *)
(* The exit ticks of the two may differ: the engine reads the label cached *)
(* last night, the replay classifies the trailing closes again.            *)
(***************************************************************************)
EXTENDS ExitMachine

CONSTANTS
    StartTimes,                 \* EXECUTION_START_TIME, in minutes after 09:30
    NTicks,                     \* minute bars of a session
    BLACKOUT,                   \* last minutes, when the engine pauses for Composer
    GRACE,                      \* VWAP_OPEN_WINDOW_GRACE_MINUTES
    PARA_THRESHOLD,             \* PARABOLIC_VELOCITY_THRESHOLD
    TimeSteps,                  \* resolution of the time squeeze
    StopDistance                \* stop distance by step of the day and by squeeze

ASSUME SessionAssumption ==
    /\ NTicks \in Nat \ {0, 1} /\ BLACKOUT \in 0..(NTicks - 1)
    /\ StartTimes \subseteq 0..(NTicks - 1) /\ GRACE \in Nat
    /\ PARA_THRESHOLD \in Int /\ TimeSteps \in Nat \ {0}
    /\ BOOLEAN \subseteq Graces
    /\ StopDistance \in [0..TimeSteps -> [BOOLEAN -> Distances]]

VARIABLES
    start,      \* EXECUTION_START_TIME
    tick,       \* the minute of the day to come
    para,       \* the rest of the live entry: para_armed and prev_return
    r, rpara,   \* state of the replayed day, split like the live entry
    confirm,    \* exit ticks of the replayed day
    out,        \* what the replay returned this minute, "none" if nothing
    running,    \* the replay has not exited yet
    clean,      \* the engine saw every minute of the day, and one position
    level       \* engine and replay have used the same distances and exit ticks

replayVars == <<start, tick, para, r, rpara, confirm, out, running, clean, level>>
allVars == <<vars, replayVars>>

NoPara == [para_armed |-> FALSE, prev_return |-> NoMark]

\* Velocity against the return of the previous action minute, none on the first.
compute_para_arm_decision(p, ret) ==
    LET before == IF p.prev_return = NoMark THEN ret ELSE p.prev_return
    IN  [p EXCEPT !.para_armed = @ \/ ret - before >= PARA_THRESHOLD,
                  !.prev_return = ret]

\* Minute t of a session that runs from minute a to minute b.
time_step(t, a, b) == ((t - a) * TimeSteps) \div (b - a)

\* The engine measures from EXECUTION_START_TIME to the close.
LiveDistance(squeezed) == StopDistance[time_step(tick, start, NTicks)][squeezed]

\* The replay measures from the first bar to the last.
ReplayDistance(squeezed) == StopDistance[time_step(tick, 0, NTicks - 1)][squeezed]

\* What both read in a minute.
Bar == [ret : Returns, mc : Opinions, vwap : VwapGates]

in_open_window_grace == tick \in start..(start + GRACE - 1)

\* Mutant: the replay acts before EXECUTION_START_TIME.
_replay_in_action_phase_Always == TRUE

_replay_in_action_phase == tick >= start

-----------------------------------------------------------------------------
(* autotuner.py *)

\* hwm is called high_water_mark, as in the entry; the literal
\* is_triggered=False of every call is the field triggered, and the last field
\* is not the replay's.
FreshState(mark) ==
    [armed |-> FALSE, disarm_confirm_count |-> 0, below_stop_count |-> 0,
     breakeven_locked |-> FALSE, hwm_hold_ticks |-> 0, tp_armed |-> FALSE,
     above_tp_count |-> 0, vwap_ticks |-> 0, vwap_bleed_ticks |-> 0,
     triggered |-> FALSE, high_water_mark |-> mark, last_holdings_positive |-> FALSE]

_fresh_replay_state == FreshState(NoMark)

\* The data phase.
Lifted(ret) == [r EXCEPT !.high_water_mark = IF ret > @ THEN ret ELSE @]

\* The reading of a bar at a stop distance.
At(b, distance) == [ret |-> b.ret, mc |-> b.mc, vwap |-> b.vwap, dist |-> distance,
                    grace |-> in_open_window_grace]

\* The distance is taken after the para-arm and before the breakeven lock.
ReplayReading(b) ==
    At(b, ReplayDistance(\/ compute_para_arm_decision(rpara, b.ret).para_armed
                         \/ r.breakeven_locked))

\* Mutant: the trailing stop is confirmed before the arm decision.
ReplayChecks_StopFirst(s, i) ==
    compute_vwap_breakdown_update(
        compute_tp_confirmation(
            compute_breakeven_update(
                compute_arm_disarm_decision(
                    compute_exit_confirmation(s, i), i.mc), i.ret), i), i)

\* The checks of an action minute, in the order of the source.
ReplayChecks(s, i) ==
    compute_vwap_breakdown_update(
        compute_tp_confirmation(
            compute_exit_confirmation(
                compute_breakeven_update(
                    compute_arm_disarm_decision(s, i.mc), i.ret), i), i), i)

\* One minute of the replay: data phase, gate, action phase.  The day ends at
\* the first exit.
_replay_exit_tick(b) ==
    \/ /\ ~running
       /\ out' = "none" /\ UNCHANGED <<r, rpara, running>>
    \/ /\ running /\ ~_replay_in_action_phase
       /\ r' = Lifted(b.ret) /\ out' = "none" /\ UNCHANGED <<rpara, running>>
    \/ /\ running /\ _replay_in_action_phase
       /\ LET s == Lifted(b.ret)
              i == ReplayReading(b)
          IN  /\ r' = ReplayChecks(s, i)
              /\ out' = resolve_trigger_priority(FiresAt(confirm, s, ReplayChecks(s, i), i))
       /\ rpara' = compute_para_arm_decision(rpara, b.ret)
       /\ running' = (out' = "none")

-----------------------------------------------------------------------------
(* The engine's minutes, with the part of the entry ExitMachine leaves out. *)

\* para_armed and prev_return after the wipe of a new day or the reset of a
\* re-opened position.
ParaStarted == IF rolled \/ Reopened THEN NoPara ELSE para

LiveReading(b) ==
    At(b, LiveDistance(\/ compute_para_arm_decision(ParaStarted, b.ret).para_armed
                       \/ DataPhase(b.ret).breakeven_locked))

\* A position re-opened after the first minute of the day starts over; the
\* replay has one position a day.
OnePosition == rolled \/ ~Reopened

Tick == tick < NTicks /\ tick' = tick + 1 /\ UNCHANGED <<start, confirm>>

ActionMinute(b, live) ==
    /\ Tick /\ tick \in start..(NTicks - BLACKOUT - 1)
    /\ ActionCycle(LiveReading(b), live)
    /\ _replay_exit_tick(b)
    /\ para' = compute_para_arm_decision(ParaStarted, b.ret)
    /\ clean' = (clean /\ OnePosition)
    /\ level' = /\ level /\ confirm = regime
                /\ \A q \in BOOLEAN : LiveDistance(q) = ReplayDistance(q)

PreGateMinute(b) ==
    /\ Tick /\ tick < start
    /\ PreGateCycle(b.ret)
    /\ _replay_exit_tick(b)
    /\ para' = ParaStarted
    /\ clean' = (clean /\ OnePosition)
    /\ UNCHANGED level

\* A minute in which Composer or the price history does not answer: the bars
\* are in the replay nevertheless.
MissedMinute(b) ==
    /\ Tick /\ tick < NTicks - BLACKOUT
    /\ MissedCycle
    /\ _replay_exit_tick(b)
    /\ para' = IF rolled THEN NoPara ELSE para
    /\ clean' = FALSE
    /\ UNCHANGED level

\* The engine returns at once; the replay does not know the blackout.
BlackoutMinute(b) ==
    /\ Tick /\ tick >= NTicks - BLACKOUT
    /\ _replay_exit_tick(b)
    /\ clean' = FALSE
    /\ UNCHANGED <<vars, para, level>>

\* The next day of the history, in a fresh state.
NextDay ==
    /\ tick = NTicks
    /\ NewDay
    /\ tick' = 0 /\ r' = _fresh_replay_state /\ rpara' = NoPara /\ running' = TRUE /\ out' = "none"
    /\ confirm' \in Regimes
    /\ clean' = TRUE /\ level' = TRUE
    /\ UNCHANGED <<start, para>>

StartTimeReached == tick >= start /\ GateOpens /\ UNCHANGED replayVars
HoldingsMove == Move /\ UNCHANGED replayVars

Minute == \E b \in Bar :
    \/ \E live \in LiveModes : ActionMinute(b, live)
    \/ PreGateMinute(b) \/ MissedMinute(b) \/ BlackoutMinute(b)

ReplayInit ==
    /\ Init
    /\ start \in StartTimes /\ tick = 0 /\ para = NoPara
    /\ r = _fresh_replay_state /\ rpara = NoPara /\ confirm \in Regimes
    /\ out = "none" /\ running = TRUE /\ clean = TRUE /\ level = TRUE

ReplayNext == Minute \/ NextDay \/ StartTimeReached \/ HoldingsMove

ReplaySpec == ReplayInit /\ [][ReplayNext]_allVars

-----------------------------------------------------------------------------
(* On a day the engine saw whole, as long as neither has exited, the replay *)
(* stands where the engine stands. *)

Faithful == clean /\ running /\ ~e.triggered /\ ~rolled

\* What the replay and the engine must agree on, whatever the stop distance.
SameLadders ==
    /\ r.high_water_mark = e.high_water_mark
    /\ r.armed = e.armed
    /\ e.armed => r.disarm_confirm_count = e.disarm_confirm_count
    /\ r.tp_armed = e.tp_armed /\ r.above_tp_count = e.above_tp_count
    /\ r.vwap_ticks = e.vwap_ticks /\ r.vwap_bleed_ticks = e.vwap_bleed_ticks
    /\ r.hwm_hold_ticks = e.hwm_hold_ticks /\ r.breakeven_locked = e.breakeven_locked
    /\ rpara = para

SameStop == level => r.below_stop_count = e.below_stop_count

SameState == Faithful => SameLadders /\ SameStop

\* The replay can differ from the engine only in a trailing stop, and not even
\* there while both took the same distances and exit ticks.
ReplayAgrees ==
    [][tick' = tick + 1 /\ (rolled \/ ~e.triggered) /\ running /\ clean' =>
           /\ level' => out' = fired'
           /\ out' # fired' => {out', fired'} = {"Trailing Stop", "none"}]_allVars
=============================================================================
