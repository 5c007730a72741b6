----------------------------- MODULE ExitProofs -----------------------------
(***************************************************************************)
(* Proofs about ExitMachine and ExitReplay, for every set of returns,      *)
(* every start time, session, blackout, grace, threshold and stop table.   *)
(*                                                                         *)
(* First ExitMachine: the decisions of a tick are a pipeline of functions  *)
(* on the entry; a lemma per function says which type it returns and       *)
(* which fields it leaves alone, and one lemma puts them together.         *)
(*                                                                         *)
(* Then ExitReplay: the engine's side of every minute is a step of         *)
(* ExitMachine, so its invariant carries over; two entries that agree on   *)
(* what the seams read agree after each seam, hence after the minute, and  *)
(* the two differ at most in the trailing stop.                            *)
(***************************************************************************)
EXTENDS ExitReplay, TLAPS


LEMMA NoMarkInt == NoMark \in Int
  BY DEF NoMark

\* A counter that counts on or starts over stays within its cap ...
LEMMA CounterFacts ==
    ASSUME NEW n \in 0..Cap, NEW p \in BOOLEAN
    PROVE  Run(n, p) \in 0..Cap /\ Bump(n) \in 0..Cap
  BY TickAssumption DEF Run, Bump

\* ... and one that is behind another stays behind when both count on.
LEMMA BumpFacts ==
    ASSUME NEW n \in 0..Cap, NEW x \in 0..Cap, n <= x
    PROVE  /\ Bump(n) <= Bump(x)
           /\ \A k \in 1..Cap : n + 1 >= k => Bump(x) >= k
  BY TickAssumption DEF Bump

LEMMA RunMonotone ==
    ASSUME NEW n \in 0..Cap, NEW x \in 0..Cap, NEW p, n <= x
    PROVE  Run(n, p) <= Run(x, p)
  BY TickAssumption DEF Run, Bump

\* Arming and disarming touches three fields, frees the exit confirmation on a
\* disarm and counts recovered ticks while armed.
LEMMA ArmFacts ==
    ASSUME NEW s \in Entry, NEW mc \in Opinion,
           NEW d, d = compute_arm_disarm_decision(s, mc)
    PROVE  /\ d \in Entry
           /\ d.triggered = s.triggered /\ d.high_water_mark = s.high_water_mark
           /\ d.breakeven_locked = s.breakeven_locked
           /\ d.vwap_ticks = s.vwap_ticks /\ d.vwap_bleed_ticks = s.vwap_bleed_ticks
           /\ s.triggered => d.armed = s.armed
           /\ d.below_stop_count \in {0, s.below_stop_count}
           /\ ~s.triggered /\ ~d.armed => d.below_stop_count \in {0} \/ ~s.armed
           /\ ~s.triggered /\ d.armed =>
                  \/ d.disarm_confirm_count = 0
                  \/ /\ s.armed /\ mc = "ahead"
                     /\ d.disarm_confirm_count = Bump(s.disarm_confirm_count)
           /\ ~s.triggered /\ s.armed /\ ~d.armed =>
                  mc = "ahead" /\ s.disarm_confirm_count + 1 >= DISARM_CONFIRM_TICKS
  <1>0. s.disarm_confirm_count \in 0..Cap BY DEF Entry
  <1>1. CASE s.triggered
    BY <1>1 DEF compute_arm_disarm_decision, Entry
  <1>2. CASE ~s.triggered /\ ~s.armed
    <2>1. d = [s EXCEPT !.armed = mc \in {"band", "none"}, !.disarm_confirm_count = 0]
      BY <1>2 DEF compute_arm_disarm_decision
    <2>2. (mc \in {"band", "none"}) \in BOOLEAN /\ 0 \in 0..Cap
      BY TickAssumption
    <2>3. d \in Entry
      BY <2>1, <2>2 DEF Entry
    <2>4. /\ d.triggered = s.triggered /\ d.high_water_mark = s.high_water_mark
          /\ d.breakeven_locked = s.breakeven_locked
          /\ d.vwap_ticks = s.vwap_ticks /\ d.vwap_bleed_ticks = s.vwap_bleed_ticks
          /\ d.below_stop_count = s.below_stop_count /\ d.disarm_confirm_count = 0
      BY <2>1 DEF Entry
    <2> QED BY <1>2, <2>3, <2>4
  <1>3. CASE /\ ~s.triggered /\ s.armed
             /\ mc = "ahead" /\ s.disarm_confirm_count + 1 >= DISARM_CONFIRM_TICKS
    <2>1. d = [s EXCEPT !.armed = FALSE, !.disarm_confirm_count = 0, !.below_stop_count = 0]
      BY <1>3 DEF compute_arm_disarm_decision
    <2>2. 0 \in 0..Cap
      BY TickAssumption
    <2>3. d \in Entry
      BY <2>1, <2>2 DEF Entry
    <2>4. /\ d.triggered = s.triggered /\ d.high_water_mark = s.high_water_mark
          /\ d.breakeven_locked = s.breakeven_locked /\ d.armed = FALSE
          /\ d.vwap_ticks = s.vwap_ticks /\ d.vwap_bleed_ticks = s.vwap_bleed_ticks
          /\ d.below_stop_count = 0 /\ d.disarm_confirm_count = 0
      BY <2>1 DEF Entry
    <2> QED BY <1>3, <2>3, <2>4
  <1>4. CASE /\ ~s.triggered /\ s.armed
             /\ ~(mc = "ahead" /\ s.disarm_confirm_count + 1 >= DISARM_CONFIRM_TICKS)
    <2>1. d = [s EXCEPT !.disarm_confirm_count = Run(s.disarm_confirm_count, mc = "ahead")]
      BY <1>4 DEF compute_arm_disarm_decision
    <2>2. Run(s.disarm_confirm_count, mc = "ahead") \in 0..Cap
      BY <1>0, CounterFacts
    <2>3. \/ Run(s.disarm_confirm_count, mc = "ahead") = 0
          \/ /\ mc = "ahead"
             /\ Run(s.disarm_confirm_count, mc = "ahead") = Bump(s.disarm_confirm_count)
      BY DEF Run
    <2> QED BY <1>4, <2>1, <2>2, <2>3, TickAssumption DEF Entry
  <1> QED BY <1>1, <1>2, <1>3, <1>4

\* What the conditions compare are integers, and they are either true or false.
LEMMA ConditionFacts ==
    ASSUME NEW s \in Entry, NEW i \in Reading
    PROVE  /\ i.ret \in Int /\ i.ret > NoMark /\ i.dist \in Int /\ i.mc \in Opinion
           /\ i.vwap \in BOOLEAN /\ i.grace \in BOOLEAN
           /\ below_stop_condition(s, i) \in BOOLEAN
           /\ broken_condition(s, i) \in BOOLEAN
           /\ bleed_condition(i) \in BOOLEAN
  <1>1. /\ i.ret \in Returns /\ i.dist \in Distances /\ i.mc \in Opinions
        /\ i.vwap \in VwapGates /\ i.grace \in Graces
    BY DEF Reading
  <1>2. i.ret \in Int /\ i.ret > NoMark
    <2>1. \A val \in Returns : val \in Int /\ val > NoMark
      BY ReturnAssumption
    <2> QED BY <1>1, <2>1
  <1>3. i.dist \in Int /\ i.mc \in Opinion
    <2>1. Distances \subseteq Int /\ Opinions \subseteq Opinion
      BY InputAssumption
    <2> QED BY <1>1, <2>1
  <1>4. i.vwap \in BOOLEAN /\ i.grace \in BOOLEAN
    BY <1>1, InputAssumption
  <1>5. below_stop_condition(s, i) \in BOOLEAN
    BY DEF below_stop_condition
  <1>6. broken_condition(s, i) \in BOOLEAN
    BY <1>4 DEF broken_condition
  <1>7. bleed_condition(i) \in BOOLEAN
    BY DEF bleed_condition
  <1> QED BY <1>2, <1>3, <1>4, <1>5, <1>6, <1>7

\* The conditions look at the high-water mark and the breakeven lock only.
LEMMA ConditionsAgree ==
    ASSUME NEW s, NEW d, NEW i, d.high_water_mark = s.high_water_mark,
           d.breakeven_locked = s.breakeven_locked
    PROVE  /\ below_stop_condition(d, i) = below_stop_condition(s, i)
           /\ broken_condition(d, i) = broken_condition(s, i)
  BY DEF below_stop_condition, broken_condition, stop_trigger_level, safe_hwm

\* The breakeven update touches the hold and the lock only.
LEMMA BreakevenFacts ==
    ASSUME NEW s \in Entry, NEW ret, NEW d, d = compute_breakeven_update(s, ret)
    PROVE  /\ d \in Entry
           /\ d.triggered = s.triggered /\ d.high_water_mark = s.high_water_mark
           /\ d.armed = s.armed /\ d.below_stop_count = s.below_stop_count
           /\ d.disarm_confirm_count = s.disarm_confirm_count
           /\ d.vwap_ticks = s.vwap_ticks /\ d.vwap_bleed_ticks = s.vwap_bleed_ticks
  <1> DEFINE ticks == Run(s.hwm_hold_ticks, ret >= ACTIVATION)
             locked == s.breakeven_locked \/ ticks >= HWM_HOLD_TICKS_THRESHOLD
  <1>1. ticks \in 0..Cap
    <2>1. s.hwm_hold_ticks \in 0..Cap BY DEF Entry
    <2> QED BY <2>1, TickAssumption DEF Run, Bump
  <1>2. locked \in BOOLEAN OBVIOUS
  <1>3. d = [s EXCEPT !.hwm_hold_ticks = ticks, !.breakeven_locked = locked]
    BY DEF compute_breakeven_update
  <1> HIDE DEF ticks, locked
  <1>4. d \in Entry BY <1>1, <1>2, <1>3 DEF Entry
  <1> QED BY <1>3, <1>4 DEF Entry

\* The exit confirmation touches its own count only, while armed.
LEMMA ConfirmFacts ==
    ASSUME NEW s \in Entry, NEW i \in Reading,
           NEW d, d = compute_exit_confirmation(s, i)
    PROVE  /\ d \in Entry
           /\ d.triggered = s.triggered /\ d.high_water_mark = s.high_water_mark
           /\ d.armed = s.armed /\ d.breakeven_locked = s.breakeven_locked
           /\ d.disarm_confirm_count = s.disarm_confirm_count
           /\ d.vwap_ticks = s.vwap_ticks /\ d.vwap_bleed_ticks = s.vwap_bleed_ticks
           /\ d.below_stop_count = IF s.armed /\ ~s.triggered
                                   THEN Run(s.below_stop_count, below_stop_condition(s, i))
                                   ELSE s.below_stop_count
  <1> DEFINE n == Run(s.below_stop_count, below_stop_condition(s, i))
  <1>1. n \in 0..Cap
    <2>1. s.below_stop_count \in 0..Cap BY DEF Entry
    <2> QED BY <2>1, ConditionFacts, CounterFacts
  <1>2. CASE s.armed /\ ~s.triggered
    <2>1. d = [s EXCEPT !.below_stop_count = n]
      BY <1>2 DEF compute_exit_confirmation
    <2> HIDE DEF n
    <2>2. d \in Entry BY <1>1, <2>1 DEF Entry
    <2>3. /\ d.triggered = s.triggered /\ d.high_water_mark = s.high_water_mark
          /\ d.armed = s.armed /\ d.breakeven_locked = s.breakeven_locked
          /\ d.disarm_confirm_count = s.disarm_confirm_count
          /\ d.vwap_ticks = s.vwap_ticks /\ d.vwap_bleed_ticks = s.vwap_bleed_ticks
          /\ d.below_stop_count = n
      BY <2>1 DEF Entry
    <2> QED BY <1>2, <2>2, <2>3 DEF n
  <1>3. CASE ~(s.armed /\ ~s.triggered)
    BY <1>3 DEF compute_exit_confirmation
  <1> QED BY <1>2, <1>3

\* The take-profit ladder touches its own two fields only.
LEMMA TakeProfitFacts ==
    ASSUME NEW s \in Entry, NEW i,
           NEW d, d = compute_tp_confirmation(s, i)
    PROVE  /\ d \in Entry
           /\ d.triggered = s.triggered /\ d.high_water_mark = s.high_water_mark
           /\ d.armed = s.armed /\ d.breakeven_locked = s.breakeven_locked
           /\ d.disarm_confirm_count = s.disarm_confirm_count
           /\ d.below_stop_count = s.below_stop_count
           /\ d.vwap_ticks = s.vwap_ticks /\ d.vwap_bleed_ticks = s.vwap_bleed_ticks
  <1>1. PICK armed \in BOOLEAN, above \in 0..Cap :
            d = [s EXCEPT !.tp_armed = armed, !.above_tp_count = above]
    <2>1. s.tp_armed \in BOOLEAN /\ s.above_tp_count \in 0..Cap /\ 0 \in 0..Cap
      BY TickAssumption DEF Entry
    <2>2. Bump(s.above_tp_count) \in 0..Cap
      BY <2>1, CounterFacts
    <2>3. /\ [s EXCEPT !.tp_armed = s.tp_armed, !.above_tp_count = s.above_tp_count] = s
          /\ \A n : [s EXCEPT !.tp_armed = s.tp_armed, !.above_tp_count = n]
                   = [s EXCEPT !.above_tp_count = n]
      BY DEF Entry
    <2> QED BY <2>1, <2>2, <2>3 DEF compute_tp_confirmation
  <1>2. d \in Entry BY <1>1 DEF Entry
  <1> QED BY <1>1, <1>2 DEF Entry

\* The two VWAP ladders count independently, until the exit freezes them.
LEMMA VwapFacts ==
    ASSUME NEW s \in Entry, NEW i \in Reading,
           NEW d, d = compute_vwap_breakdown_update(s, i)
    PROVE  /\ d \in Entry
           /\ d.triggered = s.triggered /\ d.high_water_mark = s.high_water_mark
           /\ d.armed = s.armed /\ d.breakeven_locked = s.breakeven_locked
           /\ d.disarm_confirm_count = s.disarm_confirm_count
           /\ d.below_stop_count = s.below_stop_count
           /\ ~s.triggered =>
                 /\ d.vwap_bleed_ticks = Run(s.vwap_bleed_ticks, bleed_condition(i))
                 /\ d.vwap_ticks = Run(s.vwap_ticks, broken_condition(s, i))
  <1> DEFINE bleed == Run(s.vwap_bleed_ticks, bleed_condition(i))
             broke == Run(s.vwap_ticks, broken_condition(s, i))
  <1>1. bleed \in 0..Cap /\ broke \in 0..Cap
    <2>1. s.vwap_bleed_ticks \in 0..Cap /\ s.vwap_ticks \in 0..Cap BY DEF Entry
    <2> QED BY <2>1, ConditionFacts, CounterFacts
  <1>2. CASE s.triggered
    BY <1>2 DEF compute_vwap_breakdown_update
  <1>3. CASE ~s.triggered
    <2>1. d = [s EXCEPT !.vwap_bleed_ticks = bleed, !.vwap_ticks = broke]
      BY <1>3 DEF compute_vwap_breakdown_update
    <2> HIDE DEF bleed, broke
    <2>2. d \in Entry BY <1>1, <2>1 DEF Entry
    <2>3. /\ d.triggered = s.triggered /\ d.high_water_mark = s.high_water_mark
          /\ d.armed = s.armed /\ d.breakeven_locked = s.breakeven_locked
          /\ d.disarm_confirm_count = s.disarm_confirm_count
          /\ d.below_stop_count = s.below_stop_count
          /\ d.vwap_bleed_ticks = bleed /\ d.vwap_ticks = broke
      BY <2>1 DEF Entry
    <2> QED BY <2>2, <2>3 DEF bleed, broke
  <1> QED BY <1>2, <1>3

\* One tick's decisions together, in terms of the entry before them.
LEMMA DecideFacts ==
    ASSUME NEW s \in Entry, NEW i \in Reading, NEW d, d = Decide(s, i)
    PROVE  /\ d \in Entry
           /\ d.triggered = s.triggered /\ d.high_water_mark = s.high_water_mark
           /\ s.triggered => d.armed = s.armed
           /\ ~s.triggered =>
                 /\ d.armed => \E n \in {0, s.below_stop_count} :
                        d.below_stop_count = Run(n, below_stop_condition(d, i))
                 /\ ~d.armed => d.below_stop_count \in {0, s.below_stop_count}
                 /\ s.armed /\ ~d.armed => d.below_stop_count = 0
                 /\ d.armed =>
                       \/ d.disarm_confirm_count = 0
                       \/ /\ s.armed /\ i.mc = "ahead"
                          /\ d.disarm_confirm_count = Bump(s.disarm_confirm_count)
                 /\ s.armed /\ ~d.armed =>
                       i.mc = "ahead" /\ s.disarm_confirm_count + 1 >= DISARM_CONFIRM_TICKS
                 /\ d.vwap_bleed_ticks = Run(s.vwap_bleed_ticks, bleed_condition(i))
                 /\ d.vwap_ticks = Run(s.vwap_ticks, broken_condition(d, i))
  <1> DEFINE a == compute_arm_disarm_decision(s, i.mc)
             b == compute_breakeven_update(a, i.ret)
             c == compute_exit_confirmation(b, i)
             t == compute_tp_confirmation(c, i)
  <1>0. i.mc \in Opinion BY ConditionFacts
  <1>1. d = compute_vwap_breakdown_update(t, i)
    BY DEF Decide
  <1>a. /\ a \in Entry
        /\ a.triggered = s.triggered /\ a.high_water_mark = s.high_water_mark
        /\ a.vwap_ticks = s.vwap_ticks /\ a.vwap_bleed_ticks = s.vwap_bleed_ticks
        /\ s.triggered => a.armed = s.armed
        /\ a.below_stop_count \in {0, s.below_stop_count}
        /\ ~s.triggered /\ s.armed /\ ~a.armed => a.below_stop_count = 0
        /\ ~s.triggered /\ a.armed =>
              \/ a.disarm_confirm_count = 0
              \/ /\ s.armed /\ i.mc = "ahead"
                 /\ a.disarm_confirm_count = Bump(s.disarm_confirm_count)
        /\ ~s.triggered /\ s.armed /\ ~a.armed =>
              i.mc = "ahead" /\ s.disarm_confirm_count + 1 >= DISARM_CONFIRM_TICKS
    <2>1. a = compute_arm_disarm_decision(s, i.mc) OBVIOUS
    <2> HIDE DEF a
    <2>2. /\ a \in Entry
          /\ a.triggered = s.triggered /\ a.high_water_mark = s.high_water_mark
          /\ a.vwap_ticks = s.vwap_ticks /\ a.vwap_bleed_ticks = s.vwap_bleed_ticks
      BY <1>0, <2>1, ArmFacts
    <2>3. /\ s.triggered => a.armed = s.armed
          /\ a.below_stop_count \in {0, s.below_stop_count}
      BY <1>0, <2>1, ArmFacts
    <2>4. ~s.triggered /\ s.armed /\ ~a.armed => a.below_stop_count = 0
      BY <1>0, <2>1, ArmFacts
    <2>5. ~s.triggered /\ a.armed =>
            \/ a.disarm_confirm_count = 0
            \/ /\ s.armed /\ i.mc = "ahead"
               /\ a.disarm_confirm_count = Bump(s.disarm_confirm_count)
      BY <1>0, <2>1, ArmFacts
    <2>6. ~s.triggered /\ s.armed /\ ~a.armed =>
            i.mc = "ahead" /\ s.disarm_confirm_count + 1 >= DISARM_CONFIRM_TICKS
      BY <1>0, <2>1, ArmFacts
    <2> QED BY <2>2, <2>3, <2>4, <2>5, <2>6
  <1>b. /\ b \in Entry
        /\ b.triggered = a.triggered /\ b.high_water_mark = a.high_water_mark
        /\ b.armed = a.armed /\ b.below_stop_count = a.below_stop_count
        /\ b.disarm_confirm_count = a.disarm_confirm_count
        /\ b.vwap_ticks = a.vwap_ticks /\ b.vwap_bleed_ticks = a.vwap_bleed_ticks
    <2> HIDE DEF a
    <2> QED BY <1>a, BreakevenFacts
  <1>c. /\ c \in Entry
        /\ c.triggered = b.triggered /\ c.high_water_mark = b.high_water_mark
        /\ c.armed = b.armed /\ c.breakeven_locked = b.breakeven_locked
        /\ c.disarm_confirm_count = b.disarm_confirm_count
        /\ c.vwap_ticks = b.vwap_ticks /\ c.vwap_bleed_ticks = b.vwap_bleed_ticks
        /\ c.below_stop_count = IF b.armed /\ ~b.triggered
                                THEN Run(b.below_stop_count, below_stop_condition(b, i))
                                ELSE b.below_stop_count
    <2> HIDE DEF b
    <2> QED BY <1>b, ConfirmFacts
  <1>t. /\ t \in Entry
        /\ t.triggered = c.triggered /\ t.high_water_mark = c.high_water_mark
        /\ t.armed = c.armed /\ t.breakeven_locked = c.breakeven_locked
        /\ t.disarm_confirm_count = c.disarm_confirm_count
        /\ t.below_stop_count = c.below_stop_count
        /\ t.vwap_ticks = c.vwap_ticks /\ t.vwap_bleed_ticks = c.vwap_bleed_ticks
    <2> HIDE DEF c
    <2> QED BY <1>c, TakeProfitFacts
  <1>d. /\ d \in Entry
        /\ d.triggered = t.triggered /\ d.high_water_mark = t.high_water_mark
        /\ d.armed = t.armed /\ d.breakeven_locked = t.breakeven_locked
        /\ d.disarm_confirm_count = t.disarm_confirm_count
        /\ d.below_stop_count = t.below_stop_count
        /\ ~t.triggered =>
              /\ d.vwap_bleed_ticks = Run(t.vwap_bleed_ticks, bleed_condition(i))
              /\ d.vwap_ticks = Run(t.vwap_ticks, broken_condition(t, i))
    <2> HIDE DEF t
    <2> QED BY <1>1, <1>t, VwapFacts
  <1> HIDE DEF a, b, c, t
  <1>2. /\ below_stop_condition(d, i) = below_stop_condition(b, i)
        /\ broken_condition(d, i) = broken_condition(t, i)
    <2>1. /\ d.high_water_mark = b.high_water_mark /\ d.breakeven_locked = b.breakeven_locked
          /\ d.high_water_mark = t.high_water_mark /\ d.breakeven_locked = t.breakeven_locked
      BY <1>c, <1>t, <1>d
    <2> QED BY <2>1, ConditionsAgree
  <1>3. ASSUME ~s.triggered, d.armed
        PROVE  \E n \in {0, s.below_stop_count} :
                  d.below_stop_count = Run(n, below_stop_condition(d, i))
    <2>1. d.below_stop_count = Run(a.below_stop_count, below_stop_condition(d, i))
      BY <1>a, <1>b, <1>c, <1>t, <1>d, <1>2, <1>3
    <2> QED BY <2>1, <1>a
  <1>4. d.triggered = s.triggered /\ d.high_water_mark = s.high_water_mark
        /\ d.armed = a.armed /\ d.disarm_confirm_count = a.disarm_confirm_count
    BY <1>a, <1>b, <1>c, <1>t, <1>d
  <1>5. ~d.armed => d.below_stop_count = a.below_stop_count
    BY <1>b, <1>c, <1>t, <1>d
  <1>6. ~s.triggered => /\ d.vwap_bleed_ticks = Run(s.vwap_bleed_ticks, bleed_condition(i))
                        /\ d.vwap_ticks = Run(s.vwap_ticks, broken_condition(d, i))
    BY <1>a, <1>b, <1>c, <1>t, <1>d, <1>2
  <1> QED BY <1>a, <1>d, <1>3, <1>4, <1>5, <1>6

-----------------------------------------------------------------------------
\* CountInv, ExitInv and MarkIsPeak of an entry s and a history x.
Fits(s, x) ==
    /\ ~s.triggered =>
          /\ ~s.armed => s.below_stop_count = 0
          /\ s.below_stop_count <= x.breach
          /\ s.armed => s.disarm_confirm_count <= x.recovery
          /\ s.vwap_bleed_ticks <= x.bleed
          /\ s.vwap_ticks <= x.break
          /\ x.exits = 0
          /\ s.high_water_mark = x.peak
    /\ s.triggered => ~s.armed
    /\ x.exits <= 1

LEMMA FitsIsInvariant == CountInv /\ ExitInv /\ MarkIsPeak <=> Fits(e, h)
  BY DEF Fits, CountInv, ExitInv, MarkIsPeak

\* A wiped or reset entry fits an empty history.
LEMMA WipeFits ==
    ASSUME NEW s \in Entry, NEW d, d = wipe_transient_state(s)
    PROVE  /\ d \in Entry /\ Fits(d, NoHistory) /\ d.armed = FALSE /\ d.triggered = FALSE
           /\ d.below_stop_count = 0 /\ d.vwap_bleed_ticks = 0 /\ d.vwap_ticks = 0
  <1>1. 0 \in 0..Cap /\ NoMark \in Int
    BY TickAssumption, NoMarkInt
  <1>2. d \in Entry
    BY <1>1 DEF Entry, wipe_transient_state
  <1>3. /\ d.armed = FALSE /\ d.triggered = FALSE /\ d.below_stop_count = 0
        /\ d.vwap_bleed_ticks = 0 /\ d.vwap_ticks = 0 /\ d.high_water_mark = NoMark
    BY DEF Entry, wipe_transient_state
  <1> QED BY <1>2, <1>3 DEF Fits, NoHistory

LEMMA NoHistoryTyped == NoHistory \in History
  BY TickAssumption, NoMarkInt DEF NoHistory, History

\* The start of a cycle keeps the entry in step with the history.
LEMMA StartedFits ==
    ASSUME TypeOK, Fits(e, h)
    PROVE  Started \in Entry /\ Fits(Started, IF rolled THEN NoHistory ELSE h)
  <1>1. e \in Entry BY DEF TypeOK
  <1>2. CASE rolled BY <1>1, <1>2, WipeFits DEF Started
  <1>3. CASE ~rolled BY <1>1, <1>3 DEF Started
  <1> QED BY <1>2, <1>3

\* So does the data phase, whichever of its two resets applies.
LEMMA DataFits ==
    ASSUME TypeOK, Fits(e, h), NEW ret \in Returns, NEW s, s = DataPhase(ret),
           NEW old, old = IF rolled \/ Reopened THEN NoHistory ELSE h,
           NEW x, x = [old EXCEPT !.peak = IF ret > @ THEN ret ELSE @]
    PROVE  s \in Entry /\ old \in History /\ x \in History /\ Fits(s, x)
  <1>0. /\ ret \in Int /\ ret > NoMark /\ NoMark \in Int /\ h \in History
        /\ held \in BOOLEAN
    <2>1. \A val \in Returns : val \in Int /\ val > NoMark
      BY ReturnAssumption
    <2> QED BY <2>1, NoMarkInt DEF TypeOK
  <1>1. old \in History
    BY <1>0, NoHistoryTyped
  <1>2. /\ x \in History /\ x.peak = (IF ret > old.peak THEN ret ELSE old.peak)
        /\ x.breach = old.breach /\ x.recovery = old.recovery /\ x.bleed = old.bleed
        /\ x.break = old.break /\ x.exits = old.exits
    BY <1>0, <1>1 DEF History
  <1> DEFINE base == IF Reopened THEN Reset(Started, ret) ELSE Started
  <1>3. /\ base \in Entry
        /\ ~Reopened => Fits(base, old)
        /\ Reopened => /\ ~base.armed /\ ~base.triggered /\ base.below_stop_count = 0
                       /\ base.vwap_bleed_ticks = 0 /\ base.vwap_ticks = 0
                       /\ base.high_water_mark = ret
    <2>1. CASE Reopened
      <3> DEFINE w == wipe_transient_state(Started)
      <3>1. /\ w \in Entry /\ Fits(w, NoHistory) /\ w.armed = FALSE /\ w.triggered = FALSE
            /\ w.below_stop_count = 0 /\ w.vwap_bleed_ticks = 0 /\ w.vwap_ticks = 0
        BY StartedFits, WipeFits
      <3>2. base = [w EXCEPT !.high_water_mark = ret, !.disarm_confirm_count = 0]
        BY <2>1 DEF Reset
      <3> HIDE DEF w, base
      <3>4. base \in Entry
        BY <1>0, <3>1, <3>2, TickAssumption DEF Entry
      <3>5. /\ base.armed = w.armed /\ base.triggered = w.triggered
            /\ base.below_stop_count = w.below_stop_count /\ base.vwap_ticks = w.vwap_ticks
            /\ base.vwap_bleed_ticks = w.vwap_bleed_ticks /\ base.high_water_mark = ret
        BY <3>1, <3>2 DEF Entry
      <3> QED BY <2>1, <3>1, <3>4, <3>5
    <2>2. CASE ~Reopened
      BY <2>2, StartedFits
    <2> QED BY <2>1, <2>2
  <1> DEFINE mark == IF ~base.triggered /\ ret > base.high_water_mark THEN ret
                     ELSE base.high_water_mark
  <1>4. s = [base EXCEPT !.high_water_mark = mark, !.last_holdings_positive = held]
    BY DEF DataPhase
  <1> HIDE DEF base
  <1>5. mark \in Int BY <1>0, <1>3 DEF Entry
  <1>6. base.high_water_mark \in Int BY <1>3 DEF Entry
  <1>7. s \in Entry
    BY <1>0, <1>3, <1>4, <1>5 DEF Entry
  <1>8. /\ s.armed = base.armed /\ s.triggered = base.triggered /\ s.high_water_mark = mark
        /\ s.below_stop_count = base.below_stop_count /\ s.vwap_ticks = base.vwap_ticks
        /\ s.vwap_bleed_ticks = base.vwap_bleed_ticks
        /\ s.disarm_confirm_count = base.disarm_confirm_count
    BY <1>3, <1>4 DEF Entry
  <1>9. CASE Reopened
    <2>1. old = NoHistory BY <1>9
    <2>2. /\ old.breach = 0 /\ old.bleed = 0 /\ old.break = 0 /\ old.exits = 0
          /\ old.peak = NoMark
      BY <2>1 DEF NoHistory
    <2> QED BY <1>0, <1>1, <1>2, <1>3, <1>7, <1>8, <1>9, <2>2 DEF Fits
  <1>10. CASE ~Reopened
    <2>1. Fits(base, old) BY <1>3, <1>10
    <2>2. base.triggered \/ s.high_water_mark = x.peak
      BY <1>0, <1>2, <1>6, <1>8, <2>1 DEF Fits
    <2> QED BY <1>1, <1>2, <1>7, <1>8, <2>1, <2>2 DEF Fits
  <1> QED BY <1>9, <1>10

\* The history x after the readings of one more tick.
Counted(x, d, i) ==
    [x EXCEPT !.breach = Run(@, d.armed /\ below_stop_condition(d, i)),
              !.recovery = Run(@, i.mc = "ahead"),
              !.bleed = Run(@, bleed_condition(i)),
              !.break = Run(@, broken_condition(d, i)),
              !.blind = Run(@, i.mc = "none" /\ below_stop_condition(d, i))]

\* The decisions of a tick keep the entry in step with its readings.
LEMMA DecideFits ==
    ASSUME NEW s \in Entry, NEW i \in Reading, NEW d, d = Decide(s, i),
           NEW x \in History, Fits(s, x), NEW y, y = Counted(x, d, i)
    PROVE  /\ d \in Entry /\ y \in History
           /\ y.exits = x.exits
           /\ ~d.triggered => Fits(d, y)
           /\ ~d.triggered /\ s.armed /\ ~d.armed => y.recovery >= DISARM_CONFIRM_TICKS
  <1>1. d \in Entry BY DecideFacts
  <1>2. /\ below_stop_condition(d, i) \in BOOLEAN /\ broken_condition(d, i) \in BOOLEAN
        /\ bleed_condition(i) \in BOOLEAN /\ d.armed \in BOOLEAN
    BY <1>1, ConditionFacts DEF Entry
  <1>3. /\ x.breach \in 0..Cap /\ x.recovery \in 0..Cap
        /\ x.bleed \in 0..Cap /\ x.break \in 0..Cap /\ x.blind \in 0..Cap
    BY DEF History
  <1>4. /\ Run(x.breach, d.armed /\ below_stop_condition(d, i)) \in 0..Cap
        /\ Run(x.recovery, i.mc = "ahead") \in 0..Cap
        /\ Run(x.bleed, bleed_condition(i)) \in 0..Cap
        /\ Run(x.break, broken_condition(d, i)) \in 0..Cap
        /\ Run(x.blind, i.mc = "none" /\ below_stop_condition(d, i)) \in 0..Cap
    BY <1>3, TickAssumption DEF Run, Bump
  <1>5. y \in History
    BY <1>4 DEF History, Counted
  <1>6. /\ y.breach = Run(x.breach, d.armed /\ below_stop_condition(d, i))
        /\ y.recovery = Run(x.recovery, i.mc = "ahead")
        /\ y.bleed = Run(x.bleed, bleed_condition(i))
        /\ y.break = Run(x.break, broken_condition(d, i))
        /\ y.exits = x.exits /\ y.peak = x.peak
    BY DEF History, Counted
  <1>7. /\ s.below_stop_count \in 0..Cap /\ s.disarm_confirm_count \in 0..Cap
        /\ s.vwap_bleed_ticks \in 0..Cap /\ s.vwap_ticks \in 0..Cap /\ 0 \in 0..Cap
    BY TickAssumption DEF Entry
  <1>8. ASSUME ~d.triggered
        PROVE  Fits(d, y)
    <2>1. ~s.triggered /\ d.high_water_mark = s.high_water_mark
      BY <1>8, DecideFacts
    <2>2. ~d.armed => d.below_stop_count = 0
      <3>1. ~d.armed => d.below_stop_count \in {0, s.below_stop_count}
        BY <2>1, DecideFacts
      <3>2. s.armed /\ ~d.armed => d.below_stop_count = 0
        BY <2>1, DecideFacts
      <3>3. ~s.armed => s.below_stop_count = 0
        BY <2>1 DEF Fits
      <3> QED BY <3>1, <3>2, <3>3
    <2>3. d.below_stop_count <= y.breach
      <3>1. CASE d.armed
        <4>1. PICK n \in {0, s.below_stop_count} :
                  d.below_stop_count = Run(n, below_stop_condition(d, i))
          BY <2>1, <3>1, DecideFacts
        <4>2. n \in 0..Cap /\ n <= x.breach
          BY <1>3, <1>7, <2>1 DEF Fits
        <4>3. y.breach = Run(x.breach, below_stop_condition(d, i))
          BY <1>6, <3>1 DEF Run
        <4> QED BY <1>3, <4>1, <4>2, <4>3, RunMonotone
      <3>2. CASE ~d.armed
        BY <1>4, <1>6, <2>2, <3>2
      <3> QED BY <3>1, <3>2
    <2>4. d.armed => d.disarm_confirm_count <= y.recovery
      <3>1. ASSUME d.armed PROVE d.disarm_confirm_count <= y.recovery
        <4>1. CASE d.disarm_confirm_count = 0
          BY <1>4, <1>6, <4>1
        <4>2. CASE /\ s.armed /\ i.mc = "ahead"
                   /\ d.disarm_confirm_count = Bump(s.disarm_confirm_count)
          <5>1. s.disarm_confirm_count <= x.recovery BY <2>1, <4>2 DEF Fits
          <5>2. y.recovery = Bump(x.recovery) BY <1>6, <4>2 DEF Run
          <5> QED BY <1>3, <1>7, <4>2, <5>1, <5>2, BumpFacts
        <4> QED BY <2>1, <3>1, <4>1, <4>2, DecideFacts
      <3> QED BY <3>1
    <2>5. d.vwap_bleed_ticks <= y.bleed /\ d.vwap_ticks <= y.break
      <3>1. s.vwap_bleed_ticks <= x.bleed /\ s.vwap_ticks <= x.break
        BY <2>1 DEF Fits
      <3>2. /\ d.vwap_bleed_ticks = Run(s.vwap_bleed_ticks, bleed_condition(i))
            /\ d.vwap_ticks = Run(s.vwap_ticks, broken_condition(d, i))
        BY <2>1, DecideFacts
      <3> QED BY <1>3, <1>6, <1>7, <3>1, <3>2, RunMonotone
    <2>6. x.exits = 0 /\ x.exits <= 1 /\ s.high_water_mark = x.peak
      BY <2>1 DEF Fits
    <2> QED BY <1>6, <1>8, <2>1, <2>2, <2>3, <2>4, <2>5, <2>6 DEF Fits
  <1>9. ASSUME ~d.triggered, s.armed, ~d.armed
        PROVE  y.recovery >= DISARM_CONFIRM_TICKS
    <2>1. /\ ~s.triggered /\ i.mc = "ahead"
          /\ s.disarm_confirm_count + 1 >= DISARM_CONFIRM_TICKS
      BY <1>9, DecideFacts
    <2>2. s.disarm_confirm_count <= x.recovery
      BY <1>9, <2>1 DEF Fits
    <2>3. y.recovery = Bump(x.recovery)
      BY <1>6, <2>1 DEF Run
    <2>4. DISARM_CONFIRM_TICKS \in 1..Cap
      BY TickAssumption
    <2> QED BY <1>3, <1>7, <2>1, <2>2, <2>3, <2>4, BumpFacts
  <1> QED BY <1>1, <1>5, <1>6, <1>8, <1>9

\* The resolver answers with one of the exits that fire, if there is one.
LEMMA PriorityFacts ==
    ASSUME NEW S \in SUBSET Reason, NEW won, won = resolve_trigger_priority(S)
    PROVE  /\ won \in Reason \cup {"none"}
           /\ won # "none" => won \in S
  <1>1. CASE S = {}
    BY <1>1 DEF resolve_trigger_priority
  <1>2. CASE "VWAP Breakdown" \in S
    BY <1>2 DEF resolve_trigger_priority, Reason
  <1>3. CASE "VWAP Breakdown" \notin S /\ "Take-Profit" \in S
    BY <1>3 DEF resolve_trigger_priority, Reason
  <1>4. CASE /\ "VWAP Breakdown" \notin S /\ "Take-Profit" \notin S
             /\ "VWAP Bleed Cut" \in S
    BY <1>4 DEF resolve_trigger_priority, Reason
  <1>5. CASE /\ "VWAP Breakdown" \notin S /\ "Take-Profit" \notin S
             /\ "VWAP Bleed Cut" \notin S /\ S # {}
    <2>1. "Trailing Stop" \in S
      BY <1>5 DEF Reason
    <2>2. won = "Trailing Stop"
      BY <1>5 DEF resolve_trigger_priority
    <2> QED BY <2>1, <2>2 DEF Reason
  <1> QED BY <1>1, <1>2, <1>3, <1>4, <1>5

\* An exit fires only from an entry not triggered yet whose ladder is full.
LEMMA FiresFacts ==
    ASSUME NEW s, NEW d, NEW i, NEW won, won = resolve_trigger_priority(Fires(s, d, i))
    PROVE  /\ won \in Reason \cup {"none"}
           /\ won # "none" => ~d.triggered
           /\ won = "Trailing Stop" =>
                 d.armed /\ below_stop_condition(d, i) /\ d.below_stop_count >= regime
           /\ won = "VWAP Bleed Cut" => d.vwap_bleed_ticks >= VWAP_BLEED_TICKS
           /\ won = "VWAP Breakdown" => d.vwap_ticks >= VWAP_BREAK_CONFIRM_TICKS
  <1>1. Fires(s, d, i) \in SUBSET Reason
    BY DEF Fires, FiresAt
  <1>2. won \in Reason \cup {"none"} /\ (won # "none" => won \in Fires(s, d, i))
    BY <1>1, PriorityFacts
  <1>3. won # "none" => ~d.triggered
    BY <1>2 DEF Fires, FiresAt
  <1>4. won = "Trailing Stop" =>
            d.armed /\ below_stop_condition(d, i) /\ d.below_stop_count >= regime
    BY <1>2 DEF Fires, FiresAt
  <1>5. won = "VWAP Bleed Cut" => d.vwap_bleed_ticks >= VWAP_BLEED_TICKS
    BY <1>2 DEF Fires, FiresAt
  <1>6. won = "VWAP Breakdown" => d.vwap_ticks >= VWAP_BREAK_CONFIRM_TICKS
    BY <1>2 DEF Fires, FiresAt
  <1> QED BY <1>2, <1>3, <1>4, <1>5, <1>6

\* What a step may not do: ExitConfirmed and DisarmConfirmed of one step.
Confirmed ==
    /\ fired' = "Trailing Stop" => h'.breach >= regime
    /\ fired' = "VWAP Bleed Cut" => h'.bleed >= VWAP_BLEED_TICKS
    /\ fired' = "VWAP Breakdown" => h'.break >= VWAP_BREAK_CONFIRM_TICKS
Justified ==
    e.armed /\ ~e'.armed =>
        e'.triggered \/ rolled \/ Reopened \/ h'.recovery >= DISARM_CONFIRM_TICKS

\* A full cycle keeps the invariant and confirms what it does.
LEMMA CycleStep ==
    ASSUME TypeOK, Fits(e, h), NEW i \in Reading, NEW live, ActionCycle(i, live)
    PROVE  TypeOK' /\ Fits(e', h') /\ Confirmed /\ Justified
  <1> DEFINE s == DataPhase(i.ret)
             d == Decide(s, i)
             reason == resolve_trigger_priority(Fires(s, d, i))
             hist == NextHistory(d, i)
             old == IF rolled \/ Reopened THEN NoHistory ELSE h
             x == [old EXCEPT !.peak = IF i.ret > @ THEN i.ret ELSE @]
             y == Counted(x, d, i)
             ended == [hist EXCEPT !.exits = IF @ < 2 THEN @ + 1 ELSE @]
  <1>0. i.ret \in Returns BY DEF Reading
  <1>1. s \in Entry /\ old \in History /\ x \in History /\ Fits(s, x)
    <2> HIDE DEF s, x, old
    <2>1. s = DataPhase(i.ret) BY DEF s
    <2>2. old = IF rolled \/ Reopened THEN NoHistory ELSE h BY DEF old
    <2>3. x = [old EXCEPT !.peak = IF i.ret > @ THEN i.ret ELSE @] BY DEF x
    <2> QED BY <1>0, <2>1, <2>2, <2>3, DataFits
  <1>2. /\ d \in Entry /\ y \in History
        /\ y.exits = x.exits
        /\ ~d.triggered => Fits(d, y)
        /\ ~d.triggered /\ s.armed /\ ~d.armed => y.recovery >= DISARM_CONFIRM_TICKS
    <2> HIDE DEF s, x
    <2>1. d = Decide(s, i) OBVIOUS
    <2> HIDE DEF d
    <2>2. y = Counted(x, d, i)
      OBVIOUS
    <2> HIDE DEF y
    <2>3. d \in Entry /\ y \in History /\ y.exits = x.exits
      BY <1>1, <2>1, <2>2, DecideFits
    <2>4. ~d.triggered => Fits(d, y)
      BY <1>1, <2>1, <2>2, DecideFits
    <2>5. ~d.triggered /\ s.armed /\ ~d.armed => y.recovery >= DISARM_CONFIRM_TICKS
      BY <1>1, <2>1, <2>2, DecideFits
    <2> QED BY <2>3, <2>4, <2>5
  <1>3. /\ d.triggered = s.triggered
        /\ s.triggered => d.armed = s.armed
    <2> HIDE DEF s
    <2>1. d = Decide(s, i) OBVIOUS
    <2> HIDE DEF d
    <2> QED BY <1>1, <2>1, DecideFacts
  <1>4. ~d.triggered => hist = y
    <2> HIDE DEF d, old
    <2> DEFINE z == [old EXCEPT
                !.breach = Run(@, d.armed /\ below_stop_condition(d, i)),
                !.recovery = Run(@, i.mc = "ahead"),
                  !.bleed = Run(@, bleed_condition(i)),
                !.break = Run(@, broken_condition(d, i)),
                !.peak = IF i.ret > @ THEN i.ret ELSE @,
                !.blind = Run(@, i.mc = "none" /\ below_stop_condition(d, i))]
    <2>1. ~d.triggered => hist = z
      BY DEF NextHistory, old
    <2>2. /\ x.breach = old.breach /\ x.recovery = old.recovery
          /\ x.bleed = old.bleed /\ x.break = old.break /\ x.blind = old.blind
          /\ x.exits = old.exits /\ x.stale = old.stale
          /\ x.peak = IF i.ret > old.peak THEN i.ret ELSE old.peak
      BY <1>1 DEF History
    <2>3. z = y
      BY <1>1, <2>2 DEF History, Counted
    <2> QED BY <2>1, <2>3
  <1>5. d.triggered => hist = [NoHistory EXCEPT !.exits = old.exits, !.stale = old.stale]
    <2> HIDE DEF d
    <2> QED BY DEF NextHistory
  <1>6. x.exits = old.exits /\ x.exits \in 0..2 /\ old.stale \in BOOLEAN
    <2> HIDE DEF old
    <2> QED BY <1>1 DEF History
  <1>7. /\ e' = d \/ (reason # "none" /\ e' = Exited(d))
        /\ e' = d => h' = hist \/ (reason # "none" /\ e' = Exited(d) /\ h' = ended)
        /\ e' = Exited(d) /\ e' # d => h' = ended
        /\ fired' = reason /\ moved' = FALSE /\ rolled' = FALSE
        /\ UNCHANGED <<held, gate, regime>>
        /\ used' = used \/ (used.failures < MaxFailures
                             /\ used' = [used EXCEPT !.failures = @ + 1])
    BY DEF ActionCycle
  <1>8. /\ reason \in Reason \cup {"none"}
        /\ reason # "none" => ~d.triggered
        /\ reason = "Trailing Stop" =>
              d.armed /\ below_stop_condition(d, i) /\ d.below_stop_count >= regime
        /\ reason = "VWAP Bleed Cut" => d.vwap_bleed_ticks >= VWAP_BLEED_TICKS
        /\ reason = "VWAP Breakdown" => d.vwap_ticks >= VWAP_BREAK_CONFIRM_TICKS
    <2> HIDE DEF s, d
    <2> QED BY FiresFacts
  <1>9. s.armed \/ ~e.armed \/ rolled \/ Reopened
    BY DEF DataPhase, Started, TypeOK, Entry
  <1> HIDE DEF s, d, reason, hist, old, x, y
  <1>10. hist \in History /\ Fits(d, hist) /\ (~d.triggered => hist.exits = 0)
    <2>1. CASE ~d.triggered
      BY <1>2, <1>4, <2>1 DEF Fits
    <2>2. CASE d.triggered
      <3>1. hist \in History /\ hist.exits = old.exits
        BY <1>5, <1>6, <2>2, NoHistoryTyped DEF History
      <3>2. ~d.armed /\ x.exits <= 1
        BY <1>1, <1>3, <2>2 DEF Fits
      <3> QED BY <1>6, <2>2, <3>1, <3>2 DEF Fits
    <2> QED BY <2>1, <2>2
  <1>11. reason # "none" =>
            /\ Exited(d) \in Entry /\ ended \in History /\ Fits(Exited(d), ended)
            /\ Exited(d).triggered
            /\ ended.breach = hist.breach /\ ended.bleed = hist.bleed
            /\ ended.break = hist.break
    <2>1. SUFFICES ASSUME reason # "none"
                   PROVE  /\ Exited(d) \in Entry /\ ended \in History
                          /\ Exited(d).triggered = TRUE /\ Exited(d).armed = FALSE
                          /\ ended.exits <= 1
                          /\ ended.breach = hist.breach /\ ended.bleed = hist.bleed
                          /\ ended.break = hist.break
      BY DEF Fits
    <2>2. hist.exits = 0
      BY <1>8, <1>10, <2>1
    <2>3. ended = [hist EXCEPT !.exits = 1]
      BY <1>10, <2>2 DEF History
    <2>4. /\ ended \in History /\ ended.exits = 1 /\ ended.breach = hist.breach
          /\ ended.bleed = hist.bleed /\ ended.break = hist.break
      BY <1>10, <2>3 DEF History
    <2>5. /\ Exited(d) \in Entry
          /\ Exited(d).triggered = TRUE /\ Exited(d).armed = FALSE
      BY <1>2, NoMarkInt DEF Exited, Entry
    <2> QED BY <2>4, <2>5
  <1> HIDE DEF ended
  <1>12. /\ e' \in Entry /\ h' \in History /\ Fits(e', h')
         /\ reason # "none" =>
               h'.breach = y.breach /\ h'.bleed = y.bleed /\ h'.break = y.break
    BY <1>2, <1>4, <1>7, <1>8, <1>10, <1>11
  <1>13. used' \in [moves : 0..MaxMoves, days : 0..MaxDays, misses : 0..MaxMisses,
                    failures : 0..MaxFailures]
    BY <1>7, BoundAssumption DEF TypeOK
  <1>14. TypeOK'
    BY <1>7, <1>8, <1>12, <1>13 DEF TypeOK
  <1>15. Confirmed
    <2>1. y.breach \in Int /\ y.bleed \in Int /\ y.break \in Int /\ regime \in Int
          /\ VWAP_BLEED_TICKS \in Int /\ VWAP_BREAK_CONFIRM_TICKS \in Int
      BY <1>2, TickAssumption DEF History, TypeOK
    <2>2. d.below_stop_count \in Int /\ d.vwap_bleed_ticks \in Int /\ d.vwap_ticks \in Int
      BY <1>2 DEF Entry
    <2>3. ~d.triggered => /\ d.below_stop_count <= y.breach
                          /\ d.vwap_bleed_ticks <= y.bleed /\ d.vwap_ticks <= y.break
      BY <1>2 DEF Fits
    <2>4. reason = "Trailing Stop" => h'.breach >= regime
      <3>1. SUFFICES ASSUME reason = "Trailing Stop" PROVE h'.breach >= regime
        OBVIOUS
      <3>2. d.below_stop_count >= regime /\ d.below_stop_count <= y.breach /\ h'.breach = y.breach
        BY <1>8, <1>12, <2>3, <3>1
      <3> QED BY <2>1, <2>2, <3>2
    <2>5. reason = "VWAP Bleed Cut" => h'.bleed >= VWAP_BLEED_TICKS
      <3>1. SUFFICES ASSUME reason = "VWAP Bleed Cut" PROVE h'.bleed >= VWAP_BLEED_TICKS
        OBVIOUS
      <3>2. d.vwap_bleed_ticks >= VWAP_BLEED_TICKS /\ d.vwap_bleed_ticks <= y.bleed /\ h'.bleed = y.bleed
        BY <1>8, <1>12, <2>3, <3>1
      <3> QED BY <2>1, <2>2, <3>2
    <2>6. reason = "VWAP Breakdown" => h'.break >= VWAP_BREAK_CONFIRM_TICKS
      <3>1. SUFFICES ASSUME reason = "VWAP Breakdown" PROVE h'.break >= VWAP_BREAK_CONFIRM_TICKS
        OBVIOUS
      <3>2. d.vwap_ticks >= VWAP_BREAK_CONFIRM_TICKS /\ d.vwap_ticks <= y.break /\ h'.break = y.break
        BY <1>8, <1>12, <2>3, <3>1
      <3> QED BY <2>1, <2>2, <3>2
    <2> QED BY <1>7, <2>4, <2>5, <2>6 DEF Confirmed
  <1>16. Justified
    <2>1. SUFFICES ASSUME e.armed, ~e'.armed, ~e'.triggered, ~rolled, ~Reopened
                   PROVE  h'.recovery >= DISARM_CONFIRM_TICKS
      BY DEF Justified
    <2>2. e' = d
      BY <1>7, <1>11, <2>1
    <2>3. s.armed /\ ~d.armed /\ ~d.triggered
      BY <1>9, <2>1, <2>2
    <2>4. y.recovery >= DISARM_CONFIRM_TICKS
      BY <1>2, <2>3
    <2>5. h' = hist
      BY <1>7, <1>11, <2>1, <2>2
    <2> QED BY <1>4, <2>3, <2>4, <2>5
  <1> QED BY <1>12, <1>14, <1>15, <1>16

\* Before the gate only the data phase runs.
LEMMA PreGateStep ==
    ASSUME TypeOK, Fits(e, h), NEW ret \in Returns, PreGateCycle(ret)
    PROVE  TypeOK' /\ Fits(e', h') /\ Confirmed /\ Justified
  <1> DEFINE old == IF rolled \/ Reopened THEN NoHistory ELSE h
  <1>1. /\ e' = DataPhase(ret)
        /\ h' = [old EXCEPT !.peak = IF ret > @ THEN ret ELSE @]
        /\ fired' = "none" /\ moved' = FALSE /\ rolled' = FALSE
        /\ UNCHANGED <<held, gate, regime, used>>
    BY DEF PreGateCycle
  <1>2. e' \in Entry /\ h' \in History /\ Fits(e', h')
    <2>1. old = IF rolled \/ Reopened THEN NoHistory ELSE h OBVIOUS
    <2> HIDE DEF old
    <2> QED BY <1>1, <2>1, DataFits
  <1>3. TypeOK'
    BY <1>1, <1>2 DEF TypeOK
  <1>4. e'.armed \/ ~e.armed \/ rolled \/ Reopened
    BY <1>1 DEF DataPhase, Started, TypeOK, Entry
  <1> QED BY <1>1, <1>2, <1>3, <1>4 DEF Confirmed, Justified

\* A missed cycle can only wipe; the environment does not touch the entry.
LEMMA OtherStep ==
    ASSUME TypeOK, Fits(e, h),
           MissedCycle \/ Move \/ GateOpens \/ NewDay \/ UNCHANGED vars
    PROVE  TypeOK' /\ Fits(e', h') /\ (fired' # fired => Confirmed) /\ Justified
  <1>1. CASE MissedCycle
    <2>1. e' \in Entry /\ h' \in History /\ Fits(e', h')
      BY <1>1, StartedFits, NoHistoryTyped DEF MissedCycle, TypeOK
    <2>2. used' \in [moves : 0..MaxMoves, days : 0..MaxDays, misses : 0..MaxMisses,
                     failures : 0..MaxFailures]
      BY <1>1, BoundAssumption DEF MissedCycle, TypeOK
    <2>3. TypeOK'
      BY <1>1, <2>1, <2>2 DEF MissedCycle, TypeOK
    <2>4. e'.armed \/ ~e.armed \/ rolled
      BY <1>1 DEF MissedCycle, Started
    <2> QED BY <1>1, <2>1, <2>3, <2>4 DEF MissedCycle, Confirmed, Justified
  <1>2. CASE Move
    <2>1. h' \in History /\ e' = e
      BY <1>2 DEF Move, TypeOK, History, Entry
    <2>2. /\ h'.breach = h.breach /\ h'.recovery = h.recovery /\ h'.bleed = h.bleed
          /\ h'.break = h.break /\ h'.exits = h.exits /\ h'.peak = h.peak
      BY <1>2 DEF Move, TypeOK, History
    <2>3. used' \in [moves : 0..MaxMoves, days : 0..MaxDays, misses : 0..MaxMisses,
                     failures : 0..MaxFailures]
      BY <1>2, BoundAssumption DEF Move, TypeOK
    <2>4. TypeOK'
      BY <1>2, <2>1, <2>3 DEF Move, TypeOK
    <2>5. Fits(e', h')
      BY <2>1, <2>2 DEF Fits
    <2> QED BY <1>2, <2>1, <2>4, <2>5 DEF Move, Confirmed, Justified
  <1>3. CASE GateOpens
    <2>1. e' = e /\ h' = h /\ fired' = "none"
      BY <1>3 DEF GateOpens
    <2>2. TypeOK'
      BY <1>3, <2>1 DEF GateOpens, TypeOK
    <2>3. Fits(e', h')
      BY <2>1
    <2>4. Confirmed
      BY <2>1 DEF Confirmed
    <2>5. Justified
      BY <2>1 DEF Justified
    <2> QED BY <2>2, <2>3, <2>4, <2>5
  <1>4. CASE NewDay
    <2>1. used' \in [moves : 0..MaxMoves, days : 0..MaxDays, misses : 0..MaxMisses,
                     failures : 0..MaxFailures]
      BY <1>4, BoundAssumption DEF NewDay, TypeOK
    <2> QED BY <1>4, <2>1 DEF NewDay, TypeOK, Confirmed, Justified
  <1>5. CASE UNCHANGED vars
    BY <1>5 DEF vars, TypeOK, Justified
  <1> QED BY <1>1, <1>2, <1>3, <1>4, <1>5

LEMMA InitFits == Init => TypeOK /\ Fits(e, h)
  <1> SUFFICES ASSUME Init PROVE TypeOK /\ Fits(e, h)
    OBVIOUS
  <1>1. 0 \in 0..Cap /\ NoMark \in Int
    BY TickAssumption, NoMarkInt
  <1>2. e \in Entry
    BY <1>1 DEF Init, Entry
  <1>3. h \in History
    BY NoHistoryTyped DEF Init
  <1>4. TypeOK
    <2>1. used \in [moves : 0..MaxMoves, days : 0..MaxDays, misses : 0..MaxMisses,
                    failures : 0..MaxFailures]
      BY BoundAssumption DEF Init
    <2>2. /\ held \in BOOLEAN /\ moved \in BOOLEAN /\ rolled \in BOOLEAN
          /\ gate \in BOOLEAN /\ regime \in Regimes /\ fired = "none"
      BY DEF Init
    <2> QED BY <1>2, <1>3, <2>1, <2>2 DEF TypeOK
  <1>5. /\ e.armed = FALSE /\ e.triggered = FALSE /\ e.below_stop_count = 0
        /\ e.vwap_bleed_ticks = 0 /\ e.vwap_ticks = 0 /\ e.high_water_mark = NoMark
    BY DEF Init
  <1>6. /\ h.breach = 0 /\ h.bleed = 0 /\ h.break = 0 /\ h.exits = 0
        /\ h.peak = NoMark
    BY DEF Init, NoHistory
  <1> QED BY <1>4, <1>5, <1>6 DEF Fits

\* Every step keeps the invariant and confirms what it does.
LEMMA EveryStep ==
    TypeOK /\ Fits(e, h) /\ [Next]_vars =>
        TypeOK' /\ Fits(e', h') /\ (Confirmed \/ UNCHANGED vars) /\ Justified
  <1> SUFFICES ASSUME TypeOK, Fits(e, h), [Next]_vars
               PROVE  TypeOK' /\ Fits(e', h') /\ (Confirmed \/ UNCHANGED vars) /\ Justified
    OBVIOUS
  <1>1. ASSUME NEW i \in Reading, NEW live \in LiveModes, ActionCycle(i, live)
        PROVE  TypeOK' /\ Fits(e', h') /\ Confirmed /\ Justified
    BY <1>1, CycleStep
  <1>2. ASSUME NEW ret \in Returns, PreGateCycle(ret)
        PROVE  TypeOK' /\ Fits(e', h') /\ Confirmed /\ Justified
    BY <1>2, PreGateStep
  <1>3. ASSUME MissedCycle \/ Move \/ GateOpens \/ NewDay
        PROVE  TypeOK' /\ Fits(e', h') /\ Confirmed /\ Justified
    <2>1. fired' = "none"
      BY <1>3 DEF MissedCycle, Move, GateOpens, NewDay
    <2> QED BY <1>3, <2>1, OtherStep DEF Confirmed
  <1>4. CASE UNCHANGED vars
    BY <1>4, OtherStep
  <1> QED BY <1>1, <1>2, <1>3, <1>4 DEF Next, Cycle

-----------------------------------------------------------------------------
\* The inductive invariant of the exit machine: the counters of an entry never
\* run ahead of the readings, an entry that sold is not armed, and the
\* high-water mark is the position's peak.
THEOREM ExitMachineInvariant == Spec => []IInv
  <1>1. Init => TypeOK /\ Fits(e, h)
    BY InitFits
  <1>2. TypeOK /\ Fits(e, h) /\ [Next]_vars => (TypeOK /\ Fits(e, h))'
    BY EveryStep DEF Fits
  <1>3. TypeOK /\ Fits(e, h) => IInv
    BY FitsIsInvariant DEF IInv
  <1> QED BY <1>1, <1>2, <1>3, PTL DEF Spec

\* A position is exited once, and its high-water mark is its peak: the two
\* invariants a run checks, for every instance.
THEOREM OneExitOnePeak == Spec => [](TypeOK /\ ExitedOnce /\ MarkIsPeak)
  <1>1. IInv => TypeOK /\ ExitedOnce /\ MarkIsPeak
    BY DEF IInv, ExitInv, ExitedOnce
  <1> QED BY <1>1, ExitMachineInvariant, PTL

\* No trailing stop, bleed cut or VWAP breakdown fires without its full run of
\* consecutive qualifying ticks.
THEOREM ExitsAreConfirmed == Spec => ExitConfirmed
  <1>1. Init => TypeOK /\ Fits(e, h)
    BY InitFits
  <1>2. TypeOK /\ Fits(e, h) /\ [Next]_vars => (TypeOK /\ Fits(e, h))'
    BY EveryStep DEF Fits
  <1>3. TypeOK /\ Fits(e, h) /\ [Next]_vars => [Confirmed]_vars
    BY EveryStep
  <1> QED BY <1>1, <1>2, <1>3, PTL DEF Spec, ExitConfirmed, Confirmed

\* The protective stop is disarmed only by an exit, a new position, a new day
\* or a confirmed recovery.
THEOREM DisarmsAreConfirmed == Spec => DisarmConfirmed
  <1>1. Init => TypeOK /\ Fits(e, h)
    BY InitFits
  <1>2. TypeOK /\ Fits(e, h) /\ [Next]_vars => (TypeOK /\ Fits(e, h))'
    BY EveryStep DEF Fits
  <1>3. TypeOK /\ Fits(e, h) /\ [Next]_vars => [Justified]_vars
    BY EveryStep
  <1> QED BY <1>1, <1>2, <1>3, PTL DEF Spec, DisarmConfirmed, Justified

\* However the four exits interleave, a position is sold once.
THEOREM PositionsExitOnce == Spec => []ExitedOnce
  <1>1. IInv => ExitedOnce
    BY DEF IInv, ExitInv, ExitedOnce
  <1> QED BY <1>1, ExitMachineInvariant, PTL

-----------------------------------------------------------------------------
\* What a tick's decisions do when there is no Monte Carlo reading: the stop is
\* armed, whether it was before or not, and its ladder counts on.
LEMMA BlindFacts ==
    ASSUME NEW s \in Entry, NEW i \in Reading, NEW d, d = Decide(s, i), i.mc = "none",
           ~s.triggered
    PROVE  /\ d.armed
           /\ d.below_stop_count = Run(s.below_stop_count, below_stop_condition(d, i))
  <1> DEFINE a == compute_arm_disarm_decision(s, i.mc)
             b == compute_breakeven_update(a, i.ret)
             c == compute_exit_confirmation(b, i)
             t == compute_tp_confirmation(c, i)
  <1>1. d = compute_vwap_breakdown_update(t, i)
    BY DEF Decide
  <1>2. /\ a \in Entry /\ a.armed /\ ~a.triggered
        /\ a.below_stop_count = s.below_stop_count
    <2>1. a \in Entry /\ a.triggered = s.triggered
      <3>1. a = compute_arm_disarm_decision(s, i.mc) /\ i.mc \in Opinion
        BY ConditionFacts
      <3> HIDE DEF a
      <3> QED BY <3>1, ArmFacts
    <2>2. a = IF ~s.armed THEN [s EXCEPT !.armed = TRUE, !.disarm_confirm_count = 0]
              ELSE [s EXCEPT !.disarm_confirm_count = Run(@, FALSE)]
      <3>1. (i.mc \in {"band", "none"}) = TRUE /\ (i.mc = "ahead") = FALSE
        OBVIOUS
      <3> QED BY <3>1 DEF compute_arm_disarm_decision
    <2> HIDE DEF a
    <2>3. a.armed = TRUE /\ a.below_stop_count = s.below_stop_count
      BY <2>2 DEF Entry
    <2> QED BY <2>1, <2>3
  <1>3. /\ b \in Entry /\ b.armed /\ ~b.triggered
        /\ b.below_stop_count = s.below_stop_count
    <2> HIDE DEF a
    <2> QED BY <1>2, BreakevenFacts
  <1>4. /\ c \in Entry /\ c.armed /\ c.high_water_mark = b.high_water_mark
        /\ c.breakeven_locked = b.breakeven_locked
        /\ c.below_stop_count = Run(s.below_stop_count, below_stop_condition(b, i))
    <2> HIDE DEF b
    <2> QED BY <1>3, ConfirmFacts
  <1>5. /\ t \in Entry /\ t.armed /\ t.high_water_mark = b.high_water_mark
        /\ t.breakeven_locked = b.breakeven_locked
        /\ t.below_stop_count = c.below_stop_count
    <2> HIDE DEF b, c
    <2> QED BY <1>4, TakeProfitFacts
  <1>6. /\ d.armed /\ d.high_water_mark = b.high_water_mark
        /\ d.breakeven_locked = b.breakeven_locked
        /\ d.below_stop_count = c.below_stop_count
    <2> HIDE DEF b, c, t
    <2> QED BY <1>1, <1>5, VwapFacts
  <1> HIDE DEF a, b, c, t
  <1> QED BY <1>4, <1>6, ConditionsAgree

\* The decisions of a tick do not touch what the data phase noted.
LEMMA SeenKept ==
    ASSUME NEW s \in Entry, NEW i \in Reading
    PROVE  Decide(s, i).last_holdings_positive = s.last_holdings_positive
  <1> DEFINE a == compute_arm_disarm_decision(s, i.mc)
             b == compute_breakeven_update(a, i.ret)
             c == compute_exit_confirmation(b, i)
             t == compute_tp_confirmation(c, i)
             d == compute_vwap_breakdown_update(t, i)
  <1>1. a \in Entry /\ a.last_holdings_positive = s.last_holdings_positive
    <2>1. a \in Entry
      <3>1. a = compute_arm_disarm_decision(s, i.mc) /\ i.mc \in Opinion
        BY ConditionFacts
      <3> HIDE DEF a
      <3> QED BY <3>1, ArmFacts
    <2>2. a.last_holdings_positive = s.last_holdings_positive
      BY DEF compute_arm_disarm_decision, Entry
    <2> QED BY <2>1, <2>2
  <1>2. b \in Entry /\ b.last_holdings_positive = a.last_holdings_positive
    <2> HIDE DEF a
    <2>1. b \in Entry
      BY <1>1, BreakevenFacts
    <2>2. b.last_holdings_positive = a.last_holdings_positive
      BY <1>1 DEF compute_breakeven_update, Entry
    <2> QED BY <2>1, <2>2
  <1>3. c \in Entry /\ c.last_holdings_positive = b.last_holdings_positive
    <2> HIDE DEF b
    <2>1. c \in Entry
      BY <1>2, ConfirmFacts
    <2>2. c.last_holdings_positive = b.last_holdings_positive
      BY <1>2 DEF compute_exit_confirmation, Entry
    <2> QED BY <2>1, <2>2
  <1>4. t \in Entry /\ t.last_holdings_positive = c.last_holdings_positive
    <2> HIDE DEF c
    <2>1. t \in Entry
      BY <1>3, TakeProfitFacts
    <2>2. t.last_holdings_positive = c.last_holdings_positive
      BY <1>3 DEF compute_tp_confirmation, Entry
    <2> QED BY <2>1, <2>2
  <1>5. d.last_holdings_positive = t.last_holdings_positive
    <2> HIDE DEF t
    <2> QED BY <1>4 DEF compute_vwap_breakdown_update, Entry
  <1>6. Decide(s, i) = d
    BY DEF Decide
  <1> HIDE DEF a, b, c, t, d
  <1> QED BY <1>1, <1>2, <1>3, <1>4, <1>5, <1>6

\* The data phase notes the holdings, and resets the blind ticks with the ladder.
LEMMA SeenByData ==
    ASSUME TypeOK, Fits(e, h), BlindInv, NEW ret \in Returns, NEW s, s = DataPhase(ret),
           NEW old, old = IF rolled \/ Reopened THEN NoHistory ELSE h
    PROVE  /\ s.last_holdings_positive = held
           /\ old.blind \in 0..Cap /\ (~s.triggered => old.blind <= s.below_stop_count)
  <1> DEFINE base == IF Reopened THEN Reset(Started, ret) ELSE Started
             mark == IF ~base.triggered /\ ret > base.high_water_mark THEN ret
                     ELSE base.high_water_mark
  <1>1. s = [base EXCEPT !.high_water_mark = mark, !.last_holdings_positive = held]
    BY DEF DataPhase
  <1>2. old \in History
    BY NoHistoryTyped DEF TypeOK
  <1>3. /\ base \in Entry /\ old.blind \in 0..Cap
        /\ (~base.triggered => old.blind <= base.below_stop_count)
    <2>1. Started \in Entry /\ e \in Entry /\ h \in History
      BY StartedFits DEF TypeOK
    <2>2. NoHistory.blind = 0 /\ old.blind \in 0..Cap
      BY <1>2 DEF NoHistory, History
    <2>3. CASE Reopened
      <3> DEFINE w == wipe_transient_state(Started)
      <3>1. w \in Entry /\ w.below_stop_count = 0
        BY <2>1, WipeFits
      <3>2. base = [w EXCEPT !.high_water_mark = ret, !.disarm_confirm_count = 0]
        BY <2>3 DEF Reset
      <3>3. ret \in Int /\ 0 \in 0..Cap
        BY ReturnAssumption, TickAssumption
      <3> HIDE DEF w, base
      <3>4. base \in Entry /\ base.below_stop_count = 0
        BY <3>1, <3>2, <3>3 DEF Entry
      <3> QED BY <2>2, <2>3, <3>4
    <2>4. CASE ~Reopened /\ rolled
      <3>1. base = wipe_transient_state(e)
        BY <2>4 DEF Started
      <3> HIDE DEF base
      <3>2. base \in Entry /\ base.below_stop_count = 0
        BY <2>1, <3>1, WipeFits
      <3> QED BY <2>2, <2>4, <3>2
    <2>5. CASE ~Reopened /\ ~rolled
      <3>1. base = e /\ old = h
        BY <2>5 DEF Started
      <3> HIDE DEF base
      <3> QED BY <2>1, <2>2, <3>1 DEF BlindInv
    <2> QED BY <2>3, <2>4, <2>5
  <1> HIDE DEF base, mark
  <1>4. /\ s.last_holdings_positive = held /\ s.triggered = base.triggered
        /\ s.below_stop_count = base.below_stop_count
    BY <1>1, <1>3 DEF Entry
  <1> QED BY <1>3, <1>4

\* What a step may not do: BlindStopFires and ReopenedIsReset of one step.
BlindFires == h'.blind > h.blind /\ h'.blind >= regime => fired' # "none"
ResetOnReopen == moved /\ ~moved' /\ used'.misses = 0 /\ held => ~h'.stale

\* A full cycle keeps the ladder in step with the blind ticks, and sells on the
\* tick that completes it.
LEMMA SeenCycle ==
    ASSUME TypeOK, Fits(e, h), BlindInv, SeenInv, NEW i \in Reading, NEW live,
           ActionCycle(i, live)
    PROVE  BlindInv' /\ SeenInv' /\ BlindFires /\ ResetOnReopen
  <1> DEFINE s == DataPhase(i.ret)
             d == Decide(s, i)
             reason == resolve_trigger_priority(Fires(s, d, i))
             hist == NextHistory(d, i)
             old == IF rolled \/ Reopened THEN NoHistory ELSE h
             x == [old EXCEPT !.peak = IF i.ret > @ THEN i.ret ELSE @]
             ended == [hist EXCEPT !.exits = IF @ < 2 THEN @ + 1 ELSE @]
  <1>0. i.ret \in Returns BY DEF Reading
  <1>1. /\ s \in Entry /\ old \in History /\ s.last_holdings_positive = held
        /\ old.blind \in 0..Cap /\ (~s.triggered => old.blind <= s.below_stop_count)
    <2>1. /\ s = DataPhase(i.ret)
          /\ old = IF rolled \/ Reopened THEN NoHistory ELSE h
          /\ x = [old EXCEPT !.peak = IF i.ret > @ THEN i.ret ELSE @]
      OBVIOUS
    <2> HIDE DEF s, old, x
    <2> QED BY <1>0, <2>1, DataFits, SeenByData
  <1>2. /\ d \in Entry /\ d.triggered = s.triggered /\ d.last_holdings_positive = held
        /\ d.below_stop_count \in 0..Cap /\ s.below_stop_count \in 0..Cap
        /\ below_stop_condition(d, i) \in BOOLEAN
    <2> HIDE DEF s
    <2>1. d \in Entry /\ d.triggered = s.triggered
      <3>1. d = Decide(s, i) OBVIOUS
      <3> HIDE DEF d
      <3> QED BY <1>1, <3>1, DecideFacts
    <2>2. d.last_holdings_positive = held
      BY <1>1, SeenKept
    <2> HIDE DEF d
    <2> QED BY <1>1, <2>1, <2>2, ConditionFacts DEF Entry
  <1>3. ASSUME i.mc = "none", ~d.triggered
        PROVE  d.armed /\ d.below_stop_count = Run(s.below_stop_count, below_stop_condition(d, i))
    <2> HIDE DEF s
    <2>1. d = Decide(s, i) OBVIOUS
    <2> HIDE DEF d
    <2> QED BY <1>1, <1>2, <1>3, <2>1, BlindFacts
  <1>4. /\ hist \in History /\ hist.stale = old.stale
        /\ d.triggered => hist.blind = 0
        /\ ~d.triggered =>
              hist.blind = Run(old.blind, i.mc = "none" /\ below_stop_condition(d, i))
    <2> HIDE DEF d, old
    <2>1. CASE d.triggered
      <3>1. hist = [NoHistory EXCEPT !.exits = old.exits, !.stale = old.stale]
        BY <2>1 DEF NextHistory, old
      <3> HIDE DEF hist
      <3>2. NoHistory.blind = 0 BY DEF NoHistory
      <3>3. hist \in History /\ hist.stale = old.stale /\ hist.blind = NoHistory.blind
        BY <1>1, <3>1, NoHistoryTyped DEF History
      <3> QED BY <2>1, <3>2, <3>3
    <2>2. CASE ~d.triggered
      <3> DEFINE b1 == Run(old.breach, d.armed /\ below_stop_condition(d, i))
                 b2 == Run(old.recovery, i.mc = "ahead")
                 b3 == Run(old.bleed, bleed_condition(i))
                 b4 == Run(old.break, broken_condition(d, i))
                 b5 == IF i.ret > old.peak THEN i.ret ELSE old.peak
                 b6 == Run(old.blind, i.mc = "none" /\ below_stop_condition(d, i))
      <3>1. hist = [old EXCEPT !.breach = b1, !.recovery = b2, !.bleed = b3,
                               !.break = b4, !.peak = b5, !.blind = b6]
        BY <2>2 DEF NextHistory, old
      <3>2. /\ b1 \in 0..Cap /\ b2 \in 0..Cap /\ b3 \in 0..Cap /\ b4 \in 0..Cap
            /\ b5 \in Int /\ b6 \in 0..Cap
        <4>1. i.ret \in Int
          BY <1>0, ReturnAssumption
        <4>2. /\ old.breach \in 0..Cap /\ old.recovery \in 0..Cap /\ old.bleed \in 0..Cap
              /\ old.break \in 0..Cap /\ old.peak \in Int /\ old.blind \in 0..Cap
          BY <1>1 DEF History
        <4>3. \A n \in 0..Cap : \A p : Run(n, p) \in 0..Cap
          BY TickAssumption DEF Run, Bump
        <4> HIDE DEF old
        <4> QED BY <4>1, <4>2, <4>3
      <3>3. b6 = Run(old.blind, i.mc = "none" /\ below_stop_condition(d, i))
        OBVIOUS
      <3> HIDE DEF b1, b2, b3, b4, b5, b6, hist
      <3>4. hist \in History /\ hist.stale = old.stale /\ hist.blind = b6
        BY <1>1, <3>1, <3>2 DEF History
      <3> QED BY <2>2, <3>3, <3>4
    <2> QED BY <2>1, <2>2
  <1>5. /\ e' = d \/ (reason # "none" /\ e' = Exited(d))
        /\ h' = hist \/ (reason # "none" /\ h' = ended)
        /\ e' = d => h' = hist \/ e' = Exited(d)
        /\ fired' = reason /\ moved' = FALSE /\ UNCHANGED <<held, regime>>
        /\ used'.misses = used.misses
    <2>1. used.misses = [used EXCEPT !.failures = @ + 1].misses
      BY DEF TypeOK
    <2> QED BY <2>1 DEF ActionCycle
  <1>6. /\ Exited(d).triggered = TRUE /\ Exited(d).last_holdings_positive = held
        /\ ended.blind = hist.blind /\ ended.stale = hist.stale
    <2> HIDE DEF d, hist
    <2> QED BY <1>2, <1>4 DEF Exited, Entry, History
  <1>7. ~d.triggered => hist.blind <= d.below_stop_count
    <2>1. SUFFICES ASSUME ~d.triggered PROVE hist.blind <= d.below_stop_count
      OBVIOUS
    <2> DEFINE c == below_stop_condition(d, i)
    <2>2. CASE i.mc = "none"
      <3>1. /\ hist.blind = Run(old.blind, c) /\ d.below_stop_count = Run(s.below_stop_count, c)
            /\ old.blind <= s.below_stop_count
        <4>1. c = (i.mc = "none" /\ c)
          BY <1>2, <2>2
        <4> HIDE DEF s, d, hist, old, c
        <4> QED BY <1>1, <1>2, <1>3, <1>4, <2>1, <2>2, <4>1 DEF c
      <3> HIDE DEF s, d, hist, old, c
      <3> QED BY <1>1, <1>2, <3>1, RunMonotone
    <2>3. CASE i.mc # "none"
      <3> HIDE DEF s, d, hist, old, c
      <3>1. hist.blind = 0
        BY <1>4, <2>1, <2>3 DEF Run
      <3> QED BY <1>2, <3>1
    <2> QED BY <2>2, <2>3
  <1>8. BlindFires
    <2>1. SUFFICES ASSUME h'.blind > h.blind, h'.blind >= regime, reason = "none"
                   PROVE  FALSE
      BY <1>5 DEF BlindFires
    <2>2. h' = hist /\ Fires(s, d, i) = {}
      <3>1. Fires(s, d, i) \in SUBSET Reason
        BY DEF Fires, FiresAt
      <3>2. "none" \notin Reason
        BY DEF Reason
      <3>3. Fires(s, d, i) = {}
        <4> HIDE DEF s, d
        <4>1. reason = resolve_trigger_priority(Fires(s, d, i)) OBVIOUS
        <4> QED BY <2>1, <3>1, <4>1 DEF resolve_trigger_priority
      <3> HIDE DEF s, d, reason, hist, ended
      <3> QED BY <1>5, <2>1, <3>3
    <2>3. h.blind \in Int /\ h.blind >= 0 /\ regime \in Int /\ regime >= 1
      BY TickAssumption DEF TypeOK, History
    <2> HIDE DEF s, d, hist, old, reason
    <2>4. ~d.triggered /\ i.mc = "none" /\ below_stop_condition(d, i)
      BY <1>4, <2>1, <2>2, <2>3 DEF Run
    <2>5. d.armed /\ d.below_stop_count >= regime
      <3>1. hist.blind \in Int /\ hist.blind >= regime
        BY <1>4, <2>1, <2>2 DEF History
      <3>2. d.armed
        BY <1>3, <2>4
      <3>3. hist.blind <= d.below_stop_count
        BY <1>7, <2>4
      <3> QED BY <1>2, <2>3, <3>1, <3>2, <3>3
    <2>6. "Trailing Stop" \in Fires(s, d, i)
      BY <2>4, <2>5 DEF Fires, FiresAt, Reason
    <2> QED BY <2>2, <2>6
  <1>9. BlindInv' /\ SeenInv'
    <2>1. BlindInv'
      <3> HIDE DEF s, d, hist, old, reason, ended
      <3>1. h'.blind = hist.blind
        BY <1>5, <1>6
      <3> QED BY <1>5, <1>6, <1>7, <3>1 DEF BlindInv
    <2>2. e'.last_holdings_positive = held
      <3> HIDE DEF s, d, hist, old, reason, ended
      <3> QED BY <1>2, <1>5, <1>6
    <2>3. SeenInv'
      BY <1>5, <2>2 DEF SeenInv
    <2> QED BY <2>1, <2>3
  <1>10. ResetOnReopen
    <2>1. SUFFICES ASSUME moved, used'.misses = 0, held PROVE ~h'.stale
      BY DEF ResetOnReopen
    <2>2. Reopened
      BY <1>5, <2>1 DEF SeenInv, Reopened
    <2>3. old.stale = FALSE
      BY <2>2 DEF NoHistory
    <2> HIDE DEF s, d, hist, old, reason, ended
    <2> QED BY <1>4, <1>5, <1>6, <2>3
  <1> QED BY <1>8, <1>9, <1>10

\* So does a cycle before the gate; a missed one notes nothing, and says so.
LEMMA SeenStep ==
    ASSUME TypeOK, Fits(e, h), BlindInv, SeenInv, [Next]_vars
    PROVE  BlindInv' /\ SeenInv' /\ (BlindFires \/ UNCHANGED vars) /\ ResetOnReopen
  <1>1. ASSUME NEW i \in Reading, NEW live \in LiveModes, ActionCycle(i, live)
        PROVE  BlindInv' /\ SeenInv' /\ BlindFires /\ ResetOnReopen
    BY <1>1, SeenCycle
  <1>2. ASSUME NEW ret \in Returns, PreGateCycle(ret)
        PROVE  BlindInv' /\ SeenInv' /\ BlindFires /\ ResetOnReopen
    <2> DEFINE old == IF rolled \/ Reopened THEN NoHistory ELSE h
    <2>1. /\ e' = DataPhase(ret)
          /\ h' = [old EXCEPT !.peak = IF ret > @ THEN ret ELSE @]
          /\ moved' = FALSE /\ UNCHANGED <<held, used, regime>>
      BY <1>2 DEF PreGateCycle
    <2>2. old = IF rolled \/ Reopened THEN NoHistory ELSE h
      OBVIOUS
    <2> HIDE DEF old
    <2>3. /\ old \in History /\ e'.last_holdings_positive = held
          /\ old.blind \in 0..Cap /\ (~e'.triggered => old.blind <= e'.below_stop_count)
      BY <2>1, <2>2, DataFits, SeenByData
    <2>4. h'.blind = old.blind /\ h'.stale = old.stale
      BY <2>1, <2>3 DEF History
    <2>5. BlindInv' /\ SeenInv'
      BY <2>1, <2>3, <2>4 DEF BlindInv, SeenInv
    <2>6. BlindFires
      <3>1. old = h \/ old.blind = 0
        BY <2>2 DEF NoHistory
      <3>2. h.blind \in 0..Cap
        BY DEF TypeOK, History
      <3> QED BY <2>4, <3>1, <3>2 DEF BlindFires
    <2>7. ResetOnReopen
      <3>1. moved /\ used'.misses = 0 /\ held => Reopened
        BY <2>1 DEF SeenInv, Reopened
      <3>2. Reopened => ~old.stale
        BY <2>2 DEF NoHistory
      <3> QED BY <2>4, <3>1, <3>2 DEF ResetOnReopen
    <2> QED BY <2>5, <2>6, <2>7
  <1>3. CASE MissedCycle
    <2>1. used.misses \in Nat /\ used'.misses = used.misses + 1
      BY <1>3, BoundAssumption DEF MissedCycle, TypeOK
    <2>2. BlindInv'
      <3>1. CASE rolled
        <4>1. e'.below_stop_count = 0 /\ h' = NoHistory
          BY <1>3, <3>1, WipeFits DEF MissedCycle, Started, TypeOK
        <4> QED BY <4>1 DEF BlindInv, NoHistory
      <3>2. CASE ~rolled
        BY <1>3, <3>2 DEF MissedCycle, Started, BlindInv
      <3> QED BY <3>1, <3>2
    <2>3. BlindFires
      <3>1. h' = h \/ h'.blind = 0
        BY <1>3 DEF MissedCycle, NoHistory
      <3>2. h.blind \in 0..Cap
        BY DEF TypeOK, History
      <3> QED BY <3>1, <3>2 DEF BlindFires
    <2> QED BY <2>1, <2>2, <2>3 DEF SeenInv, ResetOnReopen
  <1>4. CASE Move
    <2>1. /\ h'.blind = h.blind /\ h.blind \in 0..Cap /\ used'.misses = used.misses
          /\ e' = e /\ held' = ~held /\ ~moved /\ moved'
          /\ e.last_holdings_positive \in BOOLEAN /\ held \in BOOLEAN
      BY <1>4 DEF Move, TypeOK, History, Entry
    <2> QED BY <2>1 DEF BlindInv, SeenInv, BlindFires, ResetOnReopen
  <1>5. CASE GateOpens \/ NewDay
    <2>1. /\ h' = h /\ h.blind \in 0..Cap /\ used'.misses = used.misses
          /\ UNCHANGED <<e, held, moved>>
      BY <1>5 DEF GateOpens, NewDay, TypeOK, History
    <2> QED BY <2>1 DEF BlindInv, SeenInv, BlindFires, ResetOnReopen
  <1>6. CASE UNCHANGED vars
    BY <1>6 DEF vars, BlindInv, SeenInv, ResetOnReopen
  <1> QED BY <1>1, <1>2, <1>3, <1>4, <1>5, <1>6 DEF Next, Cycle

LEMMA SeenAlways ==
    Spec => [](TypeOK /\ Fits(e, h) /\ BlindInv /\ SeenInv)
  <1>1. Init => TypeOK /\ Fits(e, h) /\ BlindInv /\ SeenInv
    BY InitFits DEF Init, BlindInv, SeenInv, NoHistory
  <1>2. TypeOK /\ Fits(e, h) /\ BlindInv /\ SeenInv /\ [Next]_vars =>
            (TypeOK /\ Fits(e, h) /\ BlindInv /\ SeenInv)'
    BY EveryStep, SeenStep DEF Fits
  <1> QED BY <1>1, <1>2, PTL DEF Spec

\* Without a Monte Carlo reading the stop still protects: the tick that completes
\* the confirmation sells, also when the blind ticks themselves armed the stop.
THEOREM BlindStopsFire == Spec => BlindStopFires
  <1>1. TypeOK /\ Fits(e, h) /\ BlindInv /\ SeenInv /\ [Next]_vars => [BlindFires]_vars
    BY SeenStep
  <1> QED BY <1>1, SeenAlways, PTL DEF Spec, BlindStopFires, BlindFires

\* A re-opened position is never managed with the flag of the one sold before.
THEOREM ReopeningResets == Spec => ReopenedIsReset
  <1>1. TypeOK /\ Fits(e, h) /\ BlindInv /\ SeenInv /\ [Next]_vars => [ResetOnReopen]_vars
    BY SeenStep
  <1> QED BY <1>1, SeenAlways, PTL DEF Spec, ReopenedIsReset, ResetOnReopen

-----------------------------------------------------------------------------
(* Two entries that agree. *)

\* All that the seams read, but for the two counters named below.
Same(x, y) ==
    /\ x.high_water_mark = y.high_water_mark /\ x.armed = y.armed
    /\ x.tp_armed = y.tp_armed /\ x.above_tp_count = y.above_tp_count
    /\ x.breakeven_locked = y.breakeven_locked /\ x.hwm_hold_ticks = y.hwm_hold_ticks
    /\ x.vwap_ticks = y.vwap_ticks /\ x.vwap_bleed_ticks = y.vwap_bleed_ticks
    /\ ~x.triggered /\ ~y.triggered

SameDisarm(x, y) == x.armed => x.disarm_confirm_count = y.disarm_confirm_count
SameBelow(x, y) == x.below_stop_count = y.below_stop_count

\* The fields of an update of an entry.
LEMMA ArmSame ==
    ASSUME NEW x \in Entry, NEW y \in Entry, NEW mc \in Opinion, Same(x, y), SameDisarm(x, y),
           NEW c, c = compute_arm_disarm_decision(x, mc),
           NEW d, d = compute_arm_disarm_decision(y, mc)
    PROVE  Same(c, d) /\ SameDisarm(c, d) /\ (SameBelow(x, y) => SameBelow(c, d))
  <1>1. CASE ~x.armed
    <2>1. /\ c = [x EXCEPT !.armed = mc \in {"band", "none"}, !.disarm_confirm_count = 0]
          /\ d = [y EXCEPT !.armed = mc \in {"band", "none"}, !.disarm_confirm_count = 0]
      BY <1>1 DEF compute_arm_disarm_decision, Same
    <2> QED BY <2>1 DEF Entry, Same, SameDisarm, SameBelow
  <1>2. CASE x.armed /\ mc = "ahead" /\ x.disarm_confirm_count + 1 >= DISARM_CONFIRM_TICKS
    <2>1. /\ c = [x EXCEPT !.armed = FALSE, !.disarm_confirm_count = 0, !.below_stop_count = 0]
          /\ d = [y EXCEPT !.armed = FALSE, !.disarm_confirm_count = 0, !.below_stop_count = 0]
      BY <1>2 DEF compute_arm_disarm_decision, Same, SameDisarm
    <2> QED BY <2>1 DEF Entry, Same, SameDisarm, SameBelow
  <1>3. CASE x.armed /\ ~(mc = "ahead" /\ x.disarm_confirm_count + 1 >= DISARM_CONFIRM_TICKS)
    <2> DEFINE n == Run(x.disarm_confirm_count, mc = "ahead")
    <2>1. /\ c = [x EXCEPT !.disarm_confirm_count = n]
          /\ d = [y EXCEPT !.disarm_confirm_count = n]
      BY <1>3 DEF compute_arm_disarm_decision, Same, SameDisarm
    <2> HIDE DEF n
    <2> QED BY <2>1 DEF Entry, Same, SameDisarm, SameBelow
  <1> QED BY <1>1, <1>2, <1>3

LEMMA BreakevenSame ==
    ASSUME NEW x \in Entry, NEW y \in Entry, NEW ret, Same(x, y), SameDisarm(x, y),
           NEW c, c = compute_breakeven_update(x, ret),
           NEW d, d = compute_breakeven_update(y, ret)
    PROVE  Same(c, d) /\ SameDisarm(c, d) /\ (SameBelow(x, y) => SameBelow(c, d))
  <1> DEFINE n == Run(x.hwm_hold_ticks, ret >= ACTIVATION)
             l == x.breakeven_locked \/ n >= HWM_HOLD_TICKS_THRESHOLD
  <1>1. /\ c = [x EXCEPT !.hwm_hold_ticks = n, !.breakeven_locked = l]
        /\ d = [y EXCEPT !.hwm_hold_ticks = n, !.breakeven_locked = l]
    BY DEF compute_breakeven_update, Same
  <1> HIDE DEF n, l
  <1> QED BY <1>1 DEF Entry, Same, SameDisarm, SameBelow

\* Two readings of one bar.
OneBar(i, j) == i.ret = j.ret /\ i.mc = j.mc /\ i.vwap = j.vwap /\ i.grace = j.grace

LEMMA ConditionSame ==
    ASSUME NEW x, NEW y, NEW i, NEW j, Same(x, y), OneBar(i, j)
    PROVE  /\ broken_condition(x, i) = broken_condition(y, j)
           /\ bleed_condition(i) = bleed_condition(j)
           /\ i.dist = j.dist => below_stop_condition(x, i) = below_stop_condition(y, j)
  <1>1. safe_hwm(x, i) = safe_hwm(y, j)
    BY DEF Same, OneBar, safe_hwm
  <1>2. i.dist = j.dist => stop_trigger_level(x, i) = stop_trigger_level(y, j)
    BY <1>1 DEF Same, OneBar, stop_trigger_level
  <1>3. broken_condition(x, i) = broken_condition(y, j)
    BY <1>1 DEF OneBar, broken_condition
  <1>4. bleed_condition(i) = bleed_condition(j)
    BY DEF OneBar, bleed_condition
  <1>5. i.dist = j.dist => below_stop_condition(x, i) = below_stop_condition(y, j)
    BY <1>2 DEF OneBar, below_stop_condition
  <1> QED BY <1>3, <1>4, <1>5

LEMMA ConfirmSame ==
    ASSUME NEW x \in Entry, NEW y \in Entry, NEW i, NEW j, Same(x, y), SameDisarm(x, y),
           OneBar(i, j),
           NEW c, c = compute_exit_confirmation(x, i),
           NEW d, d = compute_exit_confirmation(y, j)
    PROVE  /\ Same(c, d) /\ SameDisarm(c, d)
           /\ i.dist = j.dist /\ SameBelow(x, y) => SameBelow(c, d)
  <1> DEFINE m == Run(x.below_stop_count, below_stop_condition(x, i))
             n == Run(y.below_stop_count, below_stop_condition(y, j))
  <1>1. CASE x.armed
    <2>1. c = [x EXCEPT !.below_stop_count = m] /\ d = [y EXCEPT !.below_stop_count = n]
      BY <1>1 DEF compute_exit_confirmation, Same
    <2>2. i.dist = j.dist /\ SameBelow(x, y) => m = n
      BY ConditionSame DEF SameBelow
    <2> HIDE DEF m, n
    <2> QED BY <2>1, <2>2 DEF Entry, Same, SameDisarm, SameBelow
  <1>2. CASE ~x.armed
    <2>1. c = x /\ d = y
      BY <1>2 DEF compute_exit_confirmation, Same
    <2> QED BY <2>1
  <1> QED BY <1>1, <1>2 DEF Entry

LEMMA TakeProfitSame ==
    ASSUME NEW x \in Entry, NEW y \in Entry, NEW i, NEW j, Same(x, y), SameDisarm(x, y),
           OneBar(i, j),
           NEW c, c = compute_tp_confirmation(x, i),
           NEW d, d = compute_tp_confirmation(y, j)
    PROVE  Same(c, d) /\ SameDisarm(c, d) /\ (SameBelow(x, y) => SameBelow(c, d))
  <1>1. CASE (x.tp_armed /\ i.mc = "ahead") \/ (~x.tp_armed /\ i.mc # "ahead")
    <2>1. c = x /\ d = y
      BY <1>1 DEF compute_tp_confirmation, Same, OneBar
    <2> QED BY <2>1
  <1>2. CASE ~x.tp_armed /\ i.mc = "ahead"
    <2>1. /\ c = [x EXCEPT !.tp_armed = TRUE, !.above_tp_count = 0]
          /\ d = [y EXCEPT !.tp_armed = TRUE, !.above_tp_count = 0]
      BY <1>2 DEF compute_tp_confirmation, Same, OneBar
    <2> QED BY <2>1 DEF Entry, Same, SameDisarm, SameBelow
  <1>3. CASE x.tp_armed /\ i.mc # "ahead"
    <2>1. PICK n : \/ /\ c = [x EXCEPT !.above_tp_count = n]
                      /\ d = [y EXCEPT !.above_tp_count = n]
                   \/ /\ c = [x EXCEPT !.tp_armed = FALSE, !.above_tp_count = n]
                      /\ d = [y EXCEPT !.tp_armed = FALSE, !.above_tp_count = n]
      <3>1. CASE i.mc = "none"
        BY <1>3, <3>1 DEF compute_tp_confirmation, Same, OneBar
      <3>2. CASE i.mc # "none" /\ x.above_tp_count + 1 >= TP_CONFIRM_TICKS /\ i.ret <= 0
        BY <1>3, <3>2 DEF compute_tp_confirmation, Same, OneBar
      <3>3. CASE i.mc # "none" /\ ~(x.above_tp_count + 1 >= TP_CONFIRM_TICKS /\ i.ret <= 0)
        <4>1. /\ c = [x EXCEPT !.above_tp_count = Bump(x.above_tp_count)]
              /\ d = [y EXCEPT !.above_tp_count = Bump(x.above_tp_count)]
          BY <1>3, <3>3 DEF compute_tp_confirmation, Same, OneBar
        <4> QED BY <4>1
      <3> QED BY <3>1, <3>2, <3>3
    <2> QED BY <2>1 DEF Entry, Same, SameDisarm, SameBelow
  <1> QED BY <1>1, <1>2, <1>3 DEF Entry

LEMMA VwapSame ==
    ASSUME NEW x \in Entry, NEW y \in Entry, NEW i, NEW j, Same(x, y), SameDisarm(x, y),
           OneBar(i, j),
           NEW c, c = compute_vwap_breakdown_update(x, i),
           NEW d, d = compute_vwap_breakdown_update(y, j)
    PROVE  Same(c, d) /\ SameDisarm(c, d) /\ (SameBelow(x, y) => SameBelow(c, d))
  <1> DEFINE m == Run(x.vwap_bleed_ticks, bleed_condition(i))
             n == Run(x.vwap_ticks, broken_condition(x, i))
  <1>1. /\ broken_condition(x, i) = broken_condition(y, j)
        /\ bleed_condition(i) = bleed_condition(j)
    BY ConditionSame
  <1>2. /\ c = [x EXCEPT !.vwap_bleed_ticks = m, !.vwap_ticks = n]
        /\ d = [y EXCEPT !.vwap_bleed_ticks = m, !.vwap_ticks = n]
    BY <1>1 DEF compute_vwap_breakdown_update, Same
  <1> HIDE DEF m, n
  <1> QED BY <1>2 DEF Entry, Same, SameDisarm, SameBelow

\* The decisions of a minute, entry by entry.
LEMMA DecideSame ==
    ASSUME NEW x \in Entry, NEW y \in Entry, NEW i \in Reading, NEW j \in Reading,
           Same(x, y), SameDisarm(x, y), OneBar(i, j),
           NEW c, c = Decide(x, i), NEW d, d = Decide(y, j)
    PROVE  /\ c \in Entry /\ d \in Entry
           /\ Same(c, d) /\ SameDisarm(c, d)
           /\ i.dist = j.dist /\ SameBelow(x, y) => SameBelow(c, d)
  <1> DEFINE x1 == compute_arm_disarm_decision(x, i.mc)
             y1 == compute_arm_disarm_decision(y, j.mc)
             x2 == compute_breakeven_update(x1, i.ret)
             y2 == compute_breakeven_update(y1, j.ret)
             x3 == compute_exit_confirmation(x2, i)
             y3 == compute_exit_confirmation(y2, j)
             x4 == compute_tp_confirmation(x3, i)
             y4 == compute_tp_confirmation(y3, j)
  <1>0. i.mc \in Opinion /\ j.mc \in Opinion /\ i.mc = j.mc /\ i.ret = j.ret
    BY ConditionFacts DEF OneBar
  <1>1. c = compute_vwap_breakdown_update(x4, i) /\ d = compute_vwap_breakdown_update(y4, j)
    BY DEF Decide
  <1>2. /\ x1 \in Entry /\ y1 \in Entry /\ Same(x1, y1) /\ SameDisarm(x1, y1)
        /\ SameBelow(x, y) => SameBelow(x1, y1)
    <2>1. x1 = compute_arm_disarm_decision(x, i.mc) /\ y1 = compute_arm_disarm_decision(y, i.mc)
      BY <1>0
    <2> HIDE DEF x1, y1
    <2>2. x1 \in Entry /\ y1 \in Entry
      BY <1>0, <2>1, ArmFacts
    <2> QED BY <1>0, <2>1, <2>2, ArmSame
  <1>3. /\ x2 \in Entry /\ y2 \in Entry /\ Same(x2, y2) /\ SameDisarm(x2, y2)
        /\ SameBelow(x1, y1) => SameBelow(x2, y2)
    <2>1. x2 = compute_breakeven_update(x1, i.ret) /\ y2 = compute_breakeven_update(y1, i.ret)
      BY <1>0
    <2> HIDE DEF x1, y1, x2, y2
    <2>2. x2 \in Entry /\ y2 \in Entry
      BY <1>2, <2>1, BreakevenFacts
    <2> QED BY <1>2, <2>1, <2>2, BreakevenSame
  <1>4. /\ x3 \in Entry /\ y3 \in Entry /\ Same(x3, y3) /\ SameDisarm(x3, y3)
        /\ i.dist = j.dist /\ SameBelow(x2, y2) => SameBelow(x3, y3)
    <2>1. x3 = compute_exit_confirmation(x2, i) /\ y3 = compute_exit_confirmation(y2, j)
      OBVIOUS
    <2> HIDE DEF x2, y2, x3, y3
    <2>2. x3 \in Entry /\ y3 \in Entry
      BY <1>3, <2>1, ConfirmFacts
    <2> QED BY <1>3, <2>1, <2>2, ConfirmSame
  <1>5. /\ x4 \in Entry /\ y4 \in Entry /\ Same(x4, y4) /\ SameDisarm(x4, y4)
        /\ SameBelow(x3, y3) => SameBelow(x4, y4)
    <2>1. x4 = compute_tp_confirmation(x3, i) /\ y4 = compute_tp_confirmation(y3, j)
      OBVIOUS
    <2> HIDE DEF x3, y3, x4, y4
    <2>2. x4 \in Entry /\ y4 \in Entry
      BY <1>4, <2>1, TakeProfitFacts
    <2> QED BY <1>4, <2>1, <2>2, TakeProfitSame
  <1> HIDE DEF x1, y1, x2, y2, x3, y3, x4, y4
  <1>6. c \in Entry /\ d \in Entry
    BY <1>1, <1>5, VwapFacts
  <1>7. Same(c, d) /\ SameDisarm(c, d) /\ (SameBelow(x4, y4) => SameBelow(c, d))
    BY <1>1, <1>5, VwapSame
  <1> QED BY <1>2, <1>3, <1>4, <1>5, <1>6, <1>7

\* Two sets of exits that differ at most in the trailing stop.
SameButStop(F, G) == \A q \in Reason \ {"Trailing Stop"} : q \in F <=> q \in G

LEMMA FiresSame ==
    ASSUME NEW x, NEW y, NEW c, NEW d, NEW i, NEW j, NEW m, NEW n,
           Same(x, y), Same(c, d), OneBar(i, j),
           NEW F, F = FiresAt(m, x, c, i), NEW G, G = FiresAt(n, y, d, j)
    PROVE  /\ F \in SUBSET Reason /\ G \in SUBSET Reason
           /\ SameButStop(F, G)
           /\ i.dist = j.dist /\ m = n /\ SameBelow(c, d) => F = G
  <1>1. F \in SUBSET Reason /\ G \in SUBSET Reason
    BY DEF FiresAt
  <1>2. ASSUME NEW q \in Reason, q # "Trailing Stop"
        PROVE  q \in F <=> q \in G
    BY <1>2 DEF FiresAt, Same, OneBar
  <1>3. ASSUME i.dist = j.dist, m = n, SameBelow(c, d)
        PROVE  "Trailing Stop" \in F <=> "Trailing Stop" \in G
    <2>1. below_stop_condition(c, i) = below_stop_condition(d, j)
      BY <1>3, ConditionSame
    <2> QED BY <1>3, <2>1 DEF FiresAt, Same, SameBelow
  <1>4. SameButStop(F, G)
    BY <1>2 DEF SameButStop
  <1>5. i.dist = j.dist /\ m = n /\ SameBelow(c, d) => F = G
    <2> SUFFICES ASSUME i.dist = j.dist, m = n, SameBelow(c, d) PROVE F = G
      OBVIOUS
    <2>1. \A q \in Reason : q \in F <=> q \in G
      BY <1>2, <1>3
    <2> QED BY <1>1, <2>1
  <1> QED BY <1>1, <1>4, <1>5

\* The resolver puts the trailing stop last.
LEMMA StopIsLast ==
    ASSUME NEW F \in SUBSET Reason, NEW G \in SUBSET Reason,
           SameButStop(F, G),
           NEW p, p = resolve_trigger_priority(F), NEW q, q = resolve_trigger_priority(G)
    PROVE  p # q => {p, q} = {"Trailing Stop", "none"}
  <1> SUFFICES ASSUME p # q PROVE {p, q} = {"Trailing Stop", "none"}
    OBVIOUS
  <1>1. \A x \in {"VWAP Breakdown", "Take-Profit", "VWAP Bleed Cut"} : x \in F <=> x \in G
    BY DEF SameButStop
  <1>2. /\ "VWAP Breakdown" \notin F /\ "Take-Profit" \notin F /\ "VWAP Bleed Cut" \notin F
    <2>1. CASE "VWAP Breakdown" \in F
      BY <1>1, <2>1 DEF resolve_trigger_priority
    <2>2. CASE "VWAP Breakdown" \notin F /\ "Take-Profit" \in F
      BY <1>1, <2>2 DEF resolve_trigger_priority
    <2>3. CASE /\ "VWAP Breakdown" \notin F /\ "Take-Profit" \notin F
               /\ "VWAP Bleed Cut" \in F
      BY <1>1, <2>3 DEF resolve_trigger_priority
    <2> QED BY <2>1, <2>2, <2>3
  <1>3. p \in {"none", "Trailing Stop"} /\ q \in {"none", "Trailing Stop"}
    BY <1>1, <1>2 DEF resolve_trigger_priority
  <1>4. CASE p = "none" /\ q = "Trailing Stop"
    BY <1>4
  <1>5. CASE p = "Trailing Stop" /\ q = "none"
    BY <1>5
  <1>6. \/ p = "none" /\ q = "Trailing Stop"
        \/ p = "Trailing Stop" /\ q = "none"
    BY <1>3
  <1> QED BY <1>4, <1>5, <1>6

-----------------------------------------------------------------------------
(* The types. *)

Para == [para_armed : BOOLEAN, prev_return : Int]

ReplayType ==
    /\ start \in StartTimes /\ tick \in 0..NTicks
    /\ para \in Para /\ rpara \in Para /\ r \in Entry /\ ~r.triggered
    /\ confirm \in Regimes /\ running \in BOOLEAN /\ clean \in BOOLEAN /\ level \in BOOLEAN

\* Before the first minute of a day the engine lives through, nothing is replayed.
FreshInv == rolled /\ clean => running /\ r = _fresh_replay_state /\ rpara = NoPara

RInv == TypeOK /\ Fits(e, h) /\ ReplayType /\ FreshInv /\ SameState

LEMMA ReturnFacts ==
    ASSUME NEW ret \in Returns
    PROVE  ret \in Int /\ ret > NoMark
  BY ReturnAssumption

LEMMA ParaTyped ==
    ASSUME NEW p \in Para, NEW ret \in Returns
    PROVE  compute_para_arm_decision(p, ret) \in Para
  <1>1. ret \in Int /\ PARA_THRESHOLD \in Int
    BY ReturnFacts, SessionAssumption
  <1> QED BY <1>1 DEF Para, compute_para_arm_decision

LEMMA ProductFacts ==
    ASSUME NEW k \in Nat, NEW d \in Nat \ {0}, NEW n \in Nat, k <= d
    PROVE  k * n \in Nat /\ k * n <= d * n
  BY SMT

\* A minute of the session is a step of the time squeeze.
LEMMA QuotientFacts ==
    ASSUME NEW k \in Nat, NEW d \in Nat \ {0}, NEW n \in Nat, k <= d * n
    PROVE  k \div d \in 0..n
  <1> DEFINE q == k \div d
  <1>1. q \in Int /\ d * q <= k /\ k < d * (q + 1)
    BY SMT
  <1>2. q >= 0
    BY <1>1, SMT
  <1>3. q <= n
    <2>1. SUFFICES ASSUME q >= n + 1 PROVE FALSE
      BY <1>1
    <2>2. d * q >= d * (n + 1)
      BY <1>1, <2>1, SMT
    <2> QED BY <1>1, <2>2, SMT
  <1> QED BY <1>1, <1>2, <1>3

LEMMA TimeFacts ==
    ASSUME NEW t \in Nat, NEW a \in Nat, NEW b \in Nat, a <= t, t <= b, a < b
    PROVE  time_step(t, a, b) \in 0..TimeSteps
  <1>1. t - a \in Nat /\ b - a \in Nat \ {0} /\ t - a <= b - a /\ TimeSteps \in Nat
    BY SessionAssumption
  <1> DEFINE k == (t - a) * TimeSteps
  <1>2. k \in Nat /\ k <= (b - a) * TimeSteps
    BY <1>1, ProductFacts
  <1> HIDE DEF k
  <1>3. k \div (b - a) \in 0..TimeSteps
    BY <1>1, <1>2, QuotientFacts
  <1> QED BY <1>3 DEF time_step, k

\* In an action minute both sides read a bar at a distance of the table.
LEMMA ReadingFacts ==
    ASSUME ReplayType, tick >= start, tick < NTicks, NEW b \in Bar, NEW q \in BOOLEAN
    PROVE  At(b, LiveDistance(q)) \in Reading /\ At(b, ReplayDistance(q)) \in Reading
  <1>1. /\ tick \in Nat /\ start \in Nat /\ NTicks \in Nat /\ NTicks >= 2
        /\ start <= tick /\ tick <= NTicks - 1 /\ start < NTicks
    BY SessionAssumption DEF ReplayType
  <1>2. time_step(tick, start, NTicks) \in 0..TimeSteps
    BY <1>1, TimeFacts
  <1>3. time_step(tick, 0, NTicks - 1) \in 0..TimeSteps
    BY <1>1, TimeFacts
  <1>4. LiveDistance(q) \in Distances /\ ReplayDistance(q) \in Distances
    BY <1>2, <1>3, SessionAssumption DEF LiveDistance, ReplayDistance
  <1>5. in_open_window_grace \in Graces
    <2>1. in_open_window_grace \in BOOLEAN
      BY DEF in_open_window_grace
    <2> QED BY <2>1, SessionAssumption
  <1> QED BY <1>4, <1>5 DEF At, Bar, Reading

LEMMA BothRead ==
    ASSUME ReplayType, tick >= start, tick < NTicks, NEW b \in Bar
    PROVE  LiveReading(b) \in Reading /\ ReplayReading(b) \in Reading
  <1>1. \A q \in BOOLEAN : At(b, LiveDistance(q)) \in Reading /\ At(b, ReplayDistance(q)) \in Reading
    BY ReadingFacts
  <1> DEFINE p == \/ compute_para_arm_decision(ParaStarted, b.ret).para_armed
                  \/ DataPhase(b.ret).breakeven_locked
             q == \/ compute_para_arm_decision(rpara, b.ret).para_armed
                  \/ r.breakeven_locked
  <1>2. p \in BOOLEAN /\ q \in BOOLEAN
    OBVIOUS
  <1>3. LiveReading(b) = At(b, LiveDistance(p)) /\ ReplayReading(b) = At(b, ReplayDistance(q))
    BY DEF LiveReading, ReplayReading
  <1> HIDE DEF p, q
  <1> QED BY <1>1, <1>2, <1>3

LEMMA LiftedTyped ==
    ASSUME ReplayType, NEW ret \in Returns, NEW x, x = Lifted(ret)
    PROVE  x \in Entry /\ ~x.triggered /\ x.breakeven_locked = r.breakeven_locked
  <1>1. ret \in Int
    BY ReturnFacts
  <1> QED BY <1>1 DEF ReplayType, Lifted, Entry

-----------------------------------------------------------------------------
(* A minute both live through starts from entries that agree. *)

LEMMA StartSame ==
    ASSUME RInv, NEW ret \in Returns, clean, OnePosition, running, rolled \/ ~e.triggered,
           NEW x, x = Lifted(ret), NEW s, s = DataPhase(ret)
    PROVE  /\ x \in Entry /\ s \in Entry
           /\ Same(x, s) /\ SameDisarm(x, s) /\ (level => SameBelow(x, s))
           /\ rpara = ParaStarted
  <1>1. x \in Entry
    BY LiftedTyped DEF RInv
  <1>2. s \in Entry
    <2> DEFINE old == IF rolled \/ Reopened THEN NoHistory ELSE h
               y == [old EXCEPT !.peak = IF ret > @ THEN ret ELSE @]
    <2> HIDE DEF old, y
    <2>1. old = IF rolled \/ Reopened THEN NoHistory ELSE h
      BY DEF old
    <2>2. y = [old EXCEPT !.peak = IF ret > @ THEN ret ELSE @]
      BY DEF y
    <2> QED BY <2>1, <2>2, DataFits DEF RInv
  <1>3. ret \in Int /\ ret > NoMark /\ NoMark \in Int
    BY ReturnFacts, NoMarkInt
  <1>4. e \in Entry /\ r \in Entry /\ ~r.triggered
    BY DEF RInv, TypeOK, ReplayType
  <1>5. CASE rolled
    <2>1. r = FreshState(NoMark) /\ rpara = NoPara
      BY <1>5 DEF RInv, FreshInv, _fresh_replay_state
    <2>2. x = FreshState(ret)
      BY <1>3, <2>1 DEF Lifted, FreshState
    <2>3. /\ s.high_water_mark = ret /\ s.armed = FALSE /\ s.tp_armed = FALSE
          /\ s.above_tp_count = 0 /\ s.breakeven_locked = FALSE /\ s.hwm_hold_ticks = 0
          /\ s.vwap_ticks = 0 /\ s.vwap_bleed_ticks = 0 /\ s.triggered = FALSE
          /\ s.below_stop_count = 0
      <3>1. CASE Reopened
        BY <1>3, <1>4, <1>5, <3>1 DEF DataPhase, Reset, Started, wipe_transient_state, Entry
      <3>2. CASE ~Reopened
        BY <1>3, <1>4, <1>5, <3>2 DEF DataPhase, Started, wipe_transient_state, Entry
      <3> QED BY <3>1, <3>2
    <2>4. /\ x.high_water_mark = ret /\ x.armed = FALSE /\ x.tp_armed = FALSE
          /\ x.above_tp_count = 0 /\ x.breakeven_locked = FALSE /\ x.hwm_hold_ticks = 0
          /\ x.vwap_ticks = 0 /\ x.vwap_bleed_ticks = 0 /\ x.triggered = FALSE
          /\ x.below_stop_count = 0
      BY <2>2 DEF FreshState
    <2>5. rpara = ParaStarted
      BY <1>5, <2>1 DEF ParaStarted
    <2> QED BY <1>1, <1>2, <2>3, <2>4, <2>5 DEF Same, SameDisarm, SameBelow
  <1>6. CASE ~rolled
    <2>1. ~e.triggered /\ ~Reopened /\ Faithful
      BY <1>6 DEF OnePosition, Faithful
    <2>2. SameLadders /\ SameStop
      BY <2>1 DEF RInv, SameState
    <2>3. s = [e EXCEPT !.high_water_mark = IF ret > e.high_water_mark THEN ret
                                            ELSE e.high_water_mark,
                        !.last_holdings_positive = held]
      BY <1>4, <1>6, <2>1 DEF DataPhase, Started, Entry
    <2>4. x = [r EXCEPT !.high_water_mark = IF ret > e.high_water_mark THEN ret
                                            ELSE e.high_water_mark]
      BY <1>4, <2>2 DEF Lifted, SameLadders
    <2>5. rpara = ParaStarted
      BY <1>6, <2>1, <2>2 DEF ParaStarted, SameLadders
    <2>6. Same(x, s)
      BY <1>4, <2>1, <2>2, <2>3, <2>4 DEF Entry, SameLadders, Same
    <2>7. SameDisarm(x, s)
      BY <1>4, <2>1, <2>2, <2>3, <2>4 DEF Entry, SameLadders, SameDisarm
    <2>8. level => SameBelow(x, s)
      BY <1>4, <2>2, <2>3, <2>4 DEF Entry, SameStop, SameBelow
    <2> QED BY <1>1, <1>2, <2>5, <2>6, <2>7, <2>8
  <1> QED BY <1>5, <1>6

-----------------------------------------------------------------------------
(* The steps. *)

\* ReplayAgrees of one step.
Agrees ==
    tick' = tick + 1 /\ (rolled \/ ~e.triggered) /\ running /\ clean' =>
        /\ level' => out' = fired'
        /\ out' # fired' => {out', fired'} = {"Trailing Stop", "none"}

\* The replay's side of a minute keeps its types.
LEMMA MinuteTyped ==
    ASSUME RInv, NEW b \in Bar, Tick, _replay_exit_tick(b),
           para' \in Para, clean' \in BOOLEAN, level' \in BOOLEAN
    PROVE  ReplayType'
  <1>0. ReplayType /\ b.ret \in Returns
    BY DEF RInv, Bar
  <1>1. start' = start /\ confirm' = confirm /\ tick' \in 0..NTicks
    BY <1>0, SessionAssumption DEF Tick, ReplayType
  <1>2. r' \in Entry /\ ~r'.triggered /\ rpara' \in Para /\ running' \in BOOLEAN
    <2>1. CASE ~running
      BY <1>0, <2>1 DEF _replay_exit_tick, ReplayType
    <2>2. CASE running /\ ~_replay_in_action_phase
      <3>1. r' = Lifted(b.ret) /\ rpara' = rpara /\ running' = running
        BY <2>2 DEF _replay_exit_tick
      <3>2. r' \in Entry /\ ~r'.triggered
        BY <1>0, <3>1, LiftedTyped
      <3> QED BY <1>0, <3>1, <3>2 DEF ReplayType
    <2>3. CASE running /\ _replay_in_action_phase
      <3> DEFINE x == Lifted(b.ret)
                 j == ReplayReading(b)
                 c == Decide(x, j)
      <3>1. /\ r' = ReplayChecks(x, j)
            /\ rpara' = compute_para_arm_decision(rpara, b.ret)
            /\ running' = (out' = "none")
        BY <2>3 DEF _replay_exit_tick
      <3>2. r' = c
        BY <3>1 DEF ReplayChecks, Decide
      <3>3. j \in Reading
        BY <1>0, <2>3, BothRead DEF _replay_in_action_phase, Tick
      <3>4. x \in Entry /\ ~x.triggered
        BY <1>0, LiftedTyped
      <3> HIDE DEF x, j
      <3>5. c = Decide(x, j)
        OBVIOUS
      <3> HIDE DEF c
      <3>6. c \in Entry /\ c.triggered = x.triggered
        BY <3>3, <3>4, <3>5, DecideFacts
      <3>7. rpara' \in Para
        BY <1>0, <3>1, ParaTyped DEF ReplayType
      <3> QED BY <3>1, <3>2, <3>4, <3>6, <3>7
    <2> QED BY <2>1, <2>2, <2>3
  <1> QED BY <1>0, <1>1, <1>2 DEF ReplayType

LEMMA ParaStartedTyped ==
    ASSUME ReplayType
    PROVE  NoPara \in Para /\ ParaStarted \in Para
  <1>1. NoPara \in Para
    BY NoMarkInt DEF NoPara, Para
  <1> QED BY <1>1 DEF ParaStarted, ReplayType

\* Both run the checks: they return the same, or differ in a trailing stop.
LEMMA ActionStep ==
    ASSUME RInv, NEW b \in Bar, NEW live, ActionMinute(b, live)
    PROVE  ReplayType' /\ FreshInv' /\ SameState' /\ Agrees
  <1>0. ReplayType /\ b.ret \in Returns /\ ~rolled' /\ rolled' = FALSE
    BY DEF RInv, Bar, ActionMinute, ActionCycle
  <1>1. ReplayType'
    <2>1. para' \in Para
      BY <1>0, ParaStartedTyped, ParaTyped DEF ActionMinute
    <2>2. clean' \in BOOLEAN /\ level' \in BOOLEAN
      BY DEF ActionMinute
    <2> QED BY <2>1, <2>2, MinuteTyped DEF ActionMinute
  <1>2. FreshInv'
    BY <1>0 DEF FreshInv
  <1>3. ASSUME clean', running, rolled \/ ~e.triggered
        PROVE  /\ level' => out' = fired'
               /\ out' # fired' => {out', fired'} = {"Trailing Stop", "none"}
               /\ running' /\ ~e'.triggered => SameLadders' /\ SameStop'
    <2> DEFINE x == Lifted(b.ret)
               s == DataPhase(b.ret)
               j == ReplayReading(b)
               i == LiveReading(b)
               c == Decide(x, j)
               d == Decide(s, i)
    <2>1. clean /\ OnePosition /\ _replay_in_action_phase
      <3>1. tick >= start
        BY <1>0, SessionAssumption DEF ActionMinute, ReplayType
      <3> QED BY <1>3, <3>1 DEF ActionMinute, _replay_in_action_phase
    <2>2. /\ x \in Entry /\ s \in Entry
          /\ Same(x, s) /\ SameDisarm(x, s) /\ (level => SameBelow(x, s))
          /\ rpara = ParaStarted
      BY <1>0, <1>3, <2>1, StartSame
    <2>3. i \in Reading /\ j \in Reading
      BY <1>0, <2>1, BothRead DEF _replay_in_action_phase, ActionMinute, Tick
    <2>4. OneBar(j, i) /\ i.ret = b.ret
      BY DEF At, OneBar, ReplayReading, LiveReading
    <2>5. level' => level /\ confirm = regime /\ j.dist = i.dist
      <3> SUFFICES ASSUME level' PROVE level /\ confirm = regime /\ j.dist = i.dist
        OBVIOUS
      <3>1. level /\ confirm = regime /\ \A q \in BOOLEAN : LiveDistance(q) = ReplayDistance(q)
        BY DEF ActionMinute
      <3> DEFINE q == \/ compute_para_arm_decision(rpara, b.ret).para_armed
                      \/ r.breakeven_locked
      <3>2. r.breakeven_locked = s.breakeven_locked
        BY <1>0, <2>2, LiftedTyped DEF Same
      <3>3. i = At(b, LiveDistance(q)) /\ j = At(b, ReplayDistance(q))
        BY <2>2, <3>2 DEF LiveReading, ReplayReading
      <3>4. q \in BOOLEAN
        OBVIOUS
      <3> HIDE DEF q
      <3> QED BY <3>1, <3>3, <3>4 DEF At
    <2>6. /\ r' = c /\ rpara' = compute_para_arm_decision(rpara, b.ret)
          /\ out' = resolve_trigger_priority(FiresAt(confirm, x, c, j))
          /\ running' = (out' = "none")
      BY <1>3, <2>1 DEF ActionMinute, _replay_exit_tick, ReplayChecks, Decide
    <2>7. /\ fired' = resolve_trigger_priority(FiresAt(regime, s, d, i))
          /\ e' = d \/ e' = Exited(d)
          /\ para' = compute_para_arm_decision(ParaStarted, b.ret)
      BY <2>4 DEF ActionMinute, ActionCycle, Fires
    <2> HIDE DEF x, s, j, i
    <2>8. c = Decide(x, j) /\ d = Decide(s, i)
      OBVIOUS
    <2> HIDE DEF c, d
    <2>9. /\ c \in Entry /\ d \in Entry
          /\ Same(c, d) /\ SameDisarm(c, d)
          /\ j.dist = i.dist /\ SameBelow(x, s) => SameBelow(c, d)
      <3>1. OneBar(j, i) /\ SameDisarm(x, s) /\ Same(x, s)
        BY <2>2, <2>4
      <3> QED BY <2>2, <2>3, <2>8, <3>1, DecideSame
    <2> DEFINE F == FiresAt(confirm, x, c, j)
               G == FiresAt(regime, s, d, i)
    <2>10. /\ F \in SUBSET Reason /\ G \in SUBSET Reason /\ SameButStop(F, G)
           /\ j.dist = i.dist /\ confirm = regime /\ SameBelow(c, d) => F = G
      <3>1. F = FiresAt(confirm, x, c, j) /\ G = FiresAt(regime, s, d, i)
        OBVIOUS
      <3> HIDE DEF F, G
      <3> QED BY <2>2, <2>4, <2>9, <3>1, FiresSame
    <2>11. out' = resolve_trigger_priority(F) /\ fired' = resolve_trigger_priority(G)
      BY <2>6, <2>7
    <2> HIDE DEF F, G
    <2>12. level' => out' = fired'
      BY <2>2, <2>5, <2>9, <2>10, <2>11
    <2>13. out' # fired' => {out', fired'} = {"Trailing Stop", "none"}
      BY <2>10, <2>11, StopIsLast
    <2>14. ASSUME running', ~e'.triggered PROVE SameLadders' /\ SameStop'
      <3>1. e' = d
        BY <2>7, <2>9, <2>14 DEF Exited, Entry
      <3>2. para' = rpara'
        BY <2>2, <2>6, <2>7
      <3>3. r' = c
        BY <2>6
      <3>4. SameLadders'
        BY <2>9, <3>1, <3>2, <3>3 DEF SameLadders, Same, SameDisarm
      <3>5. SameStop'
        BY <2>2, <2>5, <2>9, <3>1, <3>3 DEF SameStop, SameBelow
      <3> QED BY <3>4, <3>5
    <2> QED BY <2>12, <2>13, <2>14
  <1>4. SameState'
    <2> SUFFICES ASSUME Faithful' PROVE SameLadders' /\ SameStop'
      BY DEF SameState
    <2>1. clean' /\ running' /\ ~e'.triggered
      BY DEF Faithful
    <2>2. running
      BY <2>1 DEF ActionMinute, _replay_exit_tick
    <2>3. rolled \/ ~e.triggered
      <3> SUFFICES ASSUME ~rolled, e.triggered PROVE FALSE
        OBVIOUS
      <3>1. ~Reopened
        BY <2>1 DEF ActionMinute, OnePosition
      <3> DEFINE s == DataPhase(b.ret)
                 i == LiveReading(b)
                 d == Decide(s, i)
      <3>2. s \in Entry /\ s.triggered
        <4>1. e \in Entry /\ held \in BOOLEAN
          BY DEF RInv, TypeOK
        <4>2. s = [e EXCEPT !.high_water_mark = @, !.last_holdings_positive = held]
          BY <3>1, <4>1 DEF DataPhase, Started, Entry
        <4> QED BY <4>1, <4>2 DEF Entry
      <3>3. i \in Reading
        <4>1. tick >= start
          BY <1>0, SessionAssumption DEF ActionMinute, ReplayType
        <4> QED BY <1>0, <4>1, BothRead DEF ActionMinute, Tick
      <3>4. i.ret = b.ret
        BY DEF LiveReading, At
      <3>5. e' = d \/ e' = Exited(d)
        BY <3>4 DEF ActionMinute, ActionCycle
      <3> HIDE DEF s, i
      <3>6. d = Decide(s, i)
        OBVIOUS
      <3> HIDE DEF d
      <3>7. d \in Entry /\ d.triggered = s.triggered
        BY <3>2, <3>3, <3>6, DecideFacts
      <3> QED BY <2>1, <3>2, <3>5, <3>7 DEF Exited, Entry
    <2> QED BY <1>3, <2>1, <2>2, <2>3
  <1>5. Agrees
    BY <1>3 DEF Agrees
  <1> QED BY <1>1, <1>2, <1>4, <1>5

\* Before EXECUTION_START_TIME both run the data phase alone.
LEMMA PreGateSame ==
    ASSUME RInv, NEW b \in Bar, PreGateMinute(b)
    PROVE  ReplayType' /\ FreshInv' /\ SameState' /\ Agrees
  <1>0. ReplayType /\ b.ret \in Returns /\ ~rolled' /\ ~_replay_in_action_phase
    <2>1. ReplayType /\ b.ret \in Returns /\ ~rolled'
      BY DEF RInv, Bar, PreGateMinute, PreGateCycle
    <2>2. tick < start /\ tick \in Int /\ start \in Int
      BY <2>1, SessionAssumption DEF PreGateMinute, ReplayType
    <2> QED BY <2>1, <2>2 DEF _replay_in_action_phase
  <1>1. ReplayType'
    <2>1. para' \in Para
      BY <1>0, ParaStartedTyped DEF PreGateMinute
    <2>2. clean' \in BOOLEAN /\ level' \in BOOLEAN
      BY <1>0 DEF PreGateMinute, ReplayType
    <2> QED BY <2>1, <2>2, MinuteTyped DEF PreGateMinute
  <1>2. FreshInv'
    BY <1>0 DEF FreshInv
  <1>3. out' = "none" /\ fired' = "none"
    BY <1>0 DEF PreGateMinute, _replay_exit_tick, PreGateCycle
  <1>4. SameState'
    <2> SUFFICES ASSUME Faithful' PROVE SameLadders' /\ SameStop'
      BY DEF SameState
    <2> DEFINE x == Lifted(b.ret)
               s == DataPhase(b.ret)
    <2>1. clean /\ OnePosition /\ ~e'.triggered /\ running
      BY DEF Faithful, PreGateMinute, _replay_exit_tick
    <2>2. e' = s /\ para' = ParaStarted /\ level' = level
      BY DEF PreGateMinute, PreGateCycle
    <2>3. r' = x /\ rpara' = rpara
      BY <1>0, <2>1 DEF PreGateMinute, _replay_exit_tick
    <2>4. rolled \/ ~e.triggered
      <3> SUFFICES ASSUME ~rolled, e.triggered PROVE FALSE
        OBVIOUS
      <3>1. ~Reopened
        BY <2>1 DEF OnePosition
      <3>2. e \in Entry /\ held \in BOOLEAN
        BY DEF RInv, TypeOK
      <3>3. s = [e EXCEPT !.high_water_mark = @, !.last_holdings_positive = held]
        BY <3>1, <3>2 DEF DataPhase, Started, Entry
      <3> QED BY <2>1, <2>2, <3>2, <3>3 DEF Entry
    <2>5. /\ x \in Entry /\ s \in Entry
          /\ Same(x, s) /\ SameDisarm(x, s) /\ (level => SameBelow(x, s))
          /\ rpara = ParaStarted
      BY <1>0, <2>1, <2>4, StartSame
    <2> HIDE DEF x, s
    <2>6. SameLadders'
      BY <2>2, <2>3, <2>5 DEF SameLadders, Same, SameDisarm
    <2>7. SameStop'
      BY <2>2, <2>3, <2>5 DEF SameStop, SameBelow
    <2> QED BY <2>6, <2>7
  <1>5. Agrees
    BY <1>3 DEF Agrees
  <1> QED BY <1>1, <1>2, <1>4, <1>5

\* A minute only one of them lives through ends the comparison for the day.
LEMMA OtherMinute ==
    ASSUME RInv, NEW b \in Bar, MissedMinute(b) \/ BlackoutMinute(b)
    PROVE  ReplayType' /\ FreshInv' /\ SameState' /\ Agrees
  <1>0. ReplayType
    BY DEF RInv
  <1>1. clean' = FALSE /\ level' = level
    BY DEF MissedMinute, BlackoutMinute
  <1>2. para' \in Para
    BY <1>0, ParaStartedTyped DEF MissedMinute, BlackoutMinute, ReplayType
  <1>3. ReplayType'
    <2>1. clean' \in BOOLEAN /\ level' \in BOOLEAN
      BY <1>0, <1>1 DEF ReplayType
    <2> QED BY <1>2, <2>1, MinuteTyped DEF MissedMinute, BlackoutMinute
  <1>4. FreshInv' /\ SameState' /\ Agrees
    BY <1>1 DEF FreshInv, SameState, Faithful, Agrees
  <1> QED BY <1>3, <1>4

\* A new day, the start time, and a move at Composer.
LEMMA EnvironmentStep ==
    ASSUME RInv, NextDay \/ StartTimeReached \/ HoldingsMove \/ UNCHANGED allVars
    PROVE  ReplayType' /\ FreshInv' /\ SameState' /\ Agrees
  <1>0. ReplayType /\ FreshInv /\ SameState
    BY DEF RInv
  <1>1. CASE NextDay
    <2>1. _fresh_replay_state \in Entry /\ ~_fresh_replay_state.triggered
      BY NoMarkInt, TickAssumption DEF _fresh_replay_state, FreshState, Entry
    <2>2. ReplayType'
      <3>1. tick' \in 0..NTicks /\ start' \in StartTimes
        BY <1>0, <1>1, SessionAssumption DEF NextDay, ReplayType
      <3>2. rpara' \in Para /\ para' \in Para
        BY <1>0, <1>1, ParaStartedTyped DEF NextDay, ReplayType
      <3> QED BY <1>1, <2>1, <3>1, <3>2 DEF NextDay, ReplayType
    <2>3. rolled'
      BY <1>1 DEF NextDay, NewDay
    <2>4. FreshInv' /\ SameState'
      BY <1>1, <2>3 DEF NextDay, FreshInv, SameState, Faithful
    <2>5. Agrees
      <3>1. tick' = 0 /\ tick = NTicks /\ NTicks \in Nat
        BY <1>1, SessionAssumption DEF NextDay
      <3>2. tick' # tick + 1
        BY <3>1
      <3> QED BY <3>2 DEF Agrees
    <2> QED BY <2>2, <2>4, <2>5
  <1>2. CASE StartTimeReached \/ HoldingsMove \/ UNCHANGED allVars
    <2>1. UNCHANGED <<start, tick, para, r, rpara, confirm, running, clean, level, e, rolled>>
      BY <1>2 DEF StartTimeReached, HoldingsMove, GateOpens, Move, allVars, vars, replayVars
    <2>2. ReplayType'
      BY <1>0, <2>1 DEF ReplayType
    <2>3. FreshInv'
      BY <1>0, <2>1 DEF FreshInv, _fresh_replay_state, FreshState, NoPara
    <2>4. SameState'
      BY <1>0, <2>1 DEF SameState, Faithful, SameLadders, SameStop
    <2>5. Agrees
      <3>1. tick' = tick /\ tick \in Int
        BY <1>0, <2>1, SessionAssumption DEF ReplayType
      <3>2. tick' # tick + 1
        BY <3>1
      <3> QED BY <3>2 DEF Agrees
    <2> QED BY <2>2, <2>3, <2>4, <2>5
  <1> QED BY <1>1, <1>2

\* Every step is a step of ExitMachine.
LEMMA StepIsEngineStep ==
    ASSUME ReplayType, [ReplayNext]_allVars
    PROVE  [Next]_vars
  <1>1. ASSUME NEW b \in Bar, NEW live \in LiveModes, ActionMinute(b, live)
        PROVE  Next
    <2>1. tick >= start
      BY <1>1, SessionAssumption DEF ActionMinute, ReplayType
    <2>2. LiveReading(b) \in Reading
      BY <1>1, <2>1, BothRead DEF ActionMinute, Tick
    <2> QED BY <1>1, <2>2 DEF ActionMinute, Next, Cycle
  <1>2. ASSUME NEW b \in Bar, PreGateMinute(b) \/ MissedMinute(b)
        PROVE  Next
    BY <1>2 DEF PreGateMinute, MissedMinute, Next, Cycle, Bar
  <1>3. ASSUME NEW b \in Bar, BlackoutMinute(b)
        PROVE  UNCHANGED vars
    BY <1>3 DEF BlackoutMinute
  <1>4. CASE NextDay \/ StartTimeReached \/ HoldingsMove
    BY <1>4 DEF NextDay, StartTimeReached, HoldingsMove, Next
  <1>5. CASE UNCHANGED allVars
    BY <1>5 DEF allVars, vars
  <1> QED BY <1>1, <1>2, <1>3, <1>4, <1>5 DEF ReplayNext, Minute

LEMMA ReplayEveryStep ==
    RInv /\ [ReplayNext]_allVars => RInv' /\ Agrees /\ [Next]_vars
  <1> SUFFICES ASSUME RInv, [ReplayNext]_allVars PROVE RInv' /\ Agrees /\ [Next]_vars
    OBVIOUS
  <1>1. [Next]_vars
    BY StepIsEngineStep DEF RInv
  <1>2. TypeOK' /\ Fits(e, h)'
    BY <1>1, EveryStep DEF RInv, Fits
  <1>3. ReplayType' /\ FreshInv' /\ SameState' /\ Agrees
    <2>1. ASSUME NEW b \in Bar, NEW live \in LiveModes, ActionMinute(b, live)
          PROVE  ReplayType' /\ FreshInv' /\ SameState' /\ Agrees
      BY <2>1, ActionStep
    <2>2. ASSUME NEW b \in Bar, PreGateMinute(b)
          PROVE  ReplayType' /\ FreshInv' /\ SameState' /\ Agrees
      BY <2>2, PreGateSame
    <2>3. ASSUME NEW b \in Bar, MissedMinute(b) \/ BlackoutMinute(b)
          PROVE  ReplayType' /\ FreshInv' /\ SameState' /\ Agrees
      BY <2>3, OtherMinute
    <2>4. CASE NextDay \/ StartTimeReached \/ HoldingsMove \/ UNCHANGED allVars
      BY <2>4, EnvironmentStep
    <2> QED BY <2>1, <2>2, <2>3, <2>4 DEF ReplayNext, Minute
  <1> QED BY <1>1, <1>2, <1>3 DEF RInv

LEMMA ReplayInitFits == ReplayInit => RInv
  <1> SUFFICES ASSUME ReplayInit PROVE RInv
    OBVIOUS
  <1>1. TypeOK /\ Fits(e, h)
    BY InitFits DEF ReplayInit
  <1>2. r \in Entry /\ ~r.triggered
    BY NoMarkInt, TickAssumption DEF ReplayInit, _fresh_replay_state, FreshState, Entry
  <1>3. para \in Para /\ rpara \in Para
    BY NoMarkInt DEF ReplayInit, NoPara, Para
  <1>4. ReplayType
    <2>1. start \in StartTimes /\ tick \in 0..NTicks
      BY SessionAssumption DEF ReplayInit
    <2> QED BY <1>2, <1>3, <2>1 DEF ReplayInit, ReplayType
  <1>5. FreshInv
    BY DEF ReplayInit, FreshInv
  <1>6. SameState
    BY DEF ReplayInit, Init, _fresh_replay_state, FreshState, SameState, SameLadders, SameStop
  <1> QED BY <1>1, <1>4, <1>5, <1>6 DEF RInv

-----------------------------------------------------------------------------
\* The engine's side of the comparison is ExitMachine: with the parabolic
\* squeeze, the time squeeze and the session added, every minute is one of its
\* cycles, so all that is proved of ExitMachine holds of it.
THEOREM ReplayIsExitMachine == ReplaySpec => Spec
  <1>1. ReplayInit => RInv
    BY ReplayInitFits
  <1>2. RInv /\ [ReplayNext]_allVars => RInv' /\ [Next]_vars
    BY ReplayEveryStep
  <1>3. ReplayInit => Init
    BY DEF ReplayInit
  <1> QED BY <1>1, <1>2, <1>3, PTL DEF ReplaySpec, Spec

\* On a day the engine saw whole, until one of the two exits, the replay stands
\* where the engine stands.
THEOREM ReplayStandsWithEngine == ReplaySpec => []SameState
  <1>1. RInv => SameState
    BY DEF RInv
  <1> QED BY <1>1, ReplayInitFits, ReplayEveryStep, PTL DEF ReplaySpec

\* In every minute both evaluate they return the same, unless their distances
\* or exit ticks differ; and then they differ in a trailing stop.
THEOREM ReplayAgreesWithEngine == ReplaySpec => ReplayAgrees
  <1>1. RInv /\ [ReplayNext]_allVars => RInv' /\ [Agrees]_allVars
    BY ReplayEveryStep
  <1> QED BY <1>1, ReplayInitFits, PTL DEF ReplaySpec, ReplayAgrees, Agrees
=============================================================================
