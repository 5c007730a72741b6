------------------------- MODULE SleeveRulesProofs --------------------------
(***************************************************************************)
(* Pacing and its compensation, for every set of rules, every number of    *)
(* actions and every limit.                                                *)
(***************************************************************************)
EXTENDS SleeveRules, TLAPS

LEMMA Blank ==
    /\ Fresh \in Runtime /\ NoTick \in Tick
    /\ Effective(Fresh) = 0 /\ ~Fresh.latch /\ Fresh.falses = 0
    /\ NoTick.pc = "idle" /\ NoTick.rule = 0 /\ ~NoTick.fires /\ ~NoTick.undo
    /\ ~NoTick.row /\ ~NoTick.recorded /\ NoTick.goal = Fresh /\ NoTick.todo = {}
  BY RulesAssumption DEF Fresh, NoTick, Runtime, Tick, Effective

LEMMA LeastBounds == \A m, n \in Nat : Least(m, n + 1) \in 0..m
  BY DEF Least

LEMMA InitInv == Init => IInv
<1> SUFFICES ASSUME Init PROVE IInv
  OBVIOUS
<1> USE Blank, RulesAssumption DEF Init
<1>1. TypeOK
  BY DEF TypeOK, History
<1>2. LatchInv /\ HonestInv /\ StoreInv
  BY DEF LatchInv, HonestInv, StoreInv, Unproven, Fresh, Effective
<1>3. PhaseInv
  BY DEF PhaseInv
<1> QED
  BY <1>1, <1>2, <1>3 DEF IInv

-----------------------------------------------------------------------------
(* Types *)

LEMMA LeavesTyped ==
    ASSUME TypeOK, NEW r
    PROVE  /\ Leaves(r) \in Tick /\ Leaves(r).pc = "rule" /\ Leaves(r).rule = 0
           /\ ~Leaves(r).fires /\ ~Leaves(r).undo /\ ~Leaves(r).row /\ ~Leaves(r).recorded
           /\ Leaves(r).goal = Fresh
  BY Blank DEF TypeOK, Leaves, Tick, NoTick

LEMMA FiredTyped ==
    ASSUME NEW now \in Runtime, ~Refused(now)
    PROVE  /\ Fired(now) \in Runtime /\ Effective(Fired(now)) = Effective(now) + 1
           /\ Effective(now) < MaxFires /\ ~now.latch
  BY RulesAssumption DEF Fired, Refused, Runtime, Effective

LEMMA TypeStep == TypeOK /\ PhaseInv /\ [Next]_vars => TypeOK'
<1> SUFFICES ASSUME TypeOK, PhaseInv, [Next]_vars
             PROVE  TypeOK'
  OBVIOUS
<1> USE DEF TypeOK
<1>1. CASE World
  <2>1. ASSUME NEW r \in Rules, Senses(r)
        PROVE  TypeOK'
    BY <2>1 DEF Senses
  <2>2. CASE Close
    BY <2>2 DEF Close
  <2>3. CASE NewDay
    BY <2>3 DEF NewDay, Runtime, History
  <2> QED
    BY <1>1, <2>1, <2>2, <2>3 DEF World
<1>2. CASE BeginTick
  <2>1. NoTick.todo \in SUBSET Rules /\ tick' \in Tick
    BY <1>2, Blank DEF BeginTick, Tick
  <2>2. \A r \in Rules : [rt[r] EXCEPT !.fired = Least(Cooldown, rt[r].fired + 1)] \in Runtime
    BY RulesAssumption, LeastBounds DEF Runtime
  <2>3. rt' \in [Rules -> Runtime]
    BY <1>2, <2>2 DEF BeginTick
  <2> QED
    BY <1>2, <2>1, <2>3 DEF BeginTick
<1>3. CASE EndTick \/ Skip
  BY <1>3, Blank, LeavesTyped DEF EndTick, Skip
<1>4. ASSUME NEW r \in Rules, EvaluateFalse(r) \/ EvaluateTrue(r)
      PROVE  TypeOK'
  <2>1. h' \in [Rules -> History]
    <3>1. h[r] \in History /\ Least(RearmTicks, h[r].streak + 1) \in 0..RearmTicks
      BY RulesAssumption, LeastBounds DEF History
    <3> DEFINE s == IF cond[r] = "true" THEN 0 ELSE Least(RearmTicks, h[r].streak + 1)
               e == [h[r] EXCEPT !.streak = s, !.epi = IF s = RearmTicks THEN 0 ELSE h[r].epi,
                                 !.lost = h[r].lost /\ s # RearmTicks]
    <3>2. h' = [h EXCEPT ![r] = e]
      BY <1>4 DEF EvaluateFalse, EvaluateTrue, Sets, Counted
    <3>3. s \in 0..RearmTicks
      BY <3>1, RulesAssumption
    <3>4. e \in History
      <4> HIDE DEF s
      <4> QED
        BY <3>1, <3>3 DEF History
    <3> QED
      BY <3>2, <3>4
  <2>2. rt' \in [Rules -> Runtime]
    <3>1. rt[r] \in Runtime /\ Falses(rt[r]) \in 0..RearmTicks
      BY RulesAssumption, LeastBounds DEF Falses, Runtime
    <3>2. ASSUME NEW n \in 0..RearmTicks
          PROVE  [rt[r] EXCEPT !.falses = n] \in Runtime /\ [rt[r] EXCEPT !.latch = FALSE] \in Runtime
      BY <3>1 DEF Runtime
    <3>3. 0 \in 0..RearmTicks
      BY RulesAssumption
    <3> QED
      BY <1>4, <3>1, <3>2, <3>3 DEF EvaluateFalse, EvaluateTrue, Sets
  <2>3. tick' \in Tick
    <3>1. CASE EvaluateFalse(r)
      <4>1. Leaves(r) \in Tick /\ [Leaves(r) EXCEPT !.pc = "falses", !.rule = r] \in Tick
        BY LeavesTyped DEF Tick
      <4> QED
        BY <3>1, <4>1 DEF EvaluateFalse
    <3>2. CASE EvaluateTrue(r)
      BY <3>2, LeavesTyped, FiredTyped DEF EvaluateTrue, Tick
    <3> QED
      BY <1>4, <3>1, <3>2
  <2> QED
    BY <1>4, <2>1, <2>2, <2>3 DEF EvaluateFalse, EvaluateTrue, Sets
<1>5. CASE Storing
  <2>1. tick.rule \in Rules /\ Stored \in Runtime /\ tick.goal \in Runtime
    BY <1>5 DEF Storing, StoreFired, StoreDay, StoreCount, StoreLatch, StoreFalses, Stores, PhaseInv,
                Stored, Tick
  <2>2. rt' \in [Rules -> Runtime]
    BY <1>5, <2>1 DEF Storing, StoreFired, StoreDay, StoreCount, StoreLatch, StoreFalses, Stores,
                      Runtime
  <2>3. tick' \in Tick
    BY <1>5, Blank, LeavesTyped DEF Storing, StoreFired, StoreDay, StoreCount, StoreLatch,
                                    StoreFalses, Stores, Tick
  <2> QED
    BY <1>5, <2>2, <2>3 DEF Storing, StoreFired, StoreDay, StoreCount, StoreLatch, StoreFalses, Stores
<1>6. CASE Dispatch
  <2>1. CASE Baseline \/ Declines \/ Raises
    BY <2>1, Blank DEF Baseline, Declines, Raises, Tick
  <2>2. CASE Reserves \/ Records
    <3>1. h' \in [Rules -> History]
      BY <2>2 DEF Reserves, Records, Produces, History
    <3>2. tick' \in Tick
      <4>1. tick.acted + 1 # Actions => tick.acted + 1 \in 0..(Actions - 1)
        BY RulesAssumption DEF Tick
      <4>2. CASE Reserves
        BY <4>2 DEF Reserves, Tick
      <4>3. CASE Records /\ tick.acted + 1 = Actions
        BY <4>3, LeavesTyped DEF Records
      <4>4. CASE Records /\ tick.acted + 1 # Actions
        BY <4>1, <4>4 DEF Records, Tick
      <4> QED
        BY <2>2, <4>2, <4>3, <4>4
    <3> QED
      BY <2>2, <3>1, <3>2 DEF Reserves, Records
  <2>3. CASE Proves
    BY <2>3, Blank DEF Proves, Restored, Tick
  <2> QED
    BY <1>6, <2>1, <2>2, <2>3 DEF Dispatch
<1>7. CASE Fault
  <2>1. tick.fires => tick.rule \in Rules
    BY DEF PhaseInv, Tick, NoTick
  <2>2. h' \in [Rules -> History]
    <3> DEFINE r == tick.rule
               e == [h[r] EXCEPT !.lost = h[r].lost \/ rt[r].latch, !.spoilt = TRUE]
    <3>1. CASE h' = h
      BY <3>1
    <3>2. CASE h' # h
      <4>1. r \in Rules /\ h' = [h EXCEPT ![r] = e]
        BY <1>7, <2>1, <3>2 DEF Fault
      <4>2. h[r] \in History /\ (h[r].lost \/ rt[r].latch) \in BOOLEAN
        BY <4>1
      <4>3. e \in History
        BY <4>2 DEF History
      <4> QED
        BY <4>1, <4>3
    <3> QED
      BY <3>1, <3>2
  <2> QED
    BY <1>7, <2>2, Blank DEF Fault
<1>8. CASE UNCHANGED vars
  BY <1>8 DEF vars
<1> QED
  BY <1>1, <1>2, <1>3, <1>4, <1>5, <1>6, <1>7, <1>8 DEF Next, Goes, Evaluation

-----------------------------------------------------------------------------
(* The parts of the invariant, action by action *)

LEMMA WorldStep ==
    ASSUME IInv, World
    PROVE  LatchInv' /\ HonestInv' /\ StoreInv' /\ PhaseInv'
<1> USE DEF IInv
<1>1. ASSUME UNCHANGED <<rt, h, tick>>
      PROVE  LatchInv' /\ HonestInv' /\ StoreInv' /\ PhaseInv'
  BY <1>1 DEF LatchInv, HonestInv, StoreInv, PhaseInv, Unproven, Effective, Source, Target
<1>2. CASE NewDay
  <2>1. tick = NoTick /\ tick' = NoTick
    BY <1>2 DEF NewDay, PhaseInv
  <2>2. \A r \in Rules :
          /\ rt'[r].latch = rt[r].latch /\ rt'[r].falses = rt[r].falses /\ ~rt'[r].day
          /\ h'[r].epi = h[r].epi /\ h'[r].streak = h[r].streak /\ h'[r].lost = h[r].lost
          /\ h'[r].today = 0
    BY <1>2 DEF NewDay, TypeOK, Runtime, History
  <2>3. LatchInv'
    BY <2>2 DEF LatchInv, Effective
  <2>4. HonestInv'
    BY <2>1, <2>2, Blank DEF HonestInv, Unproven, Effective
  <2>5. StoreInv' /\ PhaseInv'
    BY <2>1, Blank DEF StoreInv, PhaseInv, Unproven
  <2> QED
    BY <2>3, <2>4, <2>5
<1> QED
  BY <1>1, <1>2 DEF World, Senses, Close

LEMMA BeginStep ==
    ASSUME IInv, BeginTick
    PROVE  LatchInv' /\ HonestInv' /\ StoreInv' /\ PhaseInv'
<1> USE DEF IInv
<1>1. /\ tick = NoTick /\ tick'.pc = "rule" /\ tick'.rule = 0 /\ ~tick'.fires /\ ~tick'.undo
      /\ ~tick'.row /\ ~tick'.recorded
  BY Blank DEF BeginTick, PhaseInv, Tick
<1>2. h' = h /\ \A r \in Rules :
        /\ rt'[r].latch = rt[r].latch /\ rt'[r].falses = rt[r].falses
        /\ rt'[r].day = rt[r].day /\ rt'[r].count = rt[r].count
  BY DEF BeginTick, TypeOK, Runtime
<1>3. LatchInv'
  BY <1>2 DEF LatchInv, Effective
<1>4. HonestInv'
  BY <1>1, <1>2, Blank DEF HonestInv, Unproven, Effective
<1>5. StoreInv' /\ PhaseInv'
  BY <1>1 DEF StoreInv, PhaseInv, Unproven
<1> QED
  BY <1>3, <1>4, <1>5

\* What HonestInv, LatchInv and StoreInv ask of one rule.
Honest(past, now) == /\ past.lost \/ (now.latch <=> past.epi = 1)
                     /\ past.spoilt \/ past.today = Effective(now)
Latched(past, now) == /\ past.epi <= 1 /\ (past.epi = 1 => now.latch)
                      /\ now.latch => now.falses = past.streak
                      /\ past.today <= Effective(now)

Written(past, now, t, source, target) ==
    /\ t.goal = target /\ ~t.snapshot.latch /\ Effective(t.snapshot) < MaxFires
    /\ past.epi = 0 /\ past.streak = 0 /\ now.falses = 0
    /\ past.today <= Effective(t.snapshot)
    /\ past.spoilt \/ past.today = Effective(t.snapshot)
    /\ now.day = IF t.pc \in {"fired", "day"} THEN source.day ELSE target.day
    /\ now.count = IF t.pc \in {"fired", "day", "count"} THEN source.count ELSE target.count
    /\ now.latch = IF t.pc \in {"fired", "day", "count", "latch"} THEN source.latch ELSE target.latch

LEMMA PerUnproven ==
    /\ StoreInv <=> \A o \in Rules : Unproven(o) => Written(h[o], rt[o], tick, Source, Target)
    /\ StoreInv' <=> \A o \in Rules : Unproven(o)' => Written(h'[o], rt'[o], tick', Source', Target')
<1>1. StoreInv <=> \A o \in Rules : Unproven(o) => Written(h[o], rt[o], tick, Source, Target)
  BY Zenon DEF StoreInv, Written
<1>2. StoreInv' <=> \A o \in Rules : Unproven(o)' => Written(h'[o], rt'[o], tick', Source', Target')
  BY Zenon DEF StoreInv, Written
<1> QED
  BY <1>1, <1>2

LEMMA PerRule ==
    /\ HonestInv <=> \A o \in Rules : Unproven(o) \/ Honest(h[o], rt[o])
    /\ HonestInv' <=> \A o \in Rules : Unproven(o)' \/ Honest(h'[o], rt'[o])
    /\ LatchInv <=> \A o \in Rules : Latched(h[o], rt[o])
    /\ LatchInv' <=> \A o \in Rules : Latched(h'[o], rt'[o])
<1>1. /\ HonestInv <=> \A o \in Rules : Unproven(o) \/ Honest(h[o], rt[o])
      /\ HonestInv' <=> \A o \in Rules : Unproven(o)' \/ Honest(h'[o], rt'[o])
  BY Zenon DEF HonestInv, Honest
<1>2. /\ LatchInv <=> \A o \in Rules : Latched(h[o], rt[o])
      /\ LatchInv' <=> \A o \in Rules : Latched(h'[o], rt'[o])
  BY Zenon DEF LatchInv, Latched
<1> QED
  BY <1>1, <1>2

\* A tick that leaves a rule, and one that ends, has nothing unproven.
LEMMA Over ==
    ASSUME IInv, tick' = NoTick \/ \E r : tick' = Leaves(r)
    PROVE  /\ StoreInv' /\ PhaseInv' /\ \A r \in Rules : ~Unproven(r)'
  BY Blank, LeavesTyped DEF IInv, StoreInv, PhaseInv, Unproven

LEMMA PassStep ==
    ASSUME IInv, EndTick \/ Skip
    PROVE  LatchInv' /\ HonestInv' /\ StoreInv' /\ PhaseInv'
<1>1. /\ UNCHANGED <<rt, h>> /\ (tick' = NoTick \/ \E r : tick' = Leaves(r))
      /\ \A r \in Rules : ~Unproven(r)
  BY DEF EndTick, Skip, IInv, PhaseInv, Unproven
<1> QED
  BY <1>1, Over DEF IInv, LatchInv, HonestInv, Effective

LEMMA FalseStep ==
    ASSUME IInv, NEW r \in Rules, EvaluateFalse(r)
    PROVE  LatchInv' /\ HonestInv' /\ StoreInv' /\ PhaseInv'
<1> USE DEF IInv
<1>1. rt[r] \in Runtime /\ h[r] \in History /\ tick \in Tick
  BY DEF TypeOK
<1> DEFINE streak == Least(RearmTicks, h[r].streak + 1)
<1>2. /\ \A o \in Rules \ {r} : rt'[o] = rt[o] /\ h'[o] = h[o]
      /\ h'[r] = [h[r] EXCEPT !.streak = streak, !.epi = IF streak = RearmTicks THEN 0 ELSE h[r].epi,
                              !.lost = h[r].lost /\ streak # RearmTicks]
      /\ rt'[r] = IF Rearms(rt[r]) THEN [rt[r] EXCEPT !.latch = FALSE]
                  ELSE [rt[r] EXCEPT !.falses = Falses(rt[r])]
  <2>1. cond[r] # "true"
    BY DEF EvaluateFalse
  <2>2. CASE Rearms(rt[r])
    BY <2>1, <2>2 DEF EvaluateFalse, Sets, Counted, TypeOK
  <2>3. CASE ~Rearms(rt[r])
    BY <2>1, <2>3 DEF EvaluateFalse, Sets, Counted, TypeOK
  <2> QED
    BY <2>2, <2>3
<1>3. rt[r].latch => Falses(rt[r]) = streak
  BY DEF LatchInv, Falses
<1>4. /\ \A o \in Rules : ~Unproven(o) /\ ~Unproven(o)'
      /\ StoreInv' /\ PhaseInv'
  <2>1. \A o \in Rules : ~Unproven(o)
    BY DEF EvaluateFalse, Takes, PhaseInv, Unproven
  <2>2. CASE Rearms(rt[r])
    <3>1. /\ tick'.pc = "falses" /\ tick'.rule = r /\ ~tick'.fires /\ ~tick'.undo /\ ~tick'.row
          /\ ~tick'.recorded /\ tick'.goal = Fresh
      <4>1. tick' = [Leaves(r) EXCEPT !.pc = "falses", !.rule = r]
        BY <2>2 DEF EvaluateFalse
      <4>2. Leaves(r) \in Tick /\ ~Leaves(r).fires /\ ~Leaves(r).undo /\ ~Leaves(r).row
            /\ ~Leaves(r).recorded /\ Leaves(r).goal = Fresh
        BY LeavesTyped
      <4> QED
        BY <4>1, <4>2 DEF Tick
    <3>2. ~rt'[r].latch
      BY <2>2, <1>1, <1>2 DEF Runtime
    <3> QED
      BY <2>1, <3>1, <3>2 DEF StoreInv, PhaseInv, Unproven
  <2>3. CASE ~Rearms(rt[r])
    BY <2>1, <2>3, Over DEF EvaluateFalse
  <2> QED
    BY <2>2, <2>3
<1>5. /\ h'[r].streak = streak /\ h'[r].epi = (IF streak = RearmTicks THEN 0 ELSE h[r].epi)
      /\ h'[r].lost <=> (h[r].lost /\ streak # RearmTicks)
      /\ h'[r].today = h[r].today /\ h'[r].spoilt = h[r].spoilt
      /\ Effective(rt'[r]) = Effective(rt[r])
      /\ rt'[r].latch <=> (rt[r].latch /\ ~Rearms(rt[r]))
      /\ rt'[r].latch => rt'[r].falses = Falses(rt[r])
  BY <1>1, <1>2 DEF History, Runtime, Effective
<1>6. Latched(h'[r], rt'[r])
  <2>1. Latched(h[r], rt[r])
    BY PerRule
  <2> HIDE DEF streak
  <2>2. h'[r].epi <= 1 /\ h'[r].today <= Effective(rt'[r])
    BY <1>5, <2>1 DEF Latched
  <2>3. h'[r].epi = 1 => rt'[r].latch
    <3> SUFFICES ASSUME h'[r].epi = 1 PROVE rt'[r].latch
      OBVIOUS
    <3>1. streak # RearmTicks /\ h[r].epi = 1
      BY <1>5
    <3>2. rt[r].latch /\ Falses(rt[r]) = streak
      BY <1>3, <2>1, <3>1 DEF Latched
    <3> QED
      BY <1>5, <3>1, <3>2 DEF Rearms
  <2>4. rt'[r].latch => rt'[r].falses = h'[r].streak
    BY <1>3, <1>5 DEF Rearms
  <2> QED
    BY <2>2, <2>3, <2>4 DEF Latched
<1>7. Honest(h'[r], rt'[r])
  <2>1. Honest(h[r], rt[r])
    BY <1>4, PerRule
  <2> HIDE DEF streak
  <2>2. CASE streak = RearmTicks
    BY <1>3, <1>5, <2>1, <2>2 DEF Rearms, Honest
  <2>3. CASE streak # RearmTicks
    BY <1>3, <1>5, <2>1, <2>3 DEF Rearms, Honest
  <2> QED
    BY <2>2, <2>3
<1>8. LatchInv'
  BY <1>2, <1>6, PerRule
<1>9. HonestInv'
  BY <1>2, <1>4, <1>7, PerRule
<1> QED
  BY <1>4, <1>8, <1>9

LEMMA TrueStep ==
    ASSUME IInv, NEW r \in Rules, EvaluateTrue(r)
    PROVE  LatchInv' /\ HonestInv' /\ StoreInv' /\ PhaseInv'
<1> USE DEF IInv
<1>1. rt[r] \in Runtime /\ h[r] \in History /\ tick \in Tick
  BY DEF TypeOK
<1>2. /\ \A o \in Rules \ {r} : rt'[o] = rt[o] /\ h'[o] = h[o]
      /\ rt'[r] = [rt[r] EXCEPT !.falses = 0]
      /\ h'[r].streak = 0 /\ h'[r].epi = h[r].epi /\ h'[r].lost = h[r].lost
      /\ h'[r].today = h[r].today /\ h'[r].spoilt = h[r].spoilt
  BY <1>1, RulesAssumption DEF EvaluateTrue, Sets, Counted, TypeOK, History
<1>3. /\ rt'[r].falses = 0 /\ rt'[r].latch = rt[r].latch /\ Effective(rt'[r]) = Effective(rt[r])
      /\ rt'[r].day = rt[r].day /\ rt'[r].count = rt[r].count
  BY <1>1, <1>2 DEF Runtime, Effective
<1>4. LatchInv'
  BY <1>2, <1>3 DEF LatchInv
<1>5. \A o \in Rules : ~Unproven(o)
  BY DEF EvaluateTrue, Takes, PhaseInv, Unproven
<1>6. HonestInv'
  <2>1. \A o \in Rules : Honest(h[o], rt[o])
    BY <1>5, PerRule
  <2>2. Honest(h'[r], rt'[r])
    BY <2>1, <1>2, <1>3 DEF Honest
  <2> QED
    BY <2>1, <2>2, <1>2, PerRule
<1>7. CASE Refused(rt[r])
  BY <1>4, <1>6, <1>7, Over DEF EvaluateTrue
<1>8. CASE ~Refused(rt[r])
  <2>1. /\ tick'.pc = "fired" /\ tick'.rule = r /\ tick'.fires /\ ~tick'.undo /\ ~tick'.row
        /\ ~tick'.recorded /\ tick'.snapshot = rt[r] /\ tick'.goal = Fired(rt[r])
    BY <1>8, LeavesTyped DEF EvaluateTrue, Tick
  <2>2. PhaseInv'
    BY <2>1 DEF PhaseInv
  <2>3. Effective(rt[r]) < MaxFires /\ ~rt[r].latch
    BY <1>1, <1>8, FiredTyped
  <2>4. /\ h[r].epi = 0 /\ h[r].today <= Effective(rt[r])
        /\ (h[r].spoilt \/ h[r].today = Effective(rt[r]))
    BY <1>1, <1>5, <2>3 DEF LatchInv, HonestInv, History
  <2>5. StoreInv'
    <3>1. Source' = rt[r] /\ Target' = Fired(rt[r])
      BY <2>1 DEF Source, Target
    <3>2. Written(h'[r], rt'[r], tick', Source', Target')
      BY <1>2, <1>3, <2>1, <2>3, <2>4, <3>1 DEF Written
    <3>3. \A o \in Rules \ {r} : ~Unproven(o)'
      BY <2>1 DEF Unproven
    <3> QED
      BY <3>2, <3>3, PerUnproven
  <2> QED
    BY <1>4, <1>6, <2>2, <2>5
<1> QED
  BY <1>7, <1>8

\* One key is stored.
LEMMA StoreStep ==
    ASSUME IInv, Storing
    PROVE  LatchInv' /\ HonestInv' /\ StoreInv' /\ PhaseInv'
<1> USE DEF IInv
<1> DEFINE r == tick.rule
           s == tick.snapshot
<1>1. /\ r \in Rules /\ rt[r] \in Runtime /\ h[r] \in History /\ tick \in Tick
      /\ s \in Runtime /\ tick.goal \in Runtime /\ h' = h
      /\ \A o \in Rules \ {r} : rt'[o] = rt[o]
  BY DEF Storing, StoreFired, StoreDay, StoreCount, StoreLatch, StoreFalses, Stores, PhaseInv, TypeOK,
         Tick
<1>2. Fired(s).falses = 0 /\ Fired(s).day /\ Fired(s).latch
      /\ Fired(s).count = (IF s.day THEN s.count + 1 ELSE 1)
  BY DEF Fired
<1>3. CASE StoreFalses /\ ~tick.fires
  <2>1. rt'[r] = [rt[r] EXCEPT !.falses = 0] /\ ~rt[r].latch /\ tick' = Leaves(r)
    BY <1>1, <1>3, Blank DEF StoreFalses, Stores, Stored, PhaseInv, TypeOK
  <2>2. ~rt'[r].latch /\ Effective(rt'[r]) = Effective(rt[r])
    BY <1>1, <2>1 DEF Runtime, Effective
  <2>3. \A o \in Rules : ~Unproven(o)
    BY <1>3 DEF Unproven
  <2>4. Latched(h[r], rt'[r]) /\ Honest(h[r], rt'[r])
    <3>1. Latched(h[r], rt[r]) /\ Honest(h[r], rt[r])
      BY <1>1, <2>3, PerRule
    <3> QED
      BY <2>1, <2>2, <3>1 DEF Latched, Honest
  <2>5. LatchInv' /\ HonestInv'
    BY <1>1, <2>3, <2>4, PerRule
  <2> QED
    BY <2>1, <2>5, Over
<1>4. CASE StoreFalses /\ tick.fires
  <2>1. /\ tick.undo /\ tick.goal = s /\ ~s.latch /\ h[r].epi = 0 /\ ~rt[r].latch
        /\ Effective(rt[r]) = Effective(s) /\ Unproven(r)
        /\ (h[r].spoilt \/ h[r].today = Effective(s))
    <3>1. tick.pc = "falses" /\ tick.undo /\ Unproven(r)
      BY <1>1, <1>4 DEF StoreFalses, Stores, PhaseInv, Unproven
    <3>2. Source = Fired(s) /\ Target = s
      BY <3>1 DEF Source, Target
    <3> QED
      BY <1>1, <3>1, <3>2 DEF StoreInv, Effective
  <2>2. rt'[r] = [rt[r] EXCEPT !.falses = s.falses] /\ tick' = NoTick
    BY <1>1, <1>4, <2>1 DEF StoreFalses, Stores, Stored, TypeOK
  <2>3. ~rt'[r].latch /\ Effective(rt'[r]) = Effective(rt[r])
    BY <1>1, <2>1, <2>2 DEF Runtime, Effective
  <2>4. \A o \in Rules \ {r} : ~Unproven(o)
    BY DEF Unproven
  <2>5. LatchInv' /\ HonestInv'
    <3>1. Latched(h[r], rt'[r]) /\ Honest(h[r], rt'[r])
      <4>1. Latched(h[r], rt[r])
        BY <1>1, PerRule
      <4> QED
        BY <2>1, <2>3, <4>1 DEF Latched, Honest
    <3> QED
      BY <1>1, <2>4, <3>1, PerRule
  <2> QED
    BY <2>2, <2>5, Over
<1>5. CASE StoreFired \/ StoreDay \/ StoreCount \/ StoreLatch
  <2>1. /\ Unproven(r) /\ \A o \in Rules \ {r} : ~Unproven(o) /\ ~Unproven(o)'
    BY <1>1, <1>5 DEF StoreFired, StoreDay, StoreCount, StoreLatch, Stores, PhaseInv, Unproven, Tick
  <2>2. /\ tick'.rule = r /\ tick'.snapshot = s /\ tick'.goal = tick.goal /\ tick'.undo = tick.undo
        /\ tick'.fires /\ ~tick'.row /\ ~tick'.recorded
    BY <1>1, <1>5, <2>1 DEF StoreFired, StoreDay, StoreCount, StoreLatch, Stores, Unproven, Tick
  <2>3. /\ Source' = Source /\ Target' = Target
        /\ tick'.snapshot = tick.snapshot /\ tick'.goal = tick.goal
        /\ (tick.undo => Source = Fired(s) /\ Target = s)
        /\ (~tick.undo => Source = s /\ Target = Fired(s))
    BY <1>1, <2>2, <2>1 DEF Source, Target, StoreInv
  <2>4. Written(h[r], rt[r], tick, Source, Target) /\ Latched(h[r], rt[r])
    BY <1>1, <2>1, PerRule, PerUnproven
  <2>5. PhaseInv'
    BY <1>1, <1>5, <2>2 DEF StoreFired, StoreDay, StoreCount, StoreLatch, Stores, PhaseInv, Tick
  <2>6. Written(h[r], rt'[r], tick', Source, Target) /\ Latched(h[r], rt'[r])
    <3>1. CASE StoreFired
      <4>1. /\ tick.pc = "fired" /\ tick'.pc = "day"
            /\ rt'[r] = [rt[r] EXCEPT !.fired = tick.goal.fired]
        BY <1>1, <3>1 DEF StoreFired, Stores, Stored, TypeOK, Tick
      <4>2. /\ rt'[r].day = rt[r].day /\ rt'[r].count = rt[r].count /\ rt'[r].latch = rt[r].latch
            /\ rt'[r].falses = rt[r].falses /\ Effective(rt'[r]) = Effective(rt[r])
        BY <1>1, <4>1 DEF Runtime, Effective
      <4> QED
        BY <2>3, <2>4, <4>1, <4>2 DEF Written, Latched
    <3>2. CASE StoreDay
      <4>1. /\ tick.pc = "day" /\ tick'.pc = "count"
            /\ rt'[r] = [rt[r] EXCEPT !.day = tick.goal.day]
        BY <1>1, <3>2 DEF StoreDay, Stores, Stored, TypeOK, Tick
      <4>2. /\ rt'[r].day = Target.day /\ rt'[r].count = rt[r].count
            /\ rt'[r].latch = rt[r].latch /\ rt'[r].falses = rt[r].falses
            /\ rt[r].count = Source.count
        BY <1>1, <2>4, <4>1 DEF Runtime, Written
      <4>3. h[r].today <= Effective(rt'[r])
        BY <1>1, <1>2, <2>3, <2>4, <4>2 DEF Written, Effective, Runtime, History
      <4> QED
        BY <2>3, <2>4, <4>1, <4>2, <4>3 DEF Written, Latched
    <3>3. CASE StoreCount
      <4>1. /\ tick.pc = "count" /\ tick'.pc = "latch"
            /\ rt'[r] = [rt[r] EXCEPT !.count = tick.goal.count]
        BY <1>1, <3>3 DEF StoreCount, Stores, Stored, TypeOK, Tick
      <4>2. /\ rt'[r].count = Target.count /\ rt'[r].day = rt[r].day
            /\ rt'[r].latch = rt[r].latch /\ rt'[r].falses = rt[r].falses
            /\ rt[r].day = Target.day
        BY <1>1, <2>4, <4>1 DEF Runtime, Written
      <4>3. h[r].today <= Effective(rt'[r])
        BY <1>1, <1>2, <2>3, <2>4, <4>2 DEF Written, Effective, Runtime, History
      <4> QED
        BY <2>3, <2>4, <4>1, <4>2, <4>3 DEF Written, Latched
    <3>4. CASE StoreLatch
      <4>1. /\ tick.pc = "latch" /\ tick'.pc \notin {"fired", "day", "count", "latch"}
            /\ rt'[r] = [rt[r] EXCEPT !.latch = tick.goal.latch]
        BY <1>1, <3>4 DEF StoreLatch, Stores, Stored, TypeOK, Tick
      <4>2. /\ rt'[r].latch = Target.latch /\ rt'[r].day = rt[r].day
            /\ rt'[r].count = rt[r].count /\ rt'[r].falses = rt[r].falses
            /\ Effective(rt'[r]) = Effective(rt[r])
        BY <1>1, <2>4, <4>1 DEF Runtime, Effective, Written
      <4> QED
        BY <2>3, <2>4, <4>1, <4>2 DEF Written, Latched
    <3> QED
      BY <1>5, <3>1, <3>2, <3>3, <3>4
  <2>7. LatchInv'
    BY <1>1, <2>6, PerRule
  <2>8. HonestInv' /\ StoreInv'
    <3>1. \A o \in Rules : o = r => Unproven(o)'
      BY <2>2 DEF Unproven
    <3>2. Written(h'[r], rt'[r], tick', Source', Target') /\ h' = h
      BY <1>1, <2>3, <2>6
    <3>3. \A o \in Rules \ {r} : ~Unproven(o)' /\ Honest(h'[o], rt'[o])
      BY <1>1, <2>1, <3>2, PerRule
    <3>4. HonestInv'
      BY <3>1, <3>3, PerRule
    <3>5. StoreInv'
      BY <3>2, <3>3, PerUnproven
    <3> QED
      BY <3>4, <3>5
  <2> QED
    BY <2>5, <2>7, <2>8
<1> QED
  BY <1>3, <1>4, <1>5 DEF Storing

\* What a dispatch leaves behind first makes the latch and the count true.
LEMMA ProduceStep ==
    ASSUME IInv, Reserves \/ Records
    PROVE  LatchInv' /\ HonestInv' /\ StoreInv' /\ PhaseInv'
<1> USE DEF IInv
<1> DEFINE r == tick.rule
           s == tick.snapshot
<1>1. /\ r \in Rules /\ rt[r] \in Runtime /\ h[r] \in History /\ tick \in Tick /\ rt' = rt
      /\ tick.fires /\ ~tick.undo /\ s \in Runtime /\ tick.pc \in {"act", "record"}
      /\ \A o \in Rules \ {r} : ~Unproven(o) /\ h'[o] = h[o]
  BY DEF Reserves, Records, Produces, PhaseInv, TypeOK, Tick, Unproven
<1>2. /\ h'[r].epi = 1 /\ rt[r].latch /\ h'[r].streak = h[r].streak /\ h'[r].lost = h[r].lost
      /\ h'[r].today <= Effective(rt[r])
      /\ (h[r].spoilt \/ h'[r].today = Effective(rt[r])) /\ h'[r].spoilt = h[r].spoilt
  <2>1. CASE tick.row \/ tick.recorded
    <3>1. h' = h /\ ~Unproven(r) /\ h[r].epi = 1
      BY <1>1, <2>1 DEF Reserves, Records, Produces, Unproven, PhaseInv
    <3> QED
      BY <1>1, <3>1 DEF LatchInv, HonestInv
  <2>2. CASE ~tick.row /\ ~tick.recorded
    <3>1. /\ Unproven(r) /\ h'[r].epi = h[r].epi + 1 /\ h'[r].today = h[r].today + 1
          /\ h'[r].streak = h[r].streak /\ h'[r].lost = h[r].lost /\ h'[r].spoilt = h[r].spoilt
      BY <1>1, <2>2 DEF Reserves, Records, Produces, Unproven, TypeOK, History
    <3>2. /\ h[r].epi = 0 /\ rt[r].latch /\ Effective(rt[r]) = Effective(s) + 1
          /\ h[r].today <= Effective(s) /\ (h[r].spoilt \/ h[r].today = Effective(s))
      <4>1. tick.pc \notin {"fired", "day", "count", "latch"}
        BY <1>1
      <4>2. Source = s /\ Target = Fired(s)
        BY <1>1 DEF Source, Target
      <4>3. /\ h[r].epi = 0 /\ h[r].today <= Effective(s) /\ (h[r].spoilt \/ h[r].today = Effective(s))
            /\ rt[r].latch = Fired(s).latch /\ rt[r].day = Fired(s).day /\ rt[r].count = Fired(s).count
        BY <1>1, <3>1, <4>1, <4>2, PerUnproven DEF Written
      <4>4. rt[r].latch /\ rt[r].day /\ rt[r].count = (IF s.day THEN s.count + 1 ELSE 1)
        BY <4>3 DEF Fired
      <4> QED
        BY <1>1, <4>3, <4>4 DEF Effective, Runtime
    <3> QED
      BY <1>1, <3>1, <3>2 DEF Effective, Runtime, History
  <2> QED
    BY <2>1, <2>2
<1>3. LatchInv'
  BY <1>1, <1>2 DEF LatchInv
<1>4. HonestInv'
  BY <1>1, <1>2 DEF HonestInv, Effective
<1>5. CASE Reserves
  <2>1. tick'.pc = "record" /\ tick'.rule = r /\ tick'.fires /\ ~tick'.undo /\ tick'.row
    BY <1>1, <1>5 DEF Reserves, Tick
  <2> QED
    BY <1>1, <1>2, <1>3, <1>4, <2>1 DEF StoreInv, PhaseInv, Unproven
<1>6. CASE Records /\ tick.acted + 1 = Actions
  BY <1>3, <1>4, <1>6, Over DEF Records
<1>7. CASE Records /\ tick.acted + 1 # Actions
  <2>1. tick'.pc = "act" /\ tick'.rule = r /\ tick'.fires /\ ~tick'.undo /\ tick'.recorded
    BY <1>1, <1>7 DEF Records, Tick
  <2> QED
    BY <1>1, <1>2, <1>3, <1>4, <2>1 DEF StoreInv, PhaseInv, Unproven
<1> QED
  BY <1>5, <1>6, <1>7

LEMMA OtherStep ==
    ASSUME IInv, Baseline \/ Declines \/ Raises
    PROVE  LatchInv' /\ HonestInv' /\ StoreInv' /\ PhaseInv'
<1> USE DEF IInv
<1>1. UNCHANGED <<rt, h>> /\ tick.fires /\ tick.rule \in Rules /\ tick \in Tick /\ ~tick.undo
      /\ tick.pc \in {"baseline", "act", "record"}
  BY DEF Baseline, Declines, Raises, PhaseInv, TypeOK
<1>2. CASE tick' = NoTick
  <2>1. Raises /\ tick.recorded
    BY <1>1, <1>2, Blank DEF Baseline, Declines, Raises, Tick
  <2>2. \A r \in Rules : ~Unproven(r)
    BY <2>1 DEF Unproven
  <2> QED
    BY <1>1, <1>2, <2>2, Over DEF LatchInv, HonestInv, Effective
<1>3. CASE tick' # NoTick
  <2>1. /\ tick'.rule = tick.rule /\ tick'.fires /\ ~tick'.undo /\ tick'.row = tick.row
        /\ tick'.recorded = tick.recorded /\ tick'.snapshot = tick.snapshot
        /\ tick'.goal = tick.goal /\ tick'.pc \in {"act", "record", "prove"}
    BY <1>1, <1>3 DEF Baseline, Declines, Raises, Tick
  <2>2. \A r \in Rules : Unproven(r)' <=> Unproven(r)
    BY <1>1, <2>1 DEF Unproven
  <2>3. LatchInv' /\ HonestInv'
    BY <1>1, <2>2 DEF LatchInv, HonestInv, Effective
  <2>4. StoreInv'
    <3>1. Source' = Source /\ Target' = Target
      BY <1>1, <2>1 DEF Source, Target
    <3>2. ASSUME NEW r \in Rules, Unproven(r)'
          PROVE  Written(h'[r], rt'[r], tick', Source', Target')
      <4>1. Written(h[r], rt[r], tick, Source, Target)
        BY <2>2, <3>2, PerUnproven
      <4> QED
        BY <1>1, <2>1, <3>1, <4>1 DEF Written
    <3> QED
      BY <3>2, PerUnproven
  <2>5. tick'.pc = "prove" => ~tick'.recorded
    BY <1>1, <1>3 DEF Baseline, Declines, Raises, Tick
  <2>6. PhaseInv'
    BY <1>1, <2>1, <2>5 DEF PhaseInv
  <2> QED
    BY <2>3, <2>4, <2>6
<1> QED
  BY <1>2, <1>3

LEMMA ProveStep ==
    ASSUME IInv, Proves
    PROVE  LatchInv' /\ HonestInv' /\ StoreInv' /\ PhaseInv'
<1> USE DEF IInv
<1>1. /\ UNCHANGED <<rt, h>> /\ tick.fires /\ tick.rule \in Rules /\ tick \in Tick /\ ~tick.undo
      /\ tick.pc = "prove"
  BY DEF Proves, PhaseInv, TypeOK
<1>2. CASE tick.row
  <2>1. tick' = NoTick /\ \A r \in Rules : ~Unproven(r)
    BY <1>2 DEF Proves, Started, Unproven
  <2> QED
    BY <1>1, <2>1, Over DEF LatchInv, HonestInv, Effective
<1>3. CASE ~tick.row
  <2>1. /\ tick'.rule = tick.rule /\ tick'.fires /\ tick'.undo /\ tick'.row = tick.row
        /\ tick'.recorded = tick.recorded /\ tick'.snapshot = tick.snapshot
        /\ tick'.goal = tick.snapshot /\ tick'.pc = "fired"
    BY <1>1, <1>3 DEF Proves, Started, Restored, Tick
  <2>2. \A r \in Rules : Unproven(r)' <=> Unproven(r)
    BY <1>1, <2>1 DEF Unproven
  <2>3. LatchInv' /\ HonestInv'
    BY <1>1, <2>2 DEF LatchInv, HonestInv, Effective
  <2>4. StoreInv'
    <3>1. Source' = Target /\ Target' = tick.snapshot /\ Target = Fired(tick.snapshot)
      BY <1>1, <2>1 DEF Source, Target
    <3>2. ASSUME NEW r \in Rules, Unproven(r)
          PROVE  Written(h'[r], rt'[r], tick', Source', Target')
      <4>1. Written(h[r], rt[r], tick, Source, Target)
        BY <3>2, PerUnproven
      <4> QED
        BY <1>1, <2>1, <3>1, <4>1 DEF Written
    <3> QED
      BY <2>2, <3>2, PerUnproven
  <2>5. ~tick.recorded
    BY <1>1, <1>3 DEF PhaseInv
  <2>6. PhaseInv'
    BY <1>1, <1>3, <2>1, <2>5 DEF PhaseInv
  <2> QED
    BY <2>3, <2>4, <2>6
<1> QED
  BY <1>2, <1>3

\* A kill: what was unproven is booked as lost or spoilt.
LEMMA FaultStep ==
    ASSUME IInv, Fault
    PROVE  LatchInv' /\ HonestInv' /\ StoreInv' /\ PhaseInv'
<1> USE DEF IInv
<1>1. rt' = rt /\ tick' = NoTick
  BY DEF Fault
<1>2. CASE ~\E r \in Rules : Unproven(r)
  <2>1. h' = h
    BY <1>2 DEF Fault, PhaseInv, Unproven
  <2> QED
    BY <1>1, <1>2, <2>1, Over DEF LatchInv, HonestInv, Effective
<1>3. ASSUME NEW r \in Rules, Unproven(r)
      PROVE  LatchInv' /\ HonestInv' /\ StoreInv' /\ PhaseInv'
  <2>1. /\ \A o \in Rules \ {r} : ~Unproven(o) /\ h'[o] = h[o]
        /\ h'[r].epi = h[r].epi /\ h'[r].streak = h[r].streak /\ h'[r].today = h[r].today
        /\ (h[r].lost \/ rt[r].latch => h'[r].lost) /\ h'[r].spoilt
    BY <1>3 DEF Fault, Unproven, TypeOK, History
  <2>2. h[r].epi = 0 /\ Latched(h[r], rt[r])
    BY <1>3, PerRule DEF StoreInv
  <2>3. LatchInv'
    <3>1. Latched(h'[r], rt'[r])
      BY <1>1, <2>1, <2>2 DEF Latched
    <3> QED
      BY <1>1, <2>1, <3>1, PerRule
  <2>4. HonestInv'
    <3>1. Honest(h'[r], rt'[r])
      BY <1>1, <2>1, <2>2 DEF Honest
    <3> QED
      BY <1>1, <2>1, <3>1, PerRule
  <2> QED
    BY <1>1, <2>3, <2>4, Over
<1> QED
  BY <1>2, <1>3

-----------------------------------------------------------------------------
LEMMA Step == IInv /\ [Next]_vars => IInv'
<1> SUFFICES ASSUME IInv, [Next]_vars
             PROVE  IInv'
  OBVIOUS
<1>1. TypeOK'
  BY TypeStep DEF IInv
<1>2. LatchInv' /\ HonestInv' /\ StoreInv' /\ PhaseInv'
  <2>1. CASE UNCHANGED vars
    BY <2>1 DEF vars, IInv, LatchInv, HonestInv, StoreInv, PhaseInv, Unproven, Effective, Source, Target
  <2> QED
    BY <2>1, WorldStep, BeginStep, PassStep, FalseStep, TrueStep, StoreStep, ProduceStep, OtherStep,
       ProveStep, FaultStep
    DEF Next, Goes, Evaluation, Dispatch
<1> QED
  BY <1>1, <1>2 DEF IInv

\* The inductive invariant holds for every set of rules and every limit.
THEOREM PacingInvariant == Spec => []IInv
  BY InitInv, Step, PTL DEF Spec

\* No rule leaves two dispatches behind in one episode.
THEOREM EpisodesFireOnce == Spec => []OncePerEpisode
<1>1. IInv => OncePerEpisode
  BY DEF IInv, LatchInv, OncePerEpisode
<1> QED
  BY <1>1, PacingInvariant, PTL

\* No rule leaves more dispatches behind in a day than its limit.
THEOREM DaysAreLimited == Spec => []DailyLimit
<1>1. IInv => DailyLimit
  <2> SUFFICES ASSUME IInv, NEW r \in Rules
               PROVE  h[r].today <= MaxFires
    BY DEF DailyLimit
  <2>1. h[r] \in History /\ rt[r] \in Runtime /\ Latched(h[r], rt[r])
    BY PerRule DEF IInv, TypeOK
  <2>2. Effective(rt[r]) \in 0..MaxFires
    BY <2>1, RulesAssumption DEF Effective, Runtime
  <2> QED
    BY <2>1, <2>2, RulesAssumption DEF Latched, History
<1> QED
  BY <1>1, PacingInvariant, PTL

\* Between ticks the stored pacing is what the dispatches of the rule say.
THEOREM RaisesLeaveNoTrace == Spec => []PacingIsHonest
<1>1. IInv => PacingIsHonest
  BY Blank DEF IInv, HonestInv, PhaseInv, PacingIsHonest, Unproven, Effective
<1> QED
  BY <1>1, PacingInvariant, PTL
=============================================================================
