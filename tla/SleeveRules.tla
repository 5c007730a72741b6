---------------------------- MODULE SleeveRules -----------------------------
(***************************************************************************)
(* The rules of one managed sleeve, evaluated once a tick                  *)
(* (sleeves/rules/runner.py) under the pacing of sleeves/rules/limits.py.  *)
(*                                                                         *)
(* Everything pacing knows of a rule is in sleeve_runtime, one key a       *)
(* transaction.  It is consumed before the actions are dispatched and put  *)
(* back when an exception leaves nothing behind; the engine may be killed  *)
(* between any two statements.  What an order then lives through is        *)
(* SleeveOrders, and who may arm a rule is SleeveControl.                  *)
(*                                                                         *)
(* Times are kept relative to the tick: an age for the last fire, "is it   *)
(* today's" for a date.                                                    *)
(***************************************************************************)
EXTENDS Integers

CONSTANTS
    Rules,          \* ids of the rules of the sleeve
    Entry,          \* those that buy; the others only reduce
    Actions,        \* number of actions of a rule
    RearmTicks, Cooldown, MaxFires,     \* the limits of each rule
    MaxFaults       \* bound: kills, failed statements, raising exits

ASSUME RulesAssumption ==
    /\ Rules \subseteq Nat \ {0} /\ Entry \subseteq Rules
    /\ Actions \in Nat \ {0} /\ RearmTicks \in Nat \ {0} /\ MaxFires \in Nat \ {0}
    /\ Cooldown \in Nat /\ MaxFaults \in Nat

VARIABLES
    cond,       \* what a rule's condition evaluates to
    market,     \* the market is open
    rt,         \* sleeve_runtime, by rule
    tick,       \* the evaluation under way
    h,          \* history, by rule: see History
    faults
vars == <<cond, market, rt, tick, h, faults>>

\* last_fire_ts, fires_today_date, fires_today_count, episode_latched and
\* consecutive_false_count.
Runtime == [fired : 0..Cooldown, day : BOOLEAN, count : 0..MaxFires, latch : BOOLEAN,
            falses : 0..RearmTicks]
Tick == [pc : {"idle", "rule", "fired", "day", "count", "latch", "falses", "baseline", "act",
               "record", "prove"},
         todo : SUBSET Rules, rule : Rules \cup {0}, snapshot : Runtime, goal : Runtime,
         fires : BOOLEAN, undo : BOOLEAN, row : BOOLEAN, recorded : BOOLEAN, acted : 0..(Actions - 1)]
\* Dispatches that left something behind, in this episode and today; false
\* evaluations in a row; whether a kill has cost the rule its episode or
\* spoilt the day's count.
History == [epi : Nat, today : Nat, streak : 0..RearmTicks, lost : BOOLEAN, spoilt : BOOLEAN]

Fresh == [fired |-> Cooldown, day |-> FALSE, count |-> 0, latch |-> FALSE, falses |-> 0]
NoTick == [pc |-> "idle", todo |-> {}, rule |-> 0, snapshot |-> Fresh, goal |-> Fresh,
           fires |-> FALSE, undo |-> FALSE, row |-> FALSE, recorded |-> FALSE, acted |-> 0]

Init ==
    /\ cond = [r \in Rules |-> "false"] /\ market = TRUE
    /\ rt = [r \in Rules |-> Fresh]
    /\ tick = NoTick /\ faults = 0
    /\ h = [r \in Rules |-> [epi |-> 0, today |-> 0, streak |-> 0, lost |-> FALSE, spoilt |-> FALSE]]

Least(a, b) == IF a < b THEN a ELSE b

-----------------------------------------------------------------------------
(* The world *)

Senses(r) ==
    /\ tick.pc = "idle" /\ \E c \in {"true", "false", "missing"} \ {cond[r]} : cond' = [cond EXCEPT ![r] = c]
    /\ UNCHANGED <<market, rt, tick, h, faults>>

Close ==
    /\ tick.pc = "idle" /\ market /\ market' = FALSE
    /\ UNCHANGED <<cond, rt, tick, h, faults>>

\* Another trading day: the date that is stored is no longer today's.
NewDay ==
    /\ tick.pc = "idle" /\ ~market /\ market' = TRUE
    /\ rt' = [r \in Rules |-> [rt[r] EXCEPT !.day = FALSE]]
    /\ h' = [r \in Rules |-> [h[r] EXCEPT !.today = 0, !.spoilt = FALSE]]
    /\ UNCHANGED <<cond, tick, faults>>

-----------------------------------------------------------------------------
(* evaluate_rules *)

\* Mutant: in the order of their ids.
First_ById(todo) == CHOOSE r \in todo : \A o \in todo : r <= o
\* Exits before entries, then by id.
First(todo) ==
    LET exits == todo \ Entry
        group == IF exits # {} THEN exits ELSE todo
    IN CHOOSE r \in group : \A o \in group : r <= o

BeginTick ==
    /\ tick.pc = "idle"
    /\ tick' = [NoTick EXCEPT !.pc = "rule", !.todo = Rules]
    /\ rt' = [r \in Rules |-> [rt[r] EXCEPT !.fired = Least(Cooldown, @ + 1)]]
    /\ UNCHANGED <<cond, market, h, faults>>

EndTick ==
    /\ tick.pc = "rule" /\ tick.todo = {} /\ tick' = NoTick
    /\ UNCHANGED <<cond, market, rt, h, faults>>

\* The next rule, or what is left of them.
Leaves(r) == [NoTick EXCEPT !.pc = "rule", !.todo = tick.todo \ {r}]

\* A sense is missing or the market is closed: nothing is read or written.
Skip ==
    /\ tick.pc = "rule" /\ tick.todo # {}
    /\ LET r == First(tick.todo) IN
        /\ cond[r] = "missing" \/ ~market
        /\ tick' = Leaves(r)
    /\ UNCHANGED <<cond, market, rt, h, faults>>

\* Mutant: the limit is compared before this fire is added to it.
Refused_OneMore(now) == now.latch \/ now.fired < Cooldown \/ (now.day /\ now.count > MaxFires)
Refused(now) == now.latch \/ now.fired < Cooldown \/ (now.day /\ now.count >= MaxFires)

\* check_and_advance_pacing: what the keys are to become.
Falses(now) == Least(RearmTicks, now.falses + 1)
Rearms(now) == now.latch /\ Falses(now) = RearmTicks
Fired(now) == [fired |-> 0, day |-> TRUE, count |-> IF now.day THEN now.count + 1 ELSE 1,
               latch |-> TRUE, falses |-> 0]

\* After RearmTicks false evaluations in a row an episode is over.
Counted(r) ==
    LET streak == IF cond[r] = "true" THEN 0 ELSE Least(RearmTicks, h[r].streak + 1) IN
    [h EXCEPT ![r] = [h[r] EXCEPT !.streak = streak,
                                  !.epi = IF streak = RearmTicks THEN 0 ELSE h[r].epi,
                                  !.lost = h[r].lost /\ streak # RearmTicks]]

Takes(r) == tick.pc = "rule" /\ tick.todo # {} /\ r = First(tick.todo) /\ market
Sets(r, now) == rt' = [rt EXCEPT ![r] = now] /\ h' = Counted(r) /\ UNCHANGED <<cond, market, faults>>

\* A false evaluation writes its count, or else ends the episode and then resets it.
EvaluateFalse(r) ==
    /\ Takes(r) /\ cond[r] = "false"
    /\ IF Rearms(rt[r])
       THEN /\ Sets(r, [rt[r] EXCEPT !.latch = FALSE])
            /\ tick' = [Leaves(r) EXCEPT !.pc = "falses", !.rule = r]
       ELSE /\ Sets(r, [rt[r] EXCEPT !.falses = Falses(rt[r])]) /\ tick' = Leaves(r)

\* A true one resets the count first, whatever else holds it back.
EvaluateTrue(r) ==
    /\ Takes(r) /\ cond[r] = "true" /\ Sets(r, [rt[r] EXCEPT !.falses = 0])
    /\ tick' = IF Refused(rt[r]) THEN Leaves(r)
               ELSE [Leaves(r) EXCEPT !.pc = "fired", !.rule = r, !.fires = TRUE,
                                      !.snapshot = rt[r], !.goal = Fired(rt[r])]

Stores(pc, now, next) ==
    /\ tick.pc = pc /\ rt' = [rt EXCEPT ![tick.rule] = now] /\ tick' = next
    /\ UNCHANGED <<cond, market, h, faults>>
Stored == rt[tick.rule]

\* The keys of a fire, and of the compensation, in the order they are stored.
StoreFired == Stores("fired", [Stored EXCEPT !.fired = tick.goal.fired], [tick EXCEPT !.pc = "day"])
StoreDay == Stores("day", [Stored EXCEPT !.day = tick.goal.day], [tick EXCEPT !.pc = "count"])
StoreCount == Stores("count", [Stored EXCEPT !.count = tick.goal.count], [tick EXCEPT !.pc = "latch"])
StoreLatch == Stores("latch", [Stored EXCEPT !.latch = tick.goal.latch],
                     [tick EXCEPT !.pc = IF tick.undo THEN "falses" ELSE "baseline"])
\* The exception goes on when the compensation is done.
StoreFalses == Stores("falses", [Stored EXCEPT !.falses = tick.goal.falses],
                      IF tick.undo THEN NoTick ELSE Leaves(tick.rule))

-----------------------------------------------------------------------------
(* The dispatch of the actions of tick.rule *)

\* The orders the rule has are read: what comes on top proves an order path.
Baseline ==
    /\ tick.pc = "baseline" /\ tick' = [tick EXCEPT !.pc = "act"]
    /\ UNCHANGED <<cond, market, rt, h, faults>>

\* What is left behind first is a dispatch in the books of the history.
Produces ==
    h' = IF tick.row \/ tick.recorded THEN h
         ELSE [h EXCEPT ![tick.rule].epi = @ + 1, ![tick.rule].today = @ + 1]

\* Nothing is placed: in SHADOW, refused by the envelope, or only a note.
Declines ==
    /\ tick.pc = "act" /\ tick' = [tick EXCEPT !.pc = "record"]
    /\ UNCHANGED <<cond, market, rt, h, faults>>

\* The row that precedes a submit; the broker's answer changes nothing here.
Reserves ==
    /\ tick.pc = "act" /\ tick' = [tick EXCEPT !.pc = "record", !.row = TRUE] /\ Produces
    /\ UNCHANGED <<cond, market, rt, faults>>

\* The fire is recorded.
Records ==
    /\ tick.pc = "record" /\ Produces
    /\ tick' = IF tick.acted + 1 = Actions THEN Leaves(tick.rule)
               ELSE [tick EXCEPT !.pc = "act", !.recorded = TRUE, !.acted = @ + 1]
    /\ UNCHANGED <<cond, market, rt, faults>>

\* An exception in between; with a fire on record the episode is kept.  That an
\* entry raises is free, that an exit does counts as a fault.
Raises ==
    /\ tick.pc \in {"act", "record"}
    /\ IF tick.rule \in Entry THEN faults' = faults ELSE faults < MaxFaults /\ faults' = faults + 1
    /\ tick' = IF tick.recorded THEN NoTick ELSE [tick EXCEPT !.pc = "prove"]
    /\ UNCHANGED <<cond, market, rt, h>>

\* Mutant: only the orders that were handed back count as evidence.
Started_Returned == FALSE
\* An order row on top of the baseline: it is there before any submit.
Started == tick.row

\* Mutant: only the latch is put back.
Restored_LatchOnly == [Stored EXCEPT !.latch = FALSE]
\* restore_pacing_state: every key as it was.
Restored == tick.snapshot

Proves ==
    /\ tick.pc = "prove"
    /\ tick' = IF Started THEN NoTick
               ELSE [tick EXCEPT !.pc = "fired", !.undo = TRUE, !.goal = Restored]
    /\ UNCHANGED <<cond, market, rt, h, faults>>

\* The engine is killed, or a statement outside the dispatch fails: a write, a
\* baseline that cannot be read, a proof that cannot be had.
Fault ==
    /\ tick.pc # "idle" /\ faults < MaxFaults /\ faults' = faults + 1 /\ tick' = NoTick
    /\ h' = IF tick.fires /\ ~tick.row /\ ~tick.recorded
            THEN [h EXCEPT ![tick.rule].lost = @ \/ rt[tick.rule].latch, ![tick.rule].spoilt = TRUE]
            ELSE h
    /\ UNCHANGED <<cond, market, rt>>

-----------------------------------------------------------------------------
Evaluation == EndTick \/ Skip \/ \E r \in Rules : EvaluateFalse(r) \/ EvaluateTrue(r)
Storing == StoreFired \/ StoreDay \/ StoreCount \/ StoreLatch \/ StoreFalses
Dispatch == Baseline \/ Declines \/ Reserves \/ Records \/ Raises \/ Proves
World == (\E r \in Rules : Senses(r)) \/ Close \/ NewDay
Goes == Evaluation \/ Storing \/ Dispatch
Next == World \/ BeginTick \/ Goes \/ Fault

\* A tick that has begun goes on, every session has ticks, and sessions and
\* nights end (run_scheduler, main).
Fairness ==
    /\ WF_vars(Goes)
    /\ SF_vars(BeginTick /\ market) /\ SF_vars(Close) /\ SF_vars(NewDay)
Spec == Init /\ [][Next]_vars /\ Fairness

-----------------------------------------------------------------------------
TypeOK ==
    /\ cond \in [Rules -> {"true", "false", "missing"}] /\ market \in BOOLEAN
    /\ rt \in [Rules -> Runtime] /\ tick \in Tick /\ h \in [Rules -> History] /\ faults \in Nat

\* However dispatches raise and the engine dies, a rule leaves at most one
\* dispatch behind - an order or a record - between two rearmings
\* (check_and_advance_pacing, the compensation in _evaluate_one_rule).
OncePerEpisode == \A r \in Rules : h[r].epi <= 1

\* And no more of them a day than max_fires_per_day, whatever was put back or
\* half written.
DailyLimit == \A r \in Rules : h[r].today <= MaxFires

\* Between ticks pacing says what happened: a rule is latched exactly when its
\* episode has a dispatch to show, and the day's count is the day's dispatches.
\* A dispatch that raised with nothing to show has left no trace; only a kill
\* or a failed statement in the middle does, for its episode and its day.
PacingIsHonest ==
    tick.pc = "idle" => \A r \in Rules :
        /\ h[r].lost \/ (rt[r].latch <=> h[r].epi = 1)
        /\ h[r].spoilt \/ h[r].today = IF rt[r].day THEN rt[r].count ELSE 0

\* An exit whose condition stands is dispatched in the end, although an entry
\* of the same sleeve raises on every tick, unless a kill has cost it the
\* episode (evaluate_rules, exits first).
ExitsFire ==
    \A r \in Rules \ Entry :
        <>[](cond[r] = "true") => <>[](h[r].epi = 1 \/ h[r].lost)

-----------------------------------------------------------------------------
(* The inductive invariant, see SleeveRulesProofs. *)

Effective(now) == IF now.day THEN now.count ELSE 0
\* A rule whose dispatch is paid for and has nothing to show yet.
Unproven(r) == tick.rule = r /\ tick.fires /\ ~tick.row /\ ~tick.recorded

\* A latch that is still to be taken off counts as many false evaluations as
\* there were, and no day has more dispatches than its count says.
LatchInv ==
    \A r \in Rules :
        /\ h[r].epi <= 1 /\ (h[r].epi = 1 => rt[r].latch)
        /\ rt[r].latch => rt[r].falses = h[r].streak
        /\ h[r].today <= Effective(rt[r])
HonestInv ==
    \A r \in Rules : ~Unproven(r) =>
        /\ h[r].lost \/ (rt[r].latch <=> h[r].epi = 1)
        /\ h[r].spoilt \/ h[r].today = Effective(rt[r])
\* The keys that have been stored are those of the goal, the others still those
\* it set out from.
Source == IF tick.undo THEN Fired(tick.snapshot) ELSE tick.snapshot
Target == IF tick.undo THEN tick.snapshot ELSE Fired(tick.snapshot)
StoreInv ==
    \A r \in Rules : Unproven(r) =>
        /\ tick.goal = Target /\ ~tick.snapshot.latch /\ Effective(tick.snapshot) < MaxFires
        /\ h[r].epi = 0 /\ h[r].streak = 0 /\ rt[r].falses = 0
        /\ h[r].today <= Effective(tick.snapshot)
        /\ h[r].spoilt \/ h[r].today = Effective(tick.snapshot)
        /\ rt[r].day = IF tick.pc \in {"fired", "day"} THEN Source.day ELSE Target.day
        /\ rt[r].count = IF tick.pc \in {"fired", "day", "count"} THEN Source.count ELSE Target.count
        /\ rt[r].latch = IF tick.pc \in {"fired", "day", "count", "latch"} THEN Source.latch
                         ELSE Target.latch
PhaseInv ==
    /\ tick.pc = "idle" => tick = NoTick
    /\ tick.pc = "rule" => tick.rule = 0 /\ ~tick.fires
    /\ tick.pc \notin {"idle", "rule"} => tick.rule \in Rules
    /\ tick.pc \notin {"idle", "rule", "falses"} => tick.fires
    /\ tick.pc = "falses" => (tick.fires <=> tick.undo)
    /\ tick.pc = "falses" /\ ~tick.fires => ~rt[tick.rule].latch /\ tick.goal = Fresh
    /\ tick.undo => ~tick.row /\ ~tick.recorded /\ tick.pc \in {"fired", "day", "count", "latch", "falses"}
    /\ tick.pc = "prove" => ~tick.recorded
    /\ tick.row \/ tick.recorded => tick.pc \in {"act", "record", "prove"} /\ h[tick.rule].epi = 1
IInv == TypeOK /\ LatchInv /\ HonestInv /\ StoreInv /\ PhaseInv
=============================================================================
