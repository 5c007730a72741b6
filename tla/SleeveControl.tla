--------------------------- MODULE SleeveControl ----------------------------
(***************************************************************************)
(* The control routes of a managed sleeve (app.py) racing each other and   *)
(* the engine's tick over that sleeve (sleeves/tick_orchestrator.py).      *)
(*                                                                         *)
(* A request is a thread of the dashboard, the tick another process; each  *)
(* database statement is a transaction of its own, so what one of them has *)
(* read may be stale when it writes.  Sensing, pacing and sizing are left  *)
(* to SleeveRules and the life of an order to SleeveOrders: here a rule    *)
(* that is evaluated may fire or not, and an open order may settle at any  *)
(* poll.                                                                   *)
(***************************************************************************)
EXTENDS Integers, FiniteSets

CONSTANTS
    Rules,          \* rules that may be created
    Requests,       \* requests that the dashboard serves at a time
    MaxCap          \* bound: the largest limit of an envelope short of none

ASSUME CapAssumption == MaxCap \in Nat \ {0}

Unlimited == MaxCap + 1
Caps == 1..Unlimited

VARIABLES
    sleeve,     \* the row of sleeves
    rules,      \* the rows of sleeve_rules
    mode,       \* sleeve_rules.mode
    tried,      \* rules with a fire recorded in SHADOW mode
    open,       \* rules with an order that is not terminal
    held,       \* the fills leave a position
    tick,       \* the engine's tick over this sleeve
    req,        \* the request that each thread serves
    h           \* history: see History
vars == <<sleeve, rules, mode, tried, open, held, tick, req, h>>

Armed == {"PAPER", "LIVE"}
Status == {"none", "SHADOW", "PAUSED"} \cup Armed
Sleeve == [status : Status, cap : Caps]
Tick == [pc : {"idle", "poll", "reconcile", "fire"}, status : Status,
         armed : SUBSET Rules, todo : SUBSET Rules, warrant : SUBSET Rules]
Request == [pc : {"idle", "mode", "status", "live", "disarm", "revert", "delete", "cap"},
            rule : Rules \cup {"none"}, shadow : BOOLEAN, todo : SUBSET Rules, cap : Caps,
            revokes : SUBSET Rules, races : SUBSET Rules, late : BOOLEAN]
\* The rules with an arm that began after the last disarm to end had begun, those
\* with an arm that was under way when that disarm began, the widest envelope
\* the operator ever gave or confirmed, whether a sleeve was deleted, and
\* whether an order was placed that its delete could not see.
History == [warrant : SUBSET Rules, raced : SUBSET Rules, ceiling : Caps,
            deleted : BOOLEAN, late : BOOLEAN]

NoTick == [pc |-> "idle", status |-> "none", armed |-> {}, todo |-> {}, warrant |-> {}]
NoRequest == [pc |-> "idle", rule |-> "none", shadow |-> FALSE, todo |-> {}, cap |-> 1,
              revokes |-> {}, races |-> {}, late |-> FALSE]

Init ==
    /\ sleeve = [status |-> "none", cap |-> 1]
    /\ rules = {} /\ mode = [r \in Rules |-> "SHADOW"] /\ tried = {}
    /\ open = {} /\ held = FALSE
    /\ tick = NoTick /\ req = [q \in Requests |-> NoRequest]
    /\ h = [warrant |-> {}, raced |-> {}, ceiling |-> 1, deleted |-> FALSE, late |-> FALSE]

Exists == sleeve.status # "none"
\* An UPDATE of a row that is gone changes nothing.
SetStatus(s) == sleeve' = IF Exists THEN [sleeve EXCEPT !.status = s] ELSE sleeve

-----------------------------------------------------------------------------
(* The routes *)

CreateSleeve(cap) ==
    /\ ~Exists /\ ~h.deleted
    /\ sleeve' = [status |-> "SHADOW", cap |-> cap]
    /\ h' = [h EXCEPT !.ceiling = cap]
    /\ UNCHANGED <<rules, mode, tried, open, held, tick, req>>

CreateRule(r) ==
    /\ Exists /\ r \notin rules /\ rules' = rules \cup {r}
    /\ mode' = [mode EXCEPT ![r] = "SHADOW"]
    /\ UNCHANGED <<sleeve, tried, open, held, tick, req, h>>

Begins(q, r) == /\ req[q].pc = "idle" /\ req' = [req EXCEPT ![q] = r]
Ends(q) == req' = [req EXCEPT ![q] = NoRequest]

\* From here on the arming of r is asked for: a disarm that began earlier does
\* not answer for it, a tick under way may act on it.
Warrants(r) ==
    /\ h' = [h EXCEPT !.warrant = @ \cup {r}, !.raced = @ \ {r}]
    /\ tick' = [tick EXCEPT !.warrant = @ \cup {r}]

\* arm_sleeve_rule: the sleeve's status is read once, a paused sleeve refused;
\* what is kept of it is whether the sleeve is to be promoted.
ArmRead(q, r) ==
    /\ r \in rules /\ sleeve.status # "PAUSED" /\ req[q].pc = "idle"
    /\ req' = [p \in Requests |-> IF p = q
                 THEN [NoRequest EXCEPT !.pc = "mode", !.rule = r,
                                         !.shadow = sleeve.status = "SHADOW"]
                 ELSE [req[p] EXCEPT !.revokes = @ \ {r}, !.races = @ \ {r}]]
    /\ Warrants(r)
    /\ UNCHANGED <<sleeve, rules, mode, tried, open, held>>

ArmMode(q) ==
    /\ req[q].pc = "mode"
    /\ IF req[q].rule \in tried
       THEN /\ mode' = [mode EXCEPT ![req[q].rule] = "PAPER"]
            /\ req' = [req EXCEPT ![q].pc = "status"]
       ELSE Ends(q) /\ UNCHANGED mode
    /\ UNCHANGED <<sleeve, rules, tried, open, held, tick, h>>

\* The promotion goes by the status that was read.
ArmStatus(q) ==
    /\ req[q].pc = "status" /\ Ends(q)
    /\ IF req[q].shadow THEN SetStatus("PAPER") ELSE UNCHANGED sleeve
    /\ UNCHANGED <<rules, mode, tried, open, held, tick, h>>

\* arm_sleeve_live: the phrase, the notice and the keys come between.
LiveRead(q) ==
    /\ Exists /\ Begins(q, [NoRequest EXCEPT !.pc = "live"])
    /\ UNCHANGED <<sleeve, rules, mode, tried, open, held, tick, h>>

LiveWrite(q) ==
    /\ req[q].pc = "live" /\ Ends(q)
    /\ SetStatus("LIVE") \/ UNCHANGED sleeve
    /\ UNCHANGED <<rules, mode, tried, open, held, tick, h>>

\* Rules with an arm that no disarm has undone: it began later, or raced it.
Standing == h.warrant \cup h.raced
ArmsUnderWay == {req[p].rule : p \in Requests} \cap Rules

\* disarm_sleeve: the sleeve first, then each rule.  It answers for every arm
\* that has begun; those still under way may yet write after it.
DisarmRead(q) ==
    /\ Exists
    /\ Begins(q, [NoRequest EXCEPT !.pc = "disarm", !.races = ArmsUnderWay,
                      !.revokes = Standing \ ArmsUnderWay])
    /\ UNCHANGED <<sleeve, rules, mode, tried, open, held, tick, h>>

\* Mutant: the rules keep their mode, the sleeve's status being enough.
DisarmStatus_Only(q) ==
    /\ req[q].pc = "disarm" /\ SetStatus("SHADOW")
    /\ req' = [req EXCEPT ![q].pc = "revert", ![q].todo = {}]
    /\ UNCHANGED <<rules, mode, tried, open, held, tick, h>>

DisarmStatus(q) ==
    /\ req[q].pc = "disarm" /\ SetStatus("SHADOW")
    /\ req' = [req EXCEPT ![q].pc = "revert", ![q].todo = rules]
    /\ UNCHANGED <<rules, mode, tried, open, held, tick, h>>

DisarmRule(q, r) ==
    /\ req[q].pc = "revert" /\ r \in req[q].todo
    /\ req' = [req EXCEPT ![q].todo = @ \ {r}]
    /\ mode' = [mode EXCEPT ![r] = "SHADOW"]
    /\ UNCHANGED <<sleeve, rules, tried, open, held, tick, h>>

DisarmEnd(q) ==
    /\ req[q].pc = "revert" /\ req[q].todo = {} /\ Ends(q)
    /\ h' = [h EXCEPT !.warrant = @ \ (req[q].revokes \cup req[q].races),
                      !.raced = (@ \ req[q].revokes) \cup (h.warrant \cap req[q].races)]
    /\ UNCHANGED <<sleeve, rules, mode, tried, open, held, tick>>

\* Mutant: a sleeve without a position is taken for flat.
Flat_NoPosition == ~held
Flat == ~held /\ open = {}

\* delete_sleeve_route: the history is read and folded, then the row deleted.
DeleteRead(q) ==
    /\ Exists /\ Flat
    /\ Begins(q, [NoRequest EXCEPT !.pc = "delete"])
    /\ UNCHANGED <<sleeve, rules, mode, tried, open, held, tick, h>>

DeleteRow(q) ==
    /\ req[q].pc = "delete" /\ Ends(q)
    /\ sleeve' = [sleeve EXCEPT !.status = "none"]
    /\ h' = [h EXCEPT !.deleted = TRUE, !.late = @ \/ req[q].late \/ tick.pc # "idle"]
    /\ UNCHANGED <<rules, mode, tried, open, held, tick>>

\* Mutant: removing a limit is not seen as widening it.
Widened_NoneIsNarrow(old, new) == new # Unlimited /\ new > old
\* is_envelope_widened: no limit is wider than every limit.
Widened(old, new) == new > old

\* update_sleeve_envelope_route: judged against the envelope that was read.
CapRead(q, cap, confirmed) ==
    /\ Exists
    /\ Widened(sleeve.cap, cap) => confirmed
    /\ Begins(q, [NoRequest EXCEPT !.pc = "cap", !.cap = cap])
    /\ h' = IF confirmed /\ cap > h.ceiling THEN [h EXCEPT !.ceiling = cap] ELSE h
    /\ UNCHANGED <<sleeve, rules, mode, tried, open, held, tick>>

CapWrite(q) ==
    /\ req[q].pc = "cap" /\ Ends(q)
    /\ sleeve' = IF Exists THEN [sleeve EXCEPT !.cap = req[q].cap] ELSE sleeve
    /\ UNCHANGED <<rules, mode, tried, open, held, tick, h>>

\* The dashboard process dies with every request in it.
AppCrash ==
    /\ req' = [q \in Requests |-> NoRequest] /\ req' # req
    /\ UNCHANGED <<sleeve, rules, mode, tried, open, held, tick, h>>

-----------------------------------------------------------------------------
(* run_sleeve_tick_for_all_sleeves, as far as it concerns one sleeve *)

\* The rows of all sleeves are read once; a paused sleeve is passed over.
TickRead ==
    /\ tick.pc = "idle" /\ Exists /\ sleeve.status # "PAUSED"
    /\ tick' = [NoTick EXCEPT !.pc = "poll", !.status = sleeve.status,
                            !.warrant = Standing]
    /\ UNCHANGED <<sleeve, rules, mode, tried, open, held, req, h>>

\* Fills are polled; what is open in a SHADOW sleeve is then cancelled, as far
\* as the broker can be reached.
TickPoll ==
    /\ tick.pc = "poll"
    /\ \E settled \in SUBSET open :
        /\ held' \in (IF settled = {} THEN {held} ELSE BOOLEAN)
        /\ \E cancelled \in SUBSET (open \ settled) :
            /\ tick.status # "SHADOW" => cancelled = {}
            /\ open' = (open \ settled) \ cancelled
    /\ tick' = [tick EXCEPT !.pc = "reconcile"]
    /\ UNCHANGED <<sleeve, rules, mode, tried, req, h>>

\* A breach: the pause is written whatever the status has become.
Breach ==
    /\ tick.pc = "reconcile" /\ tick' = NoTick /\ SetStatus("PAUSED")
    /\ UNCHANGED <<rules, mode, tried, open, held, req, h>>

\* Reconciled: the sleeve's rules are read.
LoadRules ==
    /\ tick.pc = "reconcile"
    /\ tick' = [tick EXCEPT !.pc = "fire", !.todo = rules,
                            !.armed = {r \in rules : mode[r] = "PAPER"}]
    /\ UNCHANGED <<sleeve, rules, mode, tried, open, held, req, h>>

Takes(r) == tick.pc = "fire" /\ r \in tick.todo /\ tick' = [tick EXCEPT !.todo = @ \ {r}]

\* Mutant: the sleeve's status alone arms a dispatch.
Arms_SleeveKey(r) == tick.status \in Armed
\* Both keys, as this tick read them.
Arms(r) == r \in tick.armed /\ tick.status \in Armed

FireArmed(r) ==
    /\ Takes(r) /\ Arms(r) /\ open' = open \cup {r}
    /\ req' = [q \in Requests |-> [req[q] EXCEPT !.late = req[q].pc = "delete"]]
    /\ UNCHANGED <<sleeve, rules, mode, tried, held, h>>

\* The fire is recorded under the rule's own mode.
FireShadow(r) ==
    /\ Takes(r) /\ ~Arms(r) /\ tried' = IF r \in tick.armed THEN tried ELSE tried \cup {r}
    /\ UNCHANGED <<sleeve, rules, mode, open, held, req, h>>

\* The condition is false, pacing refuses, or the envelope leaves nothing.
NoFire(r) ==
    /\ Takes(r)
    /\ UNCHANGED <<sleeve, rules, mode, tried, open, held, req, h>>

\* It ends: done, an exception somewhere in it, or killed.
TickEnd ==
    /\ tick.pc # "idle" /\ tick' = NoTick
    /\ UNCHANGED <<sleeve, rules, mode, tried, open, held, req, h>>

-----------------------------------------------------------------------------
Arming(q) == (\E r \in Rules : ArmRead(q, r)) \/ ArmMode(q) \/ ArmStatus(q)
Disarming(q) ==
    DisarmRead(q) \/ DisarmStatus(q) \/ (\E r \in Rules : DisarmRule(q, r)) \/ DisarmEnd(q)
Route(q) ==
    \/ Arming(q) \/ LiveRead(q) \/ LiveWrite(q) \/ Disarming(q)
    \/ DeleteRead(q) \/ DeleteRow(q)
    \/ \E cap \in Caps, confirmed \in BOOLEAN : CapRead(q, cap, confirmed)
    \/ CapWrite(q)
Creation == (\E cap \in Caps : CreateSleeve(cap)) \/ (\E r \in Rules : CreateRule(r))
TickStep ==
    \/ TickRead \/ TickPoll \/ Breach \/ LoadRules
    \/ \E r \in Rules : FireArmed(r) \/ FireShadow(r) \/ NoFire(r)
    \/ TickEnd

Next == Creation \/ (\E q \in Requests : Route(q)) \/ AppCrash \/ TickStep
Spec == Init /\ [][Next]_vars

-----------------------------------------------------------------------------
TypeOK ==
    /\ sleeve \in Sleeve /\ rules \in SUBSET Rules /\ mode \in [Rules -> {"SHADOW", "PAPER"}]
    /\ tried \in SUBSET Rules /\ open \in SUBSET Rules /\ held \in BOOLEAN
    /\ tick \in Tick /\ req \in [Requests -> Request] /\ h \in History

\* What a disarm undoes, and what it does not.  A rule is in PAPER mode only if
\* an arm of it began after the last disarm to end had begun, or was under way
\* when that disarm began and so could write after it: no arm that had ended
\* survives a disarm, however requests interleave and whichever of them the
\* dashboard's death cut short.  That an arm under way survives it is the race
\* of app.py:9204 with 9326, against the docstring of disarm_sleeve.
OnlyRacesSurviveDisarm ==
    \A r \in Rules : mode[r] = "PAPER" => r \in h.warrant \/ r \in h.raced

\* The kill switch: an order is placed only for a rule with an arm that began
\* after the last disarm to end had begun, or that raced that disarm, at some
\* moment of the tick that places it.  So a tick that begins after a disarm which
\* no arm overlapped places nothing until a rule is armed again (disarm_sleeve
\* against the statuses and modes the tick read earlier).
OrdersAreWarranted == [][\A r \in open' \ open : r \in tick.warrant]_vars

\* A deleted sleeve leaves no order and no position behind, except what a tick
\* placed after the check or was still at work on (delete_sleeve_route).
DeletedIsFlat == ~Exists /\ (open # {} \/ held) => h.late

\* The hard box is never wider than the widest one the operator ever created or
\* confirmed, whichever stale envelope a request was judged against.  A narrowing
\* may be undone by a request that was judged before it
\* (update_sleeve_envelope_route).
BoxIsConfirmed == sleeve.cap <= h.ceiling

-----------------------------------------------------------------------------
(* The inductive invariant, see SleeveControlProofs. *)

\* An arm under way is of a rule that exists, and no disarm revokes it; a disarm
\* has left behind, of what it revokes, only rules in SHADOW mode.
RaceInv ==
    /\ \A r \in Rules \ rules : mode[r] = "SHADOW"
    /\ \A q \in Requests :
        /\ req[q].pc \in {"mode", "status"} =>
             /\ req[q].rule \in rules \cap Standing
             /\ \A p \in Requests : req[q].rule \notin req[p].revokes
        /\ req[q].pc = "revert" => \A r \in req[q].revokes \ req[q].todo : mode[r] = "SHADOW"
\* A tick under way knows every arming that stood since it began.
TickInv ==
    /\ tick.pc # "idle" => Standing \subseteq tick.warrant
    /\ tick.armed \subseteq tick.warrant
\* What a delete found flat stays flat until a tick places an order.
FlatInv ==
    /\ ~Exists /\ ~h.late => open = {} /\ ~held /\ tick.pc = "idle"
    /\ ~Exists /\ ~h.deleted => /\ rules = {} /\ ~h.late
                                /\ \A q \in Requests : req[q].pc = "idle"
    /\ h.deleted => ~Exists
    /\ \A q \in Requests : req[q].pc = "delete" /\ ~req[q].late => open = {} /\ ~held
BoxInv == \A q \in Requests : req[q].pc = "cap" => req[q].cap <= h.ceiling
IInv == /\ TypeOK /\ OnlyRacesSurviveDisarm /\ BoxIsConfirmed
        /\ RaceInv /\ TickInv /\ FlatInv /\ BoxInv
=============================================================================
