----------------------------- MODULE Incubation -----------------------------
(***************************************************************************)
(* The strategy incubation gate: the forward-tracking ledger that a        *)
(* Strategy Builder survivor passes before it is recommended               *)
(* (advisors/incubation.py and the 037 accessors of database.py).          *)
(*                                                                         *)
(* Proposal runs admit candidates: one in each request thread of the       *)
(* dashboard, one in the weekly job's process.  The daemon's daily tick    *)
(* fetches a backtest of every incubating candidate, appends its days and  *)
(* judges it.  Every database statement is a step; the daemon may stop or  *)
(* an exception leave a candidate between any two.                         *)
(*                                                                         *)
(* A return is the whole number of points by which a day beat SPY, and     *)
(* points add up where the code compounds.                                 *)
(***************************************************************************)
EXTENDS Integers, FiniteSets, FiniteSetsExt

CONSTANTS
    Candidates,                     \* candidate hashes
    Builders,                       \* propose_strategies runs at work at a time
    Returns,                        \* daily returns that occur
    MAX_INCUBATING,
    INCUBATION_REFRACTORY_DAYS,
    INCUBATION_WINDOW_TRADING_DAYS,
    INCUBATION_MAX_FETCH_FAILURES,
    MIN_OBSERVATIONS,               \* _MIN_QUANTSTATS_OBSERVATIONS
    MIN_SPY_PAIRED_OBSERVATIONS,
    MddLimit,                       \* INCUBATION_MDD_BREACH_MULT * backtest_mdd_pct
    Past,                           \* days of backtest history before the first day
    MaxDay,                         \* bound: days
    MaxFailed,                      \* bound: fetch_failure_count
    MaxAdmissions                   \* bound: admissions

ASSUME SetAssumption == IsFiniteSet(Candidates) /\ IsFiniteSet(Builders)
ASSUME CapAssumption == MAX_INCUBATING \in Nat \ {0}
ASSUME CountAssumption ==
    /\ {INCUBATION_REFRACTORY_DAYS, INCUBATION_WINDOW_TRADING_DAYS} \subseteq Nat
    /\ {MIN_OBSERVATIONS, MIN_SPY_PAIRED_OBSERVATIONS, MddLimit, Past, MaxDay} \subseteq Nat
    /\ INCUBATION_MAX_FETCH_FAILURES \in Nat \ {0} /\ {MaxFailed, MaxAdmissions} \subseteq Nat
    /\ Returns \subseteq Int

VARIABLES
    row,        \* strategy_incubation, status "none" for no row
    daily,      \* incubation_daily: each recorded day's return, and whether SPY's was known
    today,      \* days of backtest history that Composer has
    tick,       \* the daily tick in progress
    ticked,     \* today's tick has been started
    builder,    \* where each proposal run is in register_incubation_candidate
    h           \* history of each candidate
vars == <<row, daily, today, tick, ticked, builder, h>>

Decided == {"PROMOTED", "FAILED", "EXPIRED"}
Status == {"none", "INCUBATING"} \cup Decided
Reason == {"none", "mdd_breach", "forward_alpha_negative", "composer_422_tree_invalid",
           "fetch_failures_exhausted"}
Row == [status : Status, reason : Reason, admitted : Nat, changed : Nat, failures : Nat]
\* Failed fetches in a row since it was admitted, admissions, and whether two
\* runs ever held a check of the same decided row.
History == [misses : Nat, attempts : Nat, rivals : BOOLEAN]
Ticks == [pc : {"idle", "fetch", "expire", "append"}, todo : SUBSET Candidates,
          spy : BOOLEAN, c : Candidates \cup {"none"}, day : Nat]
Idle == [pc |-> "idle", todo |-> {}, spy |-> FALSE, c |-> "none", day |-> 0]

Init ==
    /\ row = [c \in Candidates |-> [status |-> "none", reason |-> "none",
                                    admitted |-> 0, changed |-> 0, failures |-> 0]]
    /\ daily = [c \in Candidates |-> [d \in {} |-> [ret |-> 0, spy |-> FALSE]]]
    /\ today = Past
    /\ tick = Idle /\ ticked = FALSE
    /\ builder = [b \in Builders |-> [pc |-> "idle", c |-> "none"]]
    /\ h = [c \in Candidates |-> [misses |-> 0, attempts |-> 0, rivals |-> FALSE]]

Incubating == {c \in Candidates : row[c].status = "INCUBATING"}

-----------------------------------------------------------------------------
(* database.register_incubation_candidate *)

\* Mutant: the refractory window is not looked at.
Admissible_Always(c) == row[c].status \in {"none", "FAILED", "EXPIRED"}
Admissible(c) ==
    \/ row[c].status = "none"
    \/ /\ row[c].status \in {"FAILED", "EXPIRED"}
       /\ today - row[c].changed >= INCUBATION_REFRACTORY_DAYS

\* Mutant: the cap is off by one.
UnderCap_AtCap(c) == Cardinality(Incubating) <= MAX_INCUBATING
UnderCap(c) == Cardinality(Incubating) < MAX_INCUBATING

\* The two SELECTs: the row, and the count of those that incubate.
Check(b, c) ==
    /\ builder[b].pc = "idle" /\ Admissible(c) /\ UnderCap(c)
    /\ MapThenSumSet(LAMBDA x : h[x].attempts, Candidates) < MaxAdmissions
    /\ builder' = [builder EXCEPT ![b] =
            [pc |-> IF row[c].status = "none" THEN "insert" ELSE "update", c |-> c]]
    /\ h' = [h EXCEPT ![c].rivals = @ \/ \E r \in Builders : builder[r] = builder'[b]]
    /\ UNCHANGED <<row, daily, today, tick, ticked>>

Leaves(b) == builder' = [builder EXCEPT ![b] = [pc |-> "idle", c |-> "none"]]
Enters(c) ==
    /\ row' = [row EXCEPT ![c] = [@ EXCEPT !.status = "INCUBATING", !.reason = "none",
                                           !.admitted = today, !.changed = 0]]
    /\ h' = [h EXCEPT ![c].attempts = @ + 1, ![c].misses = 0]

\* The INSERT; a row that is there by now raises, and the run goes on.
Insert(b) ==
    /\ builder[b].pc = "insert" /\ Leaves(b)
    /\ IF row[builder[b].c].status = "none" THEN Enters(builder[b].c) ELSE UNCHANGED <<row, h>>
    /\ UNCHANGED <<daily, today, tick, ticked>>

\* The UPDATE of a re-entry: by hash alone, the failure count left alone.
Update(b) ==
    /\ builder[b].pc = "update" /\ Leaves(b) /\ Enters(builder[b].c)
    /\ UNCHANGED <<daily, today, tick, ticked>>

-----------------------------------------------------------------------------
(* advisors.incubation.run_incubation_tick *)

\* An empty ledger makes no call; otherwise SPY is fetched once for all.
BeginTick ==
    /\ tick.pc = "idle" /\ ~ticked /\ ticked' = TRUE
    /\ \E spy \in BOOLEAN :
        tick' = IF Incubating = {} THEN Idle
                ELSE [Idle EXCEPT !.pc = "fetch", !.todo = Incubating, !.spy = spy]
    /\ UNCHANGED <<row, daily, today, builder, h>>

Takes(c) == tick.pc = "fetch" /\ c \in tick.todo
ToNext == [tick EXCEPT !.pc = "fetch", !.c = "none", !.day = 0]
Settles(c, status, reason) ==
    row' = [row EXCEPT ![c] = [@ EXCEPT !.status = status, !.reason = reason, !.changed = today]]

\* Mutant: an answer leaves the failures that came before it counted.
FetchOk_KeepsCount(c) ==
    /\ Takes(c)
    /\ h' = [h EXCEPT ![c].misses = 0]
    /\ tick' = [tick EXCEPT !.pc = "append", !.todo = @ \ {c}, !.c = c, !.day = 1]
    /\ UNCHANGED <<row, daily, today, ticked, builder>>

FetchOk(c) ==
    /\ Takes(c)
    /\ row' = [row EXCEPT ![c].failures = 0]
    /\ h' = [h EXCEPT ![c].misses = 0]
    /\ tick' = [tick EXCEPT !.pc = "append", !.todo = @ \ {c}, !.c = c, !.day = 1]
    /\ UNCHANGED <<daily, today, ticked, builder>>

FetchFails(c) ==
    /\ Takes(c) /\ row[c].failures < MaxFailed
    /\ row' = [row EXCEPT ![c].failures = @ + 1]
    /\ h' = [h EXCEPT ![c].misses = @ + 1]
    /\ tick' = IF row[c].failures + 1 >= INCUBATION_MAX_FETCH_FAILURES
                THEN [tick EXCEPT !.pc = "expire", !.todo = @ \ {c}, !.c = c]
                ELSE [tick EXCEPT !.todo = @ \ {c}]
    /\ UNCHANGED <<daily, today, ticked, builder>>

Expire ==
    /\ tick.pc = "expire" /\ tick' = ToNext
    /\ Settles(tick.c, "EXPIRED", "fetch_failures_exhausted")
    /\ UNCHANGED <<daily, today, ticked, builder, h>>

\* HTTP 422: the tree is no longer valid.
FetchInvalid(c) ==
    /\ Takes(c) /\ tick' = [tick EXCEPT !.todo = @ \ {c}]
    /\ Settles(c, "EXPIRED", "composer_422_tree_invalid")
    /\ UNCHANGED <<daily, today, ticked, builder, h>>

\* A tree that does not parse, or an error of the database, passes it over.
Skip(c) ==
    /\ Takes(c) /\ tick' = [tick EXCEPT !.todo = @ \ {c}]
    /\ UNCHANGED <<row, daily, today, ticked, builder, h>>

\* INSERT OR IGNORE: a day that is recorded keeps what was recorded.
Append(d) ==
    \E r \in Returns :
        daily' = [daily EXCEPT ![tick.c] =
            [x \in DOMAIN @ \cup {d} |-> IF x \in DOMAIN @ THEN @[x]
                                        ELSE [ret |-> r, spy |-> tick.spy]]]

\* Mutant: only the newest day is appended.
AppendDay_Newest ==
    /\ tick.pc = "append" /\ tick.day <= today /\ Append(today)
    /\ tick' = [tick EXCEPT !.day = today + 1]
    /\ UNCHANGED <<row, today, ticked, builder, h>>

\* Every day of the backtest, oldest first.
AppendDay ==
    /\ tick.pc = "append" /\ tick.day <= today /\ Append(tick.day)
    /\ tick' = [tick EXCEPT !.day = @ + 1]
    /\ UNCHANGED <<row, today, ticked, builder, h>>

\* The deepest fall of the recorded returns from a peak.
SumOver(c, days) == MapThenSumSet(LAMBDA d : daily[c][d].ret, days)
Drawdown(c) == Max({0} \cup {-SumOver(c, {d \in DOMAIN daily[c] : i <= d /\ d <= j}) :
                             i \in DOMAIN daily[c], j \in DOMAIN daily[c]})
Paired(c) == {d \in DOMAIN daily[c] : daily[c][d].spy}
Observed(c) == Cardinality(DOMAIN daily[c])

\* evaluate_promotion: a breach fails at any count of days; a full window is
\* judged on the days SPY is known for, or deferred.
Breaches(c) == Observed(c) >= MIN_OBSERVATIONS /\ Drawdown(c) > MddLimit
Judgeable(c) == /\ ~Breaches(c) /\ Observed(c) >= INCUBATION_WINDOW_TRADING_DAYS
                /\ Cardinality(Paired(c)) >= MIN_SPY_PAIRED_OBSERVATIONS
Judge ==
    LET c == tick.c IN
    /\ tick.pc = "append" /\ tick.day > today /\ tick' = ToNext
    /\ \/ Breaches(c) /\ Settles(c, "FAILED", "mdd_breach")
       \/ /\ Judgeable(c) /\ SumOver(c, Paired(c)) >= 0
          /\ Settles(c, "PROMOTED", "none")
       \/ /\ Judgeable(c) /\ SumOver(c, Paired(c)) < 0
          /\ Settles(c, "FAILED", "forward_alpha_negative")
       \/ ~Breaches(c) /\ ~Judgeable(c) /\ UNCHANGED row
    /\ UNCHANGED <<daily, today, ticked, builder, h>>

EndTick ==
    /\ tick.pc = "fetch" /\ tick.todo = {} /\ tick' = Idle
    /\ UNCHANGED <<row, daily, today, ticked, builder, h>>

-----------------------------------------------------------------------------
\* An exception ends the candidate's part of the tick, a restart the tick.
Interrupted ==
    /\ tick.pc # "idle"
    /\ tick' \in {Idle, ToNext}
    /\ UNCHANGED <<row, daily, today, ticked, builder, h>>

\* A trading day closes.  The tick of the night before is over by then, and no
\* run is between two statements of its own.
NextDay ==
    /\ tick.pc = "idle" /\ \A b \in Builders : builder[b].pc = "idle"
    /\ today < MaxDay /\ today' = today + 1 /\ ticked' = FALSE
    /\ UNCHANGED <<row, daily, tick, builder, h>>

Admission == \E b \in Builders : Insert(b) \/ Update(b) \/ \E c \in Candidates : Check(b, c)
TickStep == \/ BeginTick \/ Expire \/ AppendDay \/ Judge \/ EndTick
            \/ \E c \in Candidates : FetchOk(c) \/ FetchFails(c) \/ FetchInvalid(c) \/ Skip(c)
Next == Admission \/ TickStep \/ Interrupted \/ NextDay
Spec == Init /\ [][Next]_vars

-----------------------------------------------------------------------------
TypeOK ==
    /\ row \in [Candidates -> Row]
    /\ today \in Nat
    /\ \A c \in Candidates : DOMAIN daily[c] \subseteq 1..today
                              /\ daily[c] \in [DOMAIN daily[c] -> [ret : Returns, spy : BOOLEAN]]
    /\ tick \in Ticks
    /\ ticked \in BOOLEAN
    /\ builder \in [Builders -> [pc : {"idle", "insert", "update"}, c : Candidates \cup {"none"}]]
    /\ h \in [Candidates -> History]

\* The cap is a count and then a write: every run at work beyond the first may
\* exceed it by one candidate, and no more however the runs and ticks interleave
\* (the tick's call budget, "at most MAX_INCUBATING + 1", rests on it).
CapIsBounded ==
    Builders # {} => Cardinality(Incubating) <= MAX_INCUBATING + Cardinality(Builders) - 1

\* A candidate on its first incubation is only given up for failed fetches
\* after INCUBATION_MAX_FETCH_FAILURES ticks in a row of which none answered,
\* whatever restarts fell in between.
ExpiryIsEarned ==
    [][\A c \in Candidates :
        /\ row[c].status = "INCUBATING" /\ row'[c].status = "EXPIRED"
        /\ row'[c].reason = "fetch_failures_exhausted" /\ h[c].attempts = 1
        => h[c].misses >= INCUBATION_MAX_FETCH_FAILURES]_vars

\* A verdict is passed on every day of the backtest, the days of nights on
\* which the tick did not run or was cut short included.
JudgedOnEveryDay ==
    [][\A c \in Candidates :
        row[c].status = "INCUBATING" /\ row'[c].status \in {"PROMOTED", "FAILED"}
            => DOMAIN daily[c] = 1..today]_vars

\* What was decided stays decided: a promotion for good, a failure for the
\* refractory window.  Only two runs that re-admit the same candidate at the
\* same time can undo a later verdict.
DecisionStands ==
    [][\A c \in Candidates :
        row[c].status \in Decided /\ row'[c].status # row[c].status =>
            \/ h[c].rivals
            \/ /\ row[c].status # "PROMOTED"
               /\ today - row[c].changed >= INCUBATION_REFRACTORY_DAYS]_vars

\* A promotion rests on a window of days observed after the admission ("by
\* construction are observed strictly AFTER the candidate's admission").
PromotedOnForwardDays ==
    \A c \in Candidates : row[c].status = "PROMOTED" =>
        Cardinality({d \in DOMAIN daily[c] : d > row[c].admitted})
            >= INCUBATION_WINDOW_TRADING_DAYS

-----------------------------------------------------------------------------
\* The inductive strengthening of CapIsBounded and ExpiryIsEarned.
Pending == {b \in Builders : builder[b].pc # "idle"}
CapInv == Builders # {} =>
    Cardinality(Incubating) + Cardinality(Pending) <= MAX_INCUBATING + Cardinality(Builders) - 1
\* Who is past the SELECTs, or in the tick's work list, has a row.
SeenInv ==
    /\ \A b \in Builders : builder[b].pc = "update" => row[builder[b].c].status # "none"
    /\ \A b \in Builders : builder[b].pc # "idle" => builder[b].c \in Candidates
    /\ \A c \in tick.todo : row[c].status # "none"
    /\ tick.pc \in {"append", "expire"} => tick.c \in Candidates /\ row[tick.c].status # "none"
    /\ tick.pc = "append" => tick.day >= 1
CountInv == \A c \in Candidates :
    /\ row[c].status = "none" <=> h[c].attempts = 0
    /\ row[c].status = "none" => row[c].failures = 0
    /\ h[c].attempts <= 1 => row[c].failures <= h[c].misses
ExpiryInv ==
    tick.pc = "expire" => row[tick.c].failures >= INCUBATION_MAX_FETCH_FAILURES
IInv == TypeOK /\ CapInv /\ SeenInv /\ CountInv /\ ExpiryInv

\* That of JudgedOnEveryDay: the days before the one at hand are recorded.
DaysInv ==
    /\ DOMAIN daily = Candidates
    /\ tick.pc = "append" => 1..(tick.day - 1) \subseteq DOMAIN daily[tick.c]

\* That of DecisionStands: whom the tick still has to judge incubates, and what
\* a run has found of a decided row holds until it writes, unless two runs race.
WorkInv ==
    /\ \A c \in tick.todo : row[c].status = "INCUBATING"
    /\ tick.pc \in {"append", "expire"} =>
            row[tick.c].status = "INCUBATING" /\ tick.c \notin tick.todo
ClaimInv ==
    /\ \A b \in Builders : builder[b].pc = "update" /\ ~h[builder[b].c].rivals =>
            /\ row[builder[b].c].status \in {"FAILED", "EXPIRED"}
            /\ today - row[builder[b].c].changed >= INCUBATION_REFRACTORY_DAYS
    /\ \A a, b \in Builders :
            a # b /\ builder[a].pc = "update" /\ builder[a] = builder[b]
                => h[builder[a].c].rivals
=============================================================================
