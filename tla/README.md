# PlanetStopper in TLA+

PlanetStopper is a Python daemon that watches the Composer symphonies of an
account once a minute, sells a symphony to cash when one of four protective
exits confirms, runs *managed sleeves* (small rule-driven books that share one
Alpaca account), and at night tunes the parameters of those exits by replaying past
days, reviews which symphonies to retire, and incubates candidate strategies.

This directory models the parts of it that change persistent state or spend
money: TLA+ modules translated from the source, TLC configurations that check
them on small instances, and theorems that hold for every value of the
constants, with proofs checked by TLAPS.

    tlc -workers 4 -config MCSleeveOrders.cfg MCSleeveOrders     # one run
    tlapm SleeveOrdersProofs.tla                                 # one proof module

`PROJECT.json` lists the components, the runs with their properties, for every
property a mutation of the model that it catches, the source lines each
definition translates, the hazards, the findings and the theorems.

## 1. The system

| Component | State | Operations | Modelled in |
|---|---|---|---|
| Sleeve order path (`sleeves/rules/actions.py`, `sleeves/alpaca_orders.py`, fill poll and cancel loop of `sleeves/tick_orchestrator.py`) | `sleeve_orders`, `sleeve_fills`, the broker's orders | reserve, POST with retries, timeout lookup, ack, poll, adopt, cancel, re-poll | `SleeveOrders`, `OrderBook` |
| Symphony exit machine (`math_engine.py`, decisions of `alpha_bot_execution.main`) | the symphony's entry in `bot_state`: armed, triggered, five counters, high-water mark, `last_holdings_positive` | data phase, four exits, execution queue, daily wipe, reset of a re-opened position | `ExitMachine` |
| Engine runs and the `bot_state` row (`app.py` scheduler, `database.py` lock and row, skeleton of `alpha_bot_execution.main`) | run slot, `execution_lock`, the JSON row, each process's copy of it | spawn, lock, load, queue, sleeve tick, save, release, session bound, restart, flush resync, snapshot repair | `EngineRuns` |
| Sleeve ledger (`sleeves/ledger.py`) | none: a fold of the order history | reserve, release, apply_fill, reconstruct | `SleeveLedger` |
| Sleeve tick and reconciliation (`run_sleeve_tick_for_all_sleeves`, `sleeves/reconciliation.py`) | `sleeves.status`, the shared account | poll, cancel, aggregate check, pause, rule evaluation | `SleeveGroup` |
| Strategy incubation (`advisors/incubation.py`, 037 accessors of `database.py`) | `strategy_incubation`, `incubation_daily` | admission under a cap, daily fetch, append, verdict | `Incubation` |
| Sleeve control routes (`app.py`: create, arm, arm-live, disarm, delete, envelope) | `sleeves`, `sleeve_rules` | a read, checks, then one or more writes, each a transaction of its own | `SleeveControl` |
| Rule pacing and benching (`sleeves/rules/limits.py`, `runner.py`) | `sleeve_runtime`: last fire, daily count, episode latch, false streak | evaluate, store key by key, dispatch, compensate | `SleeveRules` (not the churn brake) |
| Autotuner (`autotuner.py`) | none during a replay: a replayed entry per day | `_replay_exit_tick` minute by minute | `ExitReplay` (not the study and its objectives) |
| Retirement recommender and tenure review (`app.py`, `advisors/tenure_review.py`) | `advisor_observations`: recommendations, summaries, review rows; the review slot, the run lock | nightly tick, two buttons, persist row by row, complete, release, list | `RetirementRuns` (not scores, explanations, decisions) |
| Sizing and envelope (`sleeves/sizing.py`, `envelope.py`) | none | `size_order`, `clamp_order`, `is_envelope_widened` | `SleeveEnvelope`, used by `SleeveGroup`; widening in `SleeveControl` |
| Rule documents, conditions, senses (`sleeves/rules/schema.py`, `conditions.py`, `senses.py`) | none | validate, evaluate, read prices | no |
| Dashboard sessions, alerts, events | sessions, alert markers | upserts | no |
| Panic liquidation (`/api/sell_account`) | none of its own | confirm, sell every symphony | no |
| Frontrunner proposals, retirement decisions | proposal and decision rows | propose, approve, reject, upload | no |
| Analytics, shadow rows, close totals | report rows | append, rebuild, close-totals latch | no |
| Prism scheduler, lenses, regime job, promotion of parameters | one row per day, promoted parameters | run once a day, retry, promote | no |
| Builder, swap and logic advisors; Composer, Alpaca and model clients; charts; scripts | none that persists here | network and language-model calls | only as the environment's answers |

### How the parts interact

`app.py` is one process. Its scheduler spawns, once a minute, an engine
subprocess (`alpha_bot_execution.py`) into a single run slot and ends it after
600 s. The engine takes a lock row that goes stale after 60 s, loads the whole
`bot_state` row, reads Composer and Alpaca, takes the exit decisions, sells
through Composer, then runs the sleeve tick, and only then writes `bot_state`
back whole. The dashboard's threads and jobs write the same database: the
control routes change `sleeves.status` between any two steps of a tick, the
flush job rewrites `bot_state` without the lock, request threads and a weekly
process admit candidates while the nightly tick judges them, and two background
jobs append retirement recommendations that a request may list half-written. All sleeves of one
broker host share a single account with the operator. The broker fills, prices,
expires and cancels orders whenever it likes.

### What is hard about it

- Answers that are lost, late or wrong: a POST that timed out may be absent,
  landed, or still under way; a cancel may be accepted and not yet done.
- Crashes and kills between a broker call and the write that records it.
- Ladders of consecutive readings that must not survive a disarm, a sale, a
  re-opened position or a night.
- Read-modify-write of one row by several processes; a lock made of a SELECT
  and an UPDATE, with an expiry shorter than a run.
- Statuses read at the start of a tick and used at its end.
- Folding a history in which fills arrived at other prices than were reserved.
- A count checked in one statement and used in the next.
- Pacing that is consumed before the order it stands for exists.
- A second implementation of the exits, which has to stay in step with the first.
- Rows of one run that become visible one by one; guards freed by `finally`.

`PROJECT.json` lists these hazards one by one at their lines, with the
properties that catch them.

## 2. The modules

    SleeveLedger, SleeveEnvelope  <--EXTENDS--  SleeveGroup  <--  MCSleeveGroup
                                                    ^--  SleeveGroupProofs
    OrderBook  <--INSTANCE--  SleeveOrders      <--  MCSleeveOrders
                                  ^--  SleeveOrdersProofs
    ExitMachine    <--  MCExitMachine
        ^--EXTENDS--  ExitReplay  <--  MCExitReplay, ExitProofs
    EngineRuns     <--  MCEngineRuns,    EngineRunsProofs
    Incubation     <--  MCIncubation,    IncubationProofs
    SleeveControl  <--  MCSleeveControl, SleeveControlProofs
    SleeveRules    <--  MCSleeveRules,   SleeveRulesProofs
    RetirementRuns <--  MCRetirementRuns, RetirementRunsProofs

**SleeveOrders** is one sleeve's orders against one broker. Every database
statement and every broker call is a step, and the engine may die between any
two. `status`, `acked` and `recorded` are the columns of an order and its fills;
`broker`, `host`, `filled`, `priced` and `wire` are the truth outside; `pc`,
`tick`, `phase`, `todo`, `cur`, `snap` and `tries` are the local variables of
the tick. `tick` is the sleeve's status *as this tick read it*, which is what
the code goes on using when the operator disarms meanwhile. Three broker
behaviours the code does not survive are switched by `Faults`: a reply lost to a
connection error that is no timeout, a POST that lands after the client gave
up, and a cancel that completes later. `astray` is a history variable: the orders
that one of these has touched, or that a tick asked about on the other host.

**OrderBook** is what an order promises from outside: reserved once, executed
only while reserved, booked never ahead of the broker, settled once and only
when everything is booked. `SleeveOrders!ImplementsOrderBook` is the refinement,
with `intent` computed from the status and the two counts carried over.

**ExitMachine** is one symphony. A cycle holds the engine lock, so it is one
step, composed of the functions of `math_engine.py` in the order `main` calls
them; `ActionCycle` is a full cycle, `PreGateCycle` a cycle before the start
time, `MissedCycle` one that returns early and saves nothing. Returns are
integers; the Monte Carlo reading is one of the five bands the code's
thresholds make. The record `h` counts what the readings really were, so the
entry's own counters can be judged against it.

**EngineRuns** opens the cycle up: the daemon, the slot, the processes, the lock
and the row. Of `bot_state` it keeps the triggered flags and the post-mortem
flag. `h` counts the sales and post-mortems and the events that forgot one.

**SleeveLedger** is `ledger.py` as pure operators over one symbol; an exception
is a ledger that is not `ok`. **SleeveGroup** is all sleeves of one host over
that fold: poll, clean-up of SHADOW sleeves, the aggregate check and its pauses,
and the rules' orders, while the broker fills share by share, the operator arms,
disarms and trades by hand. Every buy is a bracket, as in `_dispatch_buy`: with its
last share its exit legs are activated (or rejected, if others wait for the
shares), hold what it bought (`legs`), and may sell it a share at a time
(`LegFill`), end (`LegsEnd`), or be cancelled by a DELETE of the filled parent.
No row says so; the history `exits` keeps what they have sold. `BeginRules` reads position, equity and turnover once
(`ctx`); every action of the tick is sized and clamped against them, and only a
buy folds the ledger again. `slipped` is a history variable: the sleeves a buy
of which has filled above its reservation, which is what the fold can later
raise over. Its broker answers at once; lost answers are `SleeveOrders`'
subject. **SleeveEnvelope** is `size_order` and `clamp_order` as
pure operators.

**Incubation** has proposal runs that admit candidates (SELECTs, then INSERT or
UPDATE), the nightly tick (fetch outcomes, one append per day, the verdict), and
days that pass with the tick run, cut short or skipped.

**SleeveControl** is one sleeve's rows, `Requests` threads that each serve one
route at a time, and the engine's tick. A route is its database statements, one
a step: `ArmRead`, `ArmMode`, `ArmStatus`; `DisarmRead`, `DisarmStatus`, one
`DisarmRule` a rule; `DeleteRead`, `DeleteRow`; `CapRead`, `CapWrite`. The tick
reads the status, polls, may pause (`Breach`), loads the rules that are armed
and fires them. `AppCrash` ends all requests at once. Two histories say
what a disarm has to answer for: `warrant`, the rules with an arm that began after
the last disarm to end had begun, and `raced`, those with an arm that was under
way when that disarm began and could write after it.

**SleeveRules** is what `sleeve_runtime` holds of each rule and a tick over all
rules: `EvaluateFalse` and `EvaluateTrue` are `check_and_advance_pacing`,
`Storing` writes one key, the dispatch reserves and records orders, and an
exception sets out to put the keys back unless it finds that an order exists.
A kill may come between any two of these. The histories `epi`, `today`,
`streak` count what was dispatched in an episode, in a day, and the false
readings in a row, whatever the keys say.

**ExitReplay** runs `ExitMachine`, extended by the parabolic squeeze and the
stop distance it leads to, and beside it `_replay_exit_tick` on the same bars,
day after day. The replay has an entry, a clock, a grace window and an order of
evaluation of its own. `clean` says that the engine has seen every minute of the
day and that it was one position, `level` that both sides used the same stop
distance and confirmation counts.

**RetirementRuns** is the 03:45 tick, the two buttons, the two guards (the
review slot, taken by compare-and-set with an owner; the recommender's lock),
the threads' steps with a failure at any of them, the rows they append, and the
request that reads the newest summary, the newest review and then a page of
rows.

## 3. The runs

| Run | Shows |
|---|---|
| `orders_safe` (`MCSleeveOrders`) | The books never hold less against an order than the broker may spend (`BookCoversBroker`); `OrderBook` is implemented; a paper sleeve that stays disarmed gets every order cancelled (`DisarmStopsOrders`); an order the broker is done with is settled with all its fills (`EveryOrderSettles`). |
| `orders_faulty` (`MCSleeveOrdersFaulty`) | With all three faults, both hosts, paused sleeves and retries: the books hold less against an order than the broker can spend only if one of the three faults or the other host has touched it, and crashes, timeouts and unanswered reads never do that (`OnlyAstrayAreLost`); what is settled stays settled (`SettledForGood`). |
| `exit_machine` (`MCExitMachine`) | No exit without its consecutive confirmations, no disarm without its own, one exit per position, a high-water mark that is the position's peak, an exit on the tick that completes a blind confirmation, a reset entry after a re-opening. |
| `exit_replay` (`MCExitReplay`) | As long as the engine saw every minute of one position, the replay carries the engine's counters, arming and peak (`SameState`) and returns the engine's exit; where stop distances or confirmation counts differ, only a trailing stop may differ (`ReplayAgrees`). |
| `engine_runs` (`MCEngineRuns`) | One run per daemon; every repeated sale or post-mortem answers a fault or a flush; no return drops a recorded exit; cycles always resume. |
| `sleeve_group` (`MCSleeveGroup`) | Ledgers, unpolled fills and the account agree to the dollar and the share, but for what exit legs have sold (`BookMatchesBroker`); every fold balances; actions clamped against one snapshot still reserve each dollar once (`CashIsReservedOnce`); a pause has a cause, and a sale by exit legs pauses only sleeves whose books hold shares (`PauseHasCause`); sleeves do not go on claiming more than the account has, unless the operator keeps taking them out of their pause (`OverclaimIsCaught`). |
| `sleeve_group_slippage` | **Finding.** A buy that fills above its reserved price makes the fold of its sleeve raise, and the other sleeves of the host lose their checks and rules. |
| `sleeve_control` (`MCSleeveControl`) | No arm that had ended survives a disarm, whichever requests interleave and wherever the dashboard dies; only one under way when the disarm began can (`OnlyRacesSurviveDisarm`); an order is placed only for a rule with such an arm, or a later one, at some moment of the tick (`OrdersAreWarranted`); a deleted sleeve leaves no order or position its delete could have seen (`DeletedIsFlat`); the box is never wider than the widest one ever created or confirmed (`BoxIsConfirmed`; a narrowing may be undone). |
| `sleeve_rules` (`MCSleeveRules`) | One dispatch per episode and no more than the limit per day, whatever raises or is killed (`OncePerEpisode`, `DailyLimit`); between ticks the keys agree with the dispatches but for what a kill has cost (`PacingIsHonest`); an exit whose condition stands is dispatched in the end (`ExitsFire`). |
| `incubation` (`MCIncubation`) | The cap is exceeded by at most one for each racing run beyond the first; nobody is given up before its failures are full; a verdict is on every day; decisions stand. |
| `incubation_forward` | **Finding.** The first tick records the whole backtest, finds the window full and judges on days before the admission. |
| `retirement_runs` (`MCRetirementRuns`) | Each job runs alone and holds its guard (`GuardsHold`), gives it back (`GuardsAreFreed`), an answer lists a run whole or not at all (`AnswerIsWhole`), and only a run that completes changes what is listed (`CardsStand`). |

### Differences seen while translating

The code departs from a comment, a docstring or an evident intent in these
places too. They are translated as they stand; no run is devoted to them.

- A live order without its ack is looked up on the host of the sleeve's present
  status (`tick_orchestrator.py:319`): after a disarm the paper host answers 404
  and the row is closed as rejected.
- A cancel that is only pending is closed as canceled after one re-poll
  (`tick_orchestrator.py:511`); fills that follow are not recorded.
- The exit legs of a bracket have no row: what they sell is never recorded. The
  books then hold shares that the account does not, and the next reconciliation
  that finds them short pauses every sleeve that holds the symbol, until the
  operator puts it right (`BookMatchesBroker` and `PauseHasCause` say so).
- The poll reads the newest 500 rows (`tick_orchestrator.py:292`); an older open
  order would no longer be polled. A 404 right after a timed-out POST is taken
  for absence (`actions.py:194`), and an HTTP 200 whose body does not parse for a
  rejection (`alpaca_orders.py:212`).
- The sleeve tick runs before the exits of the same cycle are saved
  (`alpha_bot_execution.py:2051`): a tick that waits past the session bound takes
  them with it.
- One early return between a sale and a re-opening loses the observation that
  the position was flat; the new position keeps `triggered`
  (`alpha_bot_execution.py:1226`). A change of the execution mode wipes
  `triggered` of a symphony that was sold and has not settled (line 727).
- A dip below the threshold keeps the take-profit count while the ladder is armed
  (`math_engine.py:845`).
- The replay's `time_ratio` runs from the first to the last bar, the engine's
  from `EXECUTION_START_TIME` to the close (`autotuner.py:1247`, docstring at
  1151-1153). The replay also evaluates the blackout minutes before the close,
  which the engine skips.
- Disarm promises that every rule is back in SHADOW (`app.py:9308-9311`), but an
  arm that has read the sleeve when the disarm begins writes after it
  (`app.py:9204`, `9228`): `ArmRead`, a whole disarm, `ArmMode`, `ArmStatus`. The
  rule and the sleeve are in PAPER with no arm asked for since, and the next tick
  places its orders. Stated without `raced`, `OnlyRacesSurviveDisarm` is violated
  by a trace of 13 states.
- Arming reads the status and writes later, so it can overwrite a pause set in
  between; arm-live writes without looking at PAUSED or SHADOW; a tick's pause
  can overwrite the SHADOW of a disarm.
- A kill between consuming the pacing and the order silences the rule until its
  condition has been false long enough. A second action that raises after a first
  was recorded keeps the episode. A benched tick does not break the false streak
  (`limits.py:130`).
- Two rules of one tick are clamped against the same positions and turnover, so
  together they may exceed the day's turnover or sell more than the sleeve holds,
  although `envelope.py` says of each order that shorting is never permitted.
- A page of 50 rows serves both retirement jobs, while the lookup of the last
  good run promises to bridge a year of failed nights (`app.py:7713`, `7848`). If
  the very first run of the recommender fails, the rows it has persisted can be
  listed by the calendar-date fallback, against the comment at `app.py:7728`.
  The nightly tick checks and then claims, so a run longer than a day would let
  a review be repeated.

### Bounds, and why they are enough

- *Orders*: two orders of two shares are the least with a partial fill, two
  orders in one loop and a step of one order between two of another. `MaxFaults`
  1 allows a crash or an unanswered read at any point. Retries of a POST do not
  change what follows unless replies are lost, so `orders_safe` has one attempt
  and `orders_faulty` two. The fair run has SHADOW and PAPER: with the live host
  a tick may ask the wrong one (see the first difference above), and a
  paused sleeve is never polled, so neither liveness property is claimed for it.
- *Exits*: every confirmation needs two ticks, so that one reading is never
  enough and two in a row are. Returns of -2 and 1, activation and magnitude
  floor 1, lie on both sides of every threshold. Three Monte Carlo bands stand
  for the five here (an absent reading arms like the band and qualifies like a
  breakdown; the rest act alike on each ladder); the proofs cover all five. Two
  moves, one new day, one missed cycle and one refused sell cover each reset
  before and after a sale.
- *Runs*: two processes, because a daemon owns one and a crash or an orphan can
  leave one other; a lock that goes stale after one tick and a run that ends
  after two keep the order the code has (60 s before 600 s); two faults, so that
  one can strike while the system recovers from another.
- *Sleeves*: two sleeves, two orders, two actions a tick, and one share that changes
  hands outside the rows (`MaxOutside`): traded by hand, or sold by an exit leg.
  Three shares are asked for; a box of 4 dollars an order and 8 a day at a close
  of 2 makes that two shares, or one once the day's turnover has grown. They fill
  a share at a time at 3: slippage, a partial fill, and fills on either side of the
  poll and of the account read; and exit legs hold one share or two, so the share they
  sell may be all of theirs or half. Capital 7 does not cover two full orders, so a buy
  that did not look at the cash again would reserve it twice. The slippage run has
  no box and a capital of 4 that covers two one-share orders exactly.
- *Incubation*: three candidates, cap one, two runs: exceeding the cap by one is
  two of three. A window of two days, two failures and one refractory day, over
  three days of which one is history, include every verdict, a skipped night, an
  interrupted tick and a re-entry.
- *Control*: three requests are an arm, a disarm and one more of any kind between
  them; the tick has a rule to fire and both an order and a position to leave.
  One rule is enough here because the routes treat each alike: `OnlyRacesSurviveDisarm`
  speaks of one rule at a time, and the proof covers any number.
- *Pacing*: an entry and an exit, two actions each (a raise can strike before,
  between and after them), two false readings to rearm, a cooldown of two ticks,
  one fire a day, and two faults, so that one can strike the compensation of
  another.
- *Replay*: five minutes, of which the last is blackout, two days, exits at one
  or two confirmations, a start time at the open or a minute later: an exit needs
  two minutes, so one fits on either side of each boundary. A missed cycle, a move
  of the holdings, a refused sell and a second day happen once each.
- *Retirement*: two threads, runs that find nothing or two rows, one older row
  and a page of three, so that a run can leave the page; one restart. The night
  starts with or without a review of the last session, and the next session closes
  while threads are still at work.

The calendar of `incubation` and `exit_replay` ends the behaviour, and a deleted
sleeve ends that of `sleeve_control`, so deadlock is not checked there; it is
checked everywhere else.

Symmetry is used for orders in `orders_faulty`, for candidates and runs in
`incubation` and for requests in `sleeve_control`, which have no liveness
properties and no `CHOOSE` among them.

### Fairness, and why the code justifies it

- `SleeveOrders!TickSpec`: weak fairness of the engine as a whole (the scheduler
  starts a tick every minute, a tick goes to its end unless the process dies, and
  `MaxFaults` bounds the deaths), and of the broker publishing the price of a
  fill. No fairness of a particular answer, fill or close.
- `EngineRuns!Fairness`: the scheduler's loop, the run's thread, the clock, and
  every process that does not hang. Hung processes get none.
- `SleeveGroup!FairSpec`: a tick step again and again. One is enabled in every
  state and changes `tick`, and nothing else does, so this is weak fairness of the
  tick. The broker, the legs and the operator get none.
- `SleeveRules!Spec`: weak fairness of a tick that has begun (it ends unless it
  is killed, and `MaxFaults` bounds that), and strong fairness of beginning one
  and of the session and the day turning. Conditions may do as they like;
  `ExitsFire` is claimed for one that stands.
- `RetirementRuns!Spec`: weak fairness of the next step of each thread that
  lives: its reads and its calls of the explainer all have timeouts. Clicks,
  requests and restarts may never come.

## 4. What is proved

Each proof has the same shape: `Init` implies the inductive invariant, every
action preserves it (one lemma or step per action), and the property follows.
Every inductive invariant, which contains the type invariant of its module, was
checked by TLC before it was proved; the runs list the properties, and would only
repeat what the theorem says of the invariant. With one exception (the order
path's `Faultless`) the only assumptions are those on the constants, and TLC
evaluates them on every run.

**SleeveGroupProofs.** Any number of sleeves, any capital, close, fill prices,
sizings and envelope, histories of any length. Three layers:

- *The fold.* What one more order does to a ledger (`FoldBalances`,
  `FoldReserves`, `FoldNeverShort`), and by induction along the history what the
  ledger of a whole history is (`HistoryFolds`): reserved is the sum of the open
  parts of its buys, cash and reservations are the capital less what the fills
  moved, the position is what was bought less what was sold, and it is never
  negative. `CoveredFolds` is the converse: no history raises whose buys are each
  covered by the cash before them and of which no prefix is oversold.
- *The box.* `BoxReduces`: the result of `clamp_order` is within what was
  proposed, within the position of a sale, within the dollars of an order, and,
  unless it is nothing, within those left for the day.
- *The group* (`GroupInvariant`). `BookMatchesBroker` is not inductive: it speaks
  of ledgers, and the account is moved by fills that no ledger has seen.
  `AccountInv` ties the account, without what exit legs have made of it, to the
  broker's own views, `RowsInv` the views to
  the rows (a row is behind or agrees, a settled row is final), and the theorem on
  folds the rows to the ledgers. `CashIsReservedOnce` needs `AffordInv`: a later
  fill, cancel or poll of an earlier order never uncovers a buy that was covered
  when it was sent, unless the fill slipped, because what a row does not know of
  has cost at most its reservation (the last part of `RowInv`). `SaleInv` keeps
  the account from going short of what open sells and exit legs wait for. `PauseHasCause`
  rests on `CheckInv`: between the fetch of the positions and that of the account the
  two differ only by fills that no row records, yet or ever. `BooksMatchTheBroker`,
  `LedgersAlwaysAddUp`, `EachDollarOnce`, `PausesHaveACause`.

**SleeveOrdersProofs.** Any set of orders, any quantity, tries and crashes.
`BookCoversBroker` is not inductive: what a tick has fetched may be old. `RowInv`
adds how the row of an order that is not astray and the broker relate, `EngineInv`
what each program counter may rely on: the fetched count never exceeds the broker's,
a closed snapshot is final, a row being posted is not at the broker, the cancel loop
re-polls a closed order. `OrdersInvariant` holds with every fault, host and mode, and
with it `OnlyTheAstrayAreLost`; `SettledStaysSettled` follows from what the engine
is at work on (only rows that are not terminal). Under `Faultless` (none of the
three faults, and the sleeve is never LIVE) `NothingGoesAstray`, hence
`BooksAreSafe` and `OrderPathRefines`, the step simulation of `OrderBook`.

**ExitProofs.** For `ExitMachine`, `CountInv`: as long as an entry has not sold,
each of its counters is at most the run of readings that really happened, and an
entry that is not armed has counted no breach. That last part is why a disarm has
to clear the count. `ExitMachineInvariant`, `OneExitOnePeak`,
`PositionsExitOnce`, `ExitsAreConfirmed`, `DisarmsAreConfirmed`. Two action
properties need a bound from the other side. `BlindStopsFire`: under the stop the
ladder has counted at least the blind readings (`BlindInv`), the one that armed
it included. `ReopeningResets`: as long as every cycle saved, the entry knows
whether the position was flat when the last cycle read it.

For `ExitReplay`, any session, start time, blackout and table of distances. The
engine's side of each minute is a step of `ExitMachine` (`ReplayIsExitMachine`),
so the theorems about it hold of the live side. The replay's is a simulation:
lemmas per seam of `math_engine` show that two entries that agree on the ladders
go on agreeing, and `RInv` carries this through the day, with `FreshInv` for a
day that has not begun to count. `ReplayStandsWithEngine`,
`ReplayAgreesWithEngine`.

**EngineRunsProofs.** Any number of processes and symphonies and any time
bounds. The lock plays no part in the argument: it expires and is released by
whoever exits. What carries it is the run slot. While no engine has outlived its
daemon, at most one process is alive, its copy of the row knows whatever the row
knows (`CopyInv`), and each sale or post-mortem not accounted for is in the row
or in that copy (`Remembered`, `PostRemembered`). `EngineRunsInvariant`,
`OneRun`, `SalesAreAccounted`, `PostMortemOnce`, and `ExitsAreSaved`, which holds
of orphaned engines too.

**IncubationProofs.** Any finite number of candidates and runs, any calendar.
`CapInv` counts the incubating candidates *and* the runs between check and write,
against the cap plus one less than the number of runs: a check that succeeds
starts below the cap, a write moves one unit from one count to the other.
`CountInv` ties the failure count of a first incubation to the failed fetches
since admission; a re-entry keeps the old count, so no more is claimed for it.
`DaysInv` says that the days before the one being appended are recorded, whatever
night was skipped or cut short. `IncubationInvariant`, `CapHolds`,
`PatienceHolds`, `VerdictsSeeEveryDay`, `DecisionsStand`.

**SleeveControlProofs.** Any number of rules, requests and envelope limits. What
carries the argument is what each pending request may still do: an arm that has
passed its check is of a rule that still stands and that no disarm under way revokes,
and a disarm has left only rules in SHADOW among those it revokes and has handled
(`RaceInv`); a
tick knows every arming that stood since it began (`TickInv`); a delete that saw a flat sleeve keeps it flat until a
tick places an order (`FlatInv`); a pending envelope is no wider than what was
confirmed (`BoxInv`). `ControlInvariant`, `DisarmsUndoEndedArms`,
`KillSwitchHolds`, `DeletesAreFlat`, `BoxesAreConfirmed`.

**SleeveRulesProofs.** Any set of rules, number of actions and limits.
`OncePerEpisode` and `PacingIsHonest` are not inductive, because the keys are
written one at a time: `StoreInv` says which of them are those of the goal and
which still those the store set out from, `PhaseInv` what each step of the tick
may rely on, `LatchInv` that an episode with a dispatch is latched, `HonestInv`
what is true between ticks. `PacingInvariant`, `EpisodesFireOnce`,
`DaysAreLimited`, `RaisesLeaveNoTrace`.

**RetirementRunsProofs.** Any number of threads, runs, rows and restarts, any
page. `AnswerIsWhole` counts rows: what a run has written and what it still has
to write is what it found, so the row that closes a run states how many rows the
run has (`CountInv`); a run under way has a number that no closing row bears yet
(`RunsInv`), and the rows of a run are all of one job (`KindInv`). So a request,
which holds only runs that were closed when it read their closing row
(`AskedInv`), lists exactly the number that row states, or sees that the page is
too short. `RetirementInvariant`, `GuardsAreHeld`, `AnswersAreWhole`,
`CardsStandUntilReplaced`.

**How induction over data is done.** No installed prover can instantiate the
library's induction theorems, which take an operator. The first-order theorem that
every non-empty set has a minimal element under a well-founded order (`WFMin`,
with the orders on numbers and on finite subsets) does the same service: the
counterexamples to a claim form a set, and a least one is contradictory. Sums over
finite sets, the fold of a history and the newest of a set of rows are proved
about in this way.

**Only model-checked**: the liveness properties (`DisarmStopsOrders`,
`EveryOrderSettles`, `CyclesResume`, `OverclaimIsCaught`, `ExitsFire`,
`GuardsAreFreed`). They rest on fairness, hence on `ENABLED`, which is out of
TLAPS' reach here. Every other property of a passing run is stated by a theorem.

## 5. What the models leave out

- *Numbers*: floating-point returns, Monte Carlo, volatility, prices and
  notional are small integers, bands or inputs. Tolerances of reconciliation are
  zero. Incubation adds points where the code compounds returns.
- *Settlement at Composer*: a sale is one answer, and holdings change by
  themselves (`Move`).
- *Two symbols per sleeve*, which of its two exit legs a bracket fills and at what
  limit (a leg sells a share at any of the fill prices, or ends), a second trading
  day of turnover.
- *Database failures* inside a sleeve tick beyond the death of the process.
- *Moves between two cycles*: the engine samples once a minute, and two moves
  between samples are invisible to it.
- *An orphaned engine*: `EngineRuns` lets it happen and claims only
  `OneRunPerDaemon` and `SavedBeforeRelease` from then on, and `CyclesResume`.
- Reports, charts, wording, logs, and the advisors' language-model pipelines.
- *Replay*: the regime label is recomputed by the replay and cached by the
  engine, which is the freedom in the exit ticks here. A change of the execution
  mode during a day is left out.
- *Pacing*: the churn brake, which needs a day of closed round trips, and rules
  that fire outside market hours (`market_hours_only` false).
- *Retirement*: scores, evidence, explanations and their reuse, the reason of the
  last failure, the approve and reject upserts, the panel that lists without the
  review's rows, and a summary that cannot be read.

### Not modelled, and why

About a tenth of the implementation's lines are translated, and most of the rest
is not a state machine. By component:

- *Numerics* (`analytics.py`, `autotuner.py` outside the replay,
  `synthetic_history.py`, `regime_classifier.py`, `acceptance_gate.py`,
  `port_row.py`): floating-point statistics, bootstraps and optimiser trials over
  price series. They are functions of their inputs; a checker on small integers
  would say nothing of them.
- *Language-model and search pipelines* (`frontrunner_*`, `ai_advisor.py`,
  `strategy_builder_engine.py`, `asset_swap_engine.py`, `logic_change_engine.py`,
  `build_plan_generator.py`, the prism lenses): prompts, parsing and scoring, one
  call after the other; what they leave behind is an admission (`Incubation`) or
  a row that is listed.
- *Rendering and listing* (most of `app.py`, `reporting.py`, the dashboard): reads
  and formats what the modelled parts have written.
- *I/O clients and senses*: their outcomes are the environment's choices.
- *Small latches* (close totals, session revocation, alert marker, prism once a
  day, proposals, panic liquidation): monotonic upserts or linear scripts over
  Composer, each a module of a few lines that would restate its guard.

## 6. Plan

Done, in this order: order path with its refinement and proofs; exit machine;
engine runs; ledger, then the sleeve group on top of it; incubation; the control
routes and rule pacing with their proofs; the replay of the exits with its
refinement and proofs; the retirement jobs; sizing and the hard box in the group.

What would come next:

1. The churn brake in `SleeveRules`.
2. Panic liquidation against a running engine, on top of `EngineRuns`; the
   close-totals latch.
3. The prism scheduler, the regime job and the promotion of tuned parameters over
   restarts and the market calendar.
4. Theorems: the refinement of `OrderBook` for one host with faults that lose
   answers only; that the day's turnover stays within the box as long as one rule
   buys.
