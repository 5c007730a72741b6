--------------------------- MODULE RetirementRuns ---------------------------
(***************************************************************************)
(* The two jobs that recommend symphonies for retirement, the tenure       *)
(* review and the recommender (app.py, advisors/tenure_review.py): the     *)
(* 03:45 tick, the two buttons, the guards that let one run of each at a   *)
(* time, the rows they append to advisor_observations, and the request     *)
(* that lists the recommendations.                                         *)
(*                                                                         *)
(* What a run reads at Composer, its evidence and its explanations are     *)
(* left out: a run finds a number of recommendations, or fails.  So is the *)
(* reason of the last failed review, which is only shown.                  *)
(***************************************************************************)
EXTENDS Naturals, Sequences, FiniteSetsExt

CONSTANTS
    Threads,        \* background threads that may live at a time
    NoThread,
    Page,           \* _ADVISOR_OBSERVATIONS_PAGE_LIMIT
    OldRows,        \* rows from before the runs were stamped
    Sizes,          \* how many recommendations a run may find
    MaxThreads,     \* bound: threads that are built
    MaxRestarts     \* bound: restarts of the daemon

ASSUME NoThreadAssumption == NoThread \notin Threads
ASSUME BoundsAssumption ==
    /\ Page \in Nat \ {0} /\ Sizes \subseteq Nat /\ OldRows \in Nat /\ MaxThreads \in Nat
    /\ MaxRestarts \in Nat

VARIABLES
    recs,       \* RETIREMENT_RECOMMENDATION rows of both jobs, oldest first
    sums,       \* RETIREMENT_RUN_SUMMARY rows: one per run of the recommender
    reviews,    \* TENURE_REVIEW_RUN rows: one per review that completed
    slot,       \* REVIEW_RUN_STATE: the thread that owns the review slot
    lock,       \* _RETIREMENT_RUN_LOCK: the thread that holds it
    thread,     \* what each thread is doing
    tick,       \* the scheduler's 03:45 job: "none", "due" or "checked"
    clock,      \* the last session that closed, whether the market is open
    req,        \* a request for /api/retirement-recommendations
    count       \* runs, threads and restarts so far
vars == <<recs, sums, reviews, slot, lock, thread, tick, clock, req, count>>
tables == <<recs, sums, reviews>>

NoRun == 0
Off == [job |-> "none", pc |-> "off", run |-> NoRun, found |-> 0, left |-> 0, ok |-> TRUE,
        degraded |-> FALSE, asOf |-> 0]
NoRequest == [pc |-> "idle", cards |-> NoRun, review |-> NoRun, bad |-> FALSE]

\* A night of the scheduler.  The rows are those of earlier nights: some from
\* before the stamps, and perhaps the nightly review of the last session, as on
\* the nights of a weekend.
Init ==
    /\ recs = [i \in 1..OldRows |-> [run |-> NoRun, by |-> "none"]]
    /\ sums = <<>>
    /\ reviews \in {<<>>, <<[run |-> 1, nightly |-> TRUE, degraded |-> FALSE, asOf |-> 0, recs |-> 0]>>}
    /\ slot = NoThread /\ lock = NoThread
    /\ thread = [t \in Threads |-> Off] /\ tick = "due"
    /\ clock = [asOf |-> 0, open |-> FALSE]
    /\ req = NoRequest /\ count = [runs |-> Len(reviews), threads |-> 0, restarts |-> 0]

At(t, pc) == thread[t].pc = pc
Goes(t, pc) == thread' = [thread EXCEPT ![t].pc = pc]
Newest(indices) == Max({0} \cup indices)
RunAt(rows, i) == IF i = 0 THEN NoRun ELSE rows[i].run

-----------------------------------------------------------------------------
(* The run slot and the run lock. *)

\* try_start: the thread that is to run is the owner's token.
try_start(t) == slot = NoThread /\ slot' = t

\* Mutant: whoever ends frees the slot.
Freed_ByAnyone(t) == NoThread
\* finish_success, finish_failure and release: only the owner frees the slot.
Freed(t) == IF slot = t THEN NoThread ELSE slot

\* Threads that are off are alike: the next one built is any of them.
Spawn(t, job) ==
    /\ At(t, "off") /\ t = CHOOSE u \in Threads : At(u, "off")
    /\ count.threads < MaxThreads
    /\ thread' = [thread EXCEPT ![t] = [Off EXCEPT !.job = job, !.pc = "starting"]]
    /\ count' = [count EXCEPT !.threads = @ + 1]

\* The newest nightly review is not degraded and covers the last session.
NightlyDone ==
    LET i == Newest({j \in DOMAIN reviews : reviews[j].nightly})
    IN i # 0 /\ ~reviews[i].degraded /\ reviews[i].asOf = clock.asOf

TickChecks ==
    /\ tick = "due" /\ tick' = IF NightlyDone THEN "none" ELSE "checked"
    /\ UNCHANGED <<tables, slot, lock, thread, clock, req, count>>

\* The slot is claimed before the thread is built; a busy one ends the tick.
TickClaims(t) ==
    /\ tick = "checked" /\ try_start(t) /\ Spawn(t, "nightly")
    /\ tick' = "none"
    /\ UNCHANGED <<tables, lock, clock, req>>
TickSkips ==
    /\ tick = "checked" /\ slot # NoThread /\ tick' = "none"
    /\ UNCHANGED <<tables, slot, lock, thread, clock, req, count>>

ReviewNow(t) ==
    /\ ~clock.open /\ try_start(t) /\ Spawn(t, "review")
    /\ UNCHANGED <<tables, lock, tick, clock, req>>

RunNow(t) ==
    /\ ~clock.open /\ lock = NoThread /\ lock' = t /\ Spawn(t, "recommender")
    /\ UNCHANGED <<tables, slot, tick, clock, req>>

\* Only the check of the next night reads what day a review covers and whether
\* it was degraded, and it reads them of a nightly one.
Nightly(t) == thread[t].job = "nightly"

\* A thread that cannot be started gives back what was taken for it.
SpawnFails(t) ==
    /\ At(t, "starting") /\ thread' = [thread EXCEPT ![t] = Off]
    /\ slot' = Freed(t) /\ lock' = IF lock = t THEN NoThread ELSE lock
    /\ UNCHANGED <<tables, tick, clock, req, count>>
Started(t) ==
    /\ At(t, "starting")
    /\ thread' = [thread EXCEPT ![t].asOf = IF Nightly(t) THEN clock.asOf ELSE 0, ![t].pc =
                        IF thread[t].job = "recommender" THEN "build" ELSE "review"]
    /\ UNCHANGED <<tables, slot, lock, tick, clock, req, count>>

-----------------------------------------------------------------------------
(* The tenure review: recommendations first, then the row of the run. *)

NextRun == count.runs + 1
CountRun == count' = [count EXCEPT !.runs = NextRun]

\* The review completed; a read that failed on the way marks it degraded.
ReviewFinds(t) ==
    /\ At(t, "review") /\ CountRun
    /\ \E n \in Sizes, d \in BOOLEAN :
        /\ d => Nightly(t)
        /\ thread' = [thread EXCEPT ![t] = [@ EXCEPT !.pc = "rows", !.run = NextRun, !.found = n,
                                                     !.left = n, !.degraded = d]]
    /\ UNCHANGED <<tables, slot, lock, tick, clock, req>>

\* It did not complete, or an exception ended it before its row was written:
\* finish_failure.  Rows already written stay.
ReviewFails(t) ==
    /\ thread[t].job # "recommender" /\ thread[t].pc \in {"review", "rows"}
    /\ slot' = Freed(t) /\ Goes(t, "released")
    /\ UNCHANGED <<tables, lock, tick, clock, req, count>>

\* Mutant: a run is concluded while its rows are still being written.
Written_Early(t) == TRUE
Written(t) == thread[t].left = 0
Row(t, by) == [run |-> thread[t].run, by |-> by]

\* insert_advisor_observation: one row a transaction.
WriteRec(t, by) ==
    /\ thread[t].left > 0
    /\ recs' = Append(recs, Row(t, by))
    /\ thread' = [thread EXCEPT ![t].left = @ - 1]
    /\ UNCHANGED <<sums, reviews, slot, lock, tick, clock, req, count>>
ReviewWritesRec(t) == At(t, "rows") /\ WriteRec(t, "review")

\* The row of the run, and finish_success.
ReviewEnds(t) ==
    /\ At(t, "rows") /\ Written(t)
    /\ reviews' = Append(reviews, [run |-> thread[t].run, nightly |-> Nightly(t),
            degraded |-> thread[t].degraded, asOf |-> thread[t].asOf, recs |-> thread[t].found])
    /\ slot' = Freed(t) /\ Goes(t, "released")
    /\ UNCHANGED <<recs, sums, lock, tick, clock, req, count>>

\* The finally of the job releases once more.  The nightly thread goes on with
\* the recommender, unless a run of it is in flight.
ReviewReturns(t) ==
    /\ At(t, "released") /\ slot' = Freed(t)
    /\ IF Nightly(t) /\ lock = NoThread
       THEN /\ lock' = t
            /\ thread' = [thread EXCEPT ![t] = [Off EXCEPT !.job = "recommender", !.pc = "build"]]
       ELSE thread' = [thread EXCEPT ![t] = Off] /\ UNCHANGED lock
    /\ UNCHANGED <<tables, tick, clock, req, count>>

-----------------------------------------------------------------------------
(* The recommender: recommendations first, then the summary of the run. *)

\* A build that fails, or that sees too few symphonies or no series, finds
\* nothing and is not ok.
Build(t) ==
    /\ At(t, "build") /\ CountRun
    /\ \E n \in Sizes, ok \in BOOLEAN :
        /\ ~ok => n = 0
        /\ thread' = [thread EXCEPT ![t] = [@ EXCEPT !.pc = "cards", !.run = NextRun,
                                                     !.found = n, !.left = n, !.ok = ok]]
    /\ UNCHANGED <<tables, slot, lock, tick, clock, req>>
BuildWritesRec(t) == At(t, "cards") /\ WriteRec(t, "recommender")

\* A row that cannot be written ends the run: its summary is an internal error
\* and counts no row.
PersistFails(t) ==
    /\ At(t, "cards") /\ thread[t].left > 0
    /\ thread' = [thread EXCEPT ![t].pc = "summary", ![t].found = 0, ![t].ok = FALSE]
    /\ UNCHANGED <<tables, slot, lock, tick, clock, req, count>>

\* One summary a run; a failure to write it is swallowed.
Summarise(t) ==
    /\ At(t, "summary") \/ (At(t, "cards") /\ Written(t))
    /\ Goes(t, "unlock")
    /\ \/ sums' = Append(sums, [run |-> thread[t].run, ok |-> thread[t].ok,
                                recs |-> thread[t].found])
       \/ UNCHANGED sums
    /\ UNCHANGED <<recs, reviews, slot, lock, tick, clock, req, count>>
\* Mutant: a run that failed keeps the lock.
Unlocked_OnlyIfOk(t) == IF thread[t].ok THEN NoThread ELSE lock
Unlocked(t) == NoThread
Unlock(t) ==
    /\ At(t, "unlock") /\ thread' = [thread EXCEPT ![t] = Off] /\ lock' = Unlocked(t)
    /\ UNCHANGED <<tables, slot, tick, clock, req, count>>

-----------------------------------------------------------------------------
(* The request: the newest ok summary, the newest review, and then the     *)
(* recommendations of those two runs.                                      *)

\* Mutant: the cards follow the newest run, whatever became of it.
NewestOk_AnyStatus == Newest(DOMAIN sums)
NewestOk == Newest({i \in DOMAIN sums : sums[i].ok})

\* The newest summary of all gives the cards' run if it is ok; if not, a second
\* read looks for the newest that is.
ReadCards ==
    /\ req.pc = "idle"
    /\ req' = [NoRequest EXCEPT !.pc = "review", !.cards = RunAt(sums, NewestOk)]
    /\ UNCHANGED <<tables, slot, lock, thread, tick, clock, count>>
\* A review that cannot be read is not taken for none.
ReadReview ==
    /\ req.pc = "review"
    /\ \E read \in BOOLEAN :
        req' = [req EXCEPT !.pc = "rows", !.bad = ~read,
                           !.review = IF read THEN RunAt(reviews, Newest(DOMAIN reviews)) ELSE NoRun]
    /\ UNCHANGED <<tables, slot, lock, thread, tick, clock, count>>

\* The rows of the page that belong to the two runs.  With neither, and no
\* review that could not be read, the rows of the newest day that no review
\* wrote: those of this night, or the old ones.
Paged == {i \in DOMAIN recs : i > Len(recs) - Page}
Unstamped(i) == recs[i].by # "review"
NewestDay(i) == recs[i].by = "recommender" \/ \A j \in Paged : recs[j].by # "recommender"
Listed(cards, review, bad) ==
    IF {cards, review} # {NoRun}
    THEN {i \in Paged : recs[i].run \in {cards, review} \ {NoRun}}
    ELSE {i \in Paged : ~bad /\ Unstamped(i) /\ NewestDay(i)}
ReadRows ==
    /\ req.pc = "rows" /\ req' = NoRequest
    /\ UNCHANGED <<tables, slot, lock, thread, tick, clock, count>>

-----------------------------------------------------------------------------
(* The daemon and the clock. *)

\* A stop waits for no thread: the guards go with the process, the rows stay.
\* One that interrupts no run is left out: only a request would go with it.
Restart ==
    /\ \E t \in Threads : ~At(t, "off")
    /\ count.restarts < MaxRestarts /\ count' = [count EXCEPT !.restarts = @ + 1]
    /\ slot' = NoThread /\ lock' = NoThread /\ thread' = [t \in Threads |-> Off]
    /\ tick' = "none" /\ req' = NoRequest
    /\ UNCHANGED <<tables, clock>>

Opens ==
    /\ ~clock.open /\ clock.asOf = 0 /\ tick = "none"
    /\ clock' = [clock EXCEPT !.open = TRUE]
    /\ UNCHANGED <<tables, slot, lock, thread, tick, req, count>>
Closes ==
    /\ clock.open /\ clock' = [open |-> FALSE, asOf |-> 1]
    /\ UNCHANGED <<tables, slot, lock, thread, tick, req, count>>

Runs(t) ==
    \/ SpawnFails(t) \/ Started(t)
    \/ ReviewFinds(t) \/ ReviewFails(t) \/ ReviewWritesRec(t) \/ ReviewEnds(t) \/ ReviewReturns(t)
    \/ Build(t) \/ BuildWritesRec(t) \/ PersistFails(t) \/ Summarise(t) \/ Unlock(t)
Next ==
    \/ TickChecks \/ TickSkips
    \/ \E t \in Threads : TickClaims(t) \/ ReviewNow(t) \/ RunNow(t) \/ Runs(t)
    \/ ReadCards \/ ReadReview \/ ReadRows
    \/ Restart \/ Opens \/ Closes

\* Every wait of a run is bounded (the reads and the explainer have timeouts),
\* so a thread that lives takes its next step.
Fairness == \A t \in Threads : WF_vars(Runs(t))
Spec == Init /\ [][Next]_vars /\ Fairness

-----------------------------------------------------------------------------
(* Properties. *)

\* One review and one run of the recommender at a time, and each holds its
\* guard until it ends: no late release of an earlier job, no tick and no
\* request between two releases takes it away.
Reviewing(t) == Nightly(t) \/ thread[t].job = "review"
Recommending(t) == thread[t].job = "recommender"
GuardsHold == \A t \in Threads :
    /\ Reviewing(t) /\ ~At(t, "released") => slot = t
    /\ Recommending(t) => lock = t

\* An answer lists all a run of either job says it recommends, or none of it:
\* no row of a review that did not complete, no row of a failed run beside a
\* run that completed, and no run in part, unless it has left the page.
RowsOf(run) == {i \in DOMAIN recs : recs[i].run = run}
Ended == {sums[i] : i \in {j \in DOMAIN sums : sums[j].ok}}
Reviewed == {reviews[i] : i \in DOMAIN reviews}
RunsOf(rows) == {row.run : row \in rows}
Whole(shown, run, rows) ==
    \A row \in rows : row.run = run /\ RowsOf(run) \subseteq Paged =>
        Cardinality(shown \cap RowsOf(run)) = row.recs
AnswerIsWhole ==
    [][req.pc = "rows" /\ count' = count /\ req'.pc = "idle" =>
        LET shown == Listed(req.cards, req.review, req.bad)
        IN  /\ \A i \in shown :
                \/ recs[i].by = "review" /\ recs[i].run \in RunsOf(Reviewed)
                \/ recs[i].by = "recommender" /\ recs[i].run \in RunsOf(Ended)
                \/ Unstamped(i) /\ {req.cards, req.review} = {NoRun}
            /\ req.cards # NoRun => Whole(shown, req.cards, Ended)
            /\ req.review # NoRun => Whole(shown, req.review, Reviewed)]_req

\* Once a run has completed, only another that completes changes what is
\* listed: no failed night, no restart and no half-written run takes a card
\* away or adds one, until the page no longer reaches the rows.
Cards == RunAt(sums, NewestOk)
Review == RunAt(reviews, Newest(DOMAIN reviews))
Shown == {recs[i].run : i \in Listed(Cards, Review, FALSE)}
Reached == RowsOf(Cards) \cup RowsOf(Review) \subseteq Paged
CardsStand ==
    [][Ended \cup Reviewed # {} /\ Ended' = Ended /\ Reviewed' = Reviewed /\ Reached'
        => Shown' = Shown]_tables

\* Whatever fails, each guard is given back.
GuardsAreFreed == []<>(slot = NoThread) /\ []<>(lock = NoThread)

-----------------------------------------------------------------------------
\* The inductive strengthening of the safety properties.
Jobs == {"none", "nightly", "review", "recommender"}
Thread == [job : Jobs, run : Nat, found : Nat, left : Nat, ok : BOOLEAN, degraded : BOOLEAN,
           asOf : Nat, pc : {"off", "starting", "review", "rows", "released",
                             "build", "cards", "summary", "unlock"}]
TypeOK ==
    /\ recs \in Seq([run : Nat, by : {"none", "review", "recommender"}])
    /\ sums \in Seq([run : Nat, ok : BOOLEAN, recs : Nat])
    /\ reviews \in Seq([run : Nat, nightly : BOOLEAN, degraded : BOOLEAN, asOf : Nat, recs : Nat])
    /\ {slot, lock} \subseteq Threads \cup {NoThread}
    /\ thread \in [Threads -> Thread]
    /\ tick \in {"none", "due", "checked"}
    /\ clock \in [asOf : Nat, open : BOOLEAN]
    /\ req \in [pc : {"idle", "review", "rows"}, cards : Nat, review : Nat, bad : BOOLEAN]
    /\ count \in [runs : Nat, threads : Nat, restarts : Nat]

\* A thread works at its own job, with its guard.
JobsInv == \A t \in Threads :
    /\ At(t, "off") <=> thread[t].job = "none"
    /\ thread[t].pc \in {"build", "cards", "summary", "unlock"} => Recommending(t)

\* A run that is under way has a number of its own.
Concluding(t) == thread[t].pc \in {"rows", "cards", "summary"}
Summed == {sums[i] : i \in DOMAIN sums}
RunsInv ==
    /\ \A i \in DOMAIN recs : recs[i].run <= count.runs
    /\ \A run \in RunsOf(Summed) \cup RunsOf(Reviewed) : run \in 1..count.runs
    /\ \A t \in Threads : Concluding(t) =>
            thread[t].run \in (1..count.runs) \ (RunsOf(Summed) \cup RunsOf(Reviewed))
    /\ \A t, u \in Threads :
            t # u /\ Concluding(t) /\ Concluding(u) => thread[t].run # thread[u].run

\* The rows of a run are of its job.
KindInv == \A i \in DOMAIN recs :
    /\ recs[i].by = "none" => recs[i].run = NoRun
    /\ recs[i].by = "review" =>
        /\ recs[i].run \notin RunsOf(Summed)
        /\ \A t \in Threads : thread[t].pc \in {"cards", "summary"} => thread[t].run # recs[i].run
    /\ recs[i].by = "recommender" =>
        /\ recs[i].run \notin RunsOf(Reviewed)
        /\ \A t \in Threads : At(t, "rows") => thread[t].run # recs[i].run

\* What a run has written, and still has to write, is what it found.
CountInv ==
    /\ \A t \in Threads : thread[t].pc \in {"rows", "cards"} =>
            Cardinality(RowsOf(thread[t].run)) + thread[t].left = thread[t].found
    /\ \A t \in Threads : At(t, "summary") => ~thread[t].ok
    /\ \A row \in Ended \cup Reviewed : Cardinality(RowsOf(row.run)) = row.recs

\* The request holds runs that completed.
AskedInv ==
    /\ req.pc # "idle" /\ req.cards # NoRun => req.cards \in RunsOf(Ended)
    /\ req.pc = "rows" /\ req.review # NoRun => req.review \in RunsOf(Reviewed)
IInv == TypeOK /\ JobsInv /\ GuardsHold /\ RunsInv /\ KindInv /\ CountInv /\ AskedInv
=============================================================================
