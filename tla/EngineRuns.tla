----------------------------- MODULE EngineRuns -----------------------------
(***************************************************************************)
(* The runs of the engine: the daemon's scheduler and its single run slot  *)
(* (app.py), the engine processes it spawns, their one-row database lock   *)
(* and the read-modify-write each makes of the bot_state row (database.py, *)
(* alpha_bot_execution.main), the flush-resync job of the daemon that      *)
(* writes the same row without the lock, and what may go wrong: a run that *)
(* hangs, raises, is ended by the daemon, loses the reply to a sell order, *)
(* dies with the host, or outlives its daemon (restart.ps1 stops app.py    *)
(* and never the engine it spawned).                                       *)
(*                                                                         *)
(* Of bot_state only the triggered flags and the post-mortem flag are kept. *)
(* Time is coarse: Tick ages the lock and the runs, which the code compares *)
(* with 60 s (lock expiry) and 600 s (the session bound) only.             *)
(***************************************************************************)
EXTENDS Naturals

CONSTANTS
    Procs,          \* engine processes
    Symphonies,
    None,
    STALE_AFTER,    \* ticks after which acquire_lock takes a held lock
    SESSION_BOUND,  \* ticks after which the daemon ends a run
    Faults,         \* what may go wrong: subset of Fault
    MaxFaults,      \* bound: faults and flushes in a behaviour
    MaxCount        \* bound: sells of one symphony and post-mortems

Fault == {"hang", "raise", "unanswered", "crash", "orphan", "flush"}

ASSUME NoneAssumption == None \notin Procs
ASSUME TimeAssumption == STALE_AFTER \in Nat \ {0} /\ SESSION_BOUND \in Nat \ {0}
ASSUME FaultAssumption == Faults \subseteq Fault /\ MaxFaults \in Nat /\ MaxCount \in Nat

VARIABLES
    daemon,     \* the daemon: down, repairing the snapshot chain, or up
    slot,       \* _engine_run: the process of the run in flight, or None
    run,        \* the engine processes
    lock,       \* execution_lock
    db,         \* the bot_state row
    flush,      \* the flush-resync job: idle, or holding the copy it loaded
    window,     \* the wall clock: trading session, or the post-mortem window
    faults,     \* faults so far
    h           \* history: what happened to each sale and post-mortem
vars == <<daemon, slot, run, lock, db, flush, window, faults, h>>

Window == {"session", "close"}
State == [triggered : [Symphonies -> BOOLEAN], post_mortem_run : BOOLEAN]
PC == {"off", "starting", "free", "locked", "loaded", "queue", "sleeves", "saved"}
Run == [pc : PC, age : 0..SESSION_BOUND, hung : BOOLEAN, ours : BOOLEAN,
        window : Window, mem : State]
History == [sold : [Symphonies -> 0..MaxCount], forgotten : [Symphonies -> Nat],
            posts : 0..MaxCount, rolled : Nat, orphaned : BOOLEAN]

Fresh == [triggered |-> [s \in Symphonies |-> FALSE], post_mortem_run |-> FALSE]
Off == [pc |-> "off", age |-> 0, hung |-> FALSE, ours |-> FALSE,
        window |-> "session", mem |-> Fresh]

Init ==
    /\ daemon = "down" /\ slot = None /\ run = [p \in Procs |-> Off]
    /\ lock = [is_locked |-> FALSE, age |-> 0]
    /\ db = Fresh /\ flush = [busy |-> FALSE, copy |-> Fresh]
    /\ window = "session" /\ faults = 0
    /\ h = [sold |-> [s \in Symphonies |-> 0], forgotten |-> [s \in Symphonies |-> 0],
            posts |-> 0, rolled |-> 0, orphaned |-> FALSE]

\* p is alive and takes its next step from pc.
At(p, pc) == run[p].pc = pc /\ ~run[p].hung
GoesTo(p, pc) == run' = [run EXCEPT ![p].pc = pc]
Exits(p) == run' = [run EXCEPT ![p] = Off]
\* The process holds a copy of bot_state it has read.
HasState(p) == run[p].pc \in {"loaded", "queue", "sleeves", "saved"}

Occurs(f) == f \in Faults /\ faults < MaxFaults /\ faults' = faults + 1

\* History: the sales that only the dying processes knew of.
Unsaved(dying, s) == \E p \in dying :
    HasState(p) /\ run[p].mem.triggered[s] /\ ~db.triggered[s]
Forget(dying) ==
    h' = [h EXCEPT !.forgotten =
            [s \in Symphonies |-> IF Unsaved(dying, s) THEN @[s] + 1 ELSE @[s]]]

-----------------------------------------------------------------------------
(* database.acquire_lock and release_lock *)

\* Mutant: a held lock never expires.
LockIsBusy_NoExpiry == lock.is_locked
LockIsBusy == lock.is_locked /\ lock.age < STALE_AFTER
Locked == [is_locked |-> TRUE, age |-> 0]
Released == [lock EXCEPT !.is_locked = FALSE]

-----------------------------------------------------------------------------
(* The daemon: app.py *)

\* __main__: the singleton pidfile, then the repair of the snapshot chain.
StartDaemon ==
    /\ daemon = "down" /\ daemon' = "starting"
    /\ UNCHANGED <<slot, run, lock, db, flush, window, faults, h>>

\* repair_close_snapshot_chain waits for the lock, rewrites the row within one
\* immediate transaction (none of the fields kept here) and releases the lock.
RepairLocks ==
    /\ daemon = "starting" /\ ~LockIsBusy
    /\ daemon' = "repairing" /\ lock' = Locked
    /\ UNCHANGED <<slot, run, db, flush, window, faults, h>>
RepairEnds ==
    /\ daemon = "repairing" /\ daemon' = "up" /\ lock' = Released
    /\ UNCHANGED <<slot, run, db, flush, window, faults, h>>
RepairGivesUp ==
    /\ daemon = "starting" /\ LockIsBusy /\ daemon' = "up"
    /\ UNCHANGED <<slot, run, lock, db, flush, window, faults, h>>

\* threaded_trigger: the minute's spawn, skipped while a run holds the slot.
threaded_trigger(p) ==
    /\ daemon = "up" /\ slot = None /\ run[p].pc = "off"
    /\ slot' = p
    /\ run' = [run EXCEPT ![p] = [Off EXCEPT !.pc = "starting", !.ours = TRUE,
                                             !.window = window]]
    /\ UNCHANGED <<daemon, lock, db, flush, window, faults, h>>

\* Mutant: the slot is freed while the process is still being ended.
EndRun_Early == slot # None /\ run[slot].age = SESSION_BOUND

\* _end_engine_run: the run's thread frees the slot once its process is gone.
EndRun == slot # None /\ run[slot].pc = "off"
end_engine_run ==
    /\ EndRun
    /\ slot' = None
    /\ UNCHANGED <<daemon, run, lock, db, flush, window, faults, h>>

\* _end_engine_process: terminate, then kill.  A terminated process runs no
\* finally clause, so the lock stays taken.
end_engine_process ==
    /\ slot # None /\ run[slot].pc # "off" /\ run[slot].age = SESSION_BOUND
    /\ Exits(slot) /\ Forget({slot})
    /\ UNCHANGED <<daemon, slot, lock, db, flush, window, faults>>

-----------------------------------------------------------------------------
(* The engine process: alpha_bot_execution.main *)

\* acquire_lock, its SELECT: a busy lock ends the run ("Overlap Detected").
LockSelect(p) ==
    /\ At(p, "starting")
    /\ IF LockIsBusy THEN Exits(p) ELSE GoesTo(p, "free")
    /\ UNCHANGED <<daemon, slot, lock, db, flush, window, faults, h>>

\* acquire_lock, its UPDATE: a statement of its own, that checks nothing.
LockUpdate(p) ==
    /\ At(p, "free")
    /\ lock' = Locked /\ GoesTo(p, "locked")
    /\ UNCHANGED <<daemon, slot, db, flush, window, faults, h>>

load_state(p) ==
    /\ At(p, "locked")
    /\ run' = [run EXCEPT ![p].pc = "loaded", ![p].mem = db]
    /\ UNCHANGED <<daemon, slot, lock, db, flush, window, faults, h>>

\* Mutant: a return from within the action phase.
ReturnEarly_FromQueue(p) ==
    /\ (At(p, "loaded") \/ At(p, "queue")) /\ GoesTo(p, "saved")
    /\ UNCHANGED <<daemon, slot, lock, db, flush, window, faults, h>>

\* The returns before the action phase that save nothing: the rebalance
\* blackout, no price history, the post-mortem already run.
ReturnEarly(p) ==
    /\ At(p, "loaded") /\ GoesTo(p, "saved")
    /\ UNCHANGED <<daemon, slot, lock, db, flush, window, faults, h>>

\* The closed-market and pre-gate returns save the copy they loaded.
SaveAndReturn(p) ==
    /\ At(p, "loaded") /\ GoesTo(p, "saved")
    /\ db' = run[p].mem
    /\ UNCHANGED <<daemon, slot, lock, flush, window, faults, h>>

\* Mutant: the post-mortem flag is only saved with the rest of the run.
PostMortem_SavesLate(p) ==
    /\ At(p, "loaded") /\ run[p].window = "close" /\ ~run[p].mem.post_mortem_run
    /\ h.posts < MaxCount /\ h' = [h EXCEPT !.posts = @ + 1]
    /\ run' = [run EXCEPT ![p].mem.post_mortem_run = TRUE, ![p].pc = "sleeves"]
    /\ UNCHANGED <<daemon, slot, lock, db, flush, window, faults>>

\* The end-of-day branch: the flag is saved, then the snapshot, the report and
\* the autotune run, and main returns.
PostMortem(p) ==
    /\ At(p, "loaded") /\ run[p].window = "close" /\ ~run[p].mem.post_mortem_run
    /\ h.posts < MaxCount /\ h' = [h EXCEPT !.posts = @ + 1]
    /\ db' = [run[p].mem EXCEPT !.post_mortem_run = TRUE]
    /\ run' = [run EXCEPT ![p].mem.post_mortem_run = TRUE, ![p].pc = "saved"]
    /\ UNCHANGED <<daemon, slot, lock, flush, window, faults>>

BeginQueue(p) ==
    /\ At(p, "loaded") /\ run[p].window = "session" /\ GoesTo(p, "queue")
    /\ UNCHANGED <<daemon, slot, lock, db, flush, window, faults, h>>

\* execute_sell_to_cash answers True: the copy in memory records the exit.
Sell(p, s) ==
    /\ At(p, "queue") /\ ~run[p].mem.triggered[s]
    /\ h.sold[s] < MaxCount /\ h' = [h EXCEPT !.sold[s] = @ + 1]
    /\ run' = [run EXCEPT ![p].mem.triggered[s] = TRUE]
    /\ UNCHANGED <<daemon, slot, lock, db, flush, window, faults>>

\* Composer takes the order and the reply is lost: execute_sell_to_cash sends
\* it again, or answers False and no state is updated.
SellUnanswered(p, s) ==
    /\ Occurs("unanswered")
    /\ At(p, "queue") /\ ~run[p].mem.triggered[s]
    /\ h.sold[s] < MaxCount
    /\ h' = [h EXCEPT !.sold[s] = @ + 1, !.forgotten[s] = @ + 1]
    /\ UNCHANGED <<daemon, slot, run, lock, db, flush, window>>

\* The queue is done; the fleet alert and the sleeve tick follow.
BeginSleeves(p) ==
    /\ At(p, "queue") /\ GoesTo(p, "sleeves")
    /\ UNCHANGED <<daemon, slot, lock, db, flush, window, faults, h>>

\* Mutant: the final save is forgotten.
save_state_Skipped(p) ==
    /\ At(p, "sleeves") /\ GoesTo(p, "saved")
    /\ UNCHANGED <<daemon, slot, lock, db, flush, window, faults, h>>

\* database.save_state: the whole copy replaces the row.
save_state(p) ==
    /\ At(p, "sleeves") /\ GoesTo(p, "saved")
    /\ db' = run[p].mem
    /\ UNCHANGED <<daemon, slot, lock, flush, window, faults, h>>

\* The finally clause: release_lock asks nobody whose lock it is.
Release(p) ==
    /\ At(p, "saved") /\ lock' = Released /\ Exits(p)
    /\ UNCHANGED <<daemon, slot, db, flush, window, faults, h>>

-----------------------------------------------------------------------------
(* What goes wrong *)

\* An exception outside the containing clauses (a Discord alert in the queue,
\* a save_state that fails): the finally clause releases, nothing is saved.
Raise(p) ==
    /\ Occurs("raise")
    /\ HasState(p) /\ run[p].pc # "saved" /\ ~run[p].hung
    /\ lock' = Released /\ Exits(p) /\ Forget({p})
    /\ UNCHANGED <<daemon, slot, db, flush, window>>

\* The process stops in a call that does not return in time: a Retry-After
\* sleep, a socket, a database wait.
Hang(p) ==
    /\ Occurs("hang")
    /\ run[p].pc # "off" /\ ~run[p].hung
    /\ run' = [run EXCEPT ![p].hung = TRUE]
    /\ UNCHANGED <<daemon, slot, lock, db, flush, window, h>>

NotBusy == [busy |-> FALSE, copy |-> Fresh]

\* The host or the service's control group dies: the daemon and every engine.
Crash ==
    /\ Occurs("crash")
    /\ daemon' = "down" /\ slot' = None /\ flush' = NotBusy
    /\ run' = [p \in Procs |-> Off] /\ Forget(Procs)
    /\ UNCHANGED <<lock, db, window>>

\* restart.ps1: the daemon is stopped, the engine it spawned goes on.
StopDaemon ==
    /\ Occurs("orphan") /\ daemon # "down"
    /\ daemon' = "down" /\ slot' = None /\ flush' = NotBusy
    /\ run' = [p \in Procs |-> [run[p] EXCEPT !.ours = FALSE]]
    /\ h' = [h EXCEPT !.orphaned = @ \/ \E p \in Procs : run[p].pc # "off"]
    /\ UNCHANGED <<lock, db, window>>

\* flush_resync's background job: load, strip every symphony entry, save.
FlushLoad ==
    /\ Occurs("flush") /\ daemon = "up" /\ ~flush.busy
    /\ flush' = [busy |-> TRUE, copy |-> db]
    /\ UNCHANGED <<daemon, slot, run, lock, db, window, h>>
FlushSave ==
    /\ flush.busy /\ flush' = NotBusy
    /\ db' = [flush.copy EXCEPT !.triggered = [s \in Symphonies |-> FALSE]]
    /\ h' = [h EXCEPT
            !.forgotten = [s \in Symphonies |-> IF db.triggered[s] THEN @[s] + 1 ELSE @[s]],
            !.rolled = IF db.post_mortem_run /\ ~flush.copy.post_mortem_run
                       THEN @ + 1 ELSE @]
    /\ UNCHANGED <<daemon, slot, run, lock, window, faults>>

\* A minute or so passes.  A process that reaches the session bound is a hung
\* one: Hang stands for every wait that lasts that long, Retry-After included.
Older(a, cap) == IF a < cap THEN a + 1 ELSE a
Tick ==
    /\ \A p \in Procs : run[p].pc # "off" /\ run[p].age + 1 = SESSION_BOUND => run[p].hung
    /\ lock' = [lock EXCEPT !.age = Older(@, STALE_AFTER)]
    /\ run' = [p \in Procs |-> IF run[p].pc = "off" THEN run[p]
                               ELSE [run[p] EXCEPT !.age = Older(@, SESSION_BOUND)]]
    /\ UNCHANGED <<daemon, slot, db, flush, window, faults, h>>
CloseMarket ==
    /\ window = "session" /\ window' = "close"
    /\ UNCHANGED <<daemon, slot, run, lock, db, flush, faults, h>>

-----------------------------------------------------------------------------
Engine(p) ==
    \/ LockSelect(p) \/ LockUpdate(p) \/ load_state(p)
    \/ ReturnEarly(p) \/ SaveAndReturn(p) \/ PostMortem(p)
    \/ BeginQueue(p) \/ (\E s \in Symphonies : Sell(p, s))
    \/ BeginSleeves(p) \/ save_state(p) \/ Release(p)
Daemon ==
    \/ StartDaemon \/ RepairLocks \/ RepairEnds \/ RepairGivesUp
    \/ (\E p \in Procs : threaded_trigger(p))
    \/ end_engine_run \/ end_engine_process
Trouble ==
    \/ \E p \in Procs : Raise(p) \/ Hang(p) \/ \E s \in Symphonies : SellUnanswered(p, s)
    \/ Crash \/ StopDaemon
Next ==
    \/ (\E p \in Procs : Engine(p)) \/ Daemon \/ Trouble
    \/ FlushLoad \/ FlushSave \/ Tick \/ CloseMarket

Spec == Init /\ [][Next]_vars

\* The scheduler's loop and the run's thread are always scheduled, the clock
\* runs, and a process that does not hang goes on.
Fairness ==
    /\ WF_vars(Daemon) /\ WF_vars(Tick)
    /\ \A p \in Procs : WF_vars(Engine(p))
FairSpec == Spec /\ Fairness

-----------------------------------------------------------------------------
TypeOK ==
    /\ daemon \in {"down", "starting", "repairing", "up"}
    /\ slot \in Procs \cup {None}
    /\ run \in [Procs -> Run]
    /\ lock \in [is_locked : BOOLEAN, age : 0..STALE_AFTER]
    /\ db \in State
    /\ flush \in [busy : BOOLEAN, copy : State]
    /\ window \in Window /\ faults \in 0..MaxFaults
    /\ h \in History

\* A replacement never starts beside a live engine (_end_engine_process): of
\* the engines a daemon has spawned, at most one is alive, the one in the slot.
OneRunPerDaemon == \A p \in Procs : run[p].ours => slot = p

\* While no engine outlives its daemon, a symphony is sold again only after its
\* sale was forgotten: each sale beyond the first answers one run that ended
\* between the sell and save_state, one reply lost, or one flush.
SoldIsAccounted ==
    ~h.orphaned => \A s \in Symphonies : h.sold[s] <= h.forgotten[s] + 1

\* While no engine outlives its daemon, the post-mortem of a day runs once,
\* and once more for each flush that wrote back a copy older than the flag.
PostMortemAccounted == ~h.orphaned => h.posts <= h.rolled + 1

\* A run that has sold saves what it sold, or is ended by its daemon, by the
\* host or by an exception: no return of main drops an exit it recorded.
ExitSurvives(p, s) ==
    run[p].pc \in {"queue", "sleeves"} /\ run[p].mem.triggered[s] /\ run'[p].pc = "saved"
        => db'.triggered[s]
SavedBeforeRelease == [][\A p \in Procs, s \in Symphonies : ExitSurvives(p, s)]_vars

\* Whatever dies, hangs or leaves the lock taken, the cycles go on: again and
\* again a run of the daemon gets the lock and loads the state (the bound on
\* a run and the expiry of the lock are there for this).
CyclesResume == []<>(\E p \in Procs : run[p].ours /\ run[p].pc = "loaded")

-----------------------------------------------------------------------------
(* The inductive invariant. *)

\* Only a run of the daemon is alive, and what the row remembers, it remembers.
CopyInv == \A p \in Procs : HasState(p) =>
    /\ \A s \in Symphonies : db.triggered[s] => run[p].mem.triggered[s]
    /\ db.post_mortem_run => run[p].mem.post_mortem_run
OursInv == \A p \in Procs : run[p].pc # "off" => run[p].ours
OffInv == \A p \in Procs : run[p].ours => run[p].pc # "off"
FlushInv == flush.busy /\ flush.copy.post_mortem_run => db.post_mortem_run

\* A sale that was not forgotten is in the row, or in the copy of a run that
\* has yet to save it.
Remembered == \A s \in Symphonies : h.sold[s] > h.forgotten[s] =>
    \/ db.triggered[s]
    \/ \E p \in Procs : run[p].pc \in {"queue", "sleeves"} /\ run[p].mem.triggered[s]
PostRemembered == h.posts > h.rolled => db.post_mortem_run

IInv ==
    /\ TypeOK /\ OneRunPerDaemon /\ OffInv
    /\ ~h.orphaned => /\ OursInv /\ CopyInv /\ FlushInv /\ Remembered /\ PostRemembered
                      /\ SoldIsAccounted /\ PostMortemAccounted
=============================================================================
