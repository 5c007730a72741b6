------------------------- MODULE EngineRunsProofs -------------------------
(***************************************************************************)
(* Proofs of EngineRuns, for any number of processes, symphonies, faults   *)
(* and any time bounds.  The invariant is IInv: type correctness, one run  *)
(* per daemon and, as long as no engine outlives its daemon, that a live   *)
(* run's copy of bot_state knows whatever the row knows, so that the row   *)
(* or the one live run remembers each sale that was not forgotten.         *)
(***************************************************************************)
EXTENDS EngineRuns, TLAPS

\* The part of IInv that holds while no engine outlives its daemon.
SalesCounted == \A s \in Symphonies : h.sold[s] <= h.forgotten[s] + 1
PostsCounted == h.posts <= h.rolled + 1
Sound == OursInv /\ CopyInv /\ FlushInv /\ Remembered /\ PostRemembered
         /\ SalesCounted /\ PostsCounted
Unsold(p) == run[p].pc \in {"queue", "sleeves"}

\* Facts about the run records, each on its own.
LEMMA FreshOK == Fresh \in State /\ Off \in Run
  <1>1. Fresh \in State
    BY DEF Fresh, State
  <1> QED
    BY <1>1, TimeAssumption DEF Off, Run, PC, Window

\* The initial states satisfy the invariant.
LEMMA InitIInv == Init => IInv
  <1> SUFFICES ASSUME Init PROVE IInv
    OBVIOUS
  <1>2. TypeOK
    <2>1. h \in History
      BY FaultAssumption DEF Init, History
    <2> QED
      BY FreshOK, <2>1, TimeAssumption, FaultAssumption DEF Init, TypeOK, Window
  <1>3. OneRunPerDaemon /\ OffInv /\ OursInv /\ CopyInv
    BY DEF Init, Off, OneRunPerDaemon, OffInv, OursInv, CopyInv, HasState
  <1>4. FlushInv /\ Remembered /\ PostRemembered /\ SoldIsAccounted /\ PostMortemAccounted
    BY DEF Init, FlushInv, Remembered, PostRemembered, SoldIsAccounted, PostMortemAccounted
  <1> QED
    BY <1>2, <1>3, <1>4 DEF IInv

LEMMA GoesToOK ==
  ASSUME run \in [Procs -> Run], NEW p \in Procs, NEW pc \in PC, GoesTo(p, pc)
  PROVE  run' \in [Procs -> Run]
  BY DEF GoesTo, Run

LEMMA ExitsOK ==
  ASSUME run \in [Procs -> Run], NEW p \in Procs, Exits(p)
  PROVE  run' \in [Procs -> Run]
  BY FreshOK DEF Exits

LEMMA ForgetOK ==
  ASSUME h \in History, NEW dying \in SUBSET Procs, Forget(dying)
  PROVE  h' \in History
  BY DEF Forget, History

LEMMA LockOK ==
  ASSUME lock \in [is_locked : BOOLEAN, age : 0..STALE_AFTER], lock' = Locked \/ lock' = Released
  PROVE  lock' \in [is_locked : BOOLEAN, age : 0..STALE_AFTER]
  <1>1. Locked \in [is_locked : BOOLEAN, age : 0..STALE_AFTER]
    BY TimeAssumption DEF Locked
  <1>2. Released \in [is_locked : BOOLEAN, age : 0..STALE_AFTER]
    BY DEF Released
  <1> QED
    BY <1>1, <1>2

LEMMA RunOK ==
  ASSUME NEW r \in Run, NEW pc \in PC, NEW mem \in State
  PROVE  [r EXCEPT !.pc = pc, !.mem = mem] \in Run
  BY DEF Run

LEMMA OneRunOK ==
  ASSUME run \in [Procs -> Run], NEW p \in Procs, NEW r \in Run, run' = [run EXCEPT ![p] = r]
  PROVE  run' \in [Procs -> Run]
  OBVIOUS

\* No step leaves the types.
LEMMA TypeStep == TypeOK /\ Next => TypeOK'
  <1> SUFFICES ASSUME TypeOK, Next PROVE TypeOK'
    OBVIOUS
  <1> USE TimeAssumption, FaultAssumption
  <1>1. ASSUME NEW p \in Procs, Engine(p) PROVE TypeOK'
    <2>1. run' \in [Procs -> Run]
      <3>1. CASE LockSelect(p)
        BY <3>1, GoesToOK, ExitsOK DEF TypeOK, LockSelect, PC
      <3>2. CASE LockUpdate(p) \/ BeginQueue(p) \/ BeginSleeves(p) \/ ReturnEarly(p)
                 \/ SaveAndReturn(p) \/ save_state(p)
        BY <3>2, GoesToOK DEF TypeOK, LockUpdate, BeginQueue, BeginSleeves, ReturnEarly,
                              SaveAndReturn, save_state, PC
      <3>3. CASE load_state(p)
        <4>1. run' = [run EXCEPT ![p] = [run[p] EXCEPT !.pc = "loaded", !.mem = db]]
          BY <3>3 DEF TypeOK, load_state
        <4> QED
          BY <4>1, RunOK DEF TypeOK, PC
      <3>4. CASE PostMortem(p)
        <4> DEFINE mem == [run[p].mem EXCEPT !.post_mortem_run = TRUE]
        <4>1. run' = [run EXCEPT ![p] = [run[p] EXCEPT !.pc = "saved", !.mem = mem]]
          BY <3>4 DEF TypeOK, PostMortem
        <4>2. mem \in State
          BY DEF TypeOK, Run, State
        <4> QED
          BY <4>1, <4>2, RunOK DEF TypeOK, PC
      <3>5. CASE \E s \in Symphonies : Sell(p, s)
        <4> PICK s \in Symphonies : Sell(p, s)
          BY <3>5
        <4> DEFINE mem == [run[p].mem EXCEPT !.triggered[s] = TRUE]
        <4>1. run' = [run EXCEPT ![p] = [run[p] EXCEPT !.pc = "queue", !.mem = mem]]
          BY DEF TypeOK, Sell, At, Run
        <4>2. mem \in State
          BY DEF TypeOK, Run, State
        <4> QED
          BY <4>1, <4>2, RunOK DEF TypeOK, PC
      <3>6. CASE Release(p)
        BY <3>6, ExitsOK DEF TypeOK, Release
      <3> QED
        BY <1>1, <3>1, <3>2, <3>3, <3>4, <3>5, <3>6 DEF Engine
    <2>2. db' \in State
      <3>1. run[p].mem \in State
        BY DEF TypeOK, Run
      <3>2. [run[p].mem EXCEPT !.post_mortem_run = TRUE] \in State
        BY <3>1 DEF State
      <3> QED
        BY <1>1, <3>1, <3>2 DEF TypeOK, Engine, LockSelect, LockUpdate, load_state, ReturnEarly,
              SaveAndReturn, PostMortem, BeginQueue, Sell, BeginSleeves, save_state, Release
    <2>3. h' \in History
      <3>1. CASE PostMortem(p)
        BY <3>1 DEF TypeOK, PostMortem, History
      <3>2. CASE \E s \in Symphonies : Sell(p, s)
        BY <3>2 DEF TypeOK, Sell, History
      <3>3. CASE h' = h
        BY <3>3 DEF TypeOK
      <3> QED
        BY <1>1, <3>1, <3>2, <3>3 DEF Engine, LockSelect, LockUpdate, load_state, ReturnEarly,
              SaveAndReturn, BeginQueue, BeginSleeves, save_state, Release
    <2>4. lock' \in [is_locked : BOOLEAN, age : 0..STALE_AFTER]
      BY <1>1, LockOK DEF TypeOK, Engine, LockSelect, LockUpdate, load_state, ReturnEarly,
              SaveAndReturn, PostMortem, BeginQueue, Sell, BeginSleeves, save_state, Release
    <2>5. UNCHANGED <<daemon, slot, flush, window, faults>>
      BY <1>1 DEF Engine, LockSelect, LockUpdate, load_state, ReturnEarly,
              SaveAndReturn, PostMortem, BeginQueue, Sell, BeginSleeves, save_state, Release
    <2> QED
      BY <2>1, <2>2, <2>3, <2>4, <2>5 DEF TypeOK
  <1>2. ASSUME Daemon PROVE TypeOK'
    <2>1. CASE StartDaemon
      BY <2>1 DEF TypeOK, StartDaemon
    <2>2. CASE RepairLocks \/ RepairEnds \/ RepairGivesUp
      BY <2>2, LockOK DEF TypeOK, RepairLocks, RepairEnds, RepairGivesUp
    <2>3. ASSUME NEW p \in Procs, threaded_trigger(p) PROVE TypeOK'
      <3>1. [Off EXCEPT !.pc = "starting", !.ours = TRUE, !.window = window] \in Run
        BY FreshOK DEF TypeOK, Run, PC, Off
      <3> QED
        BY <2>3, <3>1 DEF TypeOK, threaded_trigger
    <2>4. CASE end_engine_run
      BY <2>4 DEF TypeOK, end_engine_run
    <2>5. CASE end_engine_process
      <3>1. slot \in Procs
        BY <2>5 DEF TypeOK, end_engine_process
      <3> QED
        BY <2>5, <3>1, ExitsOK, ForgetOK DEF TypeOK, end_engine_process
    <2> QED
      BY <1>2, <2>1, <2>2, <2>3, <2>4, <2>5 DEF Daemon
  <1>3. ASSUME Trouble PROVE TypeOK'
    <2>1. ASSUME NEW p \in Procs, Raise(p) PROVE TypeOK'
      BY <2>1, ExitsOK, ForgetOK, LockOK DEF TypeOK, Raise, Occurs
    <2>2. ASSUME NEW p \in Procs, Hang(p) PROVE TypeOK'
      <3>1. run' \in [Procs -> Run]
        BY <2>2 DEF TypeOK, Hang, Run
      <3> QED
        BY <2>2, <3>1 DEF TypeOK, Hang, Occurs
    <2>3. ASSUME NEW p \in Procs, NEW s \in Symphonies, SellUnanswered(p, s) PROVE TypeOK'
      <3>1. h' \in History
        <4>1. /\ h' = [h EXCEPT !.sold = [h.sold EXCEPT ![s] = @ + 1],
                                !.forgotten = [h.forgotten EXCEPT ![s] = @ + 1]]
              /\ h.sold[s] < MaxCount
          BY <2>3 DEF TypeOK, SellUnanswered, History
        <4>2. [h.sold EXCEPT ![s] = @ + 1] \in [Symphonies -> 0..MaxCount]
          BY <4>1 DEF TypeOK, History
        <4>3. [h.forgotten EXCEPT ![s] = @ + 1] \in [Symphonies -> Nat]
          BY DEF TypeOK, History
        <4> QED
          BY <4>1, <4>2, <4>3 DEF TypeOK, History
      <3> QED
        BY <2>3, <3>1 DEF TypeOK, SellUnanswered, Occurs
    <2>4. CASE Crash
      BY <2>4, FreshOK, ForgetOK DEF TypeOK, Crash, Occurs, NotBusy
    <2>5. CASE StopDaemon
      <3>1. run' \in [Procs -> Run]
        BY <2>5 DEF TypeOK, StopDaemon, Run
      <3>2. h' \in History
        BY <2>5 DEF TypeOK, StopDaemon, History
      <3> QED
        BY <2>5, <3>1, <3>2, FreshOK DEF TypeOK, StopDaemon, Occurs, NotBusy
    <2> QED
      BY <1>3, <2>1, <2>2, <2>3, <2>4, <2>5 DEF Trouble
  <1>4. CASE FlushLoad
    BY <1>4 DEF TypeOK, FlushLoad, Occurs
  <1>5. CASE FlushSave
    <2>1. db' \in State
      BY <1>5 DEF TypeOK, FlushSave, State
    <2>2. h' \in History
      <3> DEFINE fg == [s \in Symphonies |-> IF db.triggered[s] THEN h.forgotten[s] + 1
                                             ELSE h.forgotten[s]]
                 rl == IF db.post_mortem_run /\ ~flush.copy.post_mortem_run
                       THEN h.rolled + 1 ELSE h.rolled
      <3>1. h' = [h EXCEPT !.forgotten = fg, !.rolled = rl]
        BY <1>5 DEF FlushSave
      <3>2. fg \in [Symphonies -> Nat] /\ rl \in Nat
        BY DEF TypeOK, History
      <3> QED
        BY <3>1, <3>2 DEF TypeOK, History
    <2> QED
      BY <1>5, <2>1, <2>2, FreshOK DEF TypeOK, FlushSave, NotBusy
  <1>6. CASE Tick
    <2>1. run' \in [Procs -> Run]
      BY <1>6 DEF TypeOK, Tick, Run, Older
    <2>2. lock' \in [is_locked : BOOLEAN, age : 0..STALE_AFTER]
      BY <1>6 DEF TypeOK, Tick, Older
    <2> QED
      BY <1>6, <2>1, <2>2 DEF TypeOK, Tick
  <1>7. CASE CloseMarket
    BY <1>7 DEF TypeOK, CloseMarket, Window
  <1> QED
    BY <1>1, <1>2, <1>3, <1>4, <1>5, <1>6, <1>7 DEF Next

-----------------------------------------------------------------------------
LEMMA IInvParts == IInv <=> TypeOK /\ OneRunPerDaemon /\ OffInv /\ (~h.orphaned => Sound)
  BY DEF IInv, Sound, SalesCounted, PostsCounted, SoldIsAccounted, PostMortemAccounted

\* Of the engines that a daemon has spawned, only the one in its slot lives.
LEMMA SlotStep == TypeOK /\ OneRunPerDaemon /\ OffInv /\ Next => OneRunPerDaemon' /\ OffInv'
  <1> SUFFICES ASSUME TypeOK, OneRunPerDaemon, OffInv, Next,
                      NEW q \in Procs, run'[q].ours
               PROVE  slot' = q /\ run'[q].pc # "off"
    BY DEF OneRunPerDaemon, OffInv
  <1> USE DEF TypeOK, OneRunPerDaemon, OffInv
  <1>1. ASSUME NEW p \in Procs, Engine(p) PROVE slot' = q /\ run'[q].pc # "off"
    <2>1. slot' = slot /\ (q # p => run'[q] = run[q])
      BY <1>1 DEF Engine, LockSelect, LockUpdate, load_state, ReturnEarly, SaveAndReturn,
              PostMortem, BeginQueue, Sell, BeginSleeves, save_state, Release, GoesTo, Exits
    <2>2. q = p => run[q].ours /\ run'[q].pc # "off"
      BY <1>1 DEF Engine, LockSelect, LockUpdate, load_state, ReturnEarly, SaveAndReturn,
              PostMortem, BeginQueue, Sell, BeginSleeves, save_state, Release, GoesTo, Exits,
              At, Off, Run
    <2> QED
      BY <2>1, <2>2
  <1>2. CASE Daemon
    <2>1. CASE StartDaemon \/ RepairLocks \/ RepairEnds \/ RepairGivesUp
      BY <2>1 DEF StartDaemon, RepairLocks, RepairEnds, RepairGivesUp
    <2>2. ASSUME NEW p \in Procs, threaded_trigger(p) PROVE slot' = q /\ run'[q].pc # "off"
      <3>1. slot = None /\ q = p
        BY <2>2, NoneAssumption DEF threaded_trigger
      <3> QED
        BY <2>2, <3>1 DEF threaded_trigger, Off
    <2>3. CASE end_engine_run
      BY <2>3 DEF end_engine_run, EndRun
    <2>4. CASE end_engine_process
      BY <2>4 DEF end_engine_process, Exits, Off
    <2> QED
      BY <1>2, <2>1, <2>2, <2>3, <2>4 DEF Daemon
  <1>3. CASE Trouble
    <2>1. CASE Crash \/ StopDaemon
      BY <2>1 DEF Crash, StopDaemon, Off, Run
    <2>2. ASSUME NEW p \in Procs, Raise(p) \/ Hang(p)
          PROVE  slot' = q /\ run'[q].pc # "off"
      BY <2>2 DEF Raise, Hang, Exits, Off, Run
    <2>3. CASE \E p \in Procs, s \in Symphonies : SellUnanswered(p, s)
      BY <2>3 DEF SellUnanswered
    <2> QED
      BY <1>3, <2>1, <2>2, <2>3 DEF Trouble
  <1>4. CASE FlushLoad \/ FlushSave \/ CloseMarket
    BY <1>4 DEF FlushLoad, FlushSave, CloseMarket
  <1>5. CASE Tick
    BY <1>5 DEF Tick, Run
  <1> QED
    BY <1>1, <1>2, <1>3, <1>4, <1>5 DEF Next

\* An orphan is never forgotten.
LEMMA OrphanStep == TypeOK /\ Next /\ ~h'.orphaned => ~h.orphaned
  <1> SUFFICES ASSUME TypeOK, Next PROVE h.orphaned => h'.orphaned
    OBVIOUS
  <1>1. CASE h' = h
    BY <1>1
  <1>2. ASSUME NEW dying \in SUBSET Procs, Forget(dying) PROVE h.orphaned => h'.orphaned
    BY <1>2 DEF Forget, TypeOK, History
  <1>3. ASSUME NEW p \in Procs, NEW s \in Symphonies,
               PostMortem(p) \/ Sell(p, s) \/ SellUnanswered(p, s)
        PROVE  h.orphaned => h'.orphaned
    BY <1>3 DEF PostMortem, Sell, SellUnanswered, TypeOK, History
  <1>4. CASE StopDaemon \/ FlushSave
    BY <1>4 DEF StopDaemon, FlushSave, TypeOK, History
  <1>5. ASSUME NEW p \in Procs, PostMortem(p) PROVE h.orphaned => h'.orphaned
    BY <1>5 DEF PostMortem, TypeOK, History
  <1> QED
    BY <1>1, <1>2, <1>3, <1>4, <1>5 DEF Next, Engine, LockSelect, LockUpdate, load_state,
        ReturnEarly, SaveAndReturn, BeginQueue, BeginSleeves, save_state, Release, Daemon,
        StartDaemon, RepairLocks, RepairEnds, RepairGivesUp, threaded_trigger, end_engine_run,
        end_engine_process, Trouble, Raise, Hang, Crash, FlushLoad, Tick, CloseMarket, TypeOK

-----------------------------------------------------------------------------
\* A step that leaves the row, the flush job and the history alone, and in
\* which no run forgets or invents what it holds.
LEMMA QuietStep ==
  ASSUME TypeOK, Sound, UNCHANGED <<db, flush, h>>,
         \A q \in Procs : run'[q].pc # "off" => run'[q].ours,
         \A q \in Procs : HasState(q)' =>
            run'[q].mem = db \/ (HasState(q) /\ run'[q].mem = run[q].mem),
         \A q \in Procs : Unsold(q) => Unsold(q)' /\ run'[q].mem = run[q].mem
  PROVE  Sound'
  <1>1. OursInv'
    BY DEF OursInv
  <1>2. CopyInv'
    BY DEF CopyInv, Sound
  <1>3. Remembered'
    BY DEF Remembered, Sound, Unsold
  <1> QED
    BY <1>1, <1>2, <1>3 DEF Sound, FlushInv, PostRemembered, SalesCounted, PostsCounted

\* The sales that die with a set of runs are forgotten, and no others.
LEMMA ForgetStep ==
  ASSUME TypeOK, Sound, UNCHANGED db, NEW dying \in SUBSET Procs, Forget(dying),
         \A q \in Procs : run'[q] = IF q \in dying THEN Off ELSE run[q],
         flush' = flush \/ flush' = NotBusy
  PROVE  Sound'
  <1>1. /\ h'.sold = h.sold /\ h'.posts = h.posts /\ h'.rolled = h.rolled
        /\ \A s \in Symphonies :
              h'.forgotten[s] = IF Unsaved(dying, s) THEN h.forgotten[s] + 1 ELSE h.forgotten[s]
    BY DEF Forget, TypeOK, History
  <1>2. \A q \in Procs : run[q] \in Run
    BY DEF TypeOK
  <1>3. h.sold \in [Symphonies -> Nat] /\ h.forgotten \in [Symphonies -> Nat]
    BY DEF TypeOK, History
  <1>4. OursInv' /\ CopyInv'
    BY <1>2 DEF Sound, OursInv, CopyInv, HasState, Off
  <1>5. Remembered'
    <2> SUFFICES ASSUME NEW s \in Symphonies, h'.sold[s] > h'.forgotten[s], ~db.triggered[s]
                 PROVE  \E p \in Procs : Unsold(p)' /\ run'[p].mem.triggered[s]
      BY DEF Remembered, Unsold
    <2>1. h.sold[s] <= h.forgotten[s] + 1
      BY DEF Sound, SalesCounted
    <2>2. ~Unsaved(dying, s) /\ h.sold[s] > h.forgotten[s]
      BY <1>1, <1>3, <2>1
    <2>3. PICK p \in Procs : Unsold(p) /\ run[p].mem.triggered[s]
      BY <2>2 DEF Sound, Remembered, Unsold
    <2>4. p \notin dying
      BY <2>2, <2>3 DEF Unsaved, HasState, Unsold
    <2> QED
      BY <2>3, <2>4 DEF Unsold
  <1>6. SalesCounted'
    BY <1>1, <1>3 DEF Sound, SalesCounted
  <1>7. FlushInv' /\ PostRemembered' /\ PostsCounted'
    BY <1>1 DEF Sound, FlushInv, PostRemembered, PostsCounted, NotBusy
  <1> QED
    BY <1>4, <1>5, <1>6, <1>7 DEF Sound

\* A run that writes its copy (or its copy with the post-mortem flag) to the
\* row loses nothing the row knew: its copy knows it all.
LEMMA SaveStep ==
  ASSUME TypeOK, OneRunPerDaemon, Sound, NEW p \in Procs, HasState(p),
         db' = run'[p].mem, flush' = flush,
         \A q \in Procs \ {p} : run'[q] = run[q],
         run'[p].pc = "saved", run'[p].ours = run[p].ours,
         run'[p].mem.triggered = run[p].mem.triggered,
         run[p].mem.post_mortem_run => run'[p].mem.post_mortem_run,
         h'.sold = h.sold, h'.forgotten = h.forgotten, h'.rolled = h.rolled,
         \/ h'.posts = h.posts
         \/ h'.posts = h.posts + 1 /\ ~run[p].mem.post_mortem_run /\ db'.post_mortem_run
  PROVE  Sound'
  <1>1. \A q \in Procs \ {p} : run[q].pc = "off"
    BY DEF Sound, OursInv, OneRunPerDaemon, HasState
  <1>2. /\ \A s \in Symphonies : db.triggered[s] => db'.triggered[s]
        /\ db.post_mortem_run => db'.post_mortem_run
    BY DEF Sound, CopyInv
  <1>3. OursInv'
    BY DEF Sound, OursInv, HasState
  <1>4. CopyInv'
    BY <1>1 DEF CopyInv, HasState
  <1>5. FlushInv'
    BY <1>2 DEF Sound, FlushInv
  <1>6. Remembered'
    <2> SUFFICES ASSUME NEW s \in Symphonies, h.sold[s] > h.forgotten[s] PROVE db'.triggered[s]
      BY DEF Remembered
    <2>1. CASE db.triggered[s]
      BY <2>1, <1>2
    <2>2. ASSUME NEW q \in Procs, Unsold(q), run[q].mem.triggered[s] PROVE db'.triggered[s]
      BY <2>2, <1>1 DEF Unsold
    <2> QED
      BY <2>1, <2>2 DEF Sound, Remembered, Unsold
  <1>7. PostRemembered'
    BY <1>2 DEF Sound, PostRemembered
  <1>8. PostsCounted'
    <2>1. h.posts \in Nat /\ h.rolled \in Nat
      BY FaultAssumption DEF TypeOK, History
    <2>2. ~run[p].mem.post_mortem_run => h.posts <= h.rolled
      BY <2>1 DEF Sound, PostRemembered, CopyInv
    <2> QED
      BY <2>1, <2>2 DEF Sound, PostsCounted
  <1> QED
    BY <1>3, <1>4, <1>5, <1>6, <1>7, <1>8 DEF Sound, SalesCounted

\* A sale of a symphony that the run's copy does not hold as sold: whatever
\* was sold before was forgotten.
LEMMA SellStep ==
  ASSUME TypeOK, OneRunPerDaemon, Sound, NEW p \in Procs, NEW s \in Symphonies,
         run[p].pc = "queue", ~run[p].mem.triggered[s]
  PROVE  h.sold[s] <= h.forgotten[s]
  <1>1. ~db.triggered[s]
    BY DEF Sound, CopyInv, HasState
  <1>2. \A q \in Procs : run[q].pc # "off" => q = p
    BY DEF Sound, OursInv, OneRunPerDaemon
  <1>3. ~\E q \in Procs : run[q].pc \in {"queue", "sleeves"} /\ run[q].mem.triggered[s]
    BY <1>2
  <1>4. h.sold[s] \in Nat /\ h.forgotten[s] \in Nat
    BY FaultAssumption DEF TypeOK, History
  <1> QED
    BY <1>1, <1>3, <1>4 DEF Sound, Remembered

-----------------------------------------------------------------------------
\* While no engine outlives its daemon, every step keeps the accounts.
LEMMA SoundStep ==
  ASSUME TypeOK, OneRunPerDaemon, OffInv, Sound, Next, ~h'.orphaned
  PROVE  Sound'
  <1>1. ASSUME NEW p \in Procs, Engine(p) PROVE Sound'
    <2> DEFINE Quiet == LockSelect(p) \/ LockUpdate(p) \/ load_state(p) \/ ReturnEarly(p)
                        \/ BeginQueue(p) \/ BeginSleeves(p) \/ Release(p)
    <2>1. CASE Quiet
      <3>1. UNCHANGED <<db, flush, h>>
        BY <2>1 DEF LockSelect, LockUpdate, load_state, ReturnEarly, BeginQueue, BeginSleeves,
                Release
      <3>2. \A q \in Procs : run[q] \in Run /\ (run[q].pc # "off" => run[q].ours)
        BY DEF TypeOK, Sound, OursInv
      <3>3. \A q \in Procs \ {p} : run'[q] = run[q]
        BY <2>1 DEF LockSelect, LockUpdate, load_state, ReturnEarly, BeginQueue, BeginSleeves,
                Release, GoesTo, Exits, TypeOK
      <3>4. /\ run'[p].pc # "off" => run'[p].ours
            /\ HasState(p)' => run'[p].mem = db \/ (HasState(p) /\ run'[p].mem = run[p].mem)
            /\ Unsold(p) => Unsold(p)' /\ run'[p].mem = run[p].mem
        BY <2>1, <3>2 DEF LockSelect, LockUpdate, load_state, ReturnEarly, BeginQueue,
                BeginSleeves, Release, GoesTo, Exits, TypeOK, Run, At, Off, HasState, Unsold
      <3>5. \A q \in Procs : run'[q].pc # "off" => run'[q].ours
        BY <3>2, <3>3, <3>4
      <3>6. \A q \in Procs : HasState(q)' =>
              run'[q].mem = db \/ (HasState(q) /\ run'[q].mem = run[q].mem)
        BY <3>3, <3>4 DEF HasState
      <3>7. \A q \in Procs : Unsold(q) => Unsold(q)' /\ run'[q].mem = run[q].mem
        BY <3>3, <3>4 DEF Unsold
      <3> QED
        BY <3>1, <3>5, <3>6, <3>7, QuietStep
    <2>2. CASE SaveAndReturn(p) \/ PostMortem(p) \/ save_state(p)
      <3>1. HasState(p) /\ flush' = flush /\ \A q \in Procs \ {p} : run'[q] = run[q]
        BY <2>2 DEF SaveAndReturn, PostMortem, save_state, GoesTo, At, HasState, TypeOK
      <3>2. run[p] \in Run /\ run[p].mem \in State
        BY DEF TypeOK, Run
      <3>3. /\ db' = run'[p].mem /\ run'[p].pc = "saved" /\ run'[p].ours = run[p].ours
            /\ run'[p].mem.triggered = run[p].mem.triggered
            /\ run[p].mem.post_mortem_run => run'[p].mem.post_mortem_run
        <4>1. CASE PostMortem(p)
          <5>1. run'[p] = [run[p] EXCEPT !.pc = "saved",
                             !.mem = [run[p].mem EXCEPT !.post_mortem_run = TRUE]]
            BY <4>1 DEF PostMortem, TypeOK
          <5>2. run'[p].mem = [run[p].mem EXCEPT !.post_mortem_run = TRUE]
            BY <5>1, <3>2 DEF Run
          <5>3. run'[p].mem.triggered = run[p].mem.triggered /\ run'[p].mem.post_mortem_run
            BY <5>2, <3>2 DEF State
          <5>4. run'[p].pc = "saved" /\ run'[p].ours = run[p].ours
            BY <5>1, <3>2 DEF Run
          <5>5. db' = run'[p].mem
            BY <4>1, <5>2 DEF PostMortem
          <5> QED
            BY <5>3, <5>4, <5>5
        <4>2. CASE SaveAndReturn(p) \/ save_state(p)
          BY <4>2, <3>2 DEF SaveAndReturn, save_state, GoesTo, TypeOK, Run
        <4> QED
          BY <2>2, <4>1, <4>2
      <3>4. /\ h'.sold = h.sold /\ h'.forgotten = h.forgotten /\ h'.rolled = h.rolled
            /\ \/ h'.posts = h.posts
               \/ h'.posts = h.posts + 1 /\ ~run[p].mem.post_mortem_run
                  /\ db'.post_mortem_run
        BY <2>2, <3>2 DEF SaveAndReturn, PostMortem, save_state, TypeOK, History, State
      <3> QED
        BY <3>1, <3>3, <3>4, SaveStep
    <2>3. ASSUME NEW s \in Symphonies, Sell(p, s) PROVE Sound'
      <3>1. run[p] \in Run /\ run[p].mem \in State /\ run[p].mem.triggered \in [Symphonies -> BOOLEAN]
        BY DEF TypeOK, Run, State
      <3>2. run'[p] = [run[p] EXCEPT !.mem = [run[p].mem EXCEPT
                          !.triggered = [run[p].mem.triggered EXCEPT ![s] = TRUE]]]
        BY <2>3 DEF Sell, TypeOK
      <3>3. /\ run[p].pc = "queue" /\ run'[p].pc = "queue" /\ run'[p].ours = run[p].ours
            /\ run'[p].mem.post_mortem_run = run[p].mem.post_mortem_run
            /\ run'[p].mem.triggered[s]
            /\ \A t \in Symphonies \ {s} : run'[p].mem.triggered[t] = run[p].mem.triggered[t]
            /\ UNCHANGED <<db, flush>> /\ \A q \in Procs \ {p} : run'[q] = run[q]
        BY <2>3, <3>1, <3>2 DEF Sell, At, TypeOK, Run, State
      <3>4. /\ h'.forgotten = h.forgotten /\ h'.posts = h.posts /\ h'.rolled = h.rolled
            /\ h'.sold[s] = h.sold[s] + 1
            /\ \A t \in Symphonies \ {s} : h'.sold[t] = h.sold[t]
        BY <2>3 DEF Sell, TypeOK, History
      <3>5. h.sold[s] <= h.forgotten[s] /\ h.sold[s] \in Nat /\ h.forgotten[s] \in Nat
        BY <2>3, SellStep, FaultAssumption DEF Sell, At, TypeOK, History
      <3>6. OursInv' /\ CopyInv'
        BY <3>3 DEF Sound, OursInv, CopyInv, HasState
      <3>7. Remembered'
        BY <3>3, <3>4 DEF Sound, Remembered
      <3>8. SalesCounted'
        BY <3>4, <3>5 DEF Sound, SalesCounted
      <3> QED
        BY <3>3, <3>4, <3>6, <3>7, <3>8 DEF Sound, FlushInv, PostRemembered, PostsCounted
    <2> QED
      BY <1>1, <2>1, <2>2, <2>3 DEF Engine
  <1>2. CASE Daemon
    <2> DEFINE Quiet == StartDaemon \/ RepairLocks \/ RepairEnds \/ RepairGivesUp
                        \/ end_engine_run
    <2>1. CASE Quiet
      <3>1. UNCHANGED <<db, flush, h, run>>
        BY <2>1 DEF StartDaemon, RepairLocks, RepairEnds, RepairGivesUp, end_engine_run
      <3> QED
        BY <3>1, QuietStep DEF Sound, OursInv, HasState, Unsold
    <2>2. ASSUME NEW p \in Procs, threaded_trigger(p) PROVE Sound'
      <3>1. UNCHANGED <<db, flush, h>> /\ \A q \in Procs \ {p} : run'[q] = run[q]
        BY <2>2 DEF threaded_trigger, TypeOK
      <3>2. run[p].pc = "off" /\ run'[p].pc = "starting" /\ run'[p].ours
        BY <2>2 DEF threaded_trigger, TypeOK, Off
      <3> QED
        BY <3>1, <3>2, QuietStep DEF Sound, OursInv, HasState, Unsold
    <2>3. CASE end_engine_process
      <3>1. slot \in Procs /\ UNCHANGED <<db, flush>> /\ Forget({slot})
        BY <2>3 DEF end_engine_process, TypeOK
      <3>2. \A q \in Procs : run'[q] = IF q \in {slot} THEN Off ELSE run[q]
        BY <2>3 DEF end_engine_process, Exits, TypeOK
      <3> QED
        BY <3>1, <3>2, ForgetStep
    <2> QED
      BY <1>2, <2>1, <2>2, <2>3 DEF Daemon
  <1>3. CASE Trouble
    <2>1. ASSUME NEW p \in Procs, Raise(p) PROVE Sound'
      <3>1. UNCHANGED <<db, flush>> /\ Forget({p})
        BY <2>1 DEF Raise
      <3>2. \A q \in Procs : run'[q] = IF q \in {p} THEN Off ELSE run[q]
        BY <2>1 DEF Raise, Exits, TypeOK
      <3> QED
        BY <3>1, <3>2, ForgetStep
    <2>2. ASSUME NEW p \in Procs, Hang(p) PROVE Sound'
      <3>1. UNCHANGED <<db, flush, h>>
        BY <2>2 DEF Hang
      <3>2. \A q \in Procs : run'[q].pc = run[q].pc /\ run'[q].ours = run[q].ours
                               /\ run'[q].mem = run[q].mem
        BY <2>2 DEF Hang, TypeOK, Run
      <3> QED
        BY <3>1, <3>2, QuietStep DEF Sound, OursInv, HasState, Unsold
    <2>3. ASSUME NEW p \in Procs, NEW s \in Symphonies, SellUnanswered(p, s) PROVE Sound'
      <3>1. UNCHANGED <<db, flush, run>>
        BY <2>3 DEF SellUnanswered
      <3>2. /\ h'.posts = h.posts /\ h'.rolled = h.rolled
            /\ h'.sold[s] = h.sold[s] + 1 /\ h'.forgotten[s] = h.forgotten[s] + 1
            /\ \A t \in Symphonies \ {s} :
                  h'.sold[t] = h.sold[t] /\ h'.forgotten[t] = h.forgotten[t]
            /\ h.sold[s] \in Nat /\ h.forgotten[s] \in Nat
        BY <2>3, FaultAssumption DEF SellUnanswered, TypeOK, History
      <3>3. Remembered' /\ SalesCounted'
        BY <3>1, <3>2 DEF Sound, Remembered, SalesCounted
      <3> QED
        BY <3>1, <3>2, <3>3 DEF Sound, OursInv, CopyInv, HasState, FlushInv, PostRemembered,
                PostsCounted
    <2>4. CASE Crash
      <3>1. UNCHANGED db /\ flush' = NotBusy /\ Forget(Procs)
        BY <2>4 DEF Crash
      <3>2. \A q \in Procs : run'[q] = IF q \in Procs THEN Off ELSE run[q]
        BY <2>4 DEF Crash
      <3> QED
        BY <3>1, <3>2, ForgetStep
    <2>5. CASE StopDaemon
      <3>1. /\ h'.sold = h.sold /\ h'.forgotten = h.forgotten /\ h'.posts = h.posts
            /\ h'.rolled = h.rolled /\ h'.orphaned = (h.orphaned \/ \E p \in Procs : run[p].pc # "off")
        BY <2>5 DEF StopDaemon, TypeOK, History
      <3>2. \A q \in Procs : run[q].pc = "off" /\ run'[q].pc = "off"
        BY <2>5, <3>1 DEF StopDaemon, TypeOK, Run
      <3>3. UNCHANGED db /\ ~flush'.busy
        BY <2>5 DEF StopDaemon, NotBusy
      <3>4. OursInv' /\ CopyInv' /\ FlushInv'
        BY <3>2, <3>3 DEF OursInv, CopyInv, FlushInv, HasState
      <3>5. Remembered'
        BY <3>1, <3>2, <3>3 DEF Sound, Remembered
      <3> QED
        BY <3>1, <3>3, <3>4, <3>5 DEF Sound, PostRemembered, SalesCounted, PostsCounted
    <2> QED
      BY <1>3, <2>1, <2>2, <2>3, <2>4, <2>5 DEF Trouble
  <1>4. CASE FlushLoad
    BY <1>4 DEF FlushLoad, Sound, OursInv, CopyInv, HasState, FlushInv, Remembered,
            PostRemembered, SalesCounted, PostsCounted
  <1>5. CASE FlushSave
    <2>1. /\ h'.sold = h.sold /\ h'.posts = h.posts
          /\ \A s \in Symphonies : h'.forgotten[s] =
                IF db.triggered[s] THEN h.forgotten[s] + 1 ELSE h.forgotten[s]
          /\ h'.rolled = IF db.post_mortem_run /\ ~flush.copy.post_mortem_run
                         THEN h.rolled + 1 ELSE h.rolled
      BY <1>5 DEF FlushSave, TypeOK, History
    <2>2. /\ flush.busy /\ ~flush'.busy /\ UNCHANGED run
          /\ \A s \in Symphonies : ~db'.triggered[s]
          /\ db'.post_mortem_run = flush.copy.post_mortem_run
      BY <1>5 DEF FlushSave, NotBusy, TypeOK, State
    <2>3. /\ h.posts \in Nat /\ h.rolled \in Nat
          /\ \A s \in Symphonies : h.sold[s] \in Nat /\ h.forgotten[s] \in Nat
      BY FaultAssumption DEF TypeOK, History
    <2>4. OursInv' /\ CopyInv' /\ FlushInv'
      BY <2>2 DEF Sound, OursInv, CopyInv, HasState, FlushInv
    <2>5. Remembered' /\ SalesCounted'
      BY <2>1, <2>2, <2>3 DEF Sound, Remembered, SalesCounted
    <2>6. PostRemembered' /\ PostsCounted'
      BY <2>1, <2>2, <2>3 DEF Sound, PostRemembered, PostsCounted
    <2> QED
      BY <2>4, <2>5, <2>6 DEF Sound
  <1>6. CASE Tick
    <2>1. UNCHANGED <<db, flush, h>>
      BY <1>6 DEF Tick
    <2>2. \A q \in Procs : run'[q].pc = run[q].pc /\ run'[q].ours = run[q].ours
                             /\ run'[q].mem = run[q].mem
      BY <1>6 DEF Tick, TypeOK, Run
    <2> QED
      BY <2>1, <2>2, QuietStep DEF Sound, OursInv, HasState, Unsold
  <1>7. CASE CloseMarket
    BY <1>7, QuietStep DEF CloseMarket, Sound, OursInv, HasState, Unsold
  <1> QED
    BY <1>1, <1>2, <1>3, <1>4, <1>5, <1>6, <1>7 DEF Next

\* IInv is inductive.
LEMMA StepIInv == IInv /\ [Next]_vars => IInv'
  <1> SUFFICES ASSUME IInv, [Next]_vars PROVE IInv'
    OBVIOUS
  <1>1. CASE Next
    <2>1. TypeOK' /\ OneRunPerDaemon' /\ OffInv'
      BY <1>1, TypeStep, SlotStep, IInvParts
    <2>2. ~h'.orphaned => Sound'
      BY <1>1, OrphanStep, SoundStep, IInvParts
    <2>3. IInv' <=> TypeOK' /\ OneRunPerDaemon' /\ OffInv' /\ (~h'.orphaned => Sound')
      BY DEF IInv, Sound, SalesCounted, PostsCounted, SoldIsAccounted, PostMortemAccounted
    <2> QED
      BY <2>1, <2>2, <2>3
  <1>2. CASE UNCHANGED vars
    BY <1>2 DEF vars, IInv, TypeOK, OneRunPerDaemon, OffInv, OursInv, CopyInv, FlushInv, HasState,
            Remembered, PostRemembered, SoldIsAccounted, PostMortemAccounted
  <1> QED
    BY <1>1, <1>2

-----------------------------------------------------------------------------
\* The invariant of the run slot, the lock and the bot_state row: in every
\* reachable state the types hold, a daemon has one run at most and, while no
\* engine outlives its daemon, the row and the live run's copy account for
\* every sale and post-mortem (app.py's run slot, database.save_state).
THEOREM EngineRunsInvariant == Spec => []IInv
  <1> QED
    BY InitIInv, StepIInv, PTL DEF Spec

\* A daemon never has two engines alive, however a run hangs, raises or is
\* killed, and however often the daemon restarts (_end_engine_process).
THEOREM OneRun == Spec => []OneRunPerDaemon
  <1>1. IInv => OneRunPerDaemon
    BY DEF IInv
  <1> QED
    BY <1>1, EngineRunsInvariant, PTL

\* While no engine outlives its daemon, every sale of a symphony beyond the
\* first answers one forgotten sale (execute_sell_to_cash and save_state).
THEOREM SalesAreAccounted == Spec => []SoldIsAccounted
  <1>1. IInv => SoldIsAccounted
    BY DEF IInv, SoldIsAccounted
  <1> QED
    BY <1>1, EngineRunsInvariant, PTL

\* While no engine outlives its daemon, the post-mortem of a day runs once,
\* and once more for each flush that wrote back an older copy.
THEOREM PostMortemOnce == Spec => []PostMortemAccounted
  <1>1. IInv => PostMortemAccounted
    BY DEF IInv, PostMortemAccounted
  <1> QED
    BY <1>1, EngineRunsInvariant, PTL

\* Of the steps of a run that has sold, only save_state leads to the release.
LEMMA SaveIsTheOnlyWay ==
  ASSUME TypeOK, Next, NEW q \in Procs, NEW s \in Symphonies
  PROVE  ExitSurvives(q, s)
  <1> SUFFICES ASSUME run[q].pc \in {"queue", "sleeves"}, run[q].mem.triggered[s],
                      run'[q].pc = "saved"
               PROVE  db'.triggered[s]
    BY DEF ExitSurvives
  <1> USE DEF TypeOK
  <1>1. ASSUME NEW p \in Procs, Engine(p) PROVE db'.triggered[s]
    <2>1. q = p
      BY <1>1 DEF Engine, LockSelect, LockUpdate, load_state, ReturnEarly, SaveAndReturn,
              PostMortem, BeginQueue, Sell, BeginSleeves, save_state, Release, GoesTo, Exits
    <2>2. CASE save_state(p)
      BY <2>1, <2>2 DEF save_state
    <2>3. CASE LockSelect(p) \/ LockUpdate(p) \/ load_state(p) \/ ReturnEarly(p)
               \/ SaveAndReturn(p) \/ PostMortem(p) \/ BeginQueue(p) \/ Release(p)
      BY <2>1, <2>3 DEF LockSelect, LockUpdate, load_state, ReturnEarly, SaveAndReturn,
                        PostMortem, BeginQueue, Release, At
    <2>4. CASE BeginSleeves(p)
      BY <2>1, <2>4 DEF BeginSleeves, GoesTo, Run
    <2>5. ASSUME NEW t \in Symphonies, Sell(p, t) PROVE db'.triggered[s]
      <3>1. run'[q].pc = run[q].pc
        BY <2>1, <2>5 DEF Sell, Run
      <3> QED
        BY <3>1
    <2> QED
      BY <1>1, <2>2, <2>3, <2>4, <2>5 DEF Engine
  <1>2. ASSUME NEW p \in Procs, threaded_trigger(p) PROVE db'.triggered[s]
    BY <1>2 DEF threaded_trigger, Off
  <1>3. CASE end_engine_process
    BY <1>3 DEF end_engine_process, Exits, Off
  <1>4. ASSUME NEW p \in Procs, Raise(p) \/ Hang(p) PROVE db'.triggered[s]
    BY <1>4 DEF Raise, Hang, Exits, Off, Run
  <1>5. CASE Crash \/ StopDaemon \/ Tick
    BY <1>5 DEF Crash, StopDaemon, Tick, Off, Run
  <1>6. CASE run' = run
    BY <1>6
  <1> QED
    BY <1>1, <1>2, <1>3, <1>4, <1>5, <1>6 DEF Next, Daemon, StartDaemon, RepairLocks,
       RepairEnds, RepairGivesUp, end_engine_run, Trouble, SellUnanswered, FlushLoad,
       FlushSave, CloseMarket

\* No return of main drops an exit that it recorded: the only way from the queue
\* to the release of the lock is through save_state.
THEOREM ExitsAreSaved == Spec => SavedBeforeRelease
  <1>1. IInv /\ [Next]_vars => [\A p \in Procs, s \in Symphonies : ExitSurvives(p, s)]_vars
    BY SaveIsTheOnlyWay DEF IInv
  <1> QED
    BY <1>1, EngineRunsInvariant, PTL DEF Spec, SavedBeforeRelease
=============================================================================
