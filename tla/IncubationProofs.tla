-------------------------- MODULE IncubationProofs --------------------------
(***************************************************************************)
(* The cap of the incubation ledger and the patience of its tick, for      *)
(* every number of candidates, of proposal runs and of days.               *)
(***************************************************************************)
EXTENDS Incubation, FiniteSetTheorems, TLAPS

\* The sets that are counted are finite, and their sizes natural numbers.
LEMMA Counted ==
    /\ IsFiniteSet(Incubating) /\ Cardinality(Incubating) \in Nat
    /\ IsFiniteSet(Pending) /\ Cardinality(Pending) \in Nat /\ Cardinality(Builders) \in Nat
<1>1. Incubating \subseteq Candidates /\ Pending \subseteq Builders
  BY DEF Incubating, Pending
<1> QED
  BY <1>1, SetAssumption, FS_Subset, FS_CardinalityType

\* A step that starts no incubation and leaves no more runs between their check
\* and their write keeps the cap.
LEMMA CapKept ==
    ASSUME CapInv, Incubating' \subseteq Incubating, Pending' \subseteq Pending
    PROVE  CapInv'
<1>1. /\ Cardinality(Incubating') <= Cardinality(Incubating)
      /\ Cardinality(Pending') <= Cardinality(Pending)
  BY Counted, FS_Subset
<1>2. Cardinality(Incubating') \in Nat /\ Cardinality(Pending') \in Nat
  BY Counted, FS_Subset, FS_CardinalityType
<1> QED
  BY <1>1, <1>2, Counted, CapAssumption DEF CapInv

\* A run that writes one candidate and is done keeps the cap.
LEMMA CapWritten ==
    ASSUME CapInv, NEW c, NEW b \in Pending,
           Incubating' \subseteq Incubating \cup {c}, Pending' = Pending \ {b}
    PROVE  CapInv'
<1>1. /\ Cardinality(Incubating \cup {c}) <= Cardinality(Incubating) + 1
      /\ IsFiniteSet(Incubating \cup {c})
  <2>1. CASE c \in Incubating
    <3>1. Incubating \cup {c} = Incubating
      BY <2>1
    <3> QED
      BY <3>1, Counted
  <2>2. CASE c \notin Incubating
    <3>1. /\ Cardinality(Incubating \cup {c}) = Cardinality(Incubating) + 1
          /\ IsFiniteSet(Incubating \cup {c})
      BY <2>2, Counted, FS_AddElement
    <3> QED
      BY <3>1, Counted
  <2> QED
    BY <2>1, <2>2
<1>2. /\ Cardinality(Incubating') <= Cardinality(Incubating \cup {c})
      /\ Cardinality(Incubating') \in Nat /\ Cardinality(Incubating \cup {c}) \in Nat
  BY <1>1, FS_Subset, FS_CardinalityType
<1>3. Cardinality(Pending') = Cardinality(Pending) - 1 /\ Cardinality(Pending') \in Nat
  BY Counted, FS_RemoveElement, FS_CardinalityType
<1> QED
  BY <1>1, <1>2, <1>3, Counted, CapAssumption DEF CapInv

\* A run that has found the ledger under its cap keeps the cap when it goes on.
LEMMA CapChecked ==
    ASSUME Cardinality(Incubating) < MAX_INCUBATING, Incubating' = Incubating,
           Pending' \subseteq Builders
    PROVE  CapInv'
<1>1. Cardinality(Pending') <= Cardinality(Builders) /\ Cardinality(Pending') \in Nat
  BY SetAssumption, FS_Subset, FS_CardinalityType
<1> QED
  BY <1>1, Counted, CapAssumption DEF CapInv

-----------------------------------------------------------------------------
LEMMA TickTypes ==
    /\ Idle \in Ticks /\ Idle.pc = "idle" /\ Idle.todo = {}
    /\ tick \in Ticks => /\ ToNext \in Ticks /\ ToNext.pc = "fetch"
                        /\ ToNext.todo = tick.todo
<1>1. Idle \in Ticks /\ Idle.pc = "idle" /\ Idle.todo = {}
  BY DEF Idle, Ticks
<1>2. ASSUME tick \in Ticks
      PROVE  ToNext \in Ticks /\ ToNext.pc = "fetch" /\ ToNext.todo = tick.todo
  BY <1>2 DEF Ticks, ToNext
<1> QED
  BY <1>1, <1>2

LEMMA InitIInv == Init => IInv
<1> SUFFICES ASSUME Init PROVE IInv
  OBVIOUS
<1>1. TypeOK
  <2>1. row \in [Candidates -> Row] /\ h \in [Candidates -> History]
    BY DEF Init, Row, Status, Reason, History
  <2>2. tick \in Ticks
    BY TickTypes DEF Init
  <2>3. today \in Nat
    BY CountAssumption DEF Init
  <2> QED
    BY <2>1, <2>2, <2>3 DEF Init, TypeOK
<1>2. Incubating = {} /\ Pending = {}
  BY DEF Init, Incubating, Pending
<1>3. CapInv
  BY <1>2, FS_EmptySet, Counted, CapAssumption DEF CapInv
<1>4. SeenInv /\ CountInv /\ ExpiryInv
  BY DEF Init, Idle, SeenInv, CountInv, ExpiryInv
<1> QED
  BY <1>1, <1>3, <1>4 DEF IInv

-----------------------------------------------------------------------------
(* The steps of a proposal run. *)

LEMMA CheckKeeps == ASSUME IInv, NEW b \in Builders, NEW c \in Candidates, Check(b, c) PROVE IInv'
<1> USE DEF IInv
<1>1. TypeOK'
  BY DEF TypeOK, Ticks, Check, History
<1>2. CapInv'
  BY CapChecked DEF Check, UnderCap, Incubating, Pending
<1>3. SeenInv'
  BY DEF TypeOK, Ticks, Check, SeenInv, Admissible
<1>4. CountInv' /\ ExpiryInv'
  BY DEF TypeOK, Ticks, Check, CountInv, ExpiryInv, History
<1> QED
  BY <1>1, <1>2, <1>3, <1>4

\* Once a candidate enters, what the run found is no longer owed.
LEMMA EntersKeeps ==
    ASSUME IInv, NEW b \in Builders, builder[b].pc # "idle", Leaves(b), Enters(builder[b].c),
           row[builder[b].c].status = "none" \/ builder[b].pc = "update",
           UNCHANGED <<daily, today, tick, ticked>>
    PROVE  IInv'
<1> DEFINE c == builder[b].c
<1> USE DEF IInv
<1>c. c \in Candidates
  BY DEF SeenInv
<1>r. /\ row' = [row EXCEPT ![c] = [row[c] EXCEPT !.status = "INCUBATING", !.reason = "none",
                                             !.admitted = today, !.changed = 0]]
      /\ h' = [h EXCEPT ![c].attempts = h[c].attempts + 1, ![c].misses = 0]
  BY DEF Enters
<1>1. TypeOK'
  <2>1. row[c] \in Row /\ h[c] \in History /\ today \in Nat
    BY <1>c DEF TypeOK
  <2>2. [row[c] EXCEPT !.status = "INCUBATING", !.reason = "none",
                       !.admitted = today, !.changed = 0] \in Row
    BY <2>1 DEF Row, Status, Reason
  <2>3. row' \in [Candidates -> Row]
    BY <1>r, <2>2 DEF TypeOK
  <2>0. [h[c] EXCEPT !.attempts = h[c].attempts + 1, !.misses = 0] \in History
    <3>1. h[c].attempts + 1 \in Nat
      BY <2>1 DEF History
    <3>2. \A n \in Nat : [h[c] EXCEPT !.attempts = n, !.misses = 0] \in History
      BY <2>1 DEF History
    <3> QED
      BY <3>1, <3>2
  <2>4. h' \in [Candidates -> History]
    BY <1>c, <1>r, <2>0 DEF TypeOK
  <2>5. builder' \in [Builders -> [pc : {"idle", "insert", "update"}, c : Candidates \cup {"none"}]]
    BY DEF TypeOK, Ticks, Leaves
  <2> QED
    BY <2>3, <2>4, <2>5 DEF TypeOK
<1>2. CapInv'
  <2>1. Incubating' \subseteq Incubating \cup {c}
    BY <1>c, <1>r DEF TypeOK, Ticks, Incubating
  <2>2. b \in Pending /\ Pending' = Pending \ {b}
    BY DEF TypeOK, Ticks, Leaves, Pending
  <2> QED
    BY <2>1, <2>2, CapWritten
<1>3. SeenInv'
  BY <1>c, <1>r DEF TypeOK, Ticks, SeenInv, Leaves
<1>4. CountInv'
  <2> SUFFICES ASSUME NEW x \in Candidates
               PROVE /\ row'[x].status = "none" <=> h'[x].attempts = 0
                     /\ row'[x].status = "none" => row'[x].failures = 0
                     /\ h'[x].attempts <= 1 => row'[x].failures <= h'[x].misses
    BY DEF CountInv
  <2>1. CASE x = c
    <3>1. /\ row'[x].status = "INCUBATING" /\ row'[x].failures = row[x].failures
          /\ h'[x].attempts = h[x].attempts + 1 /\ h'[x].misses = 0
      BY <2>1, <1>r DEF TypeOK, Ticks, Row, History
    <3>2. h[x].attempts \in Nat /\ row[x].failures \in Nat
      BY DEF TypeOK, Ticks, Row, History
    <3>3. h[x].attempts = 0 => row[x].failures = 0
      BY DEF CountInv
    <3> QED
      BY <3>1, <3>2, <3>3
  <2>2. CASE x # c
    BY <2>2, <1>r DEF TypeOK, Ticks, CountInv
  <2> QED
    BY <2>1, <2>2
<1>5. ExpiryInv'
  BY <1>c, <1>r DEF TypeOK, Ticks, ExpiryInv, SeenInv, Row
<1> QED
  BY <1>1, <1>2, <1>3, <1>4, <1>5

LEMMA InsertKeeps == ASSUME IInv, NEW b \in Builders, Insert(b) PROVE IInv'
<1>1. CASE row[builder[b].c].status = "none"
  BY <1>1, EntersKeeps DEF Insert
<1>2. CASE row[builder[b].c].status # "none"
  <2>0. Leaves(b) /\ UNCHANGED <<row, h, daily, today, tick, ticked>>
    BY <1>2 DEF Insert
  <2> USE <2>0 DEF IInv
  <2>1. TypeOK'
    BY DEF TypeOK, Ticks, Leaves
  <2>2. CapInv'
    BY CapKept DEF TypeOK, Ticks, Leaves, Incubating, Pending
  <2>3. SeenInv' /\ CountInv' /\ ExpiryInv'
    BY DEF TypeOK, Ticks, Leaves, SeenInv, CountInv, ExpiryInv
  <2> QED
    BY <2>1, <2>2, <2>3
<1> QED
  BY <1>1, <1>2

LEMMA UpdateKeeps == ASSUME IInv, NEW b \in Builders, Update(b) PROVE IInv'
BY EntersKeeps DEF Update

-----------------------------------------------------------------------------
(* The steps of the daily tick. *)

\* A verdict on a candidate that has a row.
LEMMA SettlesKeeps ==
    ASSUME IInv, NEW c \in Candidates, row[c].status # "none",
           NEW status \in Decided, NEW reason \in Reason, Settles(c, status, reason),
           tick' = ToNext \/ \E S \in SUBSET tick.todo : tick' = [tick EXCEPT !.todo = S],
           tick.pc = "fetch" \/ tick' = ToNext,
           UNCHANGED <<daily, today, ticked, builder, h>>
    PROVE  IInv'
<1> USE DEF IInv, Decided
<1>r. row' = [row EXCEPT ![c] = [row[c] EXCEPT !.status = status, !.reason = reason,
                                             !.changed = today]]
  BY DEF Settles
<1>t. tick'.pc = "fetch" /\ tick'.todo \subseteq tick.todo
  BY DEF TypeOK, Ticks, ToNext
<1>1. TypeOK'
  <2>1. row[c] \in Row /\ today \in Nat
    BY DEF TypeOK
  <2>2. [row[c] EXCEPT !.status = status, !.reason = reason, !.changed = today] \in Row
    BY <2>1 DEF Row, Status
  <2>3. row' \in [Candidates -> Row]
    BY <1>r, <2>2 DEF TypeOK
  <2>4. tick' \in Ticks
    <3>1. CASE tick' = ToNext
      BY <3>1, TickTypes DEF TypeOK
    <3>2. CASE \E S \in SUBSET tick.todo : tick' = [tick EXCEPT !.todo = S]
      BY <3>2 DEF TypeOK, Ticks
    <3> QED
      BY <3>1, <3>2
  <2> QED
    BY <2>3, <2>4 DEF TypeOK
<1>2. CapInv'
  BY <1>r, CapKept DEF TypeOK, Ticks, Incubating, Pending
<1>3. SeenInv'
  BY <1>r, <1>t DEF TypeOK, Ticks, SeenInv
<1>4. CountInv' /\ ExpiryInv'
  BY <1>r, <1>t DEF TypeOK, Ticks, CountInv, ExpiryInv, Row
<1> QED
  BY <1>1, <1>2, <1>3, <1>4

\* A step of the tick that leaves the rows alone.
LEMMA TickKeeps ==
    ASSUME IInv, TypeOK', UNCHANGED <<row, builder, h>>,
           \A c \in tick'.todo : row[c].status # "none",
           tick'.pc = "append" => /\ tick.pc = "append" /\ tick'.c = tick.c
                                  /\ tick'.day >= 1,
           tick'.pc # "expire"
    PROVE  IInv'
<1> USE DEF IInv
<1>1. CapInv'
  BY CapKept DEF Incubating, Pending
<1>2. SeenInv' /\ CountInv' /\ ExpiryInv'
  BY DEF SeenInv, CountInv, ExpiryInv
<1> QED
  BY <1>1, <1>2

LEMMA BeginTickKeeps == ASSUME IInv, BeginTick PROVE IInv'
<1>1. PICK spy \in BOOLEAN :
        tick' = IF Incubating = {} THEN Idle
                ELSE [Idle EXCEPT !.pc = "fetch", !.todo = Incubating, !.spy = spy]
  BY DEF BeginTick
<1>2. tick'.todo \subseteq Incubating /\ tick'.pc \in {"idle", "fetch"}
  BY <1>1 DEF Idle
<1>3. TypeOK'
  BY <1>1 DEF IInv, TypeOK, Ticks, BeginTick, Idle, Incubating
<1> QED
  BY <1>2, <1>3, TickKeeps DEF BeginTick, Incubating

LEMMA FetchOkKeeps == ASSUME IInv, NEW c \in Candidates, FetchOk(c) PROVE IInv'
<1> USE DEF IInv
<1>r. /\ row' = [row EXCEPT ![c].failures = 0] /\ h' = [h EXCEPT ![c].misses = 0]
      /\ tick' = [tick EXCEPT !.pc = "append", !.todo = @ \ {c}, !.c = c, !.day = 1]
      /\ c \in tick.todo /\ UNCHANGED <<daily, today, ticked, builder>>
  BY DEF FetchOk, Takes
<1>1. TypeOK'
  <2>1. row[c] \in Row /\ h[c] \in History
    BY DEF TypeOK
  <2>2. [row[c] EXCEPT !.failures = 0] \in Row /\ [h[c] EXCEPT !.misses = 0] \in History
    BY <2>1 DEF Row, History
  <2>3. row' \in [Candidates -> Row] /\ h' \in [Candidates -> History]
    BY <1>r, <2>2 DEF TypeOK
  <2>4. tick' \in Ticks
    BY <1>r DEF TypeOK, Ticks
  <2> QED
    BY <1>r, <2>3, <2>4 DEF TypeOK
<1>2. CapInv'
  BY <1>r, CapKept DEF TypeOK, Ticks, Incubating, Pending, Row
<1>3. SeenInv' /\ ExpiryInv'
  BY <1>r DEF TypeOK, Ticks, SeenInv, ExpiryInv, Row
<1>4. CountInv'
  BY <1>r DEF TypeOK, Ticks, CountInv, Row, History
<1> QED
  BY <1>1, <1>2, <1>3, <1>4

LEMMA FetchFailsKeeps == ASSUME IInv, NEW c \in Candidates, FetchFails(c) PROVE IInv'
<1> USE DEF IInv
<1>r. /\ row' = [row EXCEPT ![c].failures = row[c].failures + 1]
      /\ h' = [h EXCEPT ![c].misses = h[c].misses + 1]
      /\ tick' = IF row[c].failures + 1 >= INCUBATION_MAX_FETCH_FAILURES
                 THEN [tick EXCEPT !.pc = "expire", !.todo = tick.todo \ {c}, !.c = c]
                 ELSE [tick EXCEPT !.todo = tick.todo \ {c}]
      /\ c \in tick.todo /\ tick.pc = "fetch" /\ UNCHANGED <<daily, today, ticked, builder>>
  BY DEF FetchFails, Takes
<1>n. row[c].failures \in Nat /\ h[c].misses \in Nat /\ row[c].status # "none"
  BY <1>r DEF TypeOK, Ticks, Row, History, SeenInv
<1>1. TypeOK'
  <2>0. row[c] \in Row /\ h[c] \in History
    BY DEF TypeOK
  <2>a. /\ [row[c] EXCEPT !.failures = row[c].failures + 1] \in Row
        /\ [h[c] EXCEPT !.misses = h[c].misses + 1] \in History
    <3>1. /\ \A n \in Nat : [row[c] EXCEPT !.failures = n] \in Row
          /\ \A n \in Nat : [h[c] EXCEPT !.misses = n] \in History
      BY <2>0 DEF Row, History
    <3>2. row[c].failures + 1 \in Nat /\ h[c].misses + 1 \in Nat
      BY <1>n
    <3> QED
      BY <3>1, <3>2
  <2>1. row' \in [Candidates -> Row] /\ h' \in [Candidates -> History]
    BY <1>r, <2>a DEF TypeOK
  <2>2. tick' \in Ticks
    BY <1>r DEF TypeOK, Ticks
  <2> QED
    BY <1>r, <2>1, <2>2 DEF TypeOK
<1>2. CapInv'
  BY <1>r, CapKept DEF TypeOK, Ticks, Incubating, Pending, Row
<1>3. SeenInv'
  BY <1>r, <1>n DEF TypeOK, Ticks, SeenInv, Row
<1>4. ExpiryInv'
  BY <1>r, <1>n DEF TypeOK, Ticks, ExpiryInv, Row
<1>5. CountInv'
  BY <1>r, <1>n DEF TypeOK, Ticks, CountInv, Row, History
<1> QED
  BY <1>1, <1>2, <1>3, <1>4, <1>5

LEMMA ExpireKeeps == ASSUME IInv, Expire PROVE IInv'
BY SettlesKeeps DEF Expire, IInv, SeenInv, Decided, Reason

LEMMA FetchInvalidKeeps == ASSUME IInv, NEW c \in Candidates, FetchInvalid(c) PROVE IInv'
BY SettlesKeeps DEF FetchInvalid, Takes, IInv, SeenInv, Decided, Reason

LEMMA SkipKeeps == ASSUME IInv, NEW c \in Candidates, Skip(c) PROVE IInv'
<1>1. tick' \in Ticks /\ tick'.pc = "fetch" /\ tick'.todo \subseteq tick.todo
  BY DEF Skip, Takes, IInv, TypeOK, Ticks
<1>2. TypeOK'
  BY <1>1 DEF Skip, IInv, TypeOK
<1> QED
  BY <1>1, <1>2, TickKeeps DEF Skip, IInv, SeenInv

LEMMA AppendDayKeeps == ASSUME IInv, AppendDay PROVE IInv'
<1> USE DEF IInv
<1>1. PICK r \in Returns : daily' = [daily EXCEPT ![tick.c] =
            [x \in DOMAIN daily[tick.c] \cup {tick.day} |->
                IF x \in DOMAIN daily[tick.c] THEN daily[tick.c][x]
                ELSE [ret |-> r, spy |-> tick.spy]]]
  BY DEF AppendDay, Append
<1>2. tick.c \in Candidates /\ tick.day \in 1..today
  BY DEF AppendDay, SeenInv, TypeOK, Ticks
<1>3. /\ tick' = [tick EXCEPT !.day = tick.day + 1] /\ tick.pc = "append"
      /\ UNCHANGED <<row, today, ticked, builder, h>>
  BY DEF AppendDay
<1>4. ASSUME NEW x \in Candidates
      PROVE  /\ DOMAIN daily'[x] \subseteq 1..today
             /\ daily'[x] \in [DOMAIN daily'[x] -> [ret : Returns, spy : BOOLEAN]]
  <2>1. CASE x = tick.c /\ tick.c \in DOMAIN daily
    <3>1. daily'[x] = [y \in DOMAIN daily[x] \cup {tick.day} |->
                IF y \in DOMAIN daily[x] THEN daily[x][y] ELSE [ret |-> r, spy |-> tick.spy]]
      BY <1>1, <2>1
    <3>2. [ret |-> r, spy |-> tick.spy] \in [ret : Returns, spy : BOOLEAN]
      BY DEF TypeOK, Ticks
    <3> QED
      BY <3>1, <3>2, <1>2 DEF TypeOK
  <2>2. CASE x # tick.c \/ tick.c \notin DOMAIN daily
    <3>1. daily'[x] = daily[x]
      BY <1>1, <2>2
    <3> QED
      BY <3>1 DEF TypeOK
  <2> QED
    BY <2>1, <2>2
<1>5. TypeOK'
  <2>1. tick' \in Ticks
    BY <1>2, <1>3 DEF TypeOK, Ticks
  <2> QED
    BY <1>3, <1>4, <2>1 DEF TypeOK
<1> QED
  BY <1>2, <1>3, <1>5, TickKeeps DEF TypeOK, Ticks, SeenInv

LEMMA JudgeKeeps == ASSUME IInv, Judge PROVE IInv'
<1>1. tick.c \in Candidates /\ row[tick.c].status # "none" /\ tick.pc = "append"
  BY DEF Judge, IInv, SeenInv
<1>2. CASE UNCHANGED row
  <2>1. TypeOK'
    BY <1>2 DEF Judge, IInv, TypeOK, Ticks, ToNext
  <2> QED
    BY <1>2, <2>1, TickKeeps DEF Judge, IInv, TypeOK, Ticks, SeenInv, ToNext
<1>3. ASSUME NEW status \in Decided, NEW reason \in Reason, Settles(tick.c, status, reason)
      PROVE  IInv'
  BY <1>1, <1>3, SettlesKeeps DEF Judge
<1> QED
  BY <1>2, <1>3 DEF Judge, Decided, Reason

LEMMA OthersKeep == ASSUME IInv, EndTick \/ Interrupted PROVE IInv'
<1>0. /\ tick' \in {Idle, ToNext} /\ tick.pc # "idle"
      /\ UNCHANGED <<row, daily, today, ticked, builder, h>>
  BY DEF EndTick, Interrupted
<1>1. tick' \in Ticks
  BY <1>0, TickTypes DEF IInv, TypeOK
<1>2. TypeOK'
  BY <1>0, <1>1 DEF IInv, TypeOK
<1>3. tick'.pc \in {"idle", "fetch"} /\ tick'.todo \subseteq tick.todo
  BY <1>0, TickTypes DEF IInv, TypeOK
<1> QED
  BY <1>0, <1>2, <1>3, TickKeeps DEF IInv, SeenInv

LEMMA NextDayKeeps == ASSUME IInv, NextDay PROVE IInv'
<1>0. today' = today + 1 /\ ticked' = FALSE /\ UNCHANGED <<row, daily, tick, builder, h>>
  BY DEF NextDay
<1>1. TypeOK'
  <2>1. today \in Nat /\ today' \in Nat /\ 1..today \subseteq 1..today'
    BY <1>0 DEF IInv, TypeOK
  <2>2. ASSUME NEW c \in Candidates
        PROVE  /\ DOMAIN daily'[c] \subseteq 1..today'
               /\ daily'[c] \in [DOMAIN daily'[c] -> [ret : Returns, spy : BOOLEAN]]
    BY <1>0, <2>1 DEF IInv, TypeOK
  <2> QED
    BY <1>0, <2>1, <2>2 DEF IInv, TypeOK
<1> QED
  BY <1>1, TickKeeps DEF IInv, SeenInv, NextDay

-----------------------------------------------------------------------------
LEMMA NextIInv == IInv /\ [Next]_vars => IInv'
<1> SUFFICES ASSUME IInv, [Next]_vars PROVE IInv'
  OBVIOUS
<1>1. CASE Admission
  BY <1>1, CheckKeeps, InsertKeeps, UpdateKeeps DEF Admission
<1>2. CASE TickStep
  BY <1>2, BeginTickKeeps, ExpireKeeps, AppendDayKeeps, JudgeKeeps, OthersKeep,
     FetchOkKeeps, FetchFailsKeeps, FetchInvalidKeeps, SkipKeeps DEF TickStep
<1>3. CASE Interrupted \/ NextDay
  BY <1>3, OthersKeep, NextDayKeeps
<1>4. CASE UNCHANGED vars
  BY <1>4 DEF vars, IInv, TypeOK, Ticks, CapInv, Incubating, Pending, SeenInv, CountInv, ExpiryInv
<1> QED
  BY <1>1, <1>2, <1>3, <1>4 DEF Next

\* The inductive invariant holds for every number of candidates and runs.
THEOREM IncubationInvariant == Spec => []IInv
<1>1. Init => IInv
  BY InitIInv
<1>2. IInv /\ [Next]_vars => IInv'
  BY NextIInv
<1> QED
  BY <1>1, <1>2, PTL DEF Spec

\* However many proposal runs race for the last place of the ledger
\* (register_incubation_candidate counts, then writes), they exceed the cap by
\* at most one candidate for every run beyond the first.
THEOREM CapHolds == Spec => []CapIsBounded
<1>1. IInv => CapIsBounded
  BY Counted, CapAssumption DEF IInv, CapInv, CapIsBounded
<1> QED
  BY <1>1, IncubationInvariant, PTL

\* No step gives up a candidate on its first incubation before as many fetches
\* in a row have failed as _handle_fetch_outcome asks for.
THEOREM PatienceHolds == Spec => ExpiryIsEarned
<1> DEFINE Earned == \A c \in Candidates :
        /\ row[c].status = "INCUBATING" /\ row'[c].status = "EXPIRED"
        /\ row'[c].reason = "fetch_failures_exhausted" /\ h[c].attempts = 1
        => h[c].misses >= INCUBATION_MAX_FETCH_FAILURES
<1>1. IInv /\ [Next]_vars => [Earned]_vars
  <2> SUFFICES ASSUME IInv, Next, NEW c \in Candidates,
                      row[c].status = "INCUBATING", row'[c].status = "EXPIRED",
                      row'[c].reason = "fetch_failures_exhausted", h[c].attempts = 1
               PROVE  h[c].misses >= INCUBATION_MAX_FETCH_FAILURES
    OBVIOUS
  <2> USE DEF IInv
  <2>n. /\ row \in [Candidates -> Row] /\ row[c].failures \in Nat /\ h[c].misses \in Nat
        /\ INCUBATION_MAX_FETCH_FAILURES \in Nat
    BY CountAssumption DEF TypeOK, Ticks, Row, History
  <2>1. CASE Expire
    <3>1. tick.pc = "expire" /\ tick.c = c
      BY <2>1, <2>n DEF Expire, Settles
    <3>2. row[c].failures >= INCUBATION_MAX_FETCH_FAILURES /\ row[c].failures <= h[c].misses
      BY <3>1 DEF ExpiryInv, CountInv
    <3> QED
      BY <3>2, <2>n
  <2>2. CASE Admission
    <3>1. CASE \E b \in Builders : Insert(b) \/ Update(b)
      <4>1. PICK b \in Builders : Insert(b) \/ Update(b)
        BY <3>1
      <4>2. UNCHANGED row \/ row' = [row EXCEPT ![builder[b].c] =
                [row[builder[b].c] EXCEPT !.status = "INCUBATING", !.reason = "none",
                                          !.admitted = today, !.changed = 0]]
        BY <4>1 DEF Insert, Update, Enters
      <4>3. row'[c] = row[c] \/ row'[c] = [row[c] EXCEPT !.status = "INCUBATING",
                !.reason = "none", !.admitted = today, !.changed = 0]
        BY <4>2, <2>n
      <4>4. row'[c] = row[c] \/ row'[c].status = "INCUBATING"
        BY <4>3, <2>n DEF Row
      <4> QED
        BY <4>4
    <3>2. CASE \E b \in Builders, d \in Candidates : Check(b, d)
      BY <3>2 DEF Check
    <3> QED
      BY <2>2, <3>1, <3>2 DEF Admission
  <2>3. CASE \E d \in Candidates : FetchOk(d) \/ FetchFails(d) \/ FetchInvalid(d)
    <3>1. PICK d \in Candidates : FetchOk(d) \/ FetchFails(d) \/ FetchInvalid(d)
      BY <2>3
    <3>2. CASE FetchOk(d) \/ FetchFails(d)
      <4>1. row'[c] = row[c] \/ row'[c] = [row[c] EXCEPT !.failures = 0]
            \/ row'[c] = [row[c] EXCEPT !.failures = row[c].failures + 1]
        BY <3>2, <2>n DEF FetchOk, FetchFails
      <4> QED
        BY <4>1, <2>n DEF Row
    <3>3. CASE FetchInvalid(d)
      <4>1. row'[c] = row[c] \/ row'[c] = [row[c] EXCEPT !.status = "EXPIRED",
                !.reason = "composer_422_tree_invalid", !.changed = today]
        BY <3>3, <2>n DEF FetchInvalid, Settles
      <4> QED
        BY <4>1, <2>n DEF Row
    <3> QED
      BY <3>1, <3>2, <3>3
  <2>4. CASE Judge
    <3>1. row'[c] = row[c] \/ \E r \in {"none", "mdd_breach", "forward_alpha_negative"},
                s \in Decided :
            row'[c] = [row[c] EXCEPT !.status = s, !.reason = r, !.changed = today]
      <4>1. \/ UNCHANGED row
            \/ Settles(tick.c, "FAILED", "mdd_breach")
            \/ Settles(tick.c, "PROMOTED", "none")
            \/ Settles(tick.c, "FAILED", "forward_alpha_negative")
        BY <2>4, Zenon DEF Judge
      <4>2. ASSUME NEW d, NEW s \in Decided,
                   NEW r \in {"none", "mdd_breach", "forward_alpha_negative"},
                   Settles(d, s, r)
            PROVE  row'[c] = row[c]
                   \/ row'[c] = [row[c] EXCEPT !.status = s, !.reason = r, !.changed = today]
        BY <4>2, <2>n DEF Settles
      <4>3. {"PROMOTED", "FAILED"} \subseteq Decided
        BY DEF Decided
      <4> QED
        BY <4>1, <4>2, <4>3, Zenon
    <3> QED
      BY <3>1, <2>n DEF Row
  <2>5. CASE BeginTick \/ AppendDay \/ EndTick \/ Interrupted \/ NextDay
             \/ \E d \in Candidates : Skip(d)
    BY <2>5 DEF Skip, BeginTick, AppendDay, EndTick, Interrupted, NextDay
  <2> QED
    BY <2>1, <2>2, <2>3, <2>4, <2>5 DEF Next, TickStep
<1> QED
  BY <1>1, IncubationInvariant, PTL DEF Spec, ExpiryIsEarned

-----------------------------------------------------------------------------
(* What a write does to the rows, of whichever candidate. *)

LEMMA SettlesRow ==
    ASSUME IInv, NEW d \in Candidates, NEW status, NEW reason, Settles(d, status, reason),
           NEW c \in Candidates
    PROVE  /\ c # d => row'[c] = row[c]
           /\ c = d => row'[c].status = status
<1>1. row \in [Candidates -> Row]
  BY DEF IInv, TypeOK
<1>2. c = d => row'[c] = [row[c] EXCEPT !.status = status, !.reason = reason, !.changed = today]
  BY <1>1 DEF Settles
<1>3. c # d => row'[c] = row[c]
  BY <1>1 DEF Settles
<1> QED
  BY <1>1, <1>2, <1>3 DEF Row

LEMMA EntersRow ==
    ASSUME IInv, NEW d \in Candidates, Enters(d), NEW c \in Candidates
    PROVE  /\ c # d => row'[c] = row[c]
           /\ c = d => row'[c].status = "INCUBATING"
           /\ h'[c].rivals = h[c].rivals
<1>1. row \in [Candidates -> Row] /\ h \in [Candidates -> History]
  BY DEF IInv, TypeOK
<1>2. c = d => row'[c] = [row[c] EXCEPT !.status = "INCUBATING", !.reason = "none",
                                       !.admitted = today, !.changed = 0]
  BY <1>1 DEF Enters
<1>3. c # d => row'[c] = row[c]
  BY <1>1 DEF Enters
<1>4. h'[c].rivals = h[c].rivals
  BY <1>1 DEF Enters, History
<1> QED
  BY <1>1, <1>2, <1>3, <1>4 DEF Row

\* A verdict is passed on the candidate at hand, or on one the tick still has to fetch.
LEMMA TickRow ==
    ASSUME IInv, TickStep, NEW c \in Candidates
    PROVE  /\ \/ row'[c].status = row[c].status /\ row'[c].changed = row[c].changed
              \/ c \in tick.todo /\ row'[c].status = "EXPIRED"
              \/ Expire /\ c = tick.c /\ row'[c].status = "EXPIRED"
              \/ Judge /\ c = tick.c /\ row'[c].status \in {"PROMOTED", "FAILED"}
           /\ h'[c].rivals = h[c].rivals
<1>t. row \in [Candidates -> Row] /\ h \in [Candidates -> History]
  BY DEF IInv, TypeOK
<1>1. CASE BeginTick \/ AppendDay \/ EndTick \/ \E d \in Candidates : Skip(d)
  BY <1>1 DEF BeginTick, AppendDay, EndTick, Skip
<1>2. CASE Expire
  <2>1. tick.c \in Candidates /\ Settles(tick.c, "EXPIRED", "fetch_failures_exhausted")
    BY <1>2 DEF Expire, IInv, SeenInv
  <2> QED
    BY <1>2, <2>1, SettlesRow DEF Expire
<1>3. CASE Judge
  <2>1. tick.c \in Candidates /\ UNCHANGED <<h, builder, today>>
    BY <1>3 DEF Judge, IInv, SeenInv
  <2>2. \/ UNCHANGED row
        \/ \E status \in {"PROMOTED", "FAILED"}, reason \in Reason :
                Settles(tick.c, status, reason)
    BY <1>3, Zenon DEF Judge, Reason
  <2> QED
    BY <1>3, <2>1, <2>2, SettlesRow
<1>4. ASSUME NEW d \in Candidates, FetchInvalid(d)
      PROVE  row'[c] = row[c] \/ (c \in tick.todo /\ row'[c].status = "EXPIRED")
  <2>1. Settles(d, "EXPIRED", "composer_422_tree_invalid") /\ d \in tick.todo
    BY <1>4 DEF FetchInvalid, Takes
  <2>2. c # d => row'[c] = row[c]
    BY <2>1, SettlesRow
  <2>3. c = d => row'[c].status = "EXPIRED"
    BY <2>1, SettlesRow
  <2> QED
    BY <2>1, <2>2, <2>3
<1>5. ASSUME NEW d \in Candidates, FetchOk(d) \/ FetchFails(d)
      PROVE  /\ row'[c].status = row[c].status /\ row'[c].changed = row[c].changed
             /\ h'[c].rivals = h[c].rivals
  <2>1. \/ row' = [row EXCEPT ![d].failures = 0]
        \/ row' = [row EXCEPT ![d].failures = @ + 1]
    BY <1>5 DEF FetchOk, FetchFails
  <2>2. \/ h' = [h EXCEPT ![d].misses = 0]
        \/ h' = [h EXCEPT ![d].misses = @ + 1]
    BY <1>5 DEF FetchOk, FetchFails
  <2>3. row'[c].status = row[c].status /\ row'[c].changed = row[c].changed
    BY <1>t, <2>1 DEF Row
  <2>4. h'[c].rivals = h[c].rivals
    BY <1>t, <2>2 DEF History
  <2> QED
    BY <2>3, <2>4
<1>6. CASE \E d \in Candidates : FetchOk(d) \/ FetchFails(d)
  BY <1>5, <1>6 DEF FetchOk, FetchFails
<1>7. CASE \E d \in Candidates : FetchInvalid(d)
  BY <1>4, <1>7 DEF FetchInvalid
<1> QED
  BY <1>1, <1>2, <1>3, <1>6, <1>7 DEF TickStep

-----------------------------------------------------------------------------
(* The days a verdict rests on. *)

LEMMA DaysStep == IInv /\ DaysInv /\ [Next]_vars => DaysInv'
<1> SUFFICES ASSUME IInv, DaysInv, [Next]_vars PROVE DaysInv'
  OBVIOUS
<1>1. CASE AppendDay
  <2>1. tick \in Ticks /\ tick.c \in Candidates /\ tick.day \in Nat
    BY <1>1 DEF AppendDay, IInv, TypeOK, SeenInv, Ticks
  <2>2. PICK r \in Returns : daily' = [daily EXCEPT ![tick.c] =
            [x \in DOMAIN daily[tick.c] \cup {tick.day} |->
                IF x \in DOMAIN daily[tick.c] THEN daily[tick.c][x]
                ELSE [ret |-> r, spy |-> tick.spy]]]
    BY <1>1 DEF AppendDay, Append
  <2>3. DOMAIN daily' = Candidates
        /\ DOMAIN daily'[tick.c] = DOMAIN daily[tick.c] \cup {tick.day}
    BY <2>1, <2>2 DEF DaysInv
  <2>4. tick'.c = tick.c /\ tick'.day = tick.day + 1 /\ tick.pc = "append"
    BY <1>1, <2>1 DEF AppendDay, Ticks
  <2>5. \A n \in Nat : 1..(n + 1 - 1) \subseteq (1..(n - 1)) \cup {n}
    OBVIOUS
  <2>6. 1..(tick'.day - 1) \subseteq (1..(tick.day - 1)) \cup {tick.day}
    <3>1. tick'.day - 1 = tick.day + 1 - 1
      BY <2>1, <2>4
    <3>2. 1..(tick.day + 1 - 1) \subseteq (1..(tick.day - 1)) \cup {tick.day}
      BY <2>1, <2>5
    <3> QED
      BY <3>1, <3>2, Zenon
  <2>7. 1..(tick.day - 1) \subseteq DOMAIN daily[tick.c]
    BY <2>4 DEF DaysInv
  <2>8. 1..(tick'.day - 1) \subseteq DOMAIN daily'[tick'.c]
    BY <2>3, <2>4, <2>6, <2>7
  <2> QED
    BY <2>3, <2>8 DEF DaysInv
<1>2. CASE \E d \in Candidates : FetchOk(d)
  <2>1. tick'.day = 1 /\ daily' = daily
    BY <1>2 DEF FetchOk, IInv, TypeOK, Ticks
  <2>2. 1..(1 - 1) = {}
    OBVIOUS
  <2> QED
    BY <2>1, <2>2 DEF DaysInv
<1>3. ASSUME daily' = daily, tick' = tick \/ tick'.pc # "append" PROVE DaysInv'
  BY <1>3 DEF DaysInv
<1>4. CASE Admission \/ NextDay \/ UNCHANGED vars
  BY <1>3, <1>4 DEF Admission, Check, Insert, Update, NextDay, vars
<1>5. CASE EndTick \/ Interrupted \/ Judge \/ Expire
  <2>1. daily' = daily /\ (tick' = Idle \/ tick' = ToNext)
    BY <1>5 DEF EndTick, Interrupted, Judge, Expire
  <2> QED
    BY <1>3, <2>1, TickTypes DEF IInv, TypeOK
<1>6. CASE BeginTick \/ \E d \in Candidates : FetchFails(d) \/ FetchInvalid(d) \/ Skip(d)
  <2>1. daily' = daily /\ tick'.pc \in {"idle", "fetch", "expire"}
    <3>1. CASE BeginTick
      BY <3>1 DEF BeginTick, Idle
    <3>2. CASE \E d \in Candidates : FetchFails(d)
      BY <3>2 DEF FetchFails, Takes, IInv, TypeOK, Ticks
    <3>3. CASE \E d \in Candidates : FetchInvalid(d) \/ Skip(d)
      BY <3>3 DEF FetchInvalid, Skip, Takes, IInv, TypeOK, Ticks
    <3> QED
      BY <1>6, <3>1, <3>2, <3>3
  <2> QED
    BY <1>3, <2>1
<1> QED
  BY <1>1, <1>2, <1>4, <1>5, <1>6 DEF Next, TickStep

\* A verdict on a candidate rests on every day of its backtest so far: the
\* days that earlier nights left out (a tick cut short, a daemon that was down)
\* are recorded before run_incubation_tick evaluates.
THEOREM VerdictsSeeEveryDay == Spec => JudgedOnEveryDay
<1> DEFINE Whole == \A c \in Candidates :
        row[c].status = "INCUBATING" /\ row'[c].status \in {"PROMOTED", "FAILED"}
            => DOMAIN daily[c] = 1..today
<1>1. Init => DaysInv
  BY DEF Init, Idle, DaysInv
<1>2. IInv /\ DaysInv /\ [Next]_vars => [Whole]_vars
  <2> SUFFICES ASSUME IInv, DaysInv, Next, NEW c \in Candidates, row[c].status = "INCUBATING",
                      row'[c].status \in {"PROMOTED", "FAILED"}
               PROVE  DOMAIN daily[c] = 1..today
    OBVIOUS
  <2>1. CASE TickStep
    <3>1. Judge /\ c = tick.c
      BY <2>1, TickRow
    <3>2. /\ 1..(tick.day - 1) \subseteq DOMAIN daily[c] /\ DOMAIN daily[c] \subseteq 1..today
          /\ tick.day > today /\ tick.day \in Nat /\ today \in Nat
      BY <3>1 DEF Judge, IInv, TypeOK, Ticks, DaysInv
    <3>3. 1..today \subseteq 1..(tick.day - 1)
      BY <3>2
    <3> QED
      BY <3>2, <3>3
  <2>2. CASE Admission
    <3>1. PICK b \in Builders : Insert(b) \/ Update(b) \/ \E d \in Candidates : Check(b, d)
      BY <2>2 DEF Admission
    <3>2. row' = row \/ (builder[b].c \in Candidates /\ Enters(builder[b].c))
      BY <3>1 DEF Insert, Update, Check, IInv, SeenInv
    <3> QED
      BY <3>2, EntersRow
  <2>3. CASE Interrupted \/ NextDay
    BY <2>3 DEF Interrupted, NextDay
  <2> QED
    BY <2>1, <2>2, <2>3 DEF Next
<1> QED
  BY <1>1, <1>2, DaysStep, IncubationInvariant, PTL DEF Spec, JudgedOnEveryDay

-----------------------------------------------------------------------------
(* What was decided. *)

LEMMA WorkStep == IInv /\ WorkInv /\ [Next]_vars => WorkInv'
<1> SUFFICES ASSUME IInv, WorkInv, [Next]_vars PROVE WorkInv'
  OBVIOUS
<1>t. tick \in Ticks /\ row \in [Candidates -> Row]
  BY DEF IInv, TypeOK
<1>1. CASE Admission
  <2>1. PICK b \in Builders : Insert(b) \/ Update(b) \/ \E d \in Candidates : Check(b, d)
    BY <1>1 DEF Admission
  <2>2. row' = row \/ (builder[b].c \in Candidates /\ Enters(builder[b].c))
    <3>1. builder[b].pc # "idle" => builder[b].c \in Candidates
      BY DEF IInv, SeenInv
    <3>2. CASE Insert(b) \/ Update(b)
      BY <3>1, <3>2 DEF Insert, Update
    <3>3. CASE \E d \in Candidates : Check(b, d)
      BY <3>3 DEF Check
    <3> QED
      BY <2>1, <3>2, <3>3
  <2>3. tick' = tick
    BY <2>1 DEF Insert, Update, Check
  <2>4. \A c \in Candidates : row[c].status = "INCUBATING" => row'[c].status = "INCUBATING"
    BY <2>2, EntersRow
  <2>5. /\ tick.todo \subseteq Candidates
        /\ tick.pc \in {"append", "expire"} => tick.c \in Candidates
    BY <1>t DEF Ticks, IInv, SeenInv
  <2> QED
    BY <2>3, <2>4, <2>5 DEF WorkInv
<1>2. CASE Expire \/ Judge
  <2>1. tick' = ToNext /\ tick.pc \in {"append", "expire"} /\ tick.c \in Candidates
    BY <1>2 DEF Expire, Judge, IInv, SeenInv
  <2>2. tick'.pc = "fetch" /\ tick'.todo = tick.todo
    BY <1>t, <2>1, TickTypes
  <2>3. ASSUME NEW c \in tick.todo PROVE row'[c] = row[c]
    <3>1. c # tick.c /\ c \in Candidates
      BY <1>t, <2>1 DEF WorkInv, Ticks
    <3>2. CASE Expire
      BY <3>1, <3>2, <2>1, SettlesRow DEF Expire
    <3>3. CASE Judge
      <4>1. UNCHANGED row \/ \E status, reason : Settles(tick.c, status, reason)
        BY <3>3, Zenon DEF Judge
      <4> QED
        BY <3>1, <2>1, <4>1, SettlesRow
    <3> QED
      BY <1>2, <3>2, <3>3
  <2> QED
    BY <2>2, <2>3 DEF WorkInv
<1>3. CASE BeginTick
  <2>1. row' = row /\ tick'.pc \in {"idle", "fetch"} /\ tick'.todo \subseteq Incubating
    BY <1>3 DEF BeginTick, Idle
  <2> QED
    BY <2>1 DEF WorkInv, Incubating
<1>4. CASE AppendDay \/ EndTick \/ Interrupted \/ NextDay \/ UNCHANGED vars
           \/ \E d \in Candidates : Skip(d)
  <2>1. /\ row' = row /\ tick'.todo \subseteq tick.todo
        /\ tick'.pc \in {"append", "expire"} => tick'.c = tick.c /\ tick'.pc = tick.pc
    BY <1>4, <1>t, TickTypes DEF AppendDay, EndTick, Interrupted, NextDay, vars, Skip, Takes, Ticks
  <2> QED
    BY <2>1 DEF WorkInv
<1>5. ASSUME NEW d \in Candidates, FetchOk(d) \/ FetchFails(d) \/ FetchInvalid(d)
      PROVE  WorkInv'
  <2>1. /\ tick'.todo = tick.todo \ {d} /\ d \in tick.todo
        /\ tick'.pc = "fetch" \/ tick'.c = d
    BY <1>5, <1>t DEF FetchOk, FetchFails, FetchInvalid, Takes, Ticks
  <2>2. \A c \in tick.todo \ {d} : row'[c].status = row[c].status
    BY <1>5, <1>t, SettlesRow DEF FetchOk, FetchFails, FetchInvalid, Ticks, Row
  <2>3. FetchOk(d) \/ FetchFails(d) => row'[d].status = row[d].status
    BY <1>t DEF FetchOk, FetchFails, Row
  <2>4. FetchInvalid(d) => tick'.pc = "fetch"
    BY <1>t DEF FetchInvalid, Takes, Ticks
  <2> QED
    BY <1>5, <2>1, <2>2, <2>3, <2>4 DEF WorkInv
<1> QED
  BY <1>1, <1>2, <1>3, <1>4, <1>5 DEF Next, TickStep

LEMMA ClaimStep == IInv /\ WorkInv /\ ClaimInv /\ [Next]_vars => ClaimInv'
<1> SUFFICES ASSUME IInv, WorkInv, ClaimInv, [Next]_vars PROVE ClaimInv'
  OBVIOUS
<1>t. /\ tick \in Ticks /\ row \in [Candidates -> Row] /\ h \in [Candidates -> History]
      /\ builder \in [Builders -> [pc : {"idle", "insert", "update"},
                                   c : Candidates \cup {"none"}]]
  BY DEF IInv, TypeOK
<1>c. \A b \in Builders : builder[b].pc = "update" => builder[b].c \in Candidates
  BY DEF IInv, SeenInv
<1>1. CASE TickStep
  <2>1. /\ \A c \in Candidates : h'[c].rivals = h[c].rivals
        /\ UNCHANGED <<builder, today>>
    <3>1. UNCHANGED <<builder, today>>
      BY <1>1 DEF TickStep, BeginTick, Expire, AppendDay, Judge, EndTick, FetchOk, FetchFails,
         FetchInvalid, Skip
    <3> QED
      BY <1>1, <3>1, TickRow
  <2>2. ASSUME NEW c \in Candidates, row[c].status # "INCUBATING"
        PROVE  row'[c].status = row[c].status /\ row'[c].changed = row[c].changed
    BY <1>1, <2>2, TickRow DEF WorkInv, Expire, Judge
  <2> QED
    BY <1>c, <2>1, <2>2 DEF ClaimInv
<1>2. ASSUME NEW b \in Builders, NEW c \in Candidates, Check(b, c) PROVE ClaimInv'
  <2> DEFINE check == [pc |-> IF row[c].status = "none" THEN "insert" ELSE "update", c |-> c]
  <2>0. /\ builder' = [builder EXCEPT ![b] = check] /\ builder[b].pc = "idle" /\ Admissible(c)
        /\ row' = row /\ today' = today
        /\ h' = [h EXCEPT ![c].rivals = @ \/ \E r \in Builders : builder[r] = builder'[b]]
    BY <1>2 DEF Check
  <2>1. builder'[b] = check /\ \A r \in Builders \ {b} : builder'[r] = builder[r]
    BY <2>0, <1>t
  <2>2. check.c = c /\ (check.pc = "update" => row[c].status # "none")
    OBVIOUS
  <2> HIDE DEF check
  <2>3. /\ h'[c].rivals <=> h[c].rivals \/ \E r \in Builders : builder[r] = check
        /\ \A d \in Candidates \ {c} : h'[d].rivals = h[d].rivals
    <3>1. h'[c] = [h[c] EXCEPT !.rivals = @ \/ \E r \in Builders : builder[r] = check]
          /\ \A d \in Candidates \ {c} : h'[d] = h[d]
      BY <2>0, <2>1, <1>t
    <3>2. h[c] \in History
      BY <1>t
    <3> QED
      BY <3>1, <3>2 DEF History
  <2>4. ASSUME NEW r \in Builders, builder'[r].pc = "update", ~h'[builder'[r].c].rivals
        PROVE  /\ row[builder'[r].c].status \in {"FAILED", "EXPIRED"}
               /\ today - row[builder'[r].c].changed >= INCUBATION_REFRACTORY_DAYS
    <3>1. CASE r = b
      BY <3>1, <2>0, <2>1, <2>2, <2>4 DEF Admissible
    <3>2. CASE r # b
      <4>1. builder'[r] = builder[r] /\ builder[r].c \in Candidates
        BY <3>2, <2>1, <2>4, <1>c
      <4>2. ~h[builder[r].c].rivals
        BY <4>1, <2>3, <2>4
      <4> QED
        BY <4>1, <4>2, <2>4 DEF ClaimInv
    <3> QED
      BY <3>1, <3>2
  <2>5. ASSUME NEW a \in Builders, NEW r \in Builders, a # r, builder'[a].pc = "update",
               builder'[a] = builder'[r]
        PROVE  h'[builder'[a].c].rivals
    <3>1. CASE a = b \/ r = b
      <4>1. builder'[a] = check /\ \E q \in Builders : builder[q] = check
        BY <3>1, <2>1, <2>5
      <4> QED
        BY <4>1, <2>2, <2>3
    <3>2. CASE a # b /\ r # b
      <4>1. builder'[a] = builder[a] /\ builder'[r] = builder[r] /\ builder[a].c \in Candidates
        BY <3>2, <2>1, <2>5, <1>c
      <4> QED
        BY <4>1, <2>3, <2>5 DEF ClaimInv
    <3> QED
      BY <3>1, <3>2
  <2> QED
    BY <2>0, <2>4, <2>5 DEF ClaimInv
<1>3. ASSUME NEW b \in Builders, Insert(b) \/ Update(b) PROVE ClaimInv'
  <2>1. /\ builder' = [builder EXCEPT ![b] = [pc |-> "idle", c |-> "none"]]
        /\ builder[b].c \in Candidates /\ today' = today
        /\ \/ UNCHANGED <<row, h>>
           \/ Enters(builder[b].c)
    BY <1>3 DEF Insert, Update, Leaves, IInv, SeenInv
  <2>2. /\ builder'[b].pc = "idle"
        /\ \A r \in Builders : builder'[r].pc = "update" => r # b /\ builder'[r] = builder[r]
    BY <2>1, <1>t
  <2>3. \A d \in Candidates : h'[d].rivals = h[d].rivals
    BY <2>1, EntersRow
  <2>4. ASSUME NEW r \in Builders \ {b}, builder[r].pc = "update", ~h[builder[r].c].rivals
        PROVE  row'[builder[r].c] = row[builder[r].c]
    <3>1. CASE builder[r].c # builder[b].c
      BY <3>1, <2>1, <2>4, <1>c, EntersRow
    <3>2. CASE builder[r].c = builder[b].c
      <4>1. builder[b].pc # "update"
        BY <3>2, <2>4, <1>t DEF ClaimInv
      <4>2. Insert(b) /\ row[builder[b].c].status # "none"
        BY <4>1, <3>2, <2>4, <1>3 DEF Update, IInv, SeenInv
      <4> QED
        BY <3>2, <4>2 DEF Insert
    <3> QED
      BY <3>1, <3>2
  <2> QED
    BY <1>c, <2>1, <2>2, <2>3, <2>4 DEF ClaimInv
<1>4. CASE Interrupted \/ UNCHANGED vars
  BY <1>4 DEF Interrupted, vars, ClaimInv
<1>5. CASE NextDay
  BY <1>5 DEF NextDay, ClaimInv
<1> QED
  BY <1>1, <1>2, <1>3, <1>4, <1>5 DEF Next, Admission

\* What the gate has decided stands (register_incubation_candidate): a
\* promotion for good, a failure for the refractory window, whichever ticks and
\* proposal runs interleave, as long as no two runs re-admit the same candidate
\* at the same time.
THEOREM DecisionsStand == Spec => DecisionStands
<1> DEFINE Stands == \A c \in Candidates :
        row[c].status \in Decided /\ row'[c].status # row[c].status =>
            \/ h[c].rivals
            \/ /\ row[c].status # "PROMOTED"
               /\ today - row[c].changed >= INCUBATION_REFRACTORY_DAYS
<1>1. Init => WorkInv /\ ClaimInv
  BY DEF Init, Idle, WorkInv, ClaimInv
<1>2. IInv /\ WorkInv /\ ClaimInv /\ [Next]_vars => [Stands]_vars
  <2> SUFFICES ASSUME IInv, WorkInv, ClaimInv, Next, NEW c \in Candidates,
                      row[c].status \in Decided, row'[c].status # row[c].status,
                      ~h[c].rivals
               PROVE  /\ row[c].status # "PROMOTED"
                      /\ today - row[c].changed >= INCUBATION_REFRACTORY_DAYS
    OBVIOUS
  <2>0. row[c].status # "INCUBATING" /\ row[c].status # "none"
    BY DEF Decided
  <2>1. CASE TickStep
    BY <2>0, <2>1, TickRow DEF WorkInv, Expire, Judge
  <2>2. CASE Admission
    <3>1. PICK b \in Builders : Insert(b) \/ Update(b) \/ \E d \in Candidates : Check(b, d)
      BY <2>2 DEF Admission
    <3>2. CASE Update(b)
      <4>1. c = builder[b].c /\ builder[b].pc = "update"
        BY <3>2, EntersRow DEF Update, IInv, SeenInv
      <4> QED
        BY <4>1 DEF ClaimInv
    <3>3. CASE Insert(b)
      <4>1. (builder[b].c \in Candidates /\ c # builder[b].c) \/ UNCHANGED row
        BY <3>3, <2>0 DEF Insert, IInv, SeenInv
      <4> QED
        BY <3>3, <4>1, EntersRow DEF Insert
    <3>4. CASE \E d \in Candidates : Check(b, d)
      BY <3>4 DEF Check
    <3> QED
      BY <3>1, <3>2, <3>3, <3>4
  <2>3. CASE Interrupted \/ NextDay
    BY <2>3 DEF Interrupted, NextDay
  <2> QED
    BY <2>1, <2>2, <2>3 DEF Next
<1> QED
  BY <1>1, <1>2, WorkStep, ClaimStep, IncubationInvariant, PTL DEF Spec, DecisionStands
=============================================================================
