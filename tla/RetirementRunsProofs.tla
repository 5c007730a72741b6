------------------------ MODULE RetirementRunsProofs ------------------------
(***************************************************************************)
(* The guards of the two jobs and the answers of the route, for every      *)
(* number of threads, runs, rows and restarts and every page size.         *)
(***************************************************************************)
EXTENDS RetirementRuns, FiniteSetTheorems, SequenceTheorems, WellFoundedInduction, TLAPS

-----------------------------------------------------------------------------
(* The newest of a set of rows. *)

LEMMA Greatest ==
    ASSUME NEW T \in SUBSET Nat, IsFiniteSet(T), T # {}
    PROVE  \E x \in T : \A y \in T : x >= y
<1> DEFINE above == [x \in T |-> {y \in T : y > x}]
           aboves == {above[x] : x \in T}
<1>0. \A x \in T : above[x] = {y \in T : y > x}
  OBVIOUS
<1> HIDE DEF above
<1>1. aboves \subseteq FiniteSubsetsOf(T) /\ aboves # {}
  <2>1. \A x \in T : above[x] \in SUBSET T
    BY <1>0
  <2>2. FiniteSubsetsOf(T) = SUBSET T
    BY FS_FiniteSubsetsOfFinite, Zenon
  <2>3. aboves \subseteq SUBSET T
    BY <2>1
  <2>4. PICK x : x \in T
    OBVIOUS
  <2>5. above[x] \in aboves
    BY <2>4
  <2> QED
    BY <2>2, <2>3, <2>5, Zenon
<1>2. PICK A \in aboves : \A B \in aboves : ~(<<B, A>> \in StrictSubsetOrdering(T))
  <2> HIDE DEF aboves
  <2>1. IsWellFoundedOn(StrictSubsetOrdering(T), FiniteSubsetsOf(T))
    BY FS_StrictSubsetOrderingWellFounded
  <2> QED
    BY <1>1, <2>1, WFMin, Zenon
<1>3. PICK x \in T : A = above[x]
  OBVIOUS
<1>4. ASSUME NEW y \in T, y > x PROVE FALSE
  <2>1. /\ above[y] \subseteq above[x] /\ above[y] # above[x]
        /\ above[y] \in SUBSET T /\ above[x] \in SUBSET T
    <3>1. above[y] = {z \in T : z > y} /\ above[x] = {z \in T : z > x}
      BY <1>0
    <3>2. y \in above[x] /\ y \notin above[y]
      BY <1>4, <3>1
    <3>3. above[y] \subseteq above[x]
      <4>1. \A z \in T : z > y => z > x
        BY <1>4
      <4> QED
        BY <3>1, <4>1
    <3>4. above[y] \in SUBSET T /\ above[x] \in SUBSET T
      BY <3>1
    <3> QED
      BY <3>2, <3>3, <3>4, Zenon
  <2>2. <<above[y], above[x]>> \in StrictSubsetOrdering(T)
    BY <2>1, Zenon DEF StrictSubsetOrdering
  <2> QED
    BY <1>2, <1>3, <2>2
<1> QED
  BY <1>4

\* Newest is the greatest of the indices, and 0 when there are none.
LEMMA NewestIs ==
    ASSUME NEW n \in Nat, NEW indices \in SUBSET (1..n)
    PROVE  /\ indices = {} => Newest(indices) = 0
           /\ indices # {} => Newest(indices) \in indices
<1> DEFINE T == {0} \cup indices
<1>1. T \in SUBSET Nat /\ T # {} /\ IsFiniteSet(T)
  <2>1. T \in SUBSET (0..n) /\ 0 \in T
    OBVIOUS
  <2> QED
    <3>1. IsFiniteSet(0..n)
      BY FS_Interval
    <3>2. IsFiniteSet(T)
      BY <2>1, <3>1, FS_Subset, Zenon
    <3> QED
      BY <2>1, <3>2
<1>2. \E x \in T : \A y \in T : x >= y
  BY <1>1, Greatest
<1>3. Max(T) \in T /\ \A y \in T : Max(T) >= y
  BY <1>2 DEF Max
<1>4. indices = {} => Max(T) = 0
  BY <1>3
<1>5. indices # {} => Max(T) \in indices
  <2>1. ASSUME NEW i \in indices PROVE Max(T) # 0
    BY <1>3, <1>1, <2>1
  <2> QED
    BY <1>3, <2>1
<1> QED
  BY <1>4, <1>5 DEF Newest

\* The tables as the route reads them.
LEMMA NewestRuns ==
    ASSUME TypeOK
    PROVE  /\ Cards \in Nat /\ Review \in Nat
           /\ Cards # NoRun => NewestOk \in DOMAIN sums /\ sums[NewestOk].ok
                               /\ Cards = sums[NewestOk].run
           /\ Review # NoRun => LET i == Newest(DOMAIN reviews)
                                IN  i \in DOMAIN reviews /\ Review = reviews[i].run
<1>1. /\ DOMAIN sums = 1..Len(sums) /\ Len(sums) \in Nat
      /\ DOMAIN reviews = 1..Len(reviews) /\ Len(reviews) \in Nat
  BY DEF TypeOK
<1>2. /\ \A i \in DOMAIN sums : sums[i].run \in Nat
      /\ \A i \in DOMAIN reviews : reviews[i].run \in Nat
  <2>1. \A i \in 1..Len(sums) : sums[i] \in [run : Nat, ok : BOOLEAN, recs : Nat]
    BY ElementOfSeq DEF TypeOK
  <2>2. \A i \in 1..Len(reviews) : reviews[i] \in
            [run : Nat, nightly : BOOLEAN, degraded : BOOLEAN, asOf : Nat, recs : Nat]
    BY ElementOfSeq DEF TypeOK
  <2> QED
    BY <1>1, <2>1, <2>2
<1>3. NewestOk = 0 \/ NewestOk \in {i \in DOMAIN sums : sums[i].ok}
  <2>1. {i \in DOMAIN sums : sums[i].ok} \in SUBSET (1..Len(sums))
    BY <1>1
  <2> QED
    BY <1>1, <2>1, NewestIs DEF NewestOk
<1>4. Newest(DOMAIN reviews) = 0 \/ Newest(DOMAIN reviews) \in DOMAIN reviews
  <2>1. DOMAIN reviews \in SUBSET (1..Len(reviews))
    BY <1>1
  <2> QED
    BY <1>1, <2>1, NewestIs
<1>5. NoRun \in Nat
  BY DEF NoRun
<1> QED
  BY <1>1, <1>2, <1>3, <1>4, <1>5 DEF Cards, Review, RunAt

-----------------------------------------------------------------------------
(* Types. *)

LEMMA OffType == Off \in Thread /\ Off.pc = "off" /\ Off.job = "none"
BY DEF Off, Thread, Jobs, NoRun

LEMMA InitType == Init => TypeOK
<1> SUFFICES ASSUME Init PROVE TypeOK
  OBVIOUS
<1>1. recs \in Seq([run : Nat, by : {"none", "review", "recommender"}])
  <2>1. [run |-> NoRun, by |-> "none"] \in [run : Nat, by : {"none", "review", "recommender"}]
    BY DEF NoRun
  <2> QED
    BY <2>1, BoundsAssumption DEF Init
<1>2. sums \in Seq([run : Nat, ok : BOOLEAN, recs : Nat])
  BY DEF Init
<1>3. /\ reviews \in Seq([run : Nat, nightly : BOOLEAN, degraded : BOOLEAN, asOf : Nat,
                          recs : Nat])
      /\ Len(reviews) \in Nat
  <2>1. [run |-> 1, nightly |-> TRUE, degraded |-> FALSE, asOf |-> 0, recs |-> 0] \in
            [run : Nat, nightly : BOOLEAN, degraded : BOOLEAN, asOf : Nat, recs : Nat]
    OBVIOUS
  <2>2. CASE reviews = <<>>
    BY <2>2
  <2>3. CASE reviews = <<[run |-> 1, nightly |-> TRUE, degraded |-> FALSE, asOf |-> 0, recs |-> 0]>>
    BY <2>1, <2>3
  <2> QED
    BY <2>2, <2>3 DEF Init
<1>4. thread \in [Threads -> Thread]
  BY OffType DEF Init
<1>5. req \in [pc : {"idle", "review", "rows"}, cards : Nat, review : Nat, bad : BOOLEAN]
  BY DEF Init, NoRequest, NoRun
<1>6. count \in [runs : Nat, threads : Nat, restarts : Nat] /\ clock \in [asOf : Nat, open : BOOLEAN]
  BY <1>3 DEF Init
<1> QED
  BY <1>1, <1>2, <1>3, <1>4, <1>5, <1>6 DEF Init, TypeOK

\* A step of a thread leaves a thread.
LEMMA ThreadType ==
    ASSUME TypeOK, NEW t \in Threads,
           \/ Runs(t)
           \/ \E job \in Jobs : Spawn(t, job)
    PROVE  /\ thread' \in [Threads -> Thread]
           /\ \A u \in Threads \ {t} : thread'[u] = thread[u]
<1>t. thread[t] \in Thread /\ thread \in [Threads -> Thread] /\ clock.asOf \in Nat
      /\ count.runs \in Nat
  BY DEF TypeOK
<1>w. ASSUME NEW r \in Thread, thread' = [thread EXCEPT ![t] = r]
      PROVE  /\ thread' \in [Threads -> Thread]
             /\ \A u \in Threads \ {t} : thread'[u] = thread[u]
  BY <1>t, <1>w
<1>p. \A pc \in {"released", "unlock"} : [thread[t] EXCEPT !.pc = pc] \in Thread
  BY <1>t DEF Thread
<1>1. CASE \E job \in Jobs : Spawn(t, job)
  <2>1. PICK job \in Jobs : thread' = [thread EXCEPT ![t] = [Off EXCEPT !.job = job, !.pc = "starting"]]
    BY <1>1 DEF Spawn
  <2>2. [Off EXCEPT !.job = job, !.pc = "starting"] \in Thread
    BY OffType DEF Thread
  <2> QED
    BY <2>1, <2>2, <1>w
<1>2. CASE SpawnFails(t) \/ Unlock(t)
  BY <1>2, <1>w, OffType DEF SpawnFails, Unlock
<1>3. CASE Started(t)
  <2> DEFINE a == IF Nightly(t) THEN clock.asOf ELSE 0
             p == IF thread[t].job = "recommender" THEN "build" ELSE "review"
  <2>1. thread' = [thread EXCEPT ![t] = [thread[t] EXCEPT !.asOf = a, !.pc = p]]
    BY <1>3 DEF Started
  <2>2. a \in Nat /\ p \in {"build", "review"}
    BY <1>t
  <2> HIDE DEF a, p
  <2>3. [thread[t] EXCEPT !.asOf = a, !.pc = p] \in Thread
    BY <1>t, <2>2 DEF Thread
  <2> QED
    BY <2>1, <2>3, <1>w
<1>4. CASE ReviewFinds(t)
  <2>1. PICK n \in Sizes, d \in BOOLEAN :
            thread' = [thread EXCEPT ![t] = [thread[t] EXCEPT !.pc = "rows", !.run = count.runs + 1,
                            !.found = n, !.left = n, !.degraded = d]]
    BY <1>4 DEF ReviewFinds, NextRun
  <2>2. \A m \in Nat, k \in Nat :
            [thread[t] EXCEPT !.pc = "rows", !.run = m, !.found = k, !.left = k,
                              !.degraded = d] \in Thread
    BY <1>t DEF Thread
  <2>3. count.runs + 1 \in Nat /\ n \in Nat
    BY <1>t, BoundsAssumption
  <2> QED
    BY <2>1, <2>2, <2>3, <1>w
<1>5. CASE ReviewFails(t) \/ ReviewEnds(t)
  BY <1>5, <1>p, <1>w DEF ReviewFails, ReviewEnds, Goes
<1>6. CASE ReviewWritesRec(t) \/ BuildWritesRec(t)
  <2>1. thread' = [thread EXCEPT ![t] = [thread[t] EXCEPT !.left = thread[t].left - 1]]
        /\ thread[t].left > 0
    BY <1>6 DEF ReviewWritesRec, BuildWritesRec, WriteRec
  <2>2. thread[t].left - 1 \in Nat
    BY <1>t, <2>1 DEF Thread
  <2>3. \A n \in Nat : [thread[t] EXCEPT !.left = n] \in Thread
    BY <1>t DEF Thread
  <2> QED
    BY <2>1, <2>2, <2>3, <1>w
<1>7. CASE ReviewReturns(t)
  <2>1. [Off EXCEPT !.job = "recommender", !.pc = "build"] \in Thread
    BY OffType DEF Thread, Jobs
  <2> QED
    BY <1>7, <2>1, <1>w, OffType DEF ReviewReturns
<1>8. CASE Build(t)
  <2>1. PICK n \in Sizes, ok \in BOOLEAN :
            thread' = [thread EXCEPT ![t] = [thread[t] EXCEPT !.pc = "cards", !.run = count.runs + 1,
                            !.found = n, !.left = n, !.ok = ok]]
    BY <1>8 DEF Build, NextRun
  <2>2. \A m \in Nat, k \in Nat :
            [thread[t] EXCEPT !.pc = "cards", !.run = m, !.found = k, !.left = k,
                              !.ok = ok] \in Thread
    BY <1>t DEF Thread
  <2>3. count.runs + 1 \in Nat /\ n \in Nat
    BY <1>t, BoundsAssumption
  <2> QED
    BY <2>1, <2>2, <2>3, <1>w
<1>9. CASE PersistFails(t)
  <2>1. thread' = [thread EXCEPT ![t] = [thread[t] EXCEPT !.pc = "summary", !.found = 0, !.ok = FALSE]]
    BY <1>9 DEF PersistFails
  <2>2. [thread[t] EXCEPT !.pc = "summary", !.found = 0, !.ok = FALSE] \in Thread
    BY <1>t DEF Thread
  <2> QED
    BY <2>1, <2>2, <1>w
<1>10. CASE Summarise(t)
  BY <1>10, <1>p, <1>w DEF Summarise, Goes
<1> QED
  BY <1>1, <1>2, <1>3, <1>4, <1>5, <1>6, <1>7, <1>8, <1>9, <1>10 DEF Runs

LEMMA Appended ==
    ASSUME NEW S, NEW s \in Seq(S), NEW e \in S
    PROVE  /\ Append(s, e) \in Seq(S) /\ Len(s) \in Nat /\ Len(Append(s, e)) = Len(s) + 1
           /\ DOMAIN s = 1..Len(s)
           /\ DOMAIN Append(s, e) = DOMAIN s \cup {Len(s) + 1} /\ Len(s) + 1 \notin DOMAIN s
           /\ \A i \in DOMAIN s : Append(s, e)[i] = s[i]
           /\ Append(s, e)[Len(s) + 1] = e
OBVIOUS

RecRow == [run : Nat, by : {"none", "review", "recommender"}]
SumRow == [run : Nat, ok : BOOLEAN, recs : Nat]
ReviewRow == [run : Nat, nightly : BOOLEAN, degraded : BOOLEAN, asOf : Nat, recs : Nat]

\* The rows that a thread appends.
LEMMA RowTypes ==
    ASSUME TypeOK, NEW t \in Threads
    PROVE  /\ \A by \in {"review", "recommender"} : Row(t, by) \in RecRow
           /\ [run |-> thread[t].run, ok |-> thread[t].ok, recs |-> thread[t].found] \in SumRow
           /\ [run |-> thread[t].run, nightly |-> Nightly(t), degraded |-> thread[t].degraded,
               asOf |-> thread[t].asOf, recs |-> thread[t].found] \in ReviewRow
<1>1. thread[t] \in Thread
  BY DEF TypeOK
<1> QED
  BY <1>1 DEF Thread, Row, RecRow, SumRow, ReviewRow, Nightly

LEMMA RunsType == ASSUME TypeOK, NEW t \in Threads, Runs(t) PROVE TypeOK'
<1>1. thread' \in [Threads -> Thread]
  BY ThreadType
<1>2. {slot', lock'} \subseteq Threads \cup {NoThread}
  <2>1. CASE SpawnFails(t) \/ ReviewReturns(t)
    BY <2>1 DEF SpawnFails, ReviewReturns, Freed, TypeOK
  <2>2. CASE ReviewFails(t) \/ ReviewEnds(t) \/ Unlock(t)
    BY <2>2 DEF ReviewFails, ReviewEnds, Unlock, Freed, Unlocked, TypeOK
  <2>3. CASE UNCHANGED <<slot, lock>>
    BY <2>3 DEF TypeOK
  <2> QED
    BY <2>1, <2>2, <2>3 DEF Runs, Started, ReviewFinds, ReviewWritesRec, Build, BuildWritesRec,
       PersistFails, Summarise, WriteRec
<1>3. count' \in [runs : Nat, threads : Nat, restarts : Nat]
  <2>1. count' = count \/ count' = [count EXCEPT !.runs = count.runs + 1]
    BY DEF Runs, SpawnFails, Started, ReviewFinds, ReviewFails, ReviewWritesRec, ReviewEnds,
       ReviewReturns, Build, BuildWritesRec, PersistFails, Summarise, Unlock, WriteRec, CountRun,
       NextRun
  <2>2. count.runs + 1 \in Nat
    BY DEF TypeOK
  <2>3. \A n \in Nat : [count EXCEPT !.runs = n] \in [runs : Nat, threads : Nat, restarts : Nat]
    BY DEF TypeOK
  <2> QED
    BY <2>1, <2>2, <2>3 DEF TypeOK
<1>4. UNCHANGED <<tick, clock, req>>
  BY DEF Runs, SpawnFails, Started, ReviewFinds, ReviewFails, ReviewWritesRec, ReviewEnds,
     ReviewReturns, Build, BuildWritesRec, PersistFails, Summarise, Unlock, WriteRec
<1>5. recs' \in Seq(RecRow) /\ sums' \in Seq(SumRow) /\ reviews' \in Seq(ReviewRow)
  <2>0. recs \in Seq(RecRow) /\ sums \in Seq(SumRow) /\ reviews \in Seq(ReviewRow)
    BY DEF TypeOK, RecRow, SumRow, ReviewRow
  <2>1. CASE ReviewWritesRec(t) \/ BuildWritesRec(t)
    <3>1. PICK by \in {"review", "recommender"} : WriteRec(t, by)
      BY <2>1 DEF ReviewWritesRec, BuildWritesRec
    <3> QED
      BY <2>0, <3>1, RowTypes, Appended DEF WriteRec
  <2>2. CASE ReviewEnds(t)
    BY <2>0, <2>2, RowTypes, Appended DEF ReviewEnds
  <2>3. CASE Summarise(t)
    <3> DEFINE row == [run |-> thread[t].run, ok |-> thread[t].ok, recs |-> thread[t].found]
    <3>1. row \in SumRow
      BY RowTypes
    <3>2. (sums' = Append(sums, row) \/ sums' = sums) /\ recs' = recs /\ reviews' = reviews
      BY <2>3 DEF Summarise
    <3> HIDE DEF row
    <3>3. Append(sums, row) \in Seq(SumRow)
      BY <2>0, <3>1, Appended
    <3> QED
      BY <2>0, <3>2, <3>3
  <2>4. CASE UNCHANGED tables
    BY <2>0, <2>4 DEF tables
  <2> QED
    BY <2>1, <2>2, <2>3, <2>4
       DEF Runs, SpawnFails, Started, ReviewFinds, ReviewFails, ReviewReturns, Build,
           PersistFails, Unlock
<1> QED
  BY <1>1, <1>2, <1>3, <1>4, <1>5 DEF TypeOK, RecRow, SumRow, ReviewRow

LEMMA TypeStep == TypeOK /\ [Next]_vars => TypeOK'
<1> SUFFICES ASSUME TypeOK, [Next]_vars PROVE TypeOK'
  OBVIOUS
<1>1. CASE TickChecks \/ TickSkips \/ Opens \/ Closes \/ UNCHANGED vars
  <2>1. UNCHANGED <<tables, slot, lock, thread, req, count>>
    BY <1>1 DEF TickChecks, TickSkips, Opens, Closes, vars, tables
  <2>2. tick' \in {"none", "due", "checked"}
    BY <1>1 DEF TickChecks, TickSkips, Opens, Closes, vars, TypeOK
  <2>3. clock' \in [asOf : Nat, open : BOOLEAN]
    <3>1. clock' \in {clock, [clock EXCEPT !.open = TRUE], [open |-> FALSE, asOf |-> 1]}
      BY <1>1 DEF TickChecks, TickSkips, Opens, Closes, vars
    <3>2. [clock EXCEPT !.open = TRUE] \in [asOf : Nat, open : BOOLEAN]
      BY DEF TypeOK
    <3>3. [open |-> FALSE, asOf |-> 1] \in [asOf : Nat, open : BOOLEAN]
      OBVIOUS
    <3> QED
      BY <3>1, <3>2, <3>3 DEF TypeOK
  <2> QED
    BY <2>1, <2>2, <2>3 DEF tables, TypeOK
<1>2. ASSUME NEW t \in Threads, TickClaims(t) \/ ReviewNow(t) \/ RunNow(t)
      PROVE  TypeOK'
  <2>1. PICK job \in Jobs : Spawn(t, job)
    BY <1>2 DEF TickClaims, ReviewNow, RunNow, Jobs
  <2>2. thread' \in [Threads -> Thread]
    BY <2>1, ThreadType
  <2>3. count' \in [runs : Nat, threads : Nat, restarts : Nat]
    <3>1. count' = [count EXCEPT !.threads = count.threads + 1]
      BY <2>1 DEF Spawn
    <3>2. count.threads + 1 \in Nat
      BY DEF TypeOK
    <3>3. \A n \in Nat :
            [count EXCEPT !.threads = n] \in [runs : Nat, threads : Nat, restarts : Nat]
      BY DEF TypeOK
    <3> QED
      BY <3>1, <3>2, <3>3
  <2> QED
    BY <1>2, <2>2, <2>3 DEF TickClaims, ReviewNow, RunNow, try_start, tables, TypeOK
<1>3. CASE \E t \in Threads : Runs(t)
  BY <1>3, RunsType
<1>4. CASE ReadCards \/ ReadReview \/ ReadRows
  <2>0. Cards \in Nat /\ Review \in Nat /\ NoRun \in Nat
    BY NewestRuns DEF NoRun
  <2>1. req' \in [pc : {"idle", "review", "rows"}, cards : Nat, review : Nat, bad : BOOLEAN]
    <3>1. CASE ReadCards
      BY <3>1, <2>0 DEF ReadCards, Cards, NoRequest
    <3>2. CASE ReadReview
      <4>1. PICK read \in BOOLEAN :
                req' = [req EXCEPT !.pc = "rows", !.bad = ~read,
                            !.review = IF read THEN Review ELSE NoRun]
        BY <3>2 DEF ReadReview, Review
      <4> DEFINE r == IF read THEN Review ELSE NoRun
      <4>2. r \in Nat
        BY <2>0
      <4> HIDE DEF r
      <4>3. [req EXCEPT !.pc = "rows", !.bad = ~read, !.review = r] \in
                [pc : {"idle", "review", "rows"}, cards : Nat, review : Nat, bad : BOOLEAN]
        BY <4>2 DEF TypeOK
      <4> QED
        BY <4>1, <4>3 DEF r
    <3>3. CASE ReadRows
      BY <3>3, <2>0 DEF ReadRows, NoRequest
    <3> QED
      BY <1>4, <3>1, <3>2, <3>3
  <2> QED
    BY <1>4, <2>1 DEF ReadCards, ReadReview, ReadRows, tables, TypeOK
<1>5. CASE Restart
  <2>1. count' = [count EXCEPT !.restarts = count.restarts + 1]
    BY <1>5 DEF Restart
  <2>2. count.restarts + 1 \in Nat
    BY DEF TypeOK
  <2>3. \A n \in Nat :
            [count EXCEPT !.restarts = n] \in [runs : Nat, threads : Nat, restarts : Nat]
    BY DEF TypeOK
  <2>4. count' \in [runs : Nat, threads : Nat, restarts : Nat]
    BY <2>1, <2>2, <2>3
  <2>5. thread' \in [Threads -> Thread]
    BY <1>5, OffType DEF Restart
  <2>6. req' \in [pc : {"idle", "review", "rows"}, cards : Nat, review : Nat, bad : BOOLEAN]
    BY <1>5 DEF Restart, NoRequest, NoRun
  <2> QED
    BY <1>5, <2>4, <2>5, <2>6 DEF Restart, tables, TypeOK
<1> QED
  BY <1>1, <1>2, <1>3, <1>4, <1>5 DEF Next

-----------------------------------------------------------------------------
(* The guards. *)

LEMMA GuardStep ==
    TypeOK /\ JobsInv /\ GuardsHold /\ [Next]_vars => JobsInv' /\ GuardsHold'
<1> SUFFICES ASSUME TypeOK, JobsInv, GuardsHold, [Next]_vars PROVE JobsInv' /\ GuardsHold'
  OBVIOUS
<1> USE DEF At, Nightly, Reviewing, Recommending
<1>t. /\ thread \in [Threads -> Thread] /\ \A t \in Threads : thread[t] \in Thread
      /\ slot \in Threads \cup {NoThread} /\ lock \in Threads \cup {NoThread}
  BY DEF TypeOK
\* It is enough to look at the thread that steps.
<1>a. ASSUME NEW t \in Threads, \A u \in Threads \ {t} : thread'[u] = thread[u],
             slot' = slot \/ slot \in {t, NoThread}, lock' = lock \/ lock \in {t, NoThread},
             thread'[t].pc = "off" <=> thread'[t].job = "none",
             thread'[t].pc \in {"build", "cards", "summary", "unlock"} =>
                thread'[t].job = "recommender",
             thread'[t].job \in {"nightly", "review"} /\ thread'[t].pc # "released" => slot' = t,
             thread'[t].job = "recommender" => lock' = t
      PROVE  JobsInv' /\ GuardsHold'
  <2>1. ASSUME NEW u \in Threads \ {t}
        PROVE  /\ Reviewing(u)' /\ ~At(u, "released")' => slot' = u
               /\ Recommending(u)' => lock' = u
    BY <1>a, NoThreadAssumption DEF GuardsHold
  <2>2. GuardsHold'
    BY <1>a, <2>1 DEF GuardsHold
  <2>3. JobsInv'
    BY <1>a DEF JobsInv
  <2> QED
    BY <2>2, <2>3
<1>1. CASE UNCHANGED <<slot, lock, thread>>
  BY <1>1 DEF JobsInv, GuardsHold
<1>2. ASSUME NEW t \in Threads, TickClaims(t) \/ ReviewNow(t) \/ RunNow(t)
      PROVE  JobsInv' /\ GuardsHold'
  <2>1. PICK job \in Jobs \ {"none"} :
            /\ Spawn(t, job)
            /\ IF job = "recommender" THEN lock = NoThread /\ lock' = t /\ slot' = slot
               ELSE slot = NoThread /\ slot' = t /\ lock' = lock
    BY <1>2 DEF TickClaims, ReviewNow, RunNow, Jobs, try_start
  <2>2. thread'[t].job = job /\ thread'[t].pc = "starting"
    BY <2>1, <1>t, OffType DEF Spawn, Thread
  <2>3. \A u \in Threads \ {t} : thread'[u] = thread[u]
    BY <2>1, ThreadType
  <2> QED
    BY <2>1, <2>2, <2>3, <1>a DEF Jobs
<1>3. ASSUME NEW t \in Threads, Runs(t) PROVE JobsInv' /\ GuardsHold'
  <2>0. \A u \in Threads \ {t} : thread'[u] = thread[u]
    BY <1>3, ThreadType
  <2>f. Freed(t) = slot \/ slot = t
    BY DEF Freed
  <2>1. CASE SpawnFails(t)
    <3>1. thread'[t] = Off
      BY <2>1, <1>t DEF SpawnFails
    <3> QED
      BY <2>0, <2>1, <2>f, <3>1, <1>a, OffType DEF SpawnFails
  <2>2. CASE Started(t) \/ ReviewFinds(t) \/ ReviewWritesRec(t) \/ Build(t) \/ BuildWritesRec(t)
             \/ PersistFails(t) \/ Summarise(t)
    <3>1. thread'[t].job = thread[t].job /\ UNCHANGED <<slot, lock>>
      <4>1. CASE Started(t) \/ ReviewFinds(t) \/ Build(t)
        <5>1. CASE Started(t)
          BY <5>1, <1>t DEF Started, Thread
        <5>2. CASE ReviewFinds(t)
          BY <5>2, <1>t DEF ReviewFinds, Thread
        <5>3. CASE Build(t)
          BY <5>3, <1>t DEF Build, Thread
        <5> QED
          BY <4>1, <5>1, <5>2, <5>3
      <4>2. CASE ReviewWritesRec(t) \/ BuildWritesRec(t)
        BY <4>2, <1>t DEF ReviewWritesRec, BuildWritesRec, WriteRec, Thread
      <4>3. CASE PersistFails(t) \/ Summarise(t)
        BY <4>3, <1>t DEF PersistFails, Summarise, Goes, Thread
      <4> QED
        BY <2>2, <4>1, <4>2, <4>3
    <3>2. /\ thread[t].pc \notin {"off", "released"} /\ thread'[t].pc \notin {"off", "released"}
          /\ thread'[t].pc \in {"build", "cards", "summary", "unlock"} =>
                thread[t].job = "recommender"
      <4>1. CASE Started(t)
        BY <4>1, <1>t DEF Started, Thread
      <4>2. CASE ReviewFinds(t)
        BY <4>2, <1>t DEF ReviewFinds, Thread
      <4>3. CASE ReviewWritesRec(t) \/ BuildWritesRec(t)
        BY <4>3, <1>t DEF ReviewWritesRec, BuildWritesRec, WriteRec, Thread, JobsInv
      <4>4. CASE Build(t)
        BY <4>4, <1>t DEF Build, Thread, JobsInv
      <4>5. CASE PersistFails(t) \/ Summarise(t)
        BY <4>5, <1>t DEF PersistFails, Summarise, Goes, Thread, JobsInv
      <4> QED
        BY <2>2, <4>1, <4>2, <4>3, <4>4, <4>5
    <3> QED
      BY <2>0, <3>1, <3>2, <1>a DEF JobsInv, GuardsHold
  <2>3. CASE ReviewFails(t) \/ ReviewEnds(t)
    <3>1. /\ thread'[t].job = thread[t].job /\ thread'[t].pc = "released" /\ thread[t].pc # "off"
          /\ lock' = lock /\ slot' = Freed(t)
      BY <2>3, <1>t DEF ReviewFails, ReviewEnds, Goes, Thread
    <3> QED
      BY <2>0, <2>f, <3>1, <1>a DEF JobsInv, GuardsHold
  <2>4. CASE ReviewReturns(t)
    <3>1. \/ lock = NoThread /\ lock' = t /\ thread'[t].job = "recommender" /\ thread'[t].pc = "build"
          \/ lock' = lock /\ thread'[t] = Off
      BY <2>4, <1>t, OffType DEF ReviewReturns, Thread
    <3>2. slot' = Freed(t)
      BY <2>4 DEF ReviewReturns
    <3> QED
      BY <2>0, <2>f, <3>1, <3>2, <1>a, OffType
  <2>5. CASE Unlock(t)
    <3>1. thread'[t] = Off /\ lock = t /\ slot' = slot
      BY <2>5, <1>t DEF Unlock, JobsInv, GuardsHold
    <3> QED
      BY <2>0, <3>1, <1>a, OffType
  <2> QED
    BY <1>3, <2>1, <2>2, <2>3, <2>4, <2>5 DEF Runs
<1>4. CASE Restart
  <2>1. \A t \in Threads : thread'[t] = Off
    BY <1>4 DEF Restart
  <2> QED
    BY <2>1, OffType DEF JobsInv, GuardsHold
<1> QED
  BY <1>1, <1>2, <1>3, <1>4 DEF Next, vars, TickChecks, TickSkips, ReadCards, ReadReview, ReadRows,
     Opens, Closes

\* One run of each job at a time: whoever reviews owns the slot (try_start) and
\* whoever recommends holds _RETIREMENT_RUN_LOCK until it ends, whatever starts
\* fail, runs fail and releases come late.
THEOREM GuardsAreHeld == Spec => []GuardsHold
<1>1. Init => TypeOK /\ JobsInv /\ GuardsHold
  <2>1. Init => JobsInv /\ GuardsHold
    BY OffType DEF Init, JobsInv, GuardsHold, At, Nightly, Reviewing, Recommending
  <2> QED
    BY <2>1, InitType
<1> QED
  BY <1>1, TypeStep, GuardStep, PTL DEF Spec

-----------------------------------------------------------------------------
(* The rows of a run. *)

RowsIn(rows, run) == {i \in DOMAIN rows : rows[i].run = run}

LEMMA RowsFinite ==
    ASSUME NEW rows \in Seq(RecRow), NEW run
    PROVE  IsFiniteSet(RowsIn(rows, run)) /\ Cardinality(RowsIn(rows, run)) \in Nat
<1>1. DOMAIN rows = 1..Len(rows) /\ Len(rows) \in Nat
  OBVIOUS
<1>2. IsFiniteSet(1..Len(rows))
  BY <1>1, FS_Interval
<1>3. RowsIn(rows, run) \in SUBSET (1..Len(rows))
  BY <1>1 DEF RowsIn
<1> QED
  BY <1>2, <1>3, FS_Subset, FS_CardinalityType

LEMMA RowAdded ==
    ASSUME NEW rows \in Seq(RecRow), NEW e \in RecRow, NEW run
    PROVE  /\ run # e.run => RowsIn(Append(rows, e), run) = RowsIn(rows, run)
           /\ run = e.run => Cardinality(RowsIn(Append(rows, e), run)) =
                                Cardinality(RowsIn(rows, run)) + 1
<1> DEFINE new == Len(rows) + 1
           more == Append(rows, e)
<1>1. /\ DOMAIN more = DOMAIN rows \cup {new} /\ new \notin DOMAIN rows
      /\ \A i \in DOMAIN rows : more[i] = rows[i]
      /\ more[new] = e
  BY Appended
<1> HIDE DEF new, more
<1>2. run # e.run => RowsIn(more, run) = RowsIn(rows, run)
  BY <1>1 DEF RowsIn
<1>3. ASSUME run = e.run
      PROVE  Cardinality(RowsIn(more, run)) = Cardinality(RowsIn(rows, run)) + 1
  <2>1. RowsIn(more, run) = RowsIn(rows, run) \cup {new} /\ new \notin RowsIn(rows, run)
    BY <1>1, <1>3 DEF RowsIn
  <2> QED
    BY <2>1, RowsFinite, FS_AddElement
<1> QED
  BY <1>2, <1>3 DEF more

\* A row that is appended is one row more.
LEMMA RowJoins ==
    ASSUME NEW S, NEW rows \in Seq(S), NEW e \in S
    PROVE  {Append(rows, e)[i] : i \in DOMAIN Append(rows, e)} =
                {rows[i] : i \in DOMAIN rows} \cup {e}
<1> DEFINE more == Append(rows, e)
<1>1. /\ DOMAIN more = DOMAIN rows \cup {Len(rows) + 1}
      /\ \A i \in DOMAIN rows : more[i] = rows[i]
      /\ more[Len(rows) + 1] = e
  BY Appended
<1> HIDE DEF more
<1> QED
  BY <1>1 DEF more

LEMMA EndedIs == Ended = {row \in Summed : row.ok}
BY DEF Ended, Summed

-----------------------------------------------------------------------------
(* The runs that are under way, and those that ended. *)

AnswerInv == RunsInv /\ KindInv /\ CountInv /\ AskedInv

\* A step that writes no row and gives no thread a run.
LEMMA NoRowStep ==
    ASSUME TypeOK, AnswerInv, UNCHANGED tables, count'.runs = count.runs,
           \A t \in Threads : Concluding(t)' =>
                /\ Concluding(t) /\ thread'[t].run = thread[t].run
                /\ \/ /\ thread'[t].pc = thread[t].pc /\ thread'[t].ok = thread[t].ok
                      /\ thread'[t].found = thread[t].found /\ thread'[t].left = thread[t].left
                   \/ /\ thread[t].pc = "cards" /\ thread'[t].pc = "summary"
                      /\ ~thread'[t].ok,
           req' = req \/ req'.pc = "idle"
    PROVE  AnswerInv'
<1> USE DEF AnswerInv, tables, Concluding, At
<1>0. Summed' = Summed /\ Reviewed' = Reviewed /\ Ended' = Ended
  BY DEF Summed, Reviewed, Ended
<1>1. RunsInv'
  BY <1>0 DEF RunsInv, RunsOf
<1>2. KindInv'
  <2>1. RunsOf(Summed)' = RunsOf(Summed) /\ RunsOf(Reviewed)' = RunsOf(Reviewed)
    BY <1>0 DEF RunsOf
  <2> QED
    BY <2>1 DEF KindInv
<1>3. CountInv'
  <2>1. \A t \in Threads : thread'[t].pc \in {"rows", "cards"} =>
            Cardinality(RowsIn(recs, thread'[t].run)) + thread'[t].left = thread'[t].found
    BY DEF CountInv, RowsOf, RowsIn
  <2>2. \A t \in Threads : thread'[t].pc = "summary" => ~thread'[t].ok
    BY DEF CountInv
  <2> QED
    BY <1>0, <2>1, <2>2 DEF CountInv, RowsOf, RowsIn
<1>4. AskedInv'
  BY <1>0 DEF AskedInv, RunsOf
<1> QED
  BY <1>1, <1>2, <1>3, <1>4

\* A run begins with a number of its own and with no row.
LEMMA FindStep ==
    ASSUME TypeOK, AnswerInv, NEW t \in Threads, ReviewFinds(t) \/ Build(t) PROVE AnswerInv'
<1> USE DEF AnswerInv, Concluding, At
<1>0. recs \in Seq(RecRow) /\ thread \in [Threads -> Thread] /\ count.runs \in Nat
  BY DEF TypeOK, RecRow
<1>1. PICK n \in Sizes, pc \in {"rows", "cards"} :
        /\ thread'[t].pc = pc /\ thread'[t].run = count.runs + 1
        /\ thread'[t].found = n /\ thread'[t].left = n
  <2>1. CASE ReviewFinds(t)
    <3>1. PICK n \in Sizes, d \in BOOLEAN :
            thread' = [thread EXCEPT ![t] = [thread[t] EXCEPT !.pc = "rows", !.run = count.runs + 1,
                            !.found = n, !.left = n, !.degraded = d]]
      BY <2>1 DEF ReviewFinds, NextRun
    <3>2. thread'[t] = [thread[t] EXCEPT !.pc = "rows", !.run = count.runs + 1,
                            !.found = n, !.left = n, !.degraded = d]
      BY <3>1, <1>0
    <3>3. thread[t] \in Thread
      BY <1>0
    <3>4. /\ thread'[t].pc = "rows" /\ thread'[t].run = count.runs + 1
          /\ thread'[t].found = n /\ thread'[t].left = n
      BY <3>2, <3>3 DEF Thread
    <3> QED
      BY <3>4
  <2>2. CASE Build(t)
    <3>1. PICK n \in Sizes, d \in BOOLEAN :
            thread' = [thread EXCEPT ![t] = [thread[t] EXCEPT !.pc = "cards", !.run = count.runs + 1,
                            !.found = n, !.left = n, !.ok = d]]
      BY <2>2 DEF Build, NextRun
    <3>2. thread'[t] = [thread[t] EXCEPT !.pc = "cards", !.run = count.runs + 1,
                            !.found = n, !.left = n, !.ok = d]
      BY <3>1, <1>0
    <3>3. thread[t] \in Thread
      BY <1>0
    <3>4. /\ thread'[t].pc = "cards" /\ thread'[t].run = count.runs + 1
          /\ thread'[t].found = n /\ thread'[t].left = n
      BY <3>2, <3>3 DEF Thread
    <3> QED
      BY <3>4
  <2> QED
    BY <2>1, <2>2
<1>2. /\ UNCHANGED <<recs, sums, reviews, req>> /\ count'.runs = count.runs + 1
      /\ \A u \in Threads \ {t} : thread'[u] = thread[u]
  <2>1. count' = [count EXCEPT !.runs = count.runs + 1] /\ UNCHANGED <<recs, sums, reviews, req>>
    BY DEF ReviewFinds, Build, CountRun, NextRun, tables
  <2>2. count'.runs = count.runs + 1
    BY <2>1 DEF TypeOK
  <2> QED
    BY <2>1, <2>2, ThreadType DEF Runs
<1>3. Summed' = Summed /\ Reviewed' = Reviewed /\ Ended' = Ended
  BY <1>2 DEF Summed, Reviewed, Ended
<1>4. RunsInv'
  <2>1. \A i \in DOMAIN recs : recs[i].run <= count.runs /\ recs[i].run \in Nat
    <3>1. \A i \in DOMAIN recs : recs[i] \in RecRow
      BY <1>0
    <3> QED
      BY <3>1 DEF RunsInv, RecRow
  <2>2. \A run \in RunsOf(Summed) \cup RunsOf(Reviewed) : run \in 1..count.runs
    BY DEF RunsInv
  <2>3. \A u \in Threads \ {t} : Concluding(u) => thread[u].run \in 1..count.runs
    BY DEF RunsInv
  <2>4. /\ RunsOf(Summed)' = RunsOf(Summed) /\ RunsOf(Reviewed)' = RunsOf(Reviewed)
    BY <1>3 DEF RunsOf
  <2>5. 1..count.runs \subseteq 1..(count.runs + 1) /\ count.runs + 1 \in 1..(count.runs + 1)
        /\ count.runs + 1 \notin 1..count.runs
    BY <1>0
  <2>6. \A i \in DOMAIN recs' : recs'[i].run <= count'.runs
    BY <1>0, <1>2, <2>1
  <2>7. \A run \in RunsOf(Summed)' \cup RunsOf(Reviewed)' : run \in 1..count'.runs
    BY <1>2, <2>2, <2>4, <2>5
  <2>8. \A u \in Threads : Concluding(u)' =>
            thread'[u].run \in (1..count'.runs) \ (RunsOf(Summed)' \cup RunsOf(Reviewed)')
    <3>1. ASSUME NEW u \in Threads \ {t}, Concluding(u)'
          PROVE thread'[u].run \in (1..count'.runs) \ (RunsOf(Summed)' \cup RunsOf(Reviewed)')
      <4>1. Concluding(u) /\ thread'[u].run = thread[u].run
        BY <3>1, <1>2
      <4>2. thread[u].run \notin RunsOf(Summed) \cup RunsOf(Reviewed)
        BY <4>1 DEF RunsInv
      <4> QED
        BY <4>1, <4>2, <2>3, <2>4, <2>5, <1>2
    <3>2. thread'[t].run \in (1..count'.runs) \ (RunsOf(Summed)' \cup RunsOf(Reviewed)')
      BY <1>1, <1>2, <2>2, <2>4, <2>5
    <3> QED
      BY <3>1, <3>2
  <2>9. ASSUME NEW u \in Threads, NEW v \in Threads, u # v, Concluding(u)', Concluding(v)'
        PROVE  thread'[u].run # thread'[v].run
    <3>1. CASE u = t
      BY <3>1, <2>9, <1>1, <1>2, <2>3, <2>5
    <3>2. CASE v = t
      BY <3>2, <2>9, <1>1, <1>2, <2>3, <2>5
    <3>3. CASE u # t /\ v # t
      BY <3>3, <2>9, <1>2 DEF RunsInv
    <3> QED
      BY <3>1, <3>2, <3>3
  <2> QED
    BY <2>6, <2>7, <2>8, <2>9 DEF RunsInv
<1>5. \A i \in DOMAIN recs : recs[i].run # count.runs + 1
  <2>1. \A i \in DOMAIN recs : recs[i].run <= count.runs /\ recs[i].run \in Nat
    <3>1. \A i \in DOMAIN recs : recs[i] \in RecRow
      BY <1>0
    <3> QED
      BY <3>1 DEF RunsInv, RecRow
  <2> QED
    BY <2>1, <1>0
<1>6. KindInv'
  <2>1. /\ RunsOf(Summed)' = RunsOf(Summed) /\ RunsOf(Reviewed)' = RunsOf(Reviewed)
    BY <1>3 DEF RunsOf
  <2> QED
    BY <1>1, <1>2, <1>5, <2>1 DEF KindInv
<1>7. CountInv'
  <2>1. RowsIn(recs, count.runs + 1) = {}
    BY <1>5 DEF RowsIn
  <2>2. Cardinality(RowsIn(recs, count.runs + 1)) = 0
    BY <2>1, FS_EmptySet
  <2>3. Cardinality(RowsIn(recs, thread'[t].run)) + thread'[t].left = thread'[t].found
    <3>1. n \in Nat
      BY BoundsAssumption
    <3> QED
      BY <1>1, <2>2, <3>1
  <2>4. \A u \in Threads : thread'[u].pc \in {"rows", "cards"} =>
            Cardinality(RowsIn(recs, thread'[u].run)) + thread'[u].left = thread'[u].found
    BY <1>2, <2>3 DEF CountInv, RowsOf, RowsIn
  <2>5. \A u \in Threads : thread'[u].pc = "summary" => ~thread'[u].ok
    BY <1>1, <1>2 DEF CountInv
  <2> QED
    BY <1>2, <1>3, <2>4, <2>5 DEF CountInv, RowsOf, RowsIn
<1>8. AskedInv'
  BY <1>2, <1>3 DEF AskedInv, RunsOf
<1> QED
  BY <1>4, <1>6, <1>7, <1>8

\* A recommendation is written.
LEMMA WriteStep ==
    ASSUME TypeOK, AnswerInv, NEW t \in Threads, NEW by \in {"review", "recommender"},
           WriteRec(t, by), At(t, IF by = "review" THEN "rows" ELSE "cards")
    PROVE  AnswerInv'
<1> USE DEF AnswerInv, Concluding, At
<1> DEFINE e == Row(t, by)
           new == Len(recs) + 1
<1>0. recs \in Seq(RecRow) /\ thread \in [Threads -> Thread] /\ e \in RecRow
  BY RowTypes DEF TypeOK, RecRow
<1>1. recs' = Append(recs, e) /\ UNCHANGED <<sums, reviews, req, count>>
  BY DEF WriteRec
<1>e. e.run = thread[t].run /\ e.by = by
  BY DEF Row
<1>2. /\ thread'[t].left = thread[t].left - 1 /\ thread'[t].pc = thread[t].pc
      /\ thread'[t].run = thread[t].run /\ thread'[t].found = thread[t].found
      /\ thread'[t].ok = thread[t].ok /\ thread[t].left \in Nat /\ thread[t].found \in Nat
      /\ \A u \in Threads \ {t} : thread'[u] = thread[u]
  BY <1>0 DEF WriteRec, Thread
<1>3. /\ DOMAIN recs' = DOMAIN recs \cup {new}
      /\ \A i \in DOMAIN recs : recs'[i] = recs[i]
      /\ recs'[new] = e
  BY <1>0, <1>1, Appended
<1> HIDE DEF e, new
<1>4. Summed' = Summed /\ Reviewed' = Reviewed /\ Ended' = Ended
  BY <1>1 DEF Summed, Reviewed, Ended
<1>5. /\ RunsOf(Summed)' = RunsOf(Summed) /\ RunsOf(Reviewed)' = RunsOf(Reviewed)
  BY <1>4 DEF RunsOf
<1>6. /\ thread[t].run \in 1..count.runs
      /\ thread[t].run \notin RunsOf(Summed) \cup RunsOf(Reviewed)
      /\ \A u \in Threads \ {t} : Concluding(u) => thread[u].run # thread[t].run
  BY DEF RunsInv
<1>7. RunsInv'
  <2>1. \A i \in DOMAIN recs' : recs'[i].run <= count.runs
    <3>1. count.runs \in Nat
      BY DEF TypeOK
    <3> QED
      BY <3>1, <1>3, <1>e, <1>6 DEF RunsInv
  <2>2. \A u \in Threads : thread'[u].pc = thread[u].pc /\ thread'[u].run = thread[u].run
    BY <1>2
  <2> QED
    BY <1>1, <1>5, <2>1, <2>2 DEF RunsInv
<1>8. KindInv'
  <2>1. \A u \in Threads : thread'[u].pc = thread[u].pc /\ thread'[u].run = thread[u].run
    BY <1>2
  <2>2. ASSUME by = "review"
        PROVE  \A u \in Threads : thread[u].pc \in {"cards", "summary"} =>
                    thread[u].run # thread[t].run
    BY <2>2, <1>6
  <2>3. ASSUME by = "recommender"
        PROVE  \A u \in Threads : thread[u].pc = "rows" => thread[u].run # thread[t].run
    BY <2>3, <1>6
  <2>4. ASSUME NEW i \in DOMAIN recs'
        PROVE  /\ recs'[i].by = "none" => recs'[i].run = NoRun
               /\ recs'[i].by = "review" =>
                    /\ recs'[i].run \notin RunsOf(Summed)
                    /\ \A u \in Threads : thread'[u].pc \in {"cards", "summary"} =>
                            thread'[u].run # recs'[i].run
               /\ recs'[i].by = "recommender" =>
                    /\ recs'[i].run \notin RunsOf(Reviewed)
                    /\ \A u \in Threads : thread'[u].pc = "rows" => thread'[u].run # recs'[i].run
    <3>1. CASE i \in DOMAIN recs
      <4>1. recs'[i] = recs[i]
        BY <3>1, <1>3
      <4> QED
        BY <3>1, <4>1, <2>1 DEF KindInv
    <3>2. CASE i = new
      <4>1. recs'[i].run = thread[t].run /\ recs'[i].by = by
        BY <3>2, <1>3, <1>e
      <4> QED
        BY <4>1, <1>6, <2>1, <2>2, <2>3
    <3> QED
      BY <3>1, <3>2, <1>3
  <2> QED
    BY <1>5, <2>4 DEF KindInv
<1>9. CountInv'
  <2>1. ASSUME NEW u \in Threads, thread'[u].pc \in {"rows", "cards"}
        PROVE  Cardinality(RowsIn(recs', thread'[u].run)) + thread'[u].left = thread'[u].found
    <3>1. Cardinality(RowsIn(recs, thread[u].run)) + thread[u].left = thread[u].found
      BY <2>1, <1>2 DEF CountInv, RowsOf, RowsIn
    <3>2. CASE u = t
      <4>1. Cardinality(RowsIn(recs', thread[t].run)) =
                Cardinality(RowsIn(recs, thread[t].run)) + 1
        BY <1>0, <1>1, <1>e, RowAdded
      <4>2. Cardinality(RowsIn(recs, thread[t].run)) \in Nat
        BY <1>0, RowsFinite
      <4> QED
        BY <3>1, <3>2, <4>1, <4>2, <1>2
    <3>3. CASE u # t
      <4>1. thread[u].run # e.run
        BY <3>3, <2>1, <1>2, <1>6, <1>e
      <4>2. RowsIn(recs', thread[u].run) = RowsIn(recs, thread[u].run)
        BY <4>1, <1>0, <1>1, RowAdded
      <4> QED
        BY <3>1, <3>3, <4>2, <1>2
    <3> QED
      BY <3>2, <3>3
  <2>2. \A u \in Threads : thread'[u].pc = "summary" => ~thread'[u].ok
    BY <1>2 DEF CountInv
  <2>3. ASSUME NEW row \in Ended \cup Reviewed
        PROVE  Cardinality(RowsIn(recs', row.run)) = row.recs
    <3>1. row.run # e.run
      <4>1. row.run \in RunsOf(Summed) \cup RunsOf(Reviewed)
        BY EndedIs DEF RunsOf
      <4> QED
        BY <4>1, <1>6, <1>e
    <3>2. RowsIn(recs', row.run) = RowsIn(recs, row.run)
      BY <3>1, <1>0, <1>1, RowAdded
    <3> QED
      BY <3>2 DEF CountInv, RowsOf, RowsIn
  <2> QED
    BY <1>4, <2>1, <2>2, <2>3 DEF CountInv, RowsOf, RowsIn
<1>10. AskedInv'
  BY <1>1, <1>4 DEF AskedInv, RunsOf
<1> QED
  BY <1>7, <1>8, <1>9, <1>10

\* A review ends: all of its rows are written.
LEMMA ReviewEndStep ==
    ASSUME TypeOK, AnswerInv, NEW t \in Threads, ReviewEnds(t) PROVE AnswerInv'
<1> USE DEF AnswerInv, Concluding, At
<1> DEFINE row == [run |-> thread[t].run, nightly |-> Nightly(t),
                   degraded |-> thread[t].degraded, asOf |-> thread[t].asOf,
                   recs |-> thread[t].found]
<1>0. /\ reviews \in Seq(ReviewRow) /\ thread \in [Threads -> Thread] /\ row \in ReviewRow
      /\ row.run = thread[t].run /\ row.recs = thread[t].found
  BY RowTypes DEF TypeOK, ReviewRow
<1>1. /\ reviews' = Append(reviews, row) /\ UNCHANGED <<recs, sums, req, count>>
      /\ thread[t].pc = "rows" /\ thread[t].left = 0
  BY DEF ReviewEnds, Written
<1>2. /\ thread'[t].pc = "released"
      /\ \A u \in Threads \ {t} : thread'[u] = thread[u]
  BY <1>0 DEF ReviewEnds, Goes, Thread
<1> HIDE DEF row
<1>3. Reviewed' = Reviewed \cup {row}
  BY <1>0, <1>1, RowJoins DEF Reviewed
<1>4. Summed' = Summed /\ Ended' = Ended
  BY <1>1 DEF Summed, Ended
<1>5. /\ RunsOf(Summed)' = RunsOf(Summed)
      /\ RunsOf(Reviewed)' = RunsOf(Reviewed) \cup {thread[t].run}
  BY <1>0, <1>3, <1>4 DEF RunsOf
<1>6. thread[t].run \in 1..count.runs /\ \A u \in Threads \ {t} :
            Concluding(u) => thread[u].run # thread[t].run
  BY <1>1 DEF RunsInv
<1>7. RunsInv'
  BY <1>1, <1>2, <1>5, <1>6 DEF RunsInv
<1>8. KindInv'
  BY <1>1, <1>2, <1>5 DEF KindInv
<1>9. CountInv'
  <2>1. Cardinality(RowsIn(recs, row.run)) = row.recs
    <3>1. Cardinality(RowsIn(recs, thread[t].run)) + thread[t].left = thread[t].found
      BY <1>1 DEF CountInv, RowsOf, RowsIn
    <3>2. Cardinality(RowsIn(recs, thread[t].run)) \in Nat
      BY RowsFinite DEF TypeOK, RecRow
    <3> QED
      BY <1>0, <1>1, <3>1, <3>2
  <2>2. \A x \in Ended' \cup Reviewed' : Cardinality(RowsIn(recs, x.run)) = x.recs
    BY <1>3, <1>4, <2>1 DEF CountInv, RowsOf, RowsIn
  <2>3. \A u \in Threads : thread'[u].pc \in {"rows", "cards"} =>
            Cardinality(RowsIn(recs, thread'[u].run)) + thread'[u].left = thread'[u].found
    BY <1>2 DEF CountInv, RowsOf, RowsIn
  <2>4. \A u \in Threads : thread'[u].pc = "summary" => ~thread'[u].ok
    BY <1>2 DEF CountInv
  <2> QED
    BY <1>1, <2>2, <2>3, <2>4 DEF CountInv, RowsOf, RowsIn
<1>10. AskedInv'
  <2>1. RunsOf(Ended)' = RunsOf(Ended)
    BY <1>4 DEF RunsOf
  <2> QED
    BY <1>1, <1>5, <2>1 DEF AskedInv
<1> QED
  BY <1>7, <1>8, <1>9, <1>10

\* A run of the recommender ends: one that is ok has written all of its rows.
LEMMA SummariseStep ==
    ASSUME TypeOK, AnswerInv, NEW t \in Threads, Summarise(t) PROVE AnswerInv'
<1> USE DEF AnswerInv, Concluding, At
<1> DEFINE row == [run |-> thread[t].run, ok |-> thread[t].ok, recs |-> thread[t].found]
<1>0. /\ sums \in Seq(SumRow) /\ thread \in [Threads -> Thread] /\ row \in SumRow
      /\ row.run = thread[t].run /\ row.recs = thread[t].found /\ row.ok = thread[t].ok
  BY RowTypes DEF TypeOK, SumRow
<1>1. /\ sums' = Append(sums, row) \/ sums' = sums
      /\ UNCHANGED <<recs, reviews, req, count>>
      /\ thread[t].pc \in {"summary", "cards"}
      /\ thread[t].pc = "cards" => thread[t].left = 0
  BY DEF Summarise, Written
<1>2. /\ thread'[t].pc = "unlock"
      /\ \A u \in Threads \ {t} : thread'[u] = thread[u]
  BY <1>0 DEF Summarise, Goes, Thread
<1> HIDE DEF row
<1>3. Summed' = Summed \/ Summed' = Summed \cup {row}
  BY <1>0, <1>1, RowJoins DEF Summed
<1>e. Ended' = {x \in Summed' : x.ok}
  BY DEF Ended, Summed
<1>4. Reviewed' = Reviewed
  BY <1>1 DEF Reviewed
<1>5. /\ RunsOf(Reviewed)' = RunsOf(Reviewed)
      /\ RunsOf(Summed) \subseteq RunsOf(Summed)'
      /\ RunsOf(Summed)' \subseteq RunsOf(Summed) \cup {thread[t].run}
  BY <1>0, <1>3, <1>4 DEF RunsOf
<1>6. thread[t].run \in 1..count.runs /\ \A u \in Threads \ {t} :
            Concluding(u) => thread[u].run # thread[t].run
  BY <1>1 DEF RunsInv
<1>7. RunsInv'
  BY <1>1, <1>2, <1>5, <1>6 DEF RunsInv
<1>8. KindInv'
  <2>1. \A i \in DOMAIN recs : recs[i].by = "review" => recs[i].run # thread[t].run
    BY <1>1 DEF KindInv
  <2> QED
    BY <1>1, <1>2, <1>5, <2>1 DEF KindInv
<1>9. CountInv'
  <2>1. row.ok => Cardinality(RowsIn(recs, row.run)) = row.recs
    <3>1. row.ok => thread[t].pc = "cards"
      BY <1>0, <1>1 DEF CountInv
    <3>2. thread[t].pc = "cards" =>
            Cardinality(RowsIn(recs, thread[t].run)) + thread[t].left = thread[t].found
      BY DEF CountInv, RowsOf, RowsIn
    <3>3. Cardinality(RowsIn(recs, thread[t].run)) \in Nat
      BY RowsFinite DEF TypeOK, RecRow
    <3> QED
      BY <1>0, <1>1, <3>1, <3>2, <3>3
  <2>2. \A x \in Ended' \cup Reviewed' : Cardinality(RowsIn(recs, x.run)) = x.recs
    BY <1>3, <1>4, <1>e, <2>1, EndedIs DEF CountInv, RowsOf, RowsIn
  <2>3. \A u \in Threads : thread'[u].pc \in {"rows", "cards"} =>
            Cardinality(RowsIn(recs, thread'[u].run)) + thread'[u].left = thread'[u].found
    BY <1>2 DEF CountInv, RowsOf, RowsIn
  <2>4. \A u \in Threads : thread'[u].pc = "summary" => ~thread'[u].ok
    BY <1>2 DEF CountInv
  <2> QED
    BY <1>1, <2>2, <2>3, <2>4 DEF CountInv, RowsOf, RowsIn
<1>10. AskedInv'
  <2>1. RunsOf(Ended) \subseteq RunsOf(Ended)'
    BY <1>3, <1>e, EndedIs DEF RunsOf
  <2> QED
    BY <1>1, <1>5, <2>1 DEF AskedInv
<1> QED
  BY <1>7, <1>8, <1>9, <1>10

\* The route reads the runs of its answer.
LEMMA ReadStep == ASSUME TypeOK, AnswerInv, ReadCards \/ ReadReview PROVE AnswerInv'
<1> USE DEF AnswerInv
<1>0. UNCHANGED <<recs, sums, reviews, thread, count>>
  BY DEF ReadCards, ReadReview, tables
<1>1. Summed' = Summed /\ Reviewed' = Reviewed /\ Ended' = Ended
  BY <1>0 DEF Summed, Reviewed, Ended
<1>2. RunsInv' /\ KindInv' /\ CountInv'
  BY <1>0, <1>1 DEF RunsInv, KindInv, CountInv, RunsOf, RowsOf, Concluding, At
<1>3. AskedInv'
  <2>1. Cards # NoRun => Cards \in RunsOf(Ended)
    BY NewestRuns DEF RunsOf, Ended
  <2>2. Review # NoRun => Review \in RunsOf(Reviewed)
    BY NewestRuns DEF RunsOf, Reviewed
  <2>3. CASE ReadCards
    BY <1>1, <2>1, <2>3 DEF ReadCards, AskedInv, Cards, NoRequest, RunsOf
  <2>4. CASE ReadReview
    <3>1. /\ req'.cards = req.cards /\ req'.pc = "rows" /\ req.pc = "review"
          /\ req'.review \in {Review, NoRun}
      BY <2>4 DEF ReadReview, Review, TypeOK
    <3> QED
      BY <1>1, <2>2, <3>1 DEF AskedInv, RunsOf
  <2> QED
    BY <2>3, <2>4
<1> QED
  BY <1>2, <1>3

LEMMA AnswerStep == TypeOK /\ AnswerInv /\ [Next]_vars => AnswerInv'
<1> SUFFICES ASSUME TypeOK, AnswerInv, [Next]_vars PROVE AnswerInv'
  OBVIOUS
<1>t. thread \in [Threads -> Thread] /\ \A t \in Threads : thread[t] \in Thread
  BY DEF TypeOK
<1>1. CASE UNCHANGED <<tables, thread>> /\ count' = count /\ (req' = req \/ req'.pc = "idle")
  BY <1>1, NoRowStep DEF Concluding
<1>2. ASSUME NEW t \in Threads, TickClaims(t) \/ ReviewNow(t) \/ RunNow(t)
      PROVE  AnswerInv'
  <2>1. PICK job \in Jobs : Spawn(t, job)
    BY <1>2 DEF TickClaims, ReviewNow, RunNow, Jobs
  <2>2. thread'[t].pc = "starting" /\ \A u \in Threads \ {t} : thread'[u] = thread[u]
    BY <2>1, <1>t, OffType, ThreadType DEF Spawn, Thread
  <2>3. count'.runs = count.runs
    BY <2>1 DEF Spawn, TypeOK
  <2>4. UNCHANGED <<tables, req>>
    BY <1>2 DEF TickClaims, ReviewNow, RunNow
  <2> QED
    BY <2>2, <2>3, <2>4, NoRowStep DEF Concluding
<1>3. ASSUME NEW t \in Threads, Runs(t) PROVE AnswerInv'
  <2>0. \A u \in Threads \ {t} : thread'[u] = thread[u]
    BY <1>3, ThreadType
  <2>1. CASE SpawnFails(t) \/ Started(t) \/ ReviewFails(t) \/ ReviewReturns(t) \/ Unlock(t)
    <3>1. UNCHANGED <<tables, req, count>>
      BY <2>1 DEF SpawnFails, Started, ReviewFails, ReviewReturns, Unlock
    <3>2. thread'[t].pc \notin {"rows", "cards", "summary"}
      <4>1. CASE SpawnFails(t) \/ Unlock(t)
        BY <4>1, <1>t, OffType DEF SpawnFails, Unlock
      <4>2. CASE Started(t)
        BY <4>2, <1>t DEF Started, Thread
      <4>3. CASE ReviewFails(t)
        BY <4>3, <1>t DEF ReviewFails, Goes, Thread
      <4>4. CASE ReviewReturns(t)
        BY <4>4, <1>t, OffType DEF ReviewReturns, Thread
      <4> QED
        BY <2>1, <4>1, <4>2, <4>3, <4>4
    <3> QED
      BY <2>0, <3>1, <3>2, NoRowStep DEF Concluding
  <2>2. CASE PersistFails(t)
    <3>1. /\ UNCHANGED <<tables, req, count>> /\ thread[t].pc = "cards"
      BY <2>2 DEF PersistFails, At
    <3>2. thread'[t].pc = "summary" /\ thread'[t].run = thread[t].run /\ ~thread'[t].ok
      BY <2>2, <1>t DEF PersistFails, Thread
    <3> QED
      BY <2>0, <3>1, <3>2, NoRowStep DEF Concluding
  <2>3. CASE ReviewWritesRec(t) \/ BuildWritesRec(t)
    BY <2>3, WriteStep DEF ReviewWritesRec, BuildWritesRec
  <2> QED
    BY <1>3, <2>1, <2>2, <2>3, FindStep, ReviewEndStep, SummariseStep DEF Runs
<1>4. CASE Restart
  <2>1. UNCHANGED tables /\ req'.pc = "idle" /\ \A t \in Threads : thread'[t] = Off
    BY <1>4 DEF Restart, NoRequest
  <2>2. count'.runs = count.runs
    BY <1>4 DEF Restart, TypeOK
  <2> QED
    BY <2>1, <2>2, NoRowStep, OffType DEF Concluding
<1>5. CASE TickChecks \/ TickSkips \/ ReadRows \/ Opens \/ Closes \/ UNCHANGED vars
  BY <1>1, <1>5 DEF TickChecks, TickSkips, ReadRows, Opens, Closes, vars, tables, NoRequest
<1> QED
  BY <1>2, <1>3, <1>4, <1>5, ReadStep DEF Next

LEMMA AnswerInit == Init => AnswerInv
<1> SUFFICES ASSUME Init PROVE AnswerInv
  OBVIOUS
<1> USE DEF AnswerInv, Concluding, At
<1>1. \A t \in Threads : thread[t].pc = "off"
  BY OffType DEF Init
<1>2. sums = <<>> /\ Summed = {} /\ Ended = {}
  BY DEF Init, Summed, Ended
<1>3. \A i \in DOMAIN recs : recs[i].run = 0 /\ recs[i].by = "none"
  BY DEF Init, NoRun
<1>4. /\ count.runs \in Nat
      /\ \A row \in Reviewed : row.run = 1 /\ row.recs = 0 /\ count.runs = 1
  <2>1. count.runs = Len(reviews)
    BY DEF Init
  <2>2. CASE reviews = <<>>
    BY <2>1, <2>2 DEF Reviewed
  <2>3. CASE reviews = <<[run |-> 1, nightly |-> TRUE, degraded |-> FALSE, asOf |-> 0, recs |-> 0]>>
    BY <2>1, <2>3 DEF Reviewed
  <2> QED
    BY <2>2, <2>3 DEF Init
<1>5. RunsInv
  BY <1>1, <1>2, <1>3, <1>4 DEF RunsInv, RunsOf
<1>6. KindInv
  BY <1>3 DEF KindInv, NoRun
<1>7. CountInv
  <2>1. RowsIn(recs, 1) = {}
    BY <1>3 DEF RowsIn
  <2>2. Cardinality(RowsIn(recs, 1)) = 0
    BY <2>1, FS_EmptySet
  <2> QED
    BY <1>1, <1>2, <1>4, <2>2 DEF CountInv, RowsOf, RowsIn
<1>8. AskedInv
  BY DEF Init, NoRequest, AskedInv
<1> QED
  BY <1>5, <1>6, <1>7, <1>8

\* The inductive invariant of the two jobs and the route.
THEOREM RetirementInvariant == Spec => []IInv
<1>1. Init => TypeOK /\ JobsInv /\ GuardsHold /\ AnswerInv
  <2>1. Init => JobsInv /\ GuardsHold
    BY OffType DEF Init, JobsInv, GuardsHold, At, Nightly, Reviewing, Recommending
  <2> QED
    BY <2>1, InitType, AnswerInit
<1>2. TypeOK /\ JobsInv /\ GuardsHold /\ AnswerInv => IInv
  BY DEF IInv, AnswerInv
<1> QED
  BY <1>1, <1>2, TypeStep, GuardStep, AnswerStep, PTL DEF Spec

-----------------------------------------------------------------------------
(* What is listed. *)

\* With a run to go by, the list holds the rows of the two runs and no other.
LEMMA ListedIs ==
    ASSUME NEW cards, NEW review, NEW bad, {cards, review} # {NoRun}
    PROVE  Listed(cards, review, bad) =
                {i \in Paged : recs[i].run \in {cards, review} \ {NoRun}}
BY DEF Listed

\* An answer of /api/retirement-recommendations lists what the runs it goes by
\* have found, all or none of it, while the page reaches it: no row of a run
\* that failed, none of a review that did not complete.
THEOREM AnswersAreWhole == Spec => AnswerIsWhole
<1> DEFINE shown == Listed(req.cards, req.review, req.bad)
           Answer ==
             /\ \A i \in shown :
                \/ recs[i].by = "review" /\ recs[i].run \in RunsOf(Reviewed)
                \/ recs[i].by = "recommender" /\ recs[i].run \in RunsOf(Ended)
                \/ Unstamped(i) /\ {req.cards, req.review} = {NoRun}
             /\ req.cards # NoRun => Whole(shown, req.cards, Ended)
             /\ req.review # NoRun => Whole(shown, req.review, Reviewed)
<1>1. TypeOK /\ AnswerInv /\ req.pc = "rows" => Answer
  <2> SUFFICES ASSUME TypeOK, AnswerInv, req.pc = "rows" PROVE Answer
    OBVIOUS
  <2> USE DEF AnswerInv
  <2>1. CASE {req.cards, req.review} = {NoRun}
    BY <2>1 DEF Listed
  <2>2. CASE {req.cards, req.review} # {NoRun}
    <3>1. shown = {i \in Paged : recs[i].run \in {req.cards, req.review} \ {NoRun}}
      BY <2>2, ListedIs
    <3> HIDE DEF shown
    <3>2. /\ req.cards # NoRun => req.cards \in RunsOf(Ended)
          /\ req.review # NoRun => req.review \in RunsOf(Reviewed)
      BY DEF AskedInv
    <3>3. RunsOf(Ended) \subseteq RunsOf(Summed)
      BY EndedIs DEF RunsOf
    <3>4. ASSUME NEW i \in shown
          PROVE  \/ recs[i].by = "review" /\ recs[i].run \in RunsOf(Reviewed)
                 \/ recs[i].by = "recommender" /\ recs[i].run \in RunsOf(Ended)
      <4>1. i \in DOMAIN recs /\ recs[i].run # NoRun
            /\ (recs[i].run \in RunsOf(Ended) \/ recs[i].run \in RunsOf(Reviewed))
        BY <3>1, <3>2 DEF Paged
      <4>2. recs[i].by \in {"none", "review", "recommender"}
        <5>0. recs \in Seq(RecRow)
          BY DEF TypeOK, RecRow
        <5>1. recs[i] \in RecRow
          BY <4>1, <5>0
        <5> QED
          BY <5>1 DEF RecRow
      <4> QED
        BY <4>1, <4>2, <3>3 DEF KindInv
    <3>5. ASSUME NEW run \in {req.cards, req.review} \ {NoRun}, NEW rows \in SUBSET (Ended \cup Reviewed)
          PROVE  Whole(shown, run, rows)
      <4> SUFFICES ASSUME NEW row \in rows, row.run = run, RowsOf(run) \subseteq Paged
                   PROVE  Cardinality(shown \cap RowsOf(run)) = row.recs
        BY DEF Whole
      <4>1. shown \cap RowsOf(run) = RowsOf(run)
        BY <3>1 DEF RowsOf
      <4>2. Cardinality(RowsOf(row.run)) = row.recs
        BY DEF CountInv
      <4> QED
        BY <4>1, <4>2
    <3> QED
      BY <3>4, <3>5
  <2> QED
    BY <2>1, <2>2
<1>2. TypeOK /\ AnswerInv =>
        [req.pc = "rows" /\ count' = count /\ req'.pc = "idle" => Answer]_req
  BY <1>1
<1>3. IInv => TypeOK /\ AnswerInv
  BY DEF IInv, AnswerInv
<1> QED
  BY <1>2, <1>3, RetirementInvariant, PTL DEF AnswerIsWhole

\* A run that completed is there to be listed.
LEMMA SomeRun ==
    ASSUME TypeOK, RunsInv, Ended \cup Reviewed # {}
    PROVE  {Cards, Review} # {NoRun}
<1>1. CASE Ended # {}
  <2>1. {i \in DOMAIN sums : sums[i].ok} # {}
    BY <1>1 DEF Ended
  <2>2. DOMAIN sums = 1..Len(sums) /\ Len(sums) \in Nat
    BY DEF TypeOK
  <2>3. NewestOk \in {i \in DOMAIN sums : sums[i].ok}
    <3>1. {i \in DOMAIN sums : sums[i].ok} \in SUBSET (1..Len(sums))
      BY <2>2
    <3> QED
      BY <2>1, <2>2, <3>1, NewestIs DEF NewestOk
  <2>4. Cards = sums[NewestOk].run
    BY <2>2, <2>3 DEF Cards, RunAt
  <2>5. sums[NewestOk] \in Summed
    BY <2>3 DEF Summed
  <2>6. Cards \in 1..count.runs
    BY <2>4, <2>5 DEF RunsInv, RunsOf
  <2> QED
    BY <2>6 DEF NoRun
<1>2. CASE Reviewed # {}
  <2> DEFINE i == Newest(DOMAIN reviews)
  <2>1. DOMAIN reviews = 1..Len(reviews) /\ Len(reviews) \in Nat
    BY DEF TypeOK
  <2>2. i \in DOMAIN reviews
    <3>1. DOMAIN reviews \in SUBSET (1..Len(reviews)) /\ DOMAIN reviews # {}
      BY <1>2, <2>1 DEF Reviewed
    <3> QED
      BY <2>1, <3>1, NewestIs
  <2> HIDE DEF i
  <2>4. Review = reviews[i].run
    BY <2>1, <2>2 DEF Review, RunAt, i
  <2>5. reviews[i] \in Reviewed
    BY <2>2 DEF Reviewed
  <2>6. Review \in 1..count.runs
    BY <2>4, <2>5 DEF RunsInv, RunsOf
  <2> QED
    BY <2>6 DEF NoRun
<1> QED
  BY <1>1, <1>2

\* Rows of another run take no card away and add none.
LEMMA RowOfAnotherRun ==
    ASSUME TypeOK, RunsInv, NEW t \in Threads, NEW by \in {"review", "recommender"},
           WriteRec(t, by), Concluding(t), Ended \cup Reviewed # {}, Reached'
    PROVE  Shown' = Shown
<1> DEFINE e == Row(t, by)
           new == Len(recs) + 1
           K == {Cards, Review} \ {NoRun}
<1>0. recs \in Seq(RecRow) /\ e \in RecRow /\ e.run = thread[t].run
  BY RowTypes DEF TypeOK, RecRow, Row
<1>1. recs' = Append(recs, e) /\ UNCHANGED <<sums, reviews>>
  BY DEF WriteRec
<1> HIDE DEF e
<1>2. /\ DOMAIN recs' = DOMAIN recs \cup {new} /\ Len(recs) \in Nat /\ Len(recs') = Len(recs) + 1
      /\ \A i \in DOMAIN recs : recs'[i] = recs[i]
      /\ recs'[new] = e /\ DOMAIN recs = 1..Len(recs)
  BY <1>0, <1>1, Appended
<1>3. Cards' = Cards /\ Review' = Review
  BY <1>1 DEF Cards, Review, NewestOk, RunAt
<1>4. e.run \notin {Cards, Review}
  <2>1. e.run \notin RunsOf(Summed) \cup RunsOf(Reviewed) /\ e.run # NoRun
    BY <1>0 DEF RunsInv, NoRun
  <2>2. Cards # NoRun => Cards \in RunsOf(Summed)
    BY NewestRuns DEF RunsOf, Summed
  <2>3. Review # NoRun => Review \in RunsOf(Reviewed)
    BY NewestRuns DEF RunsOf, Reviewed
  <2> QED
    BY <2>1, <2>2, <2>3
<1>5. Shown = {recs[i].run : i \in {j \in Paged : recs[j].run \in K}}
  <2>1. Listed(Cards, Review, FALSE) = {j \in Paged : recs[j].run \in K}
    BY SomeRun, ListedIs
  <2> QED
    BY <2>1 DEF Shown
<1>6. Shown' = {recs'[i].run : i \in {j \in Paged' : recs'[j].run \in K}}
  <2>1. {Cards', Review'} # {NoRun}
    BY <1>3, SomeRun
  <2>2. Listed(Cards, Review, FALSE)' = {j \in Paged' : recs'[j].run \in {Cards', Review'} \ {NoRun}}
    BY <2>1 DEF Listed
  <2> QED
    BY <1>3, <2>2 DEF Shown
<1>7. ASSUME NEW i \in Paged, recs[i].run \in K
      PROVE  i \in Paged' /\ recs'[i].run = recs[i].run
  <2>1. i \in DOMAIN recs' /\ recs'[i] = recs[i]
    BY <1>2 DEF Paged
  <2>2. i \in {j \in DOMAIN recs' : recs'[j].run = Cards'} \cup
                {j \in DOMAIN recs' : recs'[j].run = Review'}
    BY <1>3, <1>7, <2>1
  <2> QED
    BY <2>1, <2>2 DEF Reached, RowsOf
<1>8. ASSUME NEW i \in Paged', recs'[i].run \in K
      PROVE  i \in Paged /\ recs'[i].run = recs[i].run
  <2>1. i # new
    BY <1>2, <1>4, <1>8
  <2>2. i \in DOMAIN recs /\ recs'[i] = recs[i]
    BY <1>2, <2>1 DEF Paged
  <2>3. i > Len(recs') - Page
    BY DEF Paged
  <2>4. i > Len(recs) - Page
    BY <1>2, <2>2, <2>3, BoundsAssumption
  <2> QED
    BY <2>2, <2>4 DEF Paged
<1> HIDE DEF K, new
<1> QED
  BY <1>5, <1>6, <1>7, <1>8

\* Once a run has completed, the cards change with the next that completes and
\* with nothing else, as long as the page reaches their rows: no failed night,
\* no restart and no half-written run takes one away or adds one.
THEOREM CardsStandUntilReplaced == Spec => CardsStand
<1> DEFINE Stand == Ended \cup Reviewed # {} /\ Ended' = Ended /\ Reviewed' = Reviewed /\ Reached'
                        => Shown' = Shown
<1>1. TypeOK /\ AnswerInv /\ [Next]_vars => [Stand]_tables
  <2> SUFFICES ASSUME TypeOK, AnswerInv, [Next]_vars, Ended \cup Reviewed # {}, Ended' = Ended,
                      Reviewed' = Reviewed, Reached', ~UNCHANGED tables
               PROVE  Shown' = Shown
    BY Zenon
  <2> USE DEF AnswerInv
  <2>0. PICK t \in Threads :
            ReviewWritesRec(t) \/ BuildWritesRec(t) \/ ReviewEnds(t) \/ Summarise(t)
    BY DEF Next, vars, tables, Runs, TickChecks, TickSkips, TickClaims, ReviewNow, RunNow,
       ReadCards, ReadReview, ReadRows, Restart, Opens, Closes, SpawnFails, Started, ReviewFinds,
       ReviewFails, ReviewReturns, Build, PersistFails, Unlock
  <2>1. CASE ReviewWritesRec(t) \/ BuildWritesRec(t)
    BY <2>1, RowOfAnotherRun DEF ReviewWritesRec, BuildWritesRec, Concluding, At
  <2>2. CASE ReviewEnds(t)
    <3> DEFINE row == [run |-> thread[t].run, nightly |-> Nightly(t),
                       degraded |-> thread[t].degraded, asOf |-> thread[t].asOf,
                       recs |-> thread[t].found]
    <3>1. /\ reviews \in Seq(ReviewRow) /\ row \in ReviewRow /\ row.run = thread[t].run
          /\ reviews' = Append(reviews, row) /\ Concluding(t)
      BY <2>2, RowTypes DEF TypeOK, ReviewRow, ReviewEnds, At, Concluding
    <3> HIDE DEF row
    <3>2. row \in Reviewed'
      BY <3>1, RowJoins DEF Reviewed
    <3>3. row \notin Reviewed
      BY <3>1 DEF RunsInv, RunsOf
    <3> QED
      BY <3>2, <3>3
  <2>3. CASE Summarise(t)
    <3> DEFINE row == [run |-> thread[t].run, ok |-> thread[t].ok, recs |-> thread[t].found]
    <3>1. /\ sums \in Seq(SumRow) /\ row \in SumRow /\ row.run = thread[t].run
          /\ sums' = Append(sums, row) /\ Concluding(t) /\ UNCHANGED <<recs, reviews>>
      BY <2>3, RowTypes DEF TypeOK, SumRow, Summarise, At, Concluding, tables
    <3> HIDE DEF row
    <3>2. ~row.ok
      <4>1. row \in Summed' /\ row \notin Summed
        BY <3>1, RowJoins DEF Summed, RunsInv, RunsOf
      <4>2. Ended' = {x \in Summed' : x.ok}
        BY DEF Ended, Summed
      <4> QED
        BY <4>1, <4>2, EndedIs
    <3>3. /\ DOMAIN sums' = DOMAIN sums \cup {Len(sums) + 1} /\ Len(sums) + 1 \notin DOMAIN sums
          /\ \A i \in DOMAIN sums : sums'[i] = sums[i]
          /\ sums'[Len(sums) + 1] = row
      BY <3>1, Appended
    <3>4. {i \in DOMAIN sums' : sums'[i].ok} = {i \in DOMAIN sums : sums[i].ok}
      BY <3>2, <3>3
    <3>5. NewestOk' = NewestOk
      BY <3>4 DEF NewestOk
    <3>6. NewestOk = 0 \/ NewestOk \in DOMAIN sums
      <4>1. /\ DOMAIN sums = 1..Len(sums) /\ Len(sums) \in Nat
            /\ {i \in DOMAIN sums : sums[i].ok} \in SUBSET (1..Len(sums))
        BY DEF TypeOK
      <4> QED
        BY <4>1, NewestIs DEF NewestOk
    <3>7. Cards' = Cards /\ Review' = Review
      BY <3>1, <3>3, <3>5, <3>6 DEF Cards, Review, RunAt
    <3> QED
      BY <3>1, <3>7 DEF Shown, Listed, Paged, Unstamped, NewestDay
  <2> QED
    BY <2>0, <2>1, <2>2, <2>3
<1>2. IInv => TypeOK /\ AnswerInv
  BY DEF IInv, AnswerInv
<1> QED
  BY <1>1, <1>2, RetirementInvariant, PTL DEF Spec, CardsStand

=============================================================================
