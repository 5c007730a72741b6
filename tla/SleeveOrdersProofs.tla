------------------------- MODULE SleeveOrdersProofs -------------------------
(***************************************************************************)
(* Proofs about SleeveOrders for any set of orders, any quantity and any   *)
(* bound.  With every fault, host and mode: the books fall behind the      *)
(* broker only on orders that are astray, and what is settled stays so.    *)
(* With none of the faults and a sleeve that stays on the paper host, no   *)
(* order is astray: the books cover the broker and implement OrderBook.    *)
(***************************************************************************)
EXTENDS SleeveOrders, TLAPS

USE QtyAssumption, BoundAssumption, ModeAssumption

LEMMA InitIInv == Init => IInv
BY DEF Init, IInv, TypeOK, RowInv, Told, EngineInv, SleeveStatus, RowStatus,
       Working, Closed, Terminal, NonTerminal

\* Between two ticks nothing but the row facts has to hold; a tick that begins
\* asks one host, and what the other one has is astray.
LEMMA TickPreserves ==
    ASSUME IInv, BeginTick \/ PollDone \/ CancelDone \/ EndTick
    PROVE  IInv'
<1> USE DEF IInv, TypeOK, RowInv, Told, EngineInv, rows, market, NonTerminal
<1>1. CASE BeginTick
  BY <1>1 DEF BeginTick, OpenRows
<1>2. CASE PollDone
  BY <1>2 DEF PollDone, OpenRows
<1>3. CASE CancelDone
  BY <1>3 DEF CancelDone
<1>4. CASE EndTick
  BY <1>4 DEF EndTick
<1>. QED
  BY <1>1, <1>2, <1>3, <1>4

\* The poll loop: adoption and the 404 verdict are the steps that write.
LEMMA PollPreserves ==
    ASSUME IInv, NEW o \in Order,
           PollFetch(o) \/ PollAdopt(o) \/ PollNeverLanded(o) \/ PollMissing(o)
               \/ PollOutage(o)
    PROVE  IInv'
<1> USE DEF IInv, TypeOK, RowInv, Told, EngineInv, rows, market, NonTerminal,
            Skip, Visible
<1>1. CASE PollFetch(o)
  BY <1>1 DEF PollFetch, Fetched, Working, Closed
<1>2. CASE PollAdopt(o)
  BY <1>2 DEF PollAdopt, Fetched, Working, Closed
<1>3. CASE PollNeverLanded(o)
  BY <1>3 DEF PollNeverLanded, Working, Closed, Terminal, RowStatus
<1>4. CASE PollMissing(o)
  BY <1>4 DEF PollMissing
<1>5. CASE PollOutage(o)
  BY <1>5 DEF PollOutage
<1>. QED
  BY <1>1, <1>2, <1>3, <1>4, <1>5

\* Booking a fill and writing the status that follows from it.
LEMMA BookPreserves ==
    ASSUME IInv, Book
    PROVE  IInv'
<1> USE DEF IInv, TypeOK, RowInv, Told, EngineInv, rows, market, NonTerminal, Skip
<1>1. CASE DeferFill
  BY <1>1 DEF DeferFill
<1>2. CASE RecordFill
  BY <1>2 DEF RecordFill, FillDelta, Terminal
<1>3. CASE WriteStatus
  BY <1>3 DEF WriteStatus, Verdict, Working, Closed, Terminal, RowStatus
<1>. QED
  BY <1>1, <1>2, <1>3 DEF Book

\* The cancel loop: an accepted DELETE leaves a closed order behind, or one astray.
LEMMA CancelPreserves ==
    ASSUME IInv, Cancel
    PROVE  IInv'
<1> USE DEF IInv, TypeOK, RowInv, Told, EngineInv, rows, market, NonTerminal, Skip
<1>1. CASE CancelDone
  BY <1>1, TickPreserves
<1>2. CASE CancelRepoll
  BY <1>2 DEF CancelRepoll, Fetched, Visible, Working, Closed
<1>3. CASE CancelRepollFails
  BY <1>3 DEF CancelRepollFails
<1>4. ASSUME NEW o \in Order, CancelAccepted(o)
      PROVE  IInv'
  BY <1>4 DEF CancelAccepted, Visible, Working, Closed, Terminal
<1>5. ASSUME NEW o \in Order, CancelRefused(o)
      PROVE  IInv'
  BY <1>5 DEF CancelRefused
<1>. QED
  BY <1>1, <1>2, <1>3, <1>4, <1>5 DEF Cancel

\* Submission: a request is closed as rejected only if the broker never took it,
\* or it is astray.
LEMMA SubmitPreserves ==
    ASSUME IInv, Submit
    PROVE  IInv'
<1> USE DEF IInv, TypeOK, RowInv, Told, EngineInv, rows, market, NonTerminal
<1>1. ASSUME NEW o \in Order, Place(o)
      PROVE  IInv'
  BY <1>1 DEF Place, Terminal, Closed, Working, RowStatus
<1>2. CASE PostAck
  BY <1>2 DEF PostAck, Accept, resolve_host, Working, Closed, Terminal
<1>3. CASE PostRejected
  BY <1>3 DEF PostRejected, Terminal, RowStatus, Working, Closed
<1>4. CASE PostRetry
  BY <1>4 DEF PostRetry
<1>5. CASE PostLostReply
  BY <1>5 DEF PostLostReply, Accept, resolve_host, Working, Closed, Terminal, RowStatus
<1>6. CASE PostTimeout
  BY <1>6 DEF PostTimeout, Accept, resolve_host, Working, Closed, Terminal
<1>7. CASE LookupFound
  BY <1>7 DEF LookupFound, Visible
<1>8. CASE LookupNeverLanded
  BY <1>8 DEF LookupNeverLanded, Visible, Terminal, RowStatus, Working, Closed
<1>9. CASE LookupFails
  BY <1>9 DEF LookupFails
<1>. QED
  BY <1>1, <1>2, <1>3, <1>4, <1>5, <1>6, <1>7, <1>8, <1>9 DEF Submit

\* What happens around the engine: it dies, the operator writes a status, the
\* broker executes and closes orders.
LEMMA WorldPreserves ==
    ASSUME IInv, Crash \/ (\E s \in Modes : SetStatus(s)) \/ Broker
    PROVE  IInv'
<1> USE DEF IInv, TypeOK, RowInv, Told, EngineInv, rows, market, engine, NonTerminal
<1>1. CASE Crash
  BY <1>1 DEF Crash
<1>2. ASSUME NEW s \in Modes, SetStatus(s)
      PROVE  IInv'
  BY <1>2 DEF SetStatus
<1>3. ASSUME NEW o \in Order, BrokerLands(o)
      PROVE  IInv'
  BY <1>3 DEF BrokerLands, Working, Closed, Terminal
<1>4. ASSUME NEW o \in Order, BrokerFill(o)
      PROVE  IInv'
  BY <1>4 DEF BrokerFill, Working, Closed, Terminal
<1>5. ASSUME NEW o \in Order, BrokerPrices(o)
      PROVE  IInv'
  BY <1>5 DEF BrokerPrices
<1>6. ASSUME NEW o \in Order, BrokerCloses(o)
      PROVE  IInv'
  BY <1>6 DEF BrokerCloses, Working, Closed, Terminal
<1>. QED
  BY <1>1, <1>2, <1>3, <1>4, <1>5, <1>6 DEF Broker

LEMMA NextPreserves ==
    ASSUME IInv, [Next]_vars
    PROVE  IInv'
<1>1. CASE Engine
  BY <1>1, TickPreserves, PollPreserves, BookPreserves, CancelPreserves, SubmitPreserves
     DEF Engine, Poll
<1>2. CASE Crash \/ (\E s \in Modes : SetStatus(s)) \/ Broker
  BY <1>2, WorldPreserves
<1>3. CASE UNCHANGED vars
  BY <1>3 DEF vars, rows, market, engine, IInv, TypeOK, RowInv, Told, EngineInv, NonTerminal
<1>. QED
  BY <1>1, <1>2, <1>3 DEF Next

\* The inductive invariant holds in every reachable state, whatever the faults.
THEOREM OrdersInvariant == Spec => []IInv
<1>1. Init => IInv
  BY InitIInv
<1>2. IInv /\ [Next]_vars => IInv'
  BY NextPreserves
<1>. QED
  BY <1>1, <1>2, PTL DEF Spec

LEMMA CoveredUnlessAstray ==
    ASSUME IInv, NEW o \in Order, o \notin astray
    PROVE  Committed(o) >= Exposure(o)
BY DEF IInv, TypeOK, RowInv, Told, Committed, Exposure, NonTerminal, Terminal, Closed,
       Working, RowStatus

\* Under every fault, on both hosts and in every mode, the books hold less against
\* an order than the broker can spend on it only if the order is astray: a lost
\* reply, a late POST, a cancel only pending or the other host (OnlyAstrayAreLost).
THEOREM OnlyTheAstrayAreLost == Spec => []OnlyAstrayAreLost
<1>1. IInv => OnlyAstrayAreLost
  BY CoveredUnlessAstray DEF OnlyAstrayAreLost
<1>. QED
  BY <1>1, OrdersInvariant, PTL

-----------------------------------------------------------------------------
\* The environment in which nothing goes astray.
Faultless == Faults = {} /\ "LIVE" \notin Modes
OneHost == sleeve # "LIVE" /\ tick # "LIVE" /\ \A o \in Order : host[o] = "paper"
Reliable == astray = {} /\ OneHost

LEMMA InitReliable == ASSUME Faultless, Init PROVE Reliable
BY DEF Faultless, Init, Reliable, OneHost

LEMMA EngineReliable ==
    ASSUME Faultless, IInv, Reliable, Engine
    PROVE  Reliable'
<1> USE DEF Faultless, Reliable, OneHost, IInv, TypeOK, market, resolve_host
<1>1. CASE BeginTick
  BY <1>1 DEF BeginTick, OpenRows
<1>2. CASE Poll
  BY <1>2 DEF Poll, PollDone, PollFetch, PollAdopt, PollNeverLanded, PollMissing, PollOutage
<1>3. CASE Book \/ EndTick
  BY <1>3 DEF Book, DeferFill, RecordFill, WriteStatus, EndTick
<1>4. CASE Cancel
  BY <1>4 DEF Cancel, CancelDone, CancelRepoll, CancelRepollFails, CancelAccepted,
              CancelRefused
<1>5. CASE Submit
  BY <1>5 DEF Submit, Place, PostAck, PostRejected, PostRetry, PostLostReply, PostTimeout,
              LookupFound, LookupNeverLanded, LookupFails, Accept
<1>. QED
  BY <1>1, <1>2, <1>3, <1>4, <1>5 DEF Engine

LEMMA WorldReliable ==
    ASSUME Faultless, Reliable, Crash \/ (\E s \in Modes : SetStatus(s)) \/ Broker
    PROVE  Reliable'
BY DEF Faultless, Reliable, OneHost, market, engine, Crash, SetStatus, Broker, BrokerLands,
       BrokerFill, BrokerPrices, BrokerCloses

THEOREM NothingGoesAstray ==
    ASSUME Faultless
    PROVE  Spec => []Reliable
<1>1. Init => Reliable
  BY InitReliable
<1>2. IInv /\ Reliable /\ [Next]_vars => Reliable'
  BY EngineReliable, WorldReliable
     DEF Next, vars, market, engine, Reliable, OneHost
<1>. QED
  BY <1>1, <1>2, OrdersInvariant, PTL DEF Spec

\* Without the faults and on one host, no order the broker can still spend on is
\* without its reservation, no fill is lost and none is booked twice
\* (BookCoversBroker, NeverOverRecorded).
THEOREM BooksAreSafe ==
    ASSUME Faultless
    PROVE  Spec => [](BookCoversBroker /\ NeverOverRecorded)
<1>1. IInv /\ Reliable => BookCoversBroker
  BY CoveredUnlessAstray DEF Reliable, BookCoversBroker
<1>2. IInv => NeverOverRecorded
  BY DEF IInv, RowInv, NeverOverRecorded
<1>. QED
  BY <1>1, <1>2, OrdersInvariant, NothingGoesAstray, PTL

-----------------------------------------------------------------------------
\* The refinement: which step of OrderBook each step of the order path is.

BookView == <<[o \in Order |-> Intent(o)], filled, recorded>>

LEMMA InitRefines == Init => Promise!Init
BY DEF Init, Promise!Init, Intent, Terminal, Closed

\* A row that becomes terminal with all its shares booked is a Settle step.
LEMMA SettleStep ==
    ASSUME IInv, NEW o \in Order, NonTerminal(o), recorded[o] = filled[o],
           NEW s \in Terminal, status' = [status EXCEPT ![o] = s],
           UNCHANGED <<filled, recorded>>
    PROVE  Promise!Settle(o)
<1>1. Intent(o) = "open" /\ Intent(o)' = "settled"
  BY DEF IInv, TypeOK, Intent, NonTerminal, Terminal, Closed
<1>2. \A p \in Order \ {o} : Intent(p)' = Intent(p)
  BY DEF IInv, TypeOK, Intent
<1>. QED
  BY <1>1, <1>2 DEF Promise!Settle

\* A row written with a status that is not terminal stays open.
LEMMA OpenStep ==
    ASSUME IInv, NEW o \in Order, NonTerminal(o), NEW s \in Working,
           status' = [status EXCEPT ![o] = s], UNCHANGED <<filled, recorded>>
    PROVE  UNCHANGED BookView
BY DEF IInv, TypeOK, Intent, NonTerminal, BookView, Terminal, Closed, Working, RowStatus

LEMMA QuietStep ==
    ASSUME UNCHANGED <<status, filled, recorded>>
    PROVE  UNCHANGED BookView
BY DEF BookView, Intent

LEMMA EngineRefines ==
    ASSUME Faultless, IInv, Reliable, Engine
    PROVE  Promise!Next \/ UNCHANGED BookView
<1> USE DEF Faultless, rows, market
<1>1. CASE BeginTick \/ PollDone \/ CancelDone \/ EndTick
  BY <1>1, QuietStep DEF BeginTick, PollDone, CancelDone, EndTick
<1>2. ASSUME NEW o \in Order,
             PollFetch(o) \/ PollAdopt(o) \/ PollMissing(o) \/ PollOutage(o)
      PROVE  UNCHANGED BookView
  BY <1>2, QuietStep DEF PollFetch, PollAdopt, PollMissing, PollOutage
<1>3. ASSUME NEW o \in Order, PollNeverLanded(o)
      PROVE  Promise!Settle(o)
  <2>1. NonTerminal(o) /\ broker[o] = "none"
    BY <1>3 DEF PollNeverLanded, IInv, RowInv, Told, EngineInv, Visible, Reliable
  <2>2. recorded[o] = filled[o]
    BY <2>1 DEF IInv, RowInv, TypeOK
  <2>. QED
    BY <1>3, <2>1, <2>2, SettleStep DEF PollNeverLanded, Terminal
<1>4. CASE DeferFill
  BY <1>4, QuietStep DEF DeferFill
<1>5. CASE RecordFill
  <2>1. CASE snap.filled > snap.known
    <3>1. recorded' = [recorded EXCEPT ![cur] = @ + FillDelta]
      BY <1>5, <2>1 DEF RecordFill
    <3>2. NonTerminal(cur) /\ recorded[cur] = snap.known /\ snap.filled <= filled[cur]
      BY <1>5 DEF RecordFill, IInv, EngineInv
    <3>3. recorded[cur] + FillDelta \in (recorded[cur] + 1)..filled[cur]
      BY <2>1, <3>2 DEF FillDelta, IInv, TypeOK
    <3>4. Intent(cur) = "open" /\ cur \in Order
      BY <3>2 DEF Intent, NonTerminal, Terminal, IInv, TypeOK
    <3>5. UNCHANGED <<status, filled>>
      BY <1>5 DEF RecordFill
    <3>6. UNCHANGED <<[o \in Order |-> Intent(o)], filled>>
      BY <3>5 DEF Intent
    <3>7. \E q \in (recorded[cur] + 1)..filled[cur] :
              recorded' = [recorded EXCEPT ![cur] = q]
      BY <3>1, <3>3
    <3>8. Promise!Record(cur)
      BY <3>4, <3>6, <3>7 DEF Promise!Record
    <3>. QED
      BY <3>4, <3>8 DEF Promise!Next
  <2>2. CASE ~(snap.filled > snap.known)
    BY <1>5, <2>2, QuietStep DEF RecordFill
  <2>. QED
    BY <2>1, <2>2
<1>6. CASE WriteStatus
  <2>1. /\ NonTerminal(cur) /\ cur \in Order /\ UNCHANGED <<filled, recorded>>
        /\ status' = [status EXCEPT ![cur] = Verdict]
    BY <1>6 DEF WriteStatus, IInv, EngineInv, TypeOK
  <2>2. CASE Verdict \in Terminal
    <3>1. recorded[cur] = filled[cur]
      BY <1>6, <2>2 DEF WriteStatus, Verdict, IInv, TypeOK, RowInv, EngineInv, Terminal,
                        Closed, Working, Reliable
    <3>. QED
      BY <2>1, <2>2, <3>1, SettleStep DEF Promise!Next
  <2>3. CASE Verdict \notin Terminal
    <3>1. Verdict \in Working
      BY <1>6, <2>3 DEF WriteStatus, Verdict, IInv, TypeOK, EngineInv, Terminal, Closed,
                        Working
    <3>. QED
      BY <2>1, <3>1, OpenStep
  <2>. QED
    BY <2>2, <2>3
<1>7. ASSUME NEW o \in Order, CancelAccepted(o) \/ CancelRefused(o)
      PROVE  UNCHANGED BookView
  BY <1>7, QuietStep DEF CancelAccepted, CancelRefused
<1>8. CASE CancelRepoll \/ CancelRepollFails
  BY <1>8, QuietStep DEF CancelRepoll, CancelRepollFails
<1>9. ASSUME NEW o \in Order, Place(o)
      PROVE  Promise!Reserve(o)
  BY <1>9 DEF Place, Promise!Reserve, Intent, IInv, TypeOK, Terminal, Closed, RowStatus
<1>10. CASE PostAck \/ PostRetry \/ PostTimeout \/ LookupFound \/ LookupFails \/ PostLostReply
  BY <1>10, QuietStep DEF PostAck, PostRetry, PostTimeout, LookupFound, LookupFails,
                          PostLostReply, Accept
<1>11. CASE PostRejected \/ LookupNeverLanded
  <2>1. NonTerminal(cur) /\ broker[cur] = "none" /\ cur \in Order
    BY <1>11 DEF PostRejected, LookupNeverLanded, IInv, TypeOK, RowInv, Told, EngineInv,
                 Visible, Reliable
  <2>2. recorded[cur] = filled[cur]
    BY <2>1 DEF IInv, RowInv, TypeOK
  <2>3. Promise!Settle(cur)
    BY <1>11, <2>1, <2>2, SettleStep DEF PostRejected, LookupNeverLanded, Terminal
  <2>. QED
    BY <2>1, <2>3 DEF Promise!Next
<1>. QED
  BY <1>1, <1>2, <1>3, <1>4, <1>5, <1>6, <1>7, <1>8, <1>9, <1>10, <1>11
     DEF Engine, Poll, Book, Cancel, Submit, Promise!Next

LEMMA WorldRefines ==
    ASSUME IInv, Reliable, Crash \/ (\E s \in Modes : SetStatus(s)) \/ Broker
    PROVE  Promise!Next \/ UNCHANGED BookView
<1> USE DEF rows, market, engine
<1>1. CASE Crash \/ (\E s \in Modes : SetStatus(s))
  BY <1>1, QuietStep DEF Crash, SetStatus
<1>2. ASSUME NEW o \in Order, BrokerLands(o) \/ BrokerPrices(o) \/ BrokerCloses(o)
      PROVE  UNCHANGED BookView
  BY <1>2, QuietStep DEF BrokerLands, BrokerPrices, BrokerCloses
<1>3. ASSUME NEW o \in Order, BrokerFill(o)
      PROVE  Promise!Execute(o)
  <2>1. Intent(o) = "open"
    BY <1>3 DEF BrokerFill, IInv, RowInv, Told, Intent, Working, Reliable
  <2>2. \E q \in (filled[o] + 1)..Qty : filled' = [filled EXCEPT ![o] = q]
    BY <1>3 DEF BrokerFill
  <2>3. UNCHANGED <<[p \in Order |-> Intent(p)], recorded>>
    BY <1>3 DEF BrokerFill, Intent
  <2>. QED
    BY <2>1, <2>2, <2>3 DEF Promise!Execute
<1>. QED
  BY <1>1, <1>2, <1>3 DEF Broker, Promise!Next

\* The order path implements OrderBook (ImplementsOrderBook): every step settles,
\* executes or books one order as OrderBook allows, or changes nothing it shows.
THEOREM OrderPathRefines ==
    ASSUME Faultless
    PROVE  Spec => ImplementsOrderBook
<1>1. Init => Promise!Init
  BY InitRefines
<1>2. IInv /\ Reliable /\ [Next]_vars => [Promise!Next]_(Promise!bookVars)
  <2> SUFFICES ASSUME IInv, Reliable, [Next]_vars
               PROVE  Promise!Next \/ UNCHANGED BookView
    BY DEF BookView, Promise!bookVars
  <2>1. CASE UNCHANGED vars
    BY <2>1, QuietStep DEF vars, rows, market
  <2>. QED
    BY <2>1, EngineRefines, WorldRefines DEF Next
<1>. QED
  BY <1>1, <1>2, OrdersInvariant, NothingGoesAstray, PTL DEF Spec, Promise!Spec, ImplementsOrderBook

-----------------------------------------------------------------------------
\* What no fault can break.  The engine takes a row up only while it is not
\* terminal, and nobody else closes it meanwhile.

LEMMA RowsAtWork ==
    ASSUME IInv, [Next]_vars
    PROVE  \A o \in Order : status[o] \in Terminal =>
               status'[o] = status[o] /\ recorded'[o] = recorded[o]
<1> USE DEF IInv, TypeOK, EngineInv, rows, NonTerminal
<1>1. CASE UNCHANGED vars
  BY <1>1 DEF vars
<1>2. CASE BeginTick \/ EndTick \/ Poll
  BY <1>2 DEF BeginTick, EndTick, Poll, PollDone, PollFetch, PollAdopt, PollNeverLanded,
              PollMissing, PollOutage
<1>3. CASE Book
  BY <1>3 DEF Book, DeferFill, RecordFill, WriteStatus
<1>4. CASE Cancel
  BY <1>4 DEF Cancel, CancelDone, CancelRepoll, CancelRepollFails, CancelAccepted,
              CancelRefused
<1>5. ASSUME NEW o \in Order, Place(o)
      PROVE  \A p \in Order : status[p] \in Terminal =>
                 status'[p] = status[p] /\ recorded'[p] = recorded[p]
  BY <1>5 DEF Place, Terminal, Closed
<1>6. CASE \/ PostAck \/ PostRejected \/ PostRetry \/ PostLostReply \/ PostTimeout
           \/ LookupFound \/ LookupNeverLanded \/ LookupFails
  BY <1>6 DEF PostAck, PostRejected, PostRetry, PostLostReply, PostTimeout,
              LookupFound, LookupNeverLanded, LookupFails
<1>7. CASE Crash \/ (\E s \in Modes : SetStatus(s)) \/ Broker
  BY <1>7 DEF Crash, SetStatus, Broker, BrokerLands, BrokerFill, BrokerPrices, BrokerCloses
<1>. QED
  BY <1>1, <1>2, <1>3, <1>4, <1>5, <1>6, <1>7 DEF Next, Engine, Submit

\* SettledForGood, with every fault, host and mode there is: once a row is
\* terminal no poll, adoption, cancel or late answer reopens it or books on it.
THEOREM SettledStaysSettled == Spec => SettledForGood
<1>1. IInv /\ [Next]_vars => [\A o \in Order : status[o] \in Terminal =>
           status'[o] = status[o] /\ recorded'[o] = recorded[o]]_vars
  BY RowsAtWork
<1>. QED
  BY <1>1, OrdersInvariant, PTL DEF Spec, SettledForGood
=============================================================================
