------------------------ MODULE SleeveControlProofs -------------------------
(***************************************************************************)
(* The control routes against the tick, for every number of rules and of   *)
(* requests at a time.                                                     *)
(***************************************************************************)
EXTENDS SleeveControl, TLAPS

LEMMA CapsAreInts == Caps \subseteq Int /\ 1 \in Caps /\ Unlimited \in Caps
  BY CapAssumption, SMT DEF Caps, Unlimited

LEMMA Blank ==
    /\ NoTick \in Tick /\ NoTick.pc = "idle" /\ NoTick.armed = {} /\ NoTick.warrant = {}
    /\ NoRequest \in Request /\ NoRequest.pc = "idle" /\ NoRequest.revokes = {}
    /\ NoRequest.races = {}
  BY CapsAreInts DEF NoTick, NoRequest, Tick, Request, Status

LEMMA InitInv == Init => IInv
<1> SUFFICES ASSUME Init PROVE IInv
  OBVIOUS
<1> USE Blank, CapsAreInts DEF Init
<1>1. TypeOK
  BY DEF TypeOK, Sleeve, Status, History
<1>2. OnlyRacesSurviveDisarm /\ BoxIsConfirmed
  BY DEF OnlyRacesSurviveDisarm, BoxIsConfirmed
<1>3. RaceInv /\ TickInv /\ BoxInv
  BY DEF RaceInv, TickInv, BoxInv, Standing
<1>4. FlatInv
  BY DEF FlatInv, Exists
<1> QED
  BY <1>1, <1>2, <1>3, <1>4 DEF IInv

-----------------------------------------------------------------------------
(* Types *)

LEMMA StatusTyped ==
    ASSUME sleeve \in Sleeve, NEW s \in Status, SetStatus(s)
    PROVE  sleeve' \in Sleeve
  BY DEF Sleeve, SetStatus

LEMMA TypeRoute ==
    ASSUME TypeOK, \E q \in Requests : Route(q)
    PROVE  TypeOK'
<1> PICK q \in Requests : Route(q)
  OBVIOUS
<1> USE DEF TypeOK
<1>1. ASSUME NEW r \in Rules, ArmRead(q, r)
      PROVE  TypeOK'
  <2> DEFINE A == [NoRequest EXCEPT !.pc = "mode", !.rule = r, !.shadow = sleeve.status = "SHADOW"]
             K(p) == [req[p] EXCEPT !.revokes = @ \ {r}, !.races = @ \ {r}]
  <2>1. A \in Request
    BY Blank, CapsAreInts DEF Request, NoRequest
  <2>2. ASSUME NEW p \in Requests PROVE K(p) \in Request
    BY DEF Request
  <2>3. req' = [p \in Requests |-> IF p = q THEN A ELSE K(p)]
    BY <1>1 DEF ArmRead
  <2>4. req' \in [Requests -> Request]
    <3> HIDE DEF A, K
    <3> QED
      BY <2>1, <2>2, <2>3
  <2>5. tick' \in Tick /\ h' \in History
    BY <1>1 DEF ArmRead, Warrants, Tick, History
  <2> QED
    BY <1>1, <2>4, <2>5 DEF ArmRead
<1>2. CASE ArmMode(q)
  BY <1>2, Blank DEF ArmMode, Ends, Request
<1>3. CASE ArmStatus(q)
  BY <1>3, Blank, StatusTyped DEF ArmStatus, Ends, Status, Armed
<1>4. CASE LiveRead(q)
  BY <1>4, Blank DEF LiveRead, Begins, Request, NoRequest
<1>5. CASE LiveWrite(q)
  BY <1>5, Blank, StatusTyped DEF LiveWrite, Ends, Status, Armed
<1>6. CASE DisarmRead(q)
  <2> DEFINE R == Standing \ ArmsUnderWay
             W == ArmsUnderWay
  <2>1. R \in SUBSET Rules /\ W \in SUBSET Rules
    BY DEF History, Standing, ArmsUnderWay
  <2>2. [NoRequest EXCEPT !.pc = "disarm", !.races = W, !.revokes = R] \in Request
    <3> HIDE DEF R, W
    <3> QED
      BY <2>1, Blank, CapsAreInts DEF Request, NoRequest
  <2>3. req' = [req EXCEPT ![q] = [NoRequest EXCEPT !.pc = "disarm", !.races = W, !.revokes = R]]
    BY <1>6 DEF DisarmRead, Begins
  <2>4. req' \in [Requests -> Request]
    <3> HIDE DEF R, W
    <3> QED
      BY <2>2, <2>3
  <2>5. UNCHANGED <<sleeve, rules, mode, tried, open, held, tick, h>>
    BY <1>6 DEF DisarmRead
  <2> HIDE DEF R, W
  <2> QED
    BY <2>4, <2>5
<1>7. CASE DisarmStatus(q)
  <2>1. sleeve' \in Sleeve
    BY <1>7, StatusTyped DEF DisarmStatus, Status
  <2>2. [req[q] EXCEPT !.pc = "revert", !.todo = rules] \in Request
    BY DEF Request
  <2>3. req' \in [Requests -> Request]
    BY <1>7, <2>2 DEF DisarmStatus
  <2> QED
    BY <1>7, <2>1, <2>3 DEF DisarmStatus
<1>8. ASSUME NEW r \in Rules, DisarmRule(q, r)
      PROVE  TypeOK'
  BY <1>8 DEF DisarmRule, Request
<1>9. CASE DisarmEnd(q)
  BY <1>9, Blank DEF DisarmEnd, Ends, History
<1>10. CASE DeleteRead(q)
  BY <1>10, Blank DEF DeleteRead, Begins, Request, NoRequest
<1>11. CASE DeleteRow(q)
  BY <1>11, Blank DEF DeleteRow, Ends, Sleeve, Status, History, Request, Tick
<1>12. ASSUME NEW cap \in Caps, NEW confirmed \in BOOLEAN, CapRead(q, cap, confirmed)
       PROVE  TypeOK'
  BY <1>12, Blank DEF CapRead, Begins, Request, NoRequest, History
<1>13. CASE CapWrite(q)
  BY <1>13, Blank DEF CapWrite, Ends, Sleeve, Request
<1> QED
  BY <1>1, <1>2, <1>3, <1>4, <1>5, <1>6, <1>7, <1>8, <1>9, <1>10, <1>11, <1>12, <1>13
  DEF Route, Arming, Disarming

LEMMA TypeStep ==
    ASSUME TypeOK, [Next]_vars
    PROVE  TypeOK'
<1> USE DEF TypeOK
<1>1. CASE Creation
  BY <1>1 DEF Creation, CreateSleeve, CreateRule, Sleeve, Status, History
<1>2. CASE \E q \in Requests : Route(q)
  BY <1>2, TypeRoute
<1>3. CASE AppCrash
  BY <1>3, Blank DEF AppCrash
<1>4. CASE TickStep
  <2>1. CASE TickRead
    BY <2>1, Blank DEF TickRead, Tick, NoTick, Sleeve, History, Standing
  <2>2. CASE TickPoll
    BY <2>2 DEF TickPoll, Tick
  <2>3. CASE Breach
    BY <2>3, Blank, StatusTyped DEF Breach, Status
  <2>4. CASE LoadRules
    BY <2>4 DEF LoadRules, Tick
  <2>5. ASSUME NEW r \in Rules, FireArmed(r) \/ FireShadow(r) \/ NoFire(r)
        PROVE  TypeOK'
    <3>1. tick' \in Tick
      BY <2>5 DEF FireArmed, FireShadow, NoFire, Takes, Tick
    <3>2. open' \in SUBSET Rules /\ tried' \in SUBSET Rules
      BY <2>5 DEF FireArmed, FireShadow, NoFire
    <3>3. req' \in [Requests -> Request]
      <4>1. CASE FireArmed(r)
        <5>1. \A q \in Requests : [req[q] EXCEPT !.late = req[q].pc = "delete"] \in Request
          BY DEF Request
        <5> QED
          BY <4>1, <5>1 DEF FireArmed
      <4> QED
        BY <2>5, <4>1 DEF FireShadow, NoFire
    <3> QED
      BY <2>5, <3>1, <3>2, <3>3 DEF FireArmed, FireShadow, NoFire
  <2>6. CASE TickEnd
    BY <2>6, Blank DEF TickEnd
  <2> QED
    BY <1>4, <2>1, <2>2, <2>3, <2>4, <2>5, <2>6 DEF TickStep
<1>5. CASE UNCHANGED vars
  BY <1>5 DEF vars
<1> QED
  BY <1>1, <1>2, <1>3, <1>4, <1>5 DEF Next

-----------------------------------------------------------------------------
(* Arms against disarms *)

\* A request that is begun afresh is of no rule and answers for none, unless it
\* arms or disarms; one that ends is blank.
LEMMA Others ==
    ASSUME TypeOK, RaceInv, NEW q \in Requests, NEW n \in Request,
           n.pc \notin {"mode", "status", "revert"}, n.revokes = {},
           req' = [req EXCEPT ![q] = n], UNCHANGED <<rules, mode, h.warrant, h.raced>>
    PROVE  RaceInv'
  BY DEF TypeOK, RaceInv, Request, Standing

LEMMA RaceRoute ==
    ASSUME IInv, \E q \in Requests : Route(q)
    PROVE  RaceInv' /\ OnlyRacesSurviveDisarm'
<1> PICK q \in Requests : Route(q)
  OBVIOUS
<1> USE DEF IInv, TypeOK, Standing
<1> QED
  <2>1. ASSUME NEW r \in Rules, ArmRead(q, r)
        PROVE  RaceInv' /\ OnlyRacesSurviveDisarm'
    <3>1. Standing' = Standing \cup {r} /\ UNCHANGED <<rules, mode>> /\ r \in rules
      BY <2>1 DEF ArmRead, Warrants, History, Standing
    <3>2. /\ req'[q].rule = r /\ req'[q].pc = "mode" /\ req'[q].revokes = {}
          /\ \A p \in Requests \ {q} : req'[p] = [req[p] EXCEPT !.revokes = @ \ {r}, !.races = @ \ {r}]
      BY <2>1 DEF ArmRead, NoRequest
    <3>3. \A p \in Requests \ {q} :
            /\ req'[p].pc = req[p].pc /\ req'[p].rule = req[p].rule
            /\ req'[p].todo = req[p].todo /\ req'[p].revokes = req[p].revokes \ {r}
      <4> TAKE p \in Requests \ {q}
      <4>1. req[p] \in Request
        OBVIOUS
      <4>2. req'[p] = [req[p] EXCEPT !.revokes = req[p].revokes \ {r},
                                       !.races = req[p].races \ {r}]
        BY <3>2
      <4>3. /\ req'[p].pc = req[p].pc /\ req'[p].rule = req[p].rule
            /\ req'[p].todo = req[p].todo
        BY <4>1, <4>2 DEF Request
      <4>4. req'[p].revokes = req[p].revokes \ {r}
        <5> DEFINE a == req[p].revokes \ {r}
                   b == req[p].races \ {r}
        <5>1. req'[p] = [req[p] EXCEPT !.revokes = a, !.races = b]
          BY <4>2
        <5> HIDE DEF a, b
        <5>2. req'[p].revokes = a
          <6>1. DOMAIN req[p] = {"pc", "rule", "shadow", "todo", "cap", "revokes", "races",
                                 "late"}
            BY <4>1 DEF Request
          <6> QED
            BY <5>1, <6>1
        <5> QED
          BY <5>2 DEF a
      <4> QED
        BY <4>3, <4>4
    <3>4. ASSUME NEW p \in Requests, req'[p].pc \in {"mode", "status"}
          PROVE  /\ req'[p].rule \in rules \cap Standing'
                 /\ \A x \in Requests : req'[p].rule \notin req'[x].revokes
      <4>1. CASE p = q
        <5>1. r \in rules \cap Standing'
          BY <3>1
        <5>2. /\ req'[q].rule = r /\ req'[q].revokes = {}
              /\ \A x \in Requests \ {q} : req'[x].revokes = req[x].revokes \ {r}
          BY <3>2, <3>3, Zenon
        <5>3. \A x \in Requests : r \notin req'[x].revokes
          BY <5>2
        <5> QED
          BY <4>1, <5>1, <5>2, <5>3
      <4>2. CASE p # q
        <5>1. req[p].pc \in {"mode", "status"} /\ req'[p].rule = req[p].rule
          BY <3>3, <3>4, <4>2
        <5>2. /\ req[p].rule \in rules \cap Standing
              /\ \A x \in Requests : req[p].rule \notin req[x].revokes
          BY <5>1 DEF RaceInv
        <5>3. \A x \in Requests : req'[x].revokes \subseteq req[x].revokes
          BY <3>2, <3>3
        <5> QED
          BY <3>1, <5>1, <5>2, <5>3
      <4> QED
        BY <4>1, <4>2
    <3>5. ASSUME NEW p \in Requests, req'[p].pc = "revert", NEW x \in req'[p].revokes \ req'[p].todo
          PROVE  mode[x] = "SHADOW"
      BY <3>2, <3>3, <3>5 DEF RaceInv
    <3>6. RaceInv'
      BY <3>1, <3>4, <3>5 DEF RaceInv
    <3> QED
      BY <3>1, <3>6 DEF OnlyRacesSurviveDisarm
  <2>2. CASE ArmMode(q)
    <3>1. CASE req[q].rule \in tried
      <4>1. /\ mode' = [mode EXCEPT ![req[q].rule] = "PAPER"]
            /\ req' = [req EXCEPT ![q].pc = "status"]
            /\ req[q].pc = "mode" /\ UNCHANGED <<rules, h>>
        BY <2>2, <3>1 DEF ArmMode
      <4>2. req[q].rule \in rules \cap Standing
        BY <4>1 DEF RaceInv
      <4>3. \A p \in Requests : /\ req'[p].rule = req[p].rule /\ req'[p].todo = req[p].todo
                                /\ req'[p].revokes = req[p].revokes
                                /\ p # q => req'[p].pc = req[p].pc
                                /\ p = q => req'[p].pc = "status"
        BY <4>1 DEF Request
      <4>4. \A p \in Requests : req[q].rule \notin req[p].revokes
        BY <4>1 DEF RaceInv
      <4>5. RaceInv'
        BY <4>1, <4>2, <4>3, <4>4 DEF RaceInv
      <4> QED
        BY <4>1, <4>2, <4>5 DEF OnlyRacesSurviveDisarm
    <3>2. CASE req[q].rule \notin tried
      BY <2>2, <3>2, Blank, Others DEF ArmMode, Ends, OnlyRacesSurviveDisarm
    <3> QED
      BY <3>1, <3>2
  <2>3. CASE ArmStatus(q)
    BY <2>3, Blank, Others DEF ArmStatus, Ends, OnlyRacesSurviveDisarm
  <2>4. CASE LiveRead(q)
    <3> DEFINE n == [NoRequest EXCEPT !.pc = "live"]
    <3>1. n \in Request /\ n.pc = "live" /\ n.revokes = {}
      BY Blank DEF Request
    <3>2. req' = [req EXCEPT ![q] = n] /\ UNCHANGED <<rules, mode, h>>
      BY <2>4 DEF LiveRead, Begins
    <3> HIDE DEF n
    <3> QED
      BY <3>1, <3>2, Others DEF OnlyRacesSurviveDisarm
  <2>5. CASE LiveWrite(q)
    BY <2>5, Blank, Others DEF LiveWrite, Ends, OnlyRacesSurviveDisarm
  <2>6. CASE DisarmRead(q)
    <3> DEFINE R == Standing \ ArmsUnderWay
               W == ArmsUnderWay
    <3>1. /\ req' = [req EXCEPT ![q] =
                       [NoRequest EXCEPT !.pc = "disarm", !.races = W, !.revokes = R]]
          /\ UNCHANGED <<rules, mode, h>>
      BY <2>6 DEF DisarmRead, Begins
    <3>2. \A p \in Requests : req[p].rule \in Rules => req[p].rule \notin R
      BY DEF ArmsUnderWay
    <3> HIDE DEF R, W
    <3>3. /\ req'[q].pc = "disarm" /\ req'[q].revokes = R
          /\ \A p \in Requests \ {q} : req'[p] = req[p]
      BY <3>1 DEF NoRequest
    <3>4. RaceInv'
      BY <3>1, <3>2, <3>3 DEF RaceInv
    <3> QED
      BY <3>1, <3>4 DEF OnlyRacesSurviveDisarm
  <2>7. CASE DisarmStatus(q)
    <3>1. /\ req' = [req EXCEPT ![q].pc = "revert", ![q].todo = rules]
          /\ UNCHANGED <<rules, mode, h>>
      BY <2>7 DEF DisarmStatus
    <3>2. /\ req'[q].pc = "revert" /\ req'[q].todo = rules /\ req'[q].revokes = req[q].revokes
          /\ req[q].revokes \subseteq Rules
          /\ \A p \in Requests \ {q} : req'[p] = req[p]
      BY <3>1 DEF Request
    <3>3. RaceInv'
      BY <3>1, <3>2 DEF RaceInv
    <3> QED
      BY <3>1, <3>3 DEF OnlyRacesSurviveDisarm
  <2>8. ASSUME NEW r \in Rules, DisarmRule(q, r)
        PROVE  RaceInv' /\ OnlyRacesSurviveDisarm'
    <3>1. /\ req' = [req EXCEPT ![q].todo = @ \ {r}] /\ req[q].pc = "revert"
          /\ mode' = [mode EXCEPT ![r] = "SHADOW"] /\ UNCHANGED <<rules, h>>
      BY <2>8 DEF DisarmRule
    <3>2. \A p \in Requests : /\ req'[p].rule = req[p].rule /\ req'[p].pc = req[p].pc
                              /\ req'[p].revokes = req[p].revokes
                              /\ req'[p].todo = IF p = q THEN req[p].todo \ {r} ELSE req[p].todo
                              /\ req[p].revokes \subseteq Rules
      BY <3>1 DEF Request
    <3>3. \A x \in Rules : mode'[x] = IF x = r THEN "SHADOW" ELSE mode[x]
      BY <3>1
    <3>4. RaceInv'
      BY <3>1, <3>2, <3>3 DEF RaceInv
    <3> QED
      BY <3>1, <3>3, <3>4 DEF OnlyRacesSurviveDisarm
  <2>9. CASE DisarmEnd(q)
    <3>1. /\ req[q].pc = "revert" /\ req[q].todo = {} /\ UNCHANGED <<rules, mode>>
          /\ req' = [req EXCEPT ![q] = NoRequest]
          /\ Standing \ req[q].revokes \subseteq Standing'
      BY <2>9 DEF DisarmEnd, Ends, History, Standing
    <3>2. \A r \in req[q].revokes : mode[r] = "SHADOW"
      BY <3>1 DEF RaceInv
    <3>3. RaceInv'
      BY <3>1, Blank DEF RaceInv
    <3> QED
      BY <3>1, <3>2, <3>3 DEF OnlyRacesSurviveDisarm
  <2>10. CASE DeleteRead(q)
    <3>1. [NoRequest EXCEPT !.pc = "delete"] \in Request
      BY Blank DEF Request
    <3> QED
      BY <2>10, <3>1, Blank, Others DEF DeleteRead, Begins, OnlyRacesSurviveDisarm, NoRequest
  <2>11. CASE DeleteRow(q)
    BY <2>11, Blank, Others DEF DeleteRow, Ends, OnlyRacesSurviveDisarm, History
  <2>12. ASSUME NEW cap \in Caps, NEW confirmed \in BOOLEAN, CapRead(q, cap, confirmed)
         PROVE  RaceInv' /\ OnlyRacesSurviveDisarm'
    <3>1. [NoRequest EXCEPT !.pc = "cap", !.cap = cap] \in Request
      BY Blank DEF Request, NoRequest
    <3> QED
      BY <2>12, <3>1, Blank, Others DEF CapRead, Begins, OnlyRacesSurviveDisarm, History, NoRequest
  <2>13. CASE CapWrite(q)
    BY <2>13, Blank, Others DEF CapWrite, Ends, OnlyRacesSurviveDisarm
  <2> QED
    BY <2>1, <2>2, <2>3, <2>4, <2>5, <2>6, <2>7, <2>8, <2>9, <2>10, <2>11, <2>12, <2>13
    DEF Route, Arming, Disarming

LEMMA RaceStep ==
    ASSUME IInv, [Next]_vars
    PROVE  RaceInv' /\ OnlyRacesSurviveDisarm'
<1> USE DEF IInv, TypeOK, Standing
<1>1. ASSUME NEW cap \in Caps, CreateSleeve(cap)
      PROVE  RaceInv' /\ OnlyRacesSurviveDisarm'
  BY <1>1 DEF CreateSleeve, RaceInv, OnlyRacesSurviveDisarm, History
<1>2. ASSUME NEW r \in Rules, CreateRule(r)
      PROVE  RaceInv' /\ OnlyRacesSurviveDisarm'
  BY <1>2 DEF CreateRule, RaceInv, OnlyRacesSurviveDisarm
<1>3. CASE \E q \in Requests : Route(q)
  BY <1>3, RaceRoute
<1>4. CASE AppCrash
  BY <1>4, Blank DEF AppCrash, RaceInv, OnlyRacesSurviveDisarm
<1>5. CASE TickStep
  <2>1. UNCHANGED <<rules, mode, h>>
    BY <1>5 DEF TickStep, TickRead, TickPoll, Breach, LoadRules, FireArmed, FireShadow, NoFire,
                TickEnd
  <2>2. \A q \in Requests : /\ req'[q].pc = req[q].pc /\ req'[q].rule = req[q].rule
                            /\ req'[q].revokes = req[q].revokes /\ req'[q].todo = req[q].todo
    <3>1. ASSUME NEW r \in Rules, FireArmed(r)
          PROVE  \A q \in Requests : /\ req'[q].pc = req[q].pc /\ req'[q].rule = req[q].rule
                                     /\ req'[q].revokes = req[q].revokes
                                     /\ req'[q].todo = req[q].todo
      BY <3>1 DEF FireArmed, Request
    <3> QED
      BY <1>5, <3>1 DEF TickStep, TickRead, TickPoll, Breach, LoadRules, FireShadow, NoFire,
                        TickEnd
  <2> QED
    BY <2>1, <2>2 DEF RaceInv, OnlyRacesSurviveDisarm
<1>6. CASE UNCHANGED vars
  BY <1>6 DEF vars, RaceInv, OnlyRacesSurviveDisarm
<1> QED
  BY <1>1, <1>2, <1>3, <1>4, <1>5, <1>6 DEF Next, Creation

-----------------------------------------------------------------------------
(* The tick's view of the armings *)

LEMMA TickViewStep ==
    ASSUME IInv, [Next]_vars
    PROVE  TickInv'
<1> USE DEF IInv, TypeOK, Standing
<1>1. CASE Creation
  BY <1>1 DEF Creation, CreateSleeve, CreateRule, TickInv, History
<1>2. ASSUME NEW q \in Requests, Route(q)
      PROVE  TickInv'
  <2>1. ASSUME NEW r \in Rules, ArmRead(q, r)
        PROVE  TickInv'
    <3>1. /\ Standing' = Standing \cup {r} /\ tick'.warrant = tick.warrant \cup {r}
          /\ tick'.pc = tick.pc /\ tick'.armed = tick.armed
      BY <2>1 DEF ArmRead, Warrants, History, Tick, Standing
    <3> QED
      BY <3>1 DEF TickInv
  <2>2. ASSUME UNCHANGED tick, Standing' \subseteq Standing
        PROVE  TickInv'
    BY <2>2 DEF TickInv
  <2>3. CASE DisarmEnd(q)
    BY <2>2, <2>3 DEF DisarmEnd, History, Standing
  <2>4. CASE DeleteRow(q)
    BY <2>2, <2>4 DEF DeleteRow, History, Standing
  <2>5. ASSUME NEW cap \in Caps, NEW confirmed \in BOOLEAN, CapRead(q, cap, confirmed)
        PROVE  TickInv'
    BY <2>2, <2>5 DEF CapRead, History, Standing
  <2>6. ASSUME NEW r \in Rules, DisarmRule(q, r)
        PROVE  TickInv'
    BY <2>2, <2>6 DEF DisarmRule
  <2> QED
    BY <1>2, <2>1, <2>2, <2>3, <2>4, <2>5, <2>6
    DEF Route, Arming, Disarming, ArmMode, ArmStatus, LiveRead, LiveWrite, DisarmRead,
        DisarmStatus, DeleteRead, CapWrite
<1>3. CASE AppCrash
  BY <1>3 DEF AppCrash, TickInv
<1>4. CASE TickStep
  <2>1. CASE TickRead
    <3>1. /\ tick'.warrant = Standing /\ tick'.armed = {} /\ UNCHANGED h
      BY <2>1 DEF TickRead, NoTick
    <3> QED
      BY <3>1 DEF TickInv
  <2>2. CASE TickPoll
    BY <2>2 DEF TickPoll, TickInv, Tick
  <2>3. CASE Breach \/ TickEnd
    BY <2>3, Blank DEF Breach, TickEnd, TickInv
  <2>4. CASE LoadRules
    <3>1. /\ tick'.armed = {r \in rules : mode[r] = "PAPER"} /\ tick'.warrant = tick.warrant
          /\ tick.pc # "idle" /\ UNCHANGED h
      BY <2>4 DEF LoadRules, Tick
    <3> QED
      BY <3>1 DEF TickInv, OnlyRacesSurviveDisarm
  <2>5. ASSUME NEW r \in Rules, FireArmed(r) \/ FireShadow(r) \/ NoFire(r)
        PROVE  TickInv'
    BY <2>5 DEF FireArmed, FireShadow, NoFire, Takes, TickInv, Tick
  <2> QED
    BY <1>4, <2>1, <2>2, <2>3, <2>4, <2>5 DEF TickStep
<1>5. CASE UNCHANGED vars
  BY <1>5 DEF vars, TickInv
<1> QED
  BY <1>1, <1>2, <1>3, <1>4, <1>5 DEF Next

-----------------------------------------------------------------------------
(* Deleting *)

\* A request that neither begins nor ends a delete leaves what is flat flat.
LEMMA FlatKept ==
    ASSUME IInv, UNCHANGED <<open, held, rules>>, h'.deleted = h.deleted, h'.late = h.late,
           tick'.pc = tick.pc, Exists' <=> Exists,
           Exists \/ \A q \in Requests : req'[q].pc = "idle" \/ h.deleted,
           \A q \in Requests : req'[q].pc = "delete" =>
               req[q].pc = "delete" /\ req'[q].late = req[q].late
    PROVE  FlatInv'
  BY DEF IInv, FlatInv

LEMMA ExistsKept ==
    ASSUME NEW s \in Status \ {"none"}, sleeve \in Sleeve, SetStatus(s)
    PROVE  Exists' <=> Exists
  BY DEF SetStatus, Exists, Sleeve

LEMMA FlatRoute ==
    ASSUME IInv, \E q \in Requests : Route(q)
    PROVE  FlatInv'
<1> PICK q \in Requests : Route(q)
  OBVIOUS
<1> USE DEF IInv, TypeOK
<1>0. /\ ~Exists => h.deleted \/ (rules = {} /\ \A p \in Requests : req[p].pc = "idle")
      /\ \A s \in {"SHADOW", "PAPER", "LIVE"} : SetStatus(s) => (Exists' <=> Exists)
  BY ExistsKept DEF FlatInv, Status, Armed
<1>1. ASSUME NEW r \in Rules, ArmRead(q, r)
      PROVE  FlatInv'
  <2>1. Exists \/ h.deleted
    BY <1>0, <1>1 DEF ArmRead
  <2>2. /\ tick'.pc = tick.pc /\ h'.deleted = h.deleted /\ h'.late = h.late
        /\ UNCHANGED <<sleeve, open, held, rules>>
    BY <1>1 DEF ArmRead, Warrants, Tick, History
  <2>3. \A p \in Requests : req'[p].pc = "delete" =>
              req[p].pc = "delete" /\ req'[p].late = req[p].late
    BY <1>1 DEF ArmRead, Request, NoRequest
  <2> QED
    BY <2>1, <2>2, <2>3, FlatKept DEF Exists
<1>2. CASE ArmMode(q) \/ ArmStatus(q) \/ LiveWrite(q) \/ DisarmStatus(q) \/ DisarmEnd(q)
             \/ CapWrite(q) \/ \E r \in Rules : DisarmRule(q, r)
  <2>1. req[q].pc # "idle" /\ req[q].pc # "delete"
    BY <1>2 DEF ArmMode, ArmStatus, LiveWrite, DisarmStatus, DisarmEnd, CapWrite, DisarmRule
  <2>2. /\ \A p \in Requests \ {q} : req'[p] = req[p]
        /\ req'[q].pc # "delete"
    BY <1>2, Blank DEF ArmMode, ArmStatus, LiveWrite, DisarmStatus, DisarmEnd, CapWrite,
          DisarmRule, Ends, Request
  <2>3. Exists' <=> Exists
    BY <1>0, <1>2 DEF ArmMode, ArmStatus, LiveWrite, DisarmStatus, DisarmEnd, CapWrite,
          DisarmRule, Exists, Sleeve
  <2>4. /\ UNCHANGED <<open, held, rules, tick>> /\ h'.deleted = h.deleted /\ h'.late = h.late
    BY <1>2 DEF ArmMode, ArmStatus, LiveWrite, DisarmStatus, DisarmEnd, CapWrite, DisarmRule,
          History
  <2>5. Exists \/ h.deleted
    BY <1>0, <2>1
  <2> QED
    BY <2>2, <2>3, <2>4, <2>5, FlatKept
<1>3. CASE LiveRead(q) \/ DisarmRead(q)
             \/ \E cap \in Caps, confirmed \in BOOLEAN : CapRead(q, cap, confirmed)
  <2>1. Exists /\ UNCHANGED <<sleeve, open, held, rules, tick>>
        /\ h'.deleted = h.deleted /\ h'.late = h.late
    <3>1. CASE LiveRead(q) \/ DisarmRead(q)
      BY <3>1 DEF LiveRead, DisarmRead
    <3>2. ASSUME NEW cap \in Caps, NEW confirmed \in BOOLEAN, CapRead(q, cap, confirmed)
          PROVE  /\ Exists /\ UNCHANGED <<sleeve, open, held, rules, tick>>
                 /\ h'.deleted = h.deleted /\ h'.late = h.late
      <4>1. h' = h \/ h' = [h EXCEPT !.ceiling = cap]
        BY <3>2 DEF CapRead
      <4> QED
        BY <3>2, <4>1 DEF CapRead, History
    <3> QED
      BY <1>3, <3>1, <3>2
  <2>2. /\ \A p \in Requests \ {q} : req'[p] = req[p]
        /\ req'[q].pc # "delete"
    BY <1>3 DEF LiveRead, DisarmRead, CapRead, Begins, NoRequest
  <2> QED
    BY <2>1, <2>2, FlatKept DEF Exists
<1>4. CASE DeleteRead(q)
  <2>1. /\ Exists /\ open = {} /\ ~held /\ UNCHANGED <<sleeve, open, held, rules, tick, h>>
        /\ \A p \in Requests \ {q} : req'[p] = req[p]
    BY <1>4 DEF DeleteRead, Flat, Begins
  <2> QED
    BY <2>1 DEF FlatInv, Exists
<1>5. CASE DeleteRow(q)
  <2>1. /\ ~Exists' /\ h'.deleted /\ h'.late = (h.late \/ req[q].late \/ tick.pc # "idle")
        /\ req[q].pc = "delete" /\ UNCHANGED <<open, held, tick>>
    BY <1>5 DEF DeleteRow, Exists, Sleeve, History
  <2>2. \A p \in Requests : req'[p].pc = "delete" => p # q /\ req'[p] = req[p]
    BY <1>5, Blank DEF DeleteRow, Ends
  <2> QED
    BY <2>1, <2>2 DEF FlatInv
<1> QED
  BY <1>1, <1>2, <1>3, <1>4, <1>5 DEF Route, Arming, Disarming

LEMMA FlatStep ==
    ASSUME IInv, [Next]_vars
    PROVE  FlatInv'
<1> USE DEF IInv, TypeOK
<1>1. ASSUME NEW cap \in Caps, CreateSleeve(cap)
      PROVE  FlatInv'
  BY <1>1 DEF CreateSleeve, FlatInv, Exists, History
<1>2. ASSUME NEW r \in Rules, CreateRule(r)
      PROVE  FlatInv'
  BY <1>2 DEF CreateRule, FlatInv, Exists
<1>3. CASE \E q \in Requests : Route(q)
  BY <1>3, FlatRoute
<1>4. CASE AppCrash
  <2>1. \A q \in Requests : req'[q].pc = "idle"
    BY <1>4, Blank DEF AppCrash
  <2> QED
    BY <1>4, <2>1, FlatKept DEF AppCrash, Exists
<1>5. CASE TickStep
  <2>1. CASE TickRead
    BY <2>1 DEF TickRead, FlatInv, Exists
  <2>2. CASE TickPoll
    <3>1. tick.pc # "idle" /\ UNCHANGED <<sleeve, rules, req, h>>
      BY <2>2 DEF TickPoll
    <3>2. open = {} => open' = {} /\ held' = held
      BY <2>2 DEF TickPoll
    <3> QED
      BY <3>1, <3>2 DEF FlatInv, Exists
  <2>3. CASE Breach
    <3>1. Exists' <=> Exists
      BY <2>3, ExistsKept DEF Breach, Status
    <3> QED
      BY <2>3, <3>1 DEF Breach, FlatInv
  <2>4. CASE LoadRules
    BY <2>4 DEF LoadRules, FlatInv, Exists
  <2>5. ASSUME NEW r \in Rules, FireArmed(r)
        PROVE  FlatInv'
    <3>1. \A q \in Requests : /\ req'[q].pc = req[q].pc
                              /\ req'[q].late = (req[q].pc = "delete")
      BY <2>5 DEF FireArmed, Request
    <3>2. tick.pc # "idle" /\ UNCHANGED <<sleeve, rules, held, h>>
      BY <2>5 DEF FireArmed, Takes
    <3> QED
      BY <3>1, <3>2 DEF FlatInv, Exists
  <2>6. ASSUME NEW r \in Rules, FireShadow(r) \/ NoFire(r)
        PROVE  FlatInv'
    BY <2>6 DEF FireShadow, NoFire, Takes, FlatInv, Exists
  <2>7. CASE TickEnd
    BY <2>7 DEF TickEnd, FlatInv, Exists
  <2> QED
    BY <1>5, <2>1, <2>2, <2>3, <2>4, <2>5, <2>6, <2>7 DEF TickStep
<1>6. CASE UNCHANGED vars
  BY <1>6 DEF vars, FlatInv, Exists
<1> QED
  BY <1>1, <1>2, <1>3, <1>4, <1>5, <1>6 DEF Next, Creation

-----------------------------------------------------------------------------
(* The envelope *)

LEMMA BoxStep ==
    ASSUME IInv, [Next]_vars
    PROVE  BoxInv' /\ BoxIsConfirmed'
<1> USE DEF IInv, TypeOK
<1>0. /\ sleeve.cap \in Int /\ h.ceiling \in Int
      /\ \A q \in Requests : req[q].cap \in Int
  BY CapsAreInts DEF Sleeve, History, Request
<1>1. ASSUME NEW cap \in Caps, CreateSleeve(cap)
      PROVE  BoxInv' /\ BoxIsConfirmed'
  BY <1>1, CapsAreInts DEF CreateSleeve, FlatInv, BoxInv, BoxIsConfirmed, Exists, History
<1>2. ASSUME NEW q \in Requests, NEW cap \in Caps, NEW confirmed \in BOOLEAN,
             CapRead(q, cap, confirmed)
      PROVE  BoxInv' /\ BoxIsConfirmed'
  <2>1. /\ UNCHANGED sleeve /\ \A p \in Requests \ {q} : req'[p] = req[p]
        /\ req'[q].cap = cap
    BY <1>2 DEF CapRead, Begins, NoRequest
  <2>2. h'.ceiling >= h.ceiling /\ h'.ceiling >= cap /\ h'.ceiling \in Int
    BY <1>0, <1>2, CapsAreInts DEF CapRead, Widened, History, BoxIsConfirmed
  <2> QED
    BY <1>0, <2>1, <2>2, CapsAreInts DEF BoxInv, BoxIsConfirmed
<1>3. ASSUME NEW q \in Requests, CapWrite(q)
      PROVE  BoxInv' /\ BoxIsConfirmed'
  <2>1. /\ UNCHANGED h /\ \A p \in Requests : req'[p].pc = "cap" => req'[p] = req[p]
        /\ sleeve'.cap \in {sleeve.cap, req[q].cap} /\ req[q].pc = "cap"
    BY <1>3, Blank DEF CapWrite, Ends, Sleeve
  <2> QED
    BY <2>1 DEF BoxInv, BoxIsConfirmed
<1>4. CASE UNCHANGED vars
  BY <1>4 DEF vars, BoxInv, BoxIsConfirmed
<1>5. ASSUME sleeve'.cap = sleeve.cap, h'.ceiling = h.ceiling,
             \A q \in Requests : req'[q].pc = "cap" => req[q].pc = "cap" /\ req'[q].cap = req[q].cap
      PROVE  BoxInv' /\ BoxIsConfirmed'
  BY <1>5 DEF BoxInv, BoxIsConfirmed
<1>6. ASSUME NEW r \in Rules, CreateRule(r)
      PROVE  BoxInv' /\ BoxIsConfirmed'
  BY <1>5, <1>6 DEF CreateRule
<1>7. CASE AppCrash
  BY <1>5, <1>7, Blank DEF AppCrash
<1>8. CASE TickStep
  <2>1. sleeve'.cap = sleeve.cap
    BY <1>8 DEF TickStep, TickRead, TickPoll, Breach, LoadRules, FireArmed, FireShadow, NoFire,
                TickEnd, SetStatus, Sleeve
  <2>2. UNCHANGED h
    BY <1>8 DEF TickStep, TickRead, TickPoll, Breach, LoadRules, FireArmed, FireShadow, NoFire,
                TickEnd
  <2>3. ASSUME NEW r \in Rules, FireArmed(r)
        PROVE  \A q \in Requests : req'[q].pc = req[q].pc /\ req'[q].cap = req[q].cap
    BY <2>3 DEF FireArmed, Request
  <2>4. \A q \in Requests : req'[q].pc = req[q].pc /\ req'[q].cap = req[q].cap
    BY <1>8, <2>3 DEF TickStep, TickRead, TickPoll, Breach, LoadRules, FireShadow, NoFire,
                TickEnd
  <2> QED
    BY <1>5, <2>1, <2>2, <2>4
<1>9. ASSUME NEW q \in Requests, Route(q),
             ~CapWrite(q), \A cap \in Caps, confirmed \in BOOLEAN : ~CapRead(q, cap, confirmed)
      PROVE  BoxInv' /\ BoxIsConfirmed'
  <2>1. ASSUME NEW r \in Rules, ArmRead(q, r)
        PROVE  BoxInv' /\ BoxIsConfirmed'
    <3>1. \A p \in Requests : req'[p].pc = "cap" =>
                req[p].pc = "cap" /\ req'[p].cap = req[p].cap
      BY <2>1 DEF ArmRead, Request, NoRequest
    <3> QED
      BY <1>5, <2>1, <3>1 DEF ArmRead, Warrants, History
  <2>2. CASE ArmMode(q) \/ ArmStatus(q) \/ LiveWrite(q) \/ DisarmStatus(q) \/ DisarmEnd(q)
               \/ (\E r \in Rules : DisarmRule(q, r)) \/ DeleteRow(q)
               \/ LiveRead(q) \/ DisarmRead(q) \/ DeleteRead(q)
    <3>1. \A p \in Requests \ {q} : req'[p] = req[p]
      BY <2>2 DEF ArmMode, ArmStatus, LiveWrite, DisarmStatus, DisarmEnd, DisarmRule, DeleteRow,
                  LiveRead, DisarmRead, DeleteRead, Begins, Ends
    <3>2. req'[q].pc # "cap"
      <4>1. CASE ArmMode(q)
        BY <4>1, Blank DEF ArmMode, Ends, Request
      <4>2. CASE ArmStatus(q) \/ LiveWrite(q) \/ DisarmEnd(q) \/ DeleteRow(q)
        BY <4>2, Blank DEF ArmStatus, LiveWrite, DisarmEnd, DeleteRow, Ends
      <4>3. CASE DisarmStatus(q)
        BY <4>3 DEF DisarmStatus, Request
      <4>4. ASSUME NEW r \in Rules, DisarmRule(q, r)
            PROVE  req'[q].pc # "cap"
        BY <4>4 DEF DisarmRule, Request
      <4>5. CASE LiveRead(q) \/ DisarmRead(q) \/ DeleteRead(q)
        BY <4>5 DEF LiveRead, DisarmRead, DeleteRead, Begins, NoRequest
      <4> QED
        BY <2>2, <4>1, <4>2, <4>3, <4>4, <4>5
    <3>3. sleeve'.cap = sleeve.cap
      BY <2>2 DEF ArmMode, ArmStatus, LiveWrite, DisarmStatus, DisarmEnd, DisarmRule, DeleteRow,
                  LiveRead, DisarmRead, DeleteRead, SetStatus, Sleeve
    <3>4. h'.ceiling = h.ceiling
      BY <2>2 DEF ArmMode, ArmStatus, LiveWrite, DisarmStatus, DisarmEnd, DisarmRule, DeleteRow,
                  LiveRead, DisarmRead, DeleteRead, History
    <3> QED
      BY <1>5, <3>1, <3>2, <3>3, <3>4
  <2> QED
    BY <1>9, <2>1, <2>2 DEF Route, Arming, Disarming
<1> QED
  BY <1>1, <1>2, <1>3, <1>4, <1>6, <1>7, <1>8, <1>9 DEF Next, Creation

-----------------------------------------------------------------------------
LEMMA Step == IInv /\ [Next]_vars => IInv'
<1> SUFFICES ASSUME IInv, [Next]_vars
             PROVE  IInv'
  OBVIOUS
<1>1. TypeOK
  BY DEF IInv
<1> QED
  BY <1>1, TypeStep, RaceStep, TickViewStep, FlatStep, BoxStep DEF IInv

\* The inductive invariant holds, whatever the number of rules and requests.
THEOREM ControlInvariant == Spec => []IInv
  BY InitInv, Step, PTL DEF Spec

\* A rule is in PAPER mode only by an arm that began after the last disarm to end
\* had begun, or that was under way when it began: every arm that had ended by
\* then is undone, for every rule (OnlyRacesSurviveDisarm).  An arm under way is
\* not, and nothing of the kind is claimed.
THEOREM DisarmsUndoEndedArms == Spec => []OnlyRacesSurviveDisarm
<1>1. IInv => OnlyRacesSurviveDisarm
  BY DEF IInv
<1> QED
  BY <1>1, ControlInvariant, PTL

\* An order is placed only for a rule with an arm that, at some moment of the tick,
\* was later than every disarm that had ended, or had raced the last of them
\* (OrdersAreWarranted).
THEOREM KillSwitchHolds == Spec => OrdersAreWarranted
<1>1. ASSUME IInv, [Next]_vars
      PROVE  [\A r \in open' \ open : r \in tick.warrant]_vars
  <2>1. CASE open' \subseteq open
    BY <2>1
  <2>2. ASSUME NEW r \in Rules, FireArmed(r)
        PROVE  \A x \in open' \ open : x \in tick.warrant
    BY <1>1, <2>2 DEF FireArmed, Arms, IInv, TickInv
  <2> QED
    BY <1>1, <2>1, <2>2
    DEF Next, Creation, CreateSleeve, CreateRule, Route, Arming, Disarming, ArmRead, ArmMode,
        ArmStatus, LiveRead, LiveWrite, DisarmRead, DisarmStatus, DisarmRule, DisarmEnd,
        DeleteRead, DeleteRow, CapRead, CapWrite, AppCrash, TickStep, TickRead, TickPoll, Breach,
        LoadRules, FireShadow, NoFire, TickEnd, vars
<1> QED
  BY <1>1, ControlInvariant, PTL DEF Spec, OrdersAreWarranted

\* A deleted sleeve has left nothing behind but what a tick that the check could
\* not see has placed.
THEOREM DeletesAreFlat == Spec => []DeletedIsFlat
<1>1. IInv => DeletedIsFlat
  BY DEF IInv, FlatInv, DeletedIsFlat
<1> QED
  BY <1>1, ControlInvariant, PTL

\* No interleaving of envelope updates leaves a box wider than the widest one
\* created or confirmed.
THEOREM BoxesAreConfirmed == Spec => []BoxIsConfirmed
<1>1. IInv => BoxIsConfirmed
  BY DEF IInv
<1> QED
  BY <1>1, ControlInvariant, PTL
=============================================================================
