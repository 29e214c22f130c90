-------------------------- MODULE LiveEngineProofs --------------------------
(***************************************************************************)
(* Theorems of LiveEngine, for every set of symbols, every bound and every *)
(* set of faults.                                                          *)
(***************************************************************************)
EXTENDS LiveEngine, TLAPS

-----------------------------------------------------------------------------
(* Types *)

LEMMA IdleType == Idle \in Activation
BY EngineAssumption DEF Idle, Activation, Actions, Entries, Account, NoAccount, Days

\* What evaluate answers is an order for the signal's symbol, of an integer size.
LEMMA EvaluateType ==
  ASSUME NEW s, NEW a \in Actions, NEW ps \in SUBSET Position, NEW acct,
         NEW o \in Evaluate(s, a, ps, acct)
  PROVE  o.symbol = s /\ o.quantity \in Int
<1>1. CASE a = "EXIT"
  <2>1. PICK p \in OnSymbol(s, ps) : o = [symbol |-> s, quantity |-> -p.quantity]
    BY <1>1 DEF Evaluate
  <2>2. p.quantity \in Int
    BY DEF OnSymbol, Position
  <2>3. QED BY <2>1, <2>2
<1>2. CASE a # "EXIT"
  <2>1. o \in {[symbol |-> s,
                quantity |-> IF a = "ENTER_LONG" THEN MaxPositionSize
                                                 ELSE -MaxPositionSize]}
    BY <1>2 DEF Evaluate
  <2>2. QED BY <2>1, LimitsAssumption
<1>3. QED BY <1>1, <1>2

LEMMA NoEntryType == NoEntry \in Entry
BY DEF NoEntry, Entry

LEMMA TypeInit == Init => TypeOK
<1> SUFFICES ASSUME Init PROVE TypeOK
  OBVIOUS
<1>1. /\ lane \in [Lanes -> Activation]
      /\ inflight \in [Symbols -> Entry]
      /\ net \in [Symbols -> Int]
  BY IdleType, NoEntryType DEF Init
<1>2. /\ dayStart \in [day : Days \cup {-1}, start : Nat]
      /\ reference \in [Days -> Nat]
      /\ day \in Days
  BY EngineAssumption DEF Init, NoDay, Days
<1>3. nextId \in 1..(MaxOrders + 1)
  BY EngineAssumption DEF Init
<1>4. QED BY <1>1, <1>2, <1>3 DEF Init, TypeOK

LEMMA GotoType ==
  ASSUME lane \in [Lanes -> Activation], NEW t \in Lanes, NEW l \in Activation, Goto(t, l)
  PROVE  lane' \in [Lanes -> Activation]
BY DEF Goto

LEMMA FinishType ==
  ASSUME lane \in [Lanes -> Activation], NEW t \in Lanes, Finish(t)
  PROVE  lane' \in [Lanes -> Activation]
BY GotoType, IdleType DEF Finish

\* The step that evaluates leaves the lanes and the history well typed.
LEMMA ConcludeType ==
  ASSUME TypeOK, NEW t \in Lanes, NEW acct \in Account, NEW d \in Days,
         Conclude(t, acct, d)
  PROVE  lane' \in [Lanes -> Activation] /\ halted' \subseteq Days
<1> lane[t] \in Activation /\ lane \in [Lanes -> Activation]
  BY DEF TypeOK
<1>1. lane' \in [Lanes -> Activation]
  <2>1. CASE Finish(t)
    BY <2>1, FinishType
  <2>2. ASSUME NEW o \in Evaluate(t[1], lane[t].action, lane[t].seen, acct),
               Goto(t, [lane[t] EXCEPT !.pc = "place", !.account = acct, !.today = d,
                                       !.request = o.quantity])
        PROVE  lane' \in [Lanes -> Activation]
    <3>1. lane[t].action \in Actions /\ lane[t].seen \in SUBSET Position
      BY DEF Activation
    <3>2. o.quantity \in Int
      BY <3>1, EvaluateType
    <3>3. [lane[t] EXCEPT !.pc = "place", !.account = acct, !.today = d,
                          !.request = o.quantity] \in Activation
      BY <3>2 DEF Activation, Deciding
    <3>4. QED BY <2>2, <3>3, GotoType
  <2>3. QED BY <2>1, <2>2 DEF Conclude
<1>2. halted' \subseteq Days
  BY DEF Conclude, TypeOK
<1>3. QED BY <1>1, <1>2

LEMMA TypeNext == TypeOK /\ [Next]_vars => TypeOK'
<1> SUFFICES ASSUME TypeOK, [Next]_vars PROVE TypeOK'
  OBVIOUS
<1> USE EngineAssumption
<1>0. \A t \in Lanes : lane[t] \in Activation
  BY DEF TypeOK
<1>e. \A id \in OrderIds \cup {0}, aged \in BOOLEAN : [id |-> id, aged |-> aged] \in Entry
  BY DEF Entry
<1>1. ASSUME NEW t \in Lanes, NEW a \in Actions, Begin(t, a) PROVE TypeOK'
  <2>1. [lane[t] EXCEPT !.pc = "published", !.action = a] \in Activation
    BY <1>0 DEF Activation
  <2>2. lane' \in [Lanes -> Activation]
    BY <1>1, <2>1, GotoType DEF TypeOK, Begin
  <2>3. QED BY <1>1, <2>2 DEF TypeOK, Begin, storeVars, brokerVars, historyVars
<1>2. ASSUME NEW t \in Lanes, CheckInflight(t) PROVE TypeOK'
  <2>1. [lane[t] EXCEPT !.pc = "positions"] \in Activation
    BY <1>0 DEF Activation, Deciding
  <2>2. lane' \in [Lanes -> Activation]
    BY <1>2, <2>1, GotoType, FinishType DEF TypeOK, CheckInflight
  <2>3. t[1] \in Symbols
    BY DEF Lanes
  <2>4. inflight' \in [Symbols -> Entry]
    <3>1. inflight' = inflight \/ inflight' = [inflight EXCEPT ![t[1]] = NoEntry]
      BY <1>2 DEF CheckInflight
    <3>2. QED BY <2>3, <3>1, NoEntryType DEF TypeOK
  <2>5. untracked' \subseteq OrderIds
    <3>1. inflight[t[1]].id # 0 => inflight[t[1]].id \in OrderIds
      BY <2>3 DEF TypeOK, Entry
    <3>2. QED BY <1>2, <3>1 DEF TypeOK, CheckInflight
  <2>6. QED BY <1>2, <2>2, <2>4, <2>5 DEF TypeOK, CheckInflight, storeVars, brokerVars
<1>3. ASSUME NEW t \in Lanes, ReadPositions(t) PROVE TypeOK'
  <2>1. Positions \in SUBSET Position
    BY DEF TypeOK, Positions, Position, Names
  <2>2. /\ [lane[t] EXCEPT !.pc = "summary", !.seen = Positions] \in Activation
        /\ [lane[t] EXCEPT !.pc = "summary", !.seen = {}] \in Activation
    BY <1>0, <2>1 DEF Activation, Deciding
  <2>3. lane' \in [Lanes -> Activation]
    BY <1>3, <2>2, GotoType, FinishType DEF TypeOK, ReadPositions
  <2>4. misread' \subseteq Symbols
    <3>1. t[1] \in Symbols
      BY DEF Lanes
    <3>2. misread' = misread \/ misread' = misread \cup {s \in {t[1]} : net[s] # 0}
      BY <1>3 DEF ReadPositions
    <3>3. QED BY <3>1, <3>2 DEF TypeOK
  <2>5. QED BY <1>3, <2>3, <2>4 DEF TypeOK, ReadPositions, storeVars, brokerVars
<1>4. ASSUME NEW t \in Lanes, ReadSummary(t) PROVE TypeOK'
  <2>1. lane' \in [Lanes -> Activation] /\ halted' \subseteq Days
    <3>1. ASSUME NEW e \in Equities \ {0},
                 Conclude(t, [equity |-> e, start |-> dayStart.start], day)
          PROVE  lane' \in [Lanes -> Activation] /\ halted' \subseteq Days
      <4>1. [equity |-> e, start |-> dayStart.start] \in Account /\ day \in Days
        BY DEF TypeOK, Account
      <4>2. QED BY <3>1, <4>1, ConcludeType
    <3>2. ASSUME NEW e \in Equities \ {0}, UNCHANGED halted,
                 Goto(t, [lane[t] EXCEPT !.pc = "select", !.today = day,
                                         !.account = [equity |-> e, start |-> 0]])
          PROVE  lane' \in [Lanes -> Activation] /\ halted' \subseteq Days
      <4>1. [lane[t] EXCEPT !.pc = "select", !.today = day,
                            !.account = [equity |-> e, start |-> 0]] \in Activation
        <5>1. [equity |-> e, start |-> 0] \in Account /\ day \in Days
          BY DEF TypeOK, Account
        <5>2. lane[t] \in Activation
          BY <1>0
        <5>3. QED BY <5>1, <5>2 DEF Activation, Deciding
      <4>2. QED BY <3>2, <4>1, GotoType DEF TypeOK
    <3>3. CASE Conclude(t, NoAccount, day)
      BY <3>3, ConcludeType DEF TypeOK, NoAccount, Account
    <3>4. QED BY <1>4, <3>1, <3>2, <3>3 DEF ReadSummary
  <2>2. QED BY <1>4, <2>1 DEF TypeOK, ReadSummary, storeVars, brokerVars
<1>5. ASSUME NEW t \in Lanes, NEW start \in Nat, Adopt(t, start)
      PROVE  /\ lane' \in [Lanes -> Activation] /\ halted' \subseteq Days
             /\ dayStart' \in [day : Days \cup {-1}, start : Nat]
  <2>1. /\ [equity |-> lane[t].account.equity, start |-> start] \in Account
        /\ lane[t].today \in Days
    BY DEF TypeOK, Activation, Account
  <2>2. lane' \in [Lanes -> Activation] /\ halted' \subseteq Days
    BY <1>5, <2>1, ConcludeType DEF Adopt
  <2>3. QED BY <1>5, <2>1, <2>2 DEF Adopt
<1>6. ASSUME NEW t \in Lanes, SelectReference(t) PROVE TypeOK'
  <2>1. reference[lane[t].today] \in Nat
    BY DEF TypeOK, Activation
  <2>2. [lane[t] EXCEPT !.pc = "insert"] \in Activation
    <3>1. lane[t] \in Activation
      BY <1>0
    <3>2. QED BY <3>1 DEF Activation, Deciding
  <2>3. /\ lane' \in [Lanes -> Activation] /\ halted' \subseteq Days
        /\ dayStart' \in [day : Days \cup {-1}, start : Nat]
    BY <1>5, <1>6, <2>1, <2>2, GotoType DEF TypeOK, SelectReference
  <2>4. QED BY <1>6, <2>3 DEF TypeOK, SelectReference, storeVars, brokerVars
<1>7. ASSUME NEW t \in Lanes, InsertReference(t) PROVE TypeOK'
  <2>1. lane[t].account.equity \in Nat /\ lane[t].today \in Days
    BY DEF TypeOK, Activation, Account
  <2>2. /\ lane' \in [Lanes -> Activation] /\ halted' \subseteq Days
        /\ dayStart' \in [day : Days \cup {-1}, start : Nat]
    BY <1>5, <1>7, <2>1, FinishType DEF TypeOK, InsertReference
  <2>3. reference' \in [Days -> Nat]
    BY <1>7, <2>1 DEF TypeOK, InsertReference
  <2>4. QED BY <1>7, <2>2, <2>3 DEF TypeOK, InsertReference, brokerVars
<1>8. ASSUME NEW t \in Lanes, PlaceFails(t) PROVE TypeOK'
  BY <1>8, FinishType DEF TypeOK, PlaceFails, storeVars, brokerVars, historyVars
<1>9. ASSUME NEW t \in Lanes, Accept(t)
      PROVE  /\ nextId' \in 1..(MaxOrders + 1)
             /\ working' \subseteq Order
             /\ placed' \subseteq Order
  <2>1. [id |-> nextId, symbol |-> t[1], quantity |-> lane[t].request] \in Order
    BY <1>9 DEF Accept, Order, Lanes, TypeOK, Activation
  <2>2. QED BY <1>9, <2>1 DEF Accept, TypeOK, OrderIds
<1>10. ASSUME NEW t \in Lanes, Submit(t) PROVE TypeOK'
  <2>1. nextId \in OrderIds /\ t[1] \in Symbols
    BY <1>10 DEF Submit, Accept, Lanes
  <2>2. [lane[t] EXCEPT !.pc = "accepted", !.ticket = nextId] \in Activation
    BY <1>0, <2>1 DEF Activation
  <2>3. lane' \in [Lanes -> Activation]
    BY <1>10, <2>2, GotoType, FinishType DEF TypeOK, Submit
  <2>4. inflight' \in [Symbols -> Entry]
    <3>1. [id |-> nextId, aged |-> FALSE] \in Entry
      BY <1>e, <2>1
    <3>2. \/ inflight' = [inflight EXCEPT ![t[1]] = [id |-> nextId, aged |-> FALSE]]
          \/ inflight' = inflight
      BY <1>10 DEF Submit
    <3>3. QED BY <2>1, <3>1, <3>2 DEF TypeOK
  <2>5. QED BY <1>9, <1>10, <2>3, <2>4 DEF TypeOK, Submit, storeVars
<1>11. ASSUME NEW t \in Lanes, SubmitUnacknowledged(t) PROVE TypeOK'
  <2>1. nextId \in OrderIds
    BY <1>11 DEF SubmitUnacknowledged, Accept
  <2>2. lane' \in [Lanes -> Activation]
    BY <1>11, FinishType DEF TypeOK, SubmitUnacknowledged
  <2>3. QED BY <1>9, <1>11, <2>1, <2>2 DEF TypeOK, SubmitUnacknowledged, storeVars
<1>12. ASSUME NEW t \in Lanes, Register(t) PROVE TypeOK'
  <2>1. lane[t].ticket \in OrderIds \cup {0} /\ t[1] \in Symbols
    BY DEF TypeOK, Activation, Lanes
  <2>2. lane' \in [Lanes -> Activation]
    BY <1>12, FinishType DEF TypeOK, Register
  <2>3. inflight' \in [Symbols -> Entry]
    BY <1>12, <1>e, <2>1 DEF TypeOK, Register
  <2>4. QED BY <1>12, <2>2, <2>3 DEF TypeOK, Register, storeVars, brokerVars, historyVars
<1>13. ASSUME NEW t \in Lanes, LaneStep(t) PROVE TypeOK'
  BY <1>2, <1>3, <1>4, <1>6, <1>7, <1>8, <1>10, <1>11, <1>12, <1>13 DEF LaneStep
<1>14. ASSUME NEW r \in outbox, OnExecution(r) PROVE TypeOK'
  <2>1. r.id \in OrderIds
    BY DEF TypeOK, Report
  <2>2. inflight' \in [Symbols -> Entry]
    BY <1>14, <1>e DEF TypeOK, OnExecution, NoEntry
  <2>3. QED BY <1>14, <2>1, <2>2 DEF TypeOK, OnExecution, storeVars
<1>15. ASSUME NEW r \in outbox, LoseReport(r) PROVE TypeOK'
  BY <1>15 DEF TypeOK, LoseReport, storeVars, historyVars
<1>16. ASSUME NEW i \in recording, RecordTrade(i) \/ RecordFails(i) PROVE TypeOK'
  BY <1>16 DEF TypeOK, RecordTrade, RecordFails, storeVars, brokerVars, historyVars
<1>17. ASSUME NEW i \in OrderIds, NEW s \in Symbols, NEW change \in Int,
              Executed(i, s, change)
       PROVE  /\ net' \in [Symbols -> Int]
              /\ executed' \subseteq OrderIds
              /\ outbox' \subseteq Report
  <2>1. [id |-> i, name |-> LocalName[s], status |-> "FILLED"] \in Report
    BY DEF Report, Names
  <2>2. net' \in [Symbols -> Int]
    BY <1>17 DEF Executed, TypeOK
  <2>3. QED BY <1>17, <2>1, <2>2 DEF Executed, TypeOK
<1>18. ASSUME NEW o \in working, Execute(o) PROVE TypeOK'
  <2>1. o.id \in OrderIds /\ o.symbol \in Symbols /\ o.quantity \in Int
    BY DEF TypeOK, Order
  <2>2. QED BY <1>17, <1>18, <2>1 DEF TypeOK, Execute, storeVars, historyVars
<1>19. ASSUME NEW o \in working, Kill(o) PROVE TypeOK'
  <2>1. \A status \in {"CANCELLED", "REJECTED"} :
          [id |-> o.id, name |-> LocalName[o.symbol], status |-> status] \in Report
    BY DEF TypeOK, Order, Report, Names
  <2>2. outbox' \subseteq Report
    BY <1>19, <2>1 DEF TypeOK, Kill
  <2>3. QED BY <1>19, <2>2 DEF TypeOK, Kill, storeVars, historyVars
<1>20. ASSUME NEW s \in Symbols, StopOut(s) PROVE TypeOK'
  <2>1. nextId \in OrderIds /\ -net[s] \in Int
    BY <1>20 DEF StopOut, TypeOK
  <2>2. /\ net' \in [Symbols -> Int]
        /\ executed' \subseteq OrderIds
        /\ outbox' \subseteq Report
    BY <1>17, <1>20, <2>1 DEF StopOut
  <2>3. QED BY <1>20, <2>1, <2>2 DEF TypeOK, StopOut, OrderIds, storeVars, historyVars
<1>21. ASSUME NEW s \in Symbols, Age(s) PROVE TypeOK'
  <2>1. inflight[s] \in Entry
    BY DEF TypeOK
  <2>2. [inflight[s] EXCEPT !.aged = TRUE] \in Entry
    BY <2>1 DEF Entry
  <2>3. inflight' = [inflight EXCEPT ![s] = [inflight[s] EXCEPT !.aged = TRUE]]
    BY <1>21 DEF Age
  <2>4. inflight' \in [Symbols -> Entry]
    BY <2>2, <2>3 DEF TypeOK
  <2>5. QED BY <1>21, <2>4 DEF TypeOK, Age, storeVars, brokerVars, historyVars
<1>22. ASSUME NEW s \in Symbols, Arm(s) \/ Disarm(s) PROVE TypeOK'
  BY <1>22 DEF TypeOK, Arm, Disarm, storeVars, brokerVars, historyVars
<1>23. CASE Midnight \/ Outage \/ Reconnect \/ Probe
  <2>1. day' \in Days /\ online' \in BOOLEAN /\ connected' \in BOOLEAN
    <3>1. CASE Midnight
      BY <3>1 DEF TypeOK, Midnight, Days
    <3>2. CASE Outage
      BY <3>2 DEF TypeOK, Outage
    <3>3. CASE Reconnect
      BY <3>3 DEF TypeOK, Reconnect
    <3>4. CASE Probe
      BY <3>4 DEF TypeOK, Probe
    <3>5. QED BY <1>23, <3>1, <3>2, <3>3, <3>4
  <2>2. QED
    BY <1>23, <2>1 DEF TypeOK, Midnight, Outage, Reconnect, Probe, storeVars,
                       brokerVars, historyVars
<1>24. CASE Restart
  <2>1. lane' \in [Lanes -> Activation]
    BY <1>24, IdleType DEF Restart
  <2>2. inflight' \in [Symbols -> Entry]
    BY <1>24, <1>e DEF Restart, NoEntry
  <2>3. untracked' \subseteq OrderIds
    BY <1>24 DEF Restart, TypeOK, Order
  <2>4. dayStart' \in [day : Days \cup {-1}, start : Nat]
    BY <1>24 DEF Restart, NoDay
  <2>5. QED
    BY <1>24, <2>1, <2>2, <2>3, <2>4 DEF TypeOK, Restart, storeVars, brokerVars
<1>25. CASE UNCHANGED vars
  BY <1>25 DEF TypeOK, vars, storeVars, brokerVars, historyVars
<1>26. QED
  BY <1>1, <1>13, <1>14, <1>15, <1>16, <1>18, <1>19, <1>20, <1>21, <1>22, <1>23,
     <1>24, <1>25 DEF Next

\* Every variable keeps its type, whatever fails around the engine.
THEOREM TypeCorrect == Spec => []TypeOK
BY TypeInit, TypeNext, PTL DEF Spec

-----------------------------------------------------------------------------
(* The reference of the day *)

\* What an activation knows of the account: the equity it would store is a
\* reading, and what it decides on is the row of its day.
KnowsReference(t) ==
  /\ lane[t].pc \in {"select", "insert"} => lane[t].account.equity # 0
  /\ At(t, "place") /\ lane[t].account # NoAccount =>
       /\ lane[t].account.start # 0
       /\ reference[lane[t].today] = lane[t].account.start

\* So does the engine: a start it remembers is a stored one.
ReferenceInv ==
  /\ dayStart.day # -1 => /\ dayStart.start # 0
                          /\ reference[dayStart.day] = dayStart.start
  /\ \A t \in Lanes : KnowsReference(t)

\* A row is written once: the only step that writes one finds none.
LEMMA WrittenOnce ==
  ASSUME TypeOK, [Next]_vars
  PROVE  \A d \in Days : reference[d] # 0 => reference'[d] = reference[d]
<1>1. ASSUME NEW t \in Lanes, InsertReference(t)
      PROVE  \A d \in Days : reference[d] # 0 => reference'[d] = reference[d]
  BY <1>1 DEF InsertReference, NoRow, TypeOK
<1>2. ASSUME NEW t \in Lanes, LaneStep(t), ~InsertReference(t) PROVE reference' = reference
  BY <1>2 DEF LaneStep, CheckInflight, ReadPositions, ReadSummary, SelectReference,
              PlaceFails, Submit, SubmitUnacknowledged, Register, storeVars
<1>3. ASSUME NEW t \in Lanes, NEW a \in Actions, Begin(t, a) PROVE reference' = reference
  BY <1>3 DEF Begin, storeVars
<1>4. ASSUME NEW r, OnExecution(r) \/ LoseReport(r) PROVE reference' = reference
  BY <1>4 DEF OnExecution, LoseReport, storeVars
<1>5. ASSUME NEW i, RecordTrade(i) \/ RecordFails(i) PROVE reference' = reference
  BY <1>5 DEF RecordTrade, RecordFails, storeVars
<1>6. ASSUME NEW o, Execute(o) \/ Kill(o) PROVE reference' = reference
  BY <1>6 DEF Execute, Kill, storeVars
<1>7. ASSUME NEW s, StopOut(s) \/ Age(s) \/ Arm(s) \/ Disarm(s) PROVE reference' = reference
  BY <1>7 DEF StopOut, Age, Arm, Disarm, storeVars
<1>8. CASE Midnight \/ Outage \/ Reconnect \/ Probe \/ Restart \/ UNCHANGED vars
  BY <1>8 DEF Midnight, Outage, Reconnect, Probe, Restart, vars, storeVars
<1>9. QED
  BY <1>1, <1>2, <1>3, <1>4, <1>5, <1>6, <1>7, <1>8 DEF Next

\* A lane that does not move keeps what it knows, for rows do not change.
LEMMA KnowsKept ==
  ASSUME TypeOK, NEW t \in Lanes, KnowsReference(t), lane'[t] = lane[t],
         \A d \in Days : reference[d] # 0 => reference'[d] = reference[d]
  PROVE  KnowsReference(t)'
<1>1. lane[t].today \in Days
  BY DEF TypeOK, Activation
<1>2. QED BY <1>1 DEF KnowsReference, At

\* A decision on the row of day d is one the lane may be left with.
LEMMA ConcludeKnows ==
  ASSUME TypeOK, NEW t \in Lanes, NEW acct \in Account, NEW d \in Days,
         Conclude(t, acct, d),
         acct # NoAccount => acct.start # 0 /\ reference'[d] = acct.start
  PROVE  KnowsReference(t)'
<1>0. lane[t] \in Activation /\ lane \in [Lanes -> Activation]
  BY DEF TypeOK
<1>1. CASE Finish(t)
  BY <1>0, <1>1 DEF Finish, Goto, Idle, KnowsReference, At
<1>2. ASSUME NEW q, Goto(t, [lane[t] EXCEPT !.pc = "place", !.account = acct, !.today = d,
                                            !.request = q])
      PROVE  KnowsReference(t)'
  <2> DEFINE l == [lane[t] EXCEPT !.pc = "place", !.account = acct, !.today = d, !.request = q]
  <2>1. lane'[t] = l
    BY <1>0, <1>2 DEF Goto
  <2>2. l.pc = "place" /\ l.account = acct /\ l.today = d
    BY <1>0 DEF Activation
  <2>3. QED BY <2>1, <2>2 DEF KnowsReference, At
<1>3. QED BY <1>1, <1>2 DEF Conclude

LEMMA ReferenceInductive ==
  ASSUME TypeOK, ReferenceInv, [Next]_vars
  PROVE  ReferenceInv'
<1>a. \A t \in Lanes : KnowsReference(t) /\ lane[t] \in Activation
  BY DEF ReferenceInv, TypeOK
<1>b. \A t \in Lanes : \A l : Goto(t, l) => lane' = [u \in Lanes |-> IF u = t THEN l ELSE lane[u]]
  BY DEF Goto, TypeOK
<1>c. \A d \in Days : reference[d] # 0 => reference'[d] = reference[d]
  BY WrittenOnce
<1>d. -1 \notin Days /\ day \in Days /\ (dayStart.day # -1 => dayStart.day \in Days)
  BY DEF Days, TypeOK
\* The engine keeps what it remembers;
<1>e. ASSUME UNCHANGED dayStart
      PROVE  dayStart'.day # -1 => /\ dayStart'.start # 0
                                   /\ reference'[dayStart'.day] = dayStart'.start
  BY <1>c, <1>d, <1>e DEF ReferenceInv
\* a lane that moves answers for itself;
<1>o. ASSUME NEW t \in Lanes, NEW l, Goto(t, l), KnowsReference(t)'
      PROVE  \A u \in Lanes : KnowsReference(u)'
  <2>1. ASSUME NEW u \in Lanes, u # t PROVE KnowsReference(u)'
    BY <1>a, <1>b, <1>c, <1>o, <2>1, KnowsKept
  <2>2. QED BY <1>o, <2>1
\* and one that ends, or is not where it holds an account, has nothing to answer.
<1>f. ASSUME NEW t \in Lanes, NEW l, Goto(t, l), l.pc \notin {"select", "insert", "place"}
      PROVE  \A u \in Lanes : KnowsReference(u)'
  <2>1. KnowsReference(t)'
    BY <1>b, <1>f DEF KnowsReference, At
  <2>2. QED BY <1>f, <1>o, <2>1
<1>g. ASSUME NEW t \in Lanes, Finish(t) PROVE \A u \in Lanes : KnowsReference(u)'
  BY <1>f, <1>g DEF Finish, Idle
<1>h. ASSUME NEW t \in Lanes, NEW acct \in Account, NEW d \in Days, Conclude(t, acct, d),
             acct # NoAccount => acct.start # 0 /\ reference'[d] = acct.start
      PROVE  \A u \in Lanes : KnowsReference(u)'
  <2>1. KnowsReference(t)'
    BY <1>h, ConcludeKnows
  <2>2. \E l : Goto(t, l)
    BY <1>h DEF Conclude, Finish
  <2>3. QED BY <1>o, <2>1, <2>2
<1>1. ASSUME NEW t \in Lanes, NEW a \in Actions, Begin(t, a) PROVE ReferenceInv'
  <2>1. [lane[t] EXCEPT !.pc = "published", !.action = a].pc = "published"
    BY <1>a DEF Activation
  <2>2. QED BY <1>1, <1>e, <1>f, <2>1 DEF Begin, ReferenceInv
<1>2. ASSUME NEW t \in Lanes, CheckInflight(t) PROVE ReferenceInv'
  <2>1. [lane[t] EXCEPT !.pc = "positions"].pc = "positions"
    BY <1>a DEF Activation
  <2>2. QED BY <1>2, <1>e, <1>f, <1>g, <2>1 DEF CheckInflight, ReferenceInv
<1>3. ASSUME NEW t \in Lanes, ReadPositions(t) PROVE ReferenceInv'
  <2>1. \A ps : [lane[t] EXCEPT !.pc = "summary", !.seen = ps].pc = "summary"
    BY <1>a DEF Activation
  <2>2. QED BY <1>3, <1>e, <1>f, <1>g, <2>1 DEF ReadPositions, ReferenceInv
<1>4. ASSUME NEW t \in Lanes, ReadSummary(t) PROVE ReferenceInv'
  <2>0. UNCHANGED <<dayStart, reference>>
    BY <1>4 DEF ReadSummary, storeVars
  <2>1. ASSUME NEW e \in Equities \ {0}, ReferenceKnown,
               Conclude(t, [equity |-> e, start |-> dayStart.start], day)
        PROVE  \A u \in Lanes : KnowsReference(u)'
    <3>1. [equity |-> e, start |-> dayStart.start] \in Account
      BY EngineAssumption DEF TypeOK, Account
    <3>2. dayStart.start # 0 /\ reference'[day] = dayStart.start
      BY <1>d, <2>0, <2>1 DEF ReferenceKnown, ReferenceInv
    <3>3. QED BY <1>d, <1>h, <2>1, <3>1, <3>2
  <2>2. ASSUME NEW e \in Equities \ {0},
               Goto(t, [lane[t] EXCEPT !.pc = "select", !.today = day,
                                       !.account = [equity |-> e, start |-> 0]])
        PROVE  \A u \in Lanes : KnowsReference(u)'
    <3> DEFINE l == [lane[t] EXCEPT !.pc = "select", !.today = day,
                                    !.account = [equity |-> e, start |-> 0]]
    <3>1. l.pc = "select" /\ l.account.equity # 0
      BY <1>a, <2>2 DEF Activation
    <3>2. lane'[t] = l
      BY <1>b, <2>2
    <3>3. KnowsReference(t)'
      BY <3>1, <3>2 DEF KnowsReference, At
    <3>4. QED BY <1>o, <2>2, <3>3
  <2>3. ASSUME Conclude(t, NoAccount, day) PROVE \A u \in Lanes : KnowsReference(u)'
    <3>1. NoAccount \in Account
      BY DEF NoAccount, Account
    <3>2. QED BY <1>d, <1>h, <2>3, <3>1
  <2>4. \A u \in Lanes : KnowsReference(u)'
    BY <1>4, <2>1, <2>2, <2>3, Zenon DEF ReadSummary
  <2>5. QED BY <1>e, <2>0, <2>4 DEF ReferenceInv
\* The reference a lane adopts is the row of its day, and not empty.
<1>5. ASSUME NEW t \in Lanes, NEW start \in Nat \ {0}, Adopt(t, start),
             reference'[lane[t].today] = start
      PROVE  ReferenceInv'
  <2>1. /\ [equity |-> lane[t].account.equity, start |-> start] \in Account
        /\ lane[t].today \in Days
    BY <1>a DEF Activation, Account
  <2>2. \A u \in Lanes : KnowsReference(u)'
    BY <1>5, <1>h, <2>1 DEF Adopt
  <2>3. QED BY <1>5, <2>2 DEF Adopt, ReferenceInv
<1>6. ASSUME NEW t \in Lanes, SelectReference(t) PROVE ReferenceInv'
  <2>0. reference' = reference
    BY <1>6 DEF SelectReference, storeVars
  <2>1. CASE ~NoRow(lane[t].today) /\ Adopt(t, reference[lane[t].today])
    <3>1. reference[lane[t].today] \in Nat \ {0}
      BY <1>a, <2>1 DEF NoRow, TypeOK, Activation
    <3>2. QED BY <1>5, <2>0, <2>1, <3>1
  <2>2. CASE Goto(t, [lane[t] EXCEPT !.pc = "insert"]) /\ UNCHANGED dayStart
    <3> DEFINE l == [lane[t] EXCEPT !.pc = "insert"]
    <3>1. l.pc = "insert" /\ l.account = lane[t].account
      BY <1>a DEF Activation
    <3>2. lane[t].account.equity # 0
      BY <1>6, <1>a DEF SelectReference, At, KnowsReference
    <3>3. lane'[t] = l
      BY <1>b, <2>2
    <3>4. KnowsReference(t)'
      BY <3>1, <3>2, <3>3 DEF KnowsReference, At
    <3>5. QED BY <1>e, <1>o, <2>2, <3>4 DEF ReferenceInv
  <2>3. QED BY <1>6, <2>1, <2>2 DEF SelectReference
<1>7. ASSUME NEW t \in Lanes, InsertReference(t) PROVE ReferenceInv'
  <2>1. CASE /\ reference' = [reference EXCEPT ![lane[t].today] = lane[t].account.equity]
             /\ Adopt(t, lane[t].account.equity)
    <3>1. lane[t].account.equity \in Nat \ {0} /\ lane[t].today \in Days
      BY <1>7, <1>a DEF InsertReference, At, KnowsReference, Activation, Account
    <3>2. reference'[lane[t].today] = lane[t].account.equity
      BY <2>1, <3>1 DEF TypeOK
    <3>3. QED BY <1>5, <2>1, <3>1, <3>2
  <2>2. CASE Finish(t) /\ UNCHANGED <<reference, dayStart>>
    BY <1>e, <1>g, <2>2 DEF ReferenceInv
  <2>3. QED BY <1>7, <2>1, <2>2 DEF InsertReference
<1>8. ASSUME NEW t \in Lanes, PlaceFails(t) \/ SubmitUnacknowledged(t) \/ Register(t)
      PROVE  ReferenceInv'
  BY <1>8, <1>e, <1>g DEF PlaceFails, SubmitUnacknowledged, Register, ReferenceInv
<1>9. ASSUME NEW t \in Lanes, Submit(t) PROVE ReferenceInv'
  <2>1. [lane[t] EXCEPT !.pc = "accepted", !.ticket = nextId].pc = "accepted"
    BY <1>a DEF Activation
  <2>2. QED BY <1>9, <1>e, <1>f, <1>g, <2>1 DEF Submit, ReferenceInv
<1>10. CASE Restart
  BY <1>10 DEF Restart, ReferenceInv, NoDay, Idle, KnowsReference, At
<1>11. ASSUME UNCHANGED <<lane, dayStart>> PROVE ReferenceInv'
  BY <1>11, <1>a, <1>c, <1>e, KnowsKept DEF ReferenceInv
<1>12. ASSUME NEW r, OnExecution(r) \/ LoseReport(r) PROVE UNCHANGED <<lane, dayStart>>
  BY <1>12 DEF OnExecution, LoseReport
<1>13. ASSUME NEW i, RecordTrade(i) \/ RecordFails(i) PROVE UNCHANGED <<lane, dayStart>>
  BY <1>13 DEF RecordTrade, RecordFails
<1>14. ASSUME NEW o, Execute(o) \/ Kill(o) PROVE UNCHANGED <<lane, dayStart>>
  BY <1>14 DEF Execute, Kill
<1>15. ASSUME NEW s, StopOut(s) \/ Age(s) \/ Arm(s) \/ Disarm(s)
       PROVE  UNCHANGED <<lane, dayStart>>
  BY <1>15 DEF StopOut, Age, Arm, Disarm
<1>16. ASSUME Midnight \/ Outage \/ Reconnect \/ Probe \/ UNCHANGED vars
       PROVE  UNCHANGED <<lane, dayStart>>
  BY <1>16 DEF Midnight, Outage, Reconnect, Probe, vars
<1>17. ASSUME NEW t \in Lanes, LaneStep(t) PROVE ReferenceInv'
  BY <1>2, <1>3, <1>4, <1>6, <1>7, <1>8, <1>9, <1>17 DEF LaneStep
<1>18. QED
  BY <1>1, <1>10, <1>11, <1>12, <1>13, <1>14, <1>15, <1>16, <1>17 DEF Next

\* One reference per UTC day (storage_daily_equity), whatever the number of ticks
\* that read it at once, across midnights and restarts: a stored row never
\* changes, and the engine decides on no other.
THEOREM OneReferenceHolds == Spec => OneReference
<1>1. Init => ReferenceInv
  BY DEF Init, ReferenceInv, NoDay, KnowsReference, At, Idle
<1>2. TypeOK /\ ReferenceInv /\ [Next]_vars => ReferenceInv'
  BY ReferenceInductive
<1>3. ReferenceInv' => ReferenceHeld'
  BY DEF ReferenceInv, ReferenceHeld, KnowsReference
<1>4. TypeOK /\ ReferenceInv' /\ [Next]_vars
        => [/\ \A d \in Days : reference[d] # 0 => reference'[d] = reference[d]
            /\ ReferenceHeld']_vars
  BY <1>3, WrittenOnce
<1>5. QED BY <1>1, <1>2, <1>4, TypeCorrect, PTL DEF Spec, OneReference

-----------------------------------------------------------------------------
(* The journal *)

\* What is journalled, being journalled, or on its way as an execution, the
\* broker executed.
JournalInv ==
  /\ JournalIsReal
  /\ \A r \in outbox : r.status = "FILLED" => r.id \in executed

LEMMA JournalInductive ==
  ASSUME JournalInv, [Next]_vars
  PROVE  JournalInv'
<1> USE DEF JournalInv, JournalIsReal
<1>1. ASSUME NEW t \in Lanes, LaneStep(t) PROVE UNCHANGED <<journal, recording, outbox, executed>>
  BY <1>1 DEF LaneStep, CheckInflight, ReadPositions, ReadSummary, SelectReference,
              InsertReference, PlaceFails, Submit, SubmitUnacknowledged, Register,
              storeVars, brokerVars
<1>2. ASSUME NEW t \in Lanes, NEW a \in Actions, Begin(t, a)
      PROVE  UNCHANGED <<journal, recording, outbox, executed>>
  BY <1>2 DEF Begin, storeVars, brokerVars
<1>3. ASSUME NEW r \in outbox, OnExecution(r) PROVE JournalInv'
  BY <1>3 DEF OnExecution, Journals, storeVars
<1>4. ASSUME NEW r, LoseReport(r) PROVE JournalInv'
  BY <1>4 DEF LoseReport, storeVars
<1>5. ASSUME NEW i \in recording, RecordTrade(i) \/ RecordFails(i) PROVE JournalInv'
  BY <1>5 DEF RecordTrade, RecordFails, storeVars, brokerVars
<1>6. ASSUME NEW o, Execute(o) PROVE JournalInv'
  BY <1>6 DEF Execute, Executed, storeVars
<1>7. ASSUME NEW o, Kill(o) PROVE JournalInv'
  BY <1>7 DEF Kill, storeVars
<1>8. ASSUME NEW s, StopOut(s) PROVE JournalInv'
  BY <1>8 DEF StopOut, Executed, storeVars
<1>9. ASSUME NEW s, Age(s) \/ Arm(s) \/ Disarm(s)
      PROVE  UNCHANGED <<journal, recording, outbox, executed>>
  BY <1>9 DEF Age, Arm, Disarm, storeVars, brokerVars
<1>10. CASE Midnight \/ Outage \/ Reconnect \/ Probe \/ UNCHANGED vars
  BY <1>10 DEF Midnight, Outage, Reconnect, Probe, vars, storeVars, brokerVars
<1>11. CASE Restart
  BY <1>11 DEF Restart, storeVars, brokerVars
<1>12. QED
  BY <1>1, <1>2, <1>3, <1>4, <1>5, <1>6, <1>7, <1>8, <1>9, <1>10, <1>11 DEF Next

\* No row without an execution: cancelled, refused and lost orders leave nothing in
\* the journal, for any number of orders and under every fault.
THEOREM JournalIsRealHolds == Spec => []JournalIsReal
<1>1. Init => JournalInv
  BY DEF Init, JournalInv, JournalIsReal
<1>2. JournalInv /\ [Next]_vars => JournalInv'
  BY JournalInductive
<1>3. JournalInv => JournalIsReal
  BY DEF JournalInv
<1>4. QED BY <1>1, <1>2, <1>3, PTL DEF Spec
=============================================================================
