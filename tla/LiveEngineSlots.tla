-------------------------- MODULE LiveEngineSlots --------------------------
(***************************************************************************)
(* Theorems about the in-flight registry of LiveEngine: with one lane per  *)
(* symbol (the MetaTrader gateway, which awaits a tick before it polls the *)
(* next), a symbol never has two live orders, none is forgotten, and the   *)
(* engine implements the order slots, whatever is lost, late or restarted; *)
(* and the entries do not pile up on a symbol.                             *)
(***************************************************************************)
EXTENDS LiveEngineProofs, FiniteSetTheorems

\* Ids the system has seen are below the next one the broker hands out.
IdsBelowNext ==
  /\ \A o \in placed : o.id < nextId
  /\ \A o \in working : o.id < nextId
  /\ \A r \in outbox : r.id < nextId
  /\ \A i \in reported \cup untracked : i < nextId
  /\ \A s \in Symbols : inflight[s].id < nextId
  /\ \A t \in Lanes : lane[t].ticket < nextId

\* Where an activation is tells which order its symbol may still have live:
\* none while it decides, its own once placed, the registered one otherwise.
OwnsSlot(t) ==
  /\ lane[t].pc \in Deciding => LiveOrders(t[1]) = {}
  /\ At(t, "accepted") => LiveOrders(t[1]) \subseteq {lane[t].ticket}
  /\ lane[t].pc \in {"idle", "published"} => LiveOrders(t[1]) \subseteq {inflight[t[1]].id}

LaneOwnsSlot == \A t \in Lanes : OwnsSlot(t)

SlotInv == IdsBelowNext /\ LaneOwnsSlot

-----------------------------------------------------------------------------
(* What the steps do to the orders *)

\* A decision under way keeps its ticket, touches no order, and goes on deciding
\* or ends.
LEMMA DecidingStep ==
  ASSUME NEW t \in Lanes, TypeOK,
         \/ ReadPositions(t) \/ ReadSummary(t) \/ SelectReference(t)
         \/ InsertReference(t) \/ PlaceFails(t)
  PROVE  /\ lane[t].pc \in Deciding
         /\ \E l : /\ Goto(t, l)
                  /\ l.pc \in Deciding \cup {"idle"}
                  /\ l.ticket \in {0, lane[t].ticket}
         /\ UNCHANGED <<inflight, nextId, working, outbox, placed, reported, untracked>>
<1> DEFINE Next1(l) == /\ Goto(t, l)
                       /\ l.pc \in Deciding \cup {"idle"}
                       /\ l.ticket \in {0, lane[t].ticket}
<1>0. lane[t] \in Activation
  BY DEF TypeOK
<1>1. Finish(t) => Next1(Idle)
  BY DEF Finish, Idle
<1>2. ASSUME NEW acct, NEW d, Conclude(t, acct, d) PROVE \E l : Next1(l)
  <2>1. ASSUME NEW q, Goto(t, [lane[t] EXCEPT !.pc = "place", !.account = acct,
                                              !.today = d, !.request = q])
        PROVE  \E l : Next1(l)
    <3> DEFINE l == [lane[t] EXCEPT !.pc = "place", !.account = acct, !.today = d,
                                    !.request = q]
    <3>1. l.pc = "place" /\ l.ticket = lane[t].ticket
      BY <1>0 DEF Activation
    <3>2. QED BY <2>1, <3>1 DEF Deciding
  <2>2. QED BY <1>1, <1>2, <2>1 DEF Conclude
<1>3. CASE ReadPositions(t)
  <2>1. \A ps : LET l == [lane[t] EXCEPT !.pc = "summary", !.seen = ps]
               IN  l.pc = "summary" /\ l.ticket = lane[t].ticket
    BY <1>0 DEF Activation
  <2>2. \E l : Next1(l)
    BY <1>1, <1>3, <2>1 DEF ReadPositions, Deciding
  <2>3. QED BY <1>3, <2>2 DEF ReadPositions, At, Deciding, brokerVars, historyVars
<1>4. CASE ReadSummary(t)
  <2>1. \A a : LET l == [lane[t] EXCEPT !.pc = "select", !.today = day, !.account = a]
              IN  l.pc = "select" /\ l.ticket = lane[t].ticket
    BY <1>0 DEF Activation
  <2>2. \E l : Next1(l)
    BY <1>1, <1>2, <1>4, <2>1 DEF ReadSummary, Deciding
  <2>3. QED BY <1>4, <2>2 DEF ReadSummary, At, Deciding, brokerVars
<1>5. CASE SelectReference(t)
  <2>1. LET l == [lane[t] EXCEPT !.pc = "insert"]
        IN  l.pc = "insert" /\ l.ticket = lane[t].ticket
    BY <1>0 DEF Activation
  <2>2. \E l : Next1(l)
    BY <1>2, <1>5, <2>1 DEF SelectReference, Adopt, Deciding
  <2>3. QED BY <1>5, <2>2 DEF SelectReference, At, Deciding, brokerVars
<1>6. CASE InsertReference(t)
  <2>1. \E l : Next1(l)
    BY <1>1, <1>2, <1>6 DEF InsertReference, Adopt
  <2>2. QED BY <1>6, <2>1 DEF InsertReference, At, Deciding, brokerVars
<1>7. CASE PlaceFails(t)
  BY <1>1, <1>7 DEF PlaceFails, At, Deciding, brokerVars, historyVars
<1>8. QED BY <1>3, <1>4, <1>5, <1>6, <1>7

\* Only an accepted order adds to what is placed; nothing takes back a report or
\* a timeout.
LEMMA OnlyAcceptPlaces ==
  ASSUME TypeOK, [Next]_vars,
         \A t \in Lanes : ~Submit(t) /\ ~SubmitUnacknowledged(t)
  PROVE  placed' = placed /\ reported \subseteq reported' /\ untracked \subseteq untracked'
<1>1. ASSUME NEW t \in Lanes, LaneStep(t)
      PROVE  placed' = placed /\ reported \subseteq reported' /\ untracked \subseteq untracked'
  <2>1. CASE CheckInflight(t)
    BY <2>1 DEF CheckInflight
  <2>2. CASE Register(t)
    BY <2>2 DEF Register, historyVars
  <2>3. QED BY <1>1, <2>1, <2>2, DecidingStep DEF LaneStep
<1>2. ASSUME NEW t \in Lanes, NEW a \in Actions, Begin(t, a) PROVE UNCHANGED historyVars
  BY <1>2 DEF Begin
<1>3. ASSUME NEW r, OnExecution(r) \/ LoseReport(r)
      PROVE  placed' = placed /\ reported \subseteq reported' /\ untracked \subseteq untracked'
  BY <1>3 DEF OnExecution, LoseReport, historyVars
<1>4. ASSUME NEW i, RecordTrade(i) \/ RecordFails(i) PROVE UNCHANGED historyVars
  BY <1>4 DEF RecordTrade, RecordFails
<1>5. ASSUME NEW o, Execute(o) \/ Kill(o) PROVE UNCHANGED historyVars
  BY <1>5 DEF Execute, Kill
<1>6. ASSUME NEW s, StopOut(s) \/ Age(s) \/ Arm(s) \/ Disarm(s) PROVE UNCHANGED historyVars
  BY <1>6 DEF StopOut, Age, Arm, Disarm
<1>7. CASE Midnight \/ Outage \/ Reconnect \/ Probe
  BY <1>7 DEF Midnight, Outage, Reconnect, Probe, historyVars
<1>8. CASE Restart
  BY <1>8 DEF Restart
<1>9. CASE UNCHANGED vars
  BY <1>9 DEF vars, historyVars
<1>10. QED
  BY <1>1, <1>2, <1>3, <1>4, <1>5, <1>6, <1>7, <1>8, <1>9 DEF Next, historyVars

\* Where no order is placed, live orders only go away.
LEMMA LiveShrinks ==
  ASSUME placed' = placed, reported \subseteq reported', untracked \subseteq untracked',
         NEW s
  PROVE  LiveOrders(s)' \subseteq LiveOrders(s)
BY DEF LiveOrders

-----------------------------------------------------------------------------
(* Ids are fresh *)

\* The numbers IdsBelowNext compares are integers.
LEMMA IdTypes ==
  ASSUME TypeOK
  PROVE  /\ nextId \in Nat \ {0}
         /\ \A o \in placed : o.id \in Nat \ {0}
         /\ \A o \in working : o.id \in Nat \ {0}
         /\ \A r \in outbox : r.id \in Nat \ {0}
         /\ \A i \in reported \cup untracked : i \in Nat \ {0}
         /\ \A s \in Symbols : inflight[s].id \in Nat
         /\ \A t \in Lanes : lane[t].ticket \in Nat
<1>1. OrderIds \subseteq Nat \ {0}
  BY DEF OrderIds
<1>0. \A i \in OrderIds \cup {0} : i \in Nat
  BY DEF OrderIds
<1>2. nextId \in Nat \ {0}
  BY EngineAssumption DEF TypeOK
<1>3. \A s \in Symbols : inflight[s].id \in Nat
  <2>1. TAKE s \in Symbols
  <2>2. inflight[s] \in Entry
    BY DEF TypeOK
  <2>3. inflight[s].id \in OrderIds \cup {0}
    BY <2>2 DEF Entry
  <2>4. QED BY <1>0, <2>3
<1>4. \A t \in Lanes : lane[t].ticket \in Nat
  <2>1. TAKE t \in Lanes
  <2>2. lane[t] \in Activation
    BY DEF TypeOK
  <2>3. lane[t].ticket \in OrderIds \cup {0}
    BY <2>2 DEF Activation
  <2>4. QED BY <1>0, <2>3
<1>5. QED BY <1>1, <1>2, <1>3, <1>4 DEF TypeOK, Order, Report

\* A move of one lane to a ticket below the next id leaves every ticket below it.
LEMMA TicketsBelow ==
  ASSUME TypeOK, IdsBelowNext, NEW t \in Lanes, NEW l, Goto(t, l),
         nextId' \in Nat, nextId <= nextId', l.ticket < nextId'
  PROVE  \A u \in Lanes : lane'[u].ticket < nextId'
<1>1. \A u \in Lanes : lane'[u] = IF u = t THEN l ELSE lane[u]
  BY DEF Goto, TypeOK
<1>2. TAKE u \in Lanes
<1>3. lane[u].ticket < nextId /\ lane[u].ticket \in Nat /\ nextId \in Nat
  BY IdTypes DEF IdsBelowNext
<1>4. QED BY <1>1, <1>3

LEMMA IdsInductive ==
  ASSUME TypeOK, IdsBelowNext, [Next]_vars
  PROVE  IdsBelowNext'
<1> USE IdTypes
<1>0. \A t \in Lanes : lane[t] \in Activation
  BY DEF TypeOK
<1>1. ASSUME NEW t \in Lanes, NEW a \in Actions, Begin(t, a) PROVE IdsBelowNext'
  <2>1. [lane[t] EXCEPT !.pc = "published", !.action = a].ticket = lane[t].ticket
    BY <1>0 DEF Activation
  <2>2. nextId' = nextId /\ nextId <= nextId /\ lane[t].ticket < nextId
    BY <1>1 DEF Begin, IdsBelowNext, brokerVars
  <2>3. \A u \in Lanes : lane'[u].ticket < nextId'
    <3>1. Goto(t, [lane[t] EXCEPT !.pc = "published", !.action = a])
      BY <1>1 DEF Begin
    <3>2. QED BY <2>1, <2>2, <3>1, TicketsBelow
  <2>4. QED BY <1>1, <2>2, <2>3 DEF Begin, IdsBelowNext, brokerVars, historyVars
<1>2. ASSUME NEW t \in Lanes, LaneStep(t) PROVE IdsBelowNext'
  <2>1. CASE CheckInflight(t)
    <3>1. \E l : Goto(t, l) /\ l.ticket \in {0, lane[t].ticket}
      <4>1. [lane[t] EXCEPT !.pc = "positions"].ticket = lane[t].ticket
        BY <1>0 DEF Activation
      <4>2. Idle.ticket = 0
        BY DEF Idle
      <4>3. QED BY <2>1, <4>1, <4>2 DEF CheckInflight, Finish
    <3>2. nextId' = nextId /\ lane[t].ticket < nextId /\ 0 < nextId
      BY <2>1 DEF CheckInflight, IdsBelowNext, brokerVars
    <3>3. \A u \in Lanes : lane'[u].ticket < nextId'
      BY <3>1, <3>2, TicketsBelow
    <3>4. t[1] \in Symbols
      BY DEF Lanes
    <3>5. \A s \in Symbols : inflight'[s].id < nextId'
      BY <2>1, <3>2, <3>4 DEF CheckInflight, IdsBelowNext, TypeOK, NoEntry
    <3>6. \A i \in reported' \cup untracked' : i < nextId'
      BY <2>1, <3>2, <3>4 DEF CheckInflight, IdsBelowNext
    <3>7. QED BY <2>1, <3>2, <3>3, <3>5, <3>6 DEF CheckInflight, IdsBelowNext, brokerVars
  <2>2. CASE \/ ReadPositions(t) \/ ReadSummary(t) \/ SelectReference(t)
             \/ InsertReference(t) \/ PlaceFails(t)
    <3>1. PICK l : Goto(t, l) /\ l.ticket \in {0, lane[t].ticket}
      BY <2>2, DecidingStep
    <3>2. UNCHANGED <<inflight, nextId, working, outbox, placed, reported, untracked>>
      BY <2>2, DecidingStep
    <3>3. l.ticket < nextId'
      BY <3>1, <3>2 DEF IdsBelowNext
    <3>4. \A u \in Lanes : lane'[u].ticket < nextId'
      BY <3>1, <3>2, <3>3, TicketsBelow
    <3>5. QED BY <3>2, <3>4 DEF IdsBelowNext
  <2>3. ASSUME Accept(t)
        PROVE  /\ nextId' \in Nat /\ nextId < nextId' /\ nextId <= nextId'
               /\ \A o \in placed' : o.id < nextId'
               /\ \A o \in working' : o.id < nextId'
    BY <2>3 DEF Accept, IdsBelowNext
  <2>4. CASE Submit(t)
    <3>1. Accept(t)
      BY <2>4 DEF Submit
    <3>2. \E l : Goto(t, l) /\ l.ticket \in {0, nextId}
      <4>1. [lane[t] EXCEPT !.pc = "accepted", !.ticket = nextId].ticket = nextId
        BY <1>0 DEF Activation
      <4>2. Idle.ticket = 0
        BY DEF Idle
      <4>3. QED BY <2>4, <4>1, <4>2 DEF Submit, Finish
    <3>3. \A u \in Lanes : lane'[u].ticket < nextId'
      BY <2>3, <3>1, <3>2, TicketsBelow
    <3>4. \A s \in Symbols : inflight'[s].id < nextId'
      BY <2>3, <2>4, <3>1 DEF Submit, IdsBelowNext, TypeOK, Lanes
    <3>5. QED BY <2>3, <2>4, <3>1, <3>3, <3>4 DEF Submit, IdsBelowNext
  <2>5. CASE SubmitUnacknowledged(t)
    <3>1. Accept(t)
      BY <2>5 DEF SubmitUnacknowledged
    <3>2. \A u \in Lanes : lane'[u].ticket < nextId'
      BY <2>3, <2>5, <3>1, TicketsBelow DEF SubmitUnacknowledged, Finish, Idle
    <3>3. QED BY <2>3, <2>5, <3>1, <3>2 DEF SubmitUnacknowledged, IdsBelowNext
  <2>6. CASE Register(t)
    <3>1. nextId' = nextId
      BY <2>6 DEF Register, brokerVars
    <3>2. \A u \in Lanes : lane'[u].ticket < nextId'
      BY <2>6, <3>1, TicketsBelow DEF Register, Finish, Idle
    <3>3. \A s \in Symbols : inflight'[s].id < nextId'
      BY <2>6, <3>1 DEF Register, IdsBelowNext, TypeOK, Lanes
    <3>4. QED BY <2>6, <3>2, <3>3 DEF Register, IdsBelowNext, brokerVars, historyVars
  <2>7. QED BY <1>2, <2>1, <2>2, <2>4, <2>5, <2>6 DEF LaneStep
<1>3. ASSUME NEW r \in outbox, OnExecution(r) PROVE IdsBelowNext'
  <2>1. \A s \in Symbols : inflight'[s].id < nextId'
    BY <1>3 DEF OnExecution, IdsBelowNext, NoEntry
  <2>2. QED BY <1>3, <2>1 DEF OnExecution, IdsBelowNext
<1>4. ASSUME NEW r, LoseReport(r) PROVE IdsBelowNext'
  BY <1>4 DEF LoseReport, IdsBelowNext, historyVars
<1>5. ASSUME NEW i, RecordTrade(i) \/ RecordFails(i) PROVE IdsBelowNext'
  BY <1>5 DEF RecordTrade, RecordFails, IdsBelowNext, brokerVars, historyVars
<1>6. ASSUME NEW o \in working, Execute(o) PROVE IdsBelowNext'
  BY <1>6 DEF Execute, Executed, IdsBelowNext, historyVars
<1>7. ASSUME NEW o \in working, Kill(o) PROVE IdsBelowNext'
  BY <1>7 DEF Kill, IdsBelowNext, historyVars
<1>8. ASSUME NEW s \in Symbols, StopOut(s) PROVE IdsBelowNext'
  <2>1. nextId' = nextId + 1
    BY <1>8 DEF StopOut
  <2>2. \A r \in outbox' : r.id < nextId'
    BY <1>8, <2>1 DEF StopOut, Executed, IdsBelowNext
  <2>3. /\ \A o \in placed : o.id < nextId'
        /\ \A o \in working : o.id < nextId'
        /\ \A i \in reported \cup untracked : i < nextId'
        /\ \A u \in Symbols : inflight[u].id < nextId'
        /\ \A t \in Lanes : lane[t].ticket < nextId'
    BY <2>1 DEF IdsBelowNext
  <2>4. QED BY <1>8, <2>2, <2>3 DEF StopOut, IdsBelowNext, historyVars
<1>9. ASSUME NEW s \in Symbols, Age(s) PROVE IdsBelowNext'
  <2>1. \A u \in Symbols : inflight'[u].id = inflight[u].id
    <3>1. \A u \in Symbols : inflight[u] \in Entry
      BY DEF TypeOK
    <3>2. QED BY <1>9, <3>1 DEF Age, TypeOK, Entry
  <2>2. QED BY <1>9, <2>1 DEF Age, IdsBelowNext, brokerVars, historyVars
<1>10. ASSUME NEW s, Arm(s) \/ Disarm(s) PROVE IdsBelowNext'
  BY <1>10 DEF Arm, Disarm, IdsBelowNext, brokerVars, historyVars
<1>11. CASE Midnight \/ Outage \/ Reconnect \/ Probe
  BY <1>11 DEF Midnight, Outage, Reconnect, Probe, IdsBelowNext, brokerVars, historyVars
<1>12. CASE Restart
  BY <1>12 DEF Restart, IdsBelowNext, Idle, NoEntry, brokerVars
<1>13. CASE UNCHANGED vars
  BY <1>13 DEF vars, IdsBelowNext, brokerVars, historyVars
<1>14. QED
  BY <1>1, <1>2, <1>3, <1>4, <1>5, <1>6, <1>7, <1>8, <1>9, <1>10, <1>11, <1>12,
     <1>13 DEF Next

-----------------------------------------------------------------------------
(* An activation owns its symbol's slot *)

LEMMA OwnsKept ==
  ASSUME NEW t, OwnsSlot(t), lane'[t] = lane[t],
         LiveOrders(t[1])' \subseteq LiveOrders(t[1]),
         inflight'[t[1]].id = inflight[t[1]].id
  PROVE  OwnsSlot(t)'
BY DEF OwnsSlot, At

LEMMA OwnsEmpty ==
  ASSUME NEW t, LiveOrders(t[1])' = {}
  PROVE  OwnsSlot(t)'
BY DEF OwnsSlot

\* Where a step places no order, what remains is what the lane and the registry
\* of its symbol become.
LEMMA OwnsInductive ==
  ASSUME NEW w, Workers = {w}, TypeOK, SlotInv, [Next]_vars
  PROVE  LaneOwnsSlot'
<1>a. \A t, u \in Lanes : t[1] = u[1] => t = u
  BY DEF Lanes
<1>b. \A t \in Lanes : lane[t] \in Activation /\ t[1] \in Symbols /\ OwnsSlot(t)
  BY DEF TypeOK, SlotInv, LaneOwnsSlot, Lanes
<1>c. \A t \in Lanes : \A l : Goto(t, l) => lane' = [u \in Lanes |-> IF u = t THEN l ELSE lane[u]]
  BY DEF Goto, TypeOK
<1>1. ASSUME NEW t \in Lanes, Accept(t), reported' = reported, untracked \subseteq untracked'
      PROVE  /\ LiveOrders(t[1])' \subseteq {nextId}
             /\ \A s : s # t[1] => LiveOrders(s)' \subseteq LiveOrders(s)
  <2>1. LiveOrders(t[1]) = {}
    BY <1>1, <1>b DEF Accept, At, Deciding, OwnsSlot
  <2>2. placed' = placed \cup {[id |-> nextId, symbol |-> t[1], quantity |-> lane[t].request]}
    BY <1>1 DEF Accept
  <2>3. QED BY <1>1, <2>1, <2>2 DEF LiveOrders
<1>2. ASSUME NEW t \in Lanes, Submit(t) PROVE LaneOwnsSlot'
  <2>1. /\ LiveOrders(t[1])' \subseteq {nextId}
        /\ \A s : s # t[1] => LiveOrders(s)' \subseteq LiveOrders(s)
    BY <1>1, <1>2 DEF Submit
  <2>2. ASSUME NEW u \in Lanes, u # t PROVE OwnsSlot(u)'
    <3>1. lane'[u] = lane[u]
      BY <1>2, <2>2, <1>c DEF Submit, Finish
    <3>2. inflight'[u[1]] = inflight[u[1]]
      BY <1>2, <2>2, <1>a, <1>b DEF Submit, TypeOK
    <3>3. QED BY <1>a, <1>b, <2>1, <2>2, <3>1, <3>2, OwnsKept
  <2>3. OwnsSlot(t)'
    <3>1. CASE Gateway = "interactive_brokers"
      <4>1. inflight'[t[1]].id = nextId /\ lane'[t] = Idle
        BY <1>2, <1>b, <1>c, <3>1 DEF Submit, Finish, TypeOK
      <4>2. QED BY <2>1, <4>1 DEF OwnsSlot, At, Deciding, Idle
    <3>2. CASE Gateway = "metatrader5"
      <4> DEFINE l == [lane[t] EXCEPT !.pc = "accepted", !.ticket = nextId]
      <4>1. Goto(t, l)
        BY <1>2, <3>2 DEF Submit
      <4>2. lane'[t] = l
        BY <1>c, <4>1
      <4>3. l.pc = "accepted" /\ l.ticket = nextId
        BY <1>b DEF Activation
      <4>4. QED BY <2>1, <4>2, <4>3 DEF OwnsSlot, At, Deciding
    <3>3. QED BY <1>2, <3>1, <3>2 DEF Submit
  <2>4. QED BY <2>2, <2>3 DEF LaneOwnsSlot
<1>3. ASSUME NEW t \in Lanes, SubmitUnacknowledged(t) PROVE LaneOwnsSlot'
  <2>1. /\ LiveOrders(t[1])' \subseteq {nextId}
        /\ \A s : s # t[1] => LiveOrders(s)' \subseteq LiveOrders(s)
    BY <1>1, <1>3 DEF SubmitUnacknowledged
  <2>2. ASSUME NEW u \in Lanes, u # t PROVE OwnsSlot(u)'
    BY <1>3, <1>a, <1>b, <1>c, <2>1, <2>2, OwnsKept DEF SubmitUnacknowledged, Finish
  <2>3. LiveOrders(t[1])' = {}
    BY <1>3, <2>1 DEF SubmitUnacknowledged, LiveOrders
  <2>4. QED BY <2>2, <2>3, OwnsEmpty DEF LaneOwnsSlot
<1>4. ASSUME \A t \in Lanes : ~Submit(t) /\ ~SubmitUnacknowledged(t) PROVE LaneOwnsSlot'
  <2>0. \A s : LiveOrders(s)' \subseteq LiveOrders(s)
    BY <1>4, OnlyAcceptPlaces, LiveShrinks
  <2>s. ASSUME UNCHANGED <<lane, inflight>> PROVE LaneOwnsSlot'
    BY <1>b, <2>0, <2>s, OwnsKept DEF LaneOwnsSlot
  <2>o. ASSUME NEW t \in Lanes, NEW l, Goto(t, l),
               \A s \in Symbols : s # t[1] => inflight'[s] = inflight[s],
               OwnsSlot(t)'
        PROVE  LaneOwnsSlot'
    <3>1. ASSUME NEW u \in Lanes, u # t PROVE OwnsSlot(u)'
      BY <1>a, <1>b, <1>c, <2>0, <2>o, <3>1, OwnsKept
    <3>2. QED BY <2>o, <3>1 DEF LaneOwnsSlot
  <2>1. ASSUME NEW t \in Lanes, NEW a \in Actions, Begin(t, a) PROVE LaneOwnsSlot'
    <3> DEFINE l == [lane[t] EXCEPT !.pc = "published", !.action = a]
    <3>1. Goto(t, l) /\ inflight' = inflight /\ At(t, "idle")
      BY <2>1 DEF Begin
    <3>2. lane'[t] = l /\ l.pc = "published"
      BY <1>b, <1>c, <3>1 DEF Activation
    <3>3. LiveOrders(t[1])' \subseteq {inflight'[t[1]].id}
      BY <1>b, <2>0, <3>1 DEF OwnsSlot, At
    <3>4. OwnsSlot(t)'
      BY <3>2, <3>3 DEF OwnsSlot, At, Deciding
    <3>5. QED BY <2>o, <3>1, <3>4
  <2>2. ASSUME NEW t \in Lanes, CheckInflight(t) PROVE LaneOwnsSlot'
    <3>1. LiveOrders(t[1]) \subseteq {inflight[t[1]].id}
      BY <1>b, <2>2 DEF CheckInflight, OwnsSlot, At
    <3>2. \E l : Goto(t, l)
      BY <2>2 DEF CheckInflight, Finish
    <3>3. \A s \in Symbols : s # t[1] => inflight'[s] = inflight[s]
      BY <2>2 DEF CheckInflight, TypeOK
    <3>4. ASSUME Finish(t), inflight' = inflight PROVE OwnsSlot(t)'
      BY <1>c, <2>0, <3>1, <3>4 DEF Finish, Idle, OwnsSlot, At, Deciding
    <3>5. ASSUME inflight[t[1]].id = 0 PROVE OwnsSlot(t)'
      <4>1. \A i \in LiveOrders(t[1]) : i # 0
        BY IdTypes DEF LiveOrders
      <4>2. LiveOrders(t[1])' = {}
        BY <2>0, <3>1, <3>5, <4>1
      <4>3. QED BY <4>2, OwnsEmpty
    <3>6. ASSUME untracked' = untracked \cup ({inflight[t[1]].id} \ reported)
          PROVE  OwnsSlot(t)'
      <4>1. LiveOrders(t[1])' = {}
        BY <1>4, <2>0, <3>1, <3>6, OnlyAcceptPlaces DEF LiveOrders
      <4>2. QED BY <4>1, OwnsEmpty
    <3>7. ASSUME inflight[t[1]].id # 0, inflight[t[1]].aged, ~HasInflight(t[1])
          PROVE  untracked' = untracked \cup ({inflight[t[1]].id} \ reported)
      <4>1. untracked' = untracked \cup
              {i \in {inflight[t[1]].id} \ ({0} \cup reported) : inflight[t[1]].aged}
        BY <2>2, <3>7 DEF CheckInflight
      <4>2. QED BY <3>7, <4>1
    <3>8. OwnsSlot(t)'
      <4>1. CASE HasInflight(t[1])
        BY <2>2, <3>4, <4>1 DEF CheckInflight
      <4>2. CASE ~HasInflight(t[1])
        BY <3>5, <3>6, <3>7, <4>2 DEF HasInflight
      <4>3. QED BY <4>1, <4>2
    <3>9. QED BY <2>o, <3>2, <3>3, <3>8
  <2>3. ASSUME NEW t \in Lanes,
               \/ ReadPositions(t) \/ ReadSummary(t) \/ SelectReference(t)
               \/ InsertReference(t) \/ PlaceFails(t)
        PROVE  LaneOwnsSlot'
    <3>1. /\ lane[t].pc \in Deciding
          /\ \E l : Goto(t, l)
          /\ inflight' = inflight
      BY <2>3, DecidingStep
    <3>2. LiveOrders(t[1])' = {}
      BY <1>b, <2>0, <3>1 DEF OwnsSlot
    <3>3. QED BY <2>o, <3>1, <3>2, OwnsEmpty
  <2>4. ASSUME NEW t \in Lanes, Register(t) PROVE LaneOwnsSlot'
    <3>1. LiveOrders(t[1])' \subseteq {lane[t].ticket}
      BY <1>b, <2>0, <2>4 DEF Register, OwnsSlot
    <3>2. inflight'[t[1]].id = lane[t].ticket
      BY <1>b, <2>4 DEF Register, TypeOK
    <3>3. lane'[t] = Idle
      BY <1>c, <2>4 DEF Register, Finish
    <3>4. OwnsSlot(t)'
      BY <3>1, <3>2, <3>3 DEF OwnsSlot, Idle, At, Deciding
    <3>5. QED BY <2>o, <2>4, <3>4 DEF Register, Finish, TypeOK
  <2>5. ASSUME NEW t \in Lanes, LaneStep(t) PROVE LaneOwnsSlot'
    BY <1>4, <2>2, <2>3, <2>4, <2>5 DEF LaneStep
  <2>6. ASSUME NEW r \in outbox, OnExecution(r) PROVE LaneOwnsSlot'
    <3>1. ASSUME NEW t \in Lanes PROVE OwnsSlot(t)'
      <4>1. lane'[t] = lane[t] /\ r.id \in reported'
        BY <2>6 DEF OnExecution
      <4>2. CASE inflight'[t[1]] = inflight[t[1]]
        BY <1>b, <2>0, <4>1, <4>2, OwnsKept
      <4>3. CASE inflight[t[1]].id = r.id
        <5>1. r.id \notin LiveOrders(t[1])'
          BY <4>1 DEF LiveOrders
        <5>2. lane[t].pc \in {"idle", "published"} => LiveOrders(t[1])' = {}
          BY <1>b, <2>0, <4>3, <5>1 DEF OwnsSlot
        <5>3. QED BY <1>b, <2>0, <4>1, <5>2 DEF OwnsSlot, At
      <4>4. QED BY <1>b, <2>6, <4>2, <4>3 DEF OnExecution, Frees
    <3>2. QED BY <3>1 DEF LaneOwnsSlot
  <2>7. ASSUME NEW s \in Symbols, Age(s) PROVE LaneOwnsSlot'
    <3>1. \A u \in Symbols : inflight'[u].id = inflight[u].id
      <4>1. \A u \in Symbols : inflight[u] \in Entry
        BY DEF TypeOK
      <4>2. QED BY <2>7, <4>1 DEF Age, TypeOK, Entry
    <3>2. lane' = lane
      BY <2>7 DEF Age
    <3>3. QED BY <1>b, <2>0, <3>1, <3>2, OwnsKept DEF LaneOwnsSlot
  <2>8. CASE Restart
    <3>1. untracked' = untracked \cup ({o.id : o \in placed} \ reported) /\ placed' = placed
          /\ reported' = reported
      BY <2>8 DEF Restart
    <3>2. \A s : LiveOrders(s)' = {}
      BY <3>1 DEF LiveOrders
    <3>3. QED BY <3>2, OwnsEmpty DEF LaneOwnsSlot
  <2>9. ASSUME NEW r, LoseReport(r) PROVE UNCHANGED <<lane, inflight>>
    BY <2>9 DEF LoseReport
  <2>10. ASSUME NEW i, RecordTrade(i) \/ RecordFails(i) PROVE UNCHANGED <<lane, inflight>>
    BY <2>10 DEF RecordTrade, RecordFails
  <2>11. ASSUME NEW o, Execute(o) \/ Kill(o) PROVE UNCHANGED <<lane, inflight>>
    BY <2>11 DEF Execute, Kill
  <2>12. ASSUME NEW s, StopOut(s) \/ Arm(s) \/ Disarm(s) PROVE UNCHANGED <<lane, inflight>>
    BY <2>12 DEF StopOut, Arm, Disarm
  <2>13. ASSUME Midnight \/ Outage \/ Reconnect \/ Probe \/ UNCHANGED vars
         PROVE  UNCHANGED <<lane, inflight>>
    BY <2>13 DEF Midnight, Outage, Reconnect, Probe, vars
  <2>14. QED
    BY <2>s, <2>1, <2>5, <2>6, <2>7, <2>8, <2>9, <2>10, <2>11, <2>12, <2>13 DEF Next
<1>5. QED BY <1>2, <1>3, <1>4

-----------------------------------------------------------------------------
(* The theorems *)

LEMMA SlotInit == Init => SlotInv
<1> SUFFICES ASSUME Init PROVE SlotInv
  OBVIOUS
<1>1. IdsBelowNext
  BY DEF Init, IdsBelowNext, NoEntry, Idle
<1>2. LaneOwnsSlot
  BY DEF Init, LaneOwnsSlot, OwnsSlot, LiveOrders
<1>3. QED BY <1>1, <1>2 DEF SlotInv

\* The inductive invariant of a symbol whose ticks are processed one by one.
THEOREM SlotInvariant ==
  ASSUME NEW w, Workers = {w}
  PROVE  Spec => [](TypeOK /\ SlotInv)
<1>1. Init => TypeOK /\ SlotInv
  BY TypeInit, SlotInit
<1>2. TypeOK /\ SlotInv /\ [Next]_vars => (TypeOK /\ SlotInv)'
  BY TypeNext, IdsInductive, OwnsInductive DEF SlotInv
<1>3. QED BY <1>1, <1>2, PTL DEF Spec

\* What the invariant says of a symbol: its live orders are its lane's ticket or
\* its registered order.
LEMMA SlotOfSymbol ==
  ASSUME NEW w, Workers = {w}, TypeOK, SlotInv, NEW s \in Symbols
  PROVE  \/ /\ At(<<s, w>>, "accepted")
            /\ LiveOrders(s) \subseteq {lane[<<s, w>>].ticket}
         \/ LiveOrders(s) \subseteq {inflight[s].id}
<1> DEFINE t == <<s, w>>
<1>1. t \in Lanes /\ t[1] = s
  BY DEF Lanes
<1>2. OwnsSlot(t)
  BY <1>1 DEF SlotInv, LaneOwnsSlot
<1>3. lane[t].pc \in {"idle", "published", "accepted"} \cup Deciding
  <2>1. lane[t] \in Activation
    BY <1>1 DEF TypeOK
  <2>2. QED BY <2>1 DEF Activation
<1>4. QED
  <2> HIDE DEF t
  <2>1. \/ At(t, "accepted") /\ LiveOrders(s) \subseteq {lane[t].ticket}
        \/ LiveOrders(s) \subseteq {inflight[s].id}
    BY <1>1, <1>2, <1>3 DEF OwnsSlot, At
  <2>2. QED BY <2>1 DEF t

\* No second order while the first is live (live_engine.py, the in-flight
\* registry), for any number of symbols and orders, under every fault.
THEOREM OneLiveOrderHolds ==
  ASSUME NEW w, Workers = {w}
  PROVE  Spec => []OneLiveOrder
<1>1. TypeOK /\ SlotInv => OneLiveOrder
  <2> SUFFICES ASSUME TypeOK, SlotInv, NEW s \in Symbols,
                      NEW i \in LiveOrders(s), NEW j \in LiveOrders(s)
               PROVE  i = j
    BY DEF OneLiveOrder
  <2>1. \E k : LiveOrders(s) \subseteq {k}
    BY SlotOfSymbol
  <2>2. QED BY <2>1
<1>2. QED BY <1>1, SlotInvariant, PTL

\* The registry forgets no live order: no report of another order, no later
\* registration and no expiry drops one the engine still answers for.
THEOREM NoForgottenOrderHolds ==
  ASSUME NEW w, Workers = {w}
  PROVE  Spec => []NoForgottenOrder
<1>1. TypeOK /\ SlotInv => NoForgottenOrder
  BY SlotOfSymbol DEF NoForgottenOrder
<1>2. QED BY <1>1, SlotInvariant, PTL

-----------------------------------------------------------------------------
(* The engine implements the order slots *)

\* A step that places no order releases the orders reported or given up since.
LEMMA ReleaseStep ==
  ASSUME TypeOK, TypeOK', placed' = placed, reported \subseteq reported',
         untracked \subseteq untracked'
  PROVE  Slots!Next
<1> DEFINE gone == reported' \cup untracked'
<1>1. gone \in SUBSET OrderIds
  BY DEF TypeOK
<1>2. \A s : LiveOrders(s)' = LiveOrders(s) \ gone
  BY DEF LiveOrders
<1>3. Slots!Release(gone)
  BY <1>2 DEF Slots!Release
<1>4. QED BY <1>1, <1>3 DEF Slots!Next

\* A step that places an order fills an empty slot, or loses the order's id.
LEMMA AcceptStep ==
  ASSUME NEW w, Workers = {w}, TypeOK, SlotInv, NEW t \in Lanes,
         Submit(t) \/ SubmitUnacknowledged(t)
  PROVE  Slots!Next
<1>1. /\ t[1] \in Symbols
      /\ nextId \in OrderIds
      /\ LiveOrders(t[1]) = {}
      /\ placed' = placed \cup {[id |-> nextId, symbol |-> t[1],
                               quantity |-> lane[t].request]}
      /\ reported' = reported
  <2>1. Accept(t) /\ reported' = reported
    BY DEF Submit, SubmitUnacknowledged
  <2>2. OwnsSlot(t)
    BY DEF SlotInv, LaneOwnsSlot
  <2>3. QED BY <2>1, <2>2 DEF Accept, At, Deciding, OwnsSlot, Lanes
<1>2. nextId \notin {o.id : o \in placed} /\ nextId \notin reported \cup untracked
  BY IdTypes DEF SlotInv, IdsBelowNext
<1> DEFINE new == [id |-> nextId, symbol |-> t[1], quantity |-> lane[t].request]
<1>n. new.id = nextId /\ new.symbol = t[1] /\ placed' = placed \cup {new}
  BY <1>1
<1> HIDE DEF new
<1>3. {o.id : o \in placed}' = {o.id : o \in placed} \cup {nextId}
  BY <1>n
<1>i. PICK i \in OrderIds : i = nextId
  BY <1>1
<1>4. CASE Submit(t)
  <2>1. untracked' = untracked
    BY <1>4 DEF Submit
  <2>2. \A s \in Symbols : LiveOrders(s)' = IF s = t[1] THEN {nextId} ELSE LiveOrders(s)
    <3>1. ASSUME NEW s \in Symbols
          PROVE  {o.id : o \in {p \in placed : p.symbol = s}}'
                   = {o.id : o \in {p \in placed : p.symbol = s}}
                       \cup (IF s = t[1] THEN {nextId} ELSE {})
      BY <1>n
    <3>2. QED BY <1>1, <1>2, <2>1, <3>1 DEF LiveOrders
  <2>3. Slots!Submit(t[1], i)
    BY <1>1, <1>2, <1>3, <1>i, <2>2 DEF Slots!Submit
  <2>4. QED BY <1>1, <2>3 DEF Slots!Next
<1>5. CASE SubmitUnacknowledged(t)
  <2>1. untracked' = untracked \cup {nextId}
    BY <1>5 DEF SubmitUnacknowledged
  <2>2. \A s \in Symbols : LiveOrders(s)' = LiveOrders(s)
    BY <1>1, <1>2, <1>n, <2>1 DEF LiveOrders
  <2>3. Slots!SubmitUnknown(i)
    BY <1>2, <1>3, <1>i, <2>2 DEF Slots!SubmitUnknown
  <2>4. QED BY <1>1, <2>3 DEF Slots!Next
<1>6. QED BY <1>4, <1>5

\* Every behaviour of the engine is, seen through its live orders, a behaviour
\* of the order slots.
THEOREM EngineImplementsSlots ==
  ASSUME NEW w, Workers = {w}
  PROVE  Spec => ImplementsSlots
<1>1. Init => Slots!Init
  BY DEF Init, Slots!Init, LiveOrders
<1>2. TypeOK /\ TypeOK' /\ SlotInv /\ [Next]_vars => [Slots!Next]_Slots!slotVars
  <2> SUFFICES ASSUME TypeOK, TypeOK', SlotInv, [Next]_vars PROVE Slots!Next
    OBVIOUS
  <2>1. CASE \E t \in Lanes : Submit(t) \/ SubmitUnacknowledged(t)
    BY <2>1, AcceptStep
  <2>2. CASE \A t \in Lanes : ~Submit(t) /\ ~SubmitUnacknowledged(t)
    BY <2>2, OnlyAcceptPlaces, ReleaseStep
  <2>3. QED BY <2>1, <2>2
<1>3. QED BY <1>1, <1>2, SlotInvariant, PTL DEF Spec, ImplementsSlots, Slots!Spec

-----------------------------------------------------------------------------
(* The cap of a symbol.  It holds of one lane per symbol, on a broker that *)
(* names the symbols as the signals do, and for the cap of one position,   *)
(* the only one a netting account can be held to; README.md has the        *)
(* counterexample of each.                                                 *)

\* One position's worth of quantity.
Within(q) == q \in (-MaxPositionSize)..MaxPositionSize

\* The engine has not lost track of an order on s, nor missed a position of it.
Clear(s) == s \notin misread /\ \A o \in placed : o.symbol = s => o.id \notin untracked

\* An order of q on s opens a position of one order, or closes the one there is;
\* a stop may have closed it before.
OneOrder(q, s) == Within(q) /\ net[s] \in {0, -q}

\* What an activation read is still what there is, but for a stop,
SeenFits(t) ==
  \/ OnSymbol(t[1], lane[t].seen) = {} /\ net[t[1]] = 0
  \/ \E q \in (-MaxPositionSize)..MaxPositionSize :
       /\ OnSymbol(t[1], lane[t].seen) = {[symbol |-> t[1], quantity |-> q]}
       /\ OneOrder(-q, t[1])

\* and what it asks for fits.
LaneFits(t) ==
  /\ lane[t].pc \in {"summary", "select", "insert"} => SeenFits(t)
  /\ At(t, "place") => OneOrder(lane[t].request, t[1])

CapOn(s) ==
  Clear(s) =>
    /\ Within(net[s])
    /\ \A o \in working : o.symbol = s => OneOrder(o.quantity, s)
    /\ \A t \in Lanes : t[1] = s => LaneFits(t)

\* An order at the broker is one the engine placed, under an id of its own, and
\* nobody has reported it yet.
WorkingUnreported ==
  /\ \A o, p \in placed : o.id = p.id => o = p
  /\ \A o \in working : o \in placed /\ o.id \notin reported /\ \A r \in outbox : r.id # o.id

CapInv == WorkingUnreported /\ \A s \in Symbols : CapOn(s)

-----------------------------------------------------------------------------
LEMMA UnreportedInductive ==
  ASSUME TypeOK, IdsBelowNext, WorkingUnreported, [Next]_vars
  PROVE  WorkingUnreported'
<1>0. /\ nextId \in Int
      /\ \A o \in placed \cup working : o.id \in Int
  BY IdTypes
<1>1. ASSUME NEW t \in Lanes, Accept(t), outbox' = outbox, reported' = reported
      PROVE  WorkingUnreported'
  <2> DEFINE new == [id |-> nextId, symbol |-> t[1], quantity |-> lane[t].request]
  <2>1. new.id = nextId /\ working' = working \cup {new} /\ placed' = placed \cup {new}
    BY <1>1 DEF Accept
  <2> HIDE DEF new
  <2>2. /\ \A o \in placed : o.id # nextId
        /\ nextId \notin reported
        /\ \A r \in outbox : r.id # nextId
    BY <1>0, IdTypes DEF IdsBelowNext
  <2>3. \A o, p \in placed' : o.id = p.id => o = p
    BY <2>1, <2>2 DEF WorkingUnreported
  <2>4. QED BY <1>1, <2>1, <2>2, <2>3 DEF WorkingUnreported
<1>2. ASSUME UNCHANGED <<working, outbox, placed, reported>> PROVE WorkingUnreported'
  BY <1>2 DEF WorkingUnreported
<1>3. ASSUME NEW t \in Lanes, LaneStep(t) PROVE WorkingUnreported'
  <2>1. CASE \/ ReadPositions(t) \/ ReadSummary(t) \/ SelectReference(t)
             \/ InsertReference(t) \/ PlaceFails(t)
    BY <1>2, <2>1, DecidingStep
  <2>2. CASE CheckInflight(t)
    BY <1>2, <2>2 DEF CheckInflight, brokerVars
  <2>3. CASE Register(t)
    BY <1>2, <2>3 DEF Register, brokerVars, historyVars
  <2>4. CASE Submit(t) \/ SubmitUnacknowledged(t)
    BY <1>1, <2>4 DEF Submit, SubmitUnacknowledged
  <2>5. QED BY <1>3, <2>1, <2>2, <2>3, <2>4 DEF LaneStep
<1>4. ASSUME NEW t \in Lanes, NEW a \in Actions, Begin(t, a) PROVE WorkingUnreported'
  BY <1>2, <1>4 DEF Begin, brokerVars, historyVars
<1>5. ASSUME NEW r, OnExecution(r) \/ LoseReport(r) PROVE WorkingUnreported'
  BY <1>5 DEF OnExecution, LoseReport, historyVars, WorkingUnreported
<1>6. ASSUME NEW i, RecordTrade(i) \/ RecordFails(i) PROVE WorkingUnreported'
  BY <1>2, <1>6 DEF RecordTrade, RecordFails, brokerVars, historyVars
\* An order that ends leaves the others, whose ids are not its own.
<1>7. ASSUME NEW o \in working, Execute(o) \/ Kill(o) PROVE WorkingUnreported'
  <2>1. /\ working' = working \ {o}
        /\ placed' = placed /\ reported' = reported
        /\ \A r \in outbox' : r \in outbox \/ r.id = o.id
    BY <1>7 DEF Execute, Executed, Kill, historyVars
  <2>2. \A p \in working \ {o} : p.id # o.id
    BY DEF WorkingUnreported
  <2>3. QED BY <2>1, <2>2 DEF WorkingUnreported
<1>8. ASSUME NEW s, StopOut(s) PROVE WorkingUnreported'
  <2>1. \A o \in working : o.id # nextId
    BY <1>0 DEF IdsBelowNext
  <2>2. QED BY <1>8, <2>1 DEF StopOut, Executed, historyVars, WorkingUnreported
<1>9. ASSUME NEW s, Age(s) \/ Arm(s) \/ Disarm(s) PROVE WorkingUnreported'
  BY <1>2, <1>9 DEF Age, Arm, Disarm, brokerVars, historyVars
<1>10. CASE Midnight \/ Outage \/ Reconnect \/ Probe \/ UNCHANGED vars
  BY <1>2, <1>10 DEF Midnight, Outage, Reconnect, Probe, vars, brokerVars, historyVars
<1>11. CASE Restart
  BY <1>2, <1>11 DEF Restart, brokerVars
<1>12. QED
  BY <1>3, <1>4, <1>5, <1>6, <1>7, <1>8, <1>9, <1>10, <1>11 DEF Next

-----------------------------------------------------------------------------
\* Where the net does not move but to 0, no order is added and the symbol's lane
\* fits, the cap is kept.
LEMMA CapKept ==
  ASSUME NEW s, CapOn(s), Clear(s)' => Clear(s),
         net[s] \in Int, MaxPositionSize \in Nat,
         net'[s] \in {0, net[s]},
         working' \subseteq working,
         Clear(s)' => \A t \in Lanes : t[1] = s => LaneFits(t)'
  PROVE  CapOn(s)'
BY DEF CapOn, OneOrder, Within

\* A lane that stays where it is still fits when a stop closes the position.
LEMMA LaneKept ==
  ASSUME NEW t, LaneFits(t), lane'[t] = lane[t], net'[t[1]] \in {0, net[t[1]]}
  PROVE  LaneFits(t)'
BY DEF LaneFits, SeenFits, OneOrder, At

LEMMA ClearShrinks ==
  ASSUME placed \subseteq placed', untracked \subseteq untracked',
         misread \subseteq misread', NEW s
  PROVE  Clear(s)' => Clear(s)
BY DEF Clear

\* A symbol in order has no order at the broker while its lane decides, and one at
\* most otherwise.
LEMMA NoneWhileDeciding ==
  ASSUME SlotInv, WorkingUnreported, NEW t \in Lanes, lane[t].pc \in Deciding, Clear(t[1])
  PROVE  \A o \in working : o.symbol # t[1]
<1>1. LiveOrders(t[1]) = {}
  BY DEF SlotInv, LaneOwnsSlot, OwnsSlot
<1>2. ASSUME NEW o \in working, o.symbol = t[1] PROVE FALSE
  <2>1. o \in placed /\ o.id \notin reported \cup untracked
    BY <1>2 DEF WorkingUnreported, Clear
  <2>2. QED BY <1>1, <1>2, <2>1 DEF LiveOrders
<1>3. QED BY <1>2

LEMMA OneAtTheBroker ==
  ASSUME NEW w, Workers = {w}, TypeOK, SlotInv, WorkingUnreported,
         NEW o \in working, NEW p \in working, o.symbol = p.symbol, Clear(o.symbol)
  PROVE  o = p
<1>1. {o.id, p.id} \subseteq LiveOrders(o.symbol)
  BY DEF WorkingUnreported, Clear, LiveOrders
<1>2. o.symbol \in Symbols
  BY DEF TypeOK, Order
<1>3. o.id = p.id
  <2>1. \E k : LiveOrders(o.symbol) \subseteq {k}
    BY <1>2, SlotOfSymbol
  <2>2. QED BY <1>1, <2>1
<1>4. QED BY <1>3 DEF WorkingUnreported

\* What evaluate answers to a reading that fits, fits: it closes the position, or
\* enters where there is none.
LEMMA EvaluateFits ==
  ASSUME TypeOK, MaxPositionsPerSymbol = 1, NEW t \in Lanes, SeenFits(t), NEW acct,
         NEW o \in Evaluate(t[1], lane[t].action, lane[t].seen, acct)
  PROVE  OneOrder(o.quantity, t[1])
<1> USE LimitsAssumption
<1>0. net[t[1]] \in Int
  BY DEF TypeOK, Lanes
<1>1. CASE lane[t].action = "EXIT"
  <2>1. PICK p \in OnSymbol(t[1], lane[t].seen) : o.quantity = -p.quantity
    BY <1>1 DEF Evaluate
  <2>2. PICK q \in (-MaxPositionSize)..MaxPositionSize :
          /\ OnSymbol(t[1], lane[t].seen) = {[symbol |-> t[1], quantity |-> q]}
          /\ OneOrder(-q, t[1])
    BY <2>1 DEF SeenFits
  <2>3. p.quantity = q
    BY <2>1, <2>2
  <2>4. QED BY <2>1, <2>2, <2>3
<1>2. CASE lane[t].action # "EXIT"
  <2>1. /\ PositionRoom(t[1], lane[t].seen)
        /\ o.quantity \in {MaxPositionSize, -MaxPositionSize}
    BY <1>2 DEF Evaluate
  <2>2. \A q : OnSymbol(t[1], lane[t].seen) # {[symbol |-> t[1], quantity |-> q]}
    <3>1. Cardinality(OnSymbol(t[1], lane[t].seen)) < 1
      BY <2>1 DEF PositionRoom
    <3>2. ASSUME NEW q, OnSymbol(t[1], lane[t].seen) = {[symbol |-> t[1], quantity |-> q]}
          PROVE  FALSE
      <4>1. Cardinality({[symbol |-> t[1], quantity |-> q]}) = 1
        BY FS_Singleton, Zenon
      <4>2. Cardinality(OnSymbol(t[1], lane[t].seen)) = 1
        BY <3>2, <4>1, Zenon
      <4>3. QED BY <3>1, <4>2
    <3>3. QED BY <3>2
  <2>3. net[t[1]] = 0
    BY <2>2 DEF SeenFits
  <2>4. QED BY <2>1, <2>3 DEF OneOrder, Within
<1>3. QED BY <1>1, <1>2

-----------------------------------------------------------------------------
(* The steps *)

\* A lane that moves to where it holds no reading, or holds one that fits.
LEMMA CapLane ==
  ASSUME TypeOK, CapInv, NEW t \in Lanes, NEW l, Goto(t, l),
         UNCHANGED <<working, net>>, placed \subseteq placed', untracked \subseteq untracked',
         misread \subseteq misread', Clear(t[1])' => LaneFits(t)'
  PROVE  \A s \in Symbols : CapOn(s)'
<1>1. TAKE s \in Symbols
<1>2. Clear(s)' => Clear(s)
  BY ClearShrinks
<1>3. /\ net[s] \in Int
      /\ MaxPositionSize \in Nat
      /\ net'[s] \in {0, net[s]}
      /\ working' \subseteq working
  BY LimitsAssumption DEF TypeOK
<1>4. ASSUME Clear(s)', NEW u \in Lanes, u[1] = s PROVE LaneFits(u)'
  <2>1. CASE u = t
    BY <1>4, <2>1
  <2>2. CASE u # t
    <3>1. lane'[u] = lane[u] /\ net' = net
      BY <2>2 DEF Goto, TypeOK
    <3>2. LaneFits(u)
      BY <1>2, <1>4 DEF CapInv, CapOn
    <3>3. QED BY <3>1, <3>2, LaneKept
  <2>3. QED BY <2>1, <2>2
<1>5. CapOn(s)
  BY DEF CapInv
<1>6. QED BY <1>2, <1>3, <1>4, <1>5, CapKept

\* No lane moves, the position of a symbol may be closed, orders may end.
LEMMA CapBroker ==
  ASSUME TypeOK, CapInv, lane' = lane, working' \subseteq working,
         \A s \in Symbols : net'[s] \in {0, net[s]},
         placed \subseteq placed', untracked \subseteq untracked', misread \subseteq misread'
  PROVE  \A s \in Symbols : CapOn(s)'
<1>1. TAKE s \in Symbols
<1>2. Clear(s)' => Clear(s)
  BY ClearShrinks
<1>3. net[s] \in Int /\ MaxPositionSize \in Nat /\ net'[s] \in {0, net[s]}
  BY LimitsAssumption DEF TypeOK
<1>4. ASSUME Clear(s), NEW u \in Lanes, u[1] = s PROVE LaneFits(u)'
  <2>1. LaneFits(u)
    BY <1>4 DEF CapInv, CapOn
  <2>2. lane'[u] = lane[u] /\ net'[u[1]] \in {0, net[u[1]]}
    BY <1>3, <1>4
  <2>3. QED BY <2>1, <2>2, LaneKept
<1>5. CapOn(s)
  BY DEF CapInv
<1>6. QED BY <1>2, <1>3, <1>4, <1>5, CapKept

\* The broker fills an order: the position becomes the order's or closes.
LEMMA CapExecute ==
  ASSUME NEW w, Workers = {w}, TypeOK, SlotInv, CapInv, NEW o \in working, Execute(o)
  PROVE  \A s \in Symbols : CapOn(s)'
<1> USE LimitsAssumption
<1>0. /\ o.symbol \in Symbols /\ o.quantity \in Int
      /\ net \in [Symbols -> Int]
  BY DEF TypeOK, Order
<1>1. /\ working' = working \ {o}
      /\ net' = [net EXCEPT ![o.symbol] = @ + o.quantity]
      /\ UNCHANGED <<lane, placed, untracked, misread>>
  BY DEF Execute, Executed, historyVars
<1>2. TAKE s \in Symbols
<1>3. CASE s # o.symbol
  <2>1. net'[s] = net[s] /\ net[s] \in Int /\ MaxPositionSize \in Nat
    BY <1>0, <1>1, <1>3
  <2>2. Clear(s) => \A t \in Lanes : t[1] = s => LaneFits(t)'
    BY <1>1, <2>1, LaneKept DEF CapInv, CapOn
  <2>3. Clear(s)' => Clear(s)
    BY <1>1 DEF Clear
  <2>4. CapOn(s)
    BY DEF CapInv
  <2>5. QED BY <1>1, <2>1, <2>2, <2>3, <2>4, CapKept
<1>4. CASE s = o.symbol
  <2> SUFFICES ASSUME Clear(s)' PROVE CapOn(s)'
    BY DEF CapOn
  <2>1. Clear(s)
    BY <1>1 DEF Clear
  <2>2. OneOrder(o.quantity, s)
    BY <1>4, <2>1 DEF CapInv, CapOn
  <2>3. Within(net'[s])
    BY <1>0, <1>1, <1>4, <2>2 DEF OneOrder, Within
  <2>4. \A p \in working' : p.symbol # s
    BY <1>1, <1>4, <2>1, OneAtTheBroker DEF CapInv
  <2>5. ASSUME NEW t \in Lanes, t[1] = s PROVE LaneFits(t)'
    <3>1. lane[t].pc \notin Deciding
      BY <1>4, <2>1, <2>5, NoneWhileDeciding DEF CapInv
    <3>2. QED BY <1>1, <3>1 DEF LaneFits, Deciding, At
  <2>6. QED BY <2>3, <2>4, <2>5 DEF CapOn
<1>5. QED BY <1>3, <1>4

\* The broker takes an order: none of its symbol's was there.
LEMMA CapAccept ==
  ASSUME TypeOK, SlotInv, CapInv, NEW t \in Lanes, Accept(t), net' = net,
         \E l : Goto(t, l) /\ l.pc \in {"idle", "accepted"}, untracked \subseteq untracked',
         misread' = misread
  PROVE  \A s \in Symbols : CapOn(s)'
<1> DEFINE new == [id |-> nextId, symbol |-> t[1], quantity |-> lane[t].request]
<1>1. /\ new.symbol = t[1] /\ new.quantity = lane[t].request
      /\ working' = working \cup {new} /\ placed \subseteq placed'
      /\ lane[t].pc = "place"
  BY DEF Accept, At
<1> HIDE DEF new
<1>2. \A u \in Lanes : u # t => lane'[u] = lane[u]
  BY DEF Goto, TypeOK
<1>3. lane'[t].pc \in {"idle", "accepted"}
  BY DEF Goto, TypeOK
<1>4. TAKE s \in Symbols
<1> SUFFICES ASSUME Clear(s)' PROVE CapOn(s)'
  BY DEF CapOn
<1>5. Clear(s) /\ CapOn(s)
  BY <1>1, ClearShrinks DEF CapInv
<1>6. \A u \in Lanes : u[1] = s => LaneFits(u)
  BY <1>5 DEF CapOn
<1>7. ASSUME NEW u \in Lanes, u[1] = s PROVE LaneFits(u)'
  <2>1. CASE u = t
    BY <1>3, <2>1 DEF LaneFits, At
  <2>2. CASE u # t
    <3>1. net'[s] \in {0, net[s]}
      OBVIOUS
    <3>2. QED BY <1>2, <1>6, <1>7, <2>2, <3>1, LaneKept
  <2>3. QED BY <2>1, <2>2
<1>8. ASSUME NEW o \in working', o.symbol = s PROVE OneOrder(o.quantity, s)'
  <2>1. OneOrder(o.quantity, s)
    <3>1. CASE o \in working
      BY <1>5, <1>8, <3>1 DEF CapOn
    <3>2. CASE o = new
      BY <1>1, <1>6, <1>8, <3>2 DEF LaneFits, At
    <3>3. QED BY <1>1, <1>8, <3>1, <3>2
  <2>2. QED BY <2>1 DEF OneOrder
<1>9. QED BY <1>5, <1>7, <1>8 DEF CapOn

LEMMA CapInductive ==
  ASSUME NEW w, Workers = {w}, LocalName = [s \in Symbols |-> s],
         MaxPositionsPerSymbol = 1, TypeOK, SlotInv, CapInv, [Next]_vars
  PROVE  CapInv'
<1>a. WorkingUnreported'
  BY UnreportedInductive DEF SlotInv, CapInv
<1> SUFFICES \A s \in Symbols : CapOn(s)'
  BY <1>a DEF CapInv
<1>b. \A t \in Lanes : lane[t] \in Activation /\ t[1] \in Symbols
  BY DEF TypeOK, Lanes
<1>c. \A t \in Lanes : \A l : Goto(t, l) => lane'[t] = l
  BY DEF Goto, TypeOK
<1>d. \A t \in Lanes : Clear(t[1]) => LaneFits(t)
  BY <1>b DEF CapInv, CapOn
\* A lane that ends holds no reading,
<1>e. ASSUME NEW t \in Lanes, NEW l, Goto(t, l),
             l.pc \notin {"summary", "select", "insert", "place"}
      PROVE  LaneFits(t)'
  BY <1>c, <1>e DEF LaneFits, At
\* one that keeps its reading still fits.
<1>f. ASSUME NEW t \in Lanes, NEW l, Goto(t, l), SeenFits(t), net' = net,
             l.pc \in {"summary", "select", "insert"}, l.seen = lane[t].seen
      PROVE  LaneFits(t)'
  BY <1>c, <1>f DEF LaneFits, SeenFits, OneOrder, At
\* A decision on a reading that fits, fits.
<1>g. ASSUME NEW t \in Lanes, NEW acct, NEW d, Conclude(t, acct, d), SeenFits(t), net' = net
      PROVE  LaneFits(t)'
  <2>1. CASE Finish(t)
    BY <1>e, <2>1 DEF Finish, Idle
  <2>2. ASSUME NEW o \in Evaluate(t[1], lane[t].action, lane[t].seen, acct),
               Goto(t, [lane[t] EXCEPT !.pc = "place", !.account = acct, !.today = d,
                                       !.request = o.quantity])
        PROVE  LaneFits(t)'
    <3> DEFINE l == [lane[t] EXCEPT !.pc = "place", !.account = acct, !.today = d,
                                    !.request = o.quantity]
    <3>1. l.pc = "place" /\ l.request = o.quantity
      BY <1>b DEF Activation
    <3>2. OneOrder(o.quantity, t[1])
      BY <1>g, EvaluateFits
    <3>3. lane'[t] = l
      BY <1>c, <2>2
    <3>4. QED BY <1>g, <3>1, <3>2, <3>3 DEF LaneFits, OneOrder, At
  <2>3. QED BY <1>g, <2>1, <2>2 DEF Conclude
\* A decision touches neither the orders nor the positions.
<1>h. ASSUME NEW t \in Lanes,
             \/ ReadPositions(t) \/ ReadSummary(t) \/ SelectReference(t)
             \/ InsertReference(t) \/ PlaceFails(t),
             Clear(t[1])' => LaneFits(t)'
      PROVE  \A s \in Symbols : CapOn(s)'
  <2>1. PICK l : Goto(t, l)
    BY <1>h, DecidingStep
  <2>2. net' = net
    BY <1>h DEF ReadPositions, ReadSummary, SelectReference, InsertReference, PlaceFails,
                brokerVars
  <2>3. working' = working /\ placed' = placed /\ untracked' = untracked
    BY <1>h, DecidingStep
  <2>4. misread \subseteq misread'
    BY <1>h DEF ReadPositions, ReadSummary, SelectReference, InsertReference, PlaceFails,
                historyVars
  <2>5. QED BY <1>h, <2>1, <2>2, <2>3, <2>4, CapLane
<1>1. ASSUME NEW t \in Lanes, NEW a \in Actions, Begin(t, a) PROVE \A s \in Symbols : CapOn(s)'
  <2>1. [lane[t] EXCEPT !.pc = "published", !.action = a].pc = "published"
    BY <1>b DEF Activation
  <2>2. Goto(t, [lane[t] EXCEPT !.pc = "published", !.action = a])
    BY <1>1 DEF Begin
  <2>3. LaneFits(t)'
    BY <1>e, <2>1, <2>2
  <2>4. QED BY <1>1, <2>2, <2>3, CapLane DEF Begin, brokerVars, historyVars
<1>2. ASSUME NEW t \in Lanes, CheckInflight(t) PROVE \A s \in Symbols : CapOn(s)'
  <2>1. \E l : Goto(t, l) /\ l.pc \in {"idle", "positions"}
    <3>1. [lane[t] EXCEPT !.pc = "positions"].pc = "positions"
      BY <1>b DEF Activation
    <3>2. \/ Goto(t, [lane[t] EXCEPT !.pc = "positions"])
          \/ Goto(t, Idle)
      BY <1>2, Zenon DEF CheckInflight, Finish
    <3>3. Idle.pc = "idle"
      BY DEF Idle
    <3>4. QED BY <3>1, <3>2, <3>3
  <2>2. LaneFits(t)'
    BY <1>e, <2>1
  <2>3. UNCHANGED <<working, net, placed, misread>> /\ untracked \subseteq untracked'
    BY <1>2 DEF CheckInflight, brokerVars
  <2>4. QED BY <2>1, <2>2, <2>3, CapLane
\* The reading is the position there is, or one that a failed read hid.
<1>3. ASSUME NEW t \in Lanes, ReadPositions(t) PROVE \A s \in Symbols : CapOn(s)'
  <2>0. net' = net /\ net[t[1]] \in Int
    BY <1>3, <1>b DEF ReadPositions, brokerVars, TypeOK
  <2>1. ASSUME Clear(t[1]), Goto(t, [lane[t] EXCEPT !.pc = "summary", !.seen = Positions])
        PROVE  LaneFits(t)'
    <3> DEFINE l == [lane[t] EXCEPT !.pc = "summary", !.seen = Positions]
    <3>1. lane'[t] = l /\ l.pc = "summary" /\ l.seen = Positions
      BY <1>b, <1>c, <2>1 DEF Activation
    <3>2. net' = net /\ net[t[1]] \in Int /\ Within(net[t[1]])
      BY <1>3, <1>b, <2>1 DEF ReadPositions, brokerVars, CapInv, CapOn, TypeOK
    <3>3. OnSymbol(t[1], Positions) = IF net[t[1]] = 0 THEN {}
                                      ELSE {[symbol |-> t[1], quantity |-> net[t[1]]]}
      BY <1>b DEF OnSymbol, Positions
    <3>4. SeenFits(t)'
      BY <3>1, <3>2, <3>3, LimitsAssumption DEF SeenFits, OneOrder, Within
    <3>5. QED BY <3>1, <3>4 DEF LaneFits, At
  <2>2. ASSUME Finish(t) PROVE LaneFits(t)'
    BY <1>e, <2>2 DEF Finish, Idle
  <2>3. ASSUME Goto(t, [lane[t] EXCEPT !.pc = "summary", !.seen = {}]), net[t[1]] = 0
        PROVE  LaneFits(t)'
    <3> DEFINE l == [lane[t] EXCEPT !.pc = "summary", !.seen = {}]
    <3>1. lane'[t] = l /\ l.pc = "summary" /\ l.seen = {}
      BY <1>b, <1>c, <2>3 DEF Activation
    <3>2. OnSymbol(t[1], {}) = {}
      BY DEF OnSymbol
    <3>3. SeenFits(t)'
      BY <2>0, <2>3, <3>1, <3>2 DEF SeenFits
    <3>4. QED BY <3>1, <3>3 DEF LaneFits, At
  <2>4. net[t[1]] # 0 /\ misread' = misread \cup {s \in {t[1]} : net[s] # 0} => ~Clear(t[1])'
    BY DEF Clear
  <2>5. misread' = misread => (Clear(t[1])' => Clear(t[1]))
    BY <1>3, ClearShrinks DEF ReadPositions
  <2>6. Clear(t[1])' => LaneFits(t)'
    BY <1>3, <2>1, <2>2, <2>3, <2>4, <2>5 DEF ReadPositions
  <2>7. QED BY <1>3, <1>h, <2>6
<1>4. ASSUME NEW t \in Lanes, ReadSummary(t) PROVE \A s \in Symbols : CapOn(s)'
  <2>0. Clear(t[1])' => Clear(t[1])
    BY <1>4, DecidingStep, ClearShrinks DEF ReadSummary
  <2> SUFFICES ASSUME Clear(t[1]) PROVE LaneFits(t)'
    BY <1>4, <1>h, <2>0
  <2>1. SeenFits(t) /\ net' = net
    BY <1>4, <1>d DEF ReadSummary, At, LaneFits, brokerVars
  <2>2. ASSUME NEW e, Goto(t, [lane[t] EXCEPT !.pc = "select", !.today = day,
                                              !.account = [equity |-> e, start |-> 0]])
        PROVE  LaneFits(t)'
    <3> DEFINE l == [lane[t] EXCEPT !.pc = "select", !.today = day,
                                    !.account = [equity |-> e, start |-> 0]]
    <3>1. l.pc = "select" /\ l.seen = lane[t].seen
      BY <1>b DEF Activation
    <3>2. QED BY <1>f, <2>1, <2>2, <3>1
  <2>3. QED BY <1>4, <1>g, <2>1, <2>2 DEF ReadSummary
<1>5. ASSUME NEW t \in Lanes, SelectReference(t) PROVE \A s \in Symbols : CapOn(s)'
  <2>0. Clear(t[1])' => Clear(t[1])
    BY <1>5, DecidingStep, ClearShrinks DEF SelectReference
  <2> SUFFICES ASSUME Clear(t[1]) PROVE LaneFits(t)'
    BY <1>5, <1>h, <2>0
  <2>1. SeenFits(t) /\ net' = net
    BY <1>5, <1>d DEF SelectReference, At, LaneFits, brokerVars
  <2>2. ASSUME Goto(t, [lane[t] EXCEPT !.pc = "insert"]) PROVE LaneFits(t)'
    <3>1. /\ [lane[t] EXCEPT !.pc = "insert"].pc = "insert"
          /\ [lane[t] EXCEPT !.pc = "insert"].seen = lane[t].seen
      BY <1>b DEF Activation
    <3>2. QED BY <1>f, <2>1, <2>2, <3>1
  <2>3. QED BY <1>5, <1>g, <2>1, <2>2 DEF SelectReference, Adopt
<1>6. ASSUME NEW t \in Lanes, InsertReference(t) PROVE \A s \in Symbols : CapOn(s)'
  <2>0. Clear(t[1])' => Clear(t[1])
    BY <1>6, DecidingStep, ClearShrinks DEF InsertReference
  <2> SUFFICES ASSUME Clear(t[1]) PROVE LaneFits(t)'
    BY <1>6, <1>h, <2>0
  <2>1. SeenFits(t) /\ net' = net
    BY <1>6, <1>d DEF InsertReference, At, LaneFits, brokerVars
  <2>2. ASSUME Finish(t) PROVE LaneFits(t)'
    BY <1>e, <2>2 DEF Finish, Idle
  <2>3. QED BY <1>6, <1>g, <2>1, <2>2 DEF InsertReference, Adopt
<1>7. ASSUME NEW t \in Lanes, PlaceFails(t) PROVE \A s \in Symbols : CapOn(s)'
  <2>1. LaneFits(t)'
    BY <1>7, <1>e DEF PlaceFails, Finish, Idle
  <2>2. QED BY <1>7, <1>h, <2>1
<1>8. ASSUME NEW t \in Lanes, Submit(t) \/ SubmitUnacknowledged(t)
      PROVE  \A s \in Symbols : CapOn(s)'
  <2>1. \E l : Goto(t, l) /\ l.pc \in {"idle", "accepted"}
    <3>1. [lane[t] EXCEPT !.pc = "accepted", !.ticket = nextId].pc = "accepted"
      BY <1>b DEF Activation
    <3>2. Idle.pc = "idle"
      BY DEF Idle
    <3>3. \/ Goto(t, Idle)
          \/ Goto(t, [lane[t] EXCEPT !.pc = "accepted", !.ticket = nextId])
      BY <1>8 DEF Submit, SubmitUnacknowledged, Finish
    <3>4. QED BY <3>1, <3>2, <3>3
  <2>2. Accept(t) /\ net' = net /\ untracked \subseteq untracked' /\ misread' = misread
    BY <1>8 DEF Submit, SubmitUnacknowledged
  <2>3. QED BY <2>1, <2>2, CapAccept
<1>9. ASSUME NEW t \in Lanes, Register(t) PROVE \A s \in Symbols : CapOn(s)'
  <2>1. Goto(t, Idle) /\ Idle.pc = "idle"
    BY <1>9 DEF Register, Finish, Idle
  <2>2. LaneFits(t)'
    BY <1>e, <2>1
  <2>3. QED BY <1>9, <2>1, <2>2, CapLane DEF Register, brokerVars, historyVars
<1>10. ASSUME NEW o \in working, Execute(o) PROVE \A s \in Symbols : CapOn(s)'
  BY <1>10, CapExecute
\* The rest closes a position, ends an order, or touches neither.
<1>11. ASSUME UNCHANGED <<lane, working, net, placed, untracked, misread>>
       PROVE  \A s \in Symbols : CapOn(s)'
  BY <1>11, CapBroker
<1>12. ASSUME NEW o, Kill(o) PROVE \A s \in Symbols : CapOn(s)'
  BY <1>12, CapBroker DEF Kill, historyVars
<1>13. ASSUME NEW s \in Symbols, StopOut(s) PROVE \A x \in Symbols : CapOn(x)'
  <2>1. \A x \in Symbols : net'[x] \in {0, net[x]}
    BY <1>13 DEF StopOut, Executed, TypeOK
  <2>2. QED BY <1>13, <2>1, CapBroker DEF StopOut, historyVars
<1>14. CASE Restart
  <2>1. \A s \in Symbols : \A t \in Lanes : LaneFits(t)'
    BY <1>14 DEF Restart, LaneFits, Idle, At
  <2>2. UNCHANGED <<working, net, placed, misread>> /\ untracked \subseteq untracked'
    BY <1>14 DEF Restart, brokerVars
  <2>3. TAKE s \in Symbols
  <2>4. net[s] \in Int /\ MaxPositionSize \in Nat /\ CapOn(s)
    BY LimitsAssumption DEF TypeOK, CapInv
  <2>5. Clear(s)' => Clear(s)
    BY <2>2, ClearShrinks
  <2>6. QED BY <2>1, <2>2, <2>4, <2>5, CapKept
<1>15. ASSUME NEW r, OnExecution(r) \/ LoseReport(r)
       PROVE  UNCHANGED <<lane, working, net, placed, untracked, misread>>
  BY <1>15 DEF OnExecution, LoseReport, historyVars
<1>16. ASSUME NEW i, RecordTrade(i) \/ RecordFails(i)
       PROVE  UNCHANGED <<lane, working, net, placed, untracked, misread>>
  BY <1>16 DEF RecordTrade, RecordFails, brokerVars, historyVars
<1>17. ASSUME NEW s, Age(s) \/ Arm(s) \/ Disarm(s)
       PROVE  UNCHANGED <<lane, working, net, placed, untracked, misread>>
  BY <1>17 DEF Age, Arm, Disarm, brokerVars, historyVars
<1>18. ASSUME Midnight \/ Outage \/ Reconnect \/ Probe \/ UNCHANGED vars
       PROVE  UNCHANGED <<lane, working, net, placed, untracked, misread>>
  BY <1>18 DEF Midnight, Outage, Reconnect, Probe, vars, brokerVars, historyVars
<1>19. ASSUME NEW t \in Lanes, LaneStep(t) PROVE \A s \in Symbols : CapOn(s)'
  BY <1>2, <1>3, <1>4, <1>5, <1>6, <1>7, <1>8, <1>9, <1>19 DEF LaneStep
<1>20. QED
  BY <1>1, <1>10, <1>11, <1>12, <1>13, <1>14, <1>15, <1>16, <1>17, <1>18, <1>19 DEF Next

\* Entries do not pile up on a symbol (risk.max_positions_per_symbol): as long as
\* the engine knows the fate of its orders there and no failed read hid a position
\* of it, the position is at most one order's, whatever closes, cancels, reports
\* late, goes down or restarts around it.
THEOREM SymbolCapHolds ==
  ASSUME NEW w, Workers = {w}, LocalName = [s \in Symbols |-> s],
         MaxPositionsPerSymbol = 1
  PROVE  Spec => []SymbolCap
<1>1. Init => CapInv
  <2> SUFFICES ASSUME Init PROVE CapInv
    OBVIOUS
  <2>1. WorkingUnreported
    BY DEF Init, WorkingUnreported
  <2>2. \A s \in Symbols : CapOn(s)
    BY LimitsAssumption DEF Init, CapOn, Within, LaneFits, Idle, At
  <2>3. QED BY <2>1, <2>2 DEF CapInv
<1>2. TypeOK /\ SlotInv /\ CapInv /\ [Next]_vars => CapInv'
  BY CapInductive
<1>3. TypeOK /\ CapInv => SymbolCap
  <2> SUFFICES ASSUME TypeOK, CapInv, NEW s \in Symbols, AllTracked(s), s \notin misread
               PROVE  Capped(s)
    BY DEF SymbolCap
  <2>1. Within(net[s])
    BY DEF CapInv, CapOn, Clear, AllTracked
  <2>2. QED BY <2>1, LimitsAssumption DEF Within, TypeOK, Capped
<1>4. QED BY <1>1, <1>2, <1>3, SlotInvariant, PTL DEF Spec
=============================================================================
