----------------------------- MODULE LiveEngine -----------------------------
(***************************************************************************)
(* pyea/live/live_engine.py: LiveTradingEngine between its start and its   *)
(* stop, with the gateway, the account and the tables it talks to.         *)
(*                                                                         *)
(* A step is what the asyncio loop runs between two suspension points of a *)
(* coroutine; coroutines interleave at those points only.  One run of      *)
(* process_tick is an activation <<s, w>>: symbol s, lane w.  The          *)
(* MetaTrader gateway awaits each tick before it polls the next, so a      *)
(* symbol has one lane; the Interactive Brokers gateway schedules a task   *)
(* per tick, so a symbol has as many lanes as ticks can be in progress.    *)
(*                                                                         *)
(*   published  the signal goes out on the bus                             *)
(*   positions  gateway.get_positions                                      *)
(*   summary    gateway.get_account_summary                                *)
(*   select,    the two halves of day_start_equity, run in a thread        *)
(*   insert                                                                *)
(*   place      gateway.place_order, not yet at the broker                 *)
(*   accepted   the broker has the order, place_order has not returned     *)
(*                                                                         *)
(* Abstractions.  Ticks whose signal is None or HOLD change nothing here   *)
(* and are left out.  The account nets the fills of a symbol into one      *)
(* position.  Time is two facts: a registered order turns "aged" when      *)
(* INFLIGHT_TIMEOUT_SECONDS have passed, and Midnight changes the UTC day. *)
(* strategy.enabled is read once (settings are cached) and is on.          *)
(***************************************************************************)
EXTENDS RiskManager

CONSTANTS
  Symbols,        \* history.instruments
  Workers,        \* lanes of a symbol
  Gateway,        \* the broker's gateway, one of Gateways
  LocalName,      \* the name the broker reports a symbol under
  Equities,       \* equities the account may report; 0 is "not reported"
  MaxOrders,      \* bound: order ids the broker hands out
  MaxDay,         \* bound: UTC days 0..MaxDay
  Faults          \* what may happen around the engine in a run

Gateways   == {"metatrader5", "interactive_brokers"}
FaultKinds == {"disarm", "outage", "muteRead", "lostAck", "lostReport",
               "lostWrite", "restart", "stops"}

Lanes    == Symbols \X Workers
OrderIds == 1..MaxOrders
Days     == 0..MaxDay

ASSUME EngineAssumption ==
  /\ Gateway \in Gateways
  /\ Equities \subseteq Nat
  /\ MaxOrders \in Nat
  /\ MaxDay \in Nat
  /\ Faults \subseteq FaultKinds
  /\ DOMAIN LocalName = Symbols
  /\ \A s1, s2 \in Symbols : LocalName[s1] = LocalName[s2] => s1 = s2

VARIABLES
  armed,      \* symbols whose Trading button is on (table trading_states)
  online,     \* the session with the broker answers
  connected,  \* what gateway.is_connected() says: MetaTrader's answer is a probe
              \* that is kept for two seconds
  lane,       \* the activations of process_tick, with their local variables
  inflight,   \* _inflight: symbol -> registered order, NoEntry when none
  dayStart,   \* _day_start, NoDay when unset
  reference,  \* table daily_equity: day -> start_equity, 0 when no row
  journal,    \* table trades: ids with a row
  recording,  \* ids whose record_trade runs in a thread
  day,        \* the UTC day
  nextId,     \* broker: the next order id
  working,    \* broker: orders accepted and not executed
  net,        \* broker: signed position per symbol
  outbox,     \* broker: reports not yet delivered to on_execution
  placed,     \* history: the engine's orders the broker accepted
  executed,   \* history: ids the broker executed
  reported,   \* history: ids on_execution has been told of
  untracked,  \* history: ids the engine gave up on unreported, or never learnt of
  halted,     \* history: days on which the loss limit stopped an entry
  misread     \* history: symbols whose open position a failed read showed as none

storeVars   == <<reference, journal>>
brokerVars  == <<nextId, working, net, outbox, executed>>
historyVars == <<placed, reported, untracked, halted, misread>>
vars == <<armed, online, connected, lane, inflight, dayStart, recording, day,
          storeVars, brokerVars, historyVars>>

NoEntry == [id |-> 0, aged |-> FALSE]
NoDay   == [day |-> -1, start |-> 0]
Idle    == [pc |-> "idle", action |-> "EXIT", seen |-> {}, account |-> NoAccount,
            today |-> 0, request |-> 0, ticket |-> 0]

Names   == {LocalName[s] : s \in Symbols}
Position == [symbol : Names, quantity : Int]
Order   == [id : OrderIds, symbol : Symbols, quantity : Int]
Entry   == [id : OrderIds \cup {0}, aged : BOOLEAN]
Report  == [id : OrderIds, name : Names, status : {"FILLED", "CANCELLED", "REJECTED"}]
Account == [equity : Nat, start : Nat]

\* Past the in-flight check and not yet at the broker.
Deciding == {"positions", "summary", "select", "insert", "place"}
Activation ==
  [pc : {"idle", "published", "accepted"} \cup Deciding, action : Actions,
   seen : SUBSET Position, account : Account, today : Days, request : Int,
   ticket : OrderIds \cup {0}]

Init ==
  /\ armed = Symbols
  /\ online = TRUE
  /\ connected = TRUE
  /\ lane = [t \in Lanes |-> Idle]
  /\ inflight = [s \in Symbols |-> NoEntry]
  /\ dayStart = NoDay
  /\ reference = [d \in Days |-> 0]
  /\ journal = {}
  /\ recording = {}
  /\ day = 0
  /\ nextId = 1
  /\ working = {}
  /\ net = [s \in Symbols |-> 0]
  /\ outbox = {}
  /\ placed = {}
  /\ executed = {}
  /\ reported = {}
  /\ untracked = {}
  /\ halted = {}
  /\ misread = {}

-----------------------------------------------------------------------------
(* process_tick *)

At(t, label) == lane[t].pc = label
Goto(t, l)   == lane' = [lane EXCEPT ![t] = l]
Finish(t)    == Goto(t, Idle)

\* The three green lights, the strategy's decision (synchronous) and the
\* start of the publication of its signal.
Begin(t, a) ==
  /\ At(t, "idle")
  /\ t[1] \in armed
  /\ connected
  /\ Goto(t, [lane[t] EXCEPT !.pc = "published", !.action = a])
  /\ UNCHANGED <<armed, online, connected, inflight, dayStart, recording, day,
                 storeVars, brokerVars, historyVars>>

\* _has_inflight: does the entry of s still stand in the way?  Its time runs out
\* INFLIGHT_TIMEOUT_SECONDS after the submission.
IgnoreEntry(s)  == FALSE                      \* mutant: the check is gone
KeepForever(s)  == inflight[s].id # 0         \* mutant: no timeout
HasInflight(s)  == inflight[s].id # 0 /\ ~inflight[s].aged

\* An order in flight ends the activation; otherwise an entry whose time has run
\* out is dropped and the decision goes on.
CheckInflight(t) ==
  LET s == t[1] IN
  /\ At(t, "published")
  /\ \/ /\ HasInflight(s)
        /\ Finish(t)
        /\ UNCHANGED <<inflight, untracked>>
     \/ /\ ~HasInflight(s)
        /\ Goto(t, [lane[t] EXCEPT !.pc = "positions"])
        /\ inflight' = [inflight EXCEPT ![s] = NoEntry]
        /\ untracked' = untracked \cup
             {i \in {inflight[s].id} \ ({0} \cup reported) : inflight[s].aged}
  /\ UNCHANGED <<armed, online, connected, dayStart, recording, day, storeVars,
                 brokerVars, placed, reported, halted, misread>>

Positions ==
  {[symbol |-> LocalName[s], quantity |-> net[s]] : s \in {x \in Symbols : net[x] # 0}}

\* get_positions answers with the account's positions.  MetaTrader's
\* positions_get answers None when it fails, which reads as no position, and the
\* decision goes on.  Interactive Brokers without a connection answers at once,
\* and place_order raises: the activation ends in the step.
ReadPositions(t) ==
  /\ At(t, "positions")
  /\ \/ /\ online
        /\ Goto(t, [lane[t] EXCEPT !.pc = "summary", !.seen = Positions])
        /\ UNCHANGED misread
     \/ /\ Gateway = "metatrader5"
        /\ online => "muteRead" \in Faults
        /\ Goto(t, [lane[t] EXCEPT !.pc = "summary", !.seen = {}])
        /\ misread' = misread \cup {s \in {t[1]} : net[s] # 0}
     \/ /\ Gateway = "interactive_brokers"
        /\ ~online
        /\ Finish(t)
        /\ UNCHANGED misread
  /\ UNCHANGED <<armed, online, connected, inflight, dayStart, recording, day,
                 storeVars, brokerVars, placed, reported, untracked, halted>>

\* risk.evaluate, in the step that obtained the account of day d, and what
\* follows it: place_order raises at once on a gateway that is not connected.
Conclude(t, acct, d) ==
  LET orders == Evaluate(t[1], lane[t].action, lane[t].seen, acct) IN
  /\ \/ /\ orders = {} \/ ~connected
        /\ Finish(t)
     \/ \E o \in orders :
          /\ connected
          /\ Goto(t, [lane[t] EXCEPT !.pc = "place", !.account = acct, !.today = d,
                                     !.request = o.quantity])
  /\ halted' = IF lane[t].action \in Entries /\ DailyLossReached(acct)
               THEN halted \cup {day} ELSE halted

\* Is the reference in memory the one of today?
StillKnown     == dayStart.day # -1           \* mutant: yesterday's will do
ReferenceKnown == dayStart.day = day

\* _account_state up to day_start_equity, which only the first reading of a
\* UTC day needs.  A failed or empty summary is no account, not a refusal.
ReadSummary(t) ==
  /\ At(t, "summary")
  /\ \/ \E e \in Equities \ {0} :
          /\ online
          /\ \/ /\ ReferenceKnown
                /\ Conclude(t, [equity |-> e, start |-> dayStart.start], day)
             \/ /\ ~ReferenceKnown
                /\ Goto(t, [lane[t] EXCEPT !.pc = "select", !.today = day,
                                           !.account = [equity |-> e, start |-> 0]])
                /\ UNCHANGED halted
     \/ /\ online => 0 \in Equities
        /\ Conclude(t, NoAccount, day)
  /\ UNCHANGED <<armed, online, connected, inflight, dayStart, recording, day,
                 storeVars, brokerVars, placed, reported, untracked, misread>>

\* The rest of _account_state once the stored reference is known.
Adopt(t, start) ==
  /\ dayStart' = [day |-> lane[t].today, start |-> start]
  /\ Conclude(t, [equity |-> lane[t].account.equity, start |-> start], lane[t].today)

\* Day d has no row yet in daily_equity.
NoRow(d)     == reference[d] = 0

\* day_start_equity: session.get
SelectReference(t) ==
  LET d == lane[t].today IN
  /\ At(t, "select")
  /\ \/ ~NoRow(d) /\ Adopt(t, reference[d])
     \/ /\ NoRow(d)
        /\ Goto(t, [lane[t] EXCEPT !.pc = "insert"])
        /\ UNCHANGED <<dayStart, halted>>
  /\ UNCHANGED <<armed, online, connected, inflight, recording, day, storeVars,
                 brokerVars, placed, reported, untracked, misread>>

\* day_start_equity: add and commit.  A row another thread committed since the
\* select violates the primary key: the exception ends the activation.
InsertReference(t) ==
  LET d == lane[t].today IN
  /\ At(t, "insert")
  /\ \/ /\ NoRow(d)
        /\ reference' = [reference EXCEPT ![d] = lane[t].account.equity]
        /\ Adopt(t, lane[t].account.equity)
     \/ /\ ~NoRow(d)
        /\ Finish(t)
        /\ UNCHANGED <<reference, dayStart, halted>>
  /\ UNCHANGED <<armed, online, connected, inflight, recording, day, journal,
                 brokerVars, placed, reported, untracked, misread>>

\* place_order fails after its first check: no price, refused by the broker.
PlaceFails(t) ==
  /\ At(t, "place")
  /\ Finish(t)
  /\ UNCHANGED <<armed, online, connected, inflight, dayStart, recording, day,
                 storeVars, brokerVars, historyVars>>

Accept(t) ==
  LET order == [id |-> nextId, symbol |-> t[1], quantity |-> lane[t].request] IN
  /\ At(t, "place")
  /\ online
  /\ nextId \in OrderIds
  /\ nextId' = nextId + 1
  /\ working' = working \cup {order}
  /\ placed' = placed \cup {order}

\* The broker takes the order.  Interactive Brokers: placeOrder hands it over
\* and place_order returns in the same step; MetaTrader: the loop gets the
\* result of order_send later.
Submit(t) ==
  /\ Accept(t)
  /\ \/ /\ Gateway = "interactive_brokers"
        /\ inflight' = [inflight EXCEPT ![t[1]] = [id |-> nextId, aged |-> FALSE]]
        /\ Finish(t)
     \/ /\ Gateway = "metatrader5"
        /\ Goto(t, [lane[t] EXCEPT !.pc = "accepted", !.ticket = nextId])
        /\ UNCHANGED inflight
  /\ UNCHANGED <<armed, online, connected, dayStart, recording, day, storeVars, net,
                 outbox, executed, reported, untracked, halted, misread>>

\* The broker takes the order but answers with something else than a plain
\* success (None, a timeout, a partial fill): place_order raises.
SubmitUnacknowledged(t) ==
  /\ "lostAck" \in Faults
  /\ Gateway = "metatrader5"
  /\ Accept(t)
  /\ Finish(t)
  /\ untracked' = untracked \cup {nextId}
  /\ UNCHANGED <<armed, online, connected, inflight, dayStart, recording, day,
                 storeVars, net, outbox, executed, reported, halted,
                 misread>>

\* place_order returns: _register_inflight.
ForgetOrder(t) ==                             \* mutant: nothing is registered
  /\ At(t, "accepted")
  /\ Finish(t)
  /\ UNCHANGED <<armed, online, connected, inflight, dayStart, recording, day, storeVars,
                 brokerVars, historyVars>>

RegisterSymbol(t) ==                          \* mutant: the symbol for the id
  /\ At(t, "accepted")
  /\ inflight' = [inflight EXCEPT ![t[1]] = [id |-> t[1], aged |-> FALSE]]
  /\ Finish(t)
  /\ UNCHANGED <<armed, online, connected, dayStart, recording, day, storeVars,
                 brokerVars, historyVars>>

Register(t) ==
  /\ At(t, "accepted")
  /\ inflight' = [inflight EXCEPT ![t[1]] = [id |-> lane[t].ticket, aged |-> FALSE]]
  /\ Finish(t)
  /\ UNCHANGED <<armed, online, connected, dayStart, recording, day, storeVars,
                 brokerVars, historyVars>>

-----------------------------------------------------------------------------
(* on_execution and record_trade *)

\* A report frees the symbol it names if the registered order is the one it is
\* about.
FreesAny(r, s)   == s = r.name                \* mutant: whatever the order
Frees(r, s)      == s = r.name /\ inflight[s].id = r.id

\* Executions go to the journal; cancellations and refusals do not.
JournalsAll(r)   == r.status # ""             \* mutant: whatever the status
JournalsOwn(r)   == r.status = "FILLED" /\ \E s \in Symbols : inflight[s].id = r.id  \* mutant
Journals(r)      == r.status = "FILLED"

\* on_execution, up to the thread that writes the journal.
OnExecution(r) ==
  /\ r \in outbox
  /\ outbox' = outbox \ {r}
  /\ inflight' = [s \in Symbols |-> IF Frees(r, s)
                                    THEN NoEntry ELSE inflight[s]]
  /\ reported' = reported \cup {r.id}
  /\ recording' = IF Journals(r) THEN recording \cup {r.id} ELSE recording
  /\ UNCHANGED <<armed, online, connected, lane, dayStart, day, storeVars, nextId,
                 working, net, executed, placed, untracked, halted, misread>>

RecordTrade(i) ==
  /\ i \in recording
  /\ recording' = recording \ {i}
  /\ journal' = journal \cup {i}
  /\ UNCHANGED <<armed, online, connected, lane, inflight, dayStart, day, reference,
                 brokerVars, historyVars>>

\* record_trade raises; _emit_execution logs it and goes on.
RecordFails(i) ==
  /\ "lostWrite" \in Faults
  /\ i \in recording
  /\ recording' = recording \ {i}
  /\ UNCHANGED <<armed, online, connected, lane, inflight, dayStart, day, storeVars,
                 brokerVars, historyVars>>

-----------------------------------------------------------------------------
(* The broker, the user, the clock *)

\* The account nets the fill, and a report of it leaves the broker.
Executed(i, s, change) ==
  /\ net' = [net EXCEPT ![s] = @ + change]
  /\ executed' = executed \cup {i}
  /\ outbox' = outbox \cup {[id |-> i, name |-> LocalName[s], status |-> "FILLED"]}

Execute(o) ==
  /\ o \in working
  /\ working' = working \ {o}
  /\ Executed(o.id, o.symbol, o.quantity)
  /\ UNCHANGED <<armed, online, connected, lane, inflight, dayStart, recording, day,
                 storeVars, nextId, historyVars>>

\* An order ends unfilled.  MetaTrader answers for a market order only once it
\* is dealt with, and reports deals only.
Kill(o) ==
  /\ Gateway = "interactive_brokers"
  /\ o \in working
  /\ working' = working \ {o}
  /\ \E status \in {"CANCELLED", "REJECTED"} :
       outbox' = outbox \cup
         {[id |-> o.id, name |-> LocalName[o.symbol], status |-> status]}
  /\ UNCHANGED <<armed, online, connected, lane, inflight, dayStart, recording, day,
                 storeVars, nextId, net, executed, historyVars>>

\* A stop or a target attached to an entry closes the position at the broker.
StopOut(s) ==
  /\ "stops" \in Faults
  /\ net[s] # 0
  /\ nextId \in OrderIds
  /\ nextId' = nextId + 1
  /\ Executed(nextId, s, -net[s])
  /\ UNCHANGED <<armed, online, connected, lane, inflight, dayStart, recording, day,
                 storeVars, working, historyVars>>

\* A report nobody is wired to receive.
LoseReport(r) ==
  /\ "lostReport" \in Faults
  /\ r \in outbox
  /\ outbox' = outbox \ {r}
  /\ UNCHANGED <<armed, online, connected, lane, inflight, dayStart, recording, day,
                 storeVars, nextId, working, net, executed, historyVars>>

\* INFLIGHT_TIMEOUT_SECONDS pass after a submission.
Age(s) ==
  /\ inflight[s].id # 0
  /\ ~inflight[s].aged
  /\ inflight' = [inflight EXCEPT ![s].aged = TRUE]
  /\ UNCHANGED <<armed, online, connected, lane, dayStart, recording, day, storeVars,
                 brokerVars, historyVars>>

Midnight ==
  /\ day < MaxDay
  /\ day' = day + 1
  /\ UNCHANGED <<armed, online, connected, lane, inflight, dayStart, recording,
                 storeVars, brokerVars, historyVars>>

\* PUT /trading/{symbol}: arming needs a connected broker, disarming nothing.
Arm(s) ==
  /\ s \notin armed
  /\ connected
  /\ armed' = armed \cup {s}
  /\ UNCHANGED <<online, connected, lane, inflight, dayStart, recording, day,
                 storeVars, brokerVars, historyVars>>

Disarm(s) ==
  /\ "disarm" \in Faults
  /\ s \in armed
  /\ armed' = armed \ {s}
  /\ UNCHANGED <<online, connected, lane, inflight, dayStart, recording, day,
                 storeVars, brokerVars, historyVars>>

\* The session ends, or MetaTrader's terminal stops answering: the last probe
\* still says that it is there.
Outage ==
  /\ "outage" \in Faults
  /\ online
  /\ online' = FALSE
  /\ \/ connected' = FALSE
     \/ Gateway = "metatrader5" /\ UNCHANGED connected
  /\ UNCHANGED <<armed, lane, inflight, dayStart, recording, day, storeVars,
                 brokerVars, historyVars>>

\* The terminal answers again, whatever its last probe said, or a connection is made.
Reconnect ==
  /\ ~online
  /\ online' = TRUE
  /\ \/ connected' = TRUE
     \/ Gateway = "metatrader5" /\ UNCHANGED connected
  /\ UNCHANGED <<armed, lane, inflight, dayStart, recording, day, storeVars,
                 brokerVars, historyVars>>

\* is_connected probes MetaTrader's terminal again.
Probe ==
  /\ connected # online
  /\ connected' = online
  /\ UNCHANGED <<armed, online, lane, inflight, dayStart, recording, day, storeVars,
                 brokerVars, historyVars>>

\* The server process dies and starts again: what it held in memory is gone,
\* the tables and the broker are not.
Restart ==
  /\ "restart" \in Faults
  /\ online' = FALSE
  /\ connected' = FALSE
  /\ lane' = [t \in Lanes |-> Idle]
  /\ inflight' = [s \in Symbols |-> NoEntry]
  /\ dayStart' = NoDay
  /\ recording' = {}
  /\ untracked' = untracked \cup ({o.id : o \in placed} \ reported)
  /\ UNCHANGED <<armed, day, storeVars, brokerVars, placed, reported, halted, misread>>

-----------------------------------------------------------------------------
LaneStep(t) ==
  \/ CheckInflight(t)
  \/ ReadPositions(t)
  \/ ReadSummary(t)
  \/ SelectReference(t)
  \/ InsertReference(t)
  \/ PlaceFails(t)
  \/ Submit(t)
  \/ SubmitUnacknowledged(t)
  \/ Register(t)

Next ==
  \/ \E t \in Lanes, a \in Actions : Begin(t, a)
  \/ \E t \in Lanes : LaneStep(t)
  \/ \E r \in outbox : OnExecution(r) \/ LoseReport(r)
  \/ \E i \in recording : RecordTrade(i) \/ RecordFails(i)
  \/ \E o \in working : Execute(o) \/ Kill(o)
  \/ \E s \in Symbols : StopOut(s) \/ Age(s) \/ Arm(s) \/ Disarm(s)
  \/ Midnight
  \/ Outage
  \/ Reconnect
  \/ Probe
  \/ Restart

Spec == Init /\ [][Next]_vars

\* Every await of an activation returns, a report on the wire is delivered, a
\* thread finishes, a minute passes, the broker deals with its orders.
Fairness ==
  /\ \A t \in Lanes : WF_vars(LaneStep(t))
  /\ \A s \in Symbols : WF_vars(Age(s))
  /\ WF_vars(\E r \in outbox : OnExecution(r))
  /\ \A i \in OrderIds : WF_vars(RecordTrade(i))
  /\ WF_vars(\E o \in working : Execute(o))

FairSpec == Spec /\ Fairness

-----------------------------------------------------------------------------
(* Properties *)

\* Type invariant.
TypeOK ==
  /\ armed \subseteq Symbols
  /\ online \in BOOLEAN
  /\ connected \in BOOLEAN
  /\ lane \in [Lanes -> Activation]
  /\ inflight \in [Symbols -> Entry]
  /\ dayStart \in [day : Days \cup {-1}, start : Nat]
  /\ reference \in [Days -> Nat]
  /\ journal \subseteq OrderIds
  /\ recording \subseteq OrderIds
  /\ day \in Days
  /\ nextId \in 1..(MaxOrders + 1)
  /\ working \subseteq Order
  /\ net \in [Symbols -> Int]
  /\ outbox \subseteq Report
  /\ placed \subseteq Order
  /\ executed \subseteq OrderIds
  /\ reported \subseteq OrderIds
  /\ untracked \subseteq OrderIds
  /\ halted \subseteq Days
  /\ misread \subseteq Symbols

\* The orders of a symbol the engine still answers for: the broker took them,
\* their report has not come, the engine has not given up on them.
LiveOrders(s) == {o.id : o \in {p \in placed : p.symbol = s}} \ (reported \cup untracked)

\* "Tant qu'un ordre n'a pas recu son compte rendu, aucun autre ordre n'est
\* soumis sur ce symbole" (live_engine.py, the in-flight registry): a symbol
\* never has two live orders, whatever ticks, reports, timeouts, lost answers
\* and restarts interleave.
OneLiveOrder == \A s \in Symbols : \A i, j \in LiveOrders(s) : i = j

\* The registry forgets no live order: once place_order has returned, a live
\* order is the one registered for its symbol.  It could be overwritten by a
\* later registration or dropped by another order's report.
NoForgottenOrder ==
  \A s \in Symbols : \A i \in LiveOrders(s) :
    \/ inflight[s].id = i
    \/ \E w \in Workers : At(<<s, w>>, "accepted") /\ lane[<<s, w>>].ticket = i

\* The position of s is at most what the cap of a symbol lets the entries add up to.
Capped(s) ==
  /\ net[s] <= MaxPositionsPerSymbol * MaxPositionSize
  /\ -net[s] <= MaxPositionsPerSymbol * MaxPositionSize

\* No order of s ended with its fate unknown (a timeout, a lost answer, a restart).
AllTracked(s) == {o \in placed : o.symbol = s /\ o.id \in untracked} = {}

\* risk.max_positions_per_symbol: entries do not pile up on a symbol as long as
\* the engine knows the fate of its orders there and no failed read hid a
\* position of it, whatever else fails.
SymbolCap == \A s \in Symbols : AllTracked(s) /\ s \notin misread => Capped(s)

\* "`max_positions_per_symbol` evite d'empiler des entrees sur la meme paire"
\* (risk_manager.py), read as the text says it: with no allowance for what a
\* gateway that is down answers.
NoPileUp == \A s \in Symbols : AllTracked(s) => Capped(s)

\* "Le registre se vide sur ExecutionReport" (live_engine.py): once the report
\* of an order has been handled, the order no longer blocks its symbol.
ReportFrees == \A s \in Symbols : inflight[s].id \notin reported

\* risk.max_open_positions bounds the positions open on the account.
AccountCap == Cardinality({s \in Symbols : net[s] # 0}) <= MaxOpenPositions

\* The journal holds executions only: a cancelled or refused order frees its
\* symbol without a row, and no row precedes the broker's execution.
JournalIsReal == journal \cup recording \subseteq executed

\* What memory and the decisions in progress hold is the row of their day.
ReferenceHeld ==
  /\ dayStart.day # -1 => reference[dayStart.day] = dayStart.start
  /\ \A t \in Lanes : At(t, "place") /\ lane[t].account # NoAccount =>
       reference[lane[t].today] = lane[t].account.start

\* Every loss is measured against the one reference of its day, across midnight,
\* concurrent first readings and restarts: once stored it never changes
\* (storage_daily_equity: "le repere est pose UNE fois par journee UTC"), and
\* whatever the engine holds or decides on is that row.
OneReference ==
  [][/\ \A d \in Days : reference[d] # 0 => reference'[d] = reference[d]
     /\ ReferenceHeld']_vars

\* "Plus aucune entree aujourd'hui" (risk_manager.py, the loss limit's message):
\* after the limit stopped an entry, no entry is decided on the same day.
NoEntryAfterLoss ==
  [][\A t \in Lanes :
       ~At(t, "place") /\ lane'[t].pc = "place" /\ lane[t].action \in Entries
         => day \notin halted]_vars

\* "Rien ne trade sans les trois feux verts" (live_engine.py): an order that
\* reaches the broker is on a symbol that is armed at that moment.
GreenLights == [][\A o \in placed' \ placed : o.symbol \in armed /\ connected]_vars

\* An in-flight entry never freezes its pair for good: if signals keep coming
\* on a symbol, its registry entry keeps being cleared, even when the report
\* was lost or overtook the registration.
PairUnfrozen ==
  \A s \in Symbols :
    []<>(\E w \in Workers : At(<<s, w>>, "published")) => []<>(inflight[s].id = 0)

\* No report of the order came, and none is on its way.
ReportLost(i) == i \notin reported /\ \A r \in outbox : r.id # i

\* What the broker executed ends in the journal, unless its report is lost.
ExecutionsJournalled ==
  \A i \in OrderIds : (i \in executed) ~> (i \in journal \/ ReportLost(i))

\* The engine's live orders as the slots of the abstract specification.
Slots == INSTANCE OrderSlots WITH
           live <- [s \in Symbols |-> LiveOrders(s)],
           used <- {o.id : o \in placed}

\* Every step of the engine is a step of the order slots.
ImplementsSlots == Slots!Spec
=============================================================================
