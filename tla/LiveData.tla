------------------------------ MODULE LiveData ------------------------------
(***************************************************************************)
(* How a tick becomes a decision: the market feed publishes it on the      *)
(* EventBus, which starts one task per handler; the task of the engine     *)
(* passes the tick through the trading switch and the connection; the      *)
(* strategy adds it to its candle, and a tick of a new bucket closes that  *)
(* candle, enters it in the buffer and decides on it.                      *)
(*                                                                         *)
(* One symbol, with a model.  A step is what the event loop runs between   *)
(* two suspensions: publish has copied its handlers when the tasks it      *)
(* started run, one by one and in order, and requests run in between.      *)
(* What happens after the decision is LiveEngine; connecting and           *)
(* disconnecting are taken as wholes, LiveRuntime has their suspensions.   *)
(*                                                                         *)
(* Abstractions.  Ticks are numbered as the market makes them, and market  *)
(* gives their buckets.  The web sockets that listen to the bus share no   *)
(* state with the engine and are left out.  The history on disk gives the  *)
(* warm-up any last bucket up to the present one.  The global kill switch  *)
(* is on.  The row of a symbol never armed reads as stopped.               *)
(***************************************************************************)
EXTENDS Candles

CONSTANTS
  Gateways,       \* the gateways the configuration may name
  WarmupBars,     \* WARMUP_BARS: candles a decision needs
  MaxBucket,      \* bound: buckets 0 .. MaxBucket
  MaxTicks,       \* bound: ticks of the market
  MaxStarts,      \* bound: engines built
  Faults          \* subset of FaultKinds

FaultKinds == {"late", "lostWrite", "lostRefresh", "outage", "restart"}
Buckets == 0 .. MaxBucket
Engines == 1 .. MaxStarts

ASSUME DataAssumption ==
  /\ Gateways \subseteq {"metatrader5", "interactive_brokers"}
  /\ WarmupBars \in Nat
  /\ MaxBucket \in Nat
  /\ MaxTicks \in Nat
  /\ MaxStarts \in Nat
  /\ Faults \subseteq FaultKinds

VARIABLES
  gateway,      \* broker.name
  now,          \* the present bucket
  market,       \* the ticks so far: the bucket of each
  table,        \* the row of symbol_trading_states
  cache,        \* storage_trading_state._cache
  connected,    \* BrokerGateway.is_connected()
  stream,       \* does the subscription relay ticks?
  runtime,      \* LiveRuntime: "stopped", "running" or "stopping"
  engine,       \* the latest engine built
  strategies,   \* LiveTradingEngine._strategies of each engine
  handlers,     \* EventBus._subscribers
  tasks,        \* handlers started by publish that have not run yet
  taken,        \* history: the ticks the latest strategy took
  decided,      \* history: how often each bucket's candle was decided on
  latest,       \* history: the latest decision
  late          \* history: has a tick been overtaken?

linkVars == <<gateway, connected, stream, runtime, engine, handlers>>
switchVars == <<table, cache>>
historyVars == <<taken, decided, latest>>
vars == <<now, market, switchVars, linkVars, strategies, tasks, historyVars, late>>

NoCache == "none"
State(enabled) == IF enabled THEN "armed" ELSE "stopped"
NoStrategy == [candle |-> NoCandle, buffer |-> <<>>, live |-> FALSE]
NoDecision == [start |-> -1, tick |-> 0]

Init ==
  /\ gateway \in Gateways
  /\ now = 0
  /\ market = <<>>
  /\ table = "stopped"
  /\ cache = NoCache
  /\ connected = FALSE
  /\ stream = FALSE
  /\ runtime = "stopped"
  /\ engine = 0
  /\ strategies = [g \in Engines |-> NoStrategy]
  /\ handlers = <<>>
  /\ tasks = <<>>
  /\ taken = <<>>
  /\ decided = [b \in Buckets |-> 0]
  /\ latest = NoDecision
  /\ late = FALSE

----------------------------------------------------------------------------
(* Time and the market.                                                    *)

Time ==
  /\ now < MaxBucket
  /\ now' = now + 1
  /\ UNCHANGED <<market, switchVars, linkVars, strategies, tasks, historyVars, late>>

\* MetaTrader's poller reads no price while it awaits the handling of one.
Reads == connected /\ stream /\ (gateway = "metatrader5" => tasks = <<>>)

\* Has a tick, or a candle of the history, of a later bucket come before?
Overtakes(bucket) ==
  \/ \E n \in DOMAIN market : market[n] > bucket
  \/ \E g \in Engines : \E c \in Range(strategies[g].buffer) : c.start > bucket

\* A tick of the bucket; if the gateway reads it, _relay publishes it: a task
\* for each handler subscribed at this moment.
Tick(bucket) ==
  /\ Len(market) < MaxTicks
  /\ market' = Append(market, bucket)
  /\ late' = (late \/ Overtakes(bucket))
  /\ tasks' = IF Reads
              THEN tasks \o [k \in DOMAIN handlers |-> [engine |-> handlers[k],
                                                        tick |-> Len(market) + 1]]
              ELSE tasks
  /\ UNCHANGED <<now, switchVars, linkVars, strategies, historyVars>>

OnTime == Tick(now)
Overtaken == "late" \in Faults /\ now > 0 /\ Tick(now - 1)

----------------------------------------------------------------------------
(* The trading switch.                                                     *)

\* _states: the cache, filled from the table when there is none.
States == IF cache = NoCache THEN table ELSE cache

\* set_trading_enabled: the cache follows what was committed.
CacheFirst(enabled, stored) == State(enabled)      \* mutant: the cache before the table
CacheAfter(enabled, stored) == IF stored THEN State(enabled) ELSE cache

\* A commit that raises changes nothing; the row is read again after the commit,
\* and when that raises the table has changed and the cache has not.
SetTrading(enabled) ==
  /\ enabled => connected                   \* put_trading_state
  /\ \/ /\ table' = State(enabled)
        /\ cache' = CacheAfter(enabled, TRUE)
     \/ /\ "lostWrite" \in Faults
        /\ table' = table
        /\ cache' = CacheAfter(enabled, FALSE)
     \/ /\ "lostRefresh" \in Faults
        /\ table' = State(enabled)
        /\ cache' = cache
  /\ UNCHANGED <<now, market, linkVars, strategies, tasks, historyVars, late>>

----------------------------------------------------------------------------
(* The task of an engine's handler: process_tick up to the signal.         *)

\* on_tick: the tick enters the candle; if one closes, it enters the buffer, and
\* a buffer long enough is decided on.
OnTick(g, tick) ==
  LET r      == Add(strategies[g].candle, tick, market[tick])
      closes == r.closed # NoCandle
      buffer == IF closes THEN AppendCandle(strategies[g].buffer, r.closed)
                ELSE strategies[g].buffer
  IN /\ strategies' = [strategies EXCEPT ![g].candle = r.candle, ![g].buffer = buffer]
     /\ taken' = Append(taken, tick)
     /\ IF closes /\ Len(buffer) >= WarmupBars
        THEN /\ decided' = [decided EXCEPT ![r.closed.start] = @ + 1]
             /\ latest' = [start |-> r.closed.start, tick |-> tick]
        ELSE UNCHANGED <<decided, latest>>

\* The green lights, in the order of the code; the second fills the cache.
Handle ==
  /\ tasks # <<>>
  /\ LET task == Head(tasks)
     IN IF States = "armed" /\ connected /\ strategies[task.engine].live
        THEN OnTick(task.engine, task.tick)
        ELSE UNCHANGED <<strategies, historyVars>>
  /\ tasks' = Tail(tasks)
  /\ cache' = States
  /\ UNCHANGED <<now, market, table, linkVars, late>>

----------------------------------------------------------------------------
(* Requests, and what breaks.                                              *)

\* _warmup_live: no candle yet, and the last candles of the history, which
\* ends with bucket last (-1: there is none).
WarmedUp(last) ==
  [candle |-> NoCandle, live |-> TRUE,
   buffer |-> Trim([k \in 1 .. last + 1 |-> FromHistory(k - 1)])]

\* connect_broker: the connection, then LiveRuntime.start, unless it runs.
Connect ==
  /\ ~connected
  /\ connected' = TRUE
  /\ IF runtime = "stopped"
     THEN /\ engine < MaxStarts
          /\ engine' = engine + 1
          /\ \E last \in -1 .. now :
                strategies' = [strategies EXCEPT ![engine + 1] = WarmedUp(last)]
          /\ handlers' = Append(handlers, engine + 1)
          /\ stream' = TRUE
          /\ runtime' = "running"
          /\ taken' = <<>>
     ELSE UNCHANGED <<engine, strategies, handlers, stream, runtime, taken>>
  /\ UNCHANGED <<gateway, now, market, switchVars, tasks, decided, latest, late>>

\* disconnect_broker, first part: feed.stop cancels MetaTrader's poller, and
\* with it the tasks it awaits.
StopFeed ==
  /\ gateway = "metatrader5"
  /\ runtime = "running"
  /\ runtime' = "stopping"
  /\ stream' = FALSE
  /\ tasks' = <<>>
  /\ UNCHANGED <<gateway, now, market, switchVars, connected, engine, handlers, strategies,
                 historyVars, late>>

\* Second part: engine.stop leaves the bus and drops the strategies, and the
\* broker is disconnected.  On Interactive Brokers nothing suspends before.
Cleared(g) == [strategies EXCEPT ![g] = NoStrategy]
StopEngine ==
  /\ runtime = IF gateway = "metatrader5" THEN "stopping" ELSE "running"
  /\ runtime' = "stopped"
  /\ stream' = FALSE
  /\ handlers' = RemoveFirst(handlers, engine)
  /\ strategies' = Cleared(engine)
  /\ connected' = FALSE
  /\ UNCHANGED <<gateway, now, market, switchVars, engine, tasks, historyVars, late>>

\* The broker stops answering; Interactive Brokers' subscriptions go with it.
Outage ==
  /\ "outage" \in Faults
  /\ connected
  /\ connected' = FALSE
  /\ stream' = (stream /\ gateway = "metatrader5")
  /\ UNCHANGED <<gateway, now, market, switchVars, runtime, engine, handlers, strategies, tasks,
                 historyVars, late>>

\* MetaTrader's terminal answers again.
Recover ==
  /\ gateway = "metatrader5"
  /\ ~connected
  /\ runtime = "running"
  /\ connected' = TRUE
  /\ UNCHANGED <<gateway, now, market, switchVars, stream, runtime, engine, handlers, strategies, tasks,
                 historyVars, late>>

\* The server starts again: only the table is left.
Restart ==
  /\ "restart" \in Faults
  /\ cache # NoCache \/ runtime # "stopped"
  /\ cache' = NoCache
  /\ connected' = FALSE
  /\ stream' = FALSE
  /\ runtime' = "stopped"
  /\ handlers' = <<>>
  /\ strategies' = [g \in Engines |-> NoStrategy]
  /\ tasks' = <<>>
  /\ UNCHANGED <<gateway, now, market, table, engine, historyVars, late>>

Next ==
  \/ Time
  \/ OnTime
  \/ Overtaken
  \/ Handle
  \/ \E enabled \in BOOLEAN : SetTrading(enabled)
  \/ Connect
  \/ StopFeed
  \/ StopEngine
  \/ Outage
  \/ Recover
  \/ Restart

Spec == Init /\ [][Next]_vars

----------------------------------------------------------------------------
(* Properties.                                                             *)

TickNumbers == 1 .. MaxTicks
Candle == [start : Buckets \cup {-1}, ticks : Seq(TickNumbers)]
Strategy == [candle : Candle, buffer : Seq(Candle), live : BOOLEAN]

\* Every variable keeps its type, and the buffer its size.
TypeOK ==
  /\ gateway \in Gateways
  /\ now \in Buckets
  /\ market \in Seq(Buckets)
  /\ table \in {"armed", "stopped"}
  /\ cache \in {NoCache, "armed", "stopped"}
  /\ connected \in BOOLEAN
  /\ stream \in BOOLEAN
  /\ runtime \in {"stopped", "running", "stopping"}
  /\ engine \in 0 .. MaxStarts
  /\ strategies \in [Engines -> Strategy]
  /\ \A g \in Engines : Len(strategies[g].buffer) <= MaxBuffer
  /\ handlers \in Seq(Engines)
  /\ tasks \in Seq([engine : Engines, tick : TickNumbers])
  /\ taken \in Seq(TickNumbers)
  /\ decided \in [Buckets -> Nat]
  /\ latest \in [start : Buckets \cup {-1}, tick : 0 .. MaxTicks]
  /\ late \in BOOLEAN

\* The candles of the latest engine's strategy, the one in progress included.
Made ==
  LET s == strategies[engine]
  IN IF engine = 0 THEN {} ELSE {s.candle} \cup Range(s.buffer)

\* The ticks of a bucket that the strategy took, in order.
TakenOf(bucket) == Kept(taken, {n \in DOMAIN market : market[n] = bucket})

\* A candle is its bucket seen at once: it holds every tick of the bucket the
\* strategy was given, in order, none twice and none of a neighbour, whatever
\* was disarmed, lost or stopped around it.  Ticks out of order break this.
CandlesHoldTheirTicks ==
  ~late => \A c \in Made : c.ticks # <<>> => c.ticks = TakenOf(c.start)

\* The buffer the features are computed on is in the order of time, the
\* history on disk and the candles seen live without a bucket in double.
BufferInOrder ==
  ~late => \A g \in Engines : \A k \in 2 .. Len(strategies[g].buffer) :
             strategies[g].buffer[k - 1].start < strategies[g].buffer[k].start

\* No candle is decided on twice, not even by the engine of a new connection.
OneDecisionPerCandle == ~late => \A b \in Buckets : decided[b] <= 1

\* A decision is licensed: at that moment the table, not only its cache, arms
\* the pair, the broker is connected and the engine of the running runtime
\* decides, although the task was started earlier and the switch is cached.
DecisionsAreLicensed ==
  [][latest' # latest => /\ table = "armed"
                         /\ connected
                         /\ runtime # "stopped"
                         /\ Head(tasks).engine = engine]_vars

\* live_candles.py:11-12: the decision is taken just after the close, by the
\* first tick of the market that follows the bucket.
DecidedAtOnce == \A n \in 1 .. latest.tick - 1 : market[n] <= latest.start
=============================================================================
