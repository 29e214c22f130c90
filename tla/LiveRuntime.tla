---------------------------- MODULE LiveRuntime ----------------------------
(***************************************************************************)
(* pyea/live/live_runtime.py: the singleton that assembles an engine and a *)
(* feed when the broker connects and takes them apart when it disconnects, *)
(* with the two requests that drive it (api/api_rest.py), the bus and the  *)
(* subscriptions of the active gateway.                                    *)
(*                                                                         *)
(* A step is what a request runs between two suspension points: several    *)
(* requests may be in progress, and each reads the runtime's attributes as *)
(* the others left them.  The n-th start builds engine n and feed n.       *)
(*                                                                         *)
(*   connecting    gateway.connect: attaching to the terminal or to TWS    *)
(*   attached      MetaTrader: the account is read before start            *)
(*   resolving     feed.start: the contract of symbol `at` is looked up    *)
(*   stopping      feed.stop: subscriptions cancelled one by one           *)
(*   detaching     MetaTrader: gateway.disconnect cancels what is left     *)
(*                                                                         *)
(* Abstractions.  The gateway is one the configuration names and stays (no *)
(* select).  Warm-up does not suspend, and may raise; a symbol without     *)
(* model is warmed up like another.  is_connected is read without its      *)
(* two-second cache.                                                       *)
(***************************************************************************)
EXTENDS Integers, Sequences, FiniteSets

CONSTANTS
  Requests,      \* requests that may be in progress at once; one: no overlap
  Instruments,   \* history.instruments, in order
  Gateways,      \* gateways the configuration may name
  MaxStarts,     \* bound: engines built
  MaxSessions    \* bound: sessions opened with the broker

Symbols  == {Instruments[k] : k \in 1..Len(Instruments)}
Runs     == 1..MaxStarts
Sessions == 1..MaxSessions
Done     == Len(Instruments) + 1

ASSUME RuntimeAssumption ==
  /\ Gateways \subseteq {"metatrader5", "interactive_brokers"}
  /\ Instruments \in Seq(Symbols)
  /\ MaxStarts \in Nat
  /\ MaxSessions \in Nat \ {0}
  /\ \A j, k \in 1..Len(Instruments) : Instruments[j] = Instruments[k] => j = k

VARIABLES
  gateway,     \* BrokerRuntime._gateway: the kind of the active gateway
  request,     \* the requests: where each is, with its local variables
  running,     \* LiveRuntime._running
  engine,      \* LiveRuntime._engine: the number of its start, 0 for None; of a
               \* start that raised too
  feed,        \* LiveRuntime._feed, likewise
  fed,         \* MarketDataFeed._symbols of each feed
  listeners,   \* EventBus: engines subscribed to market.tick
  callback,    \* BrokerGateway._execution_callback: an engine, 0 for None
  md,          \* gateway._md: symbol -> the feed it was subscribed for, 0 when absent
  streams,     \* price streams that exist: polling tasks or ticker handlers
  session,     \* gateway._ib or _mt5: the session it holds, 0 for None
  alive,       \* does the session answer?
  starts,      \* engines built so far
  sessions,    \* sessions opened so far
  overlapped   \* history: has a request begun while another was in progress?

vars == <<gateway, request, running, engine, feed, fed, listeners, callback, md,
          streams, session, alive, starts, sessions, overlapped>>
kept == <<gateway, overlapped>>
flow == <<running, engine, feed, fed, listeners, callback, md, streams, starts>>

NoRequest == [pc |-> "idle", run |-> 0, at |-> 0, left |-> {}]
Request   == [pc : {"idle", "connecting", "attached", "resolving", "stopping", "detaching"},
              run : Runs \cup {0}, at : 0..Done, left : SUBSET Symbols]

Init ==
  /\ gateway \in Gateways
  /\ request = [r \in Requests |-> NoRequest]
  /\ running = FALSE
  /\ engine = 0
  /\ feed = 0
  /\ fed = [n \in Runs |-> {}]
  /\ listeners = {}
  /\ callback = 0
  /\ md = [s \in Symbols |-> 0]
  /\ streams = {}
  /\ session = 0
  /\ alive = FALSE
  /\ starts = 0
  /\ sessions = 0
  /\ overlapped = FALSE

Connected == session # 0 /\ alive

At(r, label) == request[r].pc = label
Goto(r, q)   == request' = [request EXCEPT ![r] = q]
Return(r)    == Goto(r, NoRequest)

Quiet == \A r \in Requests : At(r, "idle")

-----------------------------------------------------------------------------
(* POST /broker/connect *)

Connect(r) ==
  /\ At(r, "idle")
  /\ Goto(r, [NoRequest EXCEPT !.pc = "connecting"])
  /\ overlapped' = (overlapped \/ ~Quiet)
  /\ UNCHANGED <<flow, session, alive, sessions, gateway>>

ConnectFails(r) ==
  /\ At(r, "connecting")
  /\ Return(r)
  /\ UNCHANGED <<flow, session, alive, sessions, kept>>

\* The first instrument from the k-th on that subscribing has to wait for: a
\* gateway that is gone makes every one fail, an instrument in _md passes.
NextToResolve(k) ==
  IF ~Connected' THEN Done
  ELSE CHOOSE j \in k..Done :
         /\ j = Done \/ md'[Instruments[j]] = 0
         /\ \A i \in k..(j - 1) : md'[Instruments[i]] # 0

\* feed.start goes on from the k-th instrument; the symbols it passes over as
\* subscribed already count as its own.  At the end start is done.
Subscribing(r, n, k, got) ==
  LET j == NextToResolve(k)
      passed == IF Connected' THEN {Instruments[i] : i \in k..(j - 1)} ELSE {}
  IN /\ fed' = [fed EXCEPT ![n] = @ \cup got \cup passed]
     /\ IF j = Done THEN Return(r) /\ running' = TRUE
        ELSE /\ Goto(r, [NoRequest EXCEPT !.pc = "resolving", !.run = n, !.at = j])
             /\ UNCHANGED running

\* start raises: the strategy is unknown, before the engine is noted, or a symbol
\* cannot be warmed up, after it is and before it listens.  connect_broker logs
\* that and answers: the broker stays connected.
StartRaises(r) ==
  /\ ~running /\ Connected'
  /\ starts \in 0..(MaxStarts - 1)
  /\ starts' = starts + 1
  /\ engine' \in {engine, starts'}
  /\ Return(r)
  /\ UNCHANGED <<running, feed, fed, listeners, callback, md, streams>>

\* live_runtime.start up to its first suspension.
Start(r) ==
  \/ /\ running \/ ~Connected'
     /\ Return(r)
     /\ UNCHANGED flow
  \/ /\ ~running /\ Connected'
     /\ starts \in 0..(MaxStarts - 1)
     /\ starts' = starts + 1
     /\ engine' = starts'
     /\ listeners' = listeners \cup {starts'}
     /\ callback' = starts'
     /\ feed' = starts'
     /\ UNCHANGED <<md, streams>>
     /\ Subscribing(r, starts', 1, {})
  \/ StartRaises(r)

\* The session is open.  TWS refuses a second client under the same id; an
\* attach to the MetaTrader terminal is repeatable.
Attach(r) ==
  /\ At(r, "connecting")
  /\ alive' = TRUE
  /\ UNCHANGED kept
  /\ \/ /\ gateway = "metatrader5"
        /\ session' = 1
        /\ Goto(r, [NoRequest EXCEPT !.pc = "attached"])
        /\ UNCHANGED <<flow, sessions>>
     \/ /\ gateway = "interactive_brokers"
        /\ ~Connected
        /\ sessions < MaxSessions
        /\ sessions' = sessions + 1
        /\ session' = sessions'
        /\ Start(r)

StartAttached(r) ==
  /\ At(r, "attached")
  /\ UNCHANGED <<session, alive, sessions, kept>>
  /\ Start(r)

\* The contract is known: the gateway opens the stream and notes it in _md.
Subscribe(r) ==
  LET n == request[r].run
      s == Instruments[request[r].at]
  IN /\ At(r, "resolving")
     /\ Connected
     /\ md' = [md EXCEPT ![s] = n]
     /\ streams' = streams \cup {[symbol |-> s, run |-> n, session |-> session]}
     /\ UNCHANGED <<session, alive, sessions, kept>>
     /\ Subscribing(r, n, request[r].at + 1, {s})
     /\ UNCHANGED <<engine, feed, listeners, callback, starts>>

\* The symbol cannot be resolved: it is skipped.
SkipSymbol(r) ==
  /\ At(r, "resolving")
  /\ UNCHANGED <<md, streams, session, alive, sessions, kept>>
  /\ Subscribing(r, request[r].run, request[r].at + 1, {})
  /\ UNCHANGED <<engine, feed, listeners, callback, starts>>

-----------------------------------------------------------------------------
(* POST /broker/disconnect *)

\* Symbols whose cancellation suspends: those the gateway still holds.
Held(symbols) == {s \in symbols : md[s] # 0}

\* unsubscribe_market_data: the entry goes, and the stream with it.
KeepEntry(s) ==                               \* mutant: _md keeps the symbol
  /\ UNCHANGED md
  /\ streams' = {x \in streams : ~(x.symbol = s /\ x.run = md[s])}

LeaveTask(s) ==                               \* mutant: the stream is not cancelled
  /\ md' = [md EXCEPT ![s] = 0]
  /\ UNCHANGED streams

PopKey(s) ==                                  \* mutant: no entry is left for s at all
  /\ md' = [x \in Symbols \ {s} |-> md[x]]
  /\ streams' = {x \in streams : ~(x.symbol = s /\ x.run = md[s])}

Unsubscribe(s) ==
  /\ md' = [md EXCEPT ![s] = 0]
  /\ streams' = {x \in streams : ~(x.symbol = s /\ x.run = md[s])}

\* The gateway drops its session and everything bound to it.
CloseSession ==
  /\ session' = 0
  /\ md' = [s \in Symbols |-> 0]
  /\ streams' = IF gateway = "interactive_brokers" THEN {} ELSE streams

\* broker_runtime.disconnect, where a disconnected gateway is left as it is.
\* A MetaTrader gateway awaits each cancellation, then drops its session.
Detach(r) ==
  \/ /\ ~Connected
     /\ Return(r)
     /\ UNCHANGED <<md, streams, session>>
  \/ /\ Connected /\ gateway = "interactive_brokers"
     /\ CloseSession
     /\ Return(r)
  \/ /\ Connected /\ gateway = "metatrader5"
     /\ Goto(r, [NoRequest EXCEPT !.pc = "detaching", !.left = Held(Symbols)])
     /\ UNCHANGED <<md, streams, session>>

\* The end of live_runtime.stop, once feed f has stopped: its list is cleared,
\* and the engine leaves the bus.
LeaveRunning(f) ==                            \* mutant: _running stays up
  /\ fed' = [n \in Runs |-> IF n = f THEN {} ELSE fed[n]]
  /\ feed' = 0
  /\ listeners' = listeners \ {engine}
  /\ engine' = 0
  /\ UNCHANGED running

EndStop(f) ==
  /\ fed' = [n \in Runs |-> IF n = f THEN {} ELSE fed[n]]
  /\ feed' = 0
  /\ listeners' = listeners \ {engine}
  /\ engine' = 0
  /\ running' = FALSE

FedNow == IF feed = 0 THEN {} ELSE fed[feed]

\* live_runtime.stop up to its first suspension: nothing to do unless running;
\* only a MetaTrader gateway waits for the tasks it cancels.
Disconnect(r) ==
  /\ At(r, "idle")
  /\ \/ /\ ~running
        /\ Detach(r)
        /\ UNCHANGED <<running, engine, feed, fed, listeners, callback>>
     \/ /\ running
        /\ gateway = "metatrader5" /\ Held(FedNow) # {}
        /\ callback' = 0
        /\ Goto(r, [NoRequest EXCEPT !.pc = "stopping", !.run = feed, !.left = FedNow])
        /\ UNCHANGED <<running, engine, feed, fed, listeners, md, streams, session>>
     \/ /\ running
        /\ gateway = "metatrader5" /\ Held(FedNow) = {}
        /\ callback' = 0
        /\ EndStop(feed)
        /\ Detach(r)
     \/ /\ running
        /\ gateway = "interactive_brokers"
        /\ callback' = 0
        /\ EndStop(feed)
        /\ IF Connected THEN CloseSession
           ELSE /\ md' = [s \in Symbols |-> IF s \in FedNow THEN 0 ELSE md[s]]
                /\ streams' = {x \in streams : x.symbol \notin Held(FedNow)}
                /\ UNCHANGED session
        /\ Return(r)
  /\ overlapped' = (overlapped \/ ~Quiet)
  /\ UNCHANGED <<alive, starts, sessions, gateway>>

\* feed.stop cancels the next polling task it still finds.
StopSymbol(r) ==
  /\ At(r, "stopping")
  /\ \E s \in Held(request[r].left) :
       /\ Unsubscribe(s)
       /\ Goto(r, [request[r] EXCEPT !.left = @ \ {s}])
  /\ UNCHANGED <<running, engine, feed, fed, listeners, callback, session, alive,
                 starts, sessions, kept>>

\* feed.stop is over: stop ends, and the gateway is disconnected.
Stopped(r) ==
  /\ At(r, "stopping")
  /\ Held(request[r].left) = {}
  /\ EndStop(request[r].run)
  /\ Detach(r)
  /\ UNCHANGED <<callback, alive, starts, sessions, kept>>

DetachSymbol(r) ==
  /\ At(r, "detaching")
  /\ \E s \in Held(request[r].left) :
       /\ Unsubscribe(s)
       /\ Goto(r, [request[r] EXCEPT !.left = @ \ {s}])
  /\ UNCHANGED <<running, engine, feed, fed, listeners, callback, session, alive,
                 starts, sessions, kept>>

Detached(r) ==
  /\ At(r, "detaching")
  /\ Held(request[r].left) = {}
  /\ session' = 0
  /\ Return(r)
  /\ UNCHANGED <<flow, alive, sessions, kept>>

-----------------------------------------------------------------------------
(* The broker *)

\* The terminal closes, TWS drops the socket.
Lose ==
  /\ Connected
  /\ alive' = FALSE
  /\ UNCHANGED <<request, flow, session, sessions, kept>>

\* A MetaTrader terminal that logs in again answers the same session.
Recover ==
  /\ gateway = "metatrader5"
  /\ session # 0 /\ ~alive
  /\ alive' = TRUE
  /\ UNCHANGED <<request, flow, session, sessions, kept>>

\* A polling task that finds the gateway without session ends.
StreamEnds ==
  /\ gateway = "metatrader5"
  /\ session = 0
  /\ \E x \in streams : streams' = streams \ {x}
  /\ UNCHANGED <<request, running, engine, feed, fed, listeners, callback, md,
                 session, alive, starts, sessions, kept>>

Next ==
  \/ \E r \in Requests :
       \/ Connect(r) \/ ConnectFails(r) \/ Attach(r) \/ StartAttached(r)
       \/ Subscribe(r) \/ SkipSymbol(r)
       \/ Disconnect(r) \/ StopSymbol(r) \/ Stopped(r) \/ DetachSymbol(r) \/ Detached(r)
  \/ Lose
  \/ Recover
  \/ StreamEnds

Spec == Init /\ [][Next]_vars

-----------------------------------------------------------------------------
(* Properties *)

Stream == [symbol : Symbols, run : Runs, session : Sessions]

\* Type invariant.
TypeOK ==
  /\ gateway \in Gateways
  /\ request \in [Requests -> Request]
  /\ running \in BOOLEAN
  /\ engine \in Runs \cup {0}
  /\ feed \in Runs \cup {0}
  /\ fed \in [Runs -> SUBSET Symbols]
  /\ listeners \subseteq Runs
  /\ callback \in Runs \cup {0}
  /\ md \in [Symbols -> Runs \cup {0}]
  /\ streams \subseteq Stream
  /\ session \in Sessions \cup {0}
  /\ alive \in BOOLEAN
  /\ starts \in 0..MaxStarts
  /\ sessions \in 0..MaxSessions
  /\ overlapped \in BOOLEAN

\* Ticks of a stream reach the bus: a polling task asks whatever session the
\* gateway holds, a ticker handler hears its own only.
Delivers(x) == Connected /\ (gateway = "metatrader5" \/ x.session = session)

\* start is idempotent (its docstring): the bus never has two engines, each of
\* which would send its own order for every tick.
OneEngine == Cardinality(listeners) <= 1

\* No request is in progress and none ever overlapped another.
Settled == Quiet /\ ~overlapped

\* "Le flux n'a de sens que broker connecte" (live_runtime.py): after a
\* disconnection nothing runs. And between requests engine, feed, bus and callback
\* agree: all of the same start while running; once stopped, or when a start
\* raised, the bus and the callback know no engine and there is no feed.  The
\* engine of a start that raised stays in _engine, and hears nothing.
NothingRunsDetached ==
  Settled =>
    /\ session = 0 => ~running
    /\ IF running
       THEN listeners = {engine} /\ callback = engine /\ feed = engine /\ engine # 0
       ELSE listeners = {} /\ callback = 0 /\ feed = 0

\* While the runtime runs on a connected broker, every symbol its feed
\* subscribed still has a stream that delivers, whatever was lost, recovered,
\* stopped and started before.
FlowAlive ==
  Settled /\ running /\ Connected =>
    \A s \in fed[feed] : \E x \in streams : x.symbol = s /\ Delivers(x)

\* On MetaTrader the streams outlive a session that comes back: FlowAlive holds.
\* On Interactive Brokers they are bound to the session they were opened in.
TerminalFlowAlive == gateway = "metatrader5" => FlowAlive

\* No symbol's price is relayed twice: two streams would hand every tick to the
\* engine twice.
OneStream ==
  ~overlapped =>
    \A x, y \in streams : Delivers(x) /\ Delivers(y) /\ x.symbol = y.symbol => x = y
=============================================================================
