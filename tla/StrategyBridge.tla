--------------------------- MODULE StrategyBridge ---------------------------
(***************************************************************************)
(* A backtest: BacktestEngine replays a history bar after bar through      *)
(* backtrader, _StrategyBridge turns each close into a decision of the     *)
(* strategy, an order the RiskManager allows, and broker orders.           *)
(*                                                                         *)
(* One bar is: the feed advances; BackBroker.next checks what was          *)
(* submitted and tries what is pending (BackBroker, one order per step);   *)
(* the strategy is told of refusals, then of closed trades; next() decides *)
(* at the close.  The feed ends with a phantom copy of the last bar, on    *)
(* which next() only values the account.                                   *)
(*                                                                         *)
(* Abstractions.  The history is chosen bar by bar (NextBars), the ISO     *)
(* week is the flag of its last bar, a time is the number of a bar.  The   *)
(* strategy is any member of Signals at any bar; its barriers lie at a     *)
(* distance of the close.  Of self.trades the model keeps the sum of the   *)
(* net results and the latest one.  The value of the account is an         *)
(* operator (AccountValue): the equity curve and the statistics computed   *)
(* from it are not kept.                                                   *)
(*                                                                         *)
(* label is a history variable: the triple barrier of the bar on which the *)
(* open or latest entry was decided, scanned as the bars go by.            *)
(***************************************************************************)
EXTENDS BackBroker, RiskManager, TripleBarrier

CONSTANTS
  Symbol,
  Bars,              \* len(frame)
  Prices,            \* the prices of the history
  Signals,           \* what the strategy may answer: [action, distance]
  ClosingBarExits    \* may the strategy also exit on a bar that closes a week?

ASSUME BridgeAssumption ==
  /\ Bars \in Nat \ {0}
  /\ Prices \subseteq Nat \ {0}
  /\ Signals \subseteq [action : Actions, distance : Nat]
  /\ \A p \in Prices, s \in Signals : p > s.distance     \* a stop at 0 is no stop
  /\ ClosingBarExits \in BOOLEAN

VARIABLES
  phase,         \* what comes next within the bar
  i,             \* _StrategyBridge._i
  weekEnd,       \* last_of_week[i]
  weekStart,     \* history: last_of_week[i - 1]
  entry,         \* _open_side, _entry_time, _entry_price, _entry_size
  pendingExit,   \* _pending_exit
  trade,         \* the trade backtrader is building (Strategy._trades)
  net,           \* the sum of the pnl of self.trades
  last,          \* the latest of self.trades
  rejected,      \* _StrategyBridge.rejected
  label          \* history: the label of the entry bar

bridgeVars == <<entry, pendingExit, trade, net, last, rejected>>
vars == <<brokerVars, bar, phase, i, weekEnd, weekStart, bridgeVars, label>>

\* Times are the numbers of bars.
Times == -1 .. Bars - 1
ExitType == [time : Times, price : Nat]
TradeType == [size : Int, price : Nat, pnl : Int, commission : Nat]
RecordType == [side : {"none", "long", "short"}, size : Nat, entryTime : Times,
               entryPrice : Nat, exitTime : Times, exitPrice : Int, gross : Int, cost : Nat]

NoEntry == [side |-> "none", time |-> -1, price |-> 0, size |-> 0]
EntryType == {NoEntry} \cup
  [side : {"long", "short"}, time : Times, price : Nat, size : Nat \ {0}]
NoExit == [time |-> -1, price |-> 0]
NoTrade == [size |-> 0, price |-> 0, pnl |-> 0, commission |-> 0]
NoRecord == [side |-> "none", size |-> 0, entryTime |-> -1, entryPrice |-> 0,
             exitTime |-> -1, exitPrice |-> 0, gross |-> 0, cost |-> 0]

----------------------------------------------------------------------------
(* The feed.                                                               *)

\* The candles of the history; the open follows from the close before.
Candles == {[low |-> l, close |-> c, high |-> h] : l, c, h \in Prices}
Candle == {k \in Candles : k.low <= k.close /\ k.close <= k.high}
OpenAfter(previous, k) ==
  IF previous < k.low THEN k.low ELSE IF previous > k.high THEN k.high ELSE previous

Bar(open, k) == [open |-> open, low |-> k.low, close |-> k.close, high |-> k.high]

\* The feed advances to bar i + 1; after the last one comes its copy.
Advance ==
  /\ phase = "feed"
  /\ i' = i + 1
  /\ phase' = "broker"
  /\ IF i' = Bars
     THEN UNCHANGED <<bar, weekEnd>>
     ELSE /\ \E k \in Candle :
               bar' = Bar(IF i' = 0 THEN k.close ELSE OpenAfter(bar.close, k), k)
          /\ weekEnd' \in IF i' = Bars - 1 THEN {FALSE} ELSE BOOLEAN
  /\ weekStart' = (weekEnd /\ i' < Bars)
  /\ label' = IF i' = Bars THEN label ELSE Scan(label, bar')
  /\ UNCHANGED <<brokerVars, bridgeVars>>

----------------------------------------------------------------------------
(* The broker's turn.                                                      *)

Broker ==
  /\ phase = "broker"
  /\ CheckSubmitted
  /\ phase' = "pass"
  /\ UNCHANGED <<bar, i, weekEnd, weekStart, bridgeVars, label>>

Pass ==
  /\ phase = "pass"
  /\ TryOrder
  /\ UNCHANGED <<bar, phase, i, weekEnd, weekStart, bridgeVars, label>>

----------------------------------------------------------------------------
(* Notifications: Strategy._addnotification, then _notify.                 *)

\* Trade.update with one part of a fill.
Booked(t, size, price) ==
  LET total == t.size + size
      grows == Magnitude(total) > Magnitude(t.size)
  IN [size  |-> total,
      price |-> IF grows
                THEN (t.price * Magnitude(t.size) + price * Magnitude(size))
                       \div Magnitude(total)
                ELSE t.price,
      pnl   |-> t.pnl + (IF grows THEN 0 ELSE ProfitAndLoss(-size, t.price, price)),
      commission |-> t.commission + Commission(size)]

Books == [trade : TradeType, closed : Seq(TradeType), refused : Nat]

\* _addnotification: a fill closes the trade first, what it opens is a new trade;
\* a refusal waits for notify_order.
AddNotification == [s \in Books |-> [n \in Notification |->
  LET reduced == IF n.closed = 0 THEN s.trade ELSE Booked(s.trade, n.closed, n.price)
      closes  == s.trade.size # 0 /\ reduced.size = 0
      base    == IF closes THEN NoTrade ELSE reduced
  IN IF n.kind = "Margin" THEN [s EXCEPT !.refused = @ + 1]
     ELSE [s EXCEPT
             !.trade = IF n.opened = 0 THEN base ELSE Booked(base, n.opened, n.price),
             !.closed = IF closes THEN Append(@, reduced) ELSE @]]]

\* notify_order: a refusal is counted, and forgets an entry that holds nothing.
Unheard(refused) == [entry |-> entry, rejected |-> rejected]       \* mutant: no notify_order
NotifyOrder(refused) ==
  [entry    |-> IF refused # 0 /\ position.size = 0 THEN NoEntry ELSE entry,
   rejected |-> rejected + refused]

BarCount == i                                      \* mutant: the phantom counts
ThisBar == IF i < Bars THEN i ELSE Bars - 1        \* the phantom has the last time

\* notify_trade: the round trip is recorded at the price of the forced close,
\* or at the price the gross result implies.
Round == [entry : EntryType, pendingExit : ExitType, net : Int, last : RecordType]

NotifyTrade == [s \in Round |-> [t \in TradeType |->
  LET long   == s.entry.side = "long"
      forced == s.pendingExit # NoExit
      unit   == t.pnl \div s.entry.size
  IN IF s.entry = NoEntry THEN s
     ELSE [entry |-> NoEntry, pendingExit |-> NoExit,
           net |-> s.net + t.pnl - t.commission,
           last |-> [side |-> s.entry.side, size |-> s.entry.size,
                     entryTime |-> s.entry.time, entryPrice |-> s.entry.price,
                     exitTime |-> IF forced THEN s.pendingExit.time ELSE ThisBar,
                     exitPrice |-> IF forced THEN s.pendingExit.price
                                   ELSE IF long THEN s.entry.price + unit
                                                ELSE s.entry.price - unit,
                     gross |-> t.pnl, cost |-> t.commission]]]]

\* _notify: what is to be told, the refusals first, then the closed trades.
Notify ==
  /\ phase = "pass"
  /\ todo = <<>>
  /\ LET books == Fold(AddNotification, [trade |-> trade, closed |-> <<>>, refused |-> 0], notifs)
         told  == Fold(NotifyTrade,
                       [entry |-> NotifyOrder(books.refused).entry, pendingExit |-> pendingExit,
                        net |-> net, last |-> last],
                       books.closed)
     IN /\ trade' = books.trade
        /\ entry' = told.entry
        /\ pendingExit' = told.pendingExit
        /\ net' = told.net
        /\ last' = told.last
        /\ rejected' = NotifyOrder(books.refused).rejected
  /\ notifs' = <<>>
  /\ phase' = "next"
  /\ UNCHANGED <<cash, position, submitted, pending, todo, bar, i, weekEnd, weekStart, label>>

----------------------------------------------------------------------------
(* next(): the decision at the close, then the forced close.  Both work on *)
(* b, the part of the state they change.                                   *)

\* What the RiskManager is shown (_open_positions).
OpenPositions ==
  {p \in {[symbol |-> Symbol, quantity |-> position.size]} : p.quantity # 0}

Market(size) == Order("Market", size, bar.close, NoGroup)

\* _cancel_live: only accepted orders are found, so an order submitted on this
\* very bar survives.
CancelLive(b) == [b EXCEPT !.pending = <<>>]

\* Cancel, note the exit, close at market.
CloseOut(b) ==
  [CancelLive(b) EXCEPT !.pendingExit = [time |-> i, price |-> bar.close],
                        !.submitted = Append(@, Market(-position.size))]

\* The barriers of an entry: a stop, and a limit in the same group.
BarrierOrders(quantity, distance) ==
  LET away == IF quantity > 0 THEN distance ELSE -distance
  IN IF distance = 0 THEN <<>>
     ELSE <<Order("Stop",  -quantity, bar.close - away, i + 1),
            Order("Limit", -quantity, bar.close + away, i + 1)>>

\* _apply_order: an order while a position is open closes it; otherwise it
\* is an entry, remembered, submitted with its barriers.
Apply(b, quantity, distance) ==
  IF position.size # 0 THEN CloseOut(b)
  ELSE [b EXCEPT
          !.entry = [side |-> IF quantity > 0 THEN "long" ELSE "short", time |-> i,
                     price |-> bar.close, size |-> Magnitude(quantity)],
          !.submitted = @ \o <<Market(quantity)>> \o BarrierOrders(quantity, distance),
          !.label = Barriers(bar.close, distance)]

OnlyAtTheEnd(b) ==                  \* mutant: the end of a week is missed
  b.entry # NoEntry /\ position.size # 0 /\ b.entry.time # i /\ i = Bars - 1

\* The end of an ISO week, or of the history, closes what is open, unless it
\* was entered on this bar.
MustClose(b) ==
  /\ b.entry # NoEntry
  /\ position.size # 0
  /\ b.entry.time # i
  /\ weekEnd \/ i = Bars - 1

Decide(quantities, distance) ==
  LET b0 == [pending |-> pending, submitted |-> submitted, entry |-> entry,
             pendingExit |-> pendingExit, label |-> label]
      b1 == IF quantities = {} THEN b0
            ELSE Apply(b0, CHOOSE q \in quantities : TRUE, distance)
      b2 == IF MustClose(b1) THEN CloseOut(b1) ELSE b1
  IN /\ pending' = b2.pending
     /\ submitted' = b2.submitted
     /\ entry' = b2.entry
     /\ pendingExit' = b2.pendingExit
     /\ label' = IF b2.entry = NoEntry THEN NoScan ELSE b2.label

\* on_tick answers nothing, or a signal the RiskManager is asked about.
NextBar ==
  /\ phase = "next"
  /\ i < Bars
  /\ \/ Decide({}, 0)
     \/ \E s \in Signals :
          /\ s.action = "EXIT" /\ ~ClosingBarExits => ~weekEnd /\ i < Bars - 1
          /\ Decide({o.quantity : o \in Evaluate(Symbol, s.action, OpenPositions, NoAccount)},
                    s.distance)
  /\ phase' = "feed"
  /\ UNCHANGED <<cash, position, todo, notifs, bar, i, weekEnd, weekStart,
                 trade, net, last, rejected>>

\* On the phantom bar next() values the account, and cerebro.run returns.
Phantom ==
  /\ phase = "next"
  /\ i = Bars
  /\ phase' = "done"
  /\ UNCHANGED <<brokerVars, bar, i, weekEnd, weekStart, bridgeVars, label>>

Finished == phase = "done" /\ UNCHANGED vars

Init ==
  /\ BrokerInit
  /\ phase = "feed"
  /\ i = -1
  /\ bar = Bar(0, [low |-> 0, close |-> 0, high |-> 0])
  /\ weekEnd = FALSE
  /\ weekStart = FALSE
  /\ entry = NoEntry
  /\ pendingExit = NoExit
  /\ trade = NoTrade
  /\ net = 0
  /\ last = NoRecord
  /\ rejected = 0
  /\ label = NoScan

Next == Advance \/ Broker \/ Pass \/ Notify \/ NextBar \/ Phantom \/ Finished

Spec == Init /\ [][Next]_vars

----------------------------------------------------------------------------
(* Properties.                                                             *)

\* Every variable keeps its type.
TypeOK ==
  /\ cash \in Int
  /\ position \in PositionType
  /\ submitted \in Seq(OrderType)
  /\ pending \in Seq(OrderType)
  /\ todo \in Seq(OrderType)
  /\ notifs \in Seq(Notification)
  /\ bar \in [open : Nat, low : Nat, close : Nat, high : Nat]
  /\ phase \in {"feed", "broker", "pass", "next", "done"}
  /\ i \in -1 .. Bars
  /\ weekEnd \in BOOLEAN
  /\ weekStart \in BOOLEAN
  /\ entry \in EntryType
  /\ pendingExit \in ExitType
  /\ trade \in TradeType
  /\ net \in Int
  /\ last \in RecordType
  /\ rejected \in Nat
  /\ label \in ScanType

\* Nothing was refused: the case in which the result is meant to be read as
\* what the strategy would have earned.
Quiet == rejected = 0 /\ \A k \in DOMAIN notifs : notifs[k].kind = "Fill"

\* What the open trade is worth, net of what its entry cost.
OpenResult ==
  trade.pnl - trade.commission + ProfitAndLoss(position.size, position.price, bar.close)

\* Every unit of money is accounted for: at each close the value backtrader
\* gives the account is the initial capital, plus the net results recorded,
\* plus the result of the open trade.  Leverage, costs and short positions,
\* which the cash carries differently, do not leak.
MoneyConserved ==
  (Quiet /\ phase \in {"next", "done"}) =>
     AccountValue(bar.close) = (InitialCapital + net + OpenResult) * Leverage

\* The orders that guard a position: both its barriers, or a close.
Guarded(size) ==
  \/ \E k \in DOMAIN submitted : submitted[k] = Market(-size)
  \/ \A type \in {"Stop", "Limit"} :
        \E k \in DOMAIN pending : pending[k].exectype = type /\ pending[k].size = -size

\* Between two bars a position entered with barriers always has its stop and
\* its target, or its close is on the way; and an account without position
\* and without entry under way has no order left that could open one.
BarriersGuardPosition ==
  (Quiet /\ phase = "feed") =>
     /\ position.size # 0 /\ label # NoScan /\ label.upper # label.close
          => Guarded(position.size)
     /\ position.size = 0 /\ entry = NoEntry => pending \o submitted = <<>>

\* The only position a new week finds open is one entered on the very last
\* bar of the week before, and the only one the end of the history leaves
\* open was entered on its last bar: every other one was closed in time.
CarriedOnlyFromTheLastBar ==
  (Quiet /\ position.size # 0) =>
     /\ phase = "next" /\ weekStart => entry.time = i - 1
     /\ phase = "done" => entry.time = Bars - 1

\* A recorded round trip is the one that took place: the bridge notes the
\* prices it expects, backtrader computes the result from the prices it
\* filled, and the two agree; it cost one spread; it did not end before the
\* bar it was entered on; and a price it ended at on a barrier, which the bridge
\* derives from the result, is one that the bar traded at.
TradeIsExplained ==
  (Quiet /\ last # NoRecord) =>
     /\ last.gross = (IF last.side = "long" THEN last.exitPrice - last.entryPrice
                                            ELSE last.entryPrice - last.exitPrice) * last.size
     /\ last.cost = 2 * Cost * last.size
     /\ last.entryTime <= last.exitTime
     /\ phase = "next" /\ last.exitTime = i =>
          bar.low <= last.exitPrice /\ last.exitPrice <= bar.high

\* A barrier was reached on this bar: the trade recorded now ended on it.
JustStopped == phase = "next" /\ i < Bars /\ entry = NoEntry /\ last.exitTime = i
               /\ label.barrier \in {"tp", "sl"}

\* The exit is on the barrier the label names.
OnLabelledBarrier(price) ==
  /\ label.label = 1 <=> price >= label.upper
  /\ label.label = 0 <=> price <= label.lower

\* The bar reaches both barriers.
Torn == bar.low <= label.lower /\ bar.high >= label.upper

\* The target the model learns is what the simulated account obtains: a
\* position a barrier ends, ends on the barrier its label names, on the very
\* bar that decides the label.  One case is an exception, and it is stated: on
\* a bar that reaches both barriers the label is always 0, and the account
\* always loses.  For a long the two agree; for a short the label is the
\* short's win and the account was stopped out.
LabelIsOutcome ==
  Quiet =>
    /\ JustStopped /\ ~(Torn /\ last.side = "short") => OnLabelledBarrier(last.exitPrice)
    /\ JustStopped /\ Torn => label.label = 0 /\ last.gross < 0
    /\ phase = "next" /\ i < Bars /\ label.barrier \in {"tp", "sl"} => entry = NoEntry

\* No entry disappears without a trace: on the bar after its decision it is
\* a position, a recorded round trip, or a refusal that was counted.
NoSilentEntry ==
  [][(phase = "pass" /\ phase' = "next" /\ entry # NoEntry /\ entry.time = i - 1)
       => \/ position.size # 0
          \/ last' # last /\ last'.entryTime = i - 1
          \/ rejected' > rejected]_vars

\* backtest_engine.py:213-215: when an entry is refused nothing is held for
\* it, so whatever is held is a position the bridge knows it entered.
HeldIsEntered == (phase = "feed" /\ position.size # 0) => entry # NoEntry

\* labeling.py:16-21 and test_strategy_couleuvre_labeling.py:86-90: the label
\* follows the convention of the engine, on a bar that reaches both barriers
\* too, so that it says what the account really obtains.
LabelIsObtained == Quiet /\ JustStopped => OnLabelledBarrier(last.exitPrice)

\* backtest_engine.py, and docs/strategie_couleuvre.md:22: no position is
\* carried over a week-end.
FlatOverWeekend == (phase = "next" /\ weekStart) => position.size = 0
=============================================================================
