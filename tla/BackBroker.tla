----------------------------- MODULE BackBroker -----------------------------
(***************************************************************************)
(* The simulated broker a backtest trades with: backtrader's BackBroker as *)
(* BacktestEngine._run_cerebro configures it (cheat-on-close, a fixed cost *)
(* per unit and side, leverage, no slippage, no filler), one data feed,    *)
(* Market, Stop and Limit orders, orders without parent or expiry.         *)
(*                                                                         *)
(* Abstractions.  An order is a record whose size is signed as in the code *)
(* (a sale is negative) and whose oco names its group (NoGroup: alone).    *)
(* Prices and sizes are integers; cash is counted in units of 1/Leverage,  *)
(* so that a levered value stays whole.  The average price of a position   *)
(* that grows is rounded down.  Of the notifications only what the         *)
(* strategy reacts to is kept: what was filled, and what was refused for   *)
(* margin.  The None the code puts at the end of its queue is the border   *)
(* between todo, the orders this pass has not tried, and pending.          *)
(***************************************************************************)
EXTENDS Integers, Sequences

CONSTANTS
  InitialCapital,   \* backtest.initial_capital, in prices
  Leverage,         \* backtest.leverage
  Cost              \* half a spread plus the commission, per unit and side

ASSUME BrokerAssumption ==
  /\ InitialCapital \in Nat
  /\ Leverage \in Nat \ {0}
  /\ Cost \in Nat

VARIABLES
  cash,        \* BackBroker.cash, in units of 1/Leverage
  position,    \* BackBroker.positions[data]
  submitted,   \* BackBroker.submitted
  pending,     \* BackBroker.pending
  todo,        \* the part of pending this pass has still to try
  notifs,      \* BackBroker.notifs
  bar          \* the current bar of the feed

brokerVars == <<cash, position, submitted, pending, todo, notifs>>

NoGroup == 0
PositionType == [size : Int, price : Nat]
Flat == [size |-> 0, price |-> 0]
Magnitude(n) == IF n < 0 THEN -n ELSE n

\* The queues are worked off from their head, by a step that is a function of what
\* there is so far and of the next element.
Fold(step, base, s) ==
  LET after[n \in 0 .. Len(s)] == IF n = 0 THEN base ELSE step[after[n - 1]][s[n]]
  IN after[Len(s)]

----------------------------------------------------------------------------
(* Position and commission scheme.                                         *)

\* Position.update: the new position, and which part of the size closed the
\* old one and which part opened.
Update(pos, size, price) ==
  LET total == pos.size + size
      grows == pos.size # 0 /\ (pos.size > 0) = (size > 0)
      reverses == pos.size # 0 /\ total # 0 /\ (pos.size > 0) # (total > 0)
      opened == IF pos.size = 0 \/ grows THEN size ELSE IF reverses THEN total ELSE 0
  IN [size   |-> total,
      price  |-> IF total = 0 THEN 0
                 ELSE IF grows THEN (pos.price * Magnitude(pos.size) + price * Magnitude(size))
                                      \div Magnitude(total)
                 ELSE IF opened # 0 THEN price ELSE pos.price,
      opened |-> opened,
      closed |-> size - opened]

PositionOf(update) == [size |-> update.size, price |-> update.price]

\* CommInfoBase.profitandloss and getcommission (COMM_FIXED).
ProfitAndLoss(size, price, newprice) == size * (newprice - price)
Commission(size) == Magnitude(size) * Cost

Unlevered(value) == value * Leverage       \* mutant: a cash account's arithmetic

\* The cash a value stands for: only a long one is divided by the leverage.
\* A short position is carried at its full value, negative.
Levered(value) == IF value > 0 THEN value ELSE value * Leverage

\* What closing adds to the cash, and what opening takes from it.
CloseCash(closed, carried, pnl) ==
  IF closed = 0 THEN 0
  ELSE Levered(-closed * carried) + (pnl - Commission(closed)) * Leverage
OpenCash(opened, price) ==
  IF opened = 0 THEN 0 ELSE Levered(opened * price) + Commission(opened) * Leverage

\* BackBroker._get_value at a close: the cash, what a long position froze
\* plus its unrealised result, or a short position at its current value.
AccountValue(close) ==
  LET value == position.size * close
  IN cash + IF value > 0
            THEN position.size * position.price
                   + ProfitAndLoss(position.size, position.price, close) * Leverage
            ELSE value * Leverage

----------------------------------------------------------------------------
(* Orders.                                                                 *)

Order(exectype, size, price, oco) ==
  [exectype |-> exectype, size |-> size, price |-> price, oco |-> oco]

OrderType == [exectype : {"Market", "Stop", "Limit"}, size : Int, price : Nat, oco : Nat]

KeepSiblings(orders, order) == orders      \* mutant: no one-cancels-the-other

\* _ococheck: the queue without the order's siblings.
WithoutSiblings(orders, order) ==
  Fold([kept \in Seq(OrderType) |-> [o \in OrderType |->
          IF order.oco = NoGroup \/ o.oco # order.oco THEN Append(kept, o) ELSE kept]],
       <<>>, orders)

Notification == [kind : {"Fill", "Margin"}, opened : Int, closed : Int, price : Nat]

Refusal == [kind |-> "Margin", opened |-> 0, closed |-> 0, price |-> 0]
Filling(update, price) ==
  [kind |-> "Fill", opened |-> update.opened, closed |-> update.closed, price |-> price]

\* check_submitted, for one order: pseudo-execute it at its own price on a
\* copy of the cash and of the position, both of which the orders behind it
\* inherit; below zero it is refused, otherwise it is accepted.
Trial == [cash : Int, position : PositionType, pending : Seq(OrderType),
          notifs : Seq(Notification)]

CheckOne == [s \in Trial |-> [order \in OrderType |->
  LET u    == Update(s.position, order.size, order.price)
      left == s.cash + CloseCash(u.closed, order.price, 0) - OpenCash(u.opened, order.price)
      kept == left >= 0
  IN [cash     |-> left,
      position |-> PositionOf(u),
      pending  |-> IF kept THEN Append(s.pending, order) ELSE WithoutSiblings(s.pending, order),
      notifs   |-> IF kept THEN s.notifs ELSE Append(s.notifs, Refusal)]]]

CheckSubmitted ==
  LET s == Fold(CheckOne, [cash |-> cash, position |-> position,
                           pending |-> pending, notifs |-> notifs], submitted)
  IN /\ submitted' = <<>>
     /\ todo' = s.pending             \* the pass starts: the None goes in here
     /\ pending' = <<>>
     /\ notifs' = s.notifs
     /\ UNCHANGED <<cash, position>>

\* A buy stop and a sell limit wait for the market to rise to their price.
Rising(order) == (order.exectype = "Stop") <=> (order.size > 0)

\* _try_exec_market: a market order gets the close it was created on.
AtOpen(order) == {bar.open}                \* mutant: cheat-on-close is not set
MarketPrices(order) == {order.price}

\* _try_exec_stop and _try_exec_limit: a bar that opens beyond the price gives
\* its open, one that reaches it later gives the price.
TriggerPrices(order) ==
  IF Rising(order)
  THEN IF bar.open >= order.price THEN {bar.open}
       ELSE {p \in {order.price} : bar.high >= p}
  ELSE IF bar.open <= order.price THEN {bar.open}
       ELSE {p \in {order.price} : bar.low <= p}

\* _try_exec: the price the order is filled at on this bar, if any.
FillPrices(order) ==
  IF order.exectype = "Market" THEN MarketPrices(order) ELSE TriggerPrices(order)

\* _execute: close what the order closes, open the rest if the cash allows,
\* refuse it otherwise; a filled or refused order cancels its siblings.
Execute(order, price) ==
  LET u        == Update(position, order.size, price)
      pnl      == ProfitAndLoss(-u.closed, position.price, price)
      closed   == cash + CloseCash(u.closed, position.price, pnl)
      refused  == u.opened # 0 /\ closed - OpenCash(u.opened, price) < 0
      done     == IF refused THEN [Update(position, u.closed, price) EXCEPT !.opened = 0]
                             ELSE u
      executes == done.opened + done.closed # 0
  IN /\ cash' = IF refused THEN closed ELSE closed - OpenCash(u.opened, price)
     /\ position' = IF executes THEN PositionOf(done) ELSE position
     /\ notifs' = notifs \o (IF executes THEN <<Filling(done, price)>> ELSE <<>>)
                         \o (IF refused THEN <<Refusal>> ELSE <<>>)
     /\ todo' = WithoutSiblings(Tail(todo), order)
     /\ pending' = WithoutSiblings(pending, order)
     /\ UNCHANGED submitted

\* One turn of the loop of BackBroker.next.
TryOrder ==
  /\ todo # <<>>
  /\ LET order == Head(todo)
     IN \/ \E price \in FillPrices(order) : Execute(order, price)
        \/ /\ FillPrices(order) = {}
           /\ todo' = Tail(todo)
           /\ pending' = Append(pending, order)
           /\ UNCHANGED <<cash, position, submitted, notifs>>

BrokerInit ==
  /\ cash = InitialCapital * Leverage
  /\ position = Flat
  /\ submitted = <<>>
  /\ pending = <<>>
  /\ todo = <<>>
  /\ notifs = <<>>
=============================================================================
