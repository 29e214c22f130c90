------------------------ MODULE StrategyBridgeProofs ------------------------
(***************************************************************************)
(* Theorems of StrategyBridge, for any history, any capital, leverage and  *)
(* cost, any size of a position and any distances of the barriers.  Types  *)
(* and NoSilentEntry hold of any configuration and whatever is refused;    *)
(* the others of one position at a time (the caps config.yaml ships) and a *)
(* strategy that leaves to the bridge the close of a bar that ends a week; *)
(* README.md has what happens without.  QuietInv is their invariant: until *)
(* an order is refused, the orders, the position, the trade and the cash   *)
(* are those of one of a few shapes.  TraceInv is that of NoSilentEntry.   *)
(***************************************************************************)
EXTENDS StrategyBridge, FiniteSetTheorems, SequenceTheorems, WellFoundedInduction,
        TLAPS

-----------------------------------------------------------------------------
(* Folds *)

\* Zero and the next of each: all naturals.
LEMMA FromZeroUp ==
  ASSUME NEW A, 0 \in A, \A n \in Nat : n \in A => n + 1 \in A
  PROVE  \A n \in Nat : n \in A
<1> SUFFICES ASSUME NEW m \in Nat, m \notin A PROVE FALSE
  OBVIOUS
<1> DEFINE B == Nat \ A
<1>1. PICK n \in B : \A k \in B : <<k, n>> \notin OpToRel(<, Nat)
  <2>1. B # {} /\ B \in SUBSET Nat
    OBVIOUS
  <2> HIDE DEF B
  <2>2. QED BY <2>1, WFMin, NatLessThanWellFounded
<1>2. n \in Nat /\ n \notin A
  OBVIOUS
<1>3. n # 0 /\ n - 1 \in Nat /\ n - 1 < n /\ (n - 1) + 1 = n
  BY <1>2
<1>4. n - 1 \notin B
  BY <1>1, <1>2, <1>3 DEF OpToRel
<1>5. n - 1 \in A
  BY <1>3, <1>4
<1>6. QED BY <1>2, <1>3, <1>5

Folds(f, m, step, base, s) ==
  f = [n \in 0 .. m |-> IF n = 0 THEN base ELSE step[f[n - 1]][s[n]]]

\* The recursion of Fold is one.
LEMMA FoldsExist ==
  ASSUME NEW step, NEW base, NEW s, NEW m \in Nat
  PROVE  \E f : Folds(f, m, step, base, s)
<1> DEFINE A == {n \in Nat : \E f : Folds(f, n, step, base, s)}
<1>1. 0 \in A
  <2> DEFINE f == [n \in 0 .. 0 |-> base]
  <2>1. Folds(f, 0, step, base, s)
    BY DEF Folds
  <2>2. QED BY <2>1
<1>2. ASSUME NEW n \in Nat, n \in A PROVE n + 1 \in A
  <2>1. PICK f : Folds(f, n, step, base, s)
    BY <1>2
  <2> DEFINE end == step[f[n]][s[n + 1]]
             g == [k \in 0 .. n + 1 |-> IF k = n + 1 THEN end ELSE f[k]]
             h == [k \in 0 .. n + 1 |-> IF k = 0 THEN base ELSE step[g[k - 1]][s[k]]]
  <2>2. ASSUME NEW k \in 0 .. n + 1 PROVE g[k] = h[k]
    <3>1. CASE k = n + 1
      <4>1. k # 0 /\ k - 1 = n /\ n \in 0 .. n + 1 /\ n # n + 1
        BY <3>1
      <4>2. g[k - 1] = f[n] /\ g[k] = end
        BY <3>1, <4>1
      <4>3. QED BY <3>1, <4>1, <4>2
    <3>2. CASE k # n + 1
      <4>1. k \in 0 .. n
        BY <3>2
      <4>2. f[k] = IF k = 0 THEN base ELSE step[f[k - 1]][s[k]]
        <5>1. f = [j \in 0 .. n |-> IF j = 0 THEN base ELSE step[f[j - 1]][s[j]]]
          BY <2>1 DEF Folds
        <5>2. QED BY <4>1, <5>1
      <4>3. k # 0 => k - 1 \in 0 .. n + 1 /\ k - 1 # n + 1
        BY <4>1
      <4>4. k # 0 => g[k - 1] = f[k - 1]
        BY <4>3
      <4>5. g[k] = f[k]
        BY <3>2
      <4>6. QED BY <4>2, <4>4, <4>5
    <3>3. QED BY <3>1, <3>2
  <2>3. g = h
    <3> HIDE DEF end
    <3>1. DOMAIN g = 0 .. n + 1 /\ DOMAIN h = 0 .. n + 1
      OBVIOUS
    <3>2. g = [k \in DOMAIN g |-> g[k]] /\ h = [k \in DOMAIN h |-> h[k]]
      OBVIOUS
    <3> HIDE DEF g, h
    <3>3. QED BY <2>2, <3>1, <3>2
  <2>4. Folds(g, n + 1, step, base, s)
    BY <2>3 DEF Folds
  <2>5. QED BY <2>4
<1>3. m \in A
  <2> HIDE DEF A
  <2>1. QED BY <1>1, <1>2, FromZeroUp
<1>4. QED BY <1>3

\* Fold, step by step.
Steps(f, m, step, base, s) ==
  /\ f[0] = base
  /\ \A n \in 1 .. m : f[n] = step[f[n - 1]][s[n]]

LEMMA FoldSteps ==
  ASSUME NEW step, NEW base, NEW s, Len(s) \in Nat
  PROVE  \E f : Fold(step, base, s) = f[Len(s)] /\ Steps(f, Len(s), step, base, s)
<1> DEFINE m == Len(s)
           f == CHOOSE f : Folds(f, m, step, base, s)
<1>1. Folds(f, m, step, base, s)
  BY FoldsExist
<1>2. Fold(step, base, s) = f[m]
  BY DEF Fold, Folds
<1>3. Steps(f, m, step, base, s)
  <2> HIDE DEF f, m
  <2>1. m \in Nat
    BY DEF m
  <2>2. f = [n \in 0 .. m |-> IF n = 0 THEN base ELSE step[f[n - 1]][s[n]]]
    BY <1>1 DEF Folds
  <2>3. \A n \in 0 .. m : f[n] = IF n = 0 THEN base ELSE step[f[n - 1]][s[n]]
    BY <2>2
  <2>4. QED BY <2>1, <2>3 DEF Steps
<1>4. QED BY <1>2, <1>3

\* A fold stays in the set its step stays in.
LEMMA FoldType ==
  ASSUME NEW A, NEW B, NEW step, NEW base \in A, NEW s \in Seq(B),
         \A a \in A, b \in B : step[a][b] \in A
  PROVE  Fold(step, base, s) \in A
<1>1. Len(s) \in Nat /\ \A n \in 1 .. Len(s) : s[n] \in B
  OBVIOUS
<1>2. PICK f : Fold(step, base, s) = f[Len(s)] /\ Steps(f, Len(s), step, base, s)
  BY <1>1, FoldSteps
<1> DEFINE C == {n \in Nat : n <= Len(s) => f[n] \in A}
<1>3. 0 \in C
  BY <1>2 DEF Steps
<1>4. ASSUME NEW n \in Nat, n \in C PROVE n + 1 \in C
  <2> SUFFICES ASSUME n + 1 <= Len(s) PROVE f[n + 1] \in A
    BY <1>4
  <2>1. n + 1 \in 1 .. Len(s) /\ (n + 1) - 1 = n /\ n <= Len(s)
    BY <1>1
  <2>2. f[n + 1] = step[f[n]][s[n + 1]]
    BY <1>2, <2>1 DEF Steps
  <2>3. f[n] \in A
    BY <1>4, <2>1
  <2>4. QED BY <1>1, <2>1, <2>2, <2>3
<1>5. Len(s) \in C
  <2> HIDE DEF C
  <2>1. QED BY <1>1, <1>3, <1>4, FromZeroUp
<1>6. QED BY <1>1, <1>2, <1>5

\* The folds of short queues.
LEMMA ShortFolds ==
  ASSUME NEW step, NEW base
  PROVE  /\ Fold(step, base, <<>>) = base
         /\ \A a : Fold(step, base, <<a>>) = step[base][a]
         /\ \A a, b : Fold(step, base, <<a, b>>) = step[step[base][a]][b]
         /\ \A a, b, c : Fold(step, base, <<a, b, c>>) = step[step[step[base][a]][b]][c]
<1>1. Fold(step, base, <<>>) = base
  <2>1. Len(<<>>) = 0
    OBVIOUS
  <2>2. QED BY <2>1, FoldSteps DEF Steps
<1>2. ASSUME NEW a PROVE Fold(step, base, <<a>>) = step[base][a]
  <2>1. Len(<<a>>) = 1 /\ <<a>>[1] = a /\ 1 - 1 = 0
    OBVIOUS
  <2>2. QED BY <2>1, FoldSteps DEF Steps
<1>3. ASSUME NEW a, NEW b PROVE Fold(step, base, <<a, b>>) = step[step[base][a]][b]
  <2>1. Len(<<a, b>>) = 2 /\ <<a, b>>[1] = a /\ <<a, b>>[2] = b /\ 1 - 1 = 0 /\ 2 - 1 = 1
    OBVIOUS
  <2>2. PICK f : Fold(step, base, <<a, b>>) = f[2] /\ Steps(f, 2, step, base, <<a, b>>)
    BY <2>1, FoldSteps
  <2>3. f[0] = base /\ f[1] = step[f[0]][a] /\ f[2] = step[f[1]][b]
    BY <2>1, <2>2 DEF Steps
  <2>4. QED BY <2>2, <2>3
<1>4. ASSUME NEW a, NEW b, NEW c
      PROVE  Fold(step, base, <<a, b, c>>) = step[step[step[base][a]][b]][c]
  <2>1. /\ Len(<<a, b, c>>) = 3 /\ <<a, b, c>>[1] = a /\ <<a, b, c>>[2] = b /\ <<a, b, c>>[3] = c
        /\ 1 - 1 = 0 /\ 2 - 1 = 1 /\ 3 - 1 = 2
    OBVIOUS
  <2>2. PICK f : Fold(step, base, <<a, b, c>>) = f[3] /\ Steps(f, 3, step, base, <<a, b, c>>)
    BY <2>1, FoldSteps
  <2>3. f[0] = base /\ f[1] = step[f[0]][a] /\ f[2] = step[f[1]][b] /\ f[3] = step[f[2]][c]
    BY <2>1, <2>2 DEF Steps
  <2>4. QED BY <2>2, <2>3
<1>5. QED BY <1>1, <1>2, <1>3, <1>4

-----------------------------------------------------------------------------
(* Arithmetic *)

LEMMA DivExact ==
  ASSUME NEW k \in Int, NEW m \in Nat \ {0}
  PROVE  (m * k) \div m = k /\ (k * m) \div m = k
OBVIOUS

LEMMA DivNatural ==
  ASSUME NEW k \in Nat, NEW m \in Nat \ {0}
  PROVE  k \div m \in Nat
OBVIOUS

LEMMA Products ==
  /\ \A a, b \in Nat : a * b \in Nat
  /\ \A a, b \in Int : a * b \in Int
OBVIOUS

-----------------------------------------------------------------------------
(* Types *)

\* Past the first bar the feed stands on a bar of the history, and its prices are in
\* order.
BarKnown ==
  /\ phase \in {"broker", "pass", "next"} => i >= 0
  /\ phase = "feed" => i < Bars
  /\ i >= 0 => /\ bar.close \in Prices
               /\ bar.low <= bar.open /\ bar.open <= bar.high
               /\ bar.low <= bar.close /\ bar.close <= bar.high

LEMMA UpdateType ==
  ASSUME NEW pos \in PositionType, NEW size \in Int, NEW price \in Nat
  PROVE  LET u == Update(pos, size, price)
         IN /\ u.size \in Int /\ u.price \in Nat /\ u.opened \in Int /\ u.closed \in Int
            /\ PositionOf(u) \in PositionType
<1> DEFINE total == pos.size + size
           grows == pos.size # 0 /\ (pos.size > 0) = (size > 0)
           worth == pos.price * Magnitude(pos.size) + price * Magnitude(size)
<1>1. pos.size \in Int /\ pos.price \in Nat
  BY DEF PositionType
<1>2. Magnitude(pos.size) \in Nat /\ Magnitude(size) \in Nat
  BY <1>1 DEF Magnitude
<1>3. worth \in Nat
  <2>1. pos.price * Magnitude(pos.size) \in Nat /\ price * Magnitude(size) \in Nat
    BY <1>1, <1>2, Products
  <2>2. QED BY <2>1
<1>4. grows => Magnitude(total) \in Nat \ {0}
  BY <1>1 DEF Magnitude
<1>5. grows => worth \div Magnitude(total) \in Nat
  <2> HIDE DEF worth, total, grows
  <2>1. QED BY <1>3, <1>4, DivNatural
<1> HIDE DEF worth
<1>6. QED BY <1>1, <1>5 DEF Update, PositionOf, PositionType, worth

LEMMA CommissionType ==
  ASSUME NEW size \in Int
  PROVE  Commission(size) \in Nat
<1>1. Magnitude(size) \in Nat
  BY DEF Magnitude
<1>2. QED BY <1>1, Products, BrokerAssumption DEF Commission

LEMMA LeveredType ==
  ASSUME NEW value \in Int
  PROVE  Levered(value) \in Int
BY Products, BrokerAssumption DEF Levered

LEMMA OpenCashType ==
  ASSUME NEW opened \in Int, NEW price \in Int
  PROVE  OpenCash(opened, price) \in Int
<1>1. Levered(opened * price) \in Int
  BY LeveredType, Products
<1>2. Commission(opened) * Leverage \in Int
  BY CommissionType, Products, BrokerAssumption
<1>3. QED BY <1>1, <1>2 DEF OpenCash

LEMMA CloseCashType ==
  ASSUME NEW closed \in Int, NEW carried \in Int, NEW pnl \in Int
  PROVE  CloseCash(closed, carried, pnl) \in Int
<1>1. Levered(-closed * carried) \in Int
  <2>1. -closed \in Int
    OBVIOUS
  <2>2. QED BY <2>1, LeveredType, Products
<1>2. (pnl - Commission(closed)) * Leverage \in Int
  <2>1. pnl - Commission(closed) \in Int
    BY CommissionType
  <2>2. QED BY <2>1, Products, BrokerAssumption
<1>3. QED BY <1>1, <1>2 DEF CloseCash

LEMMA ProfitType ==
  ASSUME NEW size \in Int, NEW price \in Int, NEW newprice \in Int
  PROVE  ProfitAndLoss(size, price, newprice) \in Int
<1>1. newprice - price \in Int
  OBVIOUS
<1>2. QED BY <1>1, Products DEF ProfitAndLoss

LEMMA WithoutSiblingsType ==
  ASSUME NEW orders \in Seq(OrderType), NEW order
  PROVE  WithoutSiblings(orders, order) \in Seq(OrderType)
<1> DEFINE A == Seq(OrderType)
           step == [kept \in A |-> [o \in OrderType |->
                      IF order.oco = NoGroup \/ o.oco # order.oco THEN Append(kept, o) ELSE kept]]
<1>1. <<>> \in A
  OBVIOUS
<1>2. ASSUME NEW a \in A, NEW b \in OrderType PROVE step[a][b] \in A
  OBVIOUS
<1>3. WithoutSiblings(orders, order) = Fold(step, <<>>, orders)
  BY DEF WithoutSiblings
<1> HIDE DEF A, step
<1>4. Fold(step, <<>>, orders) \in A
  BY <1>1, <1>2, FoldType
<1>5. QED BY <1>3, <1>4 DEF A

LEMMA CheckOneType ==
  ASSUME NEW s \in Trial, NEW order \in OrderType
  PROVE  CheckOne[s][order] \in Trial
<1> DEFINE u == Update(s.position, order.size, order.price)
           left == s.cash + CloseCash(u.closed, order.price, 0) - OpenCash(u.opened, order.price)
<1>1. /\ s.cash \in Int /\ s.position \in PositionType
      /\ s.pending \in Seq(OrderType) /\ s.notifs \in Seq(Notification)
  BY DEF Trial
<1>2. order.size \in Int /\ order.price \in Nat
  BY DEF OrderType
<1>3. u.opened \in Int /\ u.closed \in Int /\ PositionOf(u) \in PositionType
  BY <1>1, <1>2, UpdateType
<1>4. left \in Int
  <2> HIDE DEF u
  <2>0. order.price \in Int
    BY <1>2
  <2>1. CloseCash(u.closed, order.price, 0) \in Int
    <3>1. \A pnl \in Int : CloseCash(u.closed, order.price, pnl) \in Int
      BY <2>0, <1>3, CloseCashType
    <3>2. QED BY <3>1
  <2>2. OpenCash(u.opened, order.price) \in Int
    BY <2>0, <1>3, OpenCashType
  <2>3. QED BY <1>1, <2>1, <2>2
<1>5. /\ Append(s.pending, order) \in Seq(OrderType)
      /\ WithoutSiblings(s.pending, order) \in Seq(OrderType)
  BY <1>1, WithoutSiblingsType
<1>6. Append(s.notifs, Refusal) \in Seq(Notification)
  <2>1. Refusal \in Notification
    BY DEF Refusal, Notification
  <2>2. QED BY <1>1, <2>1
<1>7. CheckOne[s][order] =
        [cash     |-> left,
         position |-> PositionOf(u),
         pending  |-> IF left >= 0 THEN Append(s.pending, order) ELSE WithoutSiblings(s.pending, order),
         notifs   |-> IF left >= 0 THEN s.notifs ELSE Append(s.notifs, Refusal)]
  BY DEF CheckOne
<1> HIDE DEF left, u
<1>8. QED BY <1>1, <1>3, <1>4, <1>5, <1>6, <1>7 DEF Trial

\* What a fill or a refusal leaves.
LEMMA ExecuteType ==
  ASSUME TypeOK, NEW order, NEW price \in Nat, order.size \in Int, todo # <<>>, Execute(order, price)
  PROVE  /\ cash' \in Int /\ position' \in PositionType /\ notifs' \in Seq(Notification)
         /\ todo' \in Seq(OrderType) /\ pending' \in Seq(OrderType)
<1> DEFINE u == Update(position, order.size, price)
           pnl == ProfitAndLoss(-u.closed, position.price, price)
           closed == cash + CloseCash(u.closed, position.price, pnl)
           refused == u.opened # 0 /\ closed - OpenCash(u.opened, price) < 0
           r == Update(position, u.closed, price)
           done == IF refused THEN [r EXCEPT !.opened = 0] ELSE u
           executes == done.opened + done.closed # 0
<1>1. /\ cash \in Int /\ position \in PositionType /\ position.price \in Int
      /\ notifs \in Seq(Notification) /\ todo \in Seq(OrderType) /\ pending \in Seq(OrderType)
  BY DEF TypeOK, PositionType
<1>2. /\ u.opened \in Int /\ u.closed \in Int /\ -u.closed \in Int /\ PositionOf(u) \in PositionType
  BY <1>1, UpdateType
<1>3. /\ r.opened \in Int /\ r.closed \in Int /\ PositionOf(r) \in PositionType
  <2> HIDE DEF u
  <2>1. QED BY <1>1, <1>2, UpdateType
<1>4. /\ done.opened \in Int /\ done.closed \in Int /\ PositionOf(done) \in PositionType
  <2>1. /\ [r EXCEPT !.opened = 0].closed = r.closed /\ [r EXCEPT !.opened = 0].opened = 0
        /\ PositionOf([r EXCEPT !.opened = 0]) = PositionOf(r)
    BY DEF Update, PositionOf
  <2> HIDE DEF r, u, refused
  <2>2. QED BY <1>2, <1>3, <2>1
<1>5. closed \in Int /\ closed - OpenCash(u.opened, price) \in Int
  <2> HIDE DEF u
  <2>0. price \in Int
    OBVIOUS
  <2>1. pnl \in Int
    BY <1>1, <1>2, <2>0, ProfitType
  <2> HIDE DEF pnl
  <2>2. CloseCash(u.closed, position.price, pnl) \in Int
    BY <1>1, <1>2, <2>1, CloseCashType
  <2>3. OpenCash(u.opened, price) \in Int
    BY <1>2, <2>0, OpenCashType
  <2>4. QED BY <1>1, <2>2, <2>3
<1>6. /\ cash' = IF refused THEN closed ELSE closed - OpenCash(u.opened, price)
      /\ position' = IF executes THEN PositionOf(done) ELSE position
      /\ notifs' = notifs \o (IF executes THEN <<Filling(done, price)>> ELSE <<>>)
                          \o (IF refused THEN <<Refusal>> ELSE <<>>)
      /\ todo' = WithoutSiblings(Tail(todo), order)
      /\ pending' = WithoutSiblings(pending, order)
  BY DEF Execute
<1> HIDE DEF u, pnl, closed, refused, r, done, executes
<1>7. Filling(done, price) \in Notification /\ Refusal \in Notification
  BY <1>4 DEF Filling, Refusal, Notification
<1>8. notifs' \in Seq(Notification)
  BY <1>1, <1>6, <1>7
<1>9. Tail(todo) \in Seq(OrderType)
  BY <1>1
<1>10. todo' \in Seq(OrderType) /\ pending' \in Seq(OrderType)
  BY <1>1, <1>6, <1>9, WithoutSiblingsType
<1>11. QED BY <1>1, <1>4, <1>5, <1>6, <1>8, <1>10

LEMMA FillPricesType ==
  ASSUME TypeOK, NEW order \in OrderType
  PROVE  FillPrices(order) \subseteq Nat
BY DEF TypeOK, OrderType, FillPrices, MarketPrices, TriggerPrices

LEMMA NoTradeType == NoTrade \in TradeType
BY DEF NoTrade, TradeType

LEMMA BookedType ==
  ASSUME NEW t \in TradeType, NEW size \in Int, NEW price \in Nat
  PROVE  Booked(t, size, price) \in TradeType
<1> DEFINE total == t.size + size
           grows == Magnitude(total) > Magnitude(t.size)
           worth == t.price * Magnitude(t.size) + price * Magnitude(size)
<1>1. t.size \in Int /\ t.price \in Nat /\ t.pnl \in Int /\ t.commission \in Nat
  BY DEF TradeType
<1>2. /\ Magnitude(t.size) \in Nat /\ Magnitude(size) \in Nat /\ Magnitude(total) \in Nat
      /\ total \in Int
  BY <1>1 DEF Magnitude
<1>3. worth \in Nat
  <2>1. t.price * Magnitude(t.size) \in Nat /\ price * Magnitude(size) \in Nat
    BY <1>1, <1>2, Products
  <2>2. QED BY <2>1
<1>4. grows => worth \div Magnitude(total) \in Nat
  <2> HIDE DEF worth, total
  <2>1. grows => Magnitude(total) \in Nat \ {0}
    BY <1>2
  <2>2. QED BY <1>3, <2>1, DivNatural
<1>5. ProfitAndLoss(-size, t.price, price) \in Int
  <2>1. -size \in Int /\ t.price \in Int /\ price \in Int
    BY <1>1
  <2>2. QED BY <2>1, ProfitType
<1>6. Commission(size) \in Nat
  BY CommissionType
<1>7. Booked(t, size, price) =
        [size |-> total, price |-> IF grows THEN worth \div Magnitude(total) ELSE t.price,
         pnl |-> t.pnl + (IF grows THEN 0 ELSE ProfitAndLoss(-size, t.price, price)),
         commission |-> t.commission + Commission(size)]
  BY DEF Booked
<1> HIDE DEF worth, total, grows
<1>8. QED BY <1>1, <1>2, <1>4, <1>5, <1>6, <1>7 DEF TradeType

LEMMA AddNotificationType ==
  ASSUME NEW s \in Books, NEW n \in Notification
  PROVE  AddNotification[s][n] \in Books
<1> DEFINE reduced == IF n.closed = 0 THEN s.trade ELSE Booked(s.trade, n.closed, n.price)
           closes == s.trade.size # 0 /\ reduced.size = 0
           base == IF closes THEN NoTrade ELSE reduced
           after == IF n.opened = 0 THEN base ELSE Booked(base, n.opened, n.price)
<1>1. s.trade \in TradeType /\ s.closed \in Seq(TradeType) /\ s.refused \in Nat
  BY DEF Books
<1>2. n.closed \in Int /\ n.opened \in Int /\ n.price \in Nat
  BY DEF Notification
<1>3. reduced \in TradeType
  BY <1>1, <1>2, BookedType
<1> HIDE DEF reduced
<1>4. base \in TradeType
  BY <1>3, NoTradeType
<1> HIDE DEF base
<1>5. after \in TradeType
  BY <1>2, <1>4, BookedType
<1>6. Append(s.closed, reduced) \in Seq(TradeType)
  BY <1>1, <1>3
<1>7. AddNotification[s][n] =
        IF n.kind = "Margin" THEN [s EXCEPT !.refused = @ + 1]
        ELSE [s EXCEPT !.trade = after,
                       !.closed = IF closes THEN Append(@, reduced) ELSE @]
  BY DEF AddNotification, reduced, base
<1> HIDE DEF after, closes
<1>8. [s EXCEPT !.refused = @ + 1] \in Books
  BY <1>1 DEF Books
<1>9. (IF closes THEN Append(s.closed, reduced) ELSE s.closed) \in Seq(TradeType)
  BY <1>1, <1>6
<1>10. \A queue \in Seq(TradeType) : [s EXCEPT !.trade = after, !.closed = queue] \in Books
  BY <1>1, <1>5 DEF Books
<1>11. [s EXCEPT !.trade = after, !.closed = IF closes THEN Append(@, reduced) ELSE @] \in Books
  BY <1>9, <1>10
<1>12. QED BY <1>7, <1>8, <1>11

LEMMA DivInteger ==
  ASSUME NEW k \in Int, NEW m \in Nat \ {0}
  PROVE  k \div m \in Int
OBVIOUS

LEMMA ThisBarType ==
  ASSUME TypeOK
  PROVE  ThisBar \in Times
BY BridgeAssumption DEF TypeOK, ThisBar, Times

LEMMA NoneTypes == NoEntry \in EntryType /\ NoExit \in ExitType /\ NoRecord \in RecordType
BY BridgeAssumption DEF NoEntry, EntryType, NoExit, ExitType, NoRecord, RecordType, Times

LEMMA EntryFields ==
  ASSUME NEW e \in EntryType
  PROVE  /\ e.time \in Times /\ e.price \in Nat /\ e.size \in Nat /\ e.side \in {"none", "long", "short"}
         /\ e # NoEntry => e.side \in {"long", "short"} /\ e.size \in Nat \ {0}
BY NoneTypes, BridgeAssumption DEF EntryType, NoEntry, Times

LEMMA NotifyTradeType ==
  ASSUME TypeOK, NEW s \in Round, NEW t \in TradeType
  PROVE  NotifyTrade[s][t] \in Round
<1> DEFINE forced == s.pendingExit # NoExit
           unit == t.pnl \div s.entry.size
           price == IF forced THEN s.pendingExit.price
                    ELSE IF s.entry.side = "long" THEN s.entry.price + unit
                                                  ELSE s.entry.price - unit
           time == IF forced THEN s.pendingExit.time ELSE ThisBar
           record == [side |-> s.entry.side, size |-> s.entry.size,
                     entryTime |-> s.entry.time, entryPrice |-> s.entry.price,
                     exitTime |-> time, exitPrice |-> price,
                     gross |-> t.pnl, cost |-> t.commission]
<1>1. s.entry \in EntryType /\ s.pendingExit \in ExitType /\ s.net \in Int /\ s.last \in RecordType
  BY DEF Round
<1>2. t.pnl \in Int /\ t.commission \in Nat
  BY DEF TradeType
<1>3. NotifyTrade[s][t] =
        IF s.entry = NoEntry THEN s
        ELSE [entry |-> NoEntry, pendingExit |-> NoExit, net |-> s.net + t.pnl - t.commission,
              last |-> record]
  BY DEF NotifyTrade
<1>4. CASE s.entry = NoEntry
  BY <1>3, <1>4
<1>5. CASE s.entry # NoEntry
  <2>1. /\ s.entry.time \in Times /\ s.entry.price \in Nat
        /\ s.entry.side \in {"long", "short"} /\ s.entry.size \in Nat \ {0}
    BY <1>1, <1>5, EntryFields
  <2>2. unit \in Int
    BY <1>2, <2>1, DivInteger
  <2> HIDE DEF unit
  <2>3. price \in Int
    BY <1>1, <2>1, <2>2 DEF ExitType
  <2>4. time \in Times
    BY <1>1, ThisBarType DEF ExitType
  <2> HIDE DEF price, time
  <2>5. record \in RecordType
    BY <1>2, <2>1, <2>3, <2>4 DEF RecordType
  <2> HIDE DEF record
  <2>6. s.net + t.pnl - t.commission \in Int
    BY <1>1, <1>2
  <2>7. QED BY <1>3, <1>5, <2>5, <2>6, NoneTypes DEF Round
<1>6. QED BY <1>4, <1>5

\* What the RiskManager answers: nothing to an exit without a position, and to an
\* entry at most one order of the size it is configured with.
Quantities(action) ==
  {o.quantity : o \in Evaluate(Symbol, action, OpenPositions, NoAccount)}

LEMMA QuantitiesOf ==
  ASSUME position \in PositionType, NEW action \in Actions
  PROVE  /\ Quantities(action) \subseteq Int
         /\ position.size = 0 /\ action = "EXIT" => Quantities(action) = {}
         /\ action = "EXIT" => Quantities(action) \subseteq {-position.size}
         /\ action \in Entries => Quantities(action) \subseteq {MaxPositionSize, -MaxPositionSize}
<1>1. position.size \in Int /\ MaxPositionSize \in Int
  BY LimitsAssumption DEF PositionType
<1>2. \A p \in OpenPositions : p.quantity = position.size /\ position.size # 0
  BY DEF OpenPositions
<1>3. ASSUME action = "EXIT" PROVE Quantities(action) \subseteq {-position.size}
  BY <1>2, <1>3 DEF Quantities, Evaluate, OnSymbol
<1>4. ASSUME action = "EXIT", position.size = 0 PROVE Quantities(action) = {}
  BY <1>2, <1>4 DEF Quantities, Evaluate, OnSymbol
<1>5. ASSUME action \in Entries
      PROVE  Quantities(action) \subseteq {MaxPositionSize, -MaxPositionSize}
  BY <1>5 DEF Quantities, Evaluate, Entries
<1>6. -position.size \in Int /\ -MaxPositionSize \in Int
  BY <1>1
<1>7. QED BY <1>1, <1>3, <1>4, <1>5, <1>6 DEF Actions

\* The price a barrier lies at is a price.
PricesLie(distance) == \A p \in Prices : p > distance

LEMMA BarrierOrdersType ==
  ASSUME bar.close \in Prices, NEW quantity \in Int, NEW distance \in Nat, PricesLie(distance),
         i \in 0 .. Bars - 1
  PROVE  BarrierOrders(quantity, distance) \in Seq(OrderType)
<1> DEFINE away == IF quantity > 0 THEN distance ELSE -distance
           stop == Order("Stop", -quantity, bar.close - away, i + 1)
           limit == Order("Limit", -quantity, bar.close + away, i + 1)
<1>0. bar.close \in Nat /\ distance < bar.close
  BY BridgeAssumption DEF PricesLie
<1>1. /\ bar.close - away \in Nat /\ bar.close + away \in Nat /\ -quantity \in Int /\ i + 1 \in Nat
  BY <1>0
<1>2. stop \in OrderType /\ limit \in OrderType
  <2> HIDE DEF away
  <2>1. QED BY <1>1 DEF Order, OrderType
<1>3. BarrierOrders(quantity, distance) = IF distance = 0 THEN <<>> ELSE <<stop, limit>>
  BY DEF BarrierOrders
<1> HIDE DEF stop, limit
<1>4. QED BY <1>2, <1>3

LEMMA ScanTypes ==
  /\ NoScan \in ScanType
  /\ \A close \in Nat, distance \in Nat : Barriers(close, distance) \in ScanType
  /\ \A scan \in ScanType : \A b : Scan(scan, b) \in ScanType
<1>1. MaxHold \in Int
  BY HoldAssumption
<1>2. \A close \in Nat, distance \in Nat : Barriers(close, distance) \in ScanType
  BY <1>1 DEF Barriers, ScanType, Labels, BarrierKinds, NaN
<1>3. NoScan \in ScanType
  BY <1>1, <1>2 DEF NoScan, Barriers, ScanType, BarrierKinds, Labels, NaN
<1>4. ASSUME NEW scan \in ScanType, NEW b PROVE Scan(scan, b) \in ScanType
  <2> DEFINE next == [scan EXCEPT !.left = @ - 1]
  <2>1. next \in ScanType
    BY DEF ScanType
  <2> HIDE DEF next
  <2>2. \A l \in Labels, k \in BarrierKinds : Answer(next, l, k) \in ScanType
    BY <2>1 DEF Answer, ScanType
  <2>3. {0, 1} \subseteq Labels /\ {"sl", "tp", "time"} \subseteq BarrierKinds
    BY DEF Labels, BarrierKinds
  <2>4. QED BY <2>1, <2>2, <2>3 DEF Scan, next
<1>5. QED BY <1>2, <1>3, <1>4

\* What next() works on.
Working ==
  [pending : Seq(OrderType), submitted : Seq(OrderType), entry : EntryType,
   pendingExit : ExitType, label : ScanType]

LEMMA MarketType ==
  ASSUME bar.close \in Nat, NEW quantity \in Int
  PROVE  Market(quantity) \in OrderType
BY DEF Market, Order, OrderType, NoGroup

LEMMA CloseOutType ==
  ASSUME NEW b \in Working, position \in PositionType, bar.close \in Nat, i \in 0 .. Bars - 1
  PROVE  CloseOut(b) \in Working
<1>1. Market(-position.size) \in OrderType
  <2>1. -position.size \in Int
    BY DEF PositionType
  <2>2. QED BY <2>1, MarketType
<1>2. b.submitted \in Seq(OrderType)
  BY DEF Working
<1>3. Append(b.submitted, Market(-position.size)) \in Seq(OrderType)
  BY <1>1, <1>2
<1>4. [time |-> i, price |-> bar.close] \in ExitType
  BY BridgeAssumption DEF ExitType, Times
<1>5. \A exit \in ExitType, queue \in Seq(OrderType) :
        [[b EXCEPT !.pending = <<>>] EXCEPT !.pendingExit = exit, !.submitted = queue] \in Working
  <2>1. <<>> \in Seq(OrderType)
    OBVIOUS
  <2>2. [b EXCEPT !.pending = <<>>] \in Working
    BY <2>1 DEF Working
  <2>3. \A c \in Working, exit \in ExitType, queue \in Seq(OrderType) :
          [c EXCEPT !.pendingExit = exit, !.submitted = queue] \in Working
    BY DEF Working
  <2>4. QED BY <2>2, <2>3
<1>6. CloseOut(b) = [[b EXCEPT !.pending = <<>>] EXCEPT
                       !.pendingExit = [time |-> i, price |-> bar.close],
                       !.submitted = Append(b.submitted, Market(-position.size))]
  <2>1. [b EXCEPT !.pending = <<>>].submitted = b.submitted
    BY DEF Working
  <2>2. QED BY <2>1 DEF CloseOut, CancelLive
<1>7. QED BY <1>3, <1>4, <1>5, <1>6

LEMMA ApplyType ==
  ASSUME NEW b \in Working, position \in PositionType, bar.close \in Prices, i \in 0 .. Bars - 1,
         NEW quantity \in Int, position.size = 0 => quantity # 0,
         NEW distance \in Nat, PricesLie(distance)
  PROVE  Apply(b, quantity, distance) \in Working
<1>1. bar.close \in Nat
  BY BridgeAssumption
<1>2. CASE position.size # 0
  BY <1>1, <1>2, CloseOutType DEF Apply
<1>3. CASE position.size = 0
  <2> DEFINE e == [side |-> IF quantity > 0 THEN "long" ELSE "short", time |-> i,
                   price |-> bar.close, size |-> Magnitude(quantity)]
             q == b.submitted \o <<Market(quantity)>> \o BarrierOrders(quantity, distance)
  <2>1. e \in EntryType
    <3>1. Magnitude(quantity) \in Nat \ {0} /\ i \in Times
      BY <1>3, BridgeAssumption DEF Magnitude, Times
    <3>2. QED BY <1>1, <3>1 DEF EntryType
  <2>2. q \in Seq(OrderType)
    <3>1. b.submitted \in Seq(OrderType)
      BY DEF Working
    <3>2. Market(quantity) \in OrderType
      BY <1>1, MarketType
    <3>3. BarrierOrders(quantity, distance) \in Seq(OrderType)
      BY BarrierOrdersType
    <3>4. QED BY <3>1, <3>2, <3>3
  <2>3. Barriers(bar.close, distance) \in ScanType
    BY <1>1, ScanTypes
  <2>4. \A entered \in EntryType, queue \in Seq(OrderType), scan \in ScanType :
          [b EXCEPT !.entry = entered, !.submitted = queue, !.label = scan] \in Working
    BY DEF Working
  <2>5. Apply(b, quantity, distance) =
          [b EXCEPT !.entry = e, !.submitted = q, !.label = Barriers(bar.close, distance)]
    BY <1>3 DEF Apply
  <2> DEFINE scan == Barriers(bar.close, distance)
  <2> HIDE DEF e, q, scan
  <2>6. [b EXCEPT !.entry = e, !.submitted = q, !.label = scan] \in Working
    BY <2>1, <2>2, <2>3, <2>4 DEF scan
  <2>7. QED BY <2>5, <2>6 DEF scan
<1>4. QED BY <1>2, <1>3 DEF PositionType

LEMMA DecideType ==
  ASSUME TypeOK, bar.close \in Prices, i \in 0 .. Bars - 1,
         NEW quantities \in SUBSET Int, position.size = 0 => 0 \notin quantities,
         NEW distance \in Nat, PricesLie(distance), Decide(quantities, distance)
  PROVE  /\ pending' \in Seq(OrderType) /\ submitted' \in Seq(OrderType)
         /\ entry' \in EntryType /\ pendingExit' \in ExitType /\ label' \in ScanType
<1> DEFINE b0 == [pending |-> pending, submitted |-> submitted, entry |-> entry,
                  pendingExit |-> pendingExit, label |-> label]
           b1 == IF quantities = {} THEN b0
                 ELSE Apply(b0, CHOOSE q \in quantities : TRUE, distance)
           b2 == IF MustClose(b1) THEN CloseOut(b1) ELSE b1
<1>1. b0 \in Working
  BY DEF TypeOK, Working
<1>2. bar.close \in Nat /\ position \in PositionType
  BY BridgeAssumption DEF TypeOK
<1>3. b1 \in Working
  <2>1. quantities # {} => (CHOOSE q \in quantities : TRUE) \in quantities
    OBVIOUS
  <2> HIDE DEF b0
  <2>2. QED BY <1>1, <1>2, <2>1, ApplyType
<1>4. b2 \in Working
  <2> HIDE DEF b1
  <2>1. QED BY <1>2, <1>3, CloseOutType
<1>5. /\ pending' = b2.pending /\ submitted' = b2.submitted /\ entry' = b2.entry
      /\ pendingExit' = b2.pendingExit
      /\ label' = IF b2.entry = NoEntry THEN NoScan ELSE b2.label
  BY DEF Decide
<1> HIDE DEF b2
<1>6. QED BY <1>4, <1>5, ScanTypes DEF Working

LEMMA TypeInit == Init => TypeOK /\ BarKnown
<1> SUFFICES ASSUME Init PROVE TypeOK /\ BarKnown
  OBVIOUS
<1>1. InitialCapital * Leverage \in Int /\ Flat \in PositionType
  BY BrokerAssumption, Products DEF Flat, PositionType
<1>2. /\ <<>> \in Seq(OrderType) /\ <<>> \in Seq(Notification)
      /\ Bar(0, [low |-> 0, close |-> 0, high |-> 0])
           \in [open : Nat, low : Nat, close : Nat, high : Nat]
  BY DEF Bar
<1>3. -1 \in -1 .. Bars /\ 0 \in Int /\ 0 \in Nat /\ -1 < Bars
  BY BridgeAssumption
<1>4. BarKnown
  BY <1>3 DEF Init, BarKnown
<1>5. /\ cash = InitialCapital * Leverage /\ position = Flat /\ submitted = <<>> /\ pending = <<>>
      /\ todo = <<>> /\ notifs = <<>> /\ phase = "feed" /\ i = -1
      /\ bar = Bar(0, [low |-> 0, close |-> 0, high |-> 0])
      /\ weekEnd = FALSE /\ weekStart = FALSE /\ entry = NoEntry /\ pendingExit = NoExit
      /\ trade = NoTrade /\ net = 0 /\ last = NoRecord /\ rejected = 0 /\ label = NoScan
  BY DEF Init, BrokerInit
<1>6. TypeOK
  BY <1>1, <1>2, <1>3, <1>5, NoneTypes, NoTradeType, ScanTypes DEF TypeOK
<1>7. QED BY <1>4, <1>6

\* The feed.
LEMMA AdvanceType ==
  ASSUME TypeOK, BarKnown, Advance
  PROVE  TypeOK' /\ BarKnown'
<1>1. i \in -1 .. Bars - 1 /\ i' = i + 1 /\ i' \in 0 .. Bars
  BY BridgeAssumption DEF TypeOK, BarKnown, Advance
<1>2. /\ bar' \in [open : Nat, low : Nat, close : Nat, high : Nat]
      /\ bar'.close \in Prices
      /\ bar'.low <= bar'.open /\ bar'.open <= bar'.high
      /\ bar'.low <= bar'.close /\ bar'.close <= bar'.high
      /\ weekEnd' \in BOOLEAN
  <2>1. CASE i' = Bars
    <3>1. i >= 0
      BY <1>1, <2>1, BridgeAssumption
    <3>2. QED BY <2>1, <3>1 DEF Advance, TypeOK, BarKnown
  <2>2. CASE i' # Bars
    <3>1. PICK k \in Candle : bar' = Bar(IF i' = 0 THEN k.close ELSE OpenAfter(bar.close, k), k)
      BY <2>2 DEF Advance
    <3>2. /\ k.low \in Prices /\ k.close \in Prices /\ k.high \in Prices
          /\ k.low <= k.close /\ k.close <= k.high
      BY DEF Candle, Candles
    <3>3. k.low \in Nat /\ k.close \in Nat /\ k.high \in Nat /\ bar.close \in Nat
      BY <3>2, BridgeAssumption DEF TypeOK
    <3> DEFINE open == IF i' = 0 THEN k.close ELSE OpenAfter(bar.close, k)
    <3>4. open \in Nat /\ k.low <= open /\ open <= k.high
      BY <3>2, <3>3 DEF OpenAfter
    <3> HIDE DEF open
    <3>5. bar' = [open |-> open, low |-> k.low, close |-> k.close, high |-> k.high]
      BY <3>1 DEF Bar, open
    <3>6. weekEnd' \in BOOLEAN
      BY <2>2 DEF Advance
    <3>7. QED BY <3>2, <3>3, <3>4, <3>5, <3>6
  <2>3. QED BY <2>1, <2>2
<1>3. weekStart' \in BOOLEAN
  BY <1>1 DEF Advance, TypeOK
<1>4. label' \in ScanType
  BY ScanTypes DEF Advance, TypeOK
<1>5. phase' = "broker" /\ UNCHANGED <<brokerVars, bridgeVars>>
  BY DEF Advance
<1>6. QED BY <1>1, <1>2, <1>3, <1>4, <1>5 DEF TypeOK, BarKnown, brokerVars, bridgeVars

LEMMA CheckType ==
  ASSUME TypeOK, CheckSubmitted
  PROVE  /\ todo' \in Seq(OrderType) /\ pending' \in Seq(OrderType)
         /\ submitted' \in Seq(OrderType) /\ notifs' \in Seq(Notification)
<1> DEFINE base == [cash |-> cash, position |-> position, pending |-> pending, notifs |-> notifs]
           s == Fold(CheckOne, base, submitted)
<1>1. base \in Trial /\ submitted \in Seq(OrderType)
  BY DEF TypeOK, Trial
<1>2. s \in Trial
  <2> HIDE DEF base
  <2>1. QED BY <1>1, CheckOneType, FoldType
<1>3. todo' = s.pending /\ pending' = <<>> /\ submitted' = <<>> /\ notifs' = s.notifs
  BY DEF CheckSubmitted
<1> HIDE DEF s
<1>4. <<>> \in Seq(OrderType)
  OBVIOUS
<1>5. QED BY <1>2, <1>3, <1>4 DEF Trial

LEMMA PassType ==
  ASSUME TypeOK, BarKnown, Pass
  PROVE  TypeOK' /\ BarKnown'
<1> DEFINE order == Head(todo)
<1>1. todo # <<>> /\ todo \in Seq(OrderType) /\ pending \in Seq(OrderType)
  BY DEF Pass, TryOrder, TypeOK
<1>2. order \in OrderType /\ order.size \in Int
  <2>1. order \in OrderType
    BY <1>1
  <2>2. QED BY <2>1 DEF OrderType
<1>3. /\ cash' \in Int /\ position' \in PositionType /\ notifs' \in Seq(Notification)
      /\ todo' \in Seq(OrderType) /\ pending' \in Seq(OrderType) /\ submitted' = submitted
  <2>1. CASE \E price \in FillPrices(order) : Execute(order, price)
    <3>1. PICK price \in FillPrices(order) : Execute(order, price)
      BY <2>1
    <3>2. price \in Nat
      BY <1>2, FillPricesType
    <3>3. submitted' = submitted
      BY <3>1 DEF Execute
    <3> HIDE DEF order
    <3>4. QED BY <1>1, <1>2, <3>1, <3>2, <3>3, ExecuteType
  <2>2. CASE /\ todo' = Tail(todo) /\ pending' = Append(pending, order)
             /\ UNCHANGED <<cash, position, submitted, notifs>>
    <3>1. todo' \in Seq(OrderType) /\ pending' \in Seq(OrderType)
      BY <1>1, <1>2, <2>2
    <3>2. QED BY <2>2, <3>1 DEF TypeOK
  <2>3. QED BY <2>1, <2>2 DEF Pass, TryOrder
<1>4. UNCHANGED <<bar, phase, i, weekEnd, weekStart, bridgeVars, label>>
  BY DEF Pass
<1>5. QED BY <1>3, <1>4 DEF TypeOK, BarKnown, bridgeVars

LEMMA NotifyType ==
  ASSUME TypeOK, BarKnown, Notify
  PROVE  TypeOK' /\ BarKnown'
<1> DEFINE base == [trade |-> trade, closed |-> <<>>, refused |-> 0]
           books == Fold(AddNotification, base, notifs)
           start == [entry |-> NotifyOrder(books.refused).entry, pendingExit |-> pendingExit,
                     net |-> net, last |-> last]
           told == Fold(NotifyTrade, start, books.closed)
<1>1. base \in Books /\ notifs \in Seq(Notification)
  BY DEF TypeOK, Books
<1>2. books \in Books
  <2> HIDE DEF base
  <2>1. QED BY <1>1, AddNotificationType, FoldType
<1> HIDE DEF books
<1>3. start \in Round /\ books.closed \in Seq(TradeType)
  BY <1>2, NoneTypes DEF TypeOK, Round, Books, NotifyOrder
<1>4. told \in Round
  <2> HIDE DEF start
  <2>1. QED BY <1>3, NotifyTradeType, FoldType
<1>5. NotifyOrder(books.refused).rejected \in Nat
  BY <1>2 DEF NotifyOrder, Books, TypeOK
<1>6. /\ trade' = books.trade /\ entry' = told.entry /\ pendingExit' = told.pendingExit
      /\ net' = told.net /\ last' = told.last /\ rejected' = NotifyOrder(books.refused).rejected
      /\ notifs' = <<>> /\ phase = "pass" /\ phase' = "next"
      /\ UNCHANGED <<cash, position, submitted, pending, todo, bar, i, weekEnd, weekStart, label>>
  BY DEF Notify, books
<1> HIDE DEF told
<1>7. <<>> \in Seq(Notification)
  OBVIOUS
<1>8. QED BY <1>2, <1>4, <1>5, <1>6, <1>7 DEF TypeOK, BarKnown, Books, Round

\* What the strategy decides is nothing, or an order the risk manager lets through.
LEMMA Decided ==
  ASSUME TypeOK, NextBar, i \in 0 .. Bars - 1, bar.close \in Prices
  PROVE  \E quantities \in SUBSET Int, distance \in Nat :
           /\ Decide(quantities, distance)
           /\ position.size = 0 => 0 \notin quantities
           /\ PricesLie(distance)
<1>0. position \in PositionType
  BY DEF TypeOK
<1>1. CASE Decide({}, 0)
  <2>1. PricesLie(0)
    BY BridgeAssumption DEF PricesLie
  <2>2. {} \in SUBSET Int /\ 0 \in Nat /\ 0 \notin {}
    OBVIOUS
  <2>3. QED BY <1>1, <2>1, <2>2
<1>2. CASE \E s \in Signals : Decide(Quantities(s.action), s.distance)
  <2>1. PICK s \in Signals : Decide(Quantities(s.action), s.distance)
    BY <1>2
  <2>2. s.action \in Actions /\ s.distance \in Nat /\ PricesLie(s.distance)
    BY BridgeAssumption DEF PricesLie
  <2>3. Quantities(s.action) \in SUBSET Int
    BY <1>0, <2>2, QuantitiesOf
  <2>4. position.size = 0 => 0 \notin Quantities(s.action)
    BY <1>0, <2>2, QuantitiesOf, LimitsAssumption DEF Actions
  <2>5. QED BY <2>1, <2>2, <2>3, <2>4
<1>3. QED BY <1>1, <1>2 DEF NextBar, Quantities

LEMMA NextBarType ==
  ASSUME TypeOK, BarKnown, NextBar
  PROVE  TypeOK' /\ BarKnown'
<1>1. i \in 0 .. Bars - 1 /\ bar.close \in Prices /\ position \in PositionType
  BY BridgeAssumption DEF NextBar, TypeOK, BarKnown
<1>2. PICK quantities \in SUBSET Int, distance \in Nat :
        /\ Decide(quantities, distance)
        /\ position.size = 0 => 0 \notin quantities
        /\ PricesLie(distance)
  BY <1>1, Decided
<1>3. /\ pending' \in Seq(OrderType) /\ submitted' \in Seq(OrderType)
      /\ entry' \in EntryType /\ pendingExit' \in ExitType /\ label' \in ScanType
  BY <1>1, <1>2, DecideType
<1>4. /\ phase' = "feed" /\ i < Bars
      /\ UNCHANGED <<cash, position, todo, notifs, bar, i, weekEnd, weekStart,
                     trade, net, last, rejected>>
  BY DEF NextBar
<1>5. QED BY <1>1, <1>3, <1>4 DEF TypeOK, BarKnown

LEMMA TypeNext == TypeOK /\ BarKnown /\ [Next]_vars => TypeOK' /\ BarKnown'
<1> SUFFICES ASSUME TypeOK, BarKnown, [Next]_vars PROVE TypeOK' /\ BarKnown'
  OBVIOUS
<1>1. ASSUME Broker PROVE TypeOK' /\ BarKnown'
  <2>1. /\ phase = "broker" /\ phase' = "pass" /\ CheckSubmitted
        /\ UNCHANGED <<cash, position, bar, i, weekEnd, weekStart, bridgeVars, label>>
    BY <1>1 DEF Broker, CheckSubmitted
  <2>2. QED BY <2>1, CheckType DEF TypeOK, BarKnown, bridgeVars
<1>2. ASSUME Phantom PROVE TypeOK' /\ BarKnown'
  BY <1>2 DEF Phantom, TypeOK, BarKnown, brokerVars, bridgeVars
<1>3. ASSUME UNCHANGED vars PROVE TypeOK' /\ BarKnown'
  BY <1>3 DEF vars, TypeOK, BarKnown, brokerVars, bridgeVars
<1>4. QED BY <1>1, <1>2, <1>3, AdvanceType, PassType, NotifyType, NextBarType DEF Next, Finished

\* Whatever the strategy answers and whatever is refused, the books of the bridge, the
\* position and the queues of the broker keep their types: no fill, cancellation or
\* notification is recorded at a price or a time that is none.
THEOREM TypeCorrect == Spec => []TypeOK
<1>1. Spec => [](TypeOK /\ BarKnown)
  BY TypeInit, TypeNext, PTL DEF Spec
<1>2. QED BY <1>1, PTL

-----------------------------------------------------------------------------
(* A backtest without refusal *)

\* What the entry asked for: its size, signed, the position and the trade it makes.
Size == IF entry.side = "long" THEN entry.size ELSE -entry.size
HeldPosition == [size |-> Size, price |-> entry.price]
HeldTrade == [size |-> Size, price |-> entry.price, pnl |-> 0, commission |-> Commission(Size)]

\* Its orders.
StopPrice  == IF entry.side = "long" THEN label.lower ELSE label.upper
LimitPrice == IF entry.side = "long" THEN label.upper ELSE label.lower
EntryOrder == Order("Market", Size, entry.price, NoGroup)
StopOrder  == Order("Stop", -Size, StopPrice, entry.time + 1)
LimitOrder == Order("Limit", -Size, LimitPrice, entry.time + 1)
ExitOrder  == Order("Market", -Size, pendingExit.price, NoGroup)
Bounded == label.upper # label.close
Guards == IF Bounded THEN <<StopOrder, LimitOrder>> ELSE <<>>
EntryOrders == IF Bounded THEN <<EntryOrder, StopOrder, LimitOrder>> ELSE <<EntryOrder>>

OpenFill == [kind |-> "Fill", opened |-> Size, closed |-> 0, price |-> entry.price]
CloseFill(price) == [kind |-> "Fill", opened |-> 0, closed |-> -Size, price |-> price]

\* The money: with no position open, with one, and after it closed at a price but
\* before the bridge recorded it.
Funds == (InitialCapital + net) * Leverage
HeldCash == Funds - OpenCash(Size, entry.price)
Result(price) == Size * (price - entry.price) - (Commission(Size) + Commission(Size))
LeftCash(price) == Funds + Result(price) * Leverage

Queues(subs, pend, todos, nots) ==
  submitted = subs /\ pending = pend /\ todo = todos /\ notifs = nots
NoQueues == Queues(<<>>, <<>>, <<>>, <<>>)

Vacant == entry = NoEntry /\ pendingExit = NoExit /\ position = Flat /\ trade = NoTrade /\ cash = Funds
Awaited(n) == /\ entry # NoEntry /\ entry.time = n /\ pendingExit = NoExit
              /\ position = Flat /\ trade = NoTrade /\ cash = Funds
Opened(n) == /\ entry # NoEntry /\ entry.time = n /\ pendingExit = NoExit
             /\ position = HeldPosition /\ trade = NoTrade /\ cash = HeldCash
Held(n) == /\ entry # NoEntry /\ entry.time < n /\ pendingExit = NoExit
           /\ position = HeldPosition /\ trade = HeldTrade /\ cash = HeldCash
Leaving(n) == /\ entry # NoEntry /\ entry.time < n /\ pendingExit # NoExit /\ pendingExit.time = n
              /\ position = HeldPosition /\ trade = HeldTrade /\ cash = HeldCash

\* Between two bars, the bridge having decided on bar n.
Between(n) ==
  \/ Vacant /\ label = NoScan /\ NoQueues
  \/ Awaited(n) /\ Queues(EntryOrders, <<>>, <<>>, <<>>)
  \/ Held(n) /\ Queues(<<>>, Guards, <<>>, <<>>)
  \/ Leaving(n) /\ Queues(<<ExitOrder>>, <<>>, <<>>, <<>>)

\* The barriers that were tried on this bar were not reached.
Guarding(nots) ==
  \/ Queues(<<>>, <<>>, Guards, nots)
  \/ Bounded /\ FillPrices(StopOrder) = {} /\ Queues(<<>>, <<StopOrder>>, <<LimitOrder>>, nots)
  \/ Bounded /\ FillPrices(StopOrder) = {} /\ FillPrices(LimitOrder) = {} /\ Queues(<<>>, Guards, <<>>, nots)

\* A position closed on a barrier is closed at a price of the bar, and is what the
\* label says of its entry.
Stopped == i < Bars /\ label.barrier \in {"tp", "sl"}
Traded(price) == bar.low <= price /\ price <= bar.high
Outcome(price) ==
  /\ Traded(price)
  /\ Stopped =>
    /\ ~(Torn /\ entry.side = "short") => OnLabelledBarrier(price)
    /\ Torn => label.label = 0 /\ Size * (price - entry.price) < 0

Over(price) ==
  /\ entry # NoEntry /\ position = Flat /\ cash = LeftCash(price)
  /\ \/ entry.time < i - 1 /\ trade = HeldTrade /\ Queues(<<>>, <<>>, <<>>, <<CloseFill(price)>>)
     \/ /\ entry.time = i - 1 /\ trade = NoTrade /\ pendingExit = NoExit
        /\ Queues(<<>>, <<>>, <<>>, <<OpenFill, CloseFill(price)>>)
  /\ \/ pendingExit = NoExit /\ Bounded /\ Outcome(price)
     \/ pendingExit # NoExit /\ pendingExit.time = i - 1 /\ pendingExit.price = price

Passing ==
  \/ Vacant /\ label = NoScan /\ NoQueues
  \/ Awaited(i - 1) /\ Queues(<<>>, <<>>, EntryOrders, <<>>)
  \/ Opened(i - 1) /\ Guarding(<<OpenFill>>)
  \/ Held(i - 1) /\ Guarding(<<>>)
  \/ Leaving(i - 1) /\ Queues(<<>>, <<>>, <<ExitOrder>>, <<>>)
  \/ \E price \in Nat : Over(price)

Resting ==
  \/ Vacant /\ NoQueues
  \/ Held(i) /\ Queues(<<>>, Guards, <<>>, <<>>)

Shape ==
  /\ phase = "feed" => Between(i)
  /\ phase = "broker" => Between(i - 1)
  /\ phase = "pass" => Passing
  /\ phase \in {"next", "done"} => Resting

\* A week that ends, and the history, leave no position but one just entered.
Closing == IF phase = "feed" THEN weekEnd \/ i = Bars - 1 ELSE weekStart \/ i = Bars
InTime ==
  position.size # 0 /\ pendingExit = NoExit /\ Closing =>
    entry.time = IF phase = "feed" THEN i ELSE i - 1

\* The exit to come is noted at the close it was decided on.
ExitNoted == phase = "feed" /\ pendingExit # NoExit => pendingExit.price = bar.close

\* The label is of the entry, and scanned up to this bar.
LabelFits ==
  entry # NoEntry =>
    /\ entry.time >= 0
    /\ label.close = entry.price
    /\ \E s \in Signals : /\ s.action \in Entries
                          /\ label.upper = label.close + s.distance
                          /\ label.lower = label.close - s.distance
    /\ label.barrier \in {"open", "tp", "sl", "time"}
    /\ phase = "feed" /\ Bounded => label.barrier \in {"open", "time"}
    /\ phase \in {"broker", "pass"} /\ i < Bars /\ Bounded =>
         /\ label.barrier = "sl" => label.label = 0 /\ bar.low <= label.lower
         /\ label.barrier = "tp" => label.label = 1 /\ bar.low > label.lower /\ bar.high >= label.upper
         /\ label.barrier = "open" => bar.low > label.lower /\ bar.high < label.upper
    /\ phase = "next" /\ i < Bars /\ Bounded => label.barrier \in {"open", "time"}

\* The latest record is explained, and on the bar it ends it has the outcome of
\* its label.
LastExplained ==
  last # NoRecord =>
    /\ last.gross = (IF last.side = "long" THEN last.exitPrice - last.entryPrice
                                           ELSE last.entryPrice - last.exitPrice) * last.size
    /\ last.cost = 2 * Cost * last.size
    /\ last.entryTime <= last.exitTime
    /\ last.exitTime <= i
    /\ phase \in {"broker", "pass"} => last.exitTime < i
    /\ phase = "next" /\ last.exitTime = i => Traded(last.exitPrice)
LastOutcome ==
  JustStopped =>
    /\ ~(Torn /\ last.side = "short") => OnLabelledBarrier(last.exitPrice)
    /\ Torn => label.label = 0 /\ last.gross < 0

DoneAtEnd == phase = "done" => i = Bars

Clean == Shape /\ InTime /\ ExitNoted /\ LabelFits /\ LastExplained /\ LastOutcome /\ DoneAtEnd
QuietInv == Quiet => Clean

-----------------------------------------------------------------------------
(* Opening and closing whole positions *)

LEMMA SizeFacts ==
  ASSUME TypeOK, entry # NoEntry
  PROVE  /\ Size \in Int /\ Size # 0 /\ -Size \in Int /\ Magnitude(Size) = entry.size
         /\ entry.side \in {"long", "short"} /\ (entry.side = "long" <=> Size > 0)
         /\ entry.size \in Nat \ {0} /\ entry.price \in Nat /\ entry.time \in Times
<1>1. /\ entry.side \in {"long", "short"} /\ entry.size \in Nat \ {0}
      /\ entry.price \in Nat /\ entry.time \in Times
  BY EntryFields DEF TypeOK
<1>2. QED BY <1>1 DEF Size, Magnitude

LEMMA Opening ==
  ASSUME NEW q \in Int, q # 0, NEW price \in Nat
  PROVE  Update(Flat, q, price) = [size |-> q, price |-> price, opened |-> q, closed |-> 0]
<1>1. Flat.size = 0 /\ Flat.price = 0
  BY DEF Flat
<1>2. 0 + q = q /\ q - q = 0
  OBVIOUS
<1>3. QED BY <1>1, <1>2 DEF Update

LEMMA Closure ==
  ASSUME NEW q \in Int, q # 0, NEW p, NEW price
  PROVE  Update([size |-> q, price |-> p], -q, price)
           = [size |-> 0, price |-> 0, opened |-> 0, closed |-> -q]
<1> DEFINE pos == [size |-> q, price |-> p]
<1>1. pos.size = q /\ q + (-q) = 0 /\ (-q) - 0 = -q /\ ~((q > 0) = (-q > 0))
  OBVIOUS
<1> HIDE DEF pos
<1>2. Update(pos, -q, price) = [size |-> 0, price |-> 0, opened |-> 0, closed |-> -q]
  BY <1>1 DEF Update
<1>3. QED BY <1>2 DEF pos

LEMMA Distribute ==
  ASSUME NEW a \in Int, NEW b \in Int, NEW c \in Int
  PROVE  (a + b) * c = a * c + b * c /\ (a - b) * c = a * c - b * c
OBVIOUS

LEMMA SameCommission ==
  ASSUME NEW q \in Int
  PROVE  Commission(-q) = Commission(q)
BY DEF Commission, Magnitude

\* Opening a position of q at p and closing it at a price earns the difference, less
\* the commission of both sides, with any leverage.
LEMMA RoundTrip ==
  ASSUME NEW q \in Int, q # 0, NEW p \in Nat, NEW price \in Nat, NEW funds \in Int
  PROVE  (funds - OpenCash(q, p)) + CloseCash(-q, p, q * (price - p))
           = funds + (q * (price - p) - (Commission(q) + Commission(q))) * Leverage
<1> DEFINE gain == q * (price - p)
           cost == Commission(q)
           frozen == Levered(q * p)
<1>1. gain \in Int
  <2>1. price - p \in Int
    OBVIOUS
  <2>2. QED BY <2>1, Products
<1>2. cost \in Int /\ frozen \in Int /\ Leverage \in Int
  BY CommissionType, LeveredType, Products, BrokerAssumption
<1>3. OpenCash(q, p) = frozen + cost * Leverage
  BY DEF OpenCash
<1>4. CloseCash(-q, p, gain) = frozen + (gain - cost) * Leverage
  <2>1. -q # 0 /\ -(-q) = q
    OBVIOUS
  <2>2. CloseCash(-q, p, gain) = Levered(-(-q) * p) + (gain - Commission(-q)) * Leverage
    BY <2>1 DEF CloseCash
  <2>3. QED BY <2>1, <2>2, SameCommission
<1> HIDE DEF gain, cost, frozen
<1>5. (gain - cost) * Leverage = gain * Leverage - cost * Leverage
  BY <1>1, <1>2, Distribute
<1>6. (gain - (cost + cost)) * Leverage = gain * Leverage - (cost * Leverage + cost * Leverage)
  <2>1. (cost + cost) * Leverage = cost * Leverage + cost * Leverage
    BY <1>2, Distribute
  <2>2. cost + cost \in Int
    BY <1>2
  <2>3. QED BY <1>1, <1>2, <2>1, <2>2, Distribute
<1>7. gain * Leverage \in Int /\ cost * Leverage \in Int
  BY <1>1, <1>2, Products
<1>8. (funds - OpenCash(q, p)) + CloseCash(-q, p, gain)
        = funds + (gain - (cost + cost)) * Leverage
  BY <1>2, <1>3, <1>4, <1>5, <1>6, <1>7
<1>9. QED BY <1>8 DEF gain, cost

\* A refusal is heard.
LEMMA RefusalEnds ==
  ASSUME notifs \in Seq(Notification),
         NEW f, f \in Notification, notifs' \in {notifs \o <<>> \o <<Refusal>>, notifs \o <<f>> \o <<Refusal>>}
  PROVE  ~Quiet'
<1>1. Refusal \in Notification /\ Refusal.kind = "Margin"
  BY DEF Refusal, Notification
<1>2. ASSUME NEW s \in Seq(Notification), notifs' = s \o <<Refusal>> PROVE ~Quiet'
  <2>1. Len(notifs') \in DOMAIN notifs' /\ notifs'[Len(notifs')] = Refusal
    BY <1>1, <1>2
  <2>2. QED BY <1>1, <2>1 DEF Quiet
<1>3. notifs \o <<>> \in Seq(Notification) /\ notifs \o <<f>> \in Seq(Notification)
  OBVIOUS
<1>4. QED BY <1>2, <1>3

\* What a step of the broker does with an order, when nothing is refused.
LEMMA ExecuteIs ==
  ASSUME TypeOK, NEW order, NEW price \in Nat, order.size \in Int, Execute(order, price), Quiet',
         NEW u, u = Update(position, order.size, price), u.opened + u.closed # 0
  PROVE  /\ cash' = (cash + CloseCash(u.closed, position.price,
                                      ProfitAndLoss(-u.closed, position.price, price)))
                      - OpenCash(u.opened, price)
         /\ position' = PositionOf(u)
         /\ notifs' = Append(notifs, Filling(u, price))
         /\ todo' = WithoutSiblings(Tail(todo), order)
         /\ pending' = WithoutSiblings(pending, order)
         /\ submitted' = submitted
<1> DEFINE pnl == ProfitAndLoss(-u.closed, position.price, price)
           closed == cash + CloseCash(u.closed, position.price, pnl)
           refused == u.opened # 0 /\ closed - OpenCash(u.opened, price) < 0
           r == Update(position, u.closed, price)
           done == IF refused THEN [r EXCEPT !.opened = 0] ELSE u
           executes == done.opened + done.closed # 0
<1>1. /\ cash' = IF refused THEN closed ELSE closed - OpenCash(u.opened, price)
      /\ position' = IF executes THEN PositionOf(done) ELSE position
      /\ notifs' = notifs \o (IF executes THEN <<Filling(done, price)>> ELSE <<>>)
                          \o (IF refused THEN <<Refusal>> ELSE <<>>)
      /\ todo' = WithoutSiblings(Tail(todo), order)
      /\ pending' = WithoutSiblings(pending, order)
      /\ submitted' = submitted
  BY DEF Execute
<1>2. notifs \in Seq(Notification) /\ position \in PositionType
  BY DEF TypeOK
<1>3. /\ u.opened \in Int /\ u.closed \in Int
  BY <1>2, UpdateType
<1>4. r.opened \in Int /\ r.closed \in Int
  <2>1. QED BY <1>2, <1>3, UpdateType
<1>5. /\ [r EXCEPT !.opened = 0].closed = r.closed /\ [r EXCEPT !.opened = 0].opened = 0
  BY DEF Update
<1> HIDE DEF pnl, closed, refused, r
<1>6. done.opened \in Int /\ done.closed \in Int
  BY <1>3, <1>4, <1>5
<1> HIDE DEF done
<1>7. Filling(done, price) \in Notification
  BY <1>6 DEF Filling, Notification
<1>8. ~refused
  <2>1. refused => notifs' \in {notifs \o <<>> \o <<Refusal>>, notifs \o <<Filling(done, price)>> \o <<Refusal>>}
    BY <1>1
  <2>2. QED BY <1>2, <1>7, <2>1, RefusalEnds
<1>9. done = u /\ executes
  BY <1>8 DEF done
<1>10. notifs' = notifs \o <<Filling(u, price)>> \o <<>>
  BY <1>1, <1>8, <1>9
<1>11. notifs' = Append(notifs, Filling(u, price))
  BY <1>2, <1>7, <1>9, <1>10
<1>12. QED BY <1>1, <1>8, <1>9, <1>11 DEF closed, pnl

\* An order that opens a position.
LEMMA ExecuteOpens ==
  ASSUME TypeOK, position = Flat, NEW order, NEW price \in Nat, order.size \in Int, order.size # 0,
         Execute(order, price), Quiet'
  PROVE  /\ position' = [size |-> order.size, price |-> price]
         /\ cash' = cash - OpenCash(order.size, price)
         /\ notifs' = Append(notifs, [kind |-> "Fill", opened |-> order.size, closed |-> 0,
                                      price |-> price])
         /\ todo' = WithoutSiblings(Tail(todo), order)
         /\ pending' = WithoutSiblings(pending, order)
         /\ submitted' = submitted
<1> DEFINE q == order.size
           u == Update(position, q, price)
<1>1. u = [size |-> q, price |-> price, opened |-> q, closed |-> 0]
  BY Opening
<1>2. /\ u.opened = q /\ u.closed = 0 /\ u.opened + u.closed # 0
      /\ PositionOf(u) = [size |-> q, price |-> price]
      /\ Filling(u, price) = [kind |-> "Fill", opened |-> q, closed |-> 0, price |-> price]
  BY <1>1 DEF PositionOf, Filling
<1> HIDE DEF u
<1>3. cash' = (cash + CloseCash(u.closed, position.price, ProfitAndLoss(-u.closed, position.price, price)))
                - OpenCash(u.opened, price)
  BY <1>2, ExecuteIs DEF u
<1>4. CloseCash(u.closed, position.price, ProfitAndLoss(-u.closed, position.price, price)) = 0
  BY <1>2 DEF CloseCash
<1>5. cash' = cash - OpenCash(q, price)
  BY <1>2, <1>3, <1>4 DEF TypeOK
<1>6. QED BY <1>2, <1>5, ExecuteIs DEF u

\* An order that closes the position.
LEMMA ExecuteCloses ==
  ASSUME TypeOK, NEW q \in Int, q # 0, NEW p \in Nat, position = [size |-> q, price |-> p],
         NEW order, NEW price \in Nat, order.size = -q, Execute(order, price), Quiet'
  PROVE  /\ position' = Flat
         /\ cash' = cash + CloseCash(-q, p, q * (price - p))
         /\ notifs' = Append(notifs, [kind |-> "Fill", opened |-> 0, closed |-> -q, price |-> price])
         /\ todo' = WithoutSiblings(Tail(todo), order)
         /\ pending' = WithoutSiblings(pending, order)
         /\ submitted' = submitted
<1> DEFINE u == Update(position, order.size, price)
<1>1. u = [size |-> 0, price |-> 0, opened |-> 0, closed |-> -q]
  BY Closure
<1>2. /\ u.opened = 0 /\ u.closed = -q /\ u.opened + u.closed # 0
      /\ PositionOf(u) = Flat
      /\ Filling(u, price) = [kind |-> "Fill", opened |-> 0, closed |-> -q, price |-> price]
  BY <1>1 DEF PositionOf, Filling, Flat
<1> HIDE DEF u
<1>3. cash' = (cash + CloseCash(u.closed, position.price, ProfitAndLoss(-u.closed, position.price, price)))
                - OpenCash(u.opened, price)
  <2>1. order.size \in Int
    OBVIOUS
  <2>2. QED BY <1>2, <2>1, ExecuteIs DEF u
<1>4. ProfitAndLoss(-u.closed, position.price, price) = q * (price - p)
  <2>1. -u.closed = q /\ position.price = p
    BY <1>2
  <2>2. QED BY <2>1 DEF ProfitAndLoss
<1>5. OpenCash(u.opened, price) = 0
  BY <1>2 DEF OpenCash
<1>6. CloseCash(-q, p, q * (price - p)) \in Int
  <2>1. price - p \in Int /\ -q \in Int /\ p \in Int
    OBVIOUS
  <2>2. q * (price - p) \in Int
    BY <2>1, Products
  <2>3. QED BY <2>1, <2>2, CloseCashType
<1>7. cash' = cash + CloseCash(-q, p, q * (price - p))
  <2>1. position.price = p /\ cash \in Int
    BY DEF TypeOK
  <2>2. QED BY <1>2, <1>3, <1>4, <1>5, <1>6, <2>1
<1>8. order.size \in Int
  OBVIOUS
<1>9. QED BY <1>2, <1>7, <1>8, ExecuteIs DEF u

-----------------------------------------------------------------------------
(* Quiet so far *)

AllFills(nots) == \A k \in DOMAIN nots : nots[k].kind = "Fill"

\* What a notification adds to the number of refusals.
LEMMA Reduction ==
  ASSUME NEW s \in Books, NEW n \in Notification
  PROVE  /\ n.kind = "Margin" => AddNotification[s][n].refused = s.refused + 1
         /\ n.kind # "Margin" => AddNotification[s][n].refused = s.refused
<1> DEFINE reduced == IF n.closed = 0 THEN s.trade ELSE Booked(s.trade, n.closed, n.price)
           closes == s.trade.size # 0 /\ reduced.size = 0
           base == IF closes THEN NoTrade ELSE reduced
           after == IF n.opened = 0 THEN base ELSE Booked(base, n.opened, n.price)
           queue == IF closes THEN Append(s.closed, reduced) ELSE s.closed
<1>1. AddNotification[s][n] =
        IF n.kind = "Margin" THEN [s EXCEPT !.refused = @ + 1]
        ELSE [s EXCEPT !.trade = after, !.closed = queue]
  BY DEF AddNotification
<1> HIDE DEF after, queue
<1>2. QED BY <1>1 DEF Books

\* Every refusal is counted.
LEMMA RefusalsCounted ==
  ASSUME NEW base \in Books, NEW nots \in Seq(Notification),
         Fold(AddNotification, base, nots).refused = 0
  PROVE  AllFills(nots)
<1> DEFINE m == Len(nots)
<1>1. m \in Nat /\ \A n \in 1 .. m : nots[n] \in Notification
  OBVIOUS
<1>2. PICK f : Fold(AddNotification, base, nots) = f[m] /\ Steps(f, m, AddNotification, base, nots)
  BY <1>1, FoldSteps
<1> DEFINE C == {n \in Nat : n <= m =>
                   f[n] \in Books /\ (f[n].refused = 0 => \A k \in 1 .. n : nots[k].kind = "Fill")}
<1>3. 0 \in C
  BY <1>2 DEF Steps
<1>4. ASSUME NEW n \in Nat, n \in C PROVE n + 1 \in C
  <2> SUFFICES ASSUME n + 1 <= m
               PROVE  /\ f[n + 1] \in Books
                      /\ f[n + 1].refused = 0 => \A k \in 1 .. n + 1 : nots[k].kind = "Fill"
    BY <1>4
  <2> HIDE DEF m
  <2>1. n + 1 \in 1 .. m /\ (n + 1) - 1 = n /\ n <= m
    BY <1>1
  <2>2. f[n + 1] = AddNotification[f[n]][nots[n + 1]]
    BY <1>2, <2>1 DEF Steps
  <2>3. f[n] \in Books /\ (f[n].refused = 0 => \A k \in 1 .. n : nots[k].kind = "Fill")
    BY <1>4, <2>1
  <2>4. f[n + 1] \in Books /\ nots[n + 1] \in Notification
    BY <1>1, <2>1, <2>2, <2>3, AddNotificationType
  <2>5. /\ nots[n + 1].kind = "Margin" => f[n + 1].refused = f[n].refused + 1
        /\ nots[n + 1].kind # "Margin" => f[n + 1].refused = f[n].refused
    BY <2>2, <2>3, <2>4, Reduction
  <2>6. ASSUME f[n + 1].refused = 0 PROVE nots[n + 1].kind = "Fill" /\ f[n].refused = 0
    <3>1. nots[n + 1].kind \in {"Fill", "Margin"} /\ f[n].refused \in Nat
      BY <2>3, <2>4 DEF Notification, Books
    <3>2. QED BY <2>5, <2>6, <3>1
  <2>7. \A k \in 1 .. n + 1 : k \in 1 .. n \/ k = n + 1
    OBVIOUS
  <2>8. QED BY <2>3, <2>4, <2>6, <2>7
<1>5. m \in C
  <2> HIDE DEF C
  <2>1. QED BY <1>1, <1>3, <1>4, FromZeroUp
<1>6. \A k \in 1 .. m : nots[k].kind = "Fill"
  BY <1>1, <1>2, <1>5
<1>7. QED BY <1>6 DEF AllFills

\* An order that is checked is accepted, or its refusal is notified.
LEMMA CheckOneStep ==
  ASSUME NEW s \in Trial, NEW order \in OrderType
  PROVE  \/ /\ CheckOne[s][order].notifs = s.notifs
            /\ CheckOne[s][order].pending = Append(s.pending, order)
         \/ CheckOne[s][order].notifs = Append(s.notifs, Refusal)
<1> DEFINE u == Update(s.position, order.size, order.price)
           left == s.cash + CloseCash(u.closed, order.price, 0) - OpenCash(u.opened, order.price)
           kept == left >= 0
<1>1. CheckOne[s][order] =
        [cash     |-> left,
         position |-> PositionOf(u),
         pending  |-> IF kept THEN Append(s.pending, order) ELSE WithoutSiblings(s.pending, order),
         notifs   |-> IF kept THEN s.notifs ELSE Append(s.notifs, Refusal)]
  BY DEF CheckOne
<1> HIDE DEF kept, u, left
<1>2. QED BY <1>1

\* If none is refused, they all go to the queue the broker tries.
LEMMA AllChecked ==
  ASSUME NEW base \in Trial, NEW orders \in Seq(OrderType),
         AllFills(Fold(CheckOne, base, orders).notifs)
  PROVE  /\ Fold(CheckOne, base, orders).notifs = base.notifs
         /\ Fold(CheckOne, base, orders).pending = base.pending \o orders
<1> DEFINE m == Len(orders)
<1>1. m \in Nat /\ \A n \in 1 .. m : orders[n] \in OrderType
  OBVIOUS
<1>2. PICK f : Fold(CheckOne, base, orders) = f[m] /\ Steps(f, m, CheckOne, base, orders)
  BY <1>1, FoldSteps
<1> DEFINE Kept(n) == /\ f[n].notifs = base.notifs
                      /\ f[n].pending = base.pending \o SubSeq(orders, 1, n)
           C == {n \in Nat : n <= m => f[n] \in Trial /\ (AllFills(f[n].notifs) => Kept(n))}
<1>3. 0 \in C
  <2>1. f[0] = base
    BY <1>2 DEF Steps
  <2>2. base.pending \in Seq(OrderType)
    BY DEF Trial
  <2>3. base.pending \o SubSeq(orders, 1, 0) = base.pending
    BY <2>2
  <2>4. QED BY <2>1, <2>3
<1>4. ASSUME NEW n \in Nat, n \in C PROVE n + 1 \in C
  <2> SUFFICES ASSUME n + 1 <= m
               PROVE  f[n + 1] \in Trial /\ (AllFills(f[n + 1].notifs) => Kept(n + 1))
    BY <1>4
  <2> HIDE DEF m
  <2>1. n + 1 \in 1 .. m /\ (n + 1) - 1 = n /\ n <= m
    BY <1>1
  <2>2. f[n + 1] = CheckOne[f[n]][orders[n + 1]]
    BY <1>2, <2>1 DEF Steps
  <2>3. f[n] \in Trial /\ (AllFills(f[n].notifs) => Kept(n))
    BY <1>4, <2>1
  <2>4. f[n + 1] \in Trial /\ orders[n + 1] \in OrderType
    BY <1>1, <2>1, <2>2, <2>3, CheckOneType
  <2>5. CASE f[n + 1].notifs = Append(f[n].notifs, Refusal)
    <3>1. f[n].notifs \in Seq(Notification)
      BY <2>3 DEF Trial
    <3>2. ~AllFills(f[n + 1].notifs)
      <4>1. /\ Len(f[n].notifs) + 1 \in DOMAIN f[n + 1].notifs
            /\ f[n + 1].notifs[Len(f[n].notifs) + 1] = Refusal
        BY <2>5, <3>1
      <4>2. QED BY <4>1 DEF AllFills, Refusal
    <3>3. QED BY <2>4, <3>2
  <2>6. CASE f[n + 1].notifs = f[n].notifs /\ f[n + 1].pending = Append(f[n].pending, orders[n + 1])
    <3>1. base.pending \in Seq(OrderType)
      BY DEF Trial
    <3>2. Append(base.pending \o SubSeq(orders, 1, n), orders[n + 1])
            = base.pending \o SubSeq(orders, 1, n + 1)
      <4>1. SubSeq(orders, 1, n + 1) = Append(SubSeq(orders, 1, n), orders[n + 1])
        BY <1>1, <2>1 DEF m
      <4>2. SubSeq(orders, 1, n) \in Seq(OrderType)
        BY <1>1, <2>1 DEF m
      <4>3. \A p, t \in Seq(OrderType), o \in OrderType : Append(p \o t, o) = p \o Append(t, o)
        <5>1. \A t \in Seq(OrderType), o \in OrderType : Append(t, o) = t \o <<o>>
          OBVIOUS
        <5>2. \A p, t \in Seq(OrderType) : p \o t \in Seq(OrderType)
          OBVIOUS
        <5>3. \A o \in OrderType : <<o>> \in Seq(OrderType)
          OBVIOUS
        <5>4. ASSUME NEW p \in Seq(OrderType), NEW t \in Seq(OrderType), NEW o \in OrderType
              PROVE  Append(p \o t, o) = p \o Append(t, o)
          <6>1. (p \o t) \o <<o>> = p \o (t \o <<o>>)
            BY <5>3, ConcatAssociative
          <6>2. QED BY <5>1, <5>2, <6>1
        <5>5. QED BY <5>4
      <4>4. QED BY <2>4, <3>1, <4>1, <4>2, <4>3
    <3>3. QED BY <2>3, <2>4, <2>6, <3>2
  <2>7. QED BY <2>2, <2>3, <2>4, <2>5, <2>6, CheckOneStep
<1>5. m \in C
  <2> HIDE DEF C
  <2>1. QED BY <1>1, <1>3, <1>4, FromZeroUp
<1>6. AllFills(f[m].notifs) => Kept(m)
  <2> HIDE DEF Kept
  <2>1. m <= m
    BY <1>1
  <2>2. QED BY <1>5, <2>1
<1>7. SubSeq(orders, 1, m) = orders
  OBVIOUS
<1>8. QED BY <1>2, <1>6, <1>7

\* The queue of notifications only grows before it is told.
LEMMA NotifsGrow ==
  ASSUME notifs \in Seq(Notification), NEW order, NEW price, Execute(order, price), AllFills(notifs')
  PROVE  AllFills(notifs)
<1>1. \E executes, refused, fill :
        notifs' = notifs \o (IF executes THEN <<fill>> ELSE <<>>)
                         \o (IF refused THEN <<Refusal>> ELSE <<>>)
  BY DEF Execute
<1>2. PICK executes, refused, fill :
        notifs' = notifs \o (IF executes THEN <<fill>> ELSE <<>>)
                         \o (IF refused THEN <<Refusal>> ELSE <<>>)
  BY <1>1
<1> DEFINE A == Notification \cup {fill, Refusal}
           a == IF executes THEN <<fill>> ELSE <<>>
           b == IF refused THEN <<Refusal>> ELSE <<>>
<1>3. notifs \in Seq(A) /\ a \in Seq(A) /\ b \in Seq(A) /\ notifs' = notifs \o a \o b
  <2>1. Notification \subseteq A /\ <<fill>> \in Seq(A) /\ <<Refusal>> \in Seq(A) /\ <<>> \in Seq(A)
    OBVIOUS
  <2>2. notifs \in Seq(A)
    BY <2>1, SeqMonotonic
  <2> HIDE DEF A
  <2>3. a \in Seq(A) /\ b \in Seq(A)
    BY <2>1
  <2>4. QED BY <1>2, <2>2, <2>3
<1> HIDE DEF A, a, b
<1>4. notifs \o a \in Seq(A)
  BY <1>3
<1>5. \A k \in DOMAIN notifs : k \in DOMAIN (notifs \o a) /\ (notifs \o a)[k] = notifs[k]
  BY <1>3
<1>6. \A k \in DOMAIN (notifs \o a) : k \in DOMAIN notifs' /\ notifs'[k] = (notifs \o a)[k]
  BY <1>3, <1>4
<1>7. \A k \in DOMAIN notifs : k \in DOMAIN notifs' /\ notifs'[k] = notifs[k]
  BY <1>5, <1>6
<1>8. QED BY <1>7 DEF AllFills

LEMMA QuietBefore ==
  ASSUME TypeOK, [Next]_vars, Quiet'
  PROVE  Quiet
<1>0. notifs \in Seq(Notification) /\ rejected \in Nat /\ (Quiet <=> rejected = 0 /\ AllFills(notifs))
  BY DEF TypeOK, Quiet, AllFills
<1>1. rejected' = 0 /\ AllFills(notifs')
  BY DEF Quiet, AllFills
<1>2. ASSUME notifs' = notifs, rejected' = rejected PROVE Quiet
  BY <1>0, <1>1, <1>2
<1>3. CASE Advance \/ NextBar \/ Phantom \/ UNCHANGED vars
  BY <1>2, <1>3 DEF Advance, NextBar, Phantom, vars, brokerVars, bridgeVars
<1>4. CASE Broker
  <2> DEFINE base == [cash |-> cash, position |-> position, pending |-> pending, notifs |-> notifs]
             s == Fold(CheckOne, base, submitted)
  <2>1. notifs' = s.notifs /\ rejected' = rejected
    BY <1>4 DEF Broker, CheckSubmitted, bridgeVars
  <2>2. base \in Trial /\ submitted \in Seq(OrderType) /\ base.notifs = notifs
    BY DEF TypeOK, Trial
  <2> HIDE DEF base
  <2>3. notifs' = notifs
    BY <1>1, <2>1, <2>2, AllChecked
  <2>4. QED BY <1>2, <2>1, <2>3
<1>5. CASE Pass
  <2>1. rejected' = rejected
    BY <1>5 DEF Pass, bridgeVars
  <2>2. notifs' = notifs \/ \E order, price : Execute(order, price)
    BY <1>5 DEF Pass, TryOrder
  <2>3. AllFills(notifs)
    <3>1. ASSUME NEW order, NEW price, Execute(order, price) PROVE AllFills(notifs)
      BY <1>0, <1>1, <3>1, NotifsGrow
    <3>2. QED BY <1>1, <2>2, <3>1
  <2>4. QED BY <1>0, <1>1, <2>1, <2>3
<1>6. CASE Notify
  <2> DEFINE base == [trade |-> trade, closed |-> <<>>, refused |-> 0]
             books == Fold(AddNotification, base, notifs)
  <2>1. rejected' = rejected + books.refused
    BY <1>6 DEF Notify, NotifyOrder
  <2>2. base \in Books
    BY DEF TypeOK, Books
  <2> HIDE DEF base
  <2>3. books \in Books
    BY <1>0, <2>2, FoldType, AddNotificationType
  <2>4. books.refused \in Nat
    BY <2>3 DEF Books
  <2> HIDE DEF books
  <2>5. books.refused = 0 /\ rejected = 0
    BY <1>0, <1>1, <2>1, <2>4
  <2>6. AllFills(notifs)
    BY <1>0, <2>2, <2>5, RefusalsCounted DEF books
  <2>7. QED BY <1>0, <2>5, <2>6
<1>7. QED BY <1>3, <1>4, <1>5, <1>6 DEF Next, Finished

-----------------------------------------------------------------------------
(* The feed and the broker's first turn keep the shape *)

\* Scanning a bar moves neither the barriers of a label nor the close it is of.
LEMMA ScanKeeps ==
  ASSUME NEW scan \in ScanType, NEW b
  PROVE  /\ Scan(scan, b).close = scan.close /\ Scan(scan, b).upper = scan.upper
         /\ Scan(scan, b).lower = scan.lower
         /\ scan.barrier # "open" => Scan(scan, b) = scan
         /\ scan.barrier = "open" =>
              \/ /\ Scan(scan, b).barrier = "sl" /\ Scan(scan, b).label = 0 /\ b.low <= scan.lower
              \/ /\ Scan(scan, b).barrier = "tp" /\ Scan(scan, b).label = 1
                 /\ ~(b.low <= scan.lower) /\ b.high >= scan.upper
              \/ /\ Scan(scan, b).barrier \in {"open", "time"}
                 /\ ~(b.low <= scan.lower) /\ ~(b.high >= scan.upper)
<1> DEFINE next == [scan EXCEPT !.left = @ - 1]
<1>1. /\ next.close = scan.close /\ next.upper = scan.upper /\ next.lower = scan.lower
      /\ next.barrier = scan.barrier /\ next \in ScanType
  BY DEF ScanType
<1> HIDE DEF next
<1>2. \A l, k : /\ Answer(next, l, k).close = scan.close /\ Answer(next, l, k).upper = scan.upper
                /\ Answer(next, l, k).lower = scan.lower
                /\ Answer(next, l, k).label = l /\ Answer(next, l, k).barrier = k
  BY <1>1 DEF Answer, ScanType
<1>3. Scan(scan, b) =
        IF scan.barrier # "open" THEN scan
        ELSE IF b.low <= scan.lower THEN Answer(next, 0, "sl")
        ELSE IF b.high >= scan.upper THEN Answer(next, 1, "tp")
        ELSE IF scan.left > 1 THEN next
        ELSE Answer(next, IF b.close >= scan.close THEN 1 ELSE 0, "time")
  BY DEF Scan, next
<1>4. CASE scan.barrier # "open"
  BY <1>3, <1>4
<1>5. CASE scan.barrier = "open"
  <2>1. CASE b.low <= scan.lower
    BY <1>2, <1>3, <1>5, <2>1
  <2>2. CASE ~(b.low <= scan.lower) /\ b.high >= scan.upper
    BY <1>2, <1>3, <1>5, <2>2
  <2>3. CASE ~(b.low <= scan.lower) /\ ~(b.high >= scan.upper) /\ scan.left > 1
    BY <1>1, <1>3, <1>5, <2>3
  <2>4. CASE ~(b.low <= scan.lower) /\ ~(b.high >= scan.upper) /\ ~(scan.left > 1)
    BY <1>2, <1>3, <1>5, <2>4
  <2>5. QED BY <2>1, <2>2, <2>3, <2>4
<1>6. QED BY <1>4, <1>5

\* As long as the entry stays, so does what it asks for.
SameEntry ==
  /\ UNCHANGED <<entry, pendingExit, net>>
  /\ label'.close = label.close /\ label'.upper = label.upper /\ label'.lower = label.lower

LEMMA SameOrders ==
  ASSUME SameEntry
  PROVE  /\ Size' = Size /\ HeldPosition' = HeldPosition /\ HeldTrade' = HeldTrade
         /\ Bounded' <=> Bounded
         /\ StopOrder' = StopOrder /\ LimitOrder' = LimitOrder /\ ExitOrder' = ExitOrder
         /\ Guards' = Guards /\ EntryOrders' = EntryOrders /\ OpenFill' = OpenFill
         /\ Funds' = Funds /\ HeldCash' = HeldCash
<1>1. Size' = Size
  BY DEF SameEntry, Size
<1>2. /\ HeldPosition' = HeldPosition /\ HeldTrade' = HeldTrade /\ OpenFill' = OpenFill
  BY <1>1 DEF SameEntry, HeldPosition, HeldTrade, OpenFill
<1>3. Bounded' <=> Bounded
  BY DEF SameEntry, Bounded
<1>4. Funds' = Funds /\ HeldCash' = HeldCash
  BY <1>1 DEF SameEntry, Funds, HeldCash
<1>5. StopOrder' = StopOrder /\ LimitOrder' = LimitOrder
  BY <1>1 DEF SameEntry, StopOrder, LimitOrder, StopPrice, LimitPrice
<1>6. ExitOrder' = ExitOrder /\ EntryOrder' = EntryOrder
  BY <1>1 DEF SameEntry, ExitOrder, EntryOrder
<1>7. Guards' = Guards /\ EntryOrders' = EntryOrders
  BY <1>3, <1>5, <1>6 DEF Guards, EntryOrders
<1>8. QED BY <1>1, <1>2, <1>3, <1>4, <1>5, <1>6, <1>7

LEMMA AdvanceShape ==
  ASSUME TypeOK, TypeOK', Clean, Advance
  PROVE  Clean'
<1>1. /\ phase = "feed" /\ phase' = "broker" /\ i' = i + 1 /\ i \in Int /\ i' - 1 = i
      /\ UNCHANGED <<cash, position, submitted, pending, todo, notifs>>
      /\ UNCHANGED <<entry, pendingExit, trade, net, last, rejected>>
  BY DEF Advance, TypeOK, brokerVars, bridgeVars
<1>2. Between(i) /\ InTime /\ LabelFits /\ LastExplained
  BY <1>1 DEF Clean, Shape
<1>3. label' = label \/ label' = Scan(label, bar')
  BY DEF Advance
<1>4. label \in ScanType
  BY DEF TypeOK
<1>5. SameEntry
  BY <1>1, <1>3, <1>4, ScanKeeps DEF SameEntry
<1>6. label = NoScan => label' = NoScan
  <2>1. NoScan.barrier # "open"
    BY DEF NoScan, Barriers
  <2>2. QED BY <1>3, <1>4, <2>1, ScanKeeps
<1>7. Shape'
  <2>1. Between(i - 1)'
    <3>1. CASE Vacant /\ label = NoScan /\ NoQueues
      BY <1>1, <1>5, <1>6, <3>1, SameOrders DEF Between, Vacant, NoQueues, Queues
    <3>2. CASE Awaited(i) /\ Queues(EntryOrders, <<>>, <<>>, <<>>)
      BY <1>1, <1>5, <3>2, SameOrders DEF Between, Awaited, Queues
    <3>3. CASE Held(i) /\ Queues(<<>>, Guards, <<>>, <<>>)
      BY <1>1, <1>5, <3>3, SameOrders DEF Between, Held, Queues
    <3>4. CASE Leaving(i) /\ Queues(<<ExitOrder>>, <<>>, <<>>, <<>>)
      BY <1>1, <1>5, <3>4, SameOrders DEF Between, Leaving, Queues
    <3>5. QED BY <1>2, <3>1, <3>2, <3>3, <3>4 DEF Between
  <2>2. QED BY <1>1, <2>1 DEF Shape
<1>8. InTime'
  <2>1. Closing' => Closing
    BY <1>1 DEF Advance, Closing
  <2>2. QED BY <1>1, <1>2, <2>1 DEF InTime
<1>9. ExitNoted' /\ LastOutcome' /\ DoneAtEnd'
  BY <1>1 DEF ExitNoted, LastOutcome, JustStopped, DoneAtEnd
<1>10. LabelFits'
  <2> SUFFICES ASSUME entry' # NoEntry PROVE LabelFits'
    BY DEF LabelFits
  <2>1. label'.barrier \in {"open", "tp", "sl", "time"}
    BY <1>1, <1>2, <1>3, <1>4, ScanKeeps DEF LabelFits
  <2>2. ASSUME i' < Bars, Bounded'
        PROVE  /\ label'.barrier = "sl" => label'.label = 0 /\ bar'.low <= label'.lower
               /\ label'.barrier = "tp" => label'.label = 1 /\ bar'.low > label'.lower /\ bar'.high >= label'.upper
               /\ label'.barrier = "open" => bar'.low > label'.lower /\ bar'.high < label'.upper
    <3>1. label' = Scan(label, bar')
      BY <2>2 DEF Advance
    <3>2. label.barrier \in {"open", "time"}
      BY <1>1, <1>2, <1>5, <2>2, SameOrders DEF LabelFits
    <3>3. label'.lower \in Int /\ label'.upper \in Int
      BY DEF TypeOK, ScanType
    <3>4. bar'.low \in Int /\ bar'.high \in Int
      BY DEF TypeOK
    <3>5. QED BY <1>4, <3>1, <3>2, <3>3, <3>4, ScanKeeps
  <2>3. QED BY <1>1, <1>2, <1>5, <2>1, <2>2 DEF LabelFits, SameEntry
<1>11. LastExplained'
  <2> SUFFICES ASSUME last # NoRecord PROVE LastExplained'
    BY <1>1 DEF LastExplained
  <2>1. last.exitTime \in Int
    BY DEF TypeOK, RecordType, Times
  <2>2. QED BY <1>1, <1>2, <2>1 DEF LastExplained
<1>12. QED BY <1>7, <1>8, <1>9, <1>10, <1>11 DEF Clean

\* Nothing is refused: what was submitted goes behind what is pending.
LEMMA BrokerQueues ==
  ASSUME TypeOK, Quiet', Broker
  PROVE  submitted' = <<>> /\ pending' = <<>> /\ todo' = pending \o submitted /\ notifs' = notifs
<1> DEFINE base == [cash |-> cash, position |-> position, pending |-> pending, notifs |-> notifs]
           s == Fold(CheckOne, base, submitted)
<1>1. submitted' = <<>> /\ pending' = <<>> /\ todo' = s.pending /\ notifs' = s.notifs
  BY DEF Broker, CheckSubmitted
<1>2. /\ base \in Trial /\ submitted \in Seq(OrderType)
      /\ base.notifs = notifs /\ base.pending = pending
  BY DEF TypeOK, Trial
<1>3. AllFills(notifs')
  BY DEF Quiet, AllFills
<1> HIDE DEF base
<1>4. QED BY <1>1, <1>2, <1>3, AllChecked

LEMMA BrokerShape ==
  ASSUME TypeOK, Quiet', Clean, Broker
  PROVE  Clean'
<1>1. /\ phase = "broker" /\ phase' = "pass"
      /\ UNCHANGED <<cash, position, bar, i, weekEnd, weekStart, label>>
      /\ UNCHANGED <<entry, pendingExit, trade, net, last, rejected>>
      /\ submitted' = <<>> /\ pending' = <<>> /\ todo' = pending \o submitted /\ notifs' = notifs
  BY BrokerQueues DEF Broker, CheckSubmitted, bridgeVars
<1>2. Between(i - 1) /\ InTime /\ LabelFits /\ LastExplained
  BY <1>1 DEF Clean, Shape
<1>3. SameEntry
  BY <1>1 DEF SameEntry
<1>4. \A s \in Seq(OrderType) : s \o <<>> = s /\ <<>> \o s = s
  OBVIOUS
<1>5. pending \in Seq(OrderType) /\ submitted \in Seq(OrderType)
  BY DEF TypeOK
<1>6. Passing'
  <2>1. CASE Vacant /\ label = NoScan /\ NoQueues
    BY <1>1, <1>3, <2>1, SameOrders DEF Passing, Vacant, NoQueues, Queues
  <2>2. CASE Awaited(i - 1) /\ Queues(EntryOrders, <<>>, <<>>, <<>>)
    BY <1>1, <1>3, <1>4, <1>5, <2>2, SameOrders DEF Passing, Awaited, Queues
  <2>3. CASE Held(i - 1) /\ Queues(<<>>, Guards, <<>>, <<>>)
    BY <1>1, <1>3, <1>4, <1>5, <2>3, SameOrders DEF Passing, Held, Guarding, Queues
  <2>4. CASE Leaving(i - 1) /\ Queues(<<ExitOrder>>, <<>>, <<>>, <<>>)
    BY <1>1, <1>3, <1>4, <1>5, <2>4, SameOrders DEF Passing, Leaving, Queues
  <2>5. QED BY <1>2, <2>1, <2>2, <2>3, <2>4 DEF Between
<1>7. Shape'
  BY <1>1, <1>6 DEF Shape
<1>8. InTime' /\ ExitNoted' /\ LastOutcome' /\ DoneAtEnd' /\ LastExplained'
  BY <1>1, <1>2 DEF InTime, Closing, ExitNoted, LastOutcome, JustStopped, DoneAtEnd, LastExplained
<1>9. LabelFits'
  BY <1>1, <1>2, <1>3, SameOrders DEF LabelFits
<1>10. QED BY <1>7, <1>8, <1>9 DEF Clean

-----------------------------------------------------------------------------
(* One order *)

LEMMA TwoElements ==
  ASSUME NEW S, NEW a \in S, NEW b \in S
  PROVE  Append(<<a>>, b) = <<a, b>>
<1>1. Append(<<a>>, b) \in Seq(S) /\ <<a, b>> \in Seq(S)
  OBVIOUS
<1>2. Len(Append(<<a>>, b)) = 2 /\ Len(<<a, b>>) = 2
  OBVIOUS
<1>3. \A k \in 1 .. 2 : Append(<<a>>, b)[k] = <<a, b>>[k]
  OBVIOUS
<1>4. QED BY <1>1, <1>2, <1>3, SeqEqual

LEMMA SiblingsOf ==
  ASSUME NEW order
  PROVE  /\ WithoutSiblings(<<>>, order) = <<>>
         /\ \A a \in OrderType : order.oco # NoGroup /\ a.oco = order.oco
                                   => WithoutSiblings(<<a>>, order) = <<>>
         /\ \A a, b \in OrderType : order.oco = NoGroup => WithoutSiblings(<<a, b>>, order) = <<a, b>>
<1> DEFINE step == [kept \in Seq(OrderType) |-> [o \in OrderType |->
                      IF order.oco = NoGroup \/ o.oco # order.oco THEN Append(kept, o) ELSE kept]]
<1>1. \A s : WithoutSiblings(s, order) = Fold(step, <<>>, s)
  BY DEF WithoutSiblings
<1>2. \A kept \in Seq(OrderType), o \in OrderType :
        step[kept][o] = IF order.oco = NoGroup \/ o.oco # order.oco THEN Append(kept, o) ELSE kept
  OBVIOUS
<1>3. <<>> \in Seq(OrderType)
  OBVIOUS
<1> HIDE DEF step
<1>4. WithoutSiblings(<<>>, order) = <<>>
  BY <1>1, ShortFolds
<1>5. ASSUME NEW a \in OrderType, order.oco # NoGroup, a.oco = order.oco
      PROVE  WithoutSiblings(<<a>>, order) = <<>>
  <2>1. step[<<>>][a] = <<>>
    BY <1>2, <1>3, <1>5
  <2>2. QED BY <1>1, <2>1, ShortFolds
<1>6. ASSUME NEW a \in OrderType, NEW b \in OrderType, order.oco = NoGroup
      PROVE  WithoutSiblings(<<a, b>>, order) = <<a, b>>
  <2>1. Append(<<>>, a) = <<a>> /\ <<a>> \in Seq(OrderType)
    OBVIOUS
  <2>0. Append(<<a>>, b) = <<a, b>>
    BY TwoElements
  <2>2. step[<<>>][a] = <<a>>
    BY <1>2, <1>3, <1>6, <2>1
  <2>3. step[<<a>>][b] = <<a, b>>
    BY <1>2, <1>6, <2>0, <2>1
  <2>4. step[step[<<>>][a]][b] = <<a, b>>
    BY <2>2, <2>3
  <2>5. WithoutSiblings(<<a, b>>, order) = step[step[<<>>][a]][b]
    BY <1>1, ShortFolds
  <2>6. QED BY <2>4, <2>5
<1>7. QED BY <1>4, <1>5, <1>6

LEMMA OrderFacts ==
  /\ EntryOrder.exectype = "Market" /\ EntryOrder.size = Size
  /\ EntryOrder.price = entry.price /\ EntryOrder.oco = NoGroup
  /\ StopOrder.exectype = "Stop" /\ StopOrder.size = -Size
  /\ StopOrder.price = StopPrice /\ StopOrder.oco = entry.time + 1
  /\ LimitOrder.exectype = "Limit" /\ LimitOrder.size = -Size
  /\ LimitOrder.price = LimitPrice /\ LimitOrder.oco = entry.time + 1
  /\ ExitOrder.exectype = "Market" /\ ExitOrder.size = -Size
  /\ ExitOrder.price = pendingExit.price /\ ExitOrder.oco = NoGroup
BY DEF EntryOrder, StopOrder, LimitOrder, ExitOrder, Order

\* The stop and the limit of an entry lie on both sides of its price.
LEMMA BarrierFacts ==
  ASSUME TypeOK, LabelFits, entry # NoEntry, Bounded
  PROVE  /\ label.lower \in Int /\ label.upper \in Int
         /\ label.lower < entry.price /\ entry.price < label.upper
<1>1. label.lower \in Int /\ label.upper \in Int /\ label.close \in Int
  BY DEF TypeOK, ScanType
<1>2. PICK s \in Signals : label.upper = label.close + s.distance /\ label.lower = label.close - s.distance
  BY DEF LabelFits
<1>3. s.distance \in Nat
  BY BridgeAssumption
<1>4. s.distance # 0
  BY <1>1, <1>2 DEF Bounded
<1>5. label.close = entry.price
  BY DEF LabelFits
<1>6. QED BY <1>1, <1>2, <1>3, <1>4, <1>5

\* Whether the stop and the limit are filled, and at which price.
LEMMA StopFacts ==
  ASSUME TypeOK, BarKnown, i >= 0, entry # NoEntry, StopPrice \in Int
  PROVE  /\ \A price \in FillPrices(StopOrder) :
              /\ Traded(price)
              /\ entry.side = "long" => price <= StopPrice /\ bar.low <= StopPrice
              /\ entry.side = "short" => price >= StopPrice /\ bar.high >= StopPrice
         /\ FillPrices(StopOrder) = {} =>
              /\ entry.side = "long" => bar.low > StopPrice
              /\ entry.side = "short" => bar.high < StopPrice
<1>1. /\ bar.open \in Int /\ bar.low \in Int /\ bar.high \in Int
      /\ bar.low <= bar.open /\ bar.open <= bar.high
  BY DEF TypeOK, BarKnown
<1>2. /\ entry.side \in {"long", "short"} /\ Size \in Int /\ Size # 0 /\ (entry.side = "long" <=> Size > 0)
  BY SizeFacts
<1>3. FillPrices(StopOrder) = TriggerPrices(StopOrder) /\ (Rising(StopOrder) <=> entry.side = "short")
  BY <1>2, OrderFacts DEF FillPrices, Rising
<1>4. CASE entry.side = "short"
  <2>1. TriggerPrices(StopOrder) = IF bar.open >= StopPrice THEN {bar.open}
                                   ELSE {p \in {StopPrice} : bar.high >= p}
    BY <1>3, <1>4, OrderFacts DEF TriggerPrices
  <2>2. QED BY <1>1, <1>3, <1>4, <2>1 DEF Traded
<1>5. CASE entry.side = "long"
  <2>1. TriggerPrices(StopOrder) = IF bar.open <= StopPrice THEN {bar.open}
                                   ELSE {p \in {StopPrice} : bar.low <= p}
    BY <1>3, <1>5, OrderFacts DEF TriggerPrices
  <2>2. QED BY <1>1, <1>3, <1>5, <2>1 DEF Traded
<1>6. QED BY <1>2, <1>4, <1>5

LEMMA LimitFacts ==
  ASSUME TypeOK, BarKnown, i >= 0, entry # NoEntry, LimitPrice \in Int
  PROVE  /\ \A price \in FillPrices(LimitOrder) :
              /\ Traded(price)
              /\ entry.side = "long" => price >= LimitPrice /\ bar.high >= LimitPrice
              /\ entry.side = "short" => price <= LimitPrice /\ bar.low <= LimitPrice
         /\ FillPrices(LimitOrder) = {} =>
              /\ entry.side = "long" => bar.high < LimitPrice
              /\ entry.side = "short" => bar.low > LimitPrice
<1>1. /\ bar.open \in Int /\ bar.low \in Int /\ bar.high \in Int
      /\ bar.low <= bar.open /\ bar.open <= bar.high
  BY DEF TypeOK, BarKnown
<1>2. /\ entry.side \in {"long", "short"} /\ Size \in Int /\ Size # 0 /\ (entry.side = "long" <=> Size > 0)
  BY SizeFacts
<1>3. FillPrices(LimitOrder) = TriggerPrices(LimitOrder) /\ (Rising(LimitOrder) <=> entry.side = "long")
  BY <1>2, OrderFacts DEF FillPrices, Rising
<1>4. CASE entry.side = "long"
  <2>1. TriggerPrices(LimitOrder) = IF bar.open >= LimitPrice THEN {bar.open}
                                    ELSE {p \in {LimitPrice} : bar.high >= p}
    BY <1>3, <1>4, OrderFacts DEF TriggerPrices
  <2>2. QED BY <1>1, <1>3, <1>4, <2>1 DEF Traded
<1>5. CASE entry.side = "short"
  <2>1. TriggerPrices(LimitOrder) = IF bar.open <= LimitPrice THEN {bar.open}
                                    ELSE {p \in {LimitPrice} : bar.low <= p}
    BY <1>3, <1>5, OrderFacts DEF TriggerPrices
  <2>2. QED BY <1>1, <1>3, <1>5, <2>1 DEF Traded
<1>6. QED BY <1>2, <1>4, <1>5

LEMMA SignOfProduct ==
  /\ \A a, b \in Int : a > 0 /\ b < 0 => a * b < 0
  /\ \A a, b \in Int : a < 0 /\ b > 0 => a * b < 0
OBVIOUS

\* The stop was filled: the label is a loss.
LEMMA StopOutcome ==
  ASSUME TypeOK, BarKnown, LabelFits, phase = "pass", entry # NoEntry, Bounded,
         NEW price \in FillPrices(StopOrder), price \in Nat
  PROVE  Outcome(price)
<1>1. /\ label.lower \in Int /\ label.upper \in Int /\ entry.price \in Nat /\ Size \in Int
      /\ label.lower < entry.price /\ entry.price < label.upper
      /\ entry.side \in {"long", "short"} /\ (entry.side = "long" <=> Size > 0) /\ Size # 0
      /\ bar.low \in Int /\ bar.high \in Int
  BY BarrierFacts, SizeFacts DEF TypeOK
<1>2. i >= 0
  BY DEF BarKnown
<1>0. Traded(price)
  <2>1. StopPrice \in Int
    BY <1>1 DEF StopPrice
  <2>2. QED BY <1>2, <2>1, StopFacts
<1> SUFFICES ASSUME Stopped PROVE Outcome(price)
  BY <1>0 DEF Outcome
<1>3. \/ label.barrier = "sl" /\ label.label = 0 /\ bar.low <= label.lower
      \/ label.barrier = "tp" /\ label.label = 1 /\ bar.low > label.lower /\ bar.high >= label.upper
  BY DEF LabelFits, Stopped
<1>4. CASE entry.side = "long"
  <2>1. StopPrice = label.lower
    BY <1>4 DEF StopPrice
  <2>2. price <= label.lower /\ bar.low <= label.lower
    BY <1>1, <1>2, <1>4, <2>1, StopFacts
  <2>3. label.label = 0
    BY <1>1, <1>3, <2>2
  <2>4. Size * (price - entry.price) < 0
    <3>1. Size > 0 /\ price - entry.price < 0 /\ price - entry.price \in Int
      BY <1>1, <1>4, <2>2
    <3>2. QED BY <1>1, <3>1, SignOfProduct
  <2>5. OnLabelledBarrier(price)
    BY <1>1, <2>2, <2>3 DEF OnLabelledBarrier
  <2>6. QED BY <1>0, <1>4, <2>3, <2>4, <2>5 DEF Outcome
<1>5. CASE entry.side = "short"
  <2>1. StopPrice = label.upper
    BY <1>5 DEF StopPrice
  <2>2. price >= label.upper /\ bar.high >= label.upper
    BY <1>1, <1>2, <1>5, <2>1, StopFacts
  <2>3. CASE Torn
    <3>1. label.label = 0
      BY <1>1, <1>3, <2>3 DEF Torn
    <3>2. Size < 0 /\ price - entry.price > 0 /\ price - entry.price \in Int
      BY <1>1, <1>5, <2>2
    <3>3. Size * (price - entry.price) < 0
      BY <1>1, <3>2, SignOfProduct
    <3>4. QED BY <1>0, <1>5, <2>3, <3>1, <3>3 DEF Outcome
  <2>4. CASE ~Torn
    <3>1. label.label = 1
      BY <1>1, <1>3, <2>2, <2>4 DEF Torn
    <3>2. OnLabelledBarrier(price)
      BY <1>1, <2>2, <3>1 DEF OnLabelledBarrier
    <3>3. QED BY <1>0, <2>4, <3>2 DEF Outcome
  <2>5. QED BY <2>3, <2>4
<1>6. QED BY <1>1, <1>4, <1>5

\* The limit was filled and the stop was not.
LEMMA LimitOutcome ==
  ASSUME TypeOK, BarKnown, LabelFits, phase = "pass", entry # NoEntry, Bounded,
         FillPrices(StopOrder) = {}, NEW price \in FillPrices(LimitOrder), price \in Nat
  PROVE  Outcome(price)
<1>1. /\ label.lower \in Int /\ label.upper \in Int /\ entry.price \in Nat /\ Size \in Int
      /\ label.lower < entry.price /\ entry.price < label.upper
      /\ entry.side \in {"long", "short"} /\ (entry.side = "long" <=> Size > 0) /\ Size # 0
      /\ bar.low \in Int /\ bar.high \in Int
  BY BarrierFacts, SizeFacts DEF TypeOK
<1>2. i >= 0
  BY DEF BarKnown
<1>0. Traded(price)
  <2>1. LimitPrice \in Int
    BY <1>1 DEF LimitPrice
  <2>2. QED BY <1>2, <2>1, LimitFacts
<1> SUFFICES ASSUME Stopped PROVE Outcome(price)
  BY <1>0 DEF Outcome
<1>3. \/ label.barrier = "sl" /\ label.label = 0 /\ bar.low <= label.lower
      \/ label.barrier = "tp" /\ label.label = 1 /\ bar.low > label.lower /\ bar.high >= label.upper
  BY DEF LabelFits, Stopped
<1>4. CASE entry.side = "long"
  <2>1. StopPrice = label.lower /\ LimitPrice = label.upper
    BY <1>4 DEF StopPrice, LimitPrice
  <2>2. price >= label.upper /\ bar.low > label.lower
    BY <1>1, <1>2, <1>4, <2>1, StopFacts, LimitFacts
  <2>3. label.label = 1
    BY <1>1, <1>3, <2>2
  <2>4. ~Torn
    BY <1>1, <2>2 DEF Torn
  <2>5. OnLabelledBarrier(price)
    BY <1>1, <2>2, <2>3 DEF OnLabelledBarrier
  <2>6. QED BY <1>0, <2>4, <2>5 DEF Outcome
<1>5. CASE entry.side = "short"
  <2>1. StopPrice = label.upper /\ LimitPrice = label.lower
    BY <1>5 DEF StopPrice, LimitPrice
  <2>2. price <= label.lower /\ bar.low <= label.lower /\ bar.high < label.upper
    BY <1>1, <1>2, <1>5, <2>1, StopFacts, LimitFacts
  <2>3. label.label = 0
    BY <1>1, <1>3, <2>2
  <2>4. ~Torn
    BY <1>1, <2>2 DEF Torn
  <2>5. OnLabelledBarrier(price)
    BY <1>1, <2>2, <2>3 DEF OnLabelledBarrier
  <2>6. QED BY <1>0, <2>4, <2>5 DEF Outcome
<1>6. QED BY <1>1, <1>4, <1>5

\* The position closes: what is left is what the round trip earned.
LEMMA PassCloses ==
  ASSUME TypeOK, entry # NoEntry, position = HeldPosition, cash = HeldCash,
         NEW order, order.size = -Size, NEW price \in Nat, Execute(order, price), Quiet'
  PROVE  /\ position' = Flat /\ cash' = LeftCash(price)
         /\ notifs' = Append(notifs, CloseFill(price))
         /\ todo' = WithoutSiblings(Tail(todo), order)
         /\ pending' = WithoutSiblings(pending, order)
         /\ submitted' = submitted
<1>1. Size \in Int /\ Size # 0 /\ entry.price \in Nat
  BY SizeFacts
<1>2. position = [size |-> Size, price |-> entry.price]
  BY DEF HeldPosition
<1>3. /\ position' = Flat
      /\ cash' = cash + CloseCash(-Size, entry.price, Size * (price - entry.price))
      /\ notifs' = Append(notifs, [kind |-> "Fill", opened |-> 0, closed |-> -Size, price |-> price])
      /\ todo' = WithoutSiblings(Tail(todo), order)
      /\ pending' = WithoutSiblings(pending, order)
      /\ submitted' = submitted
  BY <1>1, <1>2, ExecuteCloses
<1>4. Funds \in Int
  BY Products, BrokerAssumption DEF Funds, TypeOK
<1>5. cash' = LeftCash(price)
  BY <1>1, <1>3, <1>4, RoundTrip DEF HeldCash, LeftCash, Result
<1>6. QED BY <1>3, <1>5 DEF CloseFill

\* On a bar of the market, one order: what Pass leaves alone.
LEMMA PassFrame ==
  ASSUME TypeOK, BarKnown, Clean, Pass
  PROVE  /\ phase = "pass" /\ phase' = "pass" /\ i >= 0 /\ todo # <<>> /\ Passing
         /\ InTime /\ LabelFits /\ LastExplained
         /\ UNCHANGED <<bar, i, weekEnd, weekStart, label, entry, pendingExit, trade, net, last, rejected>>
         /\ SameEntry
         /\ \/ \E price \in FillPrices(Head(todo)) : price \in Nat /\ Execute(Head(todo), price)
            \/ /\ FillPrices(Head(todo)) = {} /\ todo' = Tail(todo) /\ pending' = Append(pending, Head(todo))
               /\ UNCHANGED <<cash, position, submitted, notifs>>
         /\ Head(todo) \in OrderType
<1>1. Head(todo) \in OrderType
  BY DEF Pass, TryOrder, TypeOK
<1>2. FillPrices(Head(todo)) \subseteq Nat
  BY <1>1, FillPricesType
<1>3. /\ phase = "pass" /\ phase' = "pass" /\ i >= 0 /\ todo # <<>>
      /\ UNCHANGED <<bar, i, weekEnd, weekStart, label, entry, pendingExit, trade, net, last, rejected>>
      /\ \/ \E price \in FillPrices(Head(todo)) : Execute(Head(todo), price)
         \/ /\ FillPrices(Head(todo)) = {} /\ todo' = Tail(todo) /\ pending' = Append(pending, Head(todo))
            /\ UNCHANGED <<cash, position, submitted, notifs>>
  BY DEF Pass, TryOrder, bridgeVars, BarKnown
<1>4. Passing /\ InTime /\ LabelFits /\ LastExplained
  BY <1>3 DEF Clean, Shape
<1>5. SameEntry
  BY <1>3 DEF SameEntry
<1>6. QED BY <1>1, <1>2, <1>3, <1>4, <1>5

\* The entry is filled at the close it was decided on.
LEMMA PassEnters ==
  ASSUME TypeOK, BarKnown, Clean, Pass, Quiet',
         Awaited(i - 1), Queues(<<>>, <<>>, EntryOrders, <<>>)
  PROVE  Opened(i - 1)' /\ Guarding(<<OpenFill>>)'
<1>1. /\ entry # NoEntry /\ position = Flat /\ submitted = <<>> /\ pending = <<>>
      /\ todo = EntryOrders /\ notifs = <<>>
  BY DEF Awaited, Queues
<1>2. Size \in Int /\ Size # 0 /\ entry.price \in Nat
  BY <1>1, SizeFacts
<1>3. Head(todo) = EntryOrder /\ Tail(todo) = Guards
  BY <1>1 DEF EntryOrders, Guards
<1>4. FillPrices(EntryOrder) = {entry.price}
  BY OrderFacts DEF FillPrices, MarketPrices
<1>5. Execute(EntryOrder, entry.price)
  BY <1>3, <1>4, PassFrame
<1>6. /\ position' = [size |-> Size, price |-> entry.price]
      /\ cash' = cash - OpenCash(Size, entry.price)
      /\ notifs' = Append(notifs, [kind |-> "Fill", opened |-> Size, closed |-> 0,
                                   price |-> entry.price])
      /\ todo' = WithoutSiblings(Tail(todo), EntryOrder)
      /\ pending' = WithoutSiblings(pending, EntryOrder)
      /\ submitted' = submitted
  BY <1>1, <1>2, <1>5, OrderFacts, ExecuteOpens
<1>7. notifs' = <<OpenFill>>
  BY <1>1, <1>6 DEF OpenFill
<1>8. pending' = <<>> /\ submitted' = <<>>
  BY <1>1, <1>6, SiblingsOf
<1>9. todo' = Guards
  <2>1. CASE Bounded
    <3>1. Guards = <<StopOrder, LimitOrder>> /\ todo = <<EntryOrder, StopOrder, LimitOrder>>
      BY <1>1, <2>1 DEF Guards, EntryOrders
    <3>2. StopOrder \in OrderType /\ LimitOrder \in OrderType
      <4>1. todo \in Seq(OrderType) /\ 2 \in 1 .. Len(todo) /\ 3 \in 1 .. Len(todo)
        BY <3>1 DEF TypeOK
      <4>2. todo[2] \in OrderType /\ todo[3] \in OrderType
        BY <4>1
      <4>3. QED BY <3>1, <4>2
    <3>3. QED BY <1>3, <1>6, <3>1, <3>2, OrderFacts, SiblingsOf
  <2>2. CASE ~Bounded
    BY <1>3, <1>6, <2>2, SiblingsOf DEF Guards
  <2>3. QED BY <2>1, <2>2
<1>10. Opened(i - 1)'
  BY <1>6, PassFrame, SameOrders DEF Awaited, Opened, HeldPosition, HeldCash
<1>11. Guarding(<<OpenFill>>)'
  BY <1>7, <1>8, <1>9, PassFrame, SameOrders DEF Guarding, Queues
<1>12. QED BY <1>10, <1>11

LEMMA SameFills ==
  ASSUME SameEntry, bar' = bar
  PROVE  FillPrices(StopOrder)' = FillPrices(StopOrder) /\ FillPrices(LimitOrder)' = FillPrices(LimitOrder)
BY SameOrders DEF FillPrices, MarketPrices, TriggerPrices, Rising

\* The barriers are tried in their order; the first that is reached ends the position.
LEMMA PassGuards ==
  ASSUME TypeOK, BarKnown, Clean, Pass, Quiet',
         entry # NoEntry, position = HeldPosition, cash = HeldCash,
         NEW nots, Guarding(nots)
  PROVE  /\ Bounded
         /\ \/ /\ UNCHANGED <<cash, position>>
               /\ submitted' = <<>> /\ notifs' = nots
               /\ FillPrices(StopOrder) = {}
               /\ \/ pending' = <<StopOrder>> /\ todo' = <<LimitOrder>>
                  \/ FillPrices(LimitOrder) = {} /\ pending' = Guards /\ todo' = <<>>
            \/ \E price \in Nat :
                 /\ Outcome(price) /\ position' = Flat /\ cash' = LeftCash(price)
                 /\ submitted' = <<>> /\ pending' = <<>> /\ todo' = <<>>
                 /\ notifs' = Append(nots, CloseFill(price))
<1>1. phase = "pass" /\ todo # <<>> /\ LabelFits
  BY PassFrame
<1>2. /\ submitted = <<>> /\ notifs = nots
      /\ \/ pending = <<>> /\ todo = Guards
         \/ /\ Bounded /\ FillPrices(StopOrder) = {}
            /\ pending = <<StopOrder>> /\ todo = <<LimitOrder>>
  BY <1>1 DEF Guarding, Queues
<1>3. Bounded
  BY <1>1, <1>2 DEF Guards
<1>4. entry.time + 1 # NoGroup
  <2>1. entry.time \in Int
    BY SizeFacts DEF Times
  <2>2. QED BY <1>1, <2>1 DEF LabelFits, NoGroup
<1>5. CASE pending = <<>> /\ todo = Guards
  <2>1. Guards = <<StopOrder, LimitOrder>>
    BY <1>3 DEF Guards
  <2>2. Head(todo) = StopOrder /\ Tail(todo) = <<LimitOrder>>
    BY <1>5, <2>1
  <2>3. LimitOrder \in OrderType
    <3>1. todo \in Seq(OrderType) /\ 2 \in 1 .. Len(todo)
      BY <1>5, <2>1 DEF TypeOK
    <3>2. todo[2] \in OrderType
      BY <3>1
    <3>3. QED BY <1>5, <2>1, <3>2
  <2>4. CASE FillPrices(StopOrder) = {} /\ todo' = Tail(todo) /\ pending' = Append(pending, StopOrder)
             /\ UNCHANGED <<cash, position, submitted, notifs>>
    BY <1>2, <1>3, <1>5, <2>2, <2>4
  <2>5. ASSUME NEW price \in FillPrices(StopOrder), price \in Nat, Execute(StopOrder, price)
        PROVE  /\ Outcome(price) /\ position' = Flat /\ cash' = LeftCash(price)
               /\ submitted' = <<>> /\ pending' = <<>> /\ todo' = <<>>
               /\ notifs' = Append(nots, CloseFill(price))
    <3>1. /\ position' = Flat /\ cash' = LeftCash(price)
          /\ notifs' = Append(notifs, CloseFill(price))
          /\ todo' = WithoutSiblings(Tail(todo), StopOrder)
          /\ pending' = WithoutSiblings(pending, StopOrder)
          /\ submitted' = submitted
      BY <2>5, OrderFacts, PassCloses
    <3>2. todo' = <<>> /\ pending' = <<>>
      BY <1>5, <2>2, <2>3, <3>1, <1>4, OrderFacts, SiblingsOf
    <3>3. Outcome(price)
      BY <1>1, <1>3, <2>5, StopOutcome
    <3>4. QED BY <1>2, <3>1, <3>2, <3>3
  <2>6. QED BY <1>3, <2>2, <2>4, <2>5, PassFrame
<1>6. CASE pending = <<StopOrder>> /\ todo = <<LimitOrder>> /\ FillPrices(StopOrder) = {}
  <2>1. Head(todo) = LimitOrder /\ Tail(todo) = <<>>
    BY <1>6
  <2>2. StopOrder \in OrderType
    <3>1. pending \in Seq(OrderType) /\ 1 \in 1 .. Len(pending)
      BY <1>6 DEF TypeOK
    <3>2. pending[1] \in OrderType
      BY <3>1
    <3>3. QED BY <1>6, <3>2
  <2>3. CASE FillPrices(LimitOrder) = {} /\ todo' = Tail(todo) /\ pending' = Append(pending, LimitOrder)
             /\ UNCHANGED <<cash, position, submitted, notifs>>
    <3>1. Append(<<StopOrder>>, LimitOrder) = Guards
      <4>1. LimitOrder \in OrderType
        BY <2>1, PassFrame
      <4>2. Append(<<StopOrder>>, LimitOrder) = <<StopOrder, LimitOrder>>
        BY <2>2, <4>1, TwoElements
      <4>3. QED BY <1>3, <4>2 DEF Guards
    <3>2. QED BY <1>2, <1>3, <1>6, <2>1, <2>3, <3>1
  <2>4. ASSUME NEW price \in FillPrices(LimitOrder), price \in Nat, Execute(LimitOrder, price)
        PROVE  /\ Outcome(price) /\ position' = Flat /\ cash' = LeftCash(price)
               /\ submitted' = <<>> /\ pending' = <<>> /\ todo' = <<>>
               /\ notifs' = Append(nots, CloseFill(price))
    <3>1. /\ position' = Flat /\ cash' = LeftCash(price)
          /\ notifs' = Append(notifs, CloseFill(price))
          /\ todo' = WithoutSiblings(Tail(todo), LimitOrder)
          /\ pending' = WithoutSiblings(pending, LimitOrder)
          /\ submitted' = submitted
      BY <2>4, OrderFacts, PassCloses
    <3>2. todo' = <<>> /\ pending' = <<>>
      BY <1>6, <2>1, <2>2, <3>1, <1>4, OrderFacts, SiblingsOf
    <3>3. Outcome(price)
      BY <1>1, <1>3, <1>6, <2>4, LimitOutcome
    <3>4. QED BY <1>2, <3>1, <3>2, <3>3
  <2>5. QED BY <1>3, <1>6, <2>1, <2>3, <2>4, PassFrame
<1>7. QED BY <1>2, <1>5, <1>6

\* A forced exit is filled at the close it was decided on.
LEMMA PassLeaves ==
  ASSUME TypeOK, BarKnown, Clean, Pass, Quiet',
         Leaving(i - 1), Queues(<<>>, <<>>, <<ExitOrder>>, <<>>)
  PROVE  /\ position' = Flat /\ cash' = LeftCash(pendingExit.price)
         /\ submitted' = <<>> /\ pending' = <<>> /\ todo' = <<>>
         /\ notifs' = <<CloseFill(pendingExit.price)>>
<1>1. /\ entry # NoEntry /\ position = HeldPosition /\ cash = HeldCash
      /\ submitted = <<>> /\ pending = <<>> /\ todo = <<ExitOrder>> /\ notifs = <<>>
  BY DEF Leaving, Queues
<1>2. Head(todo) = ExitOrder /\ Tail(todo) = <<>>
  BY <1>1
<1>3. FillPrices(ExitOrder) = {pendingExit.price}
  BY OrderFacts DEF FillPrices, MarketPrices
<1>4. Execute(ExitOrder, pendingExit.price) /\ pendingExit.price \in Nat
  BY <1>2, <1>3, PassFrame
<1>5. /\ position' = Flat /\ cash' = LeftCash(pendingExit.price)
      /\ notifs' = Append(notifs, CloseFill(pendingExit.price))
      /\ todo' = WithoutSiblings(Tail(todo), ExitOrder)
      /\ pending' = WithoutSiblings(pending, ExitOrder)
      /\ submitted' = submitted
  BY <1>1, <1>4, OrderFacts, PassCloses
<1>6. todo' = <<>> /\ pending' = <<>>
  BY <1>1, <1>2, <1>5, SiblingsOf
<1>7. notifs' = <<CloseFill(pendingExit.price)>>
  BY <1>1, <1>5
<1>8. QED BY <1>1, <1>5, <1>6, <1>7

\* What is over stays over until it is told.
LEMMA OverNext ==
  ASSUME SameEntry, UNCHANGED <<bar, i, label, trade>>, NEW price,
         entry # NoEntry, position' = Flat, cash' = LeftCash(price),
         submitted' = <<>>, pending' = <<>>, todo' = <<>>,
         \/ entry.time < i - 1 /\ trade = HeldTrade /\ notifs' = <<CloseFill(price)>>
         \/ /\ entry.time = i - 1 /\ trade = NoTrade /\ pendingExit = NoExit
            /\ notifs' = <<OpenFill, CloseFill(price)>>,
         \/ pendingExit = NoExit /\ Bounded /\ Outcome(price)
         \/ pendingExit # NoExit /\ pendingExit.time = i - 1 /\ pendingExit.price = price
  PROVE  Over(price)'
<1>1. entry' = entry /\ pendingExit' = pendingExit /\ i' = i /\ trade' = trade /\ net' = net
      /\ label' = label /\ bar' = bar
  BY DEF SameEntry
<1>2. Size' = Size /\ HeldTrade' = HeldTrade /\ OpenFill' = OpenFill /\ (Bounded' <=> Bounded)
  BY SameOrders
<1>3. cash' = LeftCash(price)'
  BY <1>1, <1>2 DEF LeftCash, Funds, Result
<1>4. CloseFill(price)' = CloseFill(price)
  BY <1>2 DEF CloseFill
<1>5. Outcome(price) => Outcome(price)'
  BY <1>1, <1>2 DEF Outcome, Traded, Stopped, OnLabelledBarrier, Torn
<1>6. \/ entry'.time < i' - 1 /\ trade' = HeldTrade' /\ Queues(<<>>, <<>>, <<>>, <<CloseFill(price)>>)'
      \/ /\ entry'.time = i' - 1 /\ trade' = NoTrade /\ pendingExit' = NoExit
         /\ Queues(<<>>, <<>>, <<>>, <<OpenFill, CloseFill(price)>>)'
  BY <1>1, <1>2, <1>4 DEF Queues
<1>7. \/ pendingExit' = NoExit /\ Bounded' /\ Outcome(price)'
      \/ pendingExit' # NoExit /\ pendingExit'.time = i' - 1 /\ pendingExit'.price = price
  BY <1>1, <1>2, <1>5
<1>8. QED BY <1>1, <1>3, <1>6, <1>7 DEF Over

LEMMA PassShape ==
  ASSUME TypeOK, BarKnown, Clean, Pass, Quiet'
  PROVE  Clean'
<1>1. /\ phase = "pass" /\ phase' = "pass" /\ i >= 0 /\ todo # <<>> /\ Passing
      /\ InTime /\ LabelFits /\ LastExplained
      /\ UNCHANGED <<bar, i, weekEnd, weekStart, label, entry, pendingExit, trade, net, last, rejected>>
      /\ SameEntry
  BY PassFrame
<1>2. ASSUME Awaited(i - 1) /\ Queues(<<>>, <<>>, EntryOrders, <<>>) PROVE Passing' /\ InTime'
  <2>1. Opened(i - 1)' /\ Guarding(<<OpenFill>>)'
    BY <1>2, PassEnters
  <2>2. QED BY <1>1, <1>2, <2>1 DEF Passing, InTime, Awaited
<1>3. ASSUME Opened(i - 1) /\ Guarding(<<OpenFill>>) PROVE Passing' /\ InTime'
  <2>1. /\ entry # NoEntry /\ entry.time = i - 1 /\ pendingExit = NoExit
        /\ position = HeldPosition /\ trade = NoTrade /\ cash = HeldCash
    BY <1>3 DEF Opened
  <2>2. InTime'
    BY <1>1, <2>1 DEF InTime
  <2>3. CASE /\ Bounded /\ UNCHANGED <<cash, position>>
             /\ submitted' = <<>> /\ notifs' = <<OpenFill>>
             /\ FillPrices(StopOrder) = {}
             /\ \/ pending' = <<StopOrder>> /\ todo' = <<LimitOrder>>
                \/ FillPrices(LimitOrder) = {} /\ pending' = Guards /\ todo' = <<>>
    <3>1. Guarding(<<OpenFill>>)'
      BY <1>1, <2>3, SameOrders, SameFills DEF Guarding, Queues
    <3>2. Opened(i - 1)'
      BY <1>1, <2>1, <2>3, SameOrders DEF Opened
    <3>3. QED BY <2>2, <3>1, <3>2 DEF Passing
  <2>4. ASSUME NEW price \in Nat, Bounded, Outcome(price), position' = Flat, cash' = LeftCash(price),
               submitted' = <<>>, pending' = <<>>, todo' = <<>>,
               notifs' = Append(<<OpenFill>>, CloseFill(price))
        PROVE  Passing'
    <3>1. notifs' = <<OpenFill, CloseFill(price)>>
      <4>1. OpenFill \in {OpenFill, CloseFill(price)} /\ CloseFill(price) \in {OpenFill, CloseFill(price)}
        OBVIOUS
      <4>2. QED BY <2>4, <4>1, TwoElements
    <3>2. Over(price)'
      BY <1>1, <2>1, <2>4, <3>1, OverNext
    <3>3. QED BY <3>2 DEF Passing
  <2>5. QED BY <1>3, <2>1, <2>2, <2>3, <2>4, PassGuards
<1>4. ASSUME Held(i - 1) /\ Guarding(<<>>) PROVE Passing' /\ InTime'
  <2>1. /\ entry # NoEntry /\ entry.time < i - 1 /\ pendingExit = NoExit
        /\ position = HeldPosition /\ trade = HeldTrade /\ cash = HeldCash
    BY <1>4 DEF Held
  <2>2. CASE /\ Bounded /\ UNCHANGED <<cash, position>>
             /\ submitted' = <<>> /\ notifs' = <<>>
             /\ FillPrices(StopOrder) = {}
             /\ \/ pending' = <<StopOrder>> /\ todo' = <<LimitOrder>>
                \/ FillPrices(LimitOrder) = {} /\ pending' = Guards /\ todo' = <<>>
    <3>1. Guarding(<<>>)'
      BY <1>1, <2>2, SameOrders, SameFills DEF Guarding, Queues
    <3>2. Held(i - 1)'
      BY <1>1, <2>1, <2>2, SameOrders DEF Held
    <3>3. InTime'
      BY <1>1, <2>2 DEF InTime, Closing
    <3>4. QED BY <3>1, <3>2, <3>3 DEF Passing
  <2>3. ASSUME NEW price \in Nat, Bounded, Outcome(price), position' = Flat, cash' = LeftCash(price),
               submitted' = <<>>, pending' = <<>>, todo' = <<>>,
               notifs' = Append(<<>>, CloseFill(price))
        PROVE  Passing' /\ InTime'
    <3>1. Over(price)'
      BY <1>1, <2>1, <2>3, OverNext
    <3>2. QED BY <2>3, <3>1 DEF Passing, InTime, Flat
  <2>4. QED BY <1>4, <2>1, <2>2, <2>3, PassGuards
<1>5. ASSUME Leaving(i - 1) /\ Queues(<<>>, <<>>, <<ExitOrder>>, <<>>) PROVE Passing' /\ InTime'
  <2> DEFINE price == pendingExit.price
  <2>1. /\ entry # NoEntry /\ entry.time < i - 1 /\ trade = HeldTrade
        /\ pendingExit # NoExit /\ pendingExit.time = i - 1 /\ price \in Nat
    BY <1>5 DEF Leaving, TypeOK, ExitType
  <2>2. /\ position' = Flat /\ cash' = LeftCash(price)
        /\ submitted' = <<>> /\ pending' = <<>> /\ todo' = <<>> /\ notifs' = <<CloseFill(price)>>
    BY <1>5, PassLeaves
  <2>3. \E p \in Nat : Over(p)'
    <3>1. PICK p \in Nat : p = pendingExit.price
      BY <2>1
    <3>2. Over(p)'
      BY <1>1, <2>1, <2>2, <3>1, OverNext
    <3>3. QED BY <3>2
  <2>4. QED BY <2>2, <2>3 DEF Passing, InTime, Flat
<1>6. Passing' /\ InTime'
  <2>1. ~(Vacant /\ label = NoScan /\ NoQueues) /\ ~(\E price \in Nat : Over(price))
    BY <1>1 DEF NoQueues, Queues, Over
  <2>2. QED BY <1>1, <1>2, <1>3, <1>4, <1>5, <2>1 DEF Passing
<1>7. Shape'
  BY <1>1, <1>6 DEF Shape
<1>8. ExitNoted' /\ LastOutcome' /\ DoneAtEnd' /\ LastExplained'
  BY <1>1 DEF ExitNoted, LastOutcome, JustStopped, DoneAtEnd, LastExplained
<1>9. LabelFits'
  BY <1>1, SameOrders DEF LabelFits
<1>10. QED BY <1>6, <1>7, <1>8, <1>9 DEF Clean

-----------------------------------------------------------------------------
(* What the strategy is told *)

\* The trade a position makes, and the trade it ends as.
ClosedTrade(price) ==
  [size |-> 0, price |-> entry.price, pnl |-> Size * (price - entry.price),
   commission |-> Commission(Size) + Commission(Size)]

LEMMA BookedOpens ==
  ASSUME NEW q \in Int, q # 0, NEW p \in Nat
  PROVE  Booked(NoTrade, q, p) = [size |-> q, price |-> p, pnl |-> 0, commission |-> Commission(q)]
<1> DEFINE m == Magnitude(q)
<1>1. m \in Nat \ {0} /\ Magnitude(0) = 0 /\ Commission(q) \in Nat
  BY CommissionType DEF Magnitude
<1>2. NoTrade.size = 0 /\ NoTrade.price = 0 /\ NoTrade.pnl = 0 /\ NoTrade.commission = 0
  BY DEF NoTrade
<1>3. Booked(NoTrade, q, p) =
        [size |-> 0 + q,
         price |-> IF Magnitude(0 + q) > Magnitude(0)
                   THEN (0 * Magnitude(0) + p * m) \div Magnitude(0 + q) ELSE 0,
         pnl |-> 0 + (IF Magnitude(0 + q) > Magnitude(0) THEN 0 ELSE ProfitAndLoss(-q, 0, p)),
         commission |-> 0 + Commission(q)]
  BY <1>2 DEF Booked
<1>4. 0 + q = q /\ 0 + 0 = 0 /\ 0 + Commission(q) = Commission(q)
  BY <1>1
<1> HIDE DEF m
<1>5. 0 * Magnitude(0) + p * m = p * m /\ (p * m) \div m = p
  <2>1. (p * m) \div m = p
    BY <1>1, DivExact
  <2>2. p * m \in Int
    BY <1>1, Products
  <2>3. QED BY <1>1, <2>1, <2>2
<1>6. Magnitude(0 + q) = m /\ m > Magnitude(0)
  BY <1>1, <1>4 DEF m
<1>7. QED BY <1>3, <1>4, <1>5, <1>6

LEMMA BookedCloses ==
  ASSUME NEW q \in Int, q # 0, NEW p \in Nat, NEW c \in Nat, NEW price \in Nat
  PROVE  Booked([size |-> q, price |-> p, pnl |-> 0, commission |-> c], -q, price)
           = [size |-> 0, price |-> p, pnl |-> q * (price - p), commission |-> c + Commission(q)]
<1> DEFINE t == [size |-> q, price |-> p, pnl |-> 0, commission |-> c]
<1>1. /\ t.size = q /\ t.price = p /\ t.pnl = 0 /\ t.commission = c
      /\ q + (-q) = 0 /\ ~(Magnitude(0) > Magnitude(q)) /\ -(-q) = q
  BY DEF Magnitude
<1> HIDE DEF t
<1>2. ProfitAndLoss(-(-q), p, price) = q * (price - p)
  BY <1>1 DEF ProfitAndLoss
<1>3. q * (price - p) \in Int
  <2>1. price - p \in Int
    OBVIOUS
  <2>2. QED BY <2>1, Products
<1>4. 0 + ProfitAndLoss(-(-q), p, price) = q * (price - p)
  BY <1>2, <1>3
<1>5. Booked(t, -q, price) =
        [size |-> 0, price |-> p, pnl |-> 0 + ProfitAndLoss(-(-q), p, price),
         commission |-> c + Commission(-q)]
  BY <1>1 DEF Booked
<1>6. Booked(t, -q, price) = [size |-> 0, price |-> p, pnl |-> q * (price - p),
                              commission |-> c + Commission(q)]
  BY <1>4, <1>5, SameCommission
<1>7. QED BY <1>6 DEF t

BooksOf(t, closed) == [trade |-> t, closed |-> closed, refused |-> 0]

LEMMA OpenBooks ==
  ASSUME TypeOK, entry # NoEntry
  PROVE  AddNotification[BooksOf(NoTrade, <<>>)][OpenFill] = BooksOf(HeldTrade, <<>>)
<1>1. Size \in Int /\ Size # 0 /\ entry.price \in Nat
  BY SizeFacts
<1>2. Booked(NoTrade, Size, entry.price) = HeldTrade
  BY <1>1, BookedOpens DEF HeldTrade
<1> DEFINE s == BooksOf(NoTrade, <<>>)
<1>3. s \in Books /\ s.trade = NoTrade /\ s.closed = <<>> /\ s.refused = 0
  BY NoTradeType DEF BooksOf, Books
<1>4. /\ OpenFill \in Notification /\ OpenFill.kind = "Fill" /\ OpenFill.opened = Size
      /\ OpenFill.closed = 0 /\ OpenFill.price = entry.price
  BY <1>1 DEF OpenFill, Notification
<1>5. NoTrade.size = 0
  BY DEF NoTrade
<1>6. AddNotification[s][OpenFill] = [s EXCEPT !.trade = HeldTrade, !.closed = <<>>]
  BY <1>1, <1>2, <1>3, <1>4, <1>5 DEF AddNotification
<1>7. QED BY <1>6 DEF BooksOf

LEMMA CloseBooks ==
  ASSUME TypeOK, entry # NoEntry, NEW price \in Nat
  PROVE  AddNotification[BooksOf(HeldTrade, <<>>)][CloseFill(price)]
           = BooksOf(NoTrade, <<ClosedTrade(price)>>)
<1>1. Size \in Int /\ Size # 0 /\ -Size \in Int /\ entry.price \in Nat /\ Commission(Size) \in Nat
  BY SizeFacts, CommissionType
<1>2. Booked(HeldTrade, -Size, price) = ClosedTrade(price)
  BY <1>1, BookedCloses DEF HeldTrade, ClosedTrade
<1> DEFINE s == BooksOf(HeldTrade, <<>>)
<1>3. s \in Books /\ s.trade = HeldTrade /\ s.closed = <<>> /\ s.refused = 0
  BY <1>1 DEF BooksOf, Books, HeldTrade, TradeType
<1>4. /\ CloseFill(price) \in Notification /\ CloseFill(price).kind = "Fill"
      /\ CloseFill(price).opened = 0 /\ CloseFill(price).closed = -Size /\ CloseFill(price).price = price
  BY <1>1 DEF CloseFill, Notification
<1>5. HeldTrade.size # 0 /\ ClosedTrade(price).size = 0 /\ -Size # 0
  BY <1>1 DEF HeldTrade, ClosedTrade
<1>6. Append(<<>>, ClosedTrade(price)) = <<ClosedTrade(price)>>
  OBVIOUS
<1>7. AddNotification[s][CloseFill(price)]
        = [s EXCEPT !.trade = NoTrade, !.closed = <<ClosedTrade(price)>>]
  BY <1>2, <1>3, <1>4, <1>5, <1>6 DEF AddNotification
<1>8. QED BY <1>7 DEF BooksOf

\* The record of an entry that closed at a price.
Record(price) ==
  [side |-> entry.side, size |-> entry.size, entryTime |-> entry.time, entryPrice |-> entry.price,
   exitTime |-> IF pendingExit # NoExit THEN pendingExit.time ELSE ThisBar, exitPrice |-> price,
   gross |-> Size * (price - entry.price), cost |-> Commission(Size) + Commission(Size)]

\* The gross result is the difference of the prices, times the size: it gives the
\* price back.
LEMMA Gross ==
  ASSUME TypeOK, entry # NoEntry, NEW price \in Nat
  PROVE  /\ Size * (price - entry.price) \in Int
         /\ Size * (price - entry.price)
              = (IF entry.side = "long" THEN price - entry.price ELSE entry.price - price) * entry.size
         /\ (IF entry.side = "long"
             THEN entry.price + ((Size * (price - entry.price)) \div entry.size)
             ELSE entry.price - ((Size * (price - entry.price)) \div entry.size)) = price
<1> DEFINE n == entry.size
           gain == price - entry.price
           loss == entry.price - price
<1>1. /\ n \in Nat \ {0} /\ entry.price \in Nat /\ gain \in Int /\ loss \in Int /\ loss = -gain
      /\ entry.side \in {"long", "short"}
  BY SizeFacts
<1>2. CASE entry.side = "long"
  <2>1. Size = n
    BY <1>2 DEF Size
  <2>2. n * gain = gain * n /\ n * gain \in Int
    BY <1>1, Products
  <2>3. (n * gain) \div n = gain
    BY <1>1, DivExact
  <2>4. entry.price + gain = price
    BY <1>1
  <2> HIDE DEF n, gain
  <2>5. Size * gain \in Int /\ Size * gain = gain * n /\ entry.price + ((Size * gain) \div n) = price
    BY <2>1, <2>2, <2>3, <2>4
  <2>6. QED BY <1>2, <2>5 DEF n, gain
<1>3. CASE entry.side = "short"
  <2>1. Size = -n
    BY <1>1, <1>3 DEF Size
  <2>2. (-n) * gain = loss * n /\ loss * n \in Int
    <3>1. ASSUME NEW a \in Int, NEW b \in Int PROVE (-a) * b = (-b) * a /\ (-b) * a \in Int
      <4>1. (0 - a) * b = 0 * b - a * b /\ (0 - b) * a = 0 * a - b * a
        BY Distribute
      <4>2. 0 - a = -a /\ 0 - b = -b /\ 0 * b = 0 /\ 0 * a = 0 /\ a * b = b * a
        OBVIOUS
      <4>3. a * b \in Int
        BY Products
      <4>4. QED BY <4>1, <4>2, <4>3
    <3> HIDE DEF n, gain, loss
    <3>2. QED BY <1>1, <3>1
  <2>3. (loss * n) \div n = loss
    BY <1>1, DivExact
  <2>4. entry.price - loss = price
    BY <1>1
  <2> HIDE DEF n, gain, loss
  <2>5. Size * gain \in Int /\ Size * gain = loss * n /\ entry.price - ((Size * gain) \div n) = price
    BY <2>1, <2>2, <2>3, <2>4
  <2>6. QED BY <1>3, <2>5 DEF n, gain, loss
<1>4. QED BY <1>1, <1>2, <1>3

LEMMA TradeTold ==
  ASSUME TypeOK, entry # NoEntry, NEW price \in Nat,
         pendingExit = NoExit \/ pendingExit.price = price
  PROVE  NotifyTrade[[entry |-> entry, pendingExit |-> pendingExit, net |-> net, last |-> last]]
                    [ClosedTrade(price)]
           = [entry |-> NoEntry, pendingExit |-> NoExit, net |-> net + Result(price),
              last |-> Record(price)]
<1> DEFINE s == [entry |-> entry, pendingExit |-> pendingExit, net |-> net, last |-> last]
           gross == Size * (price - entry.price)
           cost == Commission(Size) + Commission(Size)
           unit == gross \div entry.size
           implied == IF entry.side = "long" THEN entry.price + unit ELSE entry.price - unit
           t == ClosedTrade(price)
<1>1. s \in Round /\ s.entry = entry /\ s.pendingExit = pendingExit /\ s.net = net
  BY DEF Round, TypeOK
<1>2. gross \in Int /\ cost \in Nat /\ entry.price \in Nat
  BY Gross, SizeFacts, CommissionType
<1>3. implied = price
  BY Gross
<1>4. t \in TradeType /\ t.pnl = gross /\ t.commission = cost
  BY <1>2 DEF ClosedTrade, TradeType
<1> HIDE DEF s, t, gross, cost
<1>5. NotifyTrade[s][t] =
        [entry |-> NoEntry, pendingExit |-> NoExit, net |-> net + gross - cost,
         last |-> [side |-> entry.side, size |-> entry.size,
                   entryTime |-> entry.time, entryPrice |-> entry.price,
                   exitTime |-> IF pendingExit # NoExit THEN pendingExit.time ELSE ThisBar,
                   exitPrice |-> IF pendingExit # NoExit THEN pendingExit.price ELSE implied,
                   gross |-> gross, cost |-> cost]]
  BY <1>1, <1>4 DEF NotifyTrade
<1>6. (IF pendingExit # NoExit THEN pendingExit.price ELSE implied) = price
  BY <1>3
<1>7. net + gross - cost = net + (gross - cost)
  BY <1>2 DEF TypeOK
<1> HIDE DEF implied
<1>8. NotifyTrade[s][t] = [entry |-> NoEntry, pendingExit |-> NoExit, net |-> net + (gross - cost),
                           last |-> Record(price)]
  BY <1>5, <1>6, <1>7 DEF Record, gross, cost
<1>9. QED BY <1>8 DEF Result, s, t, gross, cost

\* The net result is what the account has left.
LEMMA FundsLeft ==
  ASSUME TypeOK, entry # NoEntry, NEW price \in Nat, net' = net + Result(price)
  PROVE  Funds' = LeftCash(price)
<1>1. Result(price) \in Int
  <2>1. Size * (price - entry.price) \in Int /\ Commission(Size) \in Nat
    BY Gross, SizeFacts, CommissionType
  <2>2. QED BY <2>1 DEF Result
<1>2. Funds' = (InitialCapital + (net + Result(price))) * Leverage
  BY DEF Funds
<1>3. InitialCapital \in Int /\ net \in Int /\ Leverage \in Int
  BY BrokerAssumption DEF TypeOK
<1>4. InitialCapital + (net + Result(price)) = (InitialCapital + net) + Result(price)
  BY <1>1, <1>3
<1>5. ((InitialCapital + net) + Result(price)) * Leverage = Funds + Result(price) * Leverage
  <2>1. InitialCapital + net \in Int
    BY <1>3
  <2>2. QED BY <1>1, <1>3, <2>1, Distribute DEF Funds
<1>6. QED BY <1>2, <1>4, <1>5 DEF LeftCash

LEMMA RecordExplained ==
  ASSUME TypeOK, BarKnown, phase = "pass", entry # NoEntry, entry.time <= i - 1, NEW price \in Nat,
         pendingExit # NoExit => pendingExit.time = i - 1
  PROVE  /\ Record(price).gross = (IF Record(price).side = "long"
                                   THEN Record(price).exitPrice - Record(price).entryPrice
                                   ELSE Record(price).entryPrice - Record(price).exitPrice)
                                    * Record(price).size
         /\ Record(price).cost = 2 * Cost * Record(price).size
         /\ Record(price).entryTime <= Record(price).exitTime
         /\ Record(price).exitTime <= i
         /\ Record(price).exitTime = i => pendingExit = NoExit
<1>1. Record(price).gross = (IF Record(price).side = "long"
                             THEN Record(price).exitPrice - Record(price).entryPrice
                             ELSE Record(price).entryPrice - Record(price).exitPrice)
                              * Record(price).size
  BY Gross DEF Record
<1>2. Commission(Size) + Commission(Size) = 2 * Cost * entry.size
  <2>1. Commission(Size) = entry.size * Cost
    BY SizeFacts DEF Commission
  <2>2. \A a, b \in Nat : a * b + a * b = 2 * b * a
    OBVIOUS
  <2>3. entry.size \in Nat /\ Cost \in Nat
    BY SizeFacts, BrokerAssumption
  <2>4. QED BY <2>1, <2>2, <2>3
<1>3. i - 1 <= ThisBar /\ ThisBar <= i /\ i \in Int /\ entry.time \in Int /\ ThisBar \in Int
  BY SizeFacts, BridgeAssumption DEF ThisBar, TypeOK, Times
<1>4. QED BY <1>1, <1>2, <1>3 DEF Record

\* Telling, when nothing was refused.
LEMMA NotifyFrame ==
  ASSUME Notify, NEW t, NEW closed,
         Fold(AddNotification, BooksOf(trade, <<>>), notifs) = BooksOf(t, closed),
         NEW told, told = Fold(NotifyTrade, [entry |-> entry, pendingExit |-> pendingExit,
                                             net |-> net, last |-> last], closed)
  PROVE  /\ phase = "pass" /\ phase' = "next" /\ todo = <<>> /\ notifs' = <<>> /\ trade' = t
         /\ entry' = told.entry /\ pendingExit' = told.pendingExit /\ net' = told.net
         /\ last' = told.last
         /\ UNCHANGED <<cash, position, submitted, pending, todo, bar, i, weekEnd, weekStart, label>>
<1> DEFINE base == [trade |-> trade, closed |-> <<>>, refused |-> 0]
           books == Fold(AddNotification, base, notifs)
           round == [entry |-> NotifyOrder(books.refused).entry, pendingExit |-> pendingExit,
                     net |-> net, last |-> last]
           heard == Fold(NotifyTrade, round, books.closed)
<1>1. /\ phase = "pass" /\ phase' = "next" /\ todo = <<>> /\ notifs' = <<>> /\ trade' = books.trade
      /\ entry' = heard.entry /\ pendingExit' = heard.pendingExit /\ net' = heard.net
      /\ last' = heard.last
      /\ UNCHANGED <<cash, position, submitted, pending, todo, bar, i, weekEnd, weekStart, label>>
  BY DEF Notify
<1>2. books.trade = t /\ books.closed = closed /\ books.refused = 0
  BY DEF BooksOf
<1> HIDE DEF books
<1>3. NotifyOrder(books.refused).entry = entry
  BY <1>2 DEF NotifyOrder
<1>4. heard = told
  BY <1>2, <1>3
<1> HIDE DEF heard
<1>5. QED BY <1>1, <1>2, <1>4

\* Nothing was filled, or the entry was: the position is held.
LEMMA NotifyHolds ==
  ASSUME TypeOK, TypeOK', BarKnown, Clean, Notify,
         \/ Opened(i - 1) /\ Guarding(<<OpenFill>>)
         \/ Held(i - 1) /\ Guarding(<<>>)
  PROVE  Clean'
<1>1. /\ phase = "pass" /\ todo = <<>> /\ i >= 0 /\ LabelFits /\ InTime /\ LastExplained /\ i \in Int
  BY DEF Notify, BarKnown, Clean, TypeOK
<1>2. entry # NoEntry /\ position = HeldPosition /\ cash = HeldCash /\ pendingExit = NoExit
  BY DEF Opened, Held
<1>3. entry.time \in Int /\ entry.time < i
  BY <1>1, <1>2, SizeFacts DEF Opened, Held, Times
<1>4. Fold(AddNotification, BooksOf(trade, <<>>), notifs) = BooksOf(HeldTrade, <<>>)
  <2>1. CASE Opened(i - 1) /\ Guarding(<<OpenFill>>)
    <3>1. trade = NoTrade /\ notifs = <<OpenFill>>
      BY <2>1 DEF Opened, Guarding, Queues
    <3>2. QED BY <1>2, <3>1, ShortFolds, OpenBooks
  <2>2. CASE Held(i - 1) /\ Guarding(<<>>)
    <3>1. trade = HeldTrade /\ notifs = <<>>
      BY <2>2 DEF Held, Guarding, Queues
    <3>2. QED BY <3>1, ShortFolds
  <2>3. QED BY <2>1, <2>2
<1>5. Fold(NotifyTrade, [entry |-> entry, pendingExit |-> pendingExit, net |-> net, last |-> last], <<>>)
        = [entry |-> entry, pendingExit |-> pendingExit, net |-> net, last |-> last]
  BY ShortFolds
<1>6. /\ phase' = "next" /\ notifs' = <<>> /\ trade' = HeldTrade
      /\ UNCHANGED <<cash, position, submitted, pending, todo, bar, i, weekEnd, weekStart, label>>
      /\ UNCHANGED <<entry, pendingExit, net, last>>
  BY <1>4, <1>5, NotifyFrame
<1>7. SameEntry
  BY <1>6 DEF SameEntry
<1>8. /\ submitted = <<>> /\ pending = Guards
      /\ Bounded => FillPrices(StopOrder) = {} /\ FillPrices(LimitOrder) = {}
  BY <1>1 DEF Guarding, Queues, Guards
<1>9. Shape'
  <2>1. Held(i)' /\ Queues(<<>>, Guards, <<>>, <<>>)'
    BY <1>1, <1>2, <1>3, <1>6, <1>7, <1>8, SameOrders DEF Held, Queues
  <2>2. QED BY <1>6, <2>1 DEF Shape, Resting
<1>10. InTime' /\ ExitNoted' /\ DoneAtEnd' /\ LastExplained' /\ LastOutcome'
  BY <1>1, <1>2, <1>6 DEF InTime, Closing, ExitNoted, DoneAtEnd, LastExplained, LastOutcome, JustStopped
<1>11. LabelFits'
  <2>1. i < Bars /\ Bounded => label.barrier \in {"open", "time"}
    <3> SUFFICES ASSUME i < Bars, Bounded PROVE label.barrier \in {"open", "time"}
      OBVIOUS
    <3>1. /\ label.lower \in Int /\ label.upper \in Int /\ bar.low \in Int /\ bar.high \in Int
          /\ entry.side \in {"long", "short"}
      BY <1>1, <1>2, BarrierFacts, SizeFacts DEF TypeOK
    <3>2. bar.low > label.lower /\ bar.high < label.upper
      <4>1. CASE entry.side = "long"
        <5>1. StopPrice = label.lower /\ LimitPrice = label.upper
          BY <4>1 DEF StopPrice, LimitPrice
        <5>2. QED BY <1>1, <1>2, <1>8, <3>1, <4>1, <5>1, StopFacts, LimitFacts
      <4>2. CASE entry.side = "short"
        <5>1. StopPrice = label.upper /\ LimitPrice = label.lower
          BY <4>2 DEF StopPrice, LimitPrice
        <5>2. QED BY <1>1, <1>2, <1>8, <3>1, <4>2, <5>1, StopFacts, LimitFacts
      <4>3. QED BY <3>1, <4>1, <4>2
    <3>3. QED BY <1>1, <1>2, <3>1, <3>2 DEF LabelFits
  <2>2. QED BY <1>1, <1>2, <1>6, <1>7, <2>1, SameOrders DEF LabelFits
<1>12. QED BY <1>9, <1>10, <1>11 DEF Clean

\* The latest record is of an earlier bar when the strategy is told of nothing.
LEMMA LastBefore ==
  ASSUME TypeOK, Clean, phase = "pass", last' = last, i' = i, phase' = "next"
  PROVE  LastExplained'
<1> SUFFICES ASSUME last # NoRecord PROVE LastExplained'
  BY DEF LastExplained
<1>1. last.exitTime \in Int /\ i \in Int
  BY DEF TypeOK, RecordType, Times
<1>2. QED BY <1>1 DEF Clean, LastExplained

\* The position was closed: the round trip is recorded.
LEMMA NotifyRecords ==
  ASSUME TypeOK, TypeOK', BarKnown, Clean, Notify, NEW price \in Nat, Over(price)
  PROVE  Clean'
<1>1. /\ phase = "pass" /\ i >= 0 /\ i \in Int /\ LastExplained
  BY DEF Notify, BarKnown, Clean, TypeOK
<1>2. /\ entry # NoEntry /\ position = Flat /\ cash = LeftCash(price)
      /\ submitted = <<>> /\ pending = <<>> /\ todo = <<>>
      /\ entry.time <= i - 1
      /\ pendingExit = NoExit \/ pendingExit.price = price
      /\ pendingExit # NoExit => pendingExit.time = i - 1
      /\ pendingExit = NoExit => Outcome(price)
  <2>1. entry # NoEntry
    BY DEF Over
  <2>2. entry.time \in Int
    BY <2>1, SizeFacts DEF Times
  <2>3. QED BY <1>1, <2>1, <2>2 DEF Over, Queues
<1>3. Fold(AddNotification, BooksOf(trade, <<>>), notifs) = BooksOf(NoTrade, <<ClosedTrade(price)>>)
  <2>1. CASE trade = HeldTrade /\ notifs = <<CloseFill(price)>>
    BY <1>2, <2>1, ShortFolds, CloseBooks
  <2>2. CASE trade = NoTrade /\ notifs = <<OpenFill, CloseFill(price)>>
    <3>1. Fold(AddNotification, BooksOf(NoTrade, <<>>), <<OpenFill, CloseFill(price)>>)
            = AddNotification[AddNotification[BooksOf(NoTrade, <<>>)][OpenFill]][CloseFill(price)]
      BY ShortFolds
    <3>2. QED BY <1>2, <2>2, <3>1, OpenBooks, CloseBooks
  <2>3. QED BY <2>1, <2>2 DEF Over, Queues
<1>4. Fold(NotifyTrade, [entry |-> entry, pendingExit |-> pendingExit, net |-> net, last |-> last],
           <<ClosedTrade(price)>>)
        = [entry |-> NoEntry, pendingExit |-> NoExit, net |-> net + Result(price), last |-> Record(price)]
  BY <1>2, ShortFolds, TradeTold
<1>5. /\ phase' = "next" /\ notifs' = <<>> /\ trade' = NoTrade
      /\ UNCHANGED <<cash, position, submitted, pending, todo, bar, i, weekEnd, weekStart, label>>
      /\ entry' = NoEntry /\ pendingExit' = NoExit /\ net' = net + Result(price)
      /\ last' = Record(price)
  BY <1>3, <1>4, NotifyFrame
<1>6. Shape'
  <2>1. Funds' = LeftCash(price)
    BY <1>2, <1>5, FundsLeft
  <2>2. Vacant' /\ NoQueues'
    BY <1>2, <1>5, <2>1 DEF Vacant, NoQueues, Queues
  <2>3. QED BY <1>5, <2>2 DEF Shape, Resting
<1>7. InTime' /\ ExitNoted' /\ DoneAtEnd' /\ LabelFits'
  BY <1>2, <1>5 DEF InTime, Flat, ExitNoted, DoneAtEnd, LabelFits
<1>8. LastExplained'
  <2>1. Record(price).exitTime = i => Traded(price)
    BY <1>1, <1>2, RecordExplained DEF Outcome
  <2>2. Record(price).exitPrice = price
    BY DEF Record
  <2>3. last'.exitTime = i' => Traded(last.exitPrice)'
    BY <1>5, <2>1, <2>2 DEF Traded
  <2>4. QED BY <1>1, <1>2, <1>5, <2>3, RecordExplained DEF LastExplained
<1>9. LastOutcome'
  <2> SUFFICES ASSUME JustStopped' PROVE LastOutcome'
    BY DEF LastOutcome
  <2>1. Stopped /\ Record(price).exitTime = i
    BY <1>5 DEF JustStopped, Stopped
  <2>2. pendingExit = NoExit
    BY <1>1, <1>2, <2>1 DEF Record
  <2>3. /\ ~(Torn /\ entry.side = "short") => OnLabelledBarrier(price)
        /\ Torn => label.label = 0 /\ Size * (price - entry.price) < 0
    BY <1>2, <2>1, <2>2 DEF Outcome
  <2>4. /\ last'.side = entry.side /\ last'.exitPrice = price
        /\ last'.gross = Size * (price - entry.price)
    BY <1>5 DEF Record
  <2>5. (Torn' <=> Torn) /\ label' = label
    BY <1>5 DEF Torn
  <2>6. OnLabelledBarrier(price) => OnLabelledBarrier(last.exitPrice)'
    BY <2>4, <2>5 DEF OnLabelledBarrier
  <2>7. ~(Torn /\ last.side = "short")' => OnLabelledBarrier(last.exitPrice)'
    BY <2>3, <2>4, <2>5, <2>6
  <2>8. Torn' => label'.label = 0 /\ last'.gross < 0
    BY <2>3, <2>4, <2>5
  <2>9. QED BY <2>7, <2>8 DEF LastOutcome
<1>10. QED BY <1>6, <1>7, <1>8, <1>9 DEF Clean

LEMMA NotifyShape ==
  ASSUME TypeOK, TypeOK', BarKnown, Clean, Notify
  PROVE  Clean'
<1>1. phase = "pass" /\ todo = <<>> /\ Passing
  BY DEF Notify, Clean, Shape
<1>2. CASE Vacant /\ label = NoScan /\ NoQueues
  <2>1. entry = NoEntry /\ notifs = <<>> /\ submitted = <<>> /\ pending = <<>>
    BY <1>2 DEF Vacant, NoQueues, Queues
  <2>2. Fold(AddNotification, BooksOf(trade, <<>>), notifs) = BooksOf(trade, <<>>)
    BY <2>1, ShortFolds
  <2>3. Fold(NotifyTrade, [entry |-> entry, pendingExit |-> pendingExit, net |-> net, last |-> last], <<>>)
          = [entry |-> entry, pendingExit |-> pendingExit, net |-> net, last |-> last]
    BY ShortFolds
  <2>4. /\ phase' = "next" /\ notifs' = <<>> /\ trade' = trade
        /\ UNCHANGED <<cash, position, submitted, pending, todo, bar, i, weekEnd, weekStart, label>>
        /\ UNCHANGED <<entry, pendingExit, net, last>>
    BY <2>2, <2>3, NotifyFrame
  <2>5. Shape'
    <3>1. Vacant' /\ NoQueues'
      BY <1>2, <2>4 DEF Vacant, NoQueues, Queues, Funds
    <3>2. QED BY <2>4, <3>1 DEF Shape, Resting
  <2>6. LastOutcome'
    <3>1. label'.barrier = "none"
      BY <1>2, <2>4 DEF NoScan, Barriers
    <3>2. QED BY <3>1 DEF LastOutcome, JustStopped
  <2>7. InTime' /\ ExitNoted' /\ DoneAtEnd' /\ LabelFits'
    BY <1>2, <2>1, <2>4 DEF Clean, InTime, Vacant, Flat, ExitNoted, DoneAtEnd, LabelFits
  <2>8. LastExplained'
    BY <1>1, <2>4, LastBefore
  <2>9. QED BY <2>5, <2>6, <2>7, <2>8 DEF Clean
<1>3. ~(Awaited(i - 1) /\ Queues(<<>>, <<>>, EntryOrders, <<>>))
  BY <1>1 DEF Queues, EntryOrders
<1>4. ~(Leaving(i - 1) /\ Queues(<<>>, <<>>, <<ExitOrder>>, <<>>))
  BY <1>1 DEF Queues
<1>5. QED BY <1>1, <1>2, <1>3, <1>4, NotifyHolds, NotifyRecords DEF Passing

-----------------------------------------------------------------------------
(* The decision at the close *)

\* One position at a time: an entry is refused while one is held, and the strategy
\* does not close on a bar that closes a week.
OneAtATime == ~ClosingBarExits /\ (MaxPositionsPerSymbol = 1 \/ MaxOpenPositions = 1)

LEMMA NoSecondEntry ==
  ASSUME OneAtATime, position.size # 0, NEW action \in Entries
  PROVE  Quantities(action) = {}
<1> DEFINE p == [symbol |-> Symbol, quantity |-> position.size]
<1>1. OpenPositions = {p}
  BY DEF OpenPositions
<1>2. OnSymbol(Symbol, OpenPositions) = {p}
  BY <1>1 DEF OnSymbol
<1>3. Cardinality({p}) = 1
  BY FS_Singleton
<1> HIDE DEF p
<1>4. ~PositionRoom(Symbol, OpenPositions)
  BY <1>1, <1>2, <1>3 DEF PositionRoom, OneAtATime
<1>5. action # "EXIT"
  BY DEF Entries
<1>6. QED BY <1>4, <1>5 DEF Quantities, Evaluate

\* The forced close.
Ends == /\ entry # NoEntry /\ position.size # 0 /\ entry.time # i
        /\ weekEnd \/ i = Bars - 1

ClosesOut ==
  /\ pending' = <<>> /\ submitted' = Append(submitted, Market(-position.size))
  /\ entry' = entry /\ pendingExit' = [time |-> i, price |-> bar.close]
  /\ label' = IF entry = NoEntry THEN NoScan ELSE label

LEMMA ClosedOut ==
  ASSUME NEW p, NEW s, NEW e, NEW x, NEW l,
         NEW b, b = [pending |-> p, submitted |-> s, entry |-> e, pendingExit |-> x, label |-> l]
  PROVE  /\ CloseOut(b).pending = <<>>
         /\ CloseOut(b).submitted = Append(s, Market(-position.size))
         /\ CloseOut(b).entry = e /\ CloseOut(b).label = l
         /\ CloseOut(b).pendingExit = [time |-> i, price |-> bar.close]
<1> DEFINE c == CancelLive(b)
           exit == [time |-> i, price |-> bar.close]
           queue == Append(c.submitted, Market(-position.size))
<1>1. c = [pending |-> <<>>, submitted |-> s, entry |-> e, pendingExit |-> x, label |-> l]
  BY DEF CancelLive
<1>2. CloseOut(b) = [c EXCEPT !.pendingExit = exit, !.submitted = queue]
  BY DEF CloseOut
<1>3. queue = Append(s, Market(-position.size))
  BY <1>1
<1> HIDE DEF c, exit, queue
<1>4. /\ CloseOut(b).pending = <<>> /\ CloseOut(b).submitted = queue
      /\ CloseOut(b).entry = e /\ CloseOut(b).label = l /\ CloseOut(b).pendingExit = exit
  BY <1>1, <1>2
<1>5. QED BY <1>3, <1>4 DEF exit

LEMMA DecideNothing ==
  ASSUME NEW distance, Decide({}, distance)
  PROVE  /\ Ends => ClosesOut
         /\ ~Ends => /\ UNCHANGED <<pending, submitted, entry, pendingExit>>
                     /\ label' = IF entry = NoEntry THEN NoScan ELSE label
<1> DEFINE b0 == [pending |-> pending, submitted |-> submitted, entry |-> entry,
                  pendingExit |-> pendingExit, label |-> label]
           b2 == IF MustClose(b0) THEN CloseOut(b0) ELSE b0
<1>1. /\ pending' = b2.pending /\ submitted' = b2.submitted /\ entry' = b2.entry
      /\ pendingExit' = b2.pendingExit
      /\ label' = IF b2.entry = NoEntry THEN NoScan ELSE b2.label
  BY DEF Decide
<1>2. MustClose(b0) <=> Ends
  BY DEF MustClose, Ends
<1>3. /\ CloseOut(b0).pending = <<>>
      /\ CloseOut(b0).submitted = Append(submitted, Market(-position.size))
      /\ CloseOut(b0).entry = entry /\ CloseOut(b0).label = label
      /\ CloseOut(b0).pendingExit = [time |-> i, price |-> bar.close]
  BY ClosedOut
<1>4. CASE Ends
  BY <1>1, <1>2, <1>3, <1>4 DEF ClosesOut
<1>5. CASE ~Ends
  BY <1>1, <1>2, <1>5
<1>6. QED BY <1>4, <1>5

LEMMA DecideExits ==
  ASSUME position.size # 0, ~weekEnd, i # Bars - 1,
         NEW quantities, quantities # {}, NEW distance, Decide(quantities, distance)
  PROVE  ClosesOut
<1> DEFINE b0 == [pending |-> pending, submitted |-> submitted, entry |-> entry,
                  pendingExit |-> pendingExit, label |-> label]
           b1 == CloseOut(b0)
           b2 == IF MustClose(b1) THEN CloseOut(b1) ELSE b1
<1>1. /\ pending' = b2.pending /\ submitted' = b2.submitted /\ entry' = b2.entry
      /\ pendingExit' = b2.pendingExit
      /\ label' = IF b2.entry = NoEntry THEN NoScan ELSE b2.label
  BY DEF Decide, Apply
<1>2. ~MustClose(b1)
  BY DEF MustClose
<1>3. /\ b1.pending = <<>> /\ b1.submitted = Append(submitted, Market(-position.size))
      /\ b1.entry = entry /\ b1.label = label
      /\ b1.pendingExit = [time |-> i, price |-> bar.close]
  BY ClosedOut
<1> HIDE DEF b1
<1>4. QED BY <1>1, <1>2, <1>3 DEF ClosesOut

LEMMA DecideEnters ==
  ASSUME position.size = 0, NEW quantities, quantities # {}, NEW distance, Decide(quantities, distance)
  PROVE  \E q \in quantities :
           /\ entry' = [side |-> IF q > 0 THEN "long" ELSE "short", time |-> i,
                        price |-> bar.close, size |-> Magnitude(q)]
           /\ submitted' = submitted \o <<Market(q)>> \o BarrierOrders(q, distance)
           /\ pending' = pending /\ pendingExit' = pendingExit
           /\ entry' # NoEntry => label' = Barriers(bar.close, distance)
<1> DEFINE b0 == [pending |-> pending, submitted |-> submitted, entry |-> entry,
                  pendingExit |-> pendingExit, label |-> label]
           q == CHOOSE q \in quantities : TRUE
           e == [side |-> IF q > 0 THEN "long" ELSE "short", time |-> i,
                 price |-> bar.close, size |-> Magnitude(q)]
           b1 == Apply(b0, q, distance)
           b2 == IF MustClose(b1) THEN CloseOut(b1) ELSE b1
<1>1. q \in quantities
  OBVIOUS
<1>2. /\ pending' = b2.pending /\ submitted' = b2.submitted /\ entry' = b2.entry
      /\ pendingExit' = b2.pendingExit
      /\ label' = IF b2.entry = NoEntry THEN NoScan ELSE b2.label
  BY DEF Decide
<1>3. ~MustClose(b1)
  BY DEF MustClose
<1> HIDE DEF q
<1>4. b1 = [pending |-> pending, submitted |-> submitted \o <<Market(q)>> \o BarrierOrders(q, distance),
            entry |-> e, pendingExit |-> pendingExit, label |-> Barriers(bar.close, distance)]
  BY DEF Apply
<1> HIDE DEF b1, e
<1>5. /\ b1.pending = pending /\ b1.entry = e /\ b1.pendingExit = pendingExit
      /\ b1.submitted = submitted \o <<Market(q)>> \o BarrierOrders(q, distance)
      /\ b1.label = Barriers(bar.close, distance)
  BY <1>4
<1>6. b2 = b1
  BY <1>3
<1>7. QED BY <1>1, <1>2, <1>5, <1>6 DEF e

LEMMA NextBarFrame ==
  ASSUME TypeOK, BarKnown, Clean, NextBar
  PROVE  /\ phase = "next" /\ phase' = "feed" /\ i \in Nat /\ i < Bars
         /\ bar.close \in Prices /\ bar.close \in Nat
         /\ UNCHANGED <<cash, position, todo, notifs, bar, i, weekEnd, weekStart, trade, net, last, rejected>>
         /\ Resting /\ LabelFits /\ LastExplained
         /\ LastExplained' /\ LastOutcome' /\ DoneAtEnd'
<1>1. /\ phase = "next" /\ phase' = "feed" /\ i \in Nat /\ i < Bars
      /\ bar.close \in Prices /\ bar.close \in Nat
      /\ UNCHANGED <<cash, position, todo, notifs, bar, i, weekEnd, weekStart, trade, net, last, rejected>>
  BY BridgeAssumption DEF NextBar, BarKnown, TypeOK
<1>2. Resting /\ LabelFits /\ LastExplained
  BY <1>1 DEF Clean, Shape
<1>3. LastExplained' /\ LastOutcome' /\ DoneAtEnd'
  BY <1>1, <1>2 DEF LastExplained, LastOutcome, JustStopped, DoneAtEnd
<1>4. QED BY <1>1, <1>2, <1>3

LEMMA Concats ==
  ASSUME NEW a, NEW b, NEW c
  PROVE  <<>> \o <<a>> \o <<>> = <<a>> /\ <<>> \o <<a>> \o <<b, c>> = <<a, b, c>>
<1> DEFINE S == {a, b, c}
<1>1. a \in S /\ b \in S /\ c \in S
  OBVIOUS
<1> HIDE DEF S
<1>2. <<a>> \in Seq(S) /\ <<b, c>> \in Seq(S) /\ <<a, b, c>> \in Seq(S)
  BY <1>1
<1>3. <<>> \o <<a>> = <<a>> /\ <<a>> \o <<>> = <<a>>
  BY <1>2, ConcatEmptySeq
<1>4. <<a>> \o <<b, c>> = <<a, b, c>>
  <2>1. <<a>> \o <<b, c>> \in Seq(S) /\ Len(<<a>> \o <<b, c>>) = 3 /\ Len(<<a, b, c>>) = 3
    BY <1>2
  <2>2. \A k \in 1 .. 3 : (<<a>> \o <<b, c>>)[k] = <<a, b, c>>[k]
    BY <1>2
  <2>3. QED BY <1>2, <2>1, <2>2, SeqEqual
<1>5. QED BY <1>3, <1>4

\* An entry is decided: what it submits.
LEMMA EntrySubmits ==
  ASSUME TypeOK, i \in Nat, bar.close \in Nat, NEW q \in Int, q # 0, NEW d \in Nat,
         entry' = [side |-> IF q > 0 THEN "long" ELSE "short", time |-> i,
                   price |-> bar.close, size |-> Magnitude(q)],
         label' = Barriers(bar.close, d), submitted = <<>>,
         submitted' = submitted \o <<Market(q)>> \o BarrierOrders(q, d)
  PROVE  submitted' = EntryOrders' /\ Size' = q
<1>1. /\ entry'.side = IF q > 0 THEN "long" ELSE "short"
      /\ entry'.time = i /\ entry'.price = bar.close /\ entry'.size = Magnitude(q)
  OBVIOUS
<1>2. Size' = q
  BY <1>1 DEF Size, Magnitude
<1>3. label'.close = bar.close /\ label'.upper = bar.close + d /\ label'.lower = bar.close - d
  BY DEF Barriers
<1>4. Bounded' <=> d # 0
  BY <1>3 DEF Bounded
<1>5. EntryOrder' = Market(q)
  BY <1>1, <1>2 DEF EntryOrder, Market
<1> DEFINE away == IF q > 0 THEN d ELSE -d
<1>6. StopPrice' = bar.close - away /\ LimitPrice' = bar.close + away
  BY <1>1, <1>3 DEF StopPrice, LimitPrice
<1>7. /\ StopOrder' = Order("Stop", -q, bar.close - away, i + 1)
      /\ LimitOrder' = Order("Limit", -q, bar.close + away, i + 1)
  BY <1>1, <1>2, <1>6 DEF StopOrder, LimitOrder
<1> HIDE DEF away
<1>8. BarrierOrders(q, d) = IF d = 0 THEN <<>> ELSE <<StopOrder', LimitOrder'>>
  BY <1>7 DEF BarrierOrders, away
<1>9. EntryOrders' = IF d = 0 THEN <<Market(q)>> ELSE <<Market(q), StopOrder', LimitOrder'>>
  BY <1>4, <1>5 DEF EntryOrders
<1>10. submitted' = <<>> \o <<Market(q)>> \o BarrierOrders(q, d)
  OBVIOUS
<1>11. \A a, b, c : <<>> \o <<a>> \o <<>> = <<a>> /\ <<>> \o <<a>> \o <<b, c>> = <<a, b, c>>
  BY Concats
<1>12. QED BY <1>2, <1>8, <1>9, <1>10, <1>11

LEMMA NextBarVacant ==
  ASSUME TypeOK, BarKnown, Clean, NextBar, Vacant, NoQueues
  PROVE  Clean'
<1>1. /\ entry = NoEntry /\ pendingExit = NoExit /\ position = Flat /\ position.size = 0
      /\ trade = NoTrade /\ cash = Funds
      /\ submitted = <<>> /\ pending = <<>> /\ todo = <<>> /\ notifs = <<>>
  BY DEF Vacant, NoQueues, Queues, Flat
<1>2. ASSUME NEW distance, Decide({}, distance) PROVE Clean'
  <2>1. /\ UNCHANGED <<pending, submitted, entry, pendingExit>> /\ label' = NoScan
    BY <1>1, <1>2, DecideNothing DEF Ends
  <2>2. Between(i)'
    BY <1>1, <2>1, NextBarFrame DEF Between, Vacant, NoQueues, Queues, Funds
  <2>3. InTime' /\ ExitNoted' /\ LabelFits'
    BY <1>1, <2>1, NextBarFrame DEF InTime, ExitNoted, LabelFits
  <2>4. QED BY <2>2, <2>3, NextBarFrame DEF Clean, Shape
<1>3. ASSUME NEW s \in Signals, Quantities(s.action) # {}, Decide(Quantities(s.action), s.distance)
      PROVE  Clean'
  <2>1. s.action \in Actions /\ s.distance \in Nat
    BY BridgeAssumption
  <2>2. s.action \in Entries
    BY <1>1, <1>3, <2>1, QuantitiesOf DEF TypeOK, Actions
  <2>3. PICK q \in Quantities(s.action) :
          /\ entry' = [side |-> IF q > 0 THEN "long" ELSE "short", time |-> i,
                       price |-> bar.close, size |-> Magnitude(q)]
          /\ submitted' = submitted \o <<Market(q)>> \o BarrierOrders(q, s.distance)
          /\ pending' = pending /\ pendingExit' = pendingExit
          /\ entry' # NoEntry => label' = Barriers(bar.close, s.distance)
    BY <1>1, <1>3, DecideEnters
  <2>4. q \in Int /\ q # 0
    <3>1. q \in {MaxPositionSize, -MaxPositionSize}
      BY <2>1, <2>2, <2>3, QuantitiesOf DEF TypeOK
    <3>2. QED BY <3>1, LimitsAssumption
  <2>5. entry' # NoEntry /\ entry'.time = i /\ entry'.price = bar.close
    BY <2>3 DEF NoEntry
  <2>6. label' = Barriers(bar.close, s.distance)
    BY <2>3, <2>5
  <2>7. submitted' = EntryOrders'
    BY <1>1, <2>1, <2>3, <2>4, <2>6, NextBarFrame, EntrySubmits
  <2>8. Between(i)'
    BY <1>1, <2>3, <2>5, <2>7, NextBarFrame DEF Between, Awaited, Queues, Funds
  <2>9. InTime' /\ ExitNoted'
    BY <1>1, <2>3, NextBarFrame DEF InTime, ExitNoted
  <2>10. LabelFits'
    <3>1. /\ label'.close = bar.close /\ label'.upper = bar.close + s.distance
          /\ label'.lower = bar.close - s.distance /\ label'.barrier = "open"
      BY <2>6 DEF Barriers
    <3>2. QED BY <2>2, <2>5, <3>1, NextBarFrame DEF LabelFits
  <2>11. QED BY <2>8, <2>9, <2>10, NextBarFrame DEF Clean, Shape
<1>4. \/ Decide({}, 0)
      \/ \E s \in Signals : Decide(Quantities(s.action), s.distance)
  BY DEF NextBar, Quantities
<1>5. QED BY <1>2, <1>3, <1>4

LEMMA NextBarHeld ==
  ASSUME TypeOK, BarKnown, Clean, NextBar, OneAtATime, Held(i), Queues(<<>>, Guards, <<>>, <<>>)
  PROVE  Clean'
<1>1. /\ entry # NoEntry /\ entry.time < i /\ pendingExit = NoExit
      /\ position = HeldPosition /\ trade = HeldTrade /\ cash = HeldCash
      /\ submitted = <<>> /\ pending = Guards /\ todo = <<>> /\ notifs = <<>>
  BY DEF Held, Queues
<1>2. position.size = Size /\ Size # 0 /\ Size \in Int
  BY <1>1, SizeFacts DEF HeldPosition
<1>3. Bounded => label.barrier \in {"open", "time"}
  BY <1>1, NextBarFrame DEF LabelFits
<1>4. ASSUME ClosesOut PROVE Clean'
  <2>1. /\ pending' = <<>> /\ submitted' = Append(<<>>, Market(-Size)) /\ entry' = entry
        /\ pendingExit' = [time |-> i, price |-> bar.close] /\ label' = label
    BY <1>1, <1>2, <1>4 DEF ClosesOut
  <2>2. Size' = Size
    BY <2>1 DEF Size
  <2>3. HeldPosition' = HeldPosition /\ HeldTrade' = HeldTrade /\ HeldCash' = HeldCash
    BY <2>1, <2>2, NextBarFrame DEF HeldPosition, HeldTrade, HeldCash, Funds
  <2>4. pendingExit' # NoExit /\ pendingExit'.time = i /\ pendingExit'.price = bar.close
    BY <2>1, NextBarFrame DEF NoExit
  <2>5. submitted' = <<ExitOrder'>>
    <3>1. ExitOrder' = Market(-Size)
      BY <2>2, <2>4 DEF ExitOrder, Market
    <3>2. \A o : Append(<<>>, o) = <<o>>
      OBVIOUS
    <3>3. QED BY <2>1, <3>1, <3>2
  <2>6. Between(i)'
    BY <1>1, <2>1, <2>3, <2>4, <2>5, NextBarFrame DEF Between, Leaving, Queues
  <2>7. InTime' /\ ExitNoted'
    BY <2>4, NextBarFrame DEF InTime, ExitNoted
  <2>8. LabelFits'
    BY <1>1, <1>3, <2>1, NextBarFrame DEF LabelFits, Bounded
  <2>9. QED BY <2>6, <2>7, <2>8, NextBarFrame DEF Clean, Shape
<1>5. ASSUME ~Ends, UNCHANGED <<pending, submitted, entry, pendingExit>>, label' = label
      PROVE  Clean'
  <2>1. SameEntry
    BY <1>5, NextBarFrame DEF SameEntry
  <2>2. Between(i)'
    BY <1>1, <1>5, <2>1, NextBarFrame, SameOrders DEF Between, Held, Queues
  <2>3. InTime' /\ ExitNoted'
    BY <1>1, <1>5, NextBarFrame DEF InTime, ExitNoted, Ends, Closing
  <2>4. LabelFits'
    BY <1>1, <1>3, <1>5, NextBarFrame DEF LabelFits, Bounded
  <2>5. QED BY <2>2, <2>3, <2>4, NextBarFrame DEF Clean, Shape
<1>6. ASSUME NEW distance, Decide({}, distance) PROVE Clean'
  BY <1>1, <1>4, <1>5, <1>6, DecideNothing
<1>7. ASSUME NEW s \in Signals, s.action = "EXIT" /\ ~ClosingBarExits => ~weekEnd /\ i < Bars - 1,
             Quantities(s.action) # {}, Decide(Quantities(s.action), s.distance)
      PROVE  Clean'
  <2>1. s.action \in Actions
    BY BridgeAssumption
  <2>2. s.action = "EXIT"
    BY <1>2, <1>7, <2>1, NoSecondEntry DEF Actions
  <2>3. ~weekEnd /\ i # Bars - 1
    BY <1>7, <2>2, NextBarFrame, BridgeAssumption DEF OneAtATime
  <2>4. ClosesOut
    BY <1>2, <1>7, <2>3, DecideExits
  <2>5. QED BY <1>4, <2>4
<1>8. \/ Decide({}, 0)
      \/ \E s \in Signals :
           /\ s.action = "EXIT" /\ ~ClosingBarExits => ~weekEnd /\ i < Bars - 1
           /\ Decide(Quantities(s.action), s.distance)
  BY DEF NextBar, Quantities
<1>9. QED BY <1>6, <1>7, <1>8

LEMMA NextBarShape ==
  ASSUME TypeOK, BarKnown, Clean, NextBar, OneAtATime
  PROVE  Clean'
BY NextBarFrame, NextBarVacant, NextBarHeld DEF Resting

\* The phantom bar, and the end.
LEMMA PhantomShape ==
  ASSUME Clean, Phantom
  PROVE  Clean'
<1>1. /\ phase = "next" /\ phase' = "done" /\ i = Bars
      /\ UNCHANGED <<cash, position, submitted, pending, todo, notifs, bar, i, weekEnd, weekStart,
                     entry, pendingExit, trade, net, last, rejected, label>>
  BY DEF Phantom, brokerVars, bridgeVars
<1>2. SameEntry
  BY <1>1 DEF SameEntry
<1>3. Shape'
  <2>1. Resting
    BY <1>1 DEF Clean, Shape
  <2>2. Resting'
    <3>1. CASE Vacant /\ NoQueues
      BY <1>1, <3>1 DEF Resting, Vacant, NoQueues, Queues, Funds
    <3>2. CASE Held(i) /\ Queues(<<>>, Guards, <<>>, <<>>)
      BY <1>1, <1>2, <3>2, SameOrders DEF Resting, Held, Queues
    <3>3. QED BY <2>1, <3>1, <3>2 DEF Resting
  <2>3. QED BY <1>1, <2>2 DEF Shape
<1>4. InTime' /\ ExitNoted' /\ LastExplained' /\ LastOutcome' /\ DoneAtEnd'
  BY <1>1 DEF Clean, InTime, Closing, ExitNoted, LastExplained, LastOutcome, JustStopped, DoneAtEnd
<1>5. LabelFits'
  BY <1>1, <1>2, SameOrders DEF Clean, LabelFits
<1>6. QED BY <1>3, <1>4, <1>5 DEF Clean

LEMMA SameClean ==
  ASSUME Clean, UNCHANGED vars
  PROVE  Clean'
<1>1. UNCHANGED <<cash, position, submitted, pending, todo, notifs, bar, phase, i, weekEnd, weekStart,
                  entry, pendingExit, trade, net, last, rejected, label>>
  BY DEF vars, brokerVars, bridgeVars
<1>2. SameEntry
  BY <1>1 DEF SameEntry
<1>3. UNCHANGED <<Size, HeldPosition, HeldTrade, StopOrder, LimitOrder, ExitOrder, Guards, EntryOrders,
                  OpenFill, Funds, HeldCash>>
      /\ (Bounded' <=> Bounded)
  BY <1>2, SameOrders
<1>4. Between(i) => Between(i)'
  BY <1>1, <1>3 DEF Between, Vacant, NoQueues, Awaited, Held, Leaving, Queues, Funds
<1>5. Between(i - 1) => Between(i - 1)'
  BY <1>1, <1>3 DEF Between, Vacant, NoQueues, Awaited, Held, Leaving, Queues, Funds
<1>6. Resting => Resting'
  BY <1>1, <1>3 DEF Resting, Vacant, NoQueues, Held, Queues
<1>7. Passing => Passing'
  <2>1. ASSUME NEW price \in Nat, Over(price) PROVE Over(price)'
    <3>1. /\ entry # NoEntry /\ position = Flat /\ cash = LeftCash(price)
          /\ submitted = <<>> /\ pending = <<>> /\ todo = <<>>
          /\ \/ entry.time < i - 1 /\ trade = HeldTrade /\ notifs = <<CloseFill(price)>>
             \/ /\ entry.time = i - 1 /\ trade = NoTrade /\ pendingExit = NoExit
                /\ notifs = <<OpenFill, CloseFill(price)>>
          /\ \/ pendingExit = NoExit /\ Bounded /\ Outcome(price)
             \/ pendingExit # NoExit /\ pendingExit.time = i - 1 /\ pendingExit.price = price
      BY <2>1 DEF Over, Queues
    <3>2. QED BY <1>1, <1>2, <3>1, OverNext
  <2>2. Guarding(<<>>) => Guarding(<<>>)'
    BY <1>1, <1>2, <1>3, SameFills DEF Guarding, Queues
  <2>3. Guarding(<<OpenFill>>) => Guarding(<<OpenFill>>)'
    BY <1>1, <1>2, <1>3, SameFills DEF Guarding, Queues
  <2>4. QED BY <1>1, <1>3, <2>1, <2>2, <2>3
            DEF Passing, Vacant, NoQueues, Awaited, Opened, Held, Leaving, Queues
<1>8. Shape'
  BY <1>1, <1>4, <1>5, <1>6, <1>7 DEF Clean, Shape
<1>9. InTime' /\ ExitNoted' /\ LastExplained' /\ LastOutcome' /\ DoneAtEnd'
  BY <1>1 DEF Clean, InTime, Closing, ExitNoted, LastExplained, LastOutcome, JustStopped, DoneAtEnd,
              OnLabelledBarrier, Torn, Traded
<1>10. LabelFits'
  BY <1>1, <1>3 DEF Clean, LabelFits
<1>11. QED BY <1>8, <1>9, <1>10 DEF Clean

-----------------------------------------------------------------------------
(* The invariant, and what follows *)

LEMMA InitClean == Init => Clean
<1> SUFFICES ASSUME Init PROVE Clean
  OBVIOUS
<1>1. /\ cash = InitialCapital * Leverage /\ position = Flat /\ submitted = <<>> /\ pending = <<>>
      /\ todo = <<>> /\ notifs = <<>> /\ phase = "feed" /\ i = -1
      /\ entry = NoEntry /\ pendingExit = NoExit /\ trade = NoTrade /\ net = 0
      /\ last = NoRecord /\ label = NoScan
  BY DEF Init, BrokerInit
<1>2. Funds = InitialCapital * Leverage
  <2>1. InitialCapital + 0 = InitialCapital
    BY BrokerAssumption
  <2>2. QED BY <1>1, <2>1 DEF Funds
<1>3. Vacant /\ NoQueues
  BY <1>1, <1>2 DEF Vacant, NoQueues, Queues
<1>4. Shape
  BY <1>1, <1>3 DEF Shape, Between
<1>5. InTime /\ ExitNoted /\ LabelFits /\ LastExplained /\ LastOutcome /\ DoneAtEnd
  BY <1>1 DEF InTime, Flat, ExitNoted, LabelFits, LastExplained, LastOutcome, JustStopped, DoneAtEnd
<1>6. QED BY <1>4, <1>5 DEF Clean

LEMMA NextClean ==
  OneAtATime /\ TypeOK /\ BarKnown /\ QuietInv /\ [Next]_vars => QuietInv'
<1> SUFFICES ASSUME OneAtATime, TypeOK, BarKnown, QuietInv, [Next]_vars, Quiet' PROVE Clean'
  BY DEF QuietInv
<1>1. TypeOK' /\ BarKnown'
  BY TypeNext
<1>2. Clean
  BY QuietBefore DEF QuietInv
<1>3. CASE Advance
  BY <1>1, <1>2, <1>3, AdvanceShape
<1>4. CASE Broker
  BY <1>2, <1>4, BrokerShape
<1>5. CASE Pass
  BY <1>2, <1>5, PassShape
<1>6. CASE Notify
  BY <1>1, <1>2, <1>6, NotifyShape
<1>7. CASE NextBar
  BY <1>2, <1>7, NextBarShape
<1>8. CASE Phantom
  BY <1>2, <1>8, PhantomShape
<1>9. CASE UNCHANGED vars
  BY <1>2, <1>9, SameClean
<1>10. QED BY <1>3, <1>4, <1>5, <1>6, <1>7, <1>8, <1>9 DEF Next, Finished

\* The invariant of a backtest in which nothing is refused: between two bars, and between
\* two orders of one bar, the queues, the position, the trade and the cash are those of
\* no position, of an entry under way, of a position and its barriers, or of one that
\* has just closed (BackBroker.next, _StrategyBridge.next).
THEOREM QuietShape ==
  ASSUME OneAtATime
  PROVE  Spec => [](TypeOK /\ QuietInv)
<1>1. Init => TypeOK /\ BarKnown /\ QuietInv
  BY TypeInit, InitClean DEF QuietInv
<1>2. TypeOK /\ BarKnown /\ QuietInv /\ [Next]_vars => (TypeOK /\ BarKnown /\ QuietInv)'
  BY TypeNext, NextClean
<1>3. QED BY <1>1, <1>2, PTL DEF Spec

\* The value of the account, with a position open at a price.
LEMMA AccountHeld ==
  ASSUME TypeOK, BarKnown, i >= 0, entry # NoEntry, position = HeldPosition, trade = HeldTrade,
         cash = HeldCash
  PROVE  AccountValue(bar.close) = (InitialCapital + net + OpenResult) * Leverage
<1> DEFINE gain == Size * (bar.close - entry.price)
           cost == Commission(Size)
           worth == Size * entry.price
           value == Size * bar.close
           L == Leverage
<1>1. /\ Size \in Int /\ Size # 0 /\ entry.price \in Nat /\ bar.close \in Nat /\ bar.close > 0
      /\ cost \in Int /\ L \in Nat \ {0}
  <2>1. Size \in Int /\ Size # 0 /\ entry.price \in Nat
    BY SizeFacts
  <2>2. cost \in Int
    BY <2>1, CommissionType
  <2>3. bar.close \in Prices
    BY DEF BarKnown
  <2>4. bar.close \in Nat /\ bar.close > 0
    <3>1. \A p \in Prices : p \in Nat /\ p > 0
      BY BridgeAssumption
    <3>2. QED BY <2>3, <3>1
  <2>5. L \in Nat \ {0}
    BY BrokerAssumption
  <2>6. QED BY <2>1, <2>2, <2>4, <2>5
<1>2. gain \in Int /\ worth \in Int /\ value \in Int
  <2>1. bar.close - entry.price \in Int
    BY <1>1
  <2>2. QED BY <1>1, <2>1, Products
<1>3. gain = value - worth
  <2>1. (bar.close - entry.price) * Size = bar.close * Size - entry.price * Size
    BY <1>1, Distribute
  <2>2. \A a, b \in Int : a * b = b * a
    OBVIOUS
  <2>3. bar.close - entry.price \in Int
    BY <1>1
  <2>4. QED BY <1>1, <2>1, <2>2, <2>3
<1>4. /\ position.size = Size /\ position.price = entry.price
      /\ trade.pnl = 0 /\ trade.commission = cost
  BY DEF HeldPosition, HeldTrade
<1>5. OpenResult = gain - cost
  <2>1. OpenResult = 0 - cost + gain
    BY <1>4 DEF OpenResult, ProfitAndLoss
  <2> HIDE DEF gain, cost
  <2>2. QED BY <1>1, <1>2, <2>1
<1>6. cash = Funds - (Levered(worth) + cost * L)
  BY <1>1 DEF HeldCash, OpenCash
<1>7. Funds \in Int /\ cost * L \in Int /\ gain * L \in Int
  <2>1. Funds \in Int
    <3>1. InitialCapital + net \in Int
      BY BrokerAssumption DEF TypeOK
    <3>2. QED BY <1>1, <3>1, Products DEF Funds
  <2>2. QED BY <1>1, <1>2, <2>1, Products
<1>8. (InitialCapital + net + OpenResult) * L = Funds + (gain * L - cost * L)
  <2> HIDE DEF gain, cost
  <2>1. InitialCapital + net \in Int
    BY BrokerAssumption DEF TypeOK
  <2>2. gain - cost \in Int /\ (gain - cost) * L = gain * L - cost * L
    BY <1>1, <1>2, Distribute
  <2>3. ((InitialCapital + net) + (gain - cost)) * L = (InitialCapital + net) * L + (gain - cost) * L
    BY <1>1, <2>1, <2>2, Distribute
  <2>4. QED BY <1>5, <2>2, <2>3 DEF Funds
<1>9. AccountValue(bar.close) = cash + IF value > 0 THEN worth + gain * L ELSE value * L
  BY <1>4 DEF AccountValue, ProfitAndLoss
<1>10. CASE Size > 0
  <2>1. worth >= 0 /\ value > 0
    BY <1>1, <1>10
  <2>2. Levered(worth) = worth
    <3>1. worth = 0 => worth * L = 0
      BY <1>1
    <3> HIDE DEF worth
    <3>2. QED BY <1>2, <2>1, <3>1 DEF Levered
  <2> HIDE DEF gain, cost, worth, value, L
  <2>3. QED BY <1>2, <1>6, <1>7, <1>8, <1>9, <2>1, <2>2 DEF L
<1>11. CASE Size < 0
  <2>1. worth <= 0 /\ ~(value > 0)
    BY <1>1, <1>11
  <2>2. Levered(worth) = worth * L
    BY <1>2, <2>1 DEF Levered
  <2>3. gain * L = value * L - worth * L
    <3> HIDE DEF gain, worth, value
    <3>1. QED BY <1>1, <1>2, <1>3, Distribute
  <2>4. value * L \in Int /\ worth * L \in Int
    BY <1>1, <1>2, Products
  <2> HIDE DEF gain, cost, worth, value, L
  <2>5. QED BY <1>6, <1>7, <1>8, <1>9, <2>1, <2>2, <2>3, <2>4 DEF L
<1>12. QED BY <1>1, <1>10, <1>11

LEMMA AccountFlat ==
  ASSUME TypeOK, Vacant
  PROVE  AccountValue(bar.close) = (InitialCapital + net + OpenResult) * Leverage
<1>1. position.size = 0 /\ position.price = 0 /\ trade.pnl = 0 /\ trade.commission = 0
  BY DEF Vacant, Flat, NoTrade
<1>2. bar.close \in Int /\ Leverage \in Int /\ InitialCapital + net \in Int
  BY BrokerAssumption DEF TypeOK
<1>3. OpenResult = 0
  BY <1>1, <1>2 DEF OpenResult, ProfitAndLoss
<1>4. Funds \in Int
  BY <1>2, Products DEF Funds
<1>5. AccountValue(bar.close) = cash
  <2>1. 0 * bar.close = 0 /\ 0 * Leverage = 0 /\ cash + 0 = cash
    BY <1>2, <1>4 DEF Vacant
  <2>2. QED BY <1>1, <2>1 DEF AccountValue
<1>6. QED BY <1>2, <1>3, <1>5 DEF Vacant, Funds

\* Every unit of money is accounted for: at each close the value of the account is the
\* initial capital, plus the net results recorded, plus the result of the open trade,
\* for any leverage, any cost and either side (BackBroker._get_value against
\* _StrategyBridge.trades).
THEOREM MoneyConservedHolds ==
  ASSUME OneAtATime
  PROVE  Spec => []MoneyConserved
<1>1. TypeOK /\ BarKnown /\ QuietInv => MoneyConserved
  <2> SUFFICES ASSUME TypeOK, BarKnown, QuietInv, Quiet, phase \in {"next", "done"}
               PROVE  AccountValue(bar.close) = (InitialCapital + net + OpenResult) * Leverage
    BY DEF MoneyConserved
  <2>1. Resting /\ i >= 0
    BY BridgeAssumption DEF QuietInv, Clean, Shape, DoneAtEnd, BarKnown
  <2>2. QED BY <2>1, AccountHeld, AccountFlat DEF Resting, Held
<1>2. Spec => [](TypeOK /\ BarKnown)
  BY TypeInit, TypeNext, PTL DEF Spec
<1>3. QED BY <1>1, <1>2, QuietShape, PTL

\* Between two bars a position entered with barriers has its stop and its target at the
\* broker, or its close on the way; an account without position and without entry has
\* no order that could open one (_apply_order, _cancel_live, _ococheck).
THEOREM BarriersGuardPositionHolds ==
  ASSUME OneAtATime
  PROVE  Spec => []BarriersGuardPosition
<1>1. TypeOK /\ QuietInv => BarriersGuardPosition
  <2> SUFFICES ASSUME TypeOK, QuietInv, Quiet, phase = "feed"
               PROVE  /\ position.size # 0 /\ label # NoScan /\ label.upper # label.close
                           => Guarded(position.size)
                      /\ position.size = 0 /\ entry = NoEntry => pending \o submitted = <<>>
    BY DEF BarriersGuardPosition
  <2>1. Between(i) /\ ExitNoted
    BY DEF QuietInv, Clean, Shape
  <2>2. CASE Vacant /\ NoQueues
    BY <2>2 DEF Vacant, NoQueues, Queues, Flat
  <2>3. CASE Awaited(i)
    BY <2>3 DEF Awaited, Flat
  <2>4. CASE Held(i) /\ Queues(<<>>, Guards, <<>>, <<>>)
    <3>1. entry # NoEntry /\ position.size = Size /\ pending = Guards
      BY <2>4 DEF Held, HeldPosition, Queues
    <3>2. ASSUME label.upper # label.close PROVE Guarded(position.size)
      <4>1. pending = <<StopOrder, LimitOrder>>
        BY <3>1, <3>2 DEF Guards, Bounded
      <4>2. 1 \in DOMAIN pending /\ pending[1] = StopOrder /\ 2 \in DOMAIN pending /\ pending[2] = LimitOrder
        BY <4>1
      <4>3. QED BY <3>1, <4>2, OrderFacts DEF Guarded
    <3>3. QED BY <3>1, <3>2
  <2>5. CASE Leaving(i) /\ Queues(<<ExitOrder>>, <<>>, <<>>, <<>>)
    <3>1. /\ entry # NoEntry /\ position.size = Size /\ submitted = <<ExitOrder>>
          /\ pendingExit # NoExit
      BY <2>5 DEF Leaving, HeldPosition, Queues
    <3>2. ExitOrder = Market(-position.size)
      BY <2>1, <3>1 DEF ExitNoted, ExitOrder, Market
    <3>3. 1 \in DOMAIN submitted /\ submitted[1] = ExitOrder
      BY <3>1
    <3>4. QED BY <3>1, <3>2, <3>3 DEF Guarded
  <2>6. QED BY <2>1, <2>2, <2>3, <2>4, <2>5 DEF Between
<1>2. QED BY <1>1, QuietShape, PTL

\* The only position a new week finds open, or the end of the history leaves open, was
\* entered on the last bar before it: the forced close of next() misses no other.
THEOREM CarriedOnlyFromTheLastBarHolds ==
  ASSUME OneAtATime
  PROVE  Spec => []CarriedOnlyFromTheLastBar
<1>1. TypeOK /\ QuietInv => CarriedOnlyFromTheLastBar
  <2> SUFFICES ASSUME TypeOK, QuietInv, Quiet, position.size # 0, phase \in {"next", "done"}
               PROVE  /\ phase = "next" /\ weekStart => entry.time = i - 1
                      /\ phase = "done" => entry.time = Bars - 1
    BY DEF CarriedOnlyFromTheLastBar
  <2>1. Resting /\ InTime /\ DoneAtEnd
    BY DEF QuietInv, Clean, Shape
  <2>2. pendingExit = NoExit
    BY <2>1 DEF Resting, Vacant, Held, Flat
  <2>3. QED BY <2>1, <2>2 DEF InTime, Closing, DoneAtEnd
<1>2. QED BY <1>1, QuietShape, PTL

\* A recorded round trip is the one that took place: the result backtrader computes from
\* the fills and the prices the bridge notes agree, it cost one spread, it did not end
\* before the bar it was entered on, and a barrier ended it at a price its bar traded
\* at (notify_trade).
THEOREM TradeIsExplainedHolds ==
  ASSUME OneAtATime
  PROVE  Spec => []TradeIsExplained
<1>1. TypeOK /\ QuietInv => TradeIsExplained
  BY DEF QuietInv, Clean, LastExplained, TradeIsExplained, Traded
<1>2. QED BY <1>1, QuietShape, PTL

\* When every entry has barriers, a position a barrier ends, ends on the barrier its
\* label names and on the very bar that decides it (triple_barrier_labels against
\* _try_exec_stop and _try_exec_limit), but for a short on a bar that reaches both:
\* there the label is 0, the win of a short, and the account is stopped out.
THEOREM LabelIsOutcomeHolds ==
  ASSUME OneAtATime, \A s \in Signals : s.action \in Entries => s.distance > 0
  PROVE  Spec => []LabelIsOutcome
<1>1. TypeOK /\ QuietInv => LabelIsOutcome
  <2> SUFFICES ASSUME TypeOK, QuietInv, Quiet PROVE LabelIsOutcome
    BY DEF LabelIsOutcome
  <2>1. LastOutcome /\ LabelFits
    BY DEF QuietInv, Clean
  <2>2. ASSUME phase = "next", i < Bars, label.barrier \in {"tp", "sl"} PROVE entry = NoEntry
    <3> SUFFICES ASSUME entry # NoEntry PROVE FALSE
      OBVIOUS
    <3>1. PICK s \in Signals : s.action \in Entries /\ label.upper = label.close + s.distance
      BY <2>1 DEF LabelFits
    <3>2. s.distance > 0 /\ s.distance \in Nat /\ label.close \in Int
      BY <3>1, BridgeAssumption DEF TypeOK, ScanType
    <3>3. Bounded
      BY <3>1, <3>2 DEF Bounded
    <3>4. QED BY <2>1, <2>2, <3>3 DEF LabelFits
  <2>3. QED BY <2>1, <2>2 DEF LabelIsOutcome, LastOutcome
<1>2. QED BY <1>1, QuietShape, PTL

-----------------------------------------------------------------------------
(* No entry without a trace *)

\* The order of an entry: nothing cancels it, and it is filled or refused.
Opens(o) == o.exectype = "Market" /\ o.oco = NoGroup /\ o.size # 0
Among(queue) == \E k \in DOMAIN queue : Opens(queue[k])
EntryAt(n) == entry # NoEntry /\ entry.time = n

\* What the strategy will be told of these notifications.
Told(nots) == Fold(AddNotification, [trade |-> trade, closed |-> <<>>, refused |-> 0], nots)

Filled(nots) == \E k \in DOMAIN nots : nots[k].kind = "Fill"

\* The trade follows the position, fill by fill; a position that was filled and is
\* no more has been closed.
Follows ==
  /\ Told(notifs).trade.size = position.size
  /\ Filled(notifs) => position.size # 0 \/ Told(notifs).closed # <<>>
  /\ phase # "pass" => notifs = <<>>

\* An entry is on its way to the broker, or the broker has answered.
Underway ==
  /\ phase = "feed" /\ EntryAt(i) => Among(submitted)
  /\ phase = "broker" /\ EntryAt(i - 1) => Among(submitted)
  /\ phase = "pass" /\ EntryAt(i - 1) => Among(todo) \/ notifs # <<>>

\* An entry is not recorded before the bar after it.
Dated ==
  /\ entry # NoEntry => entry.time <= IF phase = "feed" THEN i ELSE i - 1
  /\ last # NoRecord => last.entryTime <= IF phase \in {"broker", "pass"} THEN i - 2 ELSE i - 1

TraceInv == Follows /\ Underway /\ Dated

\* A fold of one element more.
LEMMA FoldAppend ==
  ASSUME NEW step, NEW base, NEW A, NEW s \in Seq(A), NEW x \in A
  PROVE  Fold(step, base, Append(s, x)) = step[Fold(step, base, s)][x]
<1> DEFINE t == Append(s, x)
           m == Len(s)
<1>1. /\ m \in Nat /\ Len(t) = m + 1 /\ t[m + 1] = x /\ \A n \in 1 .. m : t[n] = s[n]
  OBVIOUS
<1>2. PICK f : Fold(step, base, s) = f[m] /\ Steps(f, m, step, base, s)
  BY <1>1, FoldSteps
<1> HIDE DEF t, m
<1>3. PICK g : Fold(step, base, t) = g[m + 1] /\ Steps(g, m + 1, step, base, t)
  BY <1>1, FoldSteps
<1> DEFINE C == {n \in Nat : n <= m => f[n] = g[n]}
<1>4. 0 \in C
  BY <1>2, <1>3 DEF Steps
<1>5. ASSUME NEW n \in Nat, n \in C PROVE n + 1 \in C
  <2> SUFFICES ASSUME n + 1 <= m PROVE f[n + 1] = g[n + 1]
    BY <1>5
  <2>1. n + 1 \in 1 .. m /\ n + 1 \in 1 .. m + 1 /\ (n + 1) - 1 = n /\ n <= m
    BY <1>1
  <2>2. f[n + 1] = step[f[n]][s[n + 1]]
    BY <1>2, <2>1 DEF Steps
  <2>3. g[n + 1] = step[g[n]][t[n + 1]]
    BY <1>3, <2>1 DEF Steps
  <2>4. f[n] = g[n]
    BY <1>5, <2>1
  <2>5. QED BY <1>1, <2>1, <2>2, <2>3, <2>4
<1>6. m \in C
  <2> HIDE DEF C
  <2>1. QED BY <1>1, <1>4, <1>5, FromZeroUp
<1>7. f[m] = g[m]
  BY <1>1, <1>6
<1>8. m + 1 \in 1 .. m + 1 /\ (m + 1) - 1 = m
  BY <1>1
<1>9. g[m + 1] = step[g[m]][t[m + 1]]
  BY <1>3, <1>8 DEF Steps
<1>10. QED BY <1>1, <1>2, <1>3, <1>7, <1>9 DEF t

\* What an order's size closes and opens, and what is left when only its closing part
\* is executed.
LEMMA UpdateSizes ==
  ASSUME NEW pos \in PositionType, NEW size \in Int, NEW price
  PROVE  LET u == Update(pos, size, price)
             r == Update(pos, u.closed, price)
         IN /\ u.opened \in Int /\ u.closed \in Int /\ u.size = pos.size + size
            /\ u.opened + u.closed = size /\ (u.opened # 0 => u.size # 0)
            /\ r.size = pos.size + u.closed /\ r.closed = u.closed
<1>1. pos.size \in Int
  BY DEF PositionType
<1> DEFINE p == pos.size
           opened(n) == IF p = 0 \/ (p # 0 /\ (p > 0) = (n > 0)) THEN n
                        ELSE IF p # 0 /\ p + n # 0 /\ (p > 0) # (p + n > 0) THEN p + n ELSE 0
<1>2. \A n : /\ Update(pos, n, price).size = p + n
             /\ Update(pos, n, price).opened = opened(n)
             /\ Update(pos, n, price).closed = n - opened(n)
  BY DEF Update
<1> HIDE DEF p
<1>3. p \in Int
  BY <1>1 DEF p
<1>4. /\ opened(size) \in Int /\ size - opened(size) \in Int
      /\ opened(size) + (size - opened(size)) = size /\ (opened(size) # 0 => p + size # 0)
  BY <1>3
<1>5. opened(size - opened(size)) = 0
  BY <1>3
<1> DEFINE u == Update(pos, size, price)
           r == Update(pos, u.closed, price)
<1> HIDE DEF opened
<1>6. u.size = p + size /\ u.opened = opened(size) /\ u.closed = size - opened(size)
  BY <1>2
<1> HIDE DEF u
<1>7. /\ r.size = p + u.closed /\ r.closed = u.closed - opened(size - opened(size))
  BY <1>2, <1>6
<1>8. r.closed = u.closed
  BY <1>4, <1>5, <1>6, <1>7
<1>9. QED BY <1>4, <1>6, <1>7, <1>8 DEF p, u

\* The trade after a fill.
LEMMA FillFollows ==
  ASSUME NEW s \in Books, NEW n \in Notification, n.kind = "Fill",
         NEW size \in Int, s.trade.size + n.closed + n.opened = size,
         n.opened + n.closed # 0, n.opened # 0 => size # 0
  PROVE  LET after == AddNotification[s][n]
         IN after.trade.size = size /\ (size # 0 \/ after.closed # <<>>)
<1> DEFINE reduced == IF n.closed = 0 THEN s.trade ELSE Booked(s.trade, n.closed, n.price)
           closes == s.trade.size # 0 /\ reduced.size = 0
           base == IF closes THEN NoTrade ELSE reduced
           after == AddNotification[s][n]
<1>1. /\ s.trade.size \in Int /\ s.closed \in Seq(TradeType) /\ n.closed \in Int /\ n.opened \in Int
  BY DEF Books, TradeType, Notification
<1>2. reduced.size = s.trade.size + n.closed
  BY <1>1 DEF Booked
<1>3. base.size = s.trade.size + n.closed
  <2>1. NoTrade.size = 0
    BY DEF NoTrade
  <2> HIDE DEF reduced
  <2>2. QED BY <1>1, <1>2, <2>1
<1>4. AddNotification[s][n] =
        [s EXCEPT !.trade = IF n.opened = 0 THEN base ELSE Booked(base, n.opened, n.price),
                  !.closed = IF closes THEN Append(@, reduced) ELSE @]
  BY DEF AddNotification
<1> HIDE DEF reduced, base, closes
<1>5. /\ after.trade = IF n.opened = 0 THEN base ELSE Booked(base, n.opened, n.price)
      /\ after.closed = IF closes THEN Append(s.closed, reduced) ELSE s.closed
  BY <1>4 DEF Books
<1>6. after.trade.size = size
  <2>1. Booked(base, n.opened, n.price).size = base.size + n.opened
    BY DEF Booked
  <2>2. QED BY <1>1, <1>3, <1>5, <2>1
<1>7. ASSUME size = 0 PROVE after.closed # <<>>
  <2>0. n.opened = 0
    BY <1>7
  <2>1. n.closed # 0 /\ s.trade.size # 0 /\ reduced.size = 0
    BY <1>1, <1>2, <1>7, <2>0
  <2>2. closes
    BY <2>1 DEF closes
  <2>3. Append(s.closed, reduced) # <<>>
    BY <1>1
  <2>4. QED BY <1>5, <2>2, <2>3
<1>8. QED BY <1>6, <1>7

\* A refusal leaves trade and position as they were.
LEMMA RefusalFollows ==
  ASSUME NEW s \in Books
  PROVE  /\ AddNotification[s][Refusal].trade = s.trade
         /\ AddNotification[s][Refusal].closed = s.closed
<1>1. Refusal \in Notification /\ Refusal.kind = "Margin"
  BY DEF Refusal, Notification
<1>2. AddNotification[s][Refusal] = [s EXCEPT !.refused = @ + 1]
  BY <1>1 DEF AddNotification
<1>3. QED BY <1>2 DEF Books

LEMMA ToldType ==
  ASSUME TypeOK
  PROVE  Told(notifs) \in Books /\ notifs \in Seq(Notification)
<1> DEFINE base == [trade |-> trade, closed |-> <<>>, refused |-> 0]
<1>1. base \in Books /\ notifs \in Seq(Notification)
  BY DEF TypeOK, Books
<1> HIDE DEF base
<1>2. Fold(AddNotification, base, notifs) \in Books
  BY <1>1, AddNotificationType, FoldType
<1>3. QED BY <1>1, <1>2 DEF Told, base

LEMMA ToldMore ==
  ASSUME NEW nots \in Seq(Notification), NEW n \in Notification
  PROVE  Told(Append(nots, n)) = AddNotification[Told(nots)][n]
BY FoldAppend DEF Told

\* An order that is executed is heard of, and the trade still follows.
LEMMA ExecuteFollows ==
  ASSUME TypeOK, Follows, NEW order \in OrderType, NEW price \in Nat, Execute(order, price),
         trade' = trade
  PROVE  /\ Told(notifs').trade.size = position'.size
         /\ Filled(notifs') => position'.size # 0 \/ Told(notifs').closed # <<>>
         /\ order.size # 0 \/ notifs # <<>> => notifs' # <<>>
<1> DEFINE u == Update(position, order.size, price)
           pnl == ProfitAndLoss(-u.closed, position.price, price)
           closed == cash + CloseCash(u.closed, position.price, pnl)
           refused == u.opened # 0 /\ closed - OpenCash(u.opened, price) < 0
           r == Update(position, u.closed, price)
           done == IF refused THEN [r EXCEPT !.opened = 0] ELSE u
           executes == done.opened + done.closed # 0
           fill == Filling(done, price)
           filled == notifs \o (IF executes THEN <<fill>> ELSE <<>>)
<1>1. /\ position \in PositionType /\ position.size \in Int /\ order.size \in Int
  BY DEF TypeOK, PositionType, OrderType
<1>2. /\ u.opened \in Int /\ u.closed \in Int /\ u.size = position.size + order.size
      /\ u.opened + u.closed = order.size /\ (u.opened # 0 => u.size # 0)
      /\ r.size = position.size + u.closed /\ r.closed = u.closed
  BY <1>1, UpdateSizes
<1>3. /\ [r EXCEPT !.opened = 0].size = r.size /\ [r EXCEPT !.opened = 0].closed = r.closed
      /\ [r EXCEPT !.opened = 0].opened = 0
  BY DEF Update
<1>4. /\ position' = IF executes THEN PositionOf(done) ELSE position
      /\ notifs' = filled \o (IF refused THEN <<Refusal>> ELSE <<>>)
  BY DEF Execute
<1>5. fill.kind = "Fill" /\ fill.opened = done.opened /\ fill.closed = done.closed /\ fill.price = price
  BY DEF Filling
<1>6. fill = [kind |-> "Fill", opened |-> done.opened, closed |-> done.closed, price |-> price]
  BY DEF Filling
<1>7. PositionOf(done).size = done.size
  BY DEF PositionOf
<1> HIDE DEF u, pnl, closed, refused, r, fill
<1>8. /\ done.opened \in Int /\ done.closed \in Int
      /\ done.size = position.size + done.closed + done.opened /\ (done.opened # 0 => done.size # 0)
      /\ ~refused => done.opened + done.closed = order.size
  BY <1>1, <1>2, <1>3
<1> HIDE DEF done
<1>9. fill \in Notification
  BY <1>6, <1>8 DEF Notification
<1>10. Told(notifs) \in Books /\ notifs \in Seq(Notification) /\ Refusal \in Notification
  BY ToldType DEF Refusal, Notification
<1>11. filled = IF executes THEN Append(notifs, fill) ELSE notifs
  BY <1>9, <1>10
<1> HIDE DEF filled
<1>12. filled \in Seq(Notification) /\ notifs' = IF refused THEN Append(filled, Refusal) ELSE filled
  <2>1. filled \in Seq(Notification)
    BY <1>9, <1>10, <1>11
  <2>2. filled \o <<>> = filled /\ filled \o <<Refusal>> = Append(filled, Refusal)
    BY <1>10, <2>1
  <2>3. QED BY <1>4, <2>1, <2>2
<1>13. /\ Told(filled) \in Books /\ Told(filled).trade.size = position'.size
       /\ Filled(filled) => position'.size # 0 \/ Told(filled).closed # <<>>
  <2>1. CASE executes
    <3>1. Told(filled) = AddNotification[Told(notifs)][fill]
      BY <1>9, <1>10, <1>11, <2>1, ToldMore
    <3>2. Told(filled) \in Books
      BY <1>9, <1>10, <3>1, AddNotificationType
    <3>3. position'.size = done.size /\ done.size \in Int
      BY <1>1, <1>4, <1>7, <1>8, <2>1
    <3>4. Told(notifs).trade.size + fill.closed + fill.opened = done.size
      BY <1>5, <1>8 DEF Follows
    <3>5. fill.opened + fill.closed # 0
      BY <1>5, <2>1
    <3>6. Told(filled).trade.size = done.size /\ (done.size # 0 \/ Told(filled).closed # <<>>)
      BY <1>5, <1>8, <1>9, <1>10, <3>1, <3>3, <3>4, <3>5, FillFollows
    <3>7. QED BY <3>2, <3>3, <3>6
  <2>2. CASE ~executes
    BY <1>4, <1>10, <1>11, <2>2 DEF Follows
  <2>3. QED BY <2>1, <2>2
<1>14. refused => /\ Told(notifs').trade = Told(filled).trade /\ Told(notifs').closed = Told(filled).closed
                  /\ Filled(notifs') => Filled(filled)
  <2> SUFFICES ASSUME refused
               PROVE  /\ Told(notifs').trade = Told(filled).trade /\ Told(notifs').closed = Told(filled).closed
                      /\ Filled(notifs') => Filled(filled)
    OBVIOUS
  <2>1. notifs' = Append(filled, Refusal)
    BY <1>12
  <2>2. Told(notifs') = AddNotification[Told(filled)][Refusal]
    BY <1>10, <1>12, <2>1, ToldMore
  <2>3. Filled(notifs') => Filled(filled)
    <3> SUFFICES ASSUME NEW k \in DOMAIN notifs', notifs'[k].kind = "Fill" PROVE Filled(filled)
      BY DEF Filled
    <3>1. Refusal.kind # "Fill"
      BY DEF Refusal
    <3>2. k \in DOMAIN filled /\ notifs'[k] = filled[k]
      BY <1>12, <2>1, <3>1
    <3>3. QED BY <3>2 DEF Filled
  <2>4. QED BY <1>13, <2>2, <2>3, RefusalFollows
<1>15. order.size # 0 \/ notifs # <<>> => notifs' # <<>>
  <2>1. notifs # <<>> => filled # <<>>
    BY <1>9, <1>10, <1>11
  <2>2. filled # <<>> => notifs' # <<>>
    BY <1>10, <1>12
  <2>3. refused => notifs' # <<>>
    BY <1>10, <1>12
  <2>4. executes => filled # <<>>
    BY <1>9, <1>10, <1>11
  <2>5. order.size # 0 => refused \/ executes
    BY <1>8
  <2>6. QED BY <2>1, <2>2, <2>3, <2>4, <2>5
<1>16. QED BY <1>12, <1>13, <1>14, <1>15

\* No order cancels the order of an entry,
LEMMA SiblingsSpare ==
  ASSUME NEW orders \in Seq(OrderType), NEW order \in OrderType, Among(orders)
  PROVE  Among(WithoutSiblings(orders, order))
<1> DEFINE step == [kept \in Seq(OrderType) |-> [o \in OrderType |->
                      IF order.oco = NoGroup \/ o.oco # order.oco THEN Append(kept, o) ELSE kept]]
           m == Len(orders)
<1>1. m \in Nat /\ \A n \in 1 .. m : orders[n] \in OrderType
  OBVIOUS
<1>2. PICK j \in 1 .. m : Opens(orders[j])
  BY DEF Among
<1>3. PICK f : Fold(step, <<>>, orders) = f[m] /\ Steps(f, m, step, <<>>, orders)
  BY <1>1, FoldSteps
<1>4. \A kept \in Seq(OrderType), o \in OrderType :
        step[kept][o] = IF order.oco = NoGroup \/ o.oco # order.oco THEN Append(kept, o) ELSE kept
  OBVIOUS
<1> HIDE DEF step
<1>5. WithoutSiblings(orders, order) = f[m]
  BY <1>3 DEF WithoutSiblings, step
<1> HIDE DEF m
<1> DEFINE C == {n \in Nat : n <= m => f[n] \in Seq(OrderType) /\ (n >= j => Among(f[n]))}
<1>6. 0 \in C
  <2>1. f[0] = <<>> /\ <<>> \in Seq(OrderType)
    BY <1>3 DEF Steps
  <2>2. ~(0 >= j)
    BY <1>1, <1>2
  <2>3. QED BY <2>1, <2>2
<1>7. ASSUME NEW n \in Nat, n \in C PROVE n + 1 \in C
  <2> SUFFICES ASSUME n + 1 <= m
               PROVE  f[n + 1] \in Seq(OrderType) /\ (n + 1 >= j => Among(f[n + 1]))
    BY <1>7
  <2>1. n + 1 \in 1 .. m /\ (n + 1) - 1 = n /\ n <= m
    BY <1>1
  <2>2. f[n + 1] = step[f[n]][orders[n + 1]]
    BY <1>3, <2>1 DEF Steps
  <2>3. f[n] \in Seq(OrderType) /\ (n >= j => Among(f[n]))
    BY <1>7, <2>1
  <2>4. orders[n + 1] \in OrderType
    BY <1>1, <2>1
  <2>5. \/ f[n + 1] = f[n] /\ order.oco # NoGroup /\ orders[n + 1].oco = order.oco
        \/ f[n + 1] = Append(f[n], orders[n + 1])
    BY <1>4, <2>2, <2>3, <2>4
  <2>6. f[n + 1] \in Seq(OrderType)
    <3>1. \A kept \in Seq(OrderType), o \in OrderType : Append(kept, o) \in Seq(OrderType)
      OBVIOUS
    <3>2. QED BY <2>3, <2>4, <2>5, <3>1
  <2>7. Among(f[n]) => Among(f[n + 1])
    <3> SUFFICES ASSUME NEW k \in DOMAIN f[n], Opens(f[n][k]) PROVE Among(f[n + 1])
      BY DEF Among
    <3>1. CASE f[n + 1] = Append(f[n], orders[n + 1])
      <4>1. k \in DOMAIN f[n + 1] /\ f[n + 1][k] = f[n][k]
        BY <2>3, <2>4, <3>1
      <4>2. QED BY <4>1 DEF Among
    <3>2. QED BY <2>5, <3>1 DEF Among
  <2>8. ASSUME n + 1 = j PROVE Among(f[n + 1])
    <3>1. Opens(orders[n + 1])
      BY <1>2, <2>8
    <3>2. f[n + 1] = Append(f[n], orders[n + 1])
      BY <2>5, <3>1 DEF Opens
    <3>3. Len(f[n]) + 1 \in DOMAIN f[n + 1] /\ f[n + 1][Len(f[n]) + 1] = orders[n + 1]
      BY <2>3, <2>4, <3>2
    <3>4. QED BY <3>1, <3>3 DEF Among
  <2>9. n + 1 >= j => n >= j \/ n + 1 = j
    BY <1>2
  <2>10. QED BY <2>3, <2>6, <2>7, <2>8, <2>9
<1>8. m \in C
  <2> HIDE DEF C
  <2>1. QED BY <1>1, <1>6, <1>7, FromZeroUp
<1>9. m <= m /\ m >= j
  BY <1>1, <1>2
<1>10. QED BY <1>5, <1>8, <1>9

\* nor does the check of its cash, without a refusal that is notified.
LEMMA CheckSpares ==
  ASSUME NEW base \in Trial, NEW orders \in Seq(OrderType), Among(orders)
  PROVE  LET s == Fold(CheckOne, base, orders) IN s.notifs # <<>> \/ Among(s.pending)
<1> DEFINE m == Len(orders)
<1>1. m \in Nat /\ \A n \in 1 .. m : orders[n] \in OrderType
  OBVIOUS
<1>2. PICK j \in 1 .. m : Opens(orders[j])
  BY DEF Among
<1>3. PICK f : Fold(CheckOne, base, orders) = f[m] /\ Steps(f, m, CheckOne, base, orders)
  BY <1>1, FoldSteps
<1> HIDE DEF m
<1> DEFINE Spared(n) == f[n].notifs # <<>> \/ Among(f[n].pending)
           C == {n \in Nat : n <= m => f[n] \in Trial /\ (n >= j => Spared(n))}
<1>6. 0 \in C
  BY <1>2, <1>3 DEF Steps
<1>7. ASSUME NEW n \in Nat, n \in C PROVE n + 1 \in C
  <2> SUFFICES ASSUME n + 1 <= m
               PROVE  f[n + 1] \in Trial /\ (n + 1 >= j => Spared(n + 1))
    BY <1>7
  <2>1. n + 1 \in 1 .. m /\ (n + 1) - 1 = n /\ n <= m
    BY <1>1
  <2>2. f[n + 1] = CheckOne[f[n]][orders[n + 1]]
    BY <1>3, <2>1 DEF Steps
  <2>3. f[n] \in Trial /\ (n >= j => Spared(n))
    BY <1>7, <2>1
  <2>4. orders[n + 1] \in OrderType
    BY <1>1, <2>1
  <2>5. f[n + 1] \in Trial
    BY <2>2, <2>3, <2>4, CheckOneType
  <2>6. CASE f[n + 1].notifs = Append(f[n].notifs, Refusal)
    <3>1. f[n].notifs \in Seq(Notification) /\ Refusal \in Notification
      BY <2>3 DEF Trial, Refusal, Notification
    <3>2. \A q \in Seq(Notification), x \in Notification : Append(q, x) # <<>>
      OBVIOUS
    <3>3. f[n + 1].notifs # <<>>
      BY <2>6, <3>1, <3>2
    <3>4. QED BY <2>5, <3>3
  <2>7. CASE f[n + 1].notifs = f[n].notifs /\ f[n + 1].pending = Append(f[n].pending, orders[n + 1])
    <3>1. f[n].pending \in Seq(OrderType)
      BY <2>3 DEF Trial
    <3>2. Among(f[n].pending) => Among(f[n + 1].pending)
      <4> SUFFICES ASSUME NEW k \in DOMAIN f[n].pending, Opens(f[n].pending[k])
                   PROVE  Among(f[n + 1].pending)
        BY DEF Among
      <4>1. k \in DOMAIN f[n + 1].pending /\ f[n + 1].pending[k] = f[n].pending[k]
        BY <2>4, <2>7, <3>1
      <4>2. QED BY <4>1 DEF Among
    <3>3. ASSUME n + 1 = j PROVE Among(f[n + 1].pending)
      <4>1. Opens(orders[n + 1])
        BY <1>2, <3>3
      <4>2. /\ Len(f[n].pending) + 1 \in DOMAIN f[n + 1].pending
            /\ f[n + 1].pending[Len(f[n].pending) + 1] = orders[n + 1]
        BY <2>4, <2>7, <3>1
      <4>3. QED BY <4>1, <4>2 DEF Among
    <3>4. n + 1 >= j => n >= j \/ n + 1 = j
      BY <1>2
    <3>5. n >= j => Spared(n)
      BY <2>3
    <3>6. QED BY <2>5, <2>7, <3>2, <3>3, <3>4, <3>5
  <2>8. QED BY <2>2, <2>3, <2>4, <2>6, <2>7, CheckOneStep
<1>8. m \in C
  <2> HIDE DEF C
  <2>1. QED BY <1>1, <1>6, <1>7, FromZeroUp
<1>9. m <= m /\ m >= j
  BY <1>1, <1>2
<1>10. Spared(m)
  BY <1>8, <1>9
<1>11. QED BY <1>3, <1>10

LEMMA TradeTaken ==
  ASSUME NEW s \in Round, NEW t \in TradeType, s.entry # NoEntry
  PROVE  /\ NotifyTrade[s][t].entry = NoEntry
         /\ NotifyTrade[s][t].last.entryTime = s.entry.time
         /\ NotifyTrade[s][t].last.side = s.entry.side
<1> DEFINE exitTime == IF s.pendingExit # NoExit THEN s.pendingExit.time ELSE ThisBar
           unit == t.pnl \div s.entry.size
           exitPrice == IF s.pendingExit # NoExit THEN s.pendingExit.price
                        ELSE IF s.entry.side = "long" THEN s.entry.price + unit
                                                      ELSE s.entry.price - unit
           sum == s.net + t.pnl - t.commission
           record == [side |-> s.entry.side, size |-> s.entry.size,
                      entryTime |-> s.entry.time, entryPrice |-> s.entry.price,
                      exitTime |-> exitTime, exitPrice |-> exitPrice,
                      gross |-> t.pnl, cost |-> t.commission]
<1>1. NotifyTrade[s][t] = [entry |-> NoEntry, pendingExit |-> NoExit, net |-> sum, last |-> record]
  BY DEF NotifyTrade
<1> HIDE DEF exitTime, exitPrice, sum
<1>2. QED BY <1>1

\* The first trade to be told of takes the entry, the others find none.
LEMMA TradesTold ==
  ASSUME TypeOK, NEW s \in Round, NEW closed \in Seq(TradeType)
  PROVE  LET told == Fold(NotifyTrade, s, closed)
         IN \/ told.entry = s.entry /\ told.last = s.last /\ (closed = <<>> \/ s.entry = NoEntry)
            \/ /\ s.entry # NoEntry /\ told.entry = NoEntry
               /\ told.last.entryTime = s.entry.time /\ told.last.side = s.entry.side
<1> DEFINE m == Len(closed)
           Same(t) == t.entry = s.entry /\ t.last = s.last
           Taken(t) == /\ s.entry # NoEntry /\ t.entry = NoEntry
                       /\ t.last.entryTime = s.entry.time /\ t.last.side = s.entry.side
<1>1. m \in Nat /\ (\A n \in 1 .. m : closed[n] \in TradeType) /\ (m = 0 => closed = <<>>)
  OBVIOUS
<1>2. PICK f : Fold(NotifyTrade, s, closed) = f[m] /\ Steps(f, m, NotifyTrade, s, closed)
  BY <1>1, FoldSteps
<1> HIDE DEF m
<1> DEFINE C == {n \in Nat : n <= m => /\ f[n] \in Round
                                       /\ \/ Same(f[n]) /\ (n = 0 \/ s.entry = NoEntry)
                                          \/ Taken(f[n])}
<1>3. 0 \in C
  <2>1. f[0] = s
    BY <1>2 DEF Steps
  <2>2. QED BY <2>1
<1>4. ASSUME NEW n \in Nat, n \in C PROVE n + 1 \in C
  <2> SUFFICES ASSUME n + 1 <= m
               PROVE  /\ f[n + 1] \in Round
                      /\ \/ Same(f[n + 1]) /\ (n + 1 = 0 \/ s.entry = NoEntry)
                         \/ Taken(f[n + 1])
    BY <1>4
  <2>1. n + 1 \in 1 .. m /\ (n + 1) - 1 = n /\ n <= m
    BY <1>1
  <2>2. f[n + 1] = NotifyTrade[f[n]][closed[n + 1]]
    BY <1>2, <2>1 DEF Steps
  <2>3. /\ f[n] \in Round
        /\ \/ Same(f[n]) /\ (n = 0 \/ s.entry = NoEntry)
           \/ Taken(f[n])
    BY <1>4, <2>1
  <2>4. closed[n + 1] \in TradeType
    BY <1>1, <2>1
  <2>5. f[n + 1] \in Round
    BY <2>2, <2>3, <2>4, NotifyTradeType
  <2>6. f[n].entry = NoEntry => f[n + 1] = f[n]
    BY <2>2, <2>3, <2>4 DEF NotifyTrade
  <2>7. f[n].entry # NoEntry =>
          /\ f[n + 1].entry = NoEntry
          /\ f[n + 1].last.entryTime = f[n].entry.time /\ f[n + 1].last.side = f[n].entry.side
    BY <2>2, <2>3, <2>4, TradeTaken
  <2>8. CASE f[n].entry = NoEntry
    BY <2>3, <2>5, <2>6, <2>8
  <2>9. CASE f[n].entry # NoEntry
    <3>1. Same(f[n])
      BY <2>3, <2>9
    <3>2. QED BY <2>5, <2>7, <2>9, <3>1
  <2>10. QED BY <2>8, <2>9
<1>5. m \in C
  <2> HIDE DEF C
  <2>1. QED BY <1>1, <1>3, <1>4, FromZeroUp
<1>6. \/ Same(f[m]) /\ (m = 0 \/ s.entry = NoEntry)
      \/ Taken(f[m])
  BY <1>1, <1>5
<1>7. QED BY <1>1, <1>2, <1>6

\* An entry is decided on this bar, and submitted, or nothing changes it.
LEMMA DecideSubmits ==
  ASSUME TypeOK, bar.close \in Prices, i \in 0 .. Bars - 1,
         NEW quantities \in SUBSET Int, position.size = 0 => 0 \notin quantities,
         NEW distance \in Nat, PricesLie(distance), Decide(quantities, distance)
  PROVE  entry' = entry \/ (entry'.time = i /\ Among(submitted'))
<1> DEFINE b0 == [pending |-> pending, submitted |-> submitted, entry |-> entry,
                  pendingExit |-> pendingExit, label |-> label]
           q == CHOOSE q \in quantities : TRUE
           b1 == IF quantities = {} THEN b0 ELSE Apply(b0, q, distance)
           b2 == IF MustClose(b1) THEN CloseOut(b1) ELSE b1
<1>1. b0 \in Working
  BY DEF TypeOK, Working
<1>2. bar.close \in Nat /\ position \in PositionType /\ position.size \in Int
  BY BridgeAssumption DEF TypeOK, PositionType
<1>3. quantities # {} => q \in quantities
  OBVIOUS
<1>4. b0.entry = entry
  OBVIOUS
<1> HIDE DEF b0, q
<1>5. b1 \in Working
  BY <1>1, <1>2, <1>3, ApplyType
<1>6. \A b : CloseOut(b).entry = b.entry
  BY DEF CloseOut, CancelLive
<1>7. b1.entry = entry \/ (b1.entry.time = i /\ Among(b1.submitted))
  <2>1. CASE quantities = {} \/ position.size # 0
    <3>1. b1 = b0 \/ b1 = CloseOut(b0)
      BY <2>1 DEF Apply
    <3>2. QED BY <1>4, <1>6, <3>1
  <2>2. CASE quantities # {} /\ position.size = 0
    <3>1. q \in Int /\ q # 0
      BY <1>3, <2>2
    <3>2. /\ b1.entry.time = i
          /\ b1.submitted = b0.submitted \o <<Market(q)>> \o BarrierOrders(q, distance)
      BY <1>1, <2>2 DEF Apply, Working
    <3>3. Market(q) \in OrderType /\ Opens(Market(q))
      BY <1>2, <3>1, MarketType DEF Market, Order, Opens
    <3>4. b0.submitted \in Seq(OrderType) /\ BarrierOrders(q, distance) \in Seq(OrderType)
      BY <1>1, <3>1, BarrierOrdersType DEF Working
    <3> DEFINE k == Len(b0.submitted) + 1
    <3>5. k \in DOMAIN b1.submitted /\ b1.submitted[k] = Market(q)
      <4> HIDE DEF b1
      <4>1. \A a, c \in Seq(OrderType), o \in OrderType :
              /\ Len(a) + 1 \in DOMAIN (a \o <<o>> \o c)
              /\ (a \o <<o>> \o c)[Len(a) + 1] = o
        OBVIOUS
      <4>2. QED BY <3>2, <3>3, <3>4, <4>1
    <3> HIDE DEF k, b1
    <3>6. QED BY <3>2, <3>3, <3>5 DEF Among
  <2>3. QED BY <2>1, <2>2
<1> HIDE DEF b1
<1>8. Among(b1.submitted) => Among(CloseOut(b1).submitted)
  <2> SUFFICES ASSUME NEW k \in DOMAIN b1.submitted, Opens(b1.submitted[k])
               PROVE  Among(CloseOut(b1).submitted)
    BY DEF Among
  <2>1. CloseOut(b1).submitted = Append(b1.submitted, Market(-position.size))
    BY <1>5 DEF CloseOut, CancelLive, Working
  <2>2. Market(-position.size) \in OrderType /\ b1.submitted \in Seq(OrderType)
    BY <1>2, <1>5, MarketType DEF Working
  <2>3. k \in DOMAIN CloseOut(b1).submitted /\ CloseOut(b1).submitted[k] = b1.submitted[k]
    BY <2>1, <2>2
  <2>4. QED BY <2>3 DEF Among
<1>9. b2.entry = b1.entry /\ (Among(b1.submitted) => Among(b2.submitted))
  BY <1>6, <1>8
<1>10. submitted' = b2.submitted /\ entry' = b2.entry
  BY DEF Decide, b1, b0, q
<1> HIDE DEF b2
<1>11. QED BY <1>7, <1>9, <1>10

\* The check of the cash only notifies refusals.
LEMMA CheckFollows ==
  ASSUME TypeOK, NEW base \in Trial, base.notifs = <<>>, NEW orders \in Seq(OrderType)
  PROVE  LET nots == Fold(CheckOne, base, orders).notifs
         IN Told(nots).trade = trade /\ ~Filled(nots)
<1> DEFINE A == {t \in Trial : Told(t.notifs) \in Books /\ Told(t.notifs).trade = trade /\ ~Filled(t.notifs)}
<1>1. base \in A
  <2>1. Told(<<>>) = [trade |-> trade, closed |-> <<>>, refused |-> 0]
    BY ShortFolds DEF Told
  <2>2. Told(<<>>) \in Books /\ Told(<<>>).trade = trade
    <3> DEFINE books == [trade |-> trade, closed |-> <<>>, refused |-> 0]
    <3>1. books \in Books /\ books.trade = trade
      BY DEF TypeOK, Books
    <3> HIDE DEF books
    <3>2. QED BY <2>1, <3>1 DEF books
  <2>3. ~Filled(<<>>)
    BY DEF Filled
  <2>4. QED BY <2>2, <2>3
<1>2. ASSUME NEW t \in A, NEW order \in OrderType PROVE CheckOne[t][order] \in A
  <2> DEFINE next == CheckOne[t][order]
  <2>1. t \in Trial /\ Told(t.notifs) \in Books /\ Told(t.notifs).trade = trade /\ ~Filled(t.notifs)
    OBVIOUS
  <2>2. next \in Trial
    BY <2>1, CheckOneType
  <2>3. CASE next.notifs = t.notifs
    BY <2>1, <2>2, <2>3
  <2>4. CASE next.notifs = Append(t.notifs, Refusal)
    <3>1. t.notifs \in Seq(Notification) /\ Refusal \in Notification /\ Refusal.kind # "Fill"
      BY <2>1 DEF Trial, Refusal, Notification
    <3>2. Told(next.notifs) = AddNotification[Told(t.notifs)][Refusal]
      BY <2>4, <3>1, ToldMore
    <3>3. Told(next.notifs) \in Books /\ Told(next.notifs).trade = trade
      BY <2>1, <3>1, <3>2, AddNotificationType, RefusalFollows
    <3>4. ~Filled(next.notifs)
      <4> SUFFICES ASSUME NEW k \in DOMAIN next.notifs, next.notifs[k].kind = "Fill" PROVE FALSE
        BY DEF Filled
      <4> HIDE DEF next
      <4>1. k \in DOMAIN t.notifs /\ next.notifs[k] = t.notifs[k]
        BY <2>4, <3>1
      <4>2. QED BY <2>1, <4>1 DEF Filled
    <3>5. next \in A
      <4> HIDE DEF next
      <4>1. QED BY <2>2, <3>3, <3>4
    <3>6. QED BY <3>5
  <2>5. QED BY <2>1, <2>3, <2>4, CheckOneStep
<1>3. Fold(CheckOne, base, orders) \in A
  <2> HIDE DEF A
  <2>1. QED BY <1>1, <1>2, FoldType
<1>4. QED BY <1>3

LEMMA TraceInit == Init => TraceInv
<1> SUFFICES ASSUME Init PROVE TraceInv
  OBVIOUS
<1>1. /\ position = Flat /\ notifs = <<>> /\ phase = "feed" /\ i = -1
      /\ entry = NoEntry /\ trade = NoTrade /\ last = NoRecord
  BY DEF Init, BrokerInit
<1>2. Told(notifs) = [trade |-> trade, closed |-> <<>>, refused |-> 0]
  BY <1>1, ShortFolds DEF Told
<1>3. Told(notifs).trade.size = 0 /\ position.size = 0 /\ ~Filled(notifs)
  BY <1>1, <1>2 DEF NoTrade, Flat, Filled
<1>4. QED BY <1>1, <1>3 DEF TraceInv, Follows, Underway, Dated, EntryAt

\* Times are numbers.
LEMMA TimesAre ==
  ASSUME TypeOK
  PROVE  i \in Int /\ entry.time \in Int /\ last.entryTime \in Int
<1>1. i \in Int /\ last.entryTime \in Int
  BY BridgeAssumption DEF TypeOK, RecordType, Times
<1>2. entry.time \in Int
  BY EntryFields, BridgeAssumption DEF TypeOK, Times
<1>3. QED BY <1>1, <1>2

LEMMA AdvanceTrace ==
  ASSUME TypeOK, TraceInv, Advance
  PROVE  TraceInv'
<1>1. /\ phase = "feed" /\ phase' = "broker" /\ i' = i + 1
      /\ UNCHANGED <<position, submitted, notifs, entry, trade, last>>
  BY DEF Advance, brokerVars, bridgeVars
<1>2. Follows'
  BY <1>1 DEF TraceInv, Follows, Told, Filled
<1>3. Underway'
  <2>1. i' - 1 = i
    BY <1>1, TimesAre
  <2>2. QED BY <1>1, <2>1 DEF TraceInv, Underway, EntryAt, Among
<1>4. Dated'
  BY <1>1, TimesAre DEF TraceInv, Dated
<1>5. QED BY <1>2, <1>3, <1>4 DEF TraceInv

LEMMA BrokerTrace ==
  ASSUME TypeOK, TraceInv, Broker
  PROVE  TraceInv'
<1> DEFINE base == [cash |-> cash, position |-> position, pending |-> pending, notifs |-> notifs]
           s == Fold(CheckOne, base, submitted)
<1>1. /\ phase = "broker" /\ phase' = "pass" /\ todo' = s.pending /\ notifs' = s.notifs
      /\ UNCHANGED <<position, i, entry, trade, last>>
  BY DEF Broker, CheckSubmitted, bridgeVars
<1>2. base \in Trial /\ submitted \in Seq(OrderType) /\ base.notifs = notifs
  BY DEF TypeOK, Trial
<1>3. notifs = <<>> /\ trade.size = position.size
  <2>1. notifs = <<>>
    BY <1>1 DEF TraceInv, Follows
  <2>2. Told(notifs) = [trade |-> trade, closed |-> <<>>, refused |-> 0]
    BY <2>1, ShortFolds DEF Told
  <2>3. Told(notifs).trade.size = position.size
    BY DEF TraceInv, Follows
  <2>4. QED BY <2>1, <2>2, <2>3
<1> HIDE DEF base
<1>4. Told(s.notifs).trade = trade /\ ~Filled(s.notifs)
  BY <1>2, <1>3, CheckFollows
<1>5. Among(submitted) => s.notifs # <<>> \/ Among(s.pending)
  BY <1>2, CheckSpares
<1> HIDE DEF s
<1>6. Told(notifs)' = Told(s.notifs)
  BY <1>1 DEF Told
<1>7. Follows'
  BY <1>1, <1>3, <1>4, <1>6 DEF Follows, Filled
<1>8. Underway'
  BY <1>1, <1>5 DEF TraceInv, Underway, EntryAt, Among
<1>9. Dated'
  BY <1>1 DEF TraceInv, Dated
<1>10. QED BY <1>7, <1>8, <1>9 DEF TraceInv

LEMMA PassTrace ==
  ASSUME TypeOK, TraceInv, Pass
  PROVE  TraceInv'
<1> DEFINE order == Head(todo)
<1>1. /\ phase = "pass" /\ todo # <<>> /\ todo \in Seq(OrderType)
      /\ UNCHANGED <<phase, i, entry, trade, last>>
  BY DEF Pass, TryOrder, TypeOK, bridgeVars
<1>2. order \in OrderType /\ Tail(todo) \in Seq(OrderType)
  BY <1>1
<1>3. Among(todo) => Opens(order) \/ Among(Tail(todo))
  <2> SUFFICES ASSUME NEW k \in DOMAIN todo, Opens(todo[k]), ~Opens(order) PROVE Among(Tail(todo))
    BY DEF Among
  <2>1. k # 1
    OBVIOUS
  <2>2. k - 1 \in DOMAIN Tail(todo) /\ Tail(todo)[k - 1] = todo[k]
    BY <1>1, <2>1
  <2>3. QED BY <2>2 DEF Among
<1>4. CASE \E price \in FillPrices(order) : Execute(order, price)
  <2>1. PICK price \in FillPrices(order) : Execute(order, price)
    BY <1>4
  <2>2. price \in Nat
    BY <1>2, FillPricesType
  <2>3. todo' = WithoutSiblings(Tail(todo), order)
    BY <2>1 DEF Execute
  <2> HIDE DEF order
  <2>4. /\ Told(notifs').trade.size = position'.size
        /\ Filled(notifs') => position'.size # 0 \/ Told(notifs').closed # <<>>
        /\ order.size # 0 \/ notifs # <<>> => notifs' # <<>>
    BY <1>1, <1>2, <2>1, <2>2, ExecuteFollows DEF TraceInv
  <2>5. Told(notifs)' = Told(notifs')
    BY <1>1 DEF Told
  <2>6. Follows'
    BY <1>1, <2>4, <2>5 DEF Follows, Filled
  <2>7. Among(todo) => Among(todo') \/ notifs' # <<>>
    <3>1. Opens(order) => notifs' # <<>>
      BY <2>4 DEF Opens
    <3>2. Among(Tail(todo)) => Among(todo')
      BY <1>2, <2>3, SiblingsSpare
    <3>3. QED BY <1>3, <3>1, <3>2
  <2>8. Underway'
    BY <1>1, <2>4, <2>7 DEF TraceInv, Underway, EntryAt, Among
  <2>9. QED BY <1>1, <2>6, <2>8 DEF TraceInv, Dated
<1>5. CASE /\ FillPrices(order) = {} /\ todo' = Tail(todo)
           /\ UNCHANGED <<cash, position, submitted, notifs>>
  <2>1. ~Opens(order)
    BY <1>5 DEF FillPrices, MarketPrices, Opens
  <2>2. Among(todo) => Among(todo')
    BY <1>3, <1>5, <2>1
  <2>3. Underway'
    BY <1>1, <1>5, <2>2 DEF TraceInv, Underway, EntryAt, Among
  <2>4. Follows' /\ Dated'
    BY <1>1, <1>5 DEF TraceInv, Follows, Dated, Told, Filled
  <2>5. QED BY <2>3, <2>4 DEF TraceInv
<1>6. QED BY <1>4, <1>5 DEF Pass, TryOrder

LEMMA NotifyTrace ==
  ASSUME TypeOK, TraceInv, Notify
  PROVE  /\ TraceInv'
         /\ EntryAt(i - 1) => \/ position.size # 0
                              \/ last' # last /\ last'.entryTime = i - 1
                              \/ rejected' > rejected
<1> DEFINE books == Told(notifs)
           start == [entry |-> NotifyOrder(books.refused).entry, pendingExit |-> pendingExit,
                     net |-> net, last |-> last]
           told == Fold(NotifyTrade, start, books.closed)
<1>1. /\ trade' = books.trade /\ entry' = told.entry /\ last' = told.last
      /\ rejected' = NotifyOrder(books.refused).rejected
      /\ notifs' = <<>> /\ phase = "pass" /\ phase' = "next" /\ todo = <<>>
      /\ UNCHANGED <<position, i>>
  BY DEF Notify, Told
<1>2. books \in Books /\ notifs \in Seq(Notification)
  BY ToldType
<1> HIDE DEF books
<1>3. start \in Round /\ books.closed \in Seq(TradeType) /\ books.refused \in Nat
  BY <1>2, NoneTypes DEF TypeOK, Round, Books, NotifyOrder
<1>4. start.last = last /\ (start.entry = entry \/ start.entry = NoEntry)
      /\ (books.refused = 0 => start.entry = entry)
  BY DEF NotifyOrder
<1> HIDE DEF start
<1>5. \/ told.entry = start.entry /\ told.last = start.last /\ (books.closed = <<>> \/ start.entry = NoEntry)
      \/ /\ start.entry # NoEntry /\ told.entry = NoEntry
         /\ told.last.entryTime = start.entry.time /\ told.last.side = start.entry.side
  BY <1>3, TradesTold
<1> HIDE DEF told
<1>6. Follows'
  <2>1. Told(notifs)' = [trade |-> trade', closed |-> <<>>, refused |-> 0]
    BY <1>1, ShortFolds DEF Told
  <2>2. books.trade.size = position.size
    BY DEF TraceInv, Follows, books
  <2>3. QED BY <1>1, <2>1, <2>2 DEF Follows, Filled
<1>7. Underway'
  BY <1>1 DEF Underway
<1>8. Dated'
  <2>1. /\ entry # NoEntry => entry.time <= i - 1
        /\ last # NoRecord => last.entryTime <= i - 2
    BY <1>1 DEF TraceInv, Dated
  <2>2. i \in Int /\ last.entryTime \in Int
    BY TimesAre
  <2>3. entry' # NoEntry => entry'.time <= i - 1
    BY <1>1, <1>4, <1>5, <2>1
  <2>4. last' # NoRecord => last'.entryTime <= i - 1
    <3>1. CASE told.last = last
      BY <1>1, <2>1, <2>2, <3>1
    <3>2. CASE start.entry # NoEntry /\ told.last.entryTime = start.entry.time
      BY <1>1, <1>4, <2>1, <3>2
    <3>3. QED BY <1>4, <1>5, <3>1, <3>2
  <2>5. QED BY <1>1, <2>3, <2>4 DEF Dated
<1>9. ASSUME EntryAt(i - 1), position.size = 0, ~(rejected' > rejected)
      PROVE  last' # last /\ last'.entryTime = i - 1
  <2>1. books.refused = 0
    BY <1>1, <1>3, <1>9 DEF NotifyOrder, TypeOK
  <2>2. AllFills(notifs)
    <3> DEFINE base == [trade |-> trade, closed |-> <<>>, refused |-> 0]
    <3>1. base \in Books
      BY DEF TypeOK, Books
    <3>2. books = Fold(AddNotification, base, notifs)
      BY DEF books, Told
    <3> HIDE DEF base
    <3>3. QED BY <1>2, <2>1, <3>1, <3>2, RefusalsCounted
  <2>3. notifs # <<>>
    BY <1>1, <1>9 DEF TraceInv, Underway, Among
  <2>4. Filled(notifs)
    <3>1. 1 \in DOMAIN notifs
      BY <1>2, <2>3
    <3>2. QED BY <2>2, <3>1 DEF Filled, AllFills
  <2>5. books.closed # <<>>
    BY <1>9, <2>4 DEF TraceInv, Follows, books
  <2>6. start.entry = entry /\ entry # NoEntry /\ entry.time = i - 1
    BY <1>4, <1>9, <2>1 DEF EntryAt
  <2>7. last'.entryTime = i - 1 /\ last'.side = entry.side
    BY <1>1, <1>5, <2>5, <2>6
  <2>8. last' # last
    <3>1. CASE last = NoRecord
      <4>1. entry.side \in {"long", "short"}
        BY <2>6, EntryFields DEF TypeOK
      <4>2. QED BY <2>7, <3>1, <4>1 DEF NoRecord
    <3>2. CASE last # NoRecord
      <4>1. last.entryTime <= i - 2 /\ last.entryTime \in Int /\ i \in Int
        BY <1>1, <3>2, TimesAre DEF TraceInv, Dated
      <4>2. last.entryTime # i - 1
        BY <4>1
      <4>3. QED BY <2>7, <4>2
    <3>3. QED BY <3>1, <3>2
  <2>9. QED BY <2>7, <2>8
<1>10. QED BY <1>6, <1>7, <1>8, <1>9 DEF TraceInv

LEMMA NextBarTrace ==
  ASSUME TypeOK, BarKnown, TraceInv, NextBar
  PROVE  TraceInv'
<1>1. i \in 0 .. Bars - 1 /\ bar.close \in Prices
  BY BridgeAssumption DEF NextBar, TypeOK, BarKnown
<1>2. PICK quantities \in SUBSET Int, distance \in Nat :
        /\ Decide(quantities, distance)
        /\ position.size = 0 => 0 \notin quantities
        /\ PricesLie(distance)
  BY <1>1, Decided
<1>3. entry' = entry \/ (entry'.time = i /\ Among(submitted'))
  BY <1>1, <1>2, DecideSubmits
<1>4. /\ phase = "next" /\ phase' = "feed"
      /\ UNCHANGED <<position, notifs, i, trade, last>>
  BY DEF NextBar
<1>5. Follows'
  BY <1>4 DEF TraceInv, Follows, Told, Filled
<1>6. entry # NoEntry => entry.time <= i - 1 /\ entry.time \in Int
  BY <1>4, TimesAre DEF TraceInv, Dated
<1>7. Underway'
  <2> SUFFICES ASSUME EntryAt(i)' PROVE Among(submitted')
    BY <1>4 DEF Underway, Among
  <2>1. CASE entry' = entry
    <3>1. entry # NoEntry /\ entry.time = i
      BY <1>4, <2>1 DEF EntryAt
    <3>2. QED BY <1>1, <1>6, <3>1
  <2>2. QED BY <1>3, <2>1
<1>8. Dated'
  <2>1. entry' # NoEntry => entry'.time <= i
    <3>1. CASE entry' = entry
      BY <1>1, <1>6, <3>1
    <3>2. CASE entry'.time = i
      BY <1>1, <3>2
    <3>3. QED BY <1>3, <3>1, <3>2
  <2>2. last # NoRecord => last.entryTime <= i - 1
    BY <1>4 DEF TraceInv, Dated
  <2>3. QED BY <1>4, <2>1, <2>2 DEF Dated
<1>9. QED BY <1>5, <1>7, <1>8 DEF TraceInv

LEMMA TraceNext == TypeOK /\ BarKnown /\ TraceInv /\ [Next]_vars => TraceInv'
<1> SUFFICES ASSUME TypeOK, BarKnown, TraceInv, [Next]_vars PROVE TraceInv'
  OBVIOUS
<1>1. ASSUME UNCHANGED vars PROVE TraceInv'
  BY <1>1 DEF vars, brokerVars, bridgeVars, TraceInv, Follows, Underway, Dated, EntryAt, Among,
              Told, Filled
<1>2. ASSUME Phantom PROVE TraceInv'
  BY <1>2 DEF Phantom, brokerVars, bridgeVars, TraceInv, Follows, Underway, Dated, Told, Filled
<1>3. QED
  BY <1>1, <1>2, AdvanceTrace, BrokerTrace, PassTrace, NotifyTrace, NextBarTrace DEF Next, Finished

\* No entry disappears without a trace (notify_order, notify_trade): on the bar after its
\* decision it is a position, a recorded round trip, or a refusal that was counted.
\* Of any configuration, whatever was refused before.
THEOREM NoSilentEntryHolds == Spec => NoSilentEntry
<1>1. Init => TypeOK /\ BarKnown /\ TraceInv
  BY TypeInit, TraceInit
<1>2. TypeOK /\ BarKnown /\ TraceInv /\ [Next]_vars => (TypeOK /\ BarKnown /\ TraceInv)'
  BY TypeNext, TraceNext
<1>3. TypeOK /\ BarKnown /\ TraceInv /\ [Next]_vars =>
        [(phase = "pass" /\ phase' = "next" /\ entry # NoEntry /\ entry.time = i - 1)
           => \/ position.size # 0
              \/ last' # last /\ last'.entryTime = i - 1
              \/ rejected' > rejected]_vars
  <2> SUFFICES ASSUME TypeOK, TraceInv, [Next]_vars, phase = "pass", phase' = "next", EntryAt(i - 1)
               PROVE  \/ position.size # 0
                      \/ last' # last /\ last'.entryTime = i - 1
                      \/ rejected' > rejected
    BY DEF EntryAt
  <2>1. Notify
    <3>1. phase' # phase
      OBVIOUS
    <3>2. QED BY <3>1 DEF Next, Advance, Broker, Pass, NextBar, Phantom, Finished, vars
  <2>2. QED BY <2>1, NotifyTrace
<1>4. QED BY <1>1, <1>2, <1>3, PTL DEF Spec, NoSilentEntry
=============================================================================
