--------------------------- MODULE LiveDataProofs ---------------------------
(***************************************************************************)
(* The path of a tick, for any numbers of buckets, ticks, engines and any  *)
(* length of the buffer: the types, what licenses a decision, the order of *)
(* the buffer, what a candle holds and that it is decided on once.         *)
(***************************************************************************)
EXTENDS LiveData, SequenceTheorems, WellFoundedInduction, TLAPS

(* Sequences *)

LEMMA FromZeroUp ==
  ASSUME NEW A, 0 \in A, \A n \in Nat : n \in A => n + 1 \in A
  PROVE  \A n \in Nat : n \in A
<1> SUFFICES ASSUME NEW m \in Nat, m \notin A PROVE FALSE
  OBVIOUS
<1> DEFINE B == Nat \ A
<1>1. PICK n \in B : \A i \in B : <<i, n>> \notin OpToRel(<, Nat)
  <2>1. B # {} /\ B \in SUBSET Nat
    OBVIOUS
  <2> HIDE DEF B
  <2>2. QED BY <2>1, WFMin, NatLessThanWellFounded
<1>2. n \in Nat /\ n \notin A
  OBVIOUS
<1>3. n # 0 /\ n - 1 \in Nat /\ n - 1 < n /\ (n - 1) + 1 = n
  BY <1>2
<1>4. n - 1 \notin B
  BY <1>1, <1>2, <1>3 DEF OpToRel
<1>5. n - 1 \in A
  BY <1>3, <1>4
<1>6. QED BY <1>2, <1>3, <1>5

\* Two functions that agree at zero and are continued alike agree.
LEMMA Agree ==
  ASSUME NEW f, NEW g, NEW m \in Nat, f[0] = g[0],
         \A n \in 1 .. m : f[n - 1] = g[n - 1] => f[n] = g[n]
  PROVE  f[m] = g[m]
<1> DEFINE A == {n \in Nat : n <= m => f[n] = g[n]}
<1>1. 0 \in A
  OBVIOUS
<1>2. ASSUME NEW n \in Nat, n \in A PROVE n + 1 \in A
  <2>1. CASE n + 1 <= m
    <3>1. n + 1 \in 1 .. m /\ (n + 1) - 1 = n /\ f[n] = g[n]
      BY <1>2, <2>1
    <3>2. QED BY <3>1
  <2>2. QED BY <2>1
<1>3. m \in A
  <2> HIDE DEF A
  <2>1. QED BY <1>1, <1>2, FromZeroUp
<1>4. QED BY <1>3

Keeps(f, m, s, set) ==
  f = [n \in 0 .. m |-> IF n = 0 THEN <<>>
                        ELSE IF s[n] \in set THEN Append(f[n - 1], s[n]) ELSE f[n - 1]]

\* The recursion of Kept is one.
LEMMA KeepsExists ==
  ASSUME NEW s, NEW set, NEW m \in Nat
  PROVE  \E f : Keeps(f, m, s, set)
<1> DEFINE A == {n \in Nat : \E f : Keeps(f, n, s, set)}
<1>1. 0 \in A
  <2> DEFINE f == [n \in 0 .. 0 |-> <<>>]
  <2>1. Keeps(f, 0, s, set)
    BY DEF Keeps
  <2>2. QED BY <2>1
<1>2. ASSUME NEW n \in Nat, n \in A PROVE n + 1 \in A
  <2>1. PICK f : Keeps(f, n, s, set)
    BY <1>2
  <2> DEFINE last == IF s[n + 1] \in set THEN Append(f[n], s[n + 1]) ELSE f[n]
             g == [i \in 0 .. n + 1 |-> IF i = n + 1 THEN last ELSE f[i]]
             h == [i \in 0 .. n + 1 |->
                     IF i = 0 THEN <<>>
                     ELSE IF s[i] \in set THEN Append(g[i - 1], s[i]) ELSE g[i - 1]]
  <2>2. ASSUME NEW i \in 0 .. n + 1 PROVE g[i] = h[i]
    <3>1. CASE i = n + 1
      <4>1. i # 0 /\ i - 1 = n /\ n \in 0 .. n + 1 /\ n # n + 1
        BY <3>1
      <4>2. g[i - 1] = f[n] /\ g[i] = last
        BY <3>1, <4>1
      <4>3. QED BY <3>1, <4>1, <4>2
    <3>2. CASE i # n + 1
      <4>1. i \in 0 .. n
        BY <3>2
      <4>2. f[i] = IF i = 0 THEN <<>>
                   ELSE IF s[i] \in set THEN Append(f[i - 1], s[i]) ELSE f[i - 1]
        <5>1. f = [j \in 0 .. n |-> IF j = 0 THEN <<>>
                                    ELSE IF s[j] \in set THEN Append(f[j - 1], s[j]) ELSE f[j - 1]]
          BY <2>1 DEF Keeps
        <5>2. QED BY <4>1, <5>1
      <4>3. i # 0 => i - 1 \in 0 .. n + 1 /\ i - 1 # n + 1
        BY <4>1
      <4>4. i # 0 => g[i - 1] = f[i - 1]
        BY <4>3
      <4>5. g[i] = f[i]
        BY <3>2
      <4>6. QED BY <4>2, <4>4, <4>5
    <3>3. QED BY <3>1, <3>2
  <2>3. g = h
    <3> HIDE DEF last
    <3>1. DOMAIN g = 0 .. n + 1 /\ DOMAIN h = 0 .. n + 1
      OBVIOUS
    <3>2. g = [i \in DOMAIN g |-> g[i]] /\ h = [i \in DOMAIN h |-> h[i]]
      OBVIOUS
    <3> HIDE DEF g, h
    <3>3. QED BY <2>2, <3>1, <3>2
  <2>4. Keeps(g, n + 1, s, set)
    BY <2>3 DEF Keeps
  <2>5. QED BY <2>4
<1>3. m \in A
  <2> HIDE DEF A
  <2>1. QED BY <1>1, <1>2, FromZeroUp
<1>4. QED BY <1>3

\* Kept, step by step.
Steps(f, m, s, set) ==
  /\ f[0] = <<>>
  /\ \A n \in 1 .. m :
       f[n] = IF s[n] \in set THEN Append(f[n - 1], s[n]) ELSE f[n - 1]

LEMMA KeptSteps ==
  ASSUME NEW s, NEW set, Len(s) \in Nat
  PROVE  \E f : Kept(s, set) = f[Len(s)] /\ Steps(f, Len(s), s, set)
<1> DEFINE m == Len(s)
           f == CHOOSE f : Keeps(f, m, s, set)
<1>1. Keeps(f, m, s, set)
  BY KeepsExists
<1>2. Kept(s, set) = f[m]
  BY DEF Kept, Keeps
<1>3. Steps(f, m, s, set)
  <2> HIDE DEF f, m
  <2>1. m \in Nat
    BY DEF m
  <2>2. f = [n \in 0 .. m |-> IF n = 0 THEN <<>>
                              ELSE IF s[n] \in set THEN Append(f[n - 1], s[n]) ELSE f[n - 1]]
    BY <1>1 DEF Keeps
  <2>3. \A n \in 0 .. m :
          f[n] = IF n = 0 THEN <<>>
                 ELSE IF s[n] \in set THEN Append(f[n - 1], s[n]) ELSE f[n - 1]
    BY <2>2
  <2>4. QED BY <2>1, <2>3 DEF Steps
<1>4. QED BY <1>2, <1>3

\* What is kept is a part of the sequence, in the same order.
LEMMA KeptIsPart ==
  ASSUME NEW S, NEW s \in Seq(S), NEW set
  PROVE  /\ Kept(s, set) \in Seq(S)
         /\ \E at \in [DOMAIN Kept(s, set) -> DOMAIN s] :
              /\ \A i \in DOMAIN Kept(s, set) :
                   Kept(s, set)[i] = s[at[i]] /\ s[at[i]] \in set
              /\ \A i, j \in DOMAIN Kept(s, set) : i < j => at[i] < at[j]
<1> DEFINE m == Len(s)
           Part(t, n) ==
             /\ t \in Seq(S)
             /\ \E at \in [1 .. Len(t) -> 1 .. n] :
                  /\ \A i \in 1 .. Len(t) : t[i] = s[at[i]] /\ s[at[i]] \in set
                  /\ \A i, j \in 1 .. Len(t) : i < j => at[i] < at[j]
<1>1. PICK f : Kept(s, set) = f[m] /\ Steps(f, m, s, set)
  BY KeptSteps
<1>2. m \in Nat /\ DOMAIN s = 1 .. m /\ \A n \in 1 .. m : s[n] \in S
  OBVIOUS
<1> DEFINE A == {n \in Nat : n <= m => Part(f[n], n)}
<1> HIDE DEF m
<1>3. 0 \in A
  <2>1. f[0] = <<>>
    BY <1>1 DEF Steps
  <2>2. Part(<<>>, 0)
    <3> DEFINE at == [i \in 1 .. 0 |-> 0]
    <3>1. 1 .. Len(<<>>) = {} /\ <<>> \in Seq(S)
      OBVIOUS
    <3>2. at \in [1 .. Len(<<>>) -> 1 .. 0]
      BY <3>1
    <3> HIDE DEF at
    <3>3. QED BY <3>1, <3>2
  <2>3. Part(f[0], 0)
    <3> HIDE DEF Part
    <3>1. QED BY <2>1, <2>2
  <2>4. QED BY <2>3
<1>4. ASSUME NEW n \in Nat, n \in A PROVE n + 1 \in A
  <2> SUFFICES ASSUME n + 1 <= m PROVE Part(f[n + 1], n + 1)
    OBVIOUS
  <2>1. n + 1 \in 1 .. m /\ (n + 1) - 1 = n /\ s[n + 1] \in S
    BY <1>2
  <2>2. Part(f[n], n)
    BY <1>2, <1>4
  <2>3. f[n + 1] = IF s[n + 1] \in set THEN Append(f[n], s[n + 1]) ELSE f[n]
    BY <1>1, <2>1 DEF Steps
  <2> DEFINE t == f[n]
             u == Append(t, s[n + 1])
  <2>4. t \in Seq(S)
    BY <2>2
  <2>5. PICK at \in [1 .. Len(t) -> 1 .. n] :
          /\ \A i \in 1 .. Len(t) : t[i] = s[at[i]] /\ s[at[i]] \in set
          /\ \A i, j \in 1 .. Len(t) : i < j => at[i] < at[j]
    BY <2>2
  <2> HIDE DEF t
  <2>6. CASE s[n + 1] \notin set
    <3>1. at \in [1 .. Len(t) -> 1 .. n + 1]
      BY <2>4, <2>5
    <3>2. Part(t, n + 1)
      BY <2>4, <2>5, <3>1
    <3>3. QED BY <2>3, <2>6, <3>2 DEF t
  <2>7. CASE s[n + 1] \in set
    <3> DEFINE there == [i \in 1 .. Len(t) + 1 |-> IF i = Len(t) + 1 THEN n + 1 ELSE at[i]]
    <3>1. /\ u \in Seq(S)
          /\ Len(u) = Len(t) + 1
          /\ \A i \in 1 .. Len(t) : u[i] = t[i]
          /\ u[Len(t) + 1] = s[n + 1]
          /\ Len(t) \in Nat
      BY <2>1, <2>4, AppendProperties
    <3>2. \A i \in 1 .. Len(t) : at[i] \in 1 .. n /\ there[i] = at[i]
      BY <2>5, <3>1
    <3>3. there[Len(t) + 1] = n + 1
      BY <3>1
    <3>4. there \in [1 .. Len(u) -> 1 .. n + 1]
      BY <3>1, <3>2, <3>3
    <3> HIDE DEF there, u
    <3>5. \A i \in 1 .. Len(u) : u[i] = s[there[i]] /\ s[there[i]] \in set
      <4> TAKE i \in 1 .. Len(u)
      <4>1. i \in 1 .. Len(t) \/ i = Len(t) + 1
        BY <3>1
      <4>2. QED BY <2>5, <2>7, <3>1, <3>2, <3>3, <4>1
    <3>6. \A i, j \in 1 .. Len(u) : i < j => there[i] < there[j]
      <4> SUFFICES ASSUME NEW i \in 1 .. Len(u), NEW j \in 1 .. Len(u), i < j
                   PROVE  there[i] < there[j]
        OBVIOUS
      <4>1. Len(u) = Len(t) + 1 /\ Len(t) \in Nat
        BY <3>1
      <4>2. i \in 1 .. Len(t)
        BY <4>1
      <4>3. j \in 1 .. Len(t) \/ j = Len(t) + 1
        BY <4>1
      <4>4. QED BY <2>5, <3>2, <3>3, <4>2, <4>3
    <3>7. Part(u, n + 1)
      BY <3>1, <3>4, <3>5, <3>6
    <3>8. f[n + 1] = u
      BY <2>3, <2>7 DEF t, u
    <3>9. QED BY <3>7, <3>8
  <2>8. QED BY <2>6, <2>7
<1>5. m \in A
  <2> HIDE DEF A
  <2>1. QED BY <1>2, <1>3, <1>4, FromZeroUp
<1>6. Part(Kept(s, set), m)
  BY <1>1, <1>2, <1>5
<1>7. DOMAIN Kept(s, set) = 1 .. Len(Kept(s, set))
  BY <1>6
<1>8. QED BY <1>2, <1>6, <1>7

LEMMA KeptEmpty == ASSUME NEW set PROVE Kept(<<>>, set) = <<>>
<1>1. Len(<<>>) = 0
  OBVIOUS
<1>2. QED BY <1>1, KeptSteps DEF Steps

LEMMA KeptAppend ==
  ASSUME NEW S, NEW s \in Seq(S), NEW x \in S, NEW set
  PROVE  Kept(Append(s, x), set) =
           IF x \in set THEN Append(Kept(s, set), x) ELSE Kept(s, set)
<1> DEFINE m == Len(s)
           t == Append(s, x)
<1>1. /\ m \in Nat /\ Len(t) = m + 1 /\ t[m + 1] = x
      /\ \A n \in 1 .. m : t[n] = s[n]
  BY AppendProperties
<1>2. PICK f : Kept(s, set) = f[m] /\ Steps(f, m, s, set)
  BY <1>1, KeptSteps
<1>3. PICK g : Kept(t, set) = g[Len(t)] /\ Steps(g, Len(t), t, set)
  <2>1. Len(t) \in Nat
    BY <1>1
  <2> HIDE DEF t
  <2>2. QED BY <2>1, KeptSteps
<1> HIDE DEF m, t
<1>4. f[m] = g[m]
  <2>1. f[0] = g[0]
    BY <1>2, <1>3 DEF Steps
  <2>2. \A n \in 1 .. m : f[n - 1] = g[n - 1] => f[n] = g[n]
    <3> TAKE n \in 1 .. m
    <3>1. n \in 1 .. Len(t)
      BY <1>1
    <3>2. t[n] = s[n]
      BY <1>1
    <3>3. g[n] = IF t[n] \in set THEN Append(g[n - 1], t[n]) ELSE g[n - 1]
      BY <1>3, <3>1 DEF Steps
    <3>4. f[n] = IF s[n] \in set THEN Append(f[n - 1], s[n]) ELSE f[n - 1]
      BY <1>2 DEF Steps
    <3>5. QED BY <3>2, <3>3, <3>4
  <2>3. QED BY <1>1, <2>1, <2>2, Agree
<1>5. g[m + 1] = IF t[m + 1] \in set THEN Append(g[m], t[m + 1]) ELSE g[m]
  <2>1. m + 1 \in 1 .. Len(t) /\ (m + 1) - 1 = m
    BY <1>1
  <2>2. QED BY <1>3, <2>1 DEF Steps
<1>6. QED BY <1>1, <1>2, <1>3, <1>4, <1>5 DEF t

LEMMA KeptSame ==
  ASSUME NEW S, NEW s \in Seq(S), NEW set, NEW other,
         \A n \in DOMAIN s : s[n] \in set <=> s[n] \in other
  PROVE  Kept(s, set) = Kept(s, other)
<1> DEFINE m == Len(s)
<1>1. m \in Nat /\ DOMAIN s = 1 .. m
  OBVIOUS
<1>2. PICK f : Kept(s, set) = f[m] /\ Steps(f, m, s, set)
  BY <1>1, KeptSteps
<1>3. PICK g : Kept(s, other) = g[m] /\ Steps(g, m, s, other)
  BY <1>1, KeptSteps
<1> HIDE DEF m
<1>4. f[0] = g[0]
  BY <1>2, <1>3 DEF Steps
<1>5. \A n \in 1 .. m : f[n - 1] = g[n - 1] => f[n] = g[n]
  BY <1>1, <1>2, <1>3 DEF Steps
<1>6. f[m] = g[m]
  BY <1>1, <1>4, <1>5, Agree
<1>7. QED BY <1>2, <1>3, <1>6

----------------------------------------------------------------------------
(* The buffer *)

\* The buffer after a candle: some of the candles before it, of other buckets, in
\* their order, and the candle.
LEMMA AppendCandleIsPart ==
  ASSUME NEW S, NEW buffer \in Seq(S), NEW candle \in S
  PROVE  LET new == AppendCandle(buffer, candle)
             last == Len(buffer) + 1
         IN /\ new \in Seq(S)
            /\ Len(new) <= MaxBuffer
            /\ \E at \in [DOMAIN new -> 1 .. last] :
                 /\ \A i \in DOMAIN new :
                      IF at[i] = last THEN new[i] = candle
                      ELSE new[i] = buffer[at[i]] /\ buffer[at[i]].start # candle.start
                 /\ \A i, j \in DOMAIN new : i < j => at[i] < at[j]
<1> DEFINE last == Len(buffer) + 1
           set == {c \in Range(buffer) : c.start # candle.start}
           kept == Kept(buffer, set)
           whole == Append(kept, candle)
           from == IF Len(whole) > MaxBuffer THEN Len(whole) - MaxBuffer + 1 ELSE 1
           new == SubSeq(whole, from, Len(whole))
<1>1. AppendCandle(buffer, candle) = new
  BY DEF AppendCandle, Trim
<1>2. kept \in Seq(S)
  BY KeptIsPart
<1>3. PICK at \in [DOMAIN kept -> DOMAIN buffer] :
        /\ \A i \in DOMAIN kept : kept[i] = buffer[at[i]] /\ buffer[at[i]] \in set
        /\ \A i, j \in DOMAIN kept : i < j => at[i] < at[j]
  BY KeptIsPart
<1>4. \A c \in set : c.start # candle.start
  OBVIOUS
<1>5. DOMAIN buffer = 1 .. Len(buffer) /\ Len(buffer) \in Nat /\ last \in Nat
  OBVIOUS
<1> HIDE DEF set, kept, last
<1>6. /\ whole \in Seq(S) /\ Len(whole) = Len(kept) + 1 /\ whole[Len(kept) + 1] = candle
      /\ \A i \in 1 .. Len(kept) : whole[i] = kept[i]
  BY <1>2, AppendProperties
<1>7. Len(kept) \in Nat /\ DOMAIN kept = 1 .. Len(kept)
  BY <1>2
<1> HIDE DEF whole
<1>8. /\ from \in Nat /\ from >= 1 /\ from <= Len(whole) /\ Len(whole) - from + 1 <= MaxBuffer
      /\ Len(whole) \in Nat
  BY <1>6, <1>7, BufferAssumption
<1> HIDE DEF from
<1>9. /\ new \in Seq(S)
      /\ Len(new) = Len(whole) - from + 1
      /\ \A i \in 1 .. Len(whole) - from + 1 : new[i] = whole[from + i - 1]
  <2>1. \A i \in from .. Len(whole) : whole[i] \in S
    BY <1>6, <1>8
  <2>2. QED BY <1>8, <2>1, SubSeqProperties
<1> HIDE DEF new
<1>10. DOMAIN new = 1 .. Len(new) /\ Len(new) \in Nat
  BY <1>9
<1> DEFINE place(i) == IF i = Len(kept) + 1 THEN last ELSE at[i]
           there == [i \in DOMAIN new |-> place(from + i - 1)]
<1>11. \A i \in 1 .. Len(whole) :
         /\ place(i) \in 1 .. last
         /\ IF place(i) = last THEN whole[i] = candle
            ELSE whole[i] = buffer[place(i)] /\ buffer[place(i)].start # candle.start
  <2> TAKE i \in 1 .. Len(whole)
  <2>1. CASE i = Len(kept) + 1
    <3>1. place(i) = last /\ whole[i] = candle
      BY <1>6, <2>1
    <3>2. last \in 1 .. last
      BY <1>5 DEF last
    <3>3. QED BY <3>1, <3>2
  <2>2. CASE i # Len(kept) + 1
    <3>1. i \in 1 .. Len(kept)
      BY <1>6, <1>7, <2>2
    <3>2. at[i] \in 1 .. Len(buffer) /\ kept[i] = buffer[at[i]] /\ buffer[at[i]] \in set
      BY <1>3, <1>5, <1>7, <3>1
    <3>3. place(i) = at[i] /\ whole[i] = kept[i]
      BY <1>6, <2>2, <3>1
    <3>4. at[i] # last
      BY <1>5, <3>2 DEF last
    <3>5. at[i] \in 1 .. last
      BY <1>5, <3>2 DEF last
    <3>6. QED BY <1>4, <3>2, <3>3, <3>4, <3>5
  <2>3. QED BY <2>1, <2>2
<1>12. \A i, j \in 1 .. Len(whole) : i < j => place(i) < place(j)
  <2> SUFFICES ASSUME NEW i \in 1 .. Len(whole), NEW j \in 1 .. Len(whole), i < j
               PROVE  place(i) < place(j)
    OBVIOUS
  <2>1. i \in 1 .. Len(kept) /\ i # Len(kept) + 1 /\ i \in DOMAIN kept
    BY <1>6, <1>7
  <2>2. place(i) = at[i] /\ at[i] \in 1 .. Len(buffer)
    BY <1>3, <1>5, <2>1
  <2>3. CASE j = Len(kept) + 1
    BY <1>5, <2>2, <2>3 DEF last
  <2>4. CASE j # Len(kept) + 1
    <3>1. j \in DOMAIN kept
      BY <1>6, <1>7, <2>4
    <3>2. at[i] < at[j]
      BY <1>3, <2>1, <3>1
    <3>3. QED BY <2>2, <2>4, <3>2
  <2>5. QED BY <2>3, <2>4
<1> HIDE DEF place
<1>13. \A i \in DOMAIN new : from + i - 1 \in 1 .. Len(whole) /\ new[i] = whole[from + i - 1]
  BY <1>8, <1>9, <1>10
<1>14. there \in [DOMAIN new -> 1 .. last]
  BY <1>11, <1>13
<1>15. \A i \in DOMAIN new : there[i] = place(from + i - 1)
  OBVIOUS
<1>16. \A i \in DOMAIN new :
         IF there[i] = last THEN new[i] = candle
         ELSE new[i] = buffer[there[i]] /\ buffer[there[i]].start # candle.start
  <2> HIDE DEF there
  <2>1. QED BY <1>11, <1>13, <1>15
<1>17. \A i, j \in DOMAIN new : i < j => there[i] < there[j]
  <2> SUFFICES ASSUME NEW i \in DOMAIN new, NEW j \in DOMAIN new, i < j
               PROVE  there[i] < there[j]
    OBVIOUS
  <2> HIDE DEF there
  <2>1. from + i - 1 < from + j - 1
    BY <1>8, <1>10
  <2>2. QED BY <1>12, <1>13, <1>15, <2>1
<1>18. Len(new) <= MaxBuffer
  BY <1>8, <1>9
<1> HIDE DEF there
<1>19. QED BY <1>1, <1>9, <1>14, <1>16, <1>17, <1>18 DEF last

\* A candle that closes no earlier than the buffer's candles comes last in it.
LEMMA ClosedComesLast ==
  ASSUME NEW buffer \in Seq(Candle), NEW candle \in Candle,
         \A j, k \in DOMAIN buffer : j < k => buffer[j].start < buffer[k].start,
         \A k \in DOMAIN buffer : buffer[k].start <= candle.start
  PROVE  LET new == AppendCandle(buffer, candle)
         IN /\ \A j, k \in DOMAIN new : j < k => new[j].start < new[k].start
            /\ \A k \in DOMAIN new :
                 \/ new[k] = candle
                 \/ \E j \in DOMAIN buffer :
                      new[k] = buffer[j] /\ buffer[j].start < candle.start
<1> DEFINE new == AppendCandle(buffer, candle)
           last == Len(buffer) + 1
<1>1. PICK at \in [DOMAIN new -> 1 .. last] :
        /\ \A i \in DOMAIN new :
             IF at[i] = last THEN new[i] = candle
             ELSE new[i] = buffer[at[i]] /\ buffer[at[i]].start # candle.start
        /\ \A i, j \in DOMAIN new : i < j => at[i] < at[j]
  BY AppendCandleIsPart
<1>2. Len(buffer) \in Nat /\ DOMAIN buffer = 1 .. Len(buffer)
  OBVIOUS
<1>3. candle.start \in Int /\ \A k \in DOMAIN buffer : buffer[k].start \in Int
  <2>1. \A c \in Candle : c.start \in Int
    BY DEF Candle, Buckets
  <2>2. \A k \in DOMAIN buffer : buffer[k] \in Candle
    OBVIOUS
  <2>3. QED BY <2>1, <2>2
<1> HIDE DEF new
<1>4. \A i \in DOMAIN new : at[i] # last => at[i] \in DOMAIN buffer /\ new[i] = buffer[at[i]]
                                           /\ buffer[at[i]].start < candle.start
  <2> SUFFICES ASSUME NEW i \in DOMAIN new, at[i] # last
               PROVE  at[i] \in DOMAIN buffer /\ new[i] = buffer[at[i]]
                      /\ buffer[at[i]].start < candle.start
    OBVIOUS
  <2>1. at[i] \in DOMAIN buffer
    BY <1>1, <1>2
  <2>2. new[i] = buffer[at[i]] /\ buffer[at[i]].start # candle.start
    BY <1>1
  <2>3. buffer[at[i]].start <= candle.start
    BY <2>1
  <2>4. QED BY <1>3, <2>1, <2>2, <2>3
<1>5. ASSUME NEW j \in DOMAIN new, NEW k \in DOMAIN new, j < k
      PROVE  new[j].start < new[k].start
  <2>1. at[j] < at[k] /\ at[j] \in 1 .. last /\ at[k] \in 1 .. last
    BY <1>1, <1>5
  <2>2. at[j] # last
    BY <1>2, <2>1
  <2>3. new[j] = buffer[at[j]] /\ buffer[at[j]].start < candle.start /\ at[j] \in DOMAIN buffer
    BY <1>4, <2>2
  <2>4. CASE at[k] = last
    BY <1>1, <2>3, <2>4
  <2>5. CASE at[k] # last
    <3>1. new[k] = buffer[at[k]] /\ at[k] \in DOMAIN buffer
      BY <1>4, <2>5
    <3>2. QED BY <2>1, <2>3, <3>1
  <2>6. QED BY <2>4, <2>5
<1>6. ASSUME NEW k \in DOMAIN new
      PROVE  \/ new[k] = candle
             \/ \E j \in DOMAIN buffer : new[k] = buffer[j] /\ buffer[j].start < candle.start
  BY <1>1, <1>4
<1>7. QED BY <1>5, <1>6 DEF new

LEMMA RemoveFirstIsPart ==
  ASSUME NEW S, NEW s \in Seq(S), NEW x
  PROVE  RemoveFirst(s, x) \in Seq(S)
<1>1. CASE \E i \in 1 .. Len(s) : s[i] = x
  <2> DEFINE I == {i \in 1 .. Len(s) : s[i] = x}
             k == SelectInSeq(s, LAMBDA v : v = x)
  <2>1. k \in 1 .. Len(s)
    <3>1. I # {} /\ k = IF I # {} THEN CHOOSE m \in I : \A n \in I : m <= n ELSE 0
      BY <1>1 DEF SelectInSeq, Min
    <3>2. \E m \in I : \A n \in I : m <= n
      <4>1. I # {} /\ I \in SUBSET Nat
        BY <1>1
      <4> HIDE DEF I
      <4>2. PICK m \in I : \A n \in I : <<n, m>> \notin OpToRel(<, Nat)
        BY <4>1, WFMin, NatLessThanWellFounded
      <4>3. \A n \in I : m <= n
        <5> TAKE n \in I
        <5>1. m \in Nat /\ n \in Nat
          BY <4>1
        <5>2. ~(n < m)
          BY <4>2, <5>1 DEF OpToRel
        <5>3. QED BY <5>1, <5>2
      <4>4. QED BY <4>3
    <3>3. k \in I
      <4> HIDE DEF I, k
      <4>1. QED BY <3>1, <3>2
    <3>4. QED BY <3>3
  <2> HIDE DEF k
  <2>2. RemoveFirst(s, x) = SubSeq(s, 1, k - 1) \o SubSeq(s, k + 1, Len(s))
    BY <1>1 DEF RemoveFirst, RemoveAt, k
  <2>3. SubSeq(s, 1, k - 1) \in Seq(S) /\ SubSeq(s, k + 1, Len(s)) \in Seq(S)
    <3>1. /\ Len(s) \in Nat /\ k - 1 \in Int /\ k + 1 \in Int
          /\ \A i \in 1 .. Len(s) : s[i] \in S
          /\ \A i \in 1 .. k - 1 : i \in 1 .. Len(s)
          /\ \A i \in k + 1 .. Len(s) : i \in 1 .. Len(s)
      BY <2>1
    <3>2. QED BY <3>1, SubSeqProperties
  <2>4. QED BY <2>2, <2>3
<1>2. QED BY <1>1 DEF RemoveFirst

----------------------------------------------------------------------------
(* The invariants *)

\* A task holds a tick that the market has made, for an engine that was built.
TasksKnown ==
  \A k \in DOMAIN tasks : tasks[k].tick \in DOMAIN market /\ tasks[k].engine <= engine

\* The bus has handlers of engines that were built.
HandlersKnown == handlers \in Seq(1 .. engine)

\* Only the latest engine has a strategy, and only while the runtime holds it.
OneStrategy ==
  \A g \in Engines :
    IF strategies[g].live THEN g = engine /\ runtime # "stopped"
                          ELSE strategies[g] = NoStrategy

\* Only no candle starts at no bucket.
CandleBegun ==
  \A g \in Engines : strategies[g].candle.start = -1 => strategies[g].candle = NoCandle

\* The cache, once filled, is the table.
CacheTrue == cache = NoCache \/ cache = table

----------------------------------------------------------------------------
(* What holds as long as no tick is overtaken. *)

MarketInOrder ==
  \A m, n \in DOMAIN market : m <= n => market[m] <= market[n]

TasksInOrder ==
  \A j, k \in DOMAIN tasks : j <= k => tasks[j].tick <= tasks[k].tick

\* The market has reached the bucket.
Reached(bucket) == \E n \in DOMAIN market : market[n] >= bucket

\* A strategy's buffer is in order and does not pass its candle, nor does its
\* candle pass the market, nor any of them a tick on its way to the engine.
Buffered(g) ==
  LET s == strategies[g]
  IN \A k \in DOMAIN s.buffer :
       /\ \A j \in DOMAIN s.buffer : j < k => s.buffer[j].start < s.buffer[k].start
       /\ s.candle # NoCandle => s.buffer[k].start <= s.candle.start
       /\ \A i \in DOMAIN tasks :
            tasks[i].engine = g => s.buffer[k].start <= market[tasks[i].tick]

InProgress(g) ==
  LET s == strategies[g]
  IN s.candle # NoCandle =>
       /\ Reached(s.candle.start)
       /\ \A i \in DOMAIN tasks :
            tasks[i].engine = g => s.candle.start <= market[tasks[i].tick]

\* The bucket of a decision is behind the market, and behind everything the latest
\* strategy is about to see.
Decided(b) ==
  decided[b] # 0 =>
    /\ Reached(b + 1)
    /\ \A g \in Engines : strategies[g].candle # NoCandle => b < strategies[g].candle.start
    /\ \A i \in DOMAIN tasks : tasks[i].engine = engine => b < market[tasks[i].tick]

\* The candle of the strategy and those it has closed hold what it took; it took
\* nothing past its candle.
Holds(g) ==
  LET s == strategies[g]
  IN s.live =>
       /\ s.candle = NoCandle => taken = <<>>
       /\ \A n \in DOMAIN taken :
            taken[n] \in DOMAIN market /\ market[taken[n]] <= s.candle.start
       /\ \A k \in DOMAIN s.buffer : s.buffer[k].ticks # <<>> => s.buffer[k].start \in Buckets
       /\ \A b \in Buckets :
            /\ s.candle.start = b => s.candle.ticks = TakenOf(b)
            /\ \A k \in DOMAIN s.buffer :
                 s.buffer[k].start = b /\ s.buffer[k].ticks # <<>> =>
                   b < s.candle.start /\ s.buffer[k].ticks = TakenOf(b)

Ordered ==
  /\ MarketInOrder
  /\ TasksInOrder
  /\ \A g \in Engines : Buffered(g) /\ InProgress(g) /\ Holds(g)
  /\ \A b \in Buckets : Decided(b) /\ decided[b] <= 1

Linked == TasksKnown /\ HandlersKnown /\ OneStrategy /\ CandleBegun
InOrder == ~late => Ordered
----------------------------------------------------------------------------
(* The types *)

LEMMA EmptyTypes ==
  NoCandle \in Candle /\ NoStrategy \in Strategy /\ Len(NoStrategy.buffer) <= MaxBuffer
<1>1. <<>> \in Seq(TickNumbers) /\ <<>> \in Seq(Candle)
  OBVIOUS
<1>2. NoCandle \in Candle
  BY <1>1 DEF NoCandle, Candle
<1>3. NoStrategy \in Strategy
  BY <1>1, <1>2 DEF NoStrategy, Strategy
<1>4. QED BY <1>2, <1>3, BufferAssumption DEF NoStrategy

\* A tick extends the candle in progress or closes it and begins one.
LEMMA AddCases ==
  ASSUME NEW candle \in Candle, NEW tick \in TickNumbers, NEW bucket \in Buckets
  PROVE  LET r == Add(candle, tick, bucket)
         IN /\ r.candle \in Candle /\ r.candle.start = bucket /\ r.candle # NoCandle
            /\ IF bucket = candle.start
               THEN r.closed = NoCandle /\ r.candle.ticks = Append(candle.ticks, tick)
               ELSE r.closed = candle /\ r.candle.ticks = <<tick>>
<1> DEFINE r == Add(candle, tick, bucket)
<1>1. bucket # -1
  BY DataAssumption DEF Buckets
<1>2. CASE bucket = candle.start
  <2>1. r.closed = NoCandle /\ r.candle = [candle EXCEPT !.ticks = Append(@, tick)]
    BY <1>2 DEF Add, Extended
  <2>2. Append(candle.ticks, tick) \in Seq(TickNumbers)
    BY AppendProperties DEF Candle
  <2>3. r.candle = [start |-> bucket, ticks |-> Append(candle.ticks, tick)]
    BY <1>2, <2>1 DEF Candle
  <2> HIDE DEF r
  <2>4. r.candle \in Candle
    BY <2>2, <2>3 DEF Candle
  <2>5. QED BY <1>1, <1>2, <2>1, <2>3, <2>4 DEF NoCandle, r
<1>3. CASE bucket # candle.start
  <2>1. r.closed = candle /\ r.candle = [start |-> bucket, ticks |-> <<tick>>]
    BY <1>3 DEF Add, Begin
  <2>2. <<tick>> \in Seq(TickNumbers)
    OBVIOUS
  <2> HIDE DEF r
  <2>3. r.candle \in Candle
    BY <2>1, <2>2 DEF Candle
  <2>4. QED BY <1>1, <1>3, <2>1, <2>3 DEF NoCandle, r
<1>4. QED BY <1>2, <1>3

\* The warm-up.
LEMMA WarmUp ==
  ASSUME TypeOK, NEW last \in -1 .. now
  PROVE  LET s == WarmedUp(last)
         IN /\ s \in Strategy /\ s.candle = NoCandle /\ s.live
            /\ Len(s.buffer) <= MaxBuffer
            /\ \A k \in DOMAIN s.buffer : s.buffer[k].ticks = <<>>
            /\ \A j, k \in DOMAIN s.buffer : j < k => s.buffer[j].start < s.buffer[k].start
<1> DEFINE all == [k \in 1 .. last + 1 |-> FromHistory(k - 1)]
           from == IF Len(all) > MaxBuffer THEN Len(all) - MaxBuffer + 1 ELSE 1
           buffer == SubSeq(all, from, Len(all))
<1>1. last + 1 \in Nat /\ now \in Nat /\ now <= MaxBucket
  BY DataAssumption DEF TypeOK, Buckets
<1>2. \A k \in 1 .. last + 1 :
        all[k] \in Candle /\ all[k].start = k - 1 /\ all[k].ticks = <<>>
  <2> TAKE k \in 1 .. last + 1
  <2>1. k - 1 \in Buckets /\ all[k] = [start |-> k - 1, ticks |-> <<>>]
    BY <1>1, DataAssumption DEF Buckets, FromHistory
  <2>2. <<>> \in Seq(TickNumbers)
    OBVIOUS
  <2> HIDE DEF all
  <2>3. QED BY <2>1, <2>2 DEF Candle
<1>3. all \in Seq(Candle) /\ Len(all) = last + 1
  <2>1. all \in [1 .. last + 1 -> Candle]
    BY <1>2
  <2> HIDE DEF all
  <2>2. QED BY <1>1, <2>1
<1>4. WarmedUp(last) = [candle |-> NoCandle, live |-> TRUE, buffer |-> buffer]
  BY DEF WarmedUp, Trim
<1> HIDE DEF all
<1>5. from \in Nat /\ from >= 1 /\ Len(all) - from + 1 <= MaxBuffer /\ from <= Len(all) + 1
  BY <1>1, <1>3, BufferAssumption
<1> HIDE DEF from
<1>6. /\ buffer \in Seq(Candle)
      /\ Len(buffer) = IF from <= Len(all) THEN Len(all) - from + 1 ELSE 0
      /\ \A k \in 1 .. Len(all) - from + 1 : buffer[k] = all[from + k - 1]
  <2>1. Len(all) \in Int /\ \A k \in from .. Len(all) : all[k] \in Candle
    BY <1>1, <1>2, <1>3, <1>5
  <2>2. QED BY <1>5, <2>1, SubSeqProperties
<1> HIDE DEF buffer
<1>7. \A k \in DOMAIN buffer : buffer[k].start = from + k - 2 /\ buffer[k].ticks = <<>>
  <2> TAKE k \in DOMAIN buffer
  <2>1. k \in 1 .. Len(all) - from + 1
    BY <1>1, <1>3, <1>5, <1>6
  <2>2. from + k - 1 \in 1 .. last + 1
    BY <1>1, <1>3, <1>5, <2>1
  <2>3. buffer[k] = all[from + k - 1]
    BY <1>6, <2>1
  <2>4. (from + k - 1) - 1 = from + k - 2
    BY <1>5, <2>1
  <2>5. QED BY <1>2, <2>2, <2>3, <2>4
<1>8. Len(buffer) <= MaxBuffer /\ DOMAIN buffer \subseteq Nat
  BY <1>1, <1>3, <1>5, <1>6, BufferAssumption
<1>9. \A j, k \in DOMAIN buffer : j < k => buffer[j].start < buffer[k].start
  BY <1>5, <1>7, <1>8
<1>10. WarmedUp(last) \in Strategy
  BY <1>4, <1>6, EmptyTypes DEF Strategy
<1>11. QED BY <1>4, <1>7, <1>8, <1>9, <1>10

\* What Handle does: nothing to the strategies, or a tick of the latest engine's.
Task == Head(tasks)
Bucket == market[Task.tick]
Mine == strategies[Task.engine]

Takes ==
  LET g == Task.engine
      closes == Mine.candle # NoCandle /\ Mine.candle.start # Bucket
      next == strategies'[g]
  IN /\ States = "armed" /\ connected /\ Mine.live /\ g = engine
     /\ \A h \in Engines \ {g} : strategies'[h] = strategies[h]
     /\ next \in Strategy /\ next.live /\ next.candle # NoCandle
     /\ next.candle.start = Bucket
     /\ next.candle.ticks = IF Mine.candle.start = Bucket
                            THEN Append(Mine.candle.ticks, Task.tick) ELSE <<Task.tick>>
     /\ next.buffer = IF closes THEN AppendCandle(Mine.buffer, Mine.candle) ELSE Mine.buffer
     /\ taken' = Append(taken, Task.tick)
     /\ \/ UNCHANGED <<decided, latest>>
        \/ /\ closes
           /\ decided' = [decided EXCEPT ![Mine.candle.start] = @ + 1]
           /\ latest' = [start |-> Mine.candle.start, tick |-> Task.tick]

LEMMA HandleCases ==
  ASSUME TypeOK, Linked, Handle
  PROVE  /\ Task \in [engine : Engines, tick : TickNumbers]
         /\ Task.tick \in DOMAIN market /\ Bucket \in Buckets /\ 1 \in DOMAIN tasks
         /\ tasks[1] = Task
         /\ strategies' \in [Engines -> Strategy]
         /\ UNCHANGED <<strategies, historyVars>> \/ Takes
<1> DEFINE g == Task.engine
<1>1. tasks # <<>> /\ tasks \in Seq([engine : Engines, tick : TickNumbers])
  BY DEF Handle, TypeOK
<1>2. 1 \in DOMAIN tasks /\ tasks[1] = Task /\ Task \in [engine : Engines, tick : TickNumbers]
  <2>1. Len(tasks) \in Nat /\ Len(tasks) # 0 /\ DOMAIN tasks = 1 .. Len(tasks)
    BY <1>1
  <2>2. 1 \in DOMAIN tasks /\ Task = tasks[1]
    BY <2>1 DEF Task
  <2>3. \A R : tasks \in Seq(R) => tasks[1] \in R
    BY <2>2
  <2>4. tasks[1] \in [engine : Engines, tick : TickNumbers]
    BY <1>1, <2>3
  <2>5. QED BY <2>2, <2>4
<1>3. Task.tick \in DOMAIN market /\ g \in Engines /\ Task.tick \in TickNumbers
  BY <1>2 DEF Linked, TasksKnown
<1>4. Bucket \in Buckets
  BY <1>3 DEF Bucket, TypeOK
<1>5. Mine \in Strategy /\ strategies \in [Engines -> Strategy]
  BY <1>3 DEF Mine, TypeOK
<1>6. CASE UNCHANGED <<strategies, historyVars>>
  BY <1>2, <1>3, <1>4, <1>5, <1>6
<1>7. CASE ~UNCHANGED <<strategies, historyVars>>
  <2>1. States = "armed" /\ connected /\ Mine.live /\ OnTick(g, Task.tick)
    BY <1>7 DEF Handle, Task, Mine
  <2>2. g = engine
    BY <1>3, <2>1 DEF Linked, OneStrategy, Mine
  <2> DEFINE r == Add(Mine.candle, Task.tick, Bucket)
             closes == r.closed # NoCandle
             buffer == IF closes THEN AppendCandle(Mine.buffer, r.closed) ELSE Mine.buffer
  <2>3. Mine.candle \in Candle /\ Mine.buffer \in Seq(Candle) /\ Mine.live \in BOOLEAN
    BY <1>5 DEF Strategy
  <2>4. /\ r.candle \in Candle /\ r.candle.start = Bucket /\ r.candle # NoCandle
        /\ IF Bucket = Mine.candle.start
           THEN r.closed = NoCandle /\ r.candle.ticks = Append(Mine.candle.ticks, Task.tick)
           ELSE r.closed = Mine.candle /\ r.candle.ticks = <<Task.tick>>
    BY <1>3, <1>4, <2>3, AddCases
  <2>5. /\ strategies' = [strategies EXCEPT ![g].candle = r.candle, ![g].buffer = buffer]
        /\ taken' = Append(taken, Task.tick)
        /\ IF closes /\ Len(buffer) >= WarmupBars
           THEN /\ decided' = [decided EXCEPT ![r.closed.start] = @ + 1]
                /\ latest' = [start |-> r.closed.start, tick |-> Task.tick]
           ELSE UNCHANGED <<decided, latest>>
    BY <2>1 DEF OnTick, Mine, Bucket
  <2> HIDE DEF r
  <2>6. closes <=> Mine.candle # NoCandle /\ Mine.candle.start # Bucket
    BY <2>4
  <2>7. closes => r.closed = Mine.candle
    BY <2>4
  <2>8. buffer \in Seq(Candle)
    BY <2>3, <2>7, AppendCandleIsPart
  <2>9. buffer = IF closes THEN AppendCandle(Mine.buffer, Mine.candle) ELSE Mine.buffer
    BY <2>7
  <2> HIDE DEF buffer, closes
  <2>10. strategies'[g] = [candle |-> r.candle, buffer |-> buffer, live |-> Mine.live]
    BY <1>3, <1>5, <2>5 DEF Strategy, Mine
  <2>11. strategies'[g] \in Strategy
    BY <2>3, <2>4, <2>8, <2>10 DEF Strategy
  <2>12. /\ \A h \in Engines \ {g} : strategies'[h] = strategies[h]
         /\ strategies' \in [Engines -> Strategy]
    <3>1. strategies' = [strategies EXCEPT ![g] = strategies'[g]]
      BY <1>3, <1>5, <2>5, <2>10 DEF Strategy, Mine
    <3>2. QED BY <1>3, <1>5, <2>11, <3>1
  <2>13. /\ strategies'[g].candle = r.candle /\ strategies'[g].buffer = buffer
         /\ strategies'[g].live
    BY <2>1, <2>10
  <2>14. \/ UNCHANGED <<decided, latest>>
         \/ /\ closes
            /\ decided' = [decided EXCEPT ![Mine.candle.start] = @ + 1]
            /\ latest' = [start |-> Mine.candle.start, tick |-> Task.tick]
    BY <2>5, <2>7
  <2>15. strategies'[g].candle.ticks = IF Mine.candle.start = Bucket
                            THEN Append(Mine.candle.ticks, Task.tick) ELSE <<Task.tick>>
    BY <2>4, <2>13
  <2>16. Takes
    BY <2>1, <2>2, <2>4, <2>5, <2>6, <2>9, <2>11, <2>12, <2>13, <2>14, <2>15 DEF Takes
  <2>17. QED BY <1>2, <1>3, <1>4, <2>12, <2>16
<1>8. QED BY <1>6, <1>7

----------------------------------------------------------------------------
\* A tick of the market enters it last, and starts tasks after those there are.
LEMMA TickCases ==
  ASSUME TypeOK, Linked, NEW bucket \in Buckets, Tick(bucket)
  PROVE  /\ market' \in Seq(Buckets) /\ Len(market) + 1 \in TickNumbers
         /\ DOMAIN market' = 1 .. Len(market) + 1 /\ DOMAIN market = 1 .. Len(market)
         /\ market'[Len(market) + 1] = bucket
         /\ \A n \in DOMAIN market : market'[n] = market[n]
         /\ tasks' \in Seq([engine : Engines, tick : TickNumbers])
         /\ \A k \in DOMAIN tasks' :
              \/ k \in DOMAIN tasks /\ tasks'[k] = tasks[k]
              \/ /\ k \in Nat /\ \A j \in DOMAIN tasks : j < k
                 /\ tasks'[k].tick = Len(market) + 1 /\ tasks'[k].engine \in 1 .. engine
<1> DEFINE next == Len(market) + 1
           new == [k \in DOMAIN handlers |-> [engine |-> handlers[k], tick |-> next]]
           T == [engine : Engines, tick : TickNumbers]
<1>1. market \in Seq(Buckets) /\ tasks \in Seq(T) /\ handlers \in Seq(1 .. engine)
  BY DEF TypeOK, Linked, HandlersKnown
<1>2. Len(market) \in Nat /\ next \in TickNumbers /\ 1 .. engine \subseteq Engines
  BY <1>1, DataAssumption DEF Tick, TypeOK, TickNumbers, Engines
<1>3. /\ market' \in Seq(Buckets) /\ DOMAIN market' = 1 .. next /\ market'[next] = bucket
      /\ DOMAIN market = 1 .. Len(market)
      /\ \A n \in DOMAIN market : market'[n] = market[n]
  BY <1>1, AppendProperties DEF Tick
<1> HIDE DEF next
<1>4. /\ Len(handlers) \in Nat /\ DOMAIN handlers = 1 .. Len(handlers)
      /\ \A k \in 1 .. Len(handlers) : handlers[k] \in 1 .. engine
  BY <1>1, LenProperties, ElementOfSeq
<1>5. \A k \in 1 .. Len(handlers) :
        new[k] \in T /\ new[k].tick = next /\ new[k].engine \in 1 .. engine
  BY <1>2, <1>4
<1>6. new \in Seq(T) /\ Len(new) = Len(handlers)
  <2>1. new \in [1 .. Len(handlers) -> T]
    BY <1>4, <1>5
  <2> HIDE DEF new, T
  <2>2. QED BY <1>4, <2>1
<1>7. tasks' = tasks \/ tasks' = tasks \o new
  BY DEF Tick, next
<1> HIDE DEF new, T
<1>8. Len(tasks) \in Nat /\ DOMAIN tasks = 1 .. Len(tasks)
  BY <1>1
<1>9. CASE tasks' = tasks
  BY <1>1, <1>2, <1>3, <1>9 DEF next, T
<1>10. CASE tasks' = tasks \o new
  <2>1. /\ tasks' \in Seq(T) /\ DOMAIN tasks' = 1 .. Len(tasks) + Len(handlers)
        /\ \A k \in 1 .. Len(tasks) + Len(handlers) :
             tasks'[k] = IF k <= Len(tasks) THEN tasks[k] ELSE new[k - Len(tasks)]
    <3>1. /\ tasks \o new \in Seq(T) /\ Len(tasks \o new) = Len(tasks) + Len(new)
          /\ \A k \in 1 .. Len(tasks) + Len(new) :
               (tasks \o new)[k] = IF k <= Len(tasks) THEN tasks[k] ELSE new[k - Len(tasks)]
      BY <1>1, <1>6, ConcatProperties
    <3>2. DOMAIN tasks' = 1 .. Len(tasks')
      BY <1>10, <3>1, LenProperties
    <3>3. QED BY <1>6, <1>10, <3>1, <3>2
  <2>2. \A k \in DOMAIN tasks' :
          \/ k \in DOMAIN tasks /\ tasks'[k] = tasks[k]
          \/ /\ k \in Nat /\ \A j \in DOMAIN tasks : j < k
             /\ tasks'[k].tick = next /\ tasks'[k].engine \in 1 .. engine
    <3> TAKE k \in DOMAIN tasks'
    <3>1. CASE k <= Len(tasks)
      BY <1>8, <2>1, <3>1
    <3>2. CASE ~(k <= Len(tasks))
      <4>1. k \in Nat /\ k > Len(tasks) /\ k - Len(tasks) \in 1 .. Len(handlers)
        BY <1>4, <1>8, <2>1, <3>2
      <4>2. tasks'[k] = new[k - Len(tasks)]
        BY <2>1, <3>2
      <4>3. \A j \in DOMAIN tasks : j < k
        BY <1>8, <4>1
      <4>4. QED BY <1>5, <4>1, <4>2, <4>3
    <3>3. QED BY <3>1, <3>2
  <2>3. QED BY <1>2, <1>3, <2>1, <2>2 DEF next, T
<1>11. QED BY <1>7, <1>9, <1>10

\* The types and the links, action by action.
LEMMA TickTypes ==
  ASSUME TypeOK, Linked, NEW bucket \in Buckets, Tick(bucket)
  PROVE  TypeOK' /\ Linked'
<1>1. /\ UNCHANGED <<now, table, cache, gateway, connected, stream, runtime, engine, handlers,
                     strategies, taken, decided, latest>>
      /\ late' \in BOOLEAN
  BY DEF Tick, switchVars, linkVars, historyVars, TypeOK, Overtakes
<1>2. TypeOK'
  BY <1>1, TickCases DEF TypeOK
<1>3. TasksKnown'
  <2> SUFFICES ASSUME NEW k \in DOMAIN tasks'
               PROVE  tasks'[k].tick \in DOMAIN market' /\ tasks'[k].engine <= engine
    BY <1>1 DEF TasksKnown
  <2>1. /\ DOMAIN market' = 1 .. Len(market) + 1 /\ DOMAIN market = 1 .. Len(market)
        /\ \/ k \in DOMAIN tasks /\ tasks'[k] = tasks[k]
           \/ tasks'[k].tick = Len(market) + 1 /\ tasks'[k].engine \in 1 .. engine
        /\ Len(market) + 1 \in TickNumbers
    BY TickCases
  <2>2. Len(market) \in Nat /\ engine \in Nat
    BY DataAssumption DEF TypeOK
  <2>3. CASE k \in DOMAIN tasks /\ tasks'[k] = tasks[k]
    BY <2>1, <2>2, <2>3 DEF Linked, TasksKnown
  <2>4. CASE tasks'[k].tick = Len(market) + 1 /\ tasks'[k].engine \in 1 .. engine
    BY <2>1, <2>2, <2>4
  <2>5. QED BY <2>1, <2>3, <2>4
<1>4. HandlersKnown' /\ OneStrategy' /\ CandleBegun'
  BY <1>1 DEF Linked, HandlersKnown, OneStrategy, CandleBegun
<1>5. QED BY <1>2, <1>3, <1>4 DEF Linked

LEMMA HandleTypes ==
  ASSUME TypeOK, Linked, Handle
  PROVE  TypeOK' /\ Linked'
<1> DEFINE g == Task.engine
<1>1. /\ Task \in [engine : Engines, tick : TickNumbers] /\ Bucket \in Buckets
      /\ Task.tick \in DOMAIN market
      /\ strategies' \in [Engines -> Strategy]
      /\ UNCHANGED <<strategies, historyVars>> \/ Takes
  BY HandleCases
<1>2. /\ tasks # <<>> /\ tasks' = Tail(tasks) /\ cache' = States
      /\ UNCHANGED <<now, market, table, gateway, connected, stream, runtime, engine, handlers, late>>
  BY DEF Handle, linkVars
<1>3. /\ tasks' \in Seq([engine : Engines, tick : TickNumbers])
      /\ Len(tasks') = Len(tasks) - 1 /\ Len(tasks) \in Nat /\ Len(tasks') \in Nat
      /\ \A k \in 1 .. Len(tasks') : tasks'[k] = tasks[k + 1]
  BY <1>2, HeadTailProperties DEF TypeOK
<1>4. DOMAIN tasks = 1 .. Len(tasks) /\ DOMAIN tasks' = 1 .. Len(tasks')
  BY <1>3 DEF TypeOK
<1>5. TasksKnown'
  <2> SUFFICES ASSUME NEW k \in DOMAIN tasks'
               PROVE  tasks'[k].tick \in DOMAIN market /\ tasks'[k].engine <= engine
    BY <1>2 DEF TasksKnown
  <2>1. k + 1 \in DOMAIN tasks /\ tasks'[k] = tasks[k + 1]
    BY <1>3, <1>4
  <2>2. QED BY <2>1 DEF Linked, TasksKnown
<1>6. HandlersKnown'
  BY <1>2 DEF Linked, HandlersKnown
<1>7. cache' \in {NoCache, "armed", "stopped"}
  BY <1>2 DEF TypeOK, States
<1>8. CASE UNCHANGED <<strategies, historyVars>>
  <2>1. TypeOK'
    BY <1>2, <1>3, <1>7, <1>8 DEF TypeOK, historyVars
  <2>2. OneStrategy' /\ CandleBegun'
    BY <1>2, <1>8 DEF Linked, OneStrategy, CandleBegun
  <2>3. QED BY <1>5, <1>6, <2>1, <2>2 DEF Linked
<1>9. CASE Takes
  <2>1. /\ \A h \in Engines \ {g} : strategies'[h] = strategies[h]
        /\ g \in Engines /\ Mine.live /\ g = engine /\ Mine = strategies[g]
        /\ strategies'[g] \in Strategy /\ strategies'[g].live
        /\ strategies'[g].candle.start = Bucket /\ strategies'[g].candle # NoCandle
        /\ taken' = Append(taken, Task.tick)
    BY <1>1, <1>9 DEF Takes, Mine
  <2>2. Len(strategies'[g].buffer) <= MaxBuffer
    <3>1. Mine.buffer \in Seq(Candle) /\ Mine.candle \in Candle /\ Len(Mine.buffer) <= MaxBuffer
      BY <2>1 DEF TypeOK, Strategy
    <3>2. Len(AppendCandle(Mine.buffer, Mine.candle)) <= MaxBuffer
      BY <3>1, AppendCandleIsPart
    <3>3. \/ strategies'[g].buffer = AppendCandle(Mine.buffer, Mine.candle)
          \/ strategies'[g].buffer = Mine.buffer
      BY <1>9 DEF Takes
    <3>4. QED BY <3>1, <3>2, <3>3
  <2>3. \A h \in Engines : Len(strategies'[h].buffer) <= MaxBuffer
    BY <2>1, <2>2 DEF TypeOK
  <2>4. taken' \in Seq(TickNumbers)
    BY <1>1, <2>1, AppendProperties DEF TypeOK
  <2>5. decided' \in [Buckets -> Nat] /\ latest' \in [start : Buckets \cup {-1}, tick : 0 .. MaxTicks]
    <3>1. CASE UNCHANGED <<decided, latest>>
      BY <3>1 DEF TypeOK
    <3>2. CASE ~UNCHANGED <<decided, latest>>
      <4>1. /\ Mine.candle # NoCandle
            /\ decided' = [decided EXCEPT ![Mine.candle.start] = @ + 1]
            /\ latest' = [start |-> Mine.candle.start, tick |-> Task.tick]
        BY <1>9, <3>2 DEF Takes
      <4>2. Mine.candle.start # -1
        BY <2>1, <4>1 DEF Linked, CandleBegun
      <4>3. Mine.candle.start \in Buckets
        BY <2>1, <4>2 DEF TypeOK, Strategy, Candle
      <4>4. Task.tick \in 0 .. MaxTicks
        BY <1>1 DEF TickNumbers
      <4>5. QED BY <4>1, <4>3, <4>4 DEF TypeOK
    <3>3. QED BY <3>1, <3>2
  <2>6. TypeOK'
    BY <1>1, <1>2, <1>3, <1>7, <2>3, <2>4, <2>5 DEF TypeOK
  <2>7. OneStrategy'
    BY <1>2, <2>1 DEF Linked, OneStrategy
  <2>8. Bucket # -1
    BY <1>1, DataAssumption DEF Buckets
  <2>9. CandleBegun'
    BY <2>1, <2>8 DEF Linked, CandleBegun
  <2>10. QED BY <1>5, <1>6, <2>6, <2>7, <2>9 DEF Linked
<1>10. QED BY <1>1, <1>8, <1>9

LEMMA ConnectTypes ==
  ASSUME TypeOK, Linked, Connect
  PROVE  TypeOK' /\ Linked'
<1>1. /\ UNCHANGED <<gateway, now, market, table, cache, tasks, decided, latest, late>>
      /\ connected' = TRUE
  BY DEF Connect, switchVars
<1>2. CASE runtime # "stopped"
  <2>1. UNCHANGED <<engine, strategies, handlers, stream, runtime, taken>>
    BY <1>2 DEF Connect
  <2>2. TypeOK'
    BY <1>1, <2>1 DEF TypeOK
  <2>3. Linked'
    BY <1>1, <2>1 DEF Linked, TasksKnown, HandlersKnown, OneStrategy, CandleBegun
  <2>4. QED BY <2>2, <2>3
<1>3. CASE runtime = "stopped"
  <2>1. PICK last \in -1 .. now : strategies' = [strategies EXCEPT ![engine + 1] = WarmedUp(last)]
    BY <1>3 DEF Connect
  <2>2. /\ engine < MaxStarts /\ engine' = engine + 1 /\ handlers' = Append(handlers, engine + 1)
        /\ stream' = TRUE /\ runtime' = "running" /\ taken' = <<>>
    BY <1>3 DEF Connect
  <2>3. engine + 1 \in Engines /\ engine \in Nat /\ engine' \in 0 .. MaxStarts
    BY <2>2, DataAssumption DEF TypeOK, Engines
  <2> DEFINE s == WarmedUp(last)
  <2>4. s \in Strategy /\ s.candle = NoCandle /\ s.live /\ Len(s.buffer) <= MaxBuffer
    BY WarmUp
  <2> HIDE DEF s
  <2>5. /\ strategies' \in [Engines -> Strategy] /\ strategies'[engine + 1] = s
        /\ \A g \in Engines \ {engine + 1} : strategies'[g] = strategies[g]
    BY <2>1, <2>3, <2>4 DEF TypeOK, s
  <2>6. handlers' \in Seq(1 .. engine') /\ 1 .. engine' \subseteq Engines
    <3>1. handlers \in Seq(1 .. engine + 1) /\ engine + 1 \in 1 .. engine + 1
      BY <2>3 DEF Linked, HandlersKnown
    <3>2. Append(handlers, engine + 1) \in Seq(1 .. engine + 1)
      BY <3>1, AppendProperties
    <3>3. 1 .. engine' \subseteq Engines
      BY <2>2, <2>3, DataAssumption DEF Engines
    <3>4. QED BY <2>2, <3>2, <3>3
  <2>7. handlers' \in Seq(Engines)
    BY <2>3, <2>2, AppendProperties DEF TypeOK
  <2>8. taken' \in Seq(TickNumbers)
    BY <2>2
  <2>9. \A g \in Engines : Len(strategies'[g].buffer) <= MaxBuffer
    BY <2>4, <2>5 DEF TypeOK
  <2>10. TypeOK'
    BY <1>1, <2>2, <2>3, <2>5, <2>7, <2>8, <2>9 DEF TypeOK
  <2>11. TasksKnown'
    <3>1. \A k \in DOMAIN tasks : tasks[k].engine \in Int
      <4>1. \A R : tasks \in Seq(R) => \A k \in DOMAIN tasks : tasks[k] \in R
        OBVIOUS
      <4>2. \A k \in DOMAIN tasks : tasks[k] \in [engine : Engines, tick : TickNumbers]
        BY <4>1 DEF TypeOK
      <4>3. QED BY <4>2 DEF Engines
    <3>2. QED BY <1>1, <2>2, <2>3, <3>1 DEF Linked, TasksKnown
  <2>12. OneStrategy'
    <3>1. \A g \in Engines : ~strategies[g].live
      BY <1>3 DEF Linked, OneStrategy
    <3>2. QED BY <2>2, <2>4, <2>5, <3>1 DEF Linked, OneStrategy
  <2>13. CandleBegun'
    BY <2>4, <2>5 DEF Linked, CandleBegun
  <2>14. QED BY <2>6, <2>10, <2>11, <2>12, <2>13 DEF Linked, HandlersKnown
<1>4. QED BY <1>2, <1>3

LEMMA StopTypes ==
  ASSUME TypeOK, Linked, StopFeed \/ StopEngine \/ Restart
  PROVE  TypeOK' /\ Linked'
<1>1. CASE StopFeed
  <2>1. /\ runtime = "running" /\ runtime' = "stopping" /\ stream' = FALSE /\ tasks' = <<>>
        /\ UNCHANGED <<gateway, now, market, table, cache, connected, engine, handlers, strategies,
                       taken, decided, latest, late>>
    BY <1>1 DEF StopFeed, switchVars, historyVars
  <2>2. tasks' \in Seq([engine : Engines, tick : TickNumbers]) /\ DOMAIN tasks' = {}
    BY <2>1
  <2>3. TypeOK'
    BY <2>1, <2>2 DEF TypeOK
  <2>4. Linked'
    BY <2>1, <2>2 DEF Linked, TasksKnown, HandlersKnown, OneStrategy, CandleBegun
  <2>5. QED BY <2>3, <2>4
<1>2. CASE StopEngine
  <2>1. /\ runtime # "stopped" /\ runtime' = "stopped" /\ stream' = FALSE
        /\ handlers' = RemoveFirst(handlers, engine)
        /\ strategies' = [strategies EXCEPT ![engine] = NoStrategy] /\ connected' = FALSE
        /\ UNCHANGED <<gateway, now, market, table, cache, engine, tasks, taken, decided, latest, late>>
    BY <1>2 DEF StopEngine, Cleared, switchVars, historyVars
  <2>2. handlers' \in Seq(1 .. engine) /\ handlers' \in Seq(Engines)
    BY <2>1, RemoveFirstIsPart DEF TypeOK, Linked, HandlersKnown
  <2>3. /\ strategies' \in [Engines -> Strategy]
        /\ \A g \in Engines :
             strategies'[g] = IF g = engine THEN NoStrategy ELSE strategies[g]
    BY <2>1, EmptyTypes DEF TypeOK
  <2>4. \A g \in Engines : Len(strategies'[g].buffer) <= MaxBuffer
    BY <2>3, EmptyTypes DEF TypeOK
  <2>5. TypeOK'
    BY <2>1, <2>2, <2>3, <2>4 DEF TypeOK
  <2>6. NoStrategy.live = FALSE /\ NoStrategy.candle = NoCandle
    BY DEF NoStrategy
  <2>7. OneStrategy' /\ CandleBegun'
    BY <2>1, <2>3, <2>6 DEF Linked, OneStrategy, CandleBegun
  <2>8. TasksKnown' /\ HandlersKnown'
    BY <2>1, <2>2 DEF Linked, TasksKnown, HandlersKnown
  <2>9. QED BY <2>5, <2>7, <2>8 DEF Linked
<1>3. CASE Restart
  <2>1. /\ cache' = NoCache /\ connected' = FALSE /\ stream' = FALSE /\ runtime' = "stopped"
        /\ handlers' = <<>> /\ strategies' = [g \in Engines |-> NoStrategy] /\ tasks' = <<>>
        /\ UNCHANGED <<gateway, now, market, table, engine, taken, decided, latest, late>>
    BY <1>3 DEF Restart, historyVars
  <2>2. /\ tasks' \in Seq([engine : Engines, tick : TickNumbers]) /\ DOMAIN tasks' = {}
        /\ handlers' \in Seq(Engines) /\ handlers' \in Seq(1 .. engine)
    BY <2>1
  <2>3. /\ strategies' \in [Engines -> Strategy]
        /\ \A g \in Engines : strategies'[g] = NoStrategy
    BY <2>1, EmptyTypes
  <2>4. TypeOK'
    BY <2>1, <2>2, <2>3, EmptyTypes DEF TypeOK
  <2>5. NoStrategy.live = FALSE /\ NoStrategy.candle = NoCandle
    BY DEF NoStrategy
  <2>6. Linked'
    BY <2>1, <2>2, <2>3, <2>5 DEF Linked, TasksKnown, HandlersKnown, OneStrategy, CandleBegun
  <2>7. QED BY <2>4, <2>6
<1>4. QED BY <1>1, <1>2, <1>3

\* What neither a tick, nor a task, nor a start or a stop changes.
pathVars == <<market, engine, strategies, handlers, tasks, taken, decided, latest, late>>

LEMMA OtherTypes ==
  ASSUME TypeOK, Linked,
         \/ Time \/ Outage \/ Recover \/ UNCHANGED vars
         \/ \E enabled \in BOOLEAN : SetTrading(enabled)
  PROVE  TypeOK' /\ Linked' /\ UNCHANGED <<pathVars, runtime>>
<1>1. UNCHANGED <<pathVars, runtime>>
  BY DEF Time, Outage, Recover, SetTrading, vars, pathVars, switchVars, linkVars, historyVars
<1>2. /\ gateway' \in Gateways /\ now' \in Buckets
      /\ connected' \in BOOLEAN /\ stream' \in BOOLEAN
      /\ table' \in {"armed", "stopped"} /\ cache' \in {NoCache, "armed", "stopped"}
  <2>1. CASE Time
    BY <2>1, DataAssumption DEF Time, switchVars, linkVars, TypeOK, Buckets
  <2>2. CASE Outage \/ Recover \/ UNCHANGED vars
    BY <2>2 DEF Outage, Recover, vars, switchVars, linkVars, TypeOK
  <2>3. CASE \E enabled \in BOOLEAN : SetTrading(enabled)
    <3>1. PICK enabled \in BOOLEAN : SetTrading(enabled)
      BY <2>3
    <3>2. /\ table' \in {table, State(enabled)}
          /\ cache' \in {cache, State(enabled)}
          /\ UNCHANGED <<gateway, now, connected, stream>>
      BY <3>1 DEF SetTrading, CacheAfter, linkVars
    <3>3. QED BY <3>2 DEF State, TypeOK
  <2>4. QED BY <2>1, <2>2, <2>3
<1>3. TypeOK'
  BY <1>1, <1>2 DEF TypeOK, pathVars
<1>4. Linked'
  BY <1>1 DEF Linked, TasksKnown, HandlersKnown, OneStrategy, CandleBegun, pathVars
<1>5. QED BY <1>1, <1>3, <1>4

LEMMA TickNow ==
  ASSUME TypeOK, OnTime \/ Overtaken
  PROVE  \E bucket \in Buckets : Tick(bucket)
BY DataAssumption DEF OnTime, Overtaken, TypeOK, Buckets

LEMMA TypesInductive ==
  ASSUME TypeOK, Linked, [Next]_vars
  PROVE  TypeOK' /\ Linked'
<1>1. CASE OnTime \/ Overtaken
  BY <1>1, TickNow, TickTypes
<1>2. CASE Handle
  BY <1>2, HandleTypes
<1>3. CASE Connect
  BY <1>3, ConnectTypes
<1>4. CASE StopFeed \/ StopEngine \/ Restart
  BY <1>4, StopTypes
<1>5. CASE \/ Time \/ Outage \/ Recover \/ UNCHANGED vars
           \/ \E enabled \in BOOLEAN : SetTrading(enabled)
  BY <1>5, OtherTypes
<1>6. QED BY <1>1, <1>2, <1>3, <1>4, <1>5 DEF Next

LEMMA TypesHold == Spec => [](TypeOK /\ Linked)
<1>1. Init => TypeOK /\ Linked
  <2> SUFFICES ASSUME Init PROVE TypeOK /\ Linked
    OBVIOUS
  <2>1. /\ <<>> \in Seq(Buckets) /\ <<>> \in Seq(Engines) /\ <<>> \in Seq(TickNumbers)
        /\ <<>> \in Seq([engine : Engines, tick : TickNumbers]) /\ <<>> \in Seq(1 .. engine)
        /\ DOMAIN <<>> = {}
    OBVIOUS
  <2>2. NoDecision \in [start : Buckets \cup {-1}, tick : 0 .. MaxTicks] /\ 0 \in Buckets
        /\ 0 \in 0 .. MaxStarts
    BY DataAssumption DEF NoDecision, Buckets
  <2>3. strategies \in [Engines -> Strategy] /\ \A g \in Engines : strategies[g] = NoStrategy
    BY EmptyTypes DEF Init
  <2>4. TypeOK
    BY <2>1, <2>2, <2>3, EmptyTypes DEF Init, TypeOK
  <2>5. NoStrategy.live = FALSE /\ NoStrategy.candle = NoCandle
    BY DEF NoStrategy
  <2>6. QED
    BY <2>1, <2>3, <2>4, <2>5
    DEF Init, Linked, TasksKnown, HandlersKnown, OneStrategy, CandleBegun
<1>2. TypeOK /\ Linked /\ [Next]_vars => (TypeOK /\ Linked)'
  BY TypesInductive
<1>3. QED BY <1>1, <1>2, PTL DEF Spec

\* Every variable keeps its type, and the buffer of the candles its size, whatever
\* arrives late, is lost or starts again.
THEOREM TypeCorrect == Spec => []TypeOK
BY TypesHold, PTL

----------------------------------------------------------------------------
(* The licence of a decision *)

\* Unless a row that was committed cannot be read again, the cache is the table.
LEMMA CacheKeeps ==
  ASSUME "lostRefresh" \notin Faults, TypeOK, CacheTrue, [Next]_vars
  PROVE  CacheTrue'
<1>1. CASE \E enabled \in BOOLEAN : SetTrading(enabled)
  <2>1. PICK enabled \in BOOLEAN : SetTrading(enabled)
    BY <1>1
  <2>2. \/ table' = State(enabled) /\ cache' = State(enabled)
        \/ table' = table /\ cache' = cache
    BY <2>1 DEF SetTrading, CacheAfter
  <2>3. QED BY <2>2 DEF CacheTrue
<1>2. CASE Handle
  BY <1>2 DEF Handle, States, CacheTrue
<1>3. CASE Restart
  BY <1>3 DEF Restart, CacheTrue
<1>4. CASE OnTime \/ Overtaken
  BY <1>4 DEF OnTime, Overtaken, Tick, switchVars, CacheTrue
<1>5. CASE Connect
  BY <1>5 DEF Connect, switchVars, CacheTrue
<1>6. CASE \/ Time \/ StopFeed \/ StopEngine \/ Outage \/ Recover \/ UNCHANGED vars
  BY <1>6 DEF Time, StopFeed, StopEngine, Outage, Recover, vars, switchVars, CacheTrue
<1>7. QED BY <1>1, <1>2, <1>3, <1>4, <1>5, <1>6 DEF Next

\* Only Handle decides.
LEMMA OnlyHandleDecides ==
  ASSUME [Next]_vars, latest' # latest
  PROVE  Handle
<1>1. CASE OnTime \/ Overtaken
  BY <1>1 DEF OnTime, Overtaken, Tick, historyVars
<1>2. CASE \E enabled \in BOOLEAN : SetTrading(enabled)
  BY <1>2 DEF SetTrading, historyVars
<1>3. CASE Connect
  BY <1>3 DEF Connect
<1>4. CASE \/ Time \/ StopFeed \/ StopEngine \/ Outage \/ Recover \/ Restart \/ UNCHANGED vars
  BY <1>4 DEF Time, StopFeed, StopEngine, Outage, Recover, Restart, vars, historyVars
<1>5. QED BY <1>1, <1>2, <1>3, <1>4 DEF Next

\* A decision is licensed by what the switch, the broker and the runtime are at
\* that moment (process_tick), however old its task and whatever write of the
\* switch was lost.
THEOREM DecisionsAreLicensedHolds ==
  ASSUME "lostRefresh" \notin Faults
  PROVE  Spec => DecisionsAreLicensed
<1>1. Init => CacheTrue
  BY DEF Init, CacheTrue
<1>2. TypeOK /\ CacheTrue /\ [Next]_vars => CacheTrue'
  BY CacheKeeps
<1>3. TypeOK /\ Linked /\ CacheTrue /\ [Next]_vars =>
        [latest' # latest => /\ table = "armed"
                             /\ connected
                             /\ runtime # "stopped"
                             /\ Head(tasks).engine = engine]_vars
  <2> SUFFICES ASSUME TypeOK, Linked, CacheTrue, [Next]_vars, latest' # latest
               PROVE  table = "armed" /\ connected /\ runtime # "stopped"
                      /\ Head(tasks).engine = engine
    OBVIOUS
  <2>1. Handle
    BY OnlyHandleDecides
  <2>2. Takes /\ Task \in [engine : Engines, tick : TickNumbers]
    BY <2>1, HandleCases DEF historyVars
  <2>3. States = "armed" /\ connected /\ Mine.live /\ Task.engine = engine /\ Task.engine \in Engines
    BY <2>2 DEF Takes
  <2>4. table = "armed"
    BY <2>3 DEF CacheTrue, States
  <2>5. runtime # "stopped"
    BY <2>3 DEF Linked, OneStrategy, Mine
  <2>6. QED BY <2>3, <2>4, <2>5 DEF Task
<1>4. QED BY <1>1, <1>2, <1>3, TypesHold, PTL DEF Spec, DecisionsAreLicensed

----------------------------------------------------------------------------
(* The order of the path *)

LEMMA ElementTypes ==
  ASSUME TypeOK, Linked
  PROVE  /\ Buckets \subseteq Nat
         /\ market \in Seq(Buckets) /\ taken \in Seq(TickNumbers)
         /\ \A n \in DOMAIN market : n \in Nat /\ market[n] \in Buckets
         /\ \A k \in DOMAIN tasks :
              k \in Nat /\ tasks[k].tick \in DOMAIN market /\ tasks[k].engine \in Nat
         /\ \A g \in Engines :
              /\ strategies[g].candle \in Candle /\ strategies[g].buffer \in Seq(Candle)
              /\ strategies[g].candle.start \in Int
              /\ strategies[g].candle # NoCandle => strategies[g].candle.start \in Buckets
              /\ \A k \in DOMAIN strategies[g].buffer :
                   /\ k \in Nat /\ strategies[g].buffer[k] \in Candle
                   /\ strategies[g].buffer[k].start \in Int
<1>1. Buckets \subseteq Nat
  BY DataAssumption DEF Buckets
<1>2. \A R, s : s \in Seq(R) => \A k \in DOMAIN s : k \in Nat /\ s[k] \in R
  BY LenProperties
<1>3. market \in Seq(Buckets) /\ taken \in Seq(TickNumbers)
      /\ tasks \in Seq([engine : Engines, tick : TickNumbers])
  BY DEF TypeOK
<1>4. \A k \in DOMAIN tasks : k \in Nat /\ tasks[k] \in [engine : Engines, tick : TickNumbers]
  BY <1>2, <1>3
<1>5. \A k \in DOMAIN tasks : tasks[k].engine \in Nat
  BY <1>4 DEF Engines
<1>6. \A c \in Candle : c.start \in Buckets \cup {-1} /\ c.start \in Int
  <2>1. \A c \in Candle : c.start \in Buckets \cup {-1}
    BY DEF Candle
  <2>2. \A b \in Buckets \cup {-1} : b \in Int
    BY <1>1
  <2>3. QED BY <2>1, <2>2
<1>7. ASSUME NEW g \in Engines
      PROVE  /\ strategies[g].candle \in Candle /\ strategies[g].buffer \in Seq(Candle)
             /\ strategies[g].candle.start \in Int
             /\ strategies[g].candle # NoCandle => strategies[g].candle.start \in Buckets
             /\ \A k \in DOMAIN strategies[g].buffer :
                  /\ k \in Nat /\ strategies[g].buffer[k] \in Candle
                  /\ strategies[g].buffer[k].start \in Int
  <2>1. strategies[g].candle \in Candle /\ strategies[g].buffer \in Seq(Candle)
    BY DEF TypeOK, Strategy
  <2>2. strategies[g].candle.start = -1 => strategies[g].candle = NoCandle
    BY DEF Linked, CandleBegun
  <2>3. QED BY <1>2, <1>6, <2>1, <2>2
<1>8. QED BY <1>1, <1>2, <1>3, <1>4, <1>5, <1>7 DEF Linked, TasksKnown

\* What was taken of a bucket does not change with the market.
LEMMA TakenSame ==
  ASSUME TypeOK, UNCHANGED taken, NEW b,
         \A n \in DOMAIN taken : taken[n] \in DOMAIN market,
         \A n \in DOMAIN market : n \in DOMAIN market' /\ market'[n] = market[n]
  PROVE  TakenOf(b)' = TakenOf(b)
<1> DEFINE set == {n \in DOMAIN market : market[n] = b}
           other == {n \in DOMAIN market' : market'[n] = b}
<1>1. \A n \in DOMAIN taken : taken[n] \in set <=> taken[n] \in other
  OBVIOUS
<1>2. taken \in Seq(TickNumbers)
  BY DEF TypeOK
<1>3. Kept(taken, set) = Kept(taken, other)
  <2> HIDE DEF set, other
  <2>1. QED BY <1>1, <1>2, KeptSame
<1>4. QED BY <1>3 DEF TakenOf

LEMMA NothingTaken ==
  ASSUME TypeOK, NEW b, \A n \in DOMAIN taken : market[taken[n]] # b
  PROVE  TakenOf(b) = <<>>
<1> DEFINE set == {n \in DOMAIN market : market[n] = b}
           kept == Kept(taken, set)
<1>1. taken \in Seq(TickNumbers)
  BY DEF TypeOK
<1>2. kept \in Seq(TickNumbers)
  BY <1>1, KeptIsPart
<1>3. PICK at \in [DOMAIN kept -> DOMAIN taken] :
        \A i \in DOMAIN kept : kept[i] = taken[at[i]] /\ taken[at[i]] \in set
  BY <1>1, KeptIsPart
<1>4. \A n \in DOMAIN taken : taken[n] \notin set
  OBVIOUS
<1> HIDE DEF kept, set
<1>5. DOMAIN kept = {}
  BY <1>3, <1>4
<1>6. kept = <<>>
  BY <1>2, <1>5, EmptySeq, LenProperties
<1>7. QED BY <1>6 DEF kept, set, TakenOf

LEMMA OneMoreTaken ==
  ASSUME TypeOK, UNCHANGED market, NEW t \in TickNumbers, t \in DOMAIN market,
         taken' = Append(taken, t), NEW b
  PROVE  TakenOf(b)' = IF market[t] = b THEN Append(TakenOf(b), t) ELSE TakenOf(b)
<1> DEFINE set == {n \in DOMAIN market : market[n] = b}
<1>1. t \in set <=> market[t] = b
  OBVIOUS
<1>2. taken \in Seq(TickNumbers)
  BY DEF TypeOK
<1>3. TakenOf(b) = Kept(taken, set) /\ TakenOf(b)' = Kept(Append(taken, t), set)
  BY DEF TakenOf
<1> HIDE DEF set
<1>4. Kept(Append(taken, t), set) =
        IF t \in set THEN Append(Kept(taken, set), t) ELSE Kept(taken, set)
  BY <1>2, KeptAppend
<1>5. QED BY <1>1, <1>3, <1>4

LEMMA NothingHeld ==
  /\ NoStrategy.live = FALSE /\ NoStrategy.candle = NoCandle
  /\ DOMAIN NoStrategy.buffer = {} /\ NoCandle.start = -1
BY DEF NoStrategy, NoCandle

\* A strategy that is not there is in order.
LEMMA GoneInOrder ==
  ASSUME NEW g \in Engines, strategies[g] = NoStrategy
  PROVE  Buffered(g) /\ InProgress(g) /\ Holds(g)
BY NothingHeld DEF Buffered, InProgress, Holds

LEMMA SameInOrder ==
  ASSUME TypeOK, Ordered, UNCHANGED pathVars
  PROVE  Ordered'
<1>1. UNCHANGED <<market, engine, strategies, tasks, taken, decided>>
  BY DEF pathVars
<1>2. \A b : TakenOf(b)' = TakenOf(b)
  BY <1>1 DEF TakenOf
<1>3. MarketInOrder' /\ TasksInOrder'
  BY <1>1 DEF Ordered, MarketInOrder, TasksInOrder
<1>4. ASSUME NEW g \in Engines PROVE Buffered(g)' /\ InProgress(g)' /\ Holds(g)'
  <2>1. Buffered(g) /\ InProgress(g) /\ Holds(g)
    BY DEF Ordered
  <2>2. QED BY <1>1, <1>2, <2>1 DEF Buffered, InProgress, Reached, Holds
<1>5. ASSUME NEW b \in Buckets PROVE Decided(b)' /\ decided'[b] <= 1
  BY <1>1 DEF Ordered, Decided, Reached
<1>6. QED BY <1>3, <1>4, <1>5 DEF Ordered

\* StopFeed: the tasks go.
LEMMA StopFeedInOrder ==
  ASSUME TypeOK, Linked, Ordered, StopFeed
  PROVE  Ordered'
<1>1. tasks' = <<>> /\ UNCHANGED <<market, engine, strategies, taken, decided>>
  BY DEF StopFeed, historyVars
<1>2. DOMAIN tasks' = {}
  BY <1>1
<1>3. \A b : TakenOf(b)' = TakenOf(b)
  BY <1>1 DEF TakenOf
<1>4. MarketInOrder' /\ TasksInOrder'
  BY <1>1, <1>2 DEF Ordered, MarketInOrder, TasksInOrder
<1>5. ASSUME NEW g \in Engines PROVE Buffered(g)' /\ InProgress(g)' /\ Holds(g)'
  <2>1. Buffered(g) /\ InProgress(g) /\ Holds(g)
    BY DEF Ordered
  <2>2. QED BY <1>1, <1>2, <1>3, <2>1 DEF Buffered, InProgress, Reached, Holds
<1>6. ASSUME NEW b \in Buckets PROVE Decided(b)' /\ decided'[b] <= 1
  BY <1>1, <1>2 DEF Ordered, Decided, Reached
<1>7. QED BY <1>4, <1>5, <1>6 DEF Ordered

\* StopEngine and Restart: no strategy is left.
LEMMA StopInOrder ==
  ASSUME TypeOK, Linked, Ordered, StopEngine \/ Restart
  PROVE  Ordered'
<1>1. UNCHANGED <<market, engine, taken, decided>> /\ tasks' \in {tasks, <<>>}
  BY DEF StopEngine, Restart, historyVars
<1>2. \A g \in Engines : strategies'[g] = NoStrategy
  <2>1. CASE StopEngine
    <3>1. strategies' = [strategies EXCEPT ![engine] = NoStrategy]
      BY <2>1 DEF StopEngine, Cleared
    <3>2. \A g \in Engines \ {engine} : strategies[g] = NoStrategy
      BY DEF Linked, OneStrategy
    <3>3. QED BY <3>1, <3>2 DEF TypeOK
  <2>2. CASE Restart
    BY <2>2 DEF Restart
  <2>3. QED BY <2>1, <2>2
<1>3. DOMAIN <<>> = {}
  OBVIOUS
<1>4. MarketInOrder' /\ TasksInOrder'
  BY <1>1, <1>3 DEF Ordered, MarketInOrder, TasksInOrder
<1>5. ASSUME NEW g \in Engines PROVE Buffered(g)' /\ InProgress(g)' /\ Holds(g)'
  <2>1. strategies'[g] = NoStrategy
    BY <1>2
  <2>2. QED BY <2>1, NothingHeld DEF Buffered, InProgress, Holds
<1>6. ASSUME NEW b \in Buckets PROVE Decided(b)' /\ decided'[b] <= 1
  <2>1. Decided(b) /\ decided[b] <= 1
    BY DEF Ordered
  <2>2. QED BY <1>1, <1>2, <1>3, <2>1, NothingHeld DEF Decided, Reached
<1>7. QED BY <1>4, <1>5, <1>6 DEF Ordered

\* Connect: a strategy warmed up from the history, and no task for it yet.
LEMMA ConnectInOrder ==
  ASSUME TypeOK, Linked, Ordered, Connect
  PROVE  Ordered'
<1>1. CASE runtime # "stopped"
  <2>1. UNCHANGED pathVars
    BY <1>1 DEF Connect, pathVars
  <2>2. QED BY <2>1, SameInOrder
<1>2. CASE runtime = "stopped"
  <2>1. PICK last \in -1 .. now : strategies' = [strategies EXCEPT ![engine + 1] = WarmedUp(last)]
    BY <1>2 DEF Connect
  <2>2. /\ engine < MaxStarts /\ engine' = engine + 1 /\ taken' = <<>>
        /\ UNCHANGED <<market, tasks, decided>>
    BY <1>2 DEF Connect
  <2>3. engine + 1 \in Engines /\ engine \in Nat
    BY <2>2, DataAssumption DEF TypeOK, Engines
  <2> DEFINE s == WarmedUp(last)
  <2>4. /\ s.candle = NoCandle
        /\ \A k \in DOMAIN s.buffer : s.buffer[k].ticks = <<>>
        /\ \A j, k \in DOMAIN s.buffer : j < k => s.buffer[j].start < s.buffer[k].start
    BY WarmUp
  <2> HIDE DEF s
  <2>5. strategies'[engine + 1] = s
    BY <2>1, <2>3 DEF TypeOK, s
  <2>6. \A g \in Engines \ {engine + 1} : strategies'[g] = NoStrategy
    <3>1. \A g \in Engines : strategies[g] = NoStrategy
      BY <1>2 DEF Linked, OneStrategy
    <3>2. QED BY <2>1, <3>1 DEF TypeOK
  <2>7. \A i \in DOMAIN tasks : tasks[i].engine # engine + 1
    <3>1. \A i \in DOMAIN tasks : tasks[i].engine <= engine /\ tasks[i].engine \in Nat
      BY ElementTypes DEF Linked, TasksKnown
    <3>2. QED BY <2>3, <3>1
  <2>8. MarketInOrder' /\ TasksInOrder'
    BY <2>2 DEF Ordered, MarketInOrder, TasksInOrder
  <2>9. ASSUME NEW g \in Engines PROVE Buffered(g)' /\ InProgress(g)' /\ Holds(g)'
    <3>1. CASE g = engine + 1
      <4>1. strategies'[g] = s /\ \A i \in DOMAIN tasks' : tasks'[i].engine # g
        BY <2>2, <2>5, <2>7, <3>1
      <4>2. Buffered(g)' /\ InProgress(g)'
        BY <2>4, <4>1 DEF Buffered, InProgress
      <4>3. \A b \in Buckets : b # -1
        BY DataAssumption DEF Buckets
      <4>4. DOMAIN taken' = {}
        BY <2>2
      <4>5. Holds(g)'
        BY <2>2, <2>4, <4>1, <4>3, <4>4, NothingHeld DEF Holds
      <4>6. QED BY <4>2, <4>5
    <3>2. CASE g # engine + 1
      <4>1. strategies'[g] = NoStrategy
        BY <2>6, <3>2
      <4>2. QED BY <4>1, NothingHeld DEF Buffered, InProgress, Holds
    <3>3. QED BY <3>1, <3>2
  <2>10. ASSUME NEW b \in Buckets PROVE Decided(b)' /\ decided'[b] <= 1
    <3>1. \A g \in Engines : strategies'[g].candle = NoCandle
      BY <2>4, <2>5, <2>6, NothingHeld
    <3>2. Decided(b) /\ decided[b] <= 1
      BY DEF Ordered
    <3>3. QED BY <2>2, <2>7, <3>1, <3>2 DEF Decided, Reached
  <2>11. QED BY <2>8, <2>9, <2>10 DEF Ordered
<1>3. QED BY <1>1, <1>2

\* A tick that overtakes nothing comes last for everyone.
LEMMA TickInOrder ==
  ASSUME TypeOK, Linked, Ordered, NEW bucket \in Buckets, Tick(bucket), ~late'
  PROVE  Ordered'
<1>1. /\ DOMAIN market' = 1 .. Len(market) + 1 /\ DOMAIN market = 1 .. Len(market)
      /\ market'[Len(market) + 1] = bucket
      /\ \A n \in DOMAIN market : market'[n] = market[n]
      /\ \A k \in DOMAIN tasks' :
           \/ k \in DOMAIN tasks /\ tasks'[k] = tasks[k]
           \/ /\ k \in Nat /\ \A j \in DOMAIN tasks : j < k
              /\ tasks'[k].tick = Len(market) + 1 /\ tasks'[k].engine \in 1 .. engine
  BY TickCases
<1>2. /\ UNCHANGED <<engine, strategies, taken, decided>>
      /\ ~Overtakes(bucket)
  BY DEF Tick, switchVars, linkVars, historyVars
<1>3. /\ Buckets \subseteq Nat /\ Len(market) \in Nat
      /\ \A n \in DOMAIN market : n \in Nat /\ market[n] \in Nat
      /\ \A k \in DOMAIN tasks :
           k \in Nat /\ tasks[k].tick \in DOMAIN market /\ tasks[k].engine \in Nat
  BY ElementTypes, LenProperties
<1>4. \A n \in DOMAIN market : market[n] <= bucket
  BY <1>2, <1>3 DEF Overtakes
<1>5. \A g \in Engines : \A k \in DOMAIN strategies[g].buffer :
        strategies[g].buffer[k].start <= bucket
  <2> TAKE g \in Engines
  <2> TAKE k \in DOMAIN strategies[g].buffer
  <2>1. strategies[g].buffer[k] \in Range(strategies[g].buffer)
    BY DEF Range
  <2>2. ~(strategies[g].buffer[k].start > bucket)
    BY <1>2, <2>1 DEF Overtakes
  <2>3. strategies[g].buffer[k].start \in Int
    BY ElementTypes
  <2>4. QED BY <1>3, <2>2, <2>3
<1>6. \A n \in DOMAIN market : n \in DOMAIN market' /\ n # Len(market) + 1
  BY <1>1, <1>3
<1>7. MarketInOrder'
  <2> SUFFICES ASSUME NEW m \in DOMAIN market', NEW n \in DOMAIN market', m <= n
               PROVE  market'[m] <= market'[n]
    BY DEF MarketInOrder
  <2>1. CASE n \in DOMAIN market
    <3>1. m \in DOMAIN market
      BY <1>1, <1>3, <2>1
    <3>2. QED BY <1>1, <2>1, <3>1 DEF Ordered, MarketInOrder
  <2>2. CASE n \notin DOMAIN market
    <3>1. n = Len(market) + 1 /\ (m = n \/ m \in DOMAIN market)
      BY <1>1, <1>3, <2>2
    <3>2. market'[n] = bucket /\ market'[m] <= bucket
      BY <1>1, <1>3, <1>4, <3>1
    <3>3. QED BY <3>2
  <2>3. QED BY <2>1, <2>2
<1>8. TasksInOrder'
  <2> SUFFICES ASSUME NEW j \in DOMAIN tasks', NEW k \in DOMAIN tasks', j <= k
               PROVE  tasks'[j].tick <= tasks'[k].tick
    BY DEF TasksInOrder
  <2>1. CASE k \in DOMAIN tasks /\ tasks'[k] = tasks[k]
    <3>1. j \in DOMAIN tasks /\ tasks'[j] = tasks[j]
      <4>1. CASE j \in Nat /\ \A i \in DOMAIN tasks : i < j
        <5>1. k < j /\ k \in Nat
          BY <1>3, <2>1, <4>1
        <5>2. QED BY <4>1, <5>1
      <4>2. QED BY <1>1, <4>1
    <3>2. QED BY <2>1, <3>1 DEF Ordered, TasksInOrder
  <2>2. CASE tasks'[k].tick = Len(market) + 1
    <3>1. tasks'[j].tick \in 1 .. Len(market) + 1
      BY <1>1, <1>3
    <3>2. QED BY <1>3, <2>2, <3>1
  <2>3. QED BY <1>1, <2>1, <2>2
<1>9. \A k \in DOMAIN tasks' :
        \/ /\ k \in DOMAIN tasks /\ tasks'[k] = tasks[k]
           /\ market'[tasks'[k].tick] = market[tasks[k].tick]
        \/ market'[tasks'[k].tick] = bucket
  BY <1>1, <1>3
<1>10. ASSUME NEW g \in Engines PROVE Buffered(g)' /\ InProgress(g)' /\ Holds(g)'
  <2>1. Buffered(g) /\ InProgress(g) /\ Holds(g)
    BY DEF Ordered
  <2>2. Buffered(g)'
    BY <1>2, <1>5, <1>9, <2>1 DEF Buffered
  <2>3. strategies[g].candle # NoCandle => strategies[g].candle.start <= bucket
    <3>1. strategies[g].candle.start \in Int
      BY ElementTypes
    <3>2. SUFFICES ASSUME strategies[g].candle # NoCandle
                   PROVE  strategies[g].candle.start <= bucket
      OBVIOUS
    <3>3. PICK n \in DOMAIN market : market[n] >= strategies[g].candle.start
      BY <2>1, <3>2 DEF InProgress, Reached
    <3>4. QED BY <1>3, <1>4, <3>1, <3>3
  <2>4. InProgress(g)'
    <3>1. \A b : Reached(b) => \E n \in DOMAIN market' : market'[n] >= b
      BY <1>1, <1>6 DEF Reached
    <3>2. QED BY <1>2, <1>9, <2>1, <2>3, <3>1 DEF InProgress, Reached
  <2>5. CASE strategies[g].live
    <3>1. \A n \in DOMAIN taken : taken[n] \in DOMAIN market
      BY <2>1, <2>5 DEF Holds
    <3>2. \A b : TakenOf(b)' = TakenOf(b)
      BY <1>1, <1>2, <1>6, <3>1, TakenSame
    <3>3. \A n \in DOMAIN taken : taken[n] \in DOMAIN market' /\ market'[taken[n]] = market[taken[n]]
      BY <1>1, <1>6, <3>1
    <3>4. Holds(g)'
      BY <1>2, <2>1, <2>5, <3>2, <3>3 DEF Holds
    <3>5. QED BY <2>2, <2>4, <3>4
  <2>6. CASE ~strategies[g].live
    BY <1>2, <2>2, <2>4, <2>6 DEF Holds
  <2>7. QED BY <2>5, <2>6
<1>11. ASSUME NEW b \in Buckets PROVE Decided(b)' /\ decided'[b] <= 1
  <2>1. Decided(b) /\ decided[b] <= 1 /\ b \in Nat
    BY <1>3 DEF Ordered
  <2>2. ASSUME decided[b] # 0 PROVE b < bucket /\ Reached(b + 1)'
    <3>1. PICK n \in DOMAIN market : market[n] >= b + 1
      BY <2>1, <2>2 DEF Decided, Reached
    <3>2. n \in DOMAIN market' /\ market'[n] = market[n]
      BY <1>1, <1>6
    <3>3. Reached(b + 1)'
      BY <3>1, <3>2 DEF Reached
    <3>4. QED BY <1>3, <1>4, <2>1, <3>1, <3>3
  <2>3. Decided(b)'
    BY <1>2, <1>9, <2>1, <2>2 DEF Decided
  <2>4. QED BY <1>2, <2>1, <2>3
<1>12. QED BY <1>7, <1>8, <1>10, <1>11 DEF Ordered

\* A task that the engine takes: its tick extends the candle in progress or closes
\* it behind the buffer.
LEMMA TakesInOrder ==
  ASSUME TypeOK, Linked, Ordered, Handle, Takes, NEW g, g = Task.engine,
         NEW t, t = Task.tick, NEW bucket, bucket = Bucket
  PROVE  Ordered'
<1> DEFINE s == strategies[g]
           next == strategies'[g]
           closes == s.candle # NoCandle /\ s.candle.start # bucket
<1>1. /\ t \in TickNumbers /\ t \in DOMAIN market /\ bucket \in Buckets /\ 1 \in DOMAIN tasks
      /\ tasks[1] = Task /\ g \in Engines
  BY HandleCases
<1>2. /\ s.live /\ g = engine
      /\ \A h \in Engines \ {g} : strategies'[h] = strategies[h]
      /\ next \in Strategy /\ next.live /\ next.candle # NoCandle /\ next.candle.start = bucket
      /\ next.candle.ticks = IF s.candle.start = bucket THEN Append(s.candle.ticks, t) ELSE <<t>>
      /\ next.buffer = IF closes THEN AppendCandle(s.buffer, s.candle) ELSE s.buffer
      /\ taken' = Append(taken, t)
      /\ \/ UNCHANGED decided
         \/ closes /\ decided' = [decided EXCEPT ![s.candle.start] = @ + 1]
  BY DEF Takes, Mine
<1>3. UNCHANGED <<market, engine>> /\ tasks' = Tail(tasks) /\ tasks # <<>>
  BY DEF Handle, linkVars
<1>4. /\ Buckets \subseteq Nat /\ market[t] = bucket
      /\ \A n \in DOMAIN market : n \in Nat /\ market[n] \in Nat
      /\ \A k \in DOMAIN tasks :
           k \in Nat /\ tasks[k].tick \in DOMAIN market /\ tasks[k].engine \in Nat
  BY ElementTypes DEF Bucket
<1>5. /\ s.candle \in Candle /\ s.buffer \in Seq(Candle) /\ s.candle.start \in Int
      /\ s.candle # NoCandle => s.candle.start \in Buckets
      /\ \A k \in DOMAIN s.buffer :
           k \in Nat /\ s.buffer[k] \in Candle /\ s.buffer[k].start \in Int
  BY <1>1, ElementTypes
<1>6. Buffered(g) /\ InProgress(g) /\ Holds(g)
  BY <1>1 DEF Ordered
<1>7. \A k \in DOMAIN tasks' :
        /\ k \in Nat /\ k + 1 \in DOMAIN tasks /\ tasks'[k] = tasks[k + 1]
        /\ bucket <= market[tasks'[k].tick]
  <2>1. /\ tasks' \in Seq([engine : Engines, tick : TickNumbers])
        /\ Len(tasks') = Len(tasks) - 1 /\ Len(tasks) \in Nat /\ Len(tasks') \in Nat
        /\ \A k \in 1 .. Len(tasks') : tasks'[k] = tasks[k + 1]
    BY <1>3, HeadTailProperties DEF TypeOK
  <2>2. DOMAIN tasks = 1 .. Len(tasks) /\ DOMAIN tasks' = 1 .. Len(tasks')
    BY <2>1 DEF TypeOK
  <2> TAKE k \in DOMAIN tasks'
  <2>3. k \in Nat /\ k + 1 \in DOMAIN tasks /\ tasks'[k] = tasks[k + 1] /\ 1 <= k + 1
    BY <2>1, <2>2
  <2>4. t <= tasks[k + 1].tick
    BY <1>1, <2>3 DEF Ordered, TasksInOrder
  <2>5. market[t] <= market[tasks[k + 1].tick]
    BY <1>1, <1>4, <2>3, <2>4 DEF Ordered, MarketInOrder
  <2>6. QED BY <1>4, <2>3, <2>5
<1>8. /\ s.candle # NoCandle => s.candle.start <= bucket
      /\ \A k \in DOMAIN s.buffer :
           /\ s.buffer[k].start <= bucket
           /\ s.candle # NoCandle => s.buffer[k].start <= s.candle.start
  BY <1>1, <1>4, <1>6 DEF Buffered, InProgress
<1>9. /\ \A j, k \in DOMAIN next.buffer : j < k => next.buffer[j].start < next.buffer[k].start
      /\ \A k \in DOMAIN next.buffer :
           \/ \E j \in DOMAIN s.buffer : next.buffer[k] = s.buffer[j]
           \/ closes /\ next.buffer[k] = s.candle
  <2>1. \A j, k \in DOMAIN s.buffer : j < k => s.buffer[j].start < s.buffer[k].start
    BY <1>6 DEF Buffered
  <2>2. CASE closes
    <3>1. \A k \in DOMAIN s.buffer : s.buffer[k].start <= s.candle.start
      BY <1>8, <2>2
    <3>2. next.buffer = AppendCandle(s.buffer, s.candle)
      BY <1>2, <2>2
    <3> HIDE DEF s, next, closes
    <3>3. QED BY <1>5, <2>1, <2>2, <3>1, <3>2, ClosedComesLast
  <2>3. CASE ~closes
    <3>1. next.buffer = s.buffer
      BY <1>2, <2>3
    <3>2. QED BY <2>1, <3>1
  <2>4. QED BY <2>2, <2>3
<1>10. \A h \in Engines \ {g} : strategies'[h] = NoStrategy
  <2>1. \A h \in Engines \ {g} : ~strategies[h].live
    BY <1>2 DEF Linked, OneStrategy
  <2>2. QED BY <1>2, <2>1 DEF Linked, OneStrategy
<1>11. MarketInOrder' /\ TasksInOrder'
  <2>1. TasksInOrder'
    <3> SUFFICES ASSUME NEW j \in DOMAIN tasks', NEW k \in DOMAIN tasks', j <= k
                 PROVE  tasks'[j].tick <= tasks'[k].tick
      BY DEF TasksInOrder
    <3>1. j + 1 \in DOMAIN tasks /\ k + 1 \in DOMAIN tasks /\ j + 1 <= k + 1
      BY <1>7
    <3>2. tasks[j + 1].tick <= tasks[k + 1].tick
      BY <3>1 DEF Ordered, TasksInOrder
    <3>3. QED BY <1>7, <3>2
  <2>2. QED BY <1>3, <2>1 DEF Ordered, MarketInOrder
<1> HIDE DEF s, next
<1>12. \A k \in DOMAIN next.buffer : next.buffer[k].start <= bucket /\ next.buffer[k].start \in Int
  BY <1>5, <1>8, <1>9
<1>13. Buffered(g)'
  <2>1. ASSUME NEW k \in DOMAIN next.buffer, NEW i \in DOMAIN tasks'
        PROVE  next.buffer[k].start <= market'[tasks'[i].tick]
    <3>1. bucket <= market'[tasks'[i].tick] /\ market'[tasks'[i].tick] \in Nat
      BY <1>3, <1>4, <1>7
    <3>2. QED BY <1>1, <1>4, <1>12, <3>1
  <2>2. QED BY <1>2, <1>9, <1>12, <2>1 DEF Buffered, next
<1>14. InProgress(g)'
  <2>1. \E n \in DOMAIN market' : market'[n] >= bucket
    BY <1>1, <1>3, <1>4
  <2>2. \A i \in DOMAIN tasks' : bucket <= market'[tasks'[i].tick]
    BY <1>3, <1>7
  <2>3. QED BY <1>2, <2>1, <2>2 DEF InProgress, Reached, next
<1>15. /\ s.candle = NoCandle => taken = <<>>
       /\ \A n \in DOMAIN taken : taken[n] \in DOMAIN market /\ market[taken[n]] <= s.candle.start
       /\ \A k \in DOMAIN s.buffer : s.buffer[k].ticks # <<>> => s.buffer[k].start \in Buckets
       /\ \A b \in Buckets :
            /\ s.candle.start = b => s.candle.ticks = TakenOf(b)
            /\ \A k \in DOMAIN s.buffer :
                 s.buffer[k].start = b /\ s.buffer[k].ticks # <<>> =>
                   b < s.candle.start /\ s.buffer[k].ticks = TakenOf(b)
  BY <1>2, <1>6 DEF Holds, s
<1>16. \A b : TakenOf(b)' = IF bucket = b THEN Append(TakenOf(b), t) ELSE TakenOf(b)
  BY <1>1, <1>2, <1>3, <1>4, OneMoreTaken
<1>17. Holds(g)'
  <2>1. \A n \in DOMAIN taken' : taken'[n] \in DOMAIN market /\ market[taken'[n]] <= bucket
    <3> SUFFICES ASSUME NEW n \in DOMAIN taken'
                 PROVE  taken'[n] \in DOMAIN market /\ market[taken'[n]] <= bucket
      OBVIOUS
    <3>1. /\ taken \in Seq(TickNumbers) /\ Len(taken) \in Nat /\ DOMAIN taken = 1 .. Len(taken)
          /\ taken' \in Seq(TickNumbers) /\ Len(taken') = Len(taken) + 1
          /\ \A m \in 1 .. Len(taken) : taken'[m] = taken[m]
          /\ taken'[Len(taken) + 1] = t
      BY <1>1, <1>2, ElementTypes, AppendProperties, LenProperties
    <3>2. DOMAIN taken' = 1 .. Len(taken) + 1
      BY <3>1, LenProperties
    <3>3. CASE n = Len(taken) + 1
      BY <1>1, <1>4, <3>1, <3>3
    <3>4. CASE n # Len(taken) + 1
      <4>1. n \in DOMAIN taken /\ taken'[n] = taken[n] /\ taken # <<>>
        BY <3>1, <3>2, <3>4
      <4>2. taken[n] \in DOMAIN market /\ market[taken[n]] <= s.candle.start /\ s.candle # NoCandle
        BY <1>15, <4>1
      <4>3. s.candle.start <= bucket
        BY <1>8, <4>2 DEF s
      <4>4. QED BY <1>1, <1>4, <1>5, <4>1, <4>2, <4>3 DEF s
    <3>5. QED BY <3>3, <3>4
  <2>2. next.candle.ticks = TakenOf(bucket)'
    <3>1. TakenOf(bucket)' = Append(TakenOf(bucket), t)
      BY <1>16
    <3>2. CASE s.candle.start = bucket
      <4>1. s.candle.ticks = TakenOf(bucket)
        BY <1>1, <1>15, <3>2
      <4>2. QED BY <1>2, <3>1, <3>2, <4>1 DEF s, next
    <3>3. CASE s.candle.start # bucket
      <4>1. \A n \in DOMAIN taken : market[taken[n]] # bucket
        <5> SUFFICES ASSUME NEW n \in DOMAIN taken PROVE market[taken[n]] # bucket
          OBVIOUS
        <5>1. s.candle # NoCandle
          BY <1>15
        <5>2. s.candle.start < bucket
          BY <1>1, <1>4, <1>5, <1>8, <3>3, <5>1 DEF s
        <5>3. market[taken[n]] <= s.candle.start /\ taken[n] \in DOMAIN market
          BY <1>15
        <5>4. QED BY <1>1, <1>4, <1>5, <5>2, <5>3 DEF s
      <4>2. TakenOf(bucket) = <<>>
        BY <4>1, NothingTaken
      <4>3. QED BY <1>2, <3>1, <3>3, <4>2 DEF s, next
    <3>4. QED BY <3>2, <3>3
  <2>3. ASSUME NEW k \in DOMAIN next.buffer, next.buffer[k].ticks # <<>>,
               NEW b \in Buckets, next.buffer[k].start = b
        PROVE  b < bucket /\ next.buffer[k].ticks = TakenOf(b)'
    <3>1. b < bucket /\ next.buffer[k].ticks = TakenOf(b)
      <4>1. CASE \E j \in DOMAIN s.buffer : next.buffer[k] = s.buffer[j]
        <5>1. PICK j \in DOMAIN s.buffer : next.buffer[k] = s.buffer[j]
          BY <4>1
        <5>2. b < s.candle.start /\ s.buffer[j].ticks = TakenOf(b)
          BY <1>15, <2>3, <5>1
        <5>3. s.candle # NoCandle
          BY <1>4, <2>3, <5>2 DEF NoCandle
        <5>4. s.candle.start <= bucket
          BY <1>8, <5>3 DEF s
        <5>5. QED BY <1>1, <1>4, <1>5, <2>3, <5>1, <5>2, <5>4 DEF s
      <4>2. CASE closes /\ next.buffer[k] = s.candle
        <5>1. s.candle.start = b /\ s.candle.ticks = TakenOf(b)
          BY <1>15, <2>3, <4>2
        <5>2. s.candle.start <= bucket /\ s.candle.start # bucket
          BY <1>8, <4>2 DEF s
        <5>3. QED BY <1>1, <1>4, <2>3, <4>2, <5>1, <5>2
      <4>3. QED BY <1>9, <4>1, <4>2
    <3>2. b # bucket
      BY <1>1, <1>4, <3>1
    <3>3. QED BY <1>16, <3>1, <3>2
  <2>4. ASSUME NEW b \in Buckets, next.candle.start = b
        PROVE  next.candle.ticks = TakenOf(b)'
    BY <1>2, <2>2, <2>4 DEF next
  <2>5. \A k \in DOMAIN next.buffer :
          next.buffer[k].ticks # <<>> => next.buffer[k].start \in Buckets
    BY <1>5, <1>9, <1>15 DEF s
  <2>6. QED BY <1>2, <1>3, <2>1, <2>3, <2>4, <2>5 DEF Holds, next
<1>18. ASSUME NEW h \in Engines PROVE Buffered(h)' /\ InProgress(h)' /\ Holds(h)'
  <2>1. CASE h = g
    BY <1>13, <1>14, <1>17, <2>1
  <2>2. CASE h # g
    <3>1. strategies'[h] = NoStrategy
      BY <1>10, <2>2
    <3>2. QED BY <3>1, NothingHeld DEF Buffered, InProgress, Holds
  <2>3. QED BY <2>1, <2>2
<1>19. ASSUME NEW b \in Buckets PROVE Decided(b)' /\ decided'[b] <= 1
  <2>1. /\ Decided(b) /\ decided[b] <= 1 /\ decided[b] \in Nat /\ b \in Nat /\ bucket \in Nat
    BY <1>1, <1>4 DEF Ordered, TypeOK
  <2>2. ASSUME decided[b] # 0
        PROVE  b < bucket /\ s.candle.start # b
    <3>1. b < market[t]
      BY <1>1, <1>2, <2>1, <2>2 DEF Decided
    <3>2. s.candle # NoCandle => b < s.candle.start
      BY <1>1, <2>1, <2>2 DEF Decided, s
    <3>3. QED BY <1>4, <1>5, <2>1, <3>1, <3>2 DEF s, NoCandle
  <2>3. decided'[b] # 0 => b < bucket
    <3>1. CASE decided'[b] = decided[b]
      BY <2>2, <3>1
    <3>2. CASE decided'[b] # decided[b]
      <4>1. closes /\ s.candle.start = b
        BY <1>2, <3>2 DEF TypeOK, s
      <4>2. s.candle.start <= bucket /\ s.candle.start # bucket
        BY <1>8, <4>1 DEF s
      <4>3. QED BY <2>1, <4>1, <4>2
    <3>3. QED BY <3>1, <3>2
  <2>4. decided'[b] <= 1
    <3>1. CASE decided'[b] = decided[b]
      BY <2>1, <3>1
    <3>2. CASE decided'[b] # decided[b]
      <4>1. s.candle.start = b /\ decided' = [decided EXCEPT ![b] = @ + 1]
        BY <1>2, <3>2 DEF TypeOK, s
      <4>2. decided[b] = 0
        BY <2>2, <4>1
      <4>3. decided'[b] = 1
        BY <4>1, <4>2 DEF TypeOK
      <4>4. QED BY <4>3
    <3>3. QED BY <3>1, <3>2
  <2>5. ASSUME b < bucket PROVE Decided(b)'
    <3>1. \E n \in DOMAIN market' : market'[n] >= b + 1
      BY <1>1, <1>3, <1>4, <2>1, <2>5
    <3>2. \A h \in Engines : strategies'[h].candle # NoCandle => b < strategies'[h].candle.start
      <4> TAKE h \in Engines
      <4>1. CASE h = g
        BY <1>2, <2>5, <4>1 DEF next
      <4>2. CASE h # g
        BY <1>10, <4>2, NothingHeld
      <4>3. QED BY <4>1, <4>2
    <3>3. \A i \in DOMAIN tasks' : b < market'[tasks'[i].tick]
      <4> TAKE i \in DOMAIN tasks'
      <4>1. bucket <= market'[tasks'[i].tick] /\ market'[tasks'[i].tick] \in Nat
        BY <1>3, <1>4, <1>7
      <4>2. QED BY <2>1, <2>5, <4>1
    <3>4. QED BY <3>1, <3>2, <3>3 DEF Decided, Reached
  <2>6. decided'[b] = 0 => Decided(b)'
    BY DEF Decided
  <2>7. QED BY <2>3, <2>4, <2>5, <2>6
<1>20. QED BY <1>11, <1>18, <1>19 DEF Ordered

LEMMA HandleInOrder ==
  ASSUME TypeOK, Linked, Ordered, Handle
  PROVE  Ordered'
<1>1. CASE Takes
  BY <1>1, TakesInOrder
<1>2. CASE UNCHANGED <<strategies, historyVars>>
  <2>1. /\ UNCHANGED <<market, engine, strategies, taken, decided>>
        /\ tasks' = Tail(tasks) /\ tasks # <<>>
    BY <1>2 DEF Handle, linkVars, historyVars
  <2>2. \A k \in DOMAIN tasks' : k \in Nat /\ k + 1 \in DOMAIN tasks /\ tasks'[k] = tasks[k + 1]
    <3>1. /\ tasks' \in Seq([engine : Engines, tick : TickNumbers])
          /\ Len(tasks') = Len(tasks) - 1 /\ Len(tasks) \in Nat /\ Len(tasks') \in Nat
          /\ \A k \in 1 .. Len(tasks') : tasks'[k] = tasks[k + 1]
      BY <2>1, HeadTailProperties DEF TypeOK
    <3>2. DOMAIN tasks = 1 .. Len(tasks) /\ DOMAIN tasks' = 1 .. Len(tasks')
      BY <3>1 DEF TypeOK
    <3>3. QED BY <3>1, <3>2
  <2>3. \A b : TakenOf(b)' = TakenOf(b)
    BY <2>1 DEF TakenOf
  <2>4. MarketInOrder'
    BY <2>1 DEF Ordered, MarketInOrder
  <2>5. TasksInOrder'
    <3> SUFFICES ASSUME NEW j \in DOMAIN tasks', NEW k \in DOMAIN tasks', j <= k
                 PROVE  tasks'[j].tick <= tasks'[k].tick
      BY DEF TasksInOrder
    <3>1. j + 1 \in DOMAIN tasks /\ k + 1 \in DOMAIN tasks /\ j + 1 <= k + 1
      BY <2>2
    <3>2. tasks[j + 1].tick <= tasks[k + 1].tick
      BY <3>1 DEF Ordered, TasksInOrder
    <3>3. QED BY <2>2, <3>2
  <2>6. ASSUME NEW g \in Engines PROVE Buffered(g)' /\ InProgress(g)' /\ Holds(g)'
    <3>1. Buffered(g) /\ InProgress(g) /\ Holds(g)
      BY DEF Ordered
    <3>2. Buffered(g)'
      BY <2>1, <2>2, <3>1 DEF Buffered
    <3>3. InProgress(g)'
      BY <2>1, <2>2, <3>1 DEF InProgress, Reached
    <3>4. Holds(g)'
      BY <2>1, <2>3, <3>1 DEF Holds
    <3>5. QED BY <3>2, <3>3, <3>4
  <2>7. ASSUME NEW b \in Buckets PROVE Decided(b)' /\ decided'[b] <= 1
    <3>1. Decided(b) /\ decided[b] <= 1
      BY DEF Ordered
    <3>2. QED BY <2>1, <2>2, <3>1 DEF Decided, Reached
  <2>8. QED BY <2>4, <2>5, <2>6, <2>7 DEF Ordered
<1>3. QED BY <1>1, <1>2, HandleCases

LEMMA OrderInductive ==
  ASSUME TypeOK, Linked, InOrder, [Next]_vars
  PROVE  InOrder'
<1> SUFFICES ASSUME ~late' PROVE Ordered'
  BY DEF InOrder
<1>1. CASE OnTime \/ Overtaken
  <2>1. PICK bucket \in Buckets : Tick(bucket)
    BY <1>1, TickNow
  <2>2. Ordered
    BY <2>1 DEF Tick, InOrder
  <2>3. QED BY <2>1, <2>2, TickInOrder
<1>2. CASE Handle
  BY <1>2, HandleInOrder DEF Handle, InOrder
<1>3. CASE Connect
  BY <1>3, ConnectInOrder DEF Connect, InOrder
<1>4. CASE StopFeed
  BY <1>4, StopFeedInOrder DEF StopFeed, InOrder
<1>5. CASE StopEngine \/ Restart
  BY <1>5, StopInOrder DEF StopEngine, Restart, InOrder
<1>6. CASE \/ Time \/ Outage \/ Recover \/ UNCHANGED vars
           \/ \E enabled \in BOOLEAN : SetTrading(enabled)
  <2>1. UNCHANGED pathVars
    BY <1>6, OtherTypes
  <2>2. Ordered
    BY <2>1 DEF pathVars, InOrder
  <2>3. QED BY <2>1, <2>2, SameInOrder
<1>7. QED BY <1>1, <1>2, <1>3, <1>4, <1>5, <1>6 DEF Next

LEMMA OrderHolds == Spec => [](TypeOK /\ Linked /\ InOrder)
<1>1. Init => InOrder
  <2> SUFFICES ASSUME Init PROVE Ordered
    BY DEF InOrder
  <2>1. DOMAIN market = {} /\ DOMAIN tasks = {}
    BY DEF Init
  <2>2. MarketInOrder /\ TasksInOrder
    BY <2>1 DEF MarketInOrder, TasksInOrder
  <2>3. \A g \in Engines : strategies[g] = NoStrategy
    BY DEF Init
  <2>4. \A b \in Buckets : decided[b] = 0
    BY DEF Init
  <2>5. \A b \in Buckets : Decided(b) /\ decided[b] <= 1
    BY <2>4 DEF Decided
  <2>6. QED BY <2>2, <2>3, <2>5, GoneInOrder DEF Ordered
<1>2. TypeOK /\ Linked /\ InOrder /\ [Next]_vars => InOrder'
  BY OrderInductive
<1>3. QED BY <1>1, <1>2, TypesHold, PTL DEF Spec

----------------------------------------------------------------------------
(* The theorems *)

\* The features are computed on a buffer in the order of time: history and live
\* candles follow one another and no bucket is in it twice (_append_candle).
THEOREM BufferInOrderHolds == Spec => []BufferInOrder
<1>1. TypeOK /\ Linked /\ InOrder => BufferInOrder
  <2> SUFFICES ASSUME TypeOK, Linked, Ordered, NEW g \in Engines,
                      NEW k \in 2 .. Len(strategies[g].buffer)
               PROVE  strategies[g].buffer[k - 1].start < strategies[g].buffer[k].start
    BY DEF BufferInOrder, InOrder
  <2>1. strategies[g].buffer \in Seq(Candle)
    BY ElementTypes
  <2>2. Len(strategies[g].buffer) \in Nat
        /\ DOMAIN strategies[g].buffer = 1 .. Len(strategies[g].buffer)
    BY <2>1, LenProperties
  <2>3. k - 1 \in DOMAIN strategies[g].buffer /\ k \in DOMAIN strategies[g].buffer /\ k - 1 < k
    BY <2>2
  <2>4. QED BY <2>3 DEF Ordered, Buffered
<1>2. QED BY <1>1, OrderHolds, PTL

\* A bucket is decided on at most once, by whatever engine, however often the pair is
\* disarmed, the connection lost or the server restarted within it.
THEOREM OneDecisionPerCandleHolds == Spec => []OneDecisionPerCandle
<1>1. InOrder => OneDecisionPerCandle
  BY DEF InOrder, Ordered, OneDecisionPerCandle
<1>2. QED BY <1>1, OrderHolds, PTL

\* A candle the strategy made holds the ticks it took of its bucket, all of them, in
\* order and of no other bucket (CandleAggregator.add).
THEOREM CandlesHoldTheirTicksHolds == Spec => []CandlesHoldTheirTicks
<1>1. TypeOK /\ Linked /\ InOrder => CandlesHoldTheirTicks
  <2> SUFFICES ASSUME TypeOK, Linked, Ordered, NEW c \in Made, c.ticks # <<>>
               PROVE  c.ticks = TakenOf(c.start)
    BY DEF CandlesHoldTheirTicks, InOrder
  <2>1. engine \in Engines
    <3>1. engine # 0
      BY DEF Made
    <3>2. QED BY <3>1, DataAssumption DEF TypeOK, Engines
  <2> DEFINE s == strategies[engine]
  <2>2. c = s.candle \/ \E k \in DOMAIN s.buffer : c = s.buffer[k]
    BY DEF Made, Range
  <2>3. s.live
    <3>1. CASE s = NoStrategy
      <4>1. c = NoCandle
        BY <2>2, <3>1, NothingHeld
      <4>2. QED BY <4>1 DEF NoCandle
    <3>2. QED BY <2>1, <3>1 DEF Linked, OneStrategy
  <2>4. Holds(engine)
    BY <2>1 DEF Ordered
  <2>5. c.start \in Buckets
    <3>1. CASE c = s.candle
      <4>1. c # NoCandle
        BY DEF NoCandle
      <4>2. QED BY <2>1, <3>1, <4>1, ElementTypes
    <3>2. CASE \E k \in DOMAIN s.buffer : c = s.buffer[k]
      BY <2>3, <2>4, <3>2 DEF Holds
    <3>3. QED BY <2>2, <3>1, <3>2
  <2>6. QED BY <2>2, <2>3, <2>4, <2>5 DEF Holds
<1>2. QED BY <1>1, OrderHolds, PTL
=============================================================================
