------------------------------ MODULE Candles ------------------------------
(***************************************************************************)
(* live_candles.CandleAggregator and the buffer a Couleuvre strategy keeps *)
(* of its candles (_append_candle): the pure part of the inference.        *)
(*                                                                         *)
(* Abstractions.  A bucket, the interval of time a candle covers, is a     *)
(* number.  A candle holds the ticks it was made of, in the order they     *)
(* came, which determines its open, high, low, close and volume; a candle  *)
(* of the history on disk holds none.                                      *)
(***************************************************************************)
EXTENDS Integers, Sequences, SequencesExt

CONSTANT MaxBuffer     \* _LIVE_BUFFER_BARS

ASSUME BufferAssumption == MaxBuffer \in Nat \ {0}

NoCandle == [start |-> -1, ticks |-> <<>>]        \* before the very first tick
Begin(bucket, tick) == [start |-> bucket, ticks |-> <<tick>>]
FromHistory(bucket) == [start |-> bucket, ticks |-> <<>>]

\* add: the candle in progress after a tick of the bucket, and the candle the
\* tick closes, NoCandle if it closes none.
Extended(candle, tick) == [candle EXCEPT !.ticks = Append(@, tick)]

KeepTicks(candle, tick, bucket) ==          \* mutant: a new candle inherits the old one's ticks
  IF bucket = candle.start
  THEN [candle |-> Extended(candle, tick), closed |-> NoCandle]
  ELSE [candle |-> Extended([candle EXCEPT !.start = bucket], tick), closed |-> candle]

KeepStart(candle, tick, bucket) ==          \* mutant: the start is not moved
  IF bucket = candle.start
  THEN [candle |-> Extended(candle, tick), closed |-> NoCandle]
  ELSE [candle |-> Begin(IF candle = NoCandle THEN bucket ELSE candle.start, tick),
        closed |-> candle]

Add(candle, tick, bucket) ==
  IF bucket = candle.start
  THEN [candle |-> Extended(candle, tick), closed |-> NoCandle]
  ELSE [candle |-> Begin(bucket, tick), closed |-> candle]

\* The elements of a sequence that are in a set, in their order.
Kept(s, set) ==
  LET kept[n \in 0 .. Len(s)] ==
        IF n = 0 THEN <<>>
        ELSE IF s[n] \in set THEN Append(kept[n - 1], s[n]) ELSE kept[n - 1]
  IN kept[Len(s)]

\* The last MaxBuffer candles.
KeepAll(buffer) == buffer                   \* mutant: the buffer only grows
Trim(buffer) ==
  SubSeq(buffer, IF Len(buffer) > MaxBuffer THEN Len(buffer) - MaxBuffer + 1 ELSE 1, Len(buffer))

\* _append_candle: a candle of the same start that is already there goes.
KeepBoth(buffer, candle) == Trim(Append(buffer, candle))     \* mutant: no dedup
AppendCandle(buffer, candle) ==
  Trim(Append(Kept(buffer, {c \in Range(buffer) : c.start # candle.start}), candle))
=============================================================================
