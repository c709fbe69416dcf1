------------------------------ MODULE Candlesticks ------------------------------
(******************************************************************************)
(* Building candlesticks (candlesticks.go): from the trades of one minute     *)
(* (CandlestickBuilder.ProcessMessage), and from shorter candlesticks         *)
(* (ReprojectCandlesticks).  Times are minutes since candlestickBaseTime,     *)
(* prices and sizes are positive integers; 0 is the "not set" of the code.    *)
(* Product and direction are left out: one product, and nothing reads the     *)
(* direction.                                                                 *)
(******************************************************************************)
EXTENDS Integers, Sequences, SequencesExt

CandlestickBucket(t, tickSize) == (t \div tickSize) * tickSize

NewCandlestickBuilder(start, end) ==
    [start |-> start, end |-> end,
     low |-> 0, high |-> 0, open |-> 0, close |-> 0, volume |-> 0]

(* "Initializers": a field that is 0 takes the value. *)
OrFirst(field, value) == IF field = 0 THEN value ELSE field

Lower(a, b) == IF b < a THEN b ELSE a
Higher(a, b) == IF b > a THEN b ELSE a

(* A trade counts if its time is in the builder's minute, both ends included. *)
ProcessMessage(builder, trade) ==
    IF builder.start <= trade.time /\ trade.time <= builder.end
    THEN [builder EXCEPT !.volume = @ + trade.size,
                         !.low = Lower(OrFirst(@, trade.price), trade.price),
                         !.high = Higher(OrFirst(@, trade.price), trade.price),
                         !.open = OrFirst(@, trade.price),
                         !.close = trade.price]
    ELSE builder

(* (altered: the setters run without the initializers) *)
ProcessWithoutInitializers(builder, c) ==
    IF builder.start <= c.start /\ c.end <= builder.end
    THEN [builder EXCEPT !.volume = @ + c.volume,
                         !.low = Lower(@, c.low),
                         !.high = Higher(@, c.high),
                         !.open = OrFirst(@, c.open),
                         !.close = c.close]
    ELSE builder

(* A candlestick counts if it lies in the builder's period. *)
ProcessCandlestickModel(builder, c) ==
    IF builder.start <= c.start /\ c.end <= builder.end
    THEN [builder EXCEPT !.volume = @ + c.volume,
                         !.low = Lower(OrFirst(@, c.low), c.low),
                         !.high = Higher(OrFirst(@, c.high), c.high),
                         !.open = OrFirst(@, c.open),
                         !.close = c.close]
    ELSE builder

(* The periods from that of the first to that of the last candlestick given,  *)
(* by their starts.  `candles` is in order of time and not empty.             *)
Buckets(candles, tickSize) ==
    LET start == CandlestickBucket(Head(candles).start, tickSize)
        end == CandlestickBucket(Last(candles).start, tickSize)
    IN  [i \in 1..((end - start) \div tickSize + 1) |-> start + (i - 1) * tickSize]

(* A builder for each period, to which each candlestick is added in order:    *)
(* none lacks a builder.                                                      *)
AddCandle(builders, c, tickSize) ==
    [builders EXCEPT ![CandlestickBucket(c.start, tickSize)] =
        ProcessCandlestickModel(@, c)]

Builders(candles, tickSize) ==
    FoldLeft(LAMBDA builders, c : AddCandle(builders, c, tickSize),
             [b \in Range(Buckets(candles, tickSize)) |->
                 NewCandlestickBuilder(b, b + tickSize)],
             candles)

(* One candlestick per period, also for the periods without any.              *)
ReprojectCandlesticks(candles, tickSize) ==
    LET buckets == Buckets(candles, tickSize)
        builders == Builders(candles, tickSize)
    IN  [i \in DOMAIN buckets |-> builders[buckets[i]]]

(* The candlesticks with volume, in order.                                    *)
KeepWithVolume(kept, c) == IF c.volume > 0 THEN Append(kept, c) ELSE kept
WithVolume(candles) == FoldLeft(KeepWithVolume, <<>>, candles)
================================================================================
