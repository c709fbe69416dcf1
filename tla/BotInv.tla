--------------------------------- MODULE BotInv ---------------------------------
(******************************************************************************)
(* The inductive invariant behind the safety properties of BotProps.  The     *)
(* properties alone are not inductive: that NextTickAt moves whenever it is   *)
(* written needs the strategy being processed to be due, which needs its      *)
(* model to be its row, which needs nothing else to have written the row.     *)
(******************************************************************************)
EXTENDS BotProps

\* The calls made on behalf of self, and the ones made for the candlestick tick.
ProcessingCalls == {"decide", "order", "fill", "record", "book", "floor",
                    "schedule", "retire"}
TickCalls == ProcessingCalls \cup {"init", "scan"}

\* The strategy being processed is one of this tick's, and was due.
SelfDue ==
    pc \in ProcessingCalls =>
        /\ self \in todo
        /\ rows[self].NextTickAt <= tick

\* It is active until its sale has been booked.
SelfActive ==
    pc \in {"decide", "order", "fill", "record", "book", "retire"} =>
        ~rows[self].Deactivated

\* The candlestick being processed stays in the table.
TickStored == pc \in TickCalls => tick \in candles

Coherent == ModelsCurrent /\ SelfDue /\ SelfActive /\ TickStored

\* The order of the strategy being processed is the one its tick is allowed.
OrderCount ==
    \A s \in Strategies :
        sinceTick[s] <= faults +
            (IF self = s /\ pc \in {"fill", "record", "book", "floor", "schedule"}
             THEN 1 ELSE 0)

\* It has no row before RecordOrder.
RecordCount ==
    /\ OrdersRecorded
    /\ pc \in {"fill", "record"} => recorded[self] < placed[self]

\* The indicators of the strategies still to be processed reach up to the tick.
SeedsReachTick ==
    pc \in ProcessingCalls \cup {"scan"} =>
        \A s \in todo : \E b \in sets[s] : b + TickSize[s] >= tick

================================================================================
