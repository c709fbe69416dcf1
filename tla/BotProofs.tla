------------------------------- MODULE BotProofs -------------------------------
(******************************************************************************)
(* What TLAPS proves about Bot and BotLedger for every set of strategies,     *)
(* every period and every market: first what holds of the orders, whatever    *)
(* fails, then the books, for any number of failures of the kinds each        *)
(* theorem names.  A strategy holds one side only, so what it spends is all   *)
(* it has, and what is booked differs from what the exchange holds by the     *)
(* truncations alone.                                                         *)
(******************************************************************************)
EXTENDS BotLedger, TLAPS

\* CandlestickBucket is the last period boundary at or before t
\* (candlesticks.go:20-24).
LEMMA BucketBounds ==
    ASSUME NEW t \in Nat, NEW size \in Nat \ {0}
    PROVE  /\ CandlestickBucket(t, size) \in Nat
           /\ CandlestickBucket(t, size) <= t
           /\ t < CandlestickBucket(t, size) + size
           /\ CandlestickBucket(t, size) % size = 0
           /\ (CandlestickBucket(t, size) + size) % size = 0
<1>1. t = size * (t \div size) + (t % size) /\ t % size \in 0..(size - 1)
      /\ t \div size \in Nat
  OBVIOUS
<1>2. CandlestickBucket(t, size) = size * (t \div size)
  BY <1>1 DEF CandlestickBucket
<1>3. \A k \in Nat : (size * k) % size = 0
  OBVIOUS
<1>4. size * (t \div size) \in Nat
  BY <1>1
<1>5. size * (t \div size) + size = size * ((t \div size) + 1)
  BY <1>1
<1>6. (size * (t \div size) + size) % size = 0
  BY <1>1, <1>3, <1>5
<1> QED
  BY <1>1, <1>2, <1>3, <1>4, <1>6

\* TruncateFloat rounds down, by less than one unit of precision (math.go:9-12).
LEMMA TruncateBounds ==
    ASSUME NEW x \in Nat
    PROVE  /\ TruncateFloat(x) \in Nat
           /\ x - TruncateFloat(x) \in 0..(Dust - 1)
<1>1. x % Dust \in 0..(Dust - 1) /\ x % Dust <= x
  BY BotAssumption
<1> QED
  BY <1>1, BotAssumption DEF TruncateFloat

\* TypeOK gives the written models their type.
LEMMA BookedModelType == TypeOK => BookedModel \in Row
<1> SUFFICES ASSUME TypeOK PROVE BookedModel \in Row
  OBVIOUS
<1>1. TruncateFloat(fill) \in Nat
  BY TruncateBounds DEF TypeOK
<1> QED
  BY <1>1 DEF TypeOK, Row, BookedModel, BoughtModel, SoldModel, TryingToBuy,
              TryingToSell

LEMMA ScheduledModelType == TypeOK => ScheduledModel \in Row
<1> SUFFICES ASSUME TypeOK PROVE ScheduledModel \in Row
  OBVIOUS
<1>1. TickSize[self] \in Nat \ {0} /\ tick \in Nat /\ models[self] \in Row
  BY BotAssumption DEF TypeOK
<1>a. CandlestickBucket(tick, TickSize[self]) \in Nat
  BY <1>1, BucketBounds
<1>2. CandlestickBucket(tick, TickSize[self]) + TickSize[self] \in Nat
  BY <1>1, <1>a
<1>3. ASSUME NEW m \in Row, NEW t \in Nat, NEW n \in Nat
      PROVE  [m EXCEPT !.LastTickAt = t, !.NextTickAt = n] \in Row
  BY DEF Row
<1> QED
  BY <1>1, <1>2, <1>3 DEF ScheduledModel

LEMMA ExchangeTakesOrderType ==
    TypeOK /\ ExchangeTakesOrder =>
        /\ placed' \in [Strategies -> Nat]
        /\ sinceTick' \in [Strategies -> Nat]
        /\ fill' \in Nat
        /\ account' \in [Strategies -> [cash : Int, coin : Int]]
<1> SUFFICES ASSUME TypeOK, ExchangeTakesOrder
             PROVE  /\ placed' \in [Strategies -> Nat]
                    /\ sinceTick' \in [Strategies -> Nat]
                    /\ fill' \in Nat
                    /\ account' \in [Strategies -> [cash : Int, coin : Int]]
  OBVIOUS
<1>1. fill' \in Nat
  BY BotAssumption DEF ExchangeTakesOrder
<1>2. Cost(models[self]) \in Int
  BY DEF Cost, TypeOK, Row
<1>3. placed' \in [Strategies -> Nat] /\ sinceTick' \in [Strategies -> Nat]
  BY DEF ExchangeTakesOrder, TypeOK
<1>4. account[self].cash \in Int /\ account[self].coin \in Int
  BY DEF TypeOK
<1>5. CASE models[self].State = TryingToBuy
           /\ account' = [account EXCEPT
                ![self].cash = account[self].cash - Cost(models[self]),
                ![self].coin = account[self].coin + fill']
  <2> DEFINE c == account[self].cash - Cost(models[self])
             d == account[self].coin + fill'
  <2>1. c \in Int /\ d \in Int
    BY <1>1, <1>2, <1>4
  <2>2. account' = [account EXCEPT ![self].cash = c, ![self].coin = d]
    BY <1>5
  <2> HIDE DEF c, d
  <2>3. account' \in [Strategies -> [cash : Int, coin : Int]]
    BY <2>1, <2>2 DEF TypeOK
  <2> QED
    BY <1>1, <1>3, <2>3
<1>6. CASE models[self].State = TryingToSell
           /\ account' = [account EXCEPT
                ![self].cash = account[self].cash + fill',
                ![self].coin = account[self].coin - Cost(models[self])]
  <2> DEFINE c == account[self].cash + fill'
             d == account[self].coin - Cost(models[self])
  <2>1. c \in Int /\ d \in Int
    BY <1>1, <1>2, <1>4
  <2>2. account' = [account EXCEPT ![self].cash = c, ![self].coin = d]
    BY <1>6
  <2> HIDE DEF c, d
  <2>3. account' \in [Strategies -> [cash : Int, coin : Int]]
    BY <2>1, <2>2 DEF TypeOK
  <2> QED
    BY <1>1, <1>3, <2>3
<1> QED
  BY <1>5, <1>6 DEF ExchangeTakesOrder

\* A projection holds start times of periods.
LEMMA FoundPeriods ==
    ASSUME TypeOK, NEW s \in Strategies, NEW start, NEW end
    PROVE  FindCandlesticks(s, start, end) \subseteq Nat
<1>1. \A e \in Stored(start, end) : e - 1 \in Nat
  BY BotAssumption DEF Stored, TypeOK
<1>2. TickSize[s] \in Nat \ {0}
  BY BotAssumption
<1>3. \A e \in Stored(start, end) : CandlestickBucket(e - 1, TickSize[s]) \in Nat
  BY <1>1, <1>2, BucketBounds
<1> QED
  BY <1>3 DEF FindCandlesticks, Reproject

LEMMA RetiredModelType == TypeOK => RetiredModel \in Row
<1> SUFFICES ASSUME TypeOK PROVE RetiredModel \in Row
  OBVIOUS
<1> QED
  BY DEF TypeOK, Row, RetiredModel

--------------------------------------------------------------------------------
(* Type correctness. *)

LEMMA TypeInit == Init => TypeOK
<1> SUFFICES ASSUME Init PROVE TypeOK
  OBVIOUS
<1>1. PICK opening \in [Strategies -> OpeningPositions] :
        /\ rows = [s \in Strategies |-> CreatedRow(s, opening[s])]
        /\ account = [s \in Strategies |->
              [cash |-> CreatedRow(s, opening[s]).Budget, coin |-> opening[s]]]
  BY DEF Init
<1>2. ASSUME NEW s \in Strategies
      PROVE  CreatedRow(s, opening[s]) \in Row /\ opening[s] \in Nat
  <2>1. opening[s] \in Nat
    BY <1>1, BotAssumption
  <2>4. InitialBudget[s] \in Nat
    BY BotAssumption
  <2>2. TickSize[s] \in Nat \ {0}
    BY BotAssumption
  <2>3. CandlestickBucket(0, TickSize[s]) \in Nat
    BY <2>2, BucketBounds
  <2> QED
    BY <2>1, <2>2, <2>3, <2>4 DEF CreatedRow, Row, NoTime, TryingToBuy, TryingToSell
<1>3. rows \in [Strategies -> Row]
      /\ account \in [Strategies -> [cash : Int, coin : Int]]
  BY <1>1, <1>2 DEF Row
<1> QED
  BY <1>3, BotAssumption DEF Init, TypeOK, NoTime

LEMMA TypeNext == TypeOK /\ [Next]_vars => TypeOK'
<1> SUFFICES ASSUME TypeOK, [Next]_vars PROVE TypeOK'
  OBVIOUS
<1> USE BotAssumption DEF TypeOK, tables, exchange, memory, history
<1>1. ASSUME NEW e \in 1..MaxTime, ImportCandlestick(e) PROVE TypeOK'
  BY <1>1 DEF ImportCandlestick
<1>2. CASE NothingNew
  BY <1>2 DEF NothingNew
<1>3. CASE FindMostRecentCandlestick
  BY <1>3 DEF FindMostRecentCandlestick
<1>4. CASE InitializeStrategies
  <2>1. \A s \in Strategies : SeedCandlesticks(s) \in SUBSET Nat
    BY FoundPeriods DEF SeedCandlesticks
  <2>2. sets' \in [Strategies -> SUBSET Nat]
    BY <1>4, <2>1 DEF InitializeStrategies
  <2>3. models' \in [Strategies -> Row] /\ todo' \subseteq Strategies
    BY <1>4 DEF InitializeStrategies, GiveUp
  <2> QED
    BY <1>4, <2>2, <2>3 DEF InitializeStrategies, GiveUp
<1>5. ASSUME NEW s \in Strategies, SkipStrategy(s) PROVE TypeOK'
  BY <1>5 DEF SkipStrategy
<1>6. ASSUME NEW s \in Strategies, BeginStrategy(s) PROVE TypeOK'
  BY <1>6 DEF BeginStrategy
<1>7. CASE FinishTick
  BY <1>7 DEF FinishTick
<1>8. CASE Sleep
  BY <1>8 DEF Sleep
<1>9. CASE Decide
  <2>1. TopUp(self) \subseteq Nat
    BY FoundPeriods DEF TopUp
  <2> HIDE DEF TypeOK
  <2>2. sets[self] \cup TopUp(self) \in SUBSET Nat
    BY <2>1 DEF TypeOK
  <2>3. sets' \in [Strategies -> SUBSET Nat]
    BY <1>9, <2>2 DEF Decide, TypeOK
  <2>4. pc' \in {"order", "schedule", "retire"}
    BY <1>9 DEF Decide
  <2> QED
    BY <1>9, <2>3, <2>4 DEF Decide, TypeOK
<1>10. CASE Retire
  BY <1>10, RetiredModelType DEF Retire, UpdateTradingStrategy
<1>11. CASE PlaceOrder
  BY <1>11, ExchangeTakesOrderType DEF PlaceOrder
<1>12. CASE OrderTooSmall
  BY <1>12 DEF OrderTooSmall, GiveUp
<1>13. CASE AwaitFill
  BY <1>13 DEF AwaitFill
<1>14. CASE RecordOrder
  BY <1>14 DEF RecordOrder, InsertOrder
<1>15. CASE BookTrade
  BY <1>15, BookedModelType DEF BookTrade, UpdateTradingStrategy
<1>16. CASE DeactivateBelowMinimum
  BY <1>16, RetiredModelType DEF DeactivateBelowMinimum, UpdateTradingStrategy
<1>17. CASE ScheduleNextTick
  BY <1>17, ScheduledModelType DEF ScheduleNextTick, UpdateTradingStrategy, CountFrom
<1>18. CASE ReadFails
  BY <1>18 DEF ReadFails, Fault, GiveUp
<1>19. CASE RetireFails
  BY <1>19, RetiredModelType DEF RetireFails, Fault, GiveUp, LostOrCommitted, UpdateTradingStrategy
<1>20. CASE PlaceOrderRejected
  BY <1>20 DEF PlaceOrderRejected, Fault, GiveUp
<1>21. CASE PlaceOrderReplyLost
  BY <1>21, ExchangeTakesOrderType DEF PlaceOrderReplyLost, Fault, GiveUp
<1>22. CASE AwaitFillFails
  BY <1>22 DEF AwaitFillFails, Fault, GiveUp
<1>23. CASE RecordOrderFails
  BY <1>23 DEF RecordOrderFails, Fault, GiveUp, InsertOrder
<1>24. CASE BookTradeFails
  <2>1. CASE UNCHANGED <<rows, booked>>
    BY <1>24, <2>1 DEF BookTradeFails, Fault, GiveUp
  <2>2. CASE /\ UpdateTradingStrategy(self, BookedModel)
             /\ booked' = [booked EXCEPT ![self] = @ + 1]
    BY <1>24, <2>2, BookedModelType
    DEF BookTradeFails, UpdateTradingStrategy, Fault, GiveUp
  <2> QED
    BY <1>24, <2>1, <2>2 DEF BookTradeFails
<1>25. CASE DeactivateBelowMinimumFails
  BY <1>25, RetiredModelType DEF DeactivateBelowMinimumFails, Fault, GiveUp, LostOrCommitted, UpdateTradingStrategy
<1>26. CASE ScheduleNextTickFails
  <2>1. CASE UNCHANGED <<rows, sinceTick>>
    BY <1>26, <2>1 DEF ScheduleNextTickFails, Fault, GiveUp
  <2>2. CASE UpdateTradingStrategy(self, ScheduledModel)
             /\ CountFrom(ScheduledModel)
    BY <1>26, <2>2, ScheduledModelType
    DEF ScheduleNextTickFails, UpdateTradingStrategy, CountFrom, Fault, GiveUp
  <2> QED
    BY <1>26, <2>1, <2>2 DEF ScheduleNextTickFails
<1>27. CASE Crash
  BY <1>27 DEF Crash, Die, Fault, NoTime
<1>28. CASE BuyPanics
  BY <1>28 DEF BuyPanics, Die, NoTime
<1>29. CASE Restart
  BY <1>29 DEF Restart
<1>30. CASE UNCHANGED vars
  BY <1>30 DEF vars
<1> QED
  BY <1>1, <1>2, <1>3, <1>4, <1>5, <1>6, <1>7, <1>8, <1>9, <1>10, <1>11, <1>12, <1>13, <1>14, <1>15, <1>16, <1>17, <1>18, <1>19, <1>20, <1>21, <1>22, <1>23, <1>24, <1>25, <1>26, <1>27, <1>28, <1>29, <1>30
  DEF Next, Step, Failure

\* Every variable keeps its type.
THEOREM TypeCorrect == Spec => []TypeOK
<1> QED
  BY TypeInit, TypeNext, PTL DEF Spec

--------------------------------------------------------------------------------
(* The bot's memory and the database agree while a tick is processed. *)

\* Every failure ends the attempt: Run sleeps, or the process is gone.
LEMMA FailureEndsTick == Failure => pc' \in {"sleep", "down"}
<1> QED
  BY DEF Failure, GiveUp, ReadFails, RetireFails, PlaceOrderRejected,
         PlaceOrderReplyLost, AwaitFillFails, RecordOrderFails, BookTradeFails,
         DeactivateBelowMinimumFails, ScheduleNextTickFails, BuyPanics, Die, Crash

LEMMA CoherentInit == Init => Coherent
<1> QED
  BY DEF Init, Coherent, ModelsCurrent, SelfDue, SelfActive, TickStored,
         ProcessingCalls, TickCalls

LEMMA CoherentNext == TypeOK /\ Coherent /\ [Next]_vars => Coherent'
<1> SUFFICES ASSUME TypeOK, Coherent, [Next]_vars PROVE Coherent'
  OBVIOUS
<1> USE DEF Coherent, ModelsCurrent, SelfDue, SelfActive, TickStored,
            ProcessingCalls, TickCalls, tables, exchange, memory, history
<1>1. ASSUME NEW e \in 1..MaxTime, ImportCandlestick(e) PROVE Coherent'
  BY <1>1 DEF ImportCandlestick
<1>2. CASE pc' \in {"poll", "sleep", "down"}
  BY <1>2
<1>3. CASE Failure
  BY <1>2, <1>3, FailureEndsTick
<1>4. CASE FindMostRecentCandlestick
  BY <1>4 DEF FindMostRecentCandlestick, TypeOK
<1>5. CASE InitializeStrategies
  BY <1>5 DEF InitializeStrategies, GiveUp, TypeOK
<1>6. ASSUME NEW s \in Strategies, SkipStrategy(s) PROVE Coherent'
  BY <1>6 DEF SkipStrategy
<1>7. ASSUME NEW s \in Strategies, BeginStrategy(s) PROVE Coherent'
  BY <1>7 DEF BeginStrategy, Due
<1>8. CASE Decide
  BY <1>8 DEF Decide, TypeOK
<1>9. CASE Retire
  BY <1>9 DEF Retire, UpdateTradingStrategy, TypeOK
<1>10. CASE PlaceOrder
  BY <1>10 DEF PlaceOrder, ExchangeTakesOrder, TypeOK
<1>11. CASE AwaitFill
  BY <1>11 DEF AwaitFill, TypeOK
<1>12. CASE RecordOrder
  BY <1>12 DEF RecordOrder, TypeOK
<1>13. CASE BookTrade
  BY <1>13 DEF BookTrade, UpdateTradingStrategy, BookedModel, BoughtModel, SoldModel, TypeOK
<1>14. CASE DeactivateBelowMinimum
  BY <1>14 DEF DeactivateBelowMinimum, UpdateTradingStrategy, RetiredModel, TypeOK
<1>15. CASE ScheduleNextTick
  BY <1>15 DEF ScheduleNextTick, UpdateTradingStrategy, TypeOK
<1>16. CASE NothingNew \/ FinishTick \/ Sleep \/ OrderTooSmall \/ Restart
  BY <1>2, <1>16 DEF NothingNew, FinishTick, Sleep, OrderTooSmall, GiveUp, Restart
<1>17. CASE UNCHANGED vars
  BY <1>17 DEF vars
<1> QED
  BY <1>1, <1>2, <1>3, <1>4, <1>5, <1>6, <1>7, <1>8, <1>9, <1>10, <1>11, <1>12, <1>13, <1>14, <1>15, <1>16, <1>17
  DEF Next, Step

\* A model still to be processed is its row, and the strategy being processed is
\* due, active and at a stored candlestick.
THEOREM ModelsStayCurrent == Spec => []ModelsCurrent
<1>1. Spec => [](TypeOK /\ Coherent)
  BY TypeInit, TypeNext, CoherentInit, CoherentNext, PTL DEF Spec
<1>2. Coherent => ModelsCurrent
  BY DEF Coherent
<1> QED
  BY <1>1, <1>2, PTL

--------------------------------------------------------------------------------
(* NextTickAt. *)

\* What processTick writes lies strictly ahead of the tick and on a boundary.
LEMMA ScheduledTick ==
    TypeOK => /\ ScheduledModel.NextTickAt > tick
              /\ ScheduledModel.NextTickAt - tick \in 1..TickSize[self]
              /\ ScheduledModel.NextTickAt % TickSize[self] = 0
              /\ ScheduledModel.Deactivated = models[self].Deactivated
<1> SUFFICES ASSUME TypeOK
             PROVE  /\ ScheduledModel.NextTickAt > tick
                    /\ ScheduledModel.NextTickAt - tick \in 1..TickSize[self]
                    /\ ScheduledModel.NextTickAt % TickSize[self] = 0
                    /\ ScheduledModel.Deactivated = models[self].Deactivated
  OBVIOUS
<1> DEFINE size == TickSize[self]
           b == CandlestickBucket(tick, size)
<1>1. tick \in Nat /\ size \in Nat \ {0} /\ models[self] \in Row
  BY BotAssumption DEF TypeOK
<1>2. b \in Nat /\ b <= tick /\ tick < b + size /\ (b + size) % size = 0
  BY <1>1, BucketBounds
<1>3. ScheduledModel.NextTickAt = b + size
      /\ ScheduledModel.Deactivated = models[self].Deactivated
  BY <1>1 DEF ScheduledModel, Row
<1> HIDE DEF size, b
<1>4. b + size - tick \in 1..size
  BY <1>1, <1>2
<1> QED
  BY <1>1, <1>2, <1>3, <1>4 DEF size

\* Between two ticks NextTickAt moves only forward, at most one period past the
\* candlestick, onto a boundary, and a deactivation is final.
TicksAdvanceStep ==
    \A s \in Strategies :
        /\ rows[s].Deactivated => rows'[s].Deactivated
        /\ rows'[s].NextTickAt # rows[s].NextTickAt =>
              /\ rows'[s].NextTickAt > rows[s].NextTickAt
              /\ rows'[s].NextTickAt - tick \in 1..TickSize[s]
              /\ rows'[s].NextTickAt % TickSize[s] = 0

LEMMA TicksAdvanceNext == TypeOK /\ Coherent /\ [Next]_vars => TicksAdvanceStep
<1> SUFFICES ASSUME TypeOK, Coherent, [Next]_vars PROVE TicksAdvanceStep
  OBVIOUS
<1> USE DEF TicksAdvanceStep, tables
\* Most steps write no row.
<1>1. CASE UNCHANGED rows
  BY <1>1
\* The others write the row of the strategy being processed.
<1>2. ASSUME pc \in ProcessingCalls
      PROVE  /\ models[self] = rows[self]
             /\ rows[self].NextTickAt <= tick
             /\ rows[self] \in Row /\ tick \in Nat
  BY <1>2 DEF Coherent, ModelsCurrent, SelfDue, ProcessingCalls, TypeOK
<1>3. CASE pc \in ProcessingCalls /\ UpdateTradingStrategy(self, ScheduledModel)
  <2>1. rows' = [rows EXCEPT ![self] = ScheduledModel]
    BY <1>3 DEF UpdateTradingStrategy
  <2>2. rows'[self] = ScheduledModel
        /\ \A s \in Strategies \ {self} : rows'[s] = rows[s]
    BY <2>1 DEF TypeOK
  <2>3. ScheduledModel.NextTickAt > rows[self].NextTickAt
    BY <1>2, <1>3, ScheduledTick, ScheduledModelType DEF Row
  <2>4. ScheduledModel.Deactivated = rows[self].Deactivated
    BY <1>2, <1>3, ScheduledTick
  <2> QED
    BY <2>2, <2>3, <2>4, ScheduledTick
<1>4. CASE pc \in ProcessingCalls /\ UpdateTradingStrategy(self, RetiredModel)
  BY <1>2, <1>4 DEF UpdateTradingStrategy, RetiredModel, TypeOK, Row
<1>5. CASE pc \in ProcessingCalls /\ UpdateTradingStrategy(self, BookedModel)
  BY <1>2, <1>5 DEF UpdateTradingStrategy, BookedModel, BoughtModel, SoldModel,
                    TypeOK, Row
<1>6. CASE Step
  BY <1>1, <1>3, <1>4, <1>5, <1>6
  DEF Step, NothingNew, FindMostRecentCandlestick, InitializeStrategies,
      SkipStrategy, BeginStrategy, FinishTick, Sleep, Decide, Retire, PlaceOrder,
      OrderTooSmall, AwaitFill, RecordOrder, BookTrade, DeactivateBelowMinimum,
      ScheduleNextTick, ProcessingCalls
<1>7. CASE Failure
  BY <1>1, <1>3, <1>4, <1>5, <1>7
  DEF Failure, ReadFails, RetireFails, PlaceOrderRejected, PlaceOrderReplyLost,
      AwaitFillFails, RecordOrderFails, BookTradeFails, BuyPanics, Crash, LostOrCommitted,
      DeactivateBelowMinimumFails, ScheduleNextTickFails, ProcessingCalls
<1>8. CASE UNCHANGED vars
  BY <1>1, <1>8 DEF vars
<1> QED
  BY <1>1, <1>6, <1>7, <1>8 DEF Next, ImportCandlestick, Restart

\* NextTickAt only moves forward, onto the next boundary after the candlestick,
\* and a deactivated strategy stays so, whatever fails.
THEOREM TicksOnlyAdvance == Spec => TicksAdvance
<1>1. Spec => [](TypeOK /\ Coherent)
  BY TypeInit, TypeNext, CoherentInit, CoherentNext, PTL DEF Spec
<1>2. TypeOK /\ Coherent /\ [Next]_vars => [TicksAdvanceStep]_vars
  BY TicksAdvanceNext
<1>3. [TicksAdvanceStep]_vars =>
        [\A s \in Strategies :
          /\ rows[s].Deactivated => rows'[s].Deactivated
          /\ rows'[s].NextTickAt # rows[s].NextTickAt =>
                /\ rows'[s].NextTickAt > rows[s].NextTickAt
                /\ rows'[s].NextTickAt - tick \in 1..TickSize[s]
                /\ rows'[s].NextTickAt % TickSize[s] = 0]_vars
  BY DEF TicksAdvanceStep
<1> QED
  BY <1>1, <1>2, <1>3, PTL DEF Spec, TicksAdvance

--------------------------------------------------------------------------------
(* Orders placed, recorded and paid for. *)

\* The write of processTick starts a new count.
LEMMA ScheduleResets ==
    TypeOK /\ Coherent /\ pc = "schedule" /\ CountFrom(ScheduledModel) =>
        sinceTick' = [sinceTick EXCEPT ![self] = 0]
<1> SUFFICES ASSUME TypeOK, Coherent, pc = "schedule", CountFrom(ScheduledModel)
             PROVE  sinceTick' = [sinceTick EXCEPT ![self] = 0]
  OBVIOUS
<1>1. rows[self].NextTickAt <= tick /\ rows[self].NextTickAt \in Nat
      /\ tick \in Nat
  BY DEF Coherent, SelfDue, ProcessingCalls, TypeOK, Row
<1>2. ScheduledModel.NextTickAt > tick /\ ScheduledModel.NextTickAt \in Nat
  BY ScheduledTick, ScheduledModelType DEF Row
<1>3. ScheduledModel.NextTickAt # rows[self].NextTickAt
  BY <1>1, <1>2
<1> QED
  BY <1>3 DEF CountFrom

LEMMA OrderCountInit == Init => OrderCount
<1> QED
  BY DEF Init, OrderCount

LEMMA OrderCountNext ==
    TypeOK /\ Coherent /\ OrderCount /\ [Next]_vars => OrderCount'
<1> SUFFICES ASSUME TypeOK, Coherent, OrderCount, [Next]_vars PROVE OrderCount'
  OBVIOUS
<1> USE DEF OrderCount, TypeOK, tables, exchange, memory, history
<1>1. CASE UNCHANGED <<sinceTick, faults>> /\
           (UNCHANGED <<pc, self>> \/
            ~(pc \in {"fill", "record", "book", "floor", "schedule"}))
  BY <1>1
<1>2. CASE PlaceOrder
  BY <1>2 DEF PlaceOrder, ExchangeTakesOrder
<1>3. CASE AwaitFill \/ RecordOrder \/ BookTrade \/ DeactivateBelowMinimum
  BY <1>3 DEF AwaitFill, RecordOrder, BookTrade, DeactivateBelowMinimum
<1>4. CASE ScheduleNextTick
  BY <1>4, ScheduleResets DEF ScheduleNextTick
<1>5. CASE Step
  BY <1>1, <1>2, <1>3, <1>4, <1>5
  DEF Step, NothingNew, FindMostRecentCandlestick, InitializeStrategies,
      SkipStrategy, BeginStrategy, FinishTick, Sleep, Decide, Retire,
      OrderTooSmall
\* A failure adds one to the bound, and ends the attempt.
<1>6. CASE /\ faults' = faults + 1
           /\ pc' \in {"sleep", "down"}
           /\ UNCHANGED sinceTick
  BY <1>6
<1>7. CASE PlaceOrderReplyLost
  BY <1>7 DEF PlaceOrderReplyLost, ExchangeTakesOrder, Fault, GiveUp
<1>8. CASE ScheduleNextTickFails
  BY <1>8, ScheduleResets DEF ScheduleNextTickFails, Fault, GiveUp
<1>9. CASE Failure
  BY <1>1, <1>6, <1>7, <1>8, <1>9
  DEF Failure, ReadFails, RetireFails, PlaceOrderRejected, AwaitFillFails,
      RecordOrderFails, BookTradeFails, DeactivateBelowMinimumFails, BuyPanics,
      Crash, Die, Fault, GiveUp
<1>10. CASE UNCHANGED vars
  BY <1>1, <1>10 DEF vars
<1> QED
  BY <1>1, <1>5, <1>9, <1>10 DEF Next, ImportCandlestick, Restart

\* However the market, the strategies and the failures go, a tick of a strategy
\* costs at most one order more than there were failures.
THEOREM OrdersBounded == Spec => []OrdersPerTickBounded
<1>1. Spec => [](TypeOK /\ Coherent /\ OrderCount)
  BY TypeInit, TypeNext, CoherentInit, CoherentNext, OrderCountInit,
     OrderCountNext, PTL DEF Spec
<1>2. TypeOK /\ OrderCount => OrdersPerTickBounded
  BY BotAssumption DEF TypeOK, OrderCount, OrdersPerTickBounded
<1> QED
  BY <1>1, <1>2, PTL

LEMMA RecordCountInit == Init => RecordCount
<1> QED
  BY DEF Init, RecordCount, OrdersRecorded

LEMMA RecordCountNext == TypeOK /\ RecordCount /\ [Next]_vars => RecordCount'
<1> SUFFICES ASSUME TypeOK, RecordCount, [Next]_vars PROVE RecordCount'
  OBVIOUS
<1> USE DEF RecordCount, OrdersRecorded, TypeOK, tables, exchange, memory, history
<1>1. CASE UNCHANGED <<placed, recorded, faults>> /\
           (UNCHANGED <<pc, self>> \/ pc' \notin {"fill", "record"}) /\
           (UNCHANGED <<pc, self>> \/ pc \notin {"fill", "record"})
  BY <1>1
<1>2. CASE PlaceOrder
  BY <1>2 DEF PlaceOrder, ExchangeTakesOrder
<1>3. CASE AwaitFill
  BY <1>3 DEF AwaitFill
<1>4. CASE RecordOrder
  BY <1>4 DEF RecordOrder, InsertOrder
<1>5. CASE Step
  BY <1>1, <1>2, <1>3, <1>4, <1>5
  DEF Step, NothingNew, FindMostRecentCandlestick, InitializeStrategies,
      SkipStrategy, BeginStrategy, FinishTick, Sleep, Decide, Retire,
      OrderTooSmall, GiveUp, BookTrade, DeactivateBelowMinimum, ScheduleNextTick
<1>6. CASE /\ faults' = faults + 1
           /\ pc' \in {"sleep", "down"}
           /\ UNCHANGED <<placed, recorded>>
  BY <1>6
<1>7. CASE PlaceOrderReplyLost
  BY <1>7 DEF PlaceOrderReplyLost, ExchangeTakesOrder, Fault, GiveUp
<1>8. CASE RecordOrderFails
  BY <1>8 DEF RecordOrderFails, InsertOrder, Fault, GiveUp
<1>9. CASE Failure
  BY <1>1, <1>6, <1>7, <1>8, <1>9
  DEF Failure, ReadFails, RetireFails, PlaceOrderRejected, AwaitFillFails,
      BookTradeFails, DeactivateBelowMinimumFails, ScheduleNextTickFails,
      BuyPanics, Crash, Die, Fault, GiveUp
<1>10. CASE UNCHANGED vars
  BY <1>1, <1>10 DEF vars
<1> QED
  BY <1>1, <1>5, <1>9, <1>10 DEF Next, ImportCandlestick, Restart

\* No row without an order, and no more orders without a row than failures.
THEOREM OrdersAreRecorded == Spec => []OrdersRecorded
<1>1. Spec => [](TypeOK /\ RecordCount)
  BY TypeInit, TypeNext, RecordCountInit, RecordCountNext, PTL DEF Spec
<1>2. RecordCount => OrdersRecorded
  BY DEF RecordCount
<1> QED
  BY <1>1, <1>2, PTL

--------------------------------------------------------------------------------
(* Who trades, and for how much. *)

\* An order of this step is a due strategy's, for all it has on its side.
DueTrade ==
    \A s \in Strategies : placed'[s] # placed[s] =>
        /\ ~rows[s].Deactivated
        /\ rows[s].NextTickAt <= tick
        /\ tick \in candles
        /\ IF rows[s].State = TryingToBuy
           THEN account'[s].cash = account[s].cash - rows[s].Budget
           ELSE account'[s].coin = account[s].coin - rows[s].Invested

LEMMA DueTradeNext == TypeOK /\ Coherent /\ [Next]_vars => DueTrade
<1> SUFFICES ASSUME TypeOK, Coherent, [Next]_vars PROVE DueTrade
  OBVIOUS
<1>1. CASE UNCHANGED placed
  BY <1>1 DEF DueTrade
<1>2. CASE pc = "order" /\ ExchangeTakesOrder
  <2>1. /\ models[self] = rows[self]
        /\ ~rows[self].Deactivated
        /\ rows[self].NextTickAt <= tick
        /\ tick \in candles
    BY <1>2 DEF Coherent, ModelsCurrent, SelfDue, SelfActive, TickStored,
                ProcessingCalls, TickCalls
  <2>2. \A s \in Strategies : placed'[s] # placed[s] => s = self
    BY <1>2 DEF ExchangeTakesOrder, TypeOK
  <2>3. CASE rows[self].State = TryingToBuy
    <3>1. account' = [account EXCEPT ![self].cash = @ - rows[self].Budget,
                                     ![self].coin = @ + fill']
      BY <1>2, <2>1, <2>3
      DEF ExchangeTakesOrder, Cost, TryingToBuy, TryingToSell
    <3>2. account'[self].cash = account[self].cash - rows[self].Budget
      BY <3>1 DEF TypeOK
    <3> QED
      BY <2>1, <2>2, <2>3, <3>2 DEF DueTrade
  <2>4. CASE rows[self].State # TryingToBuy
    <3>1. account' = [account EXCEPT ![self].cash = @ + fill',
                                     ![self].coin = @ - rows[self].Invested]
      BY <1>2, <2>1, <2>4
      DEF ExchangeTakesOrder, Cost, TryingToBuy, TryingToSell
    <3>2. account'[self].coin = account[self].coin - rows[self].Invested
      BY <3>1 DEF TypeOK
    <3> QED
      BY <2>1, <2>2, <2>4, <3>2 DEF DueTrade
  <2> QED
    BY <2>3, <2>4
<1>3. CASE Step
  BY <1>1, <1>2, <1>3
  DEF Step, NothingNew, FindMostRecentCandlestick, InitializeStrategies,
      SkipStrategy, BeginStrategy, FinishTick, Sleep, Decide, Retire, PlaceOrder,
      OrderTooSmall, AwaitFill, RecordOrder, BookTrade, DeactivateBelowMinimum,
      ScheduleNextTick, exchange
<1>4. CASE Failure
  BY <1>1, <1>2, <1>4
  DEF Failure, ReadFails, RetireFails, PlaceOrderRejected, PlaceOrderReplyLost,
      AwaitFillFails, RecordOrderFails, BookTradeFails, BuyPanics, Crash,
      DeactivateBelowMinimumFails, ScheduleNextTickFails, exchange
<1>5. CASE UNCHANGED vars
  BY <1>1, <1>5 DEF vars, exchange
<1> QED
  BY <1>1, <1>3, <1>4, <1>5 DEF Next, ImportCandlestick, Restart, exchange

\* Only an active strategy whose tick has come trades, at a stored candlestick,
\* on the side of its row and for all of it.
THEOREM OnlyDueTrade == Spec => OnlyDueStrategiesTrade
<1>1. Spec => [](TypeOK /\ Coherent)
  BY TypeInit, TypeNext, CoherentInit, CoherentNext, PTL DEF Spec
<1>2. TypeOK /\ Coherent /\ [Next]_vars => [DueTrade]_vars
  BY DueTradeNext
<1>3. [DueTrade]_vars =>
        [\A s \in Strategies : placed'[s] # placed[s] =>
          /\ ~rows[s].Deactivated
          /\ rows[s].NextTickAt <= tick
          /\ tick \in candles
          /\ IF rows[s].State = TryingToBuy
             THEN account'[s].cash = account[s].cash - rows[s].Budget
             ELSE account'[s].coin = account[s].coin - rows[s].Invested]_vars
  BY DEF DueTrade
<1> QED
  BY <1>1, <1>2, <1>3, PTL DEF Spec, OnlyDueStrategiesTrade

--------------------------------------------------------------------------------
(* The top-up of processTick. *)

\* The projection of a window that holds a candlestick up to the tick includes
\* the period of the tick's own minute (candlesticks.go:48-83).
LEMMA SeedsReach ==
    ASSUME TypeOK, tick \in candles, NEW s \in Strategies,
           SeedCandlesticks(s) # {}
    PROVE  \E b \in SeedCandlesticks(s) : b + TickSize[s] >= tick
<1> DEFINE size == TickSize[s]
           start == tick - HistoryTicks[s] * size
           b == CandlestickBucket(tick - 1, size)
<1>1. /\ size \in Nat \ {0} /\ HistoryTicks[s] \in Nat
      /\ tick \in 1..MaxTime /\ MaxTime \in Nat /\ tick - 1 \in Nat
      /\ candles \subseteq 1..MaxTime
  BY BotAssumption DEF TypeOK
<1>2. b \in Nat /\ b <= tick - 1 /\ tick - 1 < b + size /\ b % size = 0
  BY <1>1, BucketBounds
<1>3. start \in Int
  BY <1>1
<1>4. SeedCandlesticks(s) = Reproject(Stored(start, tick), size)
  BY DEF SeedCandlesticks, FindCandlesticks
<1>5. PICK e \in candles : start <= e - 1 /\ e <= tick
  BY <1>4 DEF Reproject, Stored
<1>6. tick \in Stored(start, tick)
  <2>1. start <= tick - 1
    BY <1>1, <1>3, <1>5
  <2> QED
    BY <2>1, <1>1 DEF Stored
<1> HIDE DEF start
<1>7. b \in Reproject(Stored(start, tick), size)
  BY <1>6 DEF Reproject
<1> HIDE DEF b
<1>8. b + size >= tick
  BY <1>1, <1>2
<1> QED
  BY <1>4, <1>7, <1>8

LEMMA SeedsReachTickNext ==
    TypeOK /\ Coherent /\ SeedsReachTick /\ [Next]_vars => SeedsReachTick'
<1> SUFFICES ASSUME TypeOK, Coherent, SeedsReachTick, [Next]_vars
             PROVE  SeedsReachTick'
  OBVIOUS
<1> USE DEF SeedsReachTick, ProcessingCalls, tables, exchange, memory, history
<1>1. CASE InitializeStrategies
  <2>1. tick \in candles
    BY <1>1 DEF InitializeStrategies, Coherent, TickStored, TickCalls
  <2>2. CASE pc' = "scan"
    <3>1. ASSUME NEW s \in todo'
          PROVE  /\ s \in Strategies
                 /\ sets'[s] = SeedCandlesticks(s)
                 /\ SeedCandlesticks(s) # {}
      BY <1>1, <2>2, <3>1 DEF InitializeStrategies, GiveUp
    <3>2. \A s \in todo' : \E b \in sets'[s] : b + TickSize[s] >= tick
      BY <2>1, <3>1, SeedsReach
    <3> QED
      BY <1>1, <3>2 DEF InitializeStrategies
  <2> QED
    BY <1>1, <2>2 DEF InitializeStrategies, GiveUp
<1>2. CASE pc' \in {"poll", "init", "sleep", "down"}
  BY <1>2
<1>3. CASE /\ pc \in ProcessingCalls \cup {"scan"}
           /\ UNCHANGED <<sets, tick>>
           /\ todo' \subseteq todo
  BY <1>3
<1>4. CASE Decide
  <2>1. \A s \in Strategies : sets[s] \subseteq sets'[s]
    BY <1>4 DEF Decide, TypeOK
  <2> QED
    BY <1>4, <2>1 DEF Decide, TypeOK
<1>5. CASE Step
  BY <1>1, <1>2, <1>3, <1>4, <1>5
  DEF Step, NothingNew, FindMostRecentCandlestick, SkipStrategy, BeginStrategy,
      FinishTick, Sleep, Retire, PlaceOrder, OrderTooSmall, GiveUp, AwaitFill,
      RecordOrder, BookTrade, DeactivateBelowMinimum, ScheduleNextTick
<1>6. CASE Failure
  BY <1>2, <1>6, FailureEndsTick
<1>7. CASE UNCHANGED <<pc, sets, tick, todo>>
  BY <1>7
<1> QED
  BY <1>2, <1>5, <1>6, <1>7 DEF Next, ImportCandlestick, Restart, vars

\* The last candlestick the indicators were seeded with never ends before the
\* tick, so the top-up of processTick (bot.go:148-162) is dead code.
THEOREM TopUpIsDead == Spec => []TopUpNeverRuns
<1>1. Init => SeedsReachTick
  BY DEF Init, SeedsReachTick, ProcessingCalls
<1>2. Spec => [](TypeOK /\ Coherent /\ SeedsReachTick)
  BY <1>1, TypeInit, TypeNext, CoherentInit, CoherentNext, SeedsReachTickNext,
     PTL DEF Spec
<1>3. ASSUME TypeOK, Coherent, SeedsReachTick, pc = "decide"
      PROVE  TopUp(self) = {}
  <2>1. PICK b \in sets[self] : b + TickSize[self] >= tick
    BY <1>3 DEF SeedsReachTick, ProcessingCalls, Coherent, SelfDue
  <2>2. /\ TickSize[self] \in Nat /\ tick \in Nat
        /\ \A a \in sets[self] : a \in Nat
    BY <1>3, BotAssumption DEF TypeOK
  <2>3. ASSUME NEW a \in sets[self], a + TickSize[self] < tick
        PROVE  ~(b <= a)
    BY <2>1, <2>2, <2>3
  <2> QED
    BY <2>1, <2>3 DEF TopUp
<1>4. TypeOK /\ Coherent /\ SeedsReachTick => TopUpNeverRuns
  BY <1>3 DEF TopUpNeverRuns
<1> QED
  BY <1>2, <1>4, PTL

--------------------------------------------------------------------------------
(* The books: what the rows say and what the exchange holds. *)

\* A strategy holds one side only.
OneSided ==
    \A s \in Strategies :
        IF rows[s].State = TryingToBuy THEN rows[s].Invested = 0
                                       ELSE rows[s].Budget = 0

\* What truncation may have left behind.
Slack(s) == 0..((Dust - 1) * booked[s])

\* The books of s are right, and will be when the order in flight is booked.
Balanced(s) ==
    /\ booked[s] <= placed[s]
    /\ InFlight(s) => booked[s] < placed[s]
    /\ placed[s] = booked[s] =>
          /\ account[s].cash - rows[s].Budget \in Slack(s)
          /\ account[s].coin - rows[s].Invested \in Slack(s)
    /\ InFlight(s) /\ placed[s] = booked[s] + 1 =>
          IF rows[s].State = TryingToBuy
          THEN account[s].cash \in Slack(s) /\ account[s].coin - fill \in Slack(s)
          ELSE account[s].coin \in Slack(s) /\ account[s].cash - fill \in Slack(s)

BooksBalance == OneSided /\ \A s \in Strategies : Balanced(s)

--------------------------------------------------------------------------------
(* The steps, by what they do to the books. *)

SameMoney(m, n) ==
    m.State = n.State /\ m.Budget = n.Budget /\ m.Invested = n.Invested

KeepsBooks ==
    /\ UNCHANGED <<account, placed, booked, fill>>
    /\ \A s \in Strategies :
          SameMoney(rows'[s], rows[s]) /\ (InFlight(s)' => InFlight(s))

TakesOrder ==
    /\ pc = "order" /\ ExchangeTakesOrder
    /\ UNCHANGED <<rows, booked, self>>

Books ==
    /\ pc = "book" /\ UpdateTradingStrategy(self, BookedModel)
    /\ booked' = [booked EXCEPT ![self] = @ + 1]
    /\ UNCHANGED <<account, placed, fill, self>>
    /\ pc' \notin {"fill", "record", "book"}

\* The model of the strategy being processed is its row.
LEMMA SelfCurrent ==
    ASSUME TypeOK, Coherent, pc \in ProcessingCalls
    PROVE  models[self] = rows[self] /\ self \in Strategies /\ rows[self] \in Row
BY DEF Coherent, ModelsCurrent, SelfDue, ProcessingCalls, TypeOK

\* Writing it back, but for its ticks and its activity, leaves the money alone.
LEMMA WrittenBack ==
    ASSUME TypeOK, Coherent, pc \in ProcessingCalls,
           \/ UNCHANGED rows
           \/ UpdateTradingStrategy(self, RetiredModel)
           \/ UpdateTradingStrategy(self, ScheduledModel)
    PROVE  \A s \in Strategies : SameMoney(rows'[s], rows[s])
<1>1. models[self] = rows[self] /\ rows[self] \in Row
  BY SelfCurrent
<1>2. SameMoney(RetiredModel, rows[self]) /\ SameMoney(ScheduledModel, rows[self])
  BY <1>1 DEF RetiredModel, ScheduledModel, SameMoney, Row
<1> QED
  BY <1>2 DEF UpdateTradingStrategy, TypeOK, SameMoney

LEMMA Kinds ==
    ASSUME TypeOK, Coherent, [Next]_vars
    PROVE  KeepsBooks \/ TakesOrder \/ Books
<1> USE DEF tables, exchange, memory, history, InFlight
<1>1. CASE UNCHANGED <<account, placed, booked, fill, rows>> /\
           (UNCHANGED <<pc, self>> \/ pc' \notin {"fill", "record", "book"} \/
            (UNCHANGED self /\ pc \in {"fill", "record", "book"}))
  BY <1>1 DEF KeepsBooks, SameMoney
<1>2. CASE PlaceOrder \/ PlaceOrderReplyLost
  BY <1>2 DEF PlaceOrder, PlaceOrderReplyLost, TakesOrder
<1>3. CASE BookTrade \/ BookTradeFails
  BY <1>1, <1>3 DEF BookTrade, BookTradeFails, GiveUp, Books
<1>4. CASE Retire \/ RetireFails \/ DeactivateBelowMinimum \/ ScheduleNextTick
           \/ DeactivateBelowMinimumFails \/ ScheduleNextTickFails
  <2>1. /\ pc \in ProcessingCalls /\ pc' \notin {"fill", "record", "book"}
        /\ \/ UNCHANGED rows
           \/ UpdateTradingStrategy(self, RetiredModel)
           \/ UpdateTradingStrategy(self, ScheduledModel)
        /\ UNCHANGED <<account, placed, booked, fill>>
    BY <1>4 DEF Retire, RetireFails, DeactivateBelowMinimum, ScheduleNextTick,
       DeactivateBelowMinimumFails, ScheduleNextTickFails, LostOrCommitted, GiveUp,
       ProcessingCalls
  <2> QED
    BY <2>1, WrittenBack DEF KeepsBooks
<1>5. CASE Step
  BY <1>1, <1>2, <1>3, <1>4, <1>5
  DEF Step, NothingNew, FindMostRecentCandlestick, InitializeStrategies,
      SkipStrategy, BeginStrategy, FinishTick, Sleep, Decide, OrderTooSmall,
      AwaitFill, RecordOrder, GiveUp
<1>6. CASE Failure
  BY <1>1, <1>2, <1>3, <1>4, <1>6
  DEF Failure, ReadFails, PlaceOrderRejected, AwaitFillFails, RecordOrderFails,
      BuyPanics, Crash, Die, GiveUp
<1>7. CASE UNCHANGED vars
  BY <1>1, <1>7 DEF vars
<1> QED
  BY <1>1, <1>5, <1>6, <1>7 DEF Next, ImportCandlestick, Restart

--------------------------------------------------------------------------------
(* The books balance. *)

\* One more truncation adds less than one unit of precision.
LEMMA SlackGrows ==
    ASSUME NEW n \in Nat, NEW x \in 0..((Dust - 1) * n), NEW t \in 0..(Dust - 1)
    PROVE  /\ x \in 0..((Dust - 1) * (n + 1))
           /\ x + t \in 0..((Dust - 1) * (n + 1))
<1>1. Dust - 1 \in Nat
  BY BotAssumption
<1>2. (Dust - 1) * n \in Nat /\ (Dust - 1) * (n + 1) = (Dust - 1) * n + (Dust - 1)
  BY <1>1
<1> QED
  BY <1>1, <1>2

LEMMA BooksInit == Init => BooksBalance
<1> SUFFICES ASSUME Init PROVE BooksBalance
  OBVIOUS
<1>1. PICK opening \in [Strategies -> OpeningPositions] :
        /\ rows = [s \in Strategies |-> CreatedRow(s, opening[s])]
        /\ account = [s \in Strategies |->
              [cash |-> CreatedRow(s, opening[s]).Budget, coin |-> opening[s]]]
  BY DEF Init
<1>2. ASSUME NEW s \in Strategies
      PROVE  /\ rows[s].State = TryingToBuy => rows[s].Invested = 0
             /\ rows[s].State # TryingToBuy => rows[s].Budget = 0
             /\ account[s].cash - rows[s].Budget = 0
             /\ account[s].coin - rows[s].Invested = 0
  <2>1. opening[s] \in Nat /\ InitialBudget[s] \in Nat
    BY BotAssumption
  <2> QED
    BY <1>1, <2>1 DEF CreatedRow, TryingToBuy, TryingToSell
<1>3. \A s \in Strategies :
         booked[s] = 0 /\ placed[s] = 0 /\ ~InFlight(s) /\ 0 \in Slack(s)
  <2>1. (Dust - 1) * 0 = 0
    BY BotAssumption
  <2> QED
    BY <2>1 DEF Init, InFlight, Slack
<1> QED
  BY <1>2, <1>3 DEF BooksBalance, OneSided, Balanced

LEMMA BooksNext ==
    ASSUME TypeOK, Coherent, BooksBalance, [Next]_vars
    PROVE  BooksBalance'
<1>1. CASE KeepsBooks
  <2>1. ASSUME NEW s \in Strategies
        PROVE  Balanced(s)' /\ SameMoney(rows'[s], rows[s])
    <3>1. Balanced(s) /\ SameMoney(rows'[s], rows[s]) /\ Slack(s)' = Slack(s)
      BY <1>1 DEF BooksBalance, KeepsBooks, Slack
    <3> QED
      BY <1>1, <3>1 DEF Balanced, KeepsBooks, SameMoney
  <2> QED
    BY <2>1 DEF BooksBalance, OneSided, SameMoney
<1>2. CASE TakesOrder
  <2>1. models[self] = rows[self] /\ self \in Strategies /\ rows[self] \in Row
    BY <1>2, SelfCurrent DEF TakesOrder, ProcessingCalls
  <2>2. OneSided'
    BY <1>2 DEF TakesOrder, BooksBalance, OneSided
  <2>3. ASSUME NEW s \in Strategies, s # self PROVE Balanced(s)'
    <3>1. account'[s] = account[s] /\ placed'[s] = placed[s]
      BY <1>2, <2>3 DEF TakesOrder, ExchangeTakesOrder, TypeOK
    <3>2. ~InFlight(s)' /\ Slack(s)' = Slack(s)
      BY <1>2, <2>3 DEF TakesOrder, InFlight, Slack
    <3>3. Balanced(s)
      BY DEF BooksBalance
    <3> QED
      BY <1>2, <3>1, <3>2, <3>3 DEF Balanced, TakesOrder
  <2>4. Balanced(self)'
    <3> DEFINE s == self
    <3>1. s \in Strategies /\ s' = s /\ booked'[s] = booked[s] /\ rows'[s] = rows[s]
          /\ Slack(s)' = Slack(s) /\ placed'[s] = placed[s] + 1
      BY <1>2, <2>1 DEF TakesOrder, ExchangeTakesOrder, TypeOK, Slack
    <3>2. booked[s] \in Nat /\ placed[s] \in Nat /\ account[s].cash \in Int
          /\ account[s].coin \in Int /\ rows[s].Budget \in Nat
          /\ rows[s].Invested \in Nat
      BY <2>1 DEF TypeOK, Row
    <3>3. /\ booked[s] <= placed[s]
          /\ placed[s] = booked[s] =>
                /\ account[s].cash - rows[s].Budget \in Slack(s)
                /\ account[s].coin - rows[s].Invested \in Slack(s)
          /\ rows[s].State = TryingToBuy => rows[s].Invested = 0
          /\ rows[s].State # TryingToBuy => rows[s].Budget = 0
      BY <3>1 DEF BooksBalance, OneSided, Balanced
    <3>4. fill' \in Nat
      BY <1>2, ExchangeTakesOrderType DEF TakesOrder
    <3>5. IF rows[s].State = TryingToBuy
          THEN /\ account'[s].cash = account[s].cash - rows[s].Budget
               /\ account'[s].coin = account[s].coin + fill'
          ELSE /\ account'[s].cash = account[s].cash + fill'
               /\ account'[s].coin = account[s].coin - rows[s].Invested
      <4>1. CASE rows[s].State = TryingToBuy
        BY <1>2, <2>1, <4>1 DEF TakesOrder, ExchangeTakesOrder, TypeOK, Cost,
           TryingToBuy, TryingToSell
      <4>2. CASE rows[s].State # TryingToBuy
        BY <1>2, <2>1, <4>2 DEF TakesOrder, ExchangeTakesOrder, TypeOK, Cost,
           TryingToBuy, TryingToSell
      <4> QED
        BY <4>1, <4>2
    <3> HIDE DEF s
    <3>6. placed[s] = booked[s] =>
            IF rows[s].State = TryingToBuy
            THEN account'[s].cash \in Slack(s) /\ account'[s].coin - fill' \in Slack(s)
            ELSE account'[s].coin \in Slack(s) /\ account'[s].cash - fill' \in Slack(s)
      BY <3>2, <3>3, <3>4, <3>5
    <3> QED
      BY <3>1, <3>2, <3>3, <3>6 DEF Balanced, s
  <2> QED
    BY <1>2, <2>2, <2>3, <2>4 DEF BooksBalance, TakesOrder
<1>3. CASE Books
  <2>1. models[self] = rows[self] /\ self \in Strategies /\ rows[self] \in Row
    BY <1>3, SelfCurrent DEF Books, ProcessingCalls
  <2>2. rows' = [rows EXCEPT ![self] = BookedModel] /\ BookedModel \in Row
    BY <1>3, BookedModelType DEF Books, UpdateTradingStrategy
  <2>3. IF rows[self].State = TryingToBuy
        THEN /\ BookedModel.State = TryingToSell /\ BookedModel.Budget = 0
             /\ BookedModel.Invested = TruncateFloat(fill)
        ELSE /\ BookedModel.State = TryingToBuy /\ BookedModel.Invested = 0
             /\ BookedModel.Budget = TruncateFloat(fill)
    BY <2>1 DEF BookedModel, BoughtModel, SoldModel, Row
  <2>4. OneSided'
    BY <2>2, <2>3 DEF BooksBalance, OneSided, TypeOK, TryingToBuy, TryingToSell
  <2>5. ASSUME NEW s \in Strategies PROVE ~InFlight(s)'
    BY <1>3 DEF Books, InFlight
  <2>6. ASSUME NEW s \in Strategies, s # self PROVE Balanced(s)'
    <3>1. rows'[s] = rows[s] /\ booked'[s] = booked[s] /\ Slack(s)' = Slack(s)
      BY <1>3, <2>2, <2>6 DEF Books, TypeOK, Slack
    <3>2. Balanced(s)
      BY DEF BooksBalance
    <3> QED
      BY <1>3, <2>5, <3>1, <3>2 DEF Balanced, Books
  <2>7. Balanced(self)'
    <3>1. booked[self] < placed[self] /\ booked'[self] = booked[self] + 1
          /\ booked[self] \in Nat /\ placed[self] \in Nat
      BY <1>3, <2>1 DEF Books, BooksBalance, Balanced, InFlight, TypeOK
    <3>2. ASSUME placed[self] = booked[self] + 1
          PROVE  /\ account[self].cash - BookedModel.Budget
                      \in 0..((Dust - 1) * (booked[self] + 1))
                 /\ account[self].coin - BookedModel.Invested
                      \in 0..((Dust - 1) * (booked[self] + 1))
      <4> DEFINE t == fill - TruncateFloat(fill)
                 n == booked[self]
      <4>1. t \in 0..(Dust - 1) /\ 0 \in 0..(Dust - 1) /\ fill \in Nat
            /\ TruncateFloat(fill) \in Nat
        <5>1. fill \in Nat /\ Dust \in Nat /\ Dust >= 1
          BY BotAssumption DEF TypeOK
        <5>2. TruncateFloat(fill) \in Nat /\ fill - TruncateFloat(fill) \in 0..(Dust - 1)
          BY <5>1, TruncateBounds
        <5> QED
          BY <5>1, <5>2
      <4>2. account[self].cash \in Int /\ account[self].coin \in Int
        BY <2>1 DEF TypeOK
      <4>3. IF rows[self].State = TryingToBuy
            THEN /\ account[self].cash \in 0..((Dust - 1) * n)
                 /\ account[self].coin - fill \in 0..((Dust - 1) * n)
            ELSE /\ account[self].coin \in 0..((Dust - 1) * n)
                 /\ account[self].cash - fill \in 0..((Dust - 1) * n)
        BY <1>3, <2>1, <3>2 DEF Books, BooksBalance, Balanced, InFlight, Slack
      <4>4. n \in Nat
        BY <3>1
      <4> HIDE DEF n
      <4>5. CASE rows[self].State = TryingToBuy
        <5>1. account[self].cash \in 0..((Dust - 1) * (n + 1))
          BY <4>1, <4>3, <4>4, <4>5, SlackGrows
        <5>2. (account[self].coin - fill) + t \in 0..((Dust - 1) * (n + 1))
          BY <4>1, <4>3, <4>4, <4>5, SlackGrows
        <5>3. (account[self].coin - fill) + t = account[self].coin - TruncateFloat(fill)
              /\ account[self].cash - 0 = account[self].cash
          BY <4>1, <4>2
        <5> QED
          BY <2>3, <4>5, <5>1, <5>2, <5>3 DEF n
      <4>6. CASE rows[self].State # TryingToBuy
        <5>1. account[self].coin \in 0..((Dust - 1) * (n + 1))
          BY <4>1, <4>3, <4>4, <4>6, SlackGrows
        <5>2. (account[self].cash - fill) + t \in 0..((Dust - 1) * (n + 1))
          BY <4>1, <4>3, <4>4, <4>6, SlackGrows
        <5>3. (account[self].cash - fill) + t = account[self].cash - TruncateFloat(fill)
              /\ account[self].coin - 0 = account[self].coin
          BY <4>1, <4>2
        <5> QED
          BY <2>3, <4>6, <5>1, <5>2, <5>3 DEF n
      <4> QED
        BY <4>5, <4>6
    <3>3. rows'[self] = BookedModel /\ self' = self /\ placed' = placed
          /\ account' = account
      BY <1>3, <2>1, <2>2 DEF Books, TypeOK
    <3>4. Slack(self)' = 0..((Dust - 1) * (booked[self] + 1))
      BY <3>1, <3>3 DEF Slack
    <3> QED
      BY <2>1, <2>5, <3>1, <3>2, <3>3, <3>4 DEF Balanced
  <2> QED
    BY <1>3, <2>4, <2>6, <2>7 DEF BooksBalance, Books
<1> QED
  BY <1>1, <1>2, <1>3, Kinds

\* Whatever fails, as long as the result of every order reached its row, Budget
\* and Invested are what the exchange holds, less at most one unit of truncation
\* per trade and never more: the whole of one side is always spent, and what is
\* written back is what came of it (strategy.go:235-242, 294-301).
THEOREM BooksMatch == Spec => []BooksMatchExchange
<1>1. Spec => [](TypeOK /\ Coherent /\ BooksBalance)
  BY TypeInit, TypeNext, CoherentInit, CoherentNext, BooksInit, BooksNext,
     PTL DEF Spec
<1>2. BooksBalance => BooksMatchExchange
  BY DEF BooksBalance, Balanced, BooksMatchExchange, Slack
<1> QED
  BY <1>1, <1>2, PTL

--------------------------------------------------------------------------------
(* The floor of the budget. *)

\* Nothing fails between TrySell's two writes.
FloorReached == FaultKinds \cap {"book", "floor", "crash"} = {}

\* Only the strategy about to be retired may be active with a budget below the
\* minimum.
AboveMinimum ==
    /\ \A s \in Strategies :
          /\ rows[s].State = TryingToBuy
          /\ ~rows[s].Deactivated
          /\ BelowMinimum(s, rows[s].Budget)
          => self = s /\ pc = "floor"
    /\ pc = "floor" => /\ rows[self].State = TryingToBuy
                       /\ BelowMinimum(self, rows[self].Budget)

LEMMA AboveMinimumInit == Init => AboveMinimum
<1> SUFFICES ASSUME Init PROVE AboveMinimum
  OBVIOUS
<1>1. ASSUME NEW s \in Strategies, rows[s].State = TryingToBuy
      PROVE  ~BelowMinimum(s, rows[s].Budget)
  <2>1. InitialBudget[s] \in Nat \ {0}
    BY BotAssumption
  <2>2. rows[s].Budget = InitialBudget[s]
    BY <1>1 DEF Init, CreatedRow, TryingToBuy, TryingToSell
  <2> QED
    BY <2>1, <2>2 DEF BelowMinimum
<1> QED
  BY <1>1 DEF AboveMinimum, Init

LEMMA AboveMinimumNext ==
    ASSUME FloorReached, TypeOK, Coherent, AboveMinimum, [Next]_vars
    PROVE  AboveMinimum'
<1> USE DEF tables, exchange, memory, history
\* Nothing is written, and the call to be made is no matter of the floor.
<1>1. CASE /\ UNCHANGED rows
           /\ UNCHANGED <<pc, self>> \/ (pc # "floor" /\ pc' # "floor")
  BY <1>1 DEF AboveMinimum, BelowMinimum
\* The row of self is written, as RetiredModel or ScheduledModel.
<1>2. CASE /\ pc \in ProcessingCalls \ {"floor"} /\ pc' # "floor"
           /\ \/ UNCHANGED rows
              \/ UpdateTradingStrategy(self, RetiredModel)
              \/ UpdateTradingStrategy(self, ScheduledModel)
  <2>1. \A s \in Strategies : SameMoney(rows'[s], rows[s])
    BY <1>2, WrittenBack
  <2>2. \A s \in Strategies : rows[s].Deactivated => rows'[s].Deactivated
    <3>1. models[self] = rows[self] /\ rows[self] \in Row /\ self \in Strategies
      BY <1>2, SelfCurrent
    <3>2. RetiredModel.Deactivated /\ ScheduledModel.Deactivated = rows[self].Deactivated
      BY <3>1 DEF RetiredModel, ScheduledModel, Row
    <3> QED
      BY <1>2, <3>1, <3>2 DEF UpdateTradingStrategy, TypeOK
  <2>3. \A s \in Strategies :
            BelowMinimum(s, rows[s].Budget)' = BelowMinimum(s, rows[s].Budget)
    BY <2>1 DEF BelowMinimum, SameMoney
  <2> QED
    BY <1>2, <2>1, <2>2, <2>3 DEF AboveMinimum, SameMoney
<1>3. CASE BookTrade
  <2>1. models[self] = rows[self] /\ self \in Strategies /\ rows[self] \in Row
    BY <1>3, SelfCurrent DEF BookTrade, ProcessingCalls
  <2>2. rows' = [rows EXCEPT ![self] = BookedModel] /\ self' = self /\ pc # "floor"
    BY <1>3 DEF BookTrade, UpdateTradingStrategy
  <2>3. /\ rows[self].State = TryingToBuy => BookedModel.State = TryingToSell
        /\ rows[self].State = TryingToSell => BookedModel.State = TryingToBuy
        /\ rows[self].State \in {TryingToBuy, TryingToSell}
        /\ TryingToBuy # TryingToSell
    BY <2>1 DEF BookedModel, BoughtModel, SoldModel, Row, TryingToBuy, TryingToSell
  <2>4. pc' = "floor" <=> /\ BookedModel.State = TryingToBuy
                          /\ BelowMinimum(self, BookedModel.Budget)
    BY <1>3, <2>1, <2>3 DEF BookTrade
  <2> QED
    <3>1. rows'[self] = BookedModel
          /\ \A s \in Strategies \ {self} : rows'[s] = rows[s]
      BY <2>1, <2>2 DEF TypeOK
    <3>2. ASSUME NEW s \in Strategies
          PROVE  /\ BelowMinimum(s, rows[s].Budget)'
                        <=> BelowMinimum(s, rows'[s].Budget)
                 /\ BelowMinimum(self, rows[self].Budget)'
                        <=> BelowMinimum(self, BookedModel.Budget)
      BY <2>2, <3>1 DEF BelowMinimum
    <3> QED
      BY <2>1, <2>2, <2>4, <3>1, <3>2 DEF AboveMinimum
<1>4. CASE DeactivateBelowMinimum
  <2>1. /\ rows' = [rows EXCEPT ![self] = RetiredModel] /\ RetiredModel.Deactivated
        /\ pc' # "floor"
    BY <1>4, SelfCurrent DEF DeactivateBelowMinimum, UpdateTradingStrategy,
       RetiredModel, ProcessingCalls, Row
  <2> QED
    BY <2>1 DEF AboveMinimum, BelowMinimum, TypeOK
<1>5. CASE Step
  BY <1>1, <1>2, <1>3, <1>4, <1>5
  DEF Step, NothingNew, FindMostRecentCandlestick, InitializeStrategies,
      SkipStrategy, BeginStrategy, FinishTick, Sleep, Decide, OrderTooSmall,
      AwaitFill, RecordOrder, GiveUp, Retire, PlaceOrder, ScheduleNextTick,
      ProcessingCalls
<1>6. CASE Failure
  BY <1>1, <1>2, <1>6
  DEF Failure, ReadFails, PlaceOrderRejected, AwaitFillFails, RecordOrderFails,
      BuyPanics, Crash, Die, GiveUp, RetireFails, PlaceOrderReplyLost,
      BookTradeFails, DeactivateBelowMinimumFails, ScheduleNextTickFails,
      LostOrCommitted, Fault, FloorReached, ProcessingCalls
<1>7. CASE UNCHANGED vars
  BY <1>1, <1>7 DEF vars
<1> QED
  BY <1>1, <1>5, <1>6, <1>7 DEF Next, ImportCandlestick, Restart

\* What NoBuyBelowMinimum says of a step.
BuysAboveMinimum ==
    \A s \in Strategies :
        placed'[s] # placed[s] /\ rows[s].State = TryingToBuy =>
            10 * rows[s].Budget >= 7 * InitialBudget[s]

LEMMA BuysAboveMinimumNext ==
    ASSUME TypeOK, Coherent, AboveMinimum, [Next]_vars
    PROVE  BuysAboveMinimum
<1>1. CASE UNCHANGED placed
  BY <1>1 DEF BuysAboveMinimum
<1>2. CASE TakesOrder
  <2>1. pc = "order" /\ self \in Strategies /\ ~rows[self].Deactivated
    BY <1>2 DEF TakesOrder, Coherent, SelfActive, TypeOK
  <2>2. \A s \in Strategies : placed'[s] # placed[s] => s = self
    BY <1>2 DEF TakesOrder, ExchangeTakesOrder, TypeOK
  <2>3. rows[self].Budget \in Nat /\ InitialBudget[self] \in Nat
    BY <2>1, BotAssumption DEF TypeOK, Row
  <2>4. rows[self].State = TryingToBuy =>
            10 * rows[self].Budget >= 7 * InitialBudget[self]
    BY <2>1, <2>3 DEF AboveMinimum, BelowMinimum
  <2> QED
    BY <2>2, <2>4 DEF BuysAboveMinimum
<1> QED
  BY <1>1, <1>2, Kinds DEF KeepsBooks, Books

\* Unless the process or a write of the strategy's row fails between the sale and
\* the second write of TrySell, no strategy buys with a budget below .7 of its
\* initial one, whatever the orders before it made of the budget
\* (strategy.go:49-51, 325-343).
THEOREM BudgetFloor == ASSUME FloorReached PROVE Spec => NoBuyBelowMinimum
<1>1. AboveMinimum /\ TypeOK /\ Coherent /\ [Next]_vars => AboveMinimum'
  BY AboveMinimumNext
<1>2. Spec => [](TypeOK /\ Coherent /\ AboveMinimum)
  BY <1>1, TypeInit, TypeNext, CoherentInit, CoherentNext, AboveMinimumInit,
     PTL DEF Spec
<1>3. TypeOK /\ Coherent /\ AboveMinimum /\ [Next]_vars => [BuysAboveMinimum]_vars
  BY BuysAboveMinimumNext
<1>4. Spec => [][BuysAboveMinimum]_vars
  BY <1>2, <1>3, PTL DEF Spec
<1> QED
  BY <1>4 DEF NoBuyBelowMinimum, BuysAboveMinimum

--------------------------------------------------------------------------------
(* The promise of TradeLedger. *)

\* Once the exchange has taken an order nothing fails before it is booked.
NoneLost == FaultKinds \subseteq {"read", "reject", "schedule", "retire"}

\* What the ledger sees of s.
SameMirror(s) ==
    /\ Position(s)' = Position(s)
    /\ AmountHeld(s)' = AmountHeld(s)
    /\ HasRetired(s)' = HasRetired(s)

LEMMA Stutter ==
    ASSUME \A s \in Strategies : SameMirror(s) PROVE UNCHANGED Ledger!vars
BY DEF SameMirror, Ledger!vars

LEMMA LedgerInit == Init => Ledger!Init
<1> SUFFICES ASSUME Init PROVE Ledger!Init
  OBVIOUS
<1>1. PICK opening \in [Strategies -> OpeningPositions] :
        rows = [s \in Strategies |-> CreatedRow(s, opening[s])]
  BY DEF Init
<1>2. ASSUME NEW s \in Strategies
      PROVE  /\ Position(s) = IF opening[s] > 0 THEN TryingToSell ELSE TryingToBuy
             /\ AmountHeld(s) = IF opening[s] > 0 THEN opening[s] ELSE InitialBudget[s]
             /\ HasRetired(s) = FALSE
  <2>1. InitialBudget[s] \in Nat \ {0} /\ opening[s] \in Nat
    BY BotAssumption
  <2>2. ~InFlight(s) /\ rows[s] = CreatedRow(s, opening[s])
    BY <1>1 DEF InFlight, Init
  <2>3. ~BelowMinimum(s, InitialBudget[s])
    BY <2>1 DEF BelowMinimum
  <2> QED
    BY <2>1, <2>2, <2>3 DEF Position, AmountHeld, HasRetired, Cost, CreatedRow,
       TryingToBuy, TryingToSell
<1> QED
  BY <1>2 DEF Ledger!Init, TryingToBuy, TryingToSell

\* A row whose money is as before, and no order in flight before or after.
LEMMA MirrorOfRow ==
    ASSUME NEW s \in Strategies, ~InFlight(s), ~InFlight(s)',
           SameMoney(rows'[s], rows[s])
    PROVE  /\ Position(s)' = Position(s)
           /\ AmountHeld(s)' = AmountHeld(s)
           /\ (rows'[s].Deactivated <=> rows[s].Deactivated) => SameMirror(s)
<1>1. Position(s)' = Position(s) /\ AmountHeld(s)' = AmountHeld(s)
  BY DEF Position, AmountHeld, SameMoney, Cost
<1> QED
  BY <1>1 DEF SameMirror, HasRetired, BelowMinimum

LEMMA LedgerTrade ==
    ASSUME TypeOK, Coherent, AboveMinimum, PlaceOrder
    PROVE  Ledger!Buy(self) \/ Ledger!Sell(self)
<1> DEFINE holding == [s \in Strategies |->
                          IF Position(s) = TryingToBuy THEN "cash" ELSE "coin"]
           amount == [s \in Strategies |-> AmountHeld(s)]
           retired == [s \in Strategies |-> HasRetired(s)]
<1>1. /\ models[self] = rows[self] /\ self \in Strategies /\ rows[self] \in Row
      /\ pc = "order" /\ pc' = "fill" /\ self' = self /\ rows' = rows
      /\ ~rows[self].Deactivated
  BY SelfCurrent DEF PlaceOrder, ProcessingCalls, tables, Coherent, SelfActive
<1>2. ASSUME NEW s \in Strategies, s # self PROVE SameMirror(s)
  <2>1. ~InFlight(s) /\ ~InFlight(s)' /\ SameMoney(rows'[s], rows[s])
    BY <1>1, <1>2 DEF InFlight, SameMoney
  <2> QED
    BY <1>1, <2>1, MirrorOfRow
<1>3. /\ Position(self) = rows[self].State /\ AmountHeld(self) = Cost(rows[self])
      /\ HasRetired(self) = FALSE
  <2>1. ~InFlight(self)
    BY <1>1 DEF InFlight
  <2>2. rows[self].State = TryingToBuy =>
            ~BelowMinimum(self, rows[self].Budget) /\ Cost(rows[self]) = rows[self].Budget
    BY <1>1 DEF AboveMinimum, Cost
  <2> QED
    BY <1>1, <2>1, <2>2 DEF Position, AmountHeld, HasRetired
<1>4. /\ Position(self)' = Swapped(rows[self].State)
      /\ AmountHeld(self)' = TruncateFloat(fill')
      /\ HasRetired(self)' = (/\ Swapped(rows[self].State) = TryingToBuy
                              /\ 10 * TruncateFloat(fill') < 7 * InitialBudget[self])
  <2>1. InFlight(self)'
    BY <1>1 DEF InFlight
  <2>2. Position(self)' = Swapped(rows[self].State)
        /\ AmountHeld(self)' = TruncateFloat(fill')
    BY <1>1, <2>1 DEF Position, AmountHeld, Swapped, TruncateFloat
  <2> QED
    BY <1>1, <2>2 DEF HasRetired, BelowMinimum
<1>5. Cost(rows[self]) >= MinOrder
  BY <1>1 DEF PlaceOrder, ExchangeTakesOrder
<1>6. /\ amount' = [amount EXCEPT ![self] = TruncateFloat(fill')]
      /\ ~retired[self] /\ amount[self] >= MinOrder
  BY <1>1, <1>2, <1>3, <1>4, <1>5 DEF SameMirror
<1>7. CASE rows[self].State = TryingToBuy
  <2>1. fill' \in BuyFills
    BY <1>1, <1>7 DEF PlaceOrder, ExchangeTakesOrder, TryingToBuy, TryingToSell
  <2>2. holding' = [holding EXCEPT ![self] = "coin"] /\ holding[self] # "coin"
    BY <1>1, <1>2, <1>3, <1>4, <1>7
    DEF SameMirror, Swapped, TryingToBuy, TryingToSell
  <2>3. retired' = retired
    BY <1>1, <1>2, <1>3, <1>4, <1>7
    DEF SameMirror, Swapped, TryingToBuy, TryingToSell
  <2>4. Ledger!Buy(self)
    BY <1>6, <2>1, <2>2, <2>3 DEF Ledger!Buy, Ledger!Trade, Ledger!Kept, TruncateFloat
  <2> QED
    BY <2>4
<1>8. CASE rows[self].State = TryingToSell
  <2>1. fill' \in SellFills
    BY <1>1, <1>8 DEF PlaceOrder, ExchangeTakesOrder, TryingToBuy, TryingToSell
  <2>2. holding' = [holding EXCEPT ![self] = "cash"] /\ holding[self] # "cash"
    BY <1>1, <1>2, <1>3, <1>4, <1>8
    DEF SameMirror, Swapped, TryingToBuy, TryingToSell
  <2>3. retired' = [retired EXCEPT ![self] = HasRetired(self)']
    BY <1>1, <1>2 DEF SameMirror
  <2>4. amount'[self] = TruncateFloat(fill')
    BY <1>1, <1>4
  <2>5. HasRetired(self)' = (10 * amount'[self] < 7 * InitialBudget[self])
    <3>1. Swapped(rows[self].State) = TryingToBuy
      BY <1>8 DEF Swapped, TryingToBuy, TryingToSell
    <3>2. HasRetired(self)' = (10 * TruncateFloat(fill') < 7 * InitialBudget[self])
      <4> DEFINE low == 10 * TruncateFloat(fill') < 7 * InitialBudget[self]
      <4>1. low \in BOOLEAN
        <5>1. fill' \in Nat /\ InitialBudget[self] \in Nat
          BY <1>1, <2>1, BotAssumption
        <5>2. TruncateFloat(fill') \in Nat
          BY <5>1, TruncateBounds
        <5> QED
          BY <5>1, <5>2
      <4>2. HasRetired(self)' = (Swapped(rows[self].State) = TryingToBuy /\ low)
        BY <1>4
      <4> HIDE DEF low
      <4>3. HasRetired(self)' = low
        BY <3>1, <4>1, <4>2
      <4> QED
        BY <4>3 DEF low
    <3> HIDE DEF amount
    <3> QED
      BY <2>4, <3>2
  <2>6. retired' = [retired EXCEPT
                       ![self] = (10 * amount'[self] < 7 * InitialBudget[self])]
    BY <2>3, <2>5
  <2>7. Ledger!Sell(self)
    BY <1>6, <2>1, <2>2, <2>4, <2>6
    DEF Ledger!Sell, Ledger!Trade, Ledger!Kept, TruncateFloat
  <2> QED
    BY <2>7
<1> QED
  BY <1>1, <1>7, <1>8 DEF Row

LEMMA LedgerRetire ==
    ASSUME TypeOK, Coherent, AboveMinimum, pc = "retire", pc' = "scan" \/ pc' = "sleep",
           UpdateTradingStrategy(self, RetiredModel), UNCHANGED self
    PROVE  Ledger!Retire(self)
<1>1. /\ models[self] = rows[self] /\ self \in Strategies /\ rows[self] \in Row
      /\ ~rows[self].Deactivated
  BY SelfCurrent DEF ProcessingCalls, Coherent, SelfActive
<1>2. /\ rows' = [rows EXCEPT ![self] = RetiredModel] /\ RetiredModel.Deactivated
      /\ SameMoney(RetiredModel, rows[self])
  BY <1>1 DEF UpdateTradingStrategy, RetiredModel, Row, SameMoney
<1>3. ASSUME NEW s \in Strategies
      PROVE  /\ Position(s)' = Position(s) /\ AmountHeld(s)' = AmountHeld(s)
             /\ s # self => HasRetired(s)' = HasRetired(s)
  <2>1. ~InFlight(s) /\ ~InFlight(s)' /\ SameMoney(rows'[s], rows[s])
        /\ (s # self => rows'[s] = rows[s])
    BY <1>2 DEF InFlight, SameMoney, TypeOK
  <2> QED
    BY <2>1, MirrorOfRow DEF SameMirror
<1>4. HasRetired(self)' = TRUE
  <2>1. rows'[self].Deactivated = TRUE
    BY <1>1, <1>2 DEF RetiredModel, Row, TypeOK
  <2> QED
    BY <2>1 DEF HasRetired
<1>5. HasRetired(self) = FALSE
  <2>1. ~InFlight(self)
    BY DEF InFlight
  <2>2. rows[self].State = TryingToBuy =>
            ~BelowMinimum(self, rows[self].Budget) /\ Cost(rows[self]) = rows[self].Budget
    BY <1>1 DEF AboveMinimum, Cost
  <2> QED
    BY <1>1, <2>1, <2>2 DEF Position, AmountHeld, HasRetired
<1> QED
  BY <1>1, <1>3, <1>4, <1>5 DEF Ledger!Retire

LEMMA LedgerNext ==
    ASSUME NoneLost, TypeOK, Coherent, AboveMinimum, [Next]_vars
    PROVE  [Ledger!Next]_(Ledger!vars)
<1> USE DEF tables, exchange, memory, history
\* Nothing the ledger sees is written.
<1>1. CASE /\ UNCHANGED <<rows, fill>>
           /\ \/ UNCHANGED <<pc, self>>
              \/ pc \notin {"fill", "record", "book"} /\
                 pc' \notin {"fill", "record", "book"}
              \/ pc \in {"fill", "record", "book"} /\
                 pc' \in {"fill", "record", "book"} /\ UNCHANGED self
  <2>1. ASSUME NEW s \in Strategies PROVE SameMirror(s)
    <3>1. InFlight(s)' <=> InFlight(s)
      BY <1>1 DEF InFlight
    <3>2. Position(s)' = Position(s) /\ AmountHeld(s)' = AmountHeld(s)
      BY <1>1, <3>1 DEF Position, AmountHeld, TruncateFloat, Cost, Swapped
    <3> QED
      BY <1>1, <3>2 DEF SameMirror, HasRetired, BelowMinimum
  <2> QED
    BY <2>1, Stutter
<1>2. CASE PlaceOrder
  <2>1. Ledger!Buy(self) \/ Ledger!Sell(self)
    BY <1>2, LedgerTrade
  <2> QED
    BY <2>1 DEF Ledger!Next, TypeOK
<1>3. CASE BookTrade
  <2>1. /\ models[self] = rows[self] /\ self \in Strategies /\ rows[self] \in Row
        /\ pc = "book" /\ pc' \notin {"fill", "record", "book"} /\ self' = self
        /\ rows' = [rows EXCEPT ![self] = BookedModel] /\ fill' = fill
    BY <1>3, SelfCurrent DEF BookTrade, ProcessingCalls, UpdateTradingStrategy
  <2>2. ASSUME NEW s \in Strategies, s # self PROVE SameMirror(s)
    <3>1. ~InFlight(s) /\ ~InFlight(s)' /\ rows'[s] = rows[s]
      BY <2>1, <2>2 DEF InFlight, TypeOK
    <3> QED
      BY <3>1, MirrorOfRow DEF SameMoney
  <2>3. SameMirror(self)
    <3>1. InFlight(self) /\ ~InFlight(self)' /\ rows'[self] = BookedModel
      BY <2>1 DEF InFlight, TypeOK
    <3>2. /\ BookedModel.State = Swapped(rows[self].State)
          /\ Cost(BookedModel) = TruncateFloat(fill)
          /\ BookedModel.Deactivated = rows[self].Deactivated
      BY <2>1 DEF BookedModel, BoughtModel, SoldModel, Swapped, Cost, Row,
         TryingToBuy, TryingToSell
    <3>3. Position(self)' = Position(self) /\ AmountHeld(self)' = AmountHeld(self)
      BY <2>1, <3>1, <3>2 DEF Position, AmountHeld, Cost
    <3> QED
      BY <2>1, <3>1, <3>2, <3>3 DEF SameMirror, HasRetired, BelowMinimum
  <2> QED
    BY <2>2, <2>3, Stutter
<1>4. CASE DeactivateBelowMinimum
  <2>1. /\ models[self] = rows[self] /\ self \in Strategies /\ rows[self] \in Row
        /\ pc = "floor" /\ pc' = "schedule" /\ self' = self
        /\ rows' = [rows EXCEPT ![self] = RetiredModel]
    BY <1>4, SelfCurrent
    DEF DeactivateBelowMinimum, ProcessingCalls, UpdateTradingStrategy
  <2>2. /\ RetiredModel.Deactivated = TRUE
        /\ \A s \in Strategies : SameMoney(rows'[s], rows[s])
    BY <1>4, <2>1, WrittenBack
    DEF DeactivateBelowMinimum, RetiredModel, Row, ProcessingCalls
  <2>3. ASSUME NEW s \in Strategies PROVE ~InFlight(s) /\ ~InFlight(s)'
    BY <2>1 DEF InFlight
  <2>4. ASSUME NEW s \in Strategies, s # self PROVE SameMirror(s)
    BY <2>1, <2>2, <2>3, <2>4, MirrorOfRow DEF TypeOK
  <2>5. SameMirror(self)
    <3>1. Position(self)' = Position(self) /\ AmountHeld(self)' = AmountHeld(self)
      BY <2>1, <2>2, <2>3, MirrorOfRow
    <3>2. HasRetired(self) = TRUE
      BY <2>1, <2>3 DEF AboveMinimum, HasRetired, Position, AmountHeld, Cost
    <3>3. HasRetired(self)' = TRUE
      <4>1. rows'[self].Deactivated = TRUE
        BY <2>1, <2>2 DEF TypeOK
      <4> QED
        BY <2>1, <4>1 DEF HasRetired
    <3> QED
      BY <3>1, <3>2, <3>3 DEF SameMirror
  <2> QED
    BY <2>4, <2>5, Stutter
<1>5. CASE Retire \/ (RetireFails /\ UpdateTradingStrategy(self, RetiredModel))
  <2>1. Ledger!Retire(self)
    BY <1>5, LedgerRetire DEF Retire, RetireFails, GiveUp
  <2> QED
    BY <2>1 DEF Ledger!Next, TypeOK
<1>6. CASE /\ ScheduleNextTick \/ ScheduleNextTickFails
           /\ UpdateTradingStrategy(self, ScheduledModel)
  <2>1. /\ models[self] = rows[self] /\ self \in Strategies /\ rows[self] \in Row
        /\ pc = "schedule" /\ pc' \notin {"fill", "record", "book"}
        /\ rows' = [rows EXCEPT ![self] = ScheduledModel]
    BY <1>6, SelfCurrent DEF ScheduleNextTick, ScheduleNextTickFails, GiveUp,
       ProcessingCalls, UpdateTradingStrategy
  <2>2. \A s \in Strategies : SameMoney(rows'[s], rows[s])
    BY <1>6, <2>1, WrittenBack DEF ProcessingCalls
  <2>3. \A s \in Strategies : rows'[s].Deactivated = rows[s].Deactivated
    BY <2>1 DEF ScheduledModel, Row, TypeOK
  <2>4. ASSUME NEW s \in Strategies PROVE SameMirror(s)
    <3>1. ~InFlight(s) /\ ~InFlight(s)'
      BY <2>1 DEF InFlight
    <3> QED
      BY <2>2, <2>3, <3>1, MirrorOfRow
  <2> QED
    BY <2>4, Stutter
<1>7. CASE Step
  BY <1>1, <1>2, <1>3, <1>4, <1>5, <1>6, <1>7
  DEF Step, NothingNew, FindMostRecentCandlestick, InitializeStrategies,
      SkipStrategy, BeginStrategy, FinishTick, Sleep, Decide, OrderTooSmall,
      AwaitFill, RecordOrder, GiveUp, ScheduleNextTick
<1>8. CASE Failure
  BY <1>1, <1>5, <1>6, <1>8
  DEF Failure, ReadFails, PlaceOrderRejected, AwaitFillFails, RecordOrderFails,
      BuyPanics, Crash, Die, GiveUp, RetireFails, PlaceOrderReplyLost,
      BookTradeFails, DeactivateBelowMinimumFails, ScheduleNextTickFails,
      LostOrCommitted, Fault, NoneLost
<1>9. CASE UNCHANGED vars
  BY <1>1, <1>9 DEF vars
<1> QED
  BY <1>1, <1>7, <1>8, <1>9 DEF Next, ImportCandlestick, Restart

\* Whatever fails before the exchange has taken an order or after its result is
\* booked, and however often a tick is tried again, TryBuy and TrySell alternate
\* full-position trades and end with the sale that leaves too little, as
\* TradeLedger says (strategy.go:212-351, bot.go:146-199).
THEOREM LedgerKept == ASSUME NoneLost PROVE Spec => KeepsLedger
<1>1. NoneLost => FloorReached
  BY DEF NoneLost, FloorReached
<1>2. AboveMinimum /\ TypeOK /\ Coherent /\ [Next]_vars => AboveMinimum'
  BY <1>1, AboveMinimumNext
<1>3. Spec => [](TypeOK /\ Coherent /\ AboveMinimum)
  BY <1>2, TypeInit, TypeNext, CoherentInit, CoherentNext, AboveMinimumInit,
     PTL DEF Spec
<1>4. TypeOK /\ Coherent /\ AboveMinimum /\ [Next]_vars => [Ledger!Next]_(Ledger!vars)
  BY LedgerNext
<1>5. Spec => Ledger!Init /\ [][Ledger!Next]_(Ledger!vars)
  BY <1>3, <1>4, LedgerInit, PTL DEF Spec
<1> QED
  BY <1>5 DEF KeepsLedger, Ledger!Spec

================================================================================
