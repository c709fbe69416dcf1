---------------------------- MODULE GdaxOrderProofs ----------------------------
(******************************************************************************)
(* Both CreateMarketOrder implement MarketOrder, for every number of retries  *)
(* and every size of an order.                                                *)
(******************************************************************************)
EXTENDS GdaxOrder, TLAPS

\* Where a call is says what its order and its answer can be.
Progress ==
    /\ at \in {"create", "dial"} => order = NoOrder
    /\ at \in {"get", "sleep", "receive"} => order.status # "none"
    /\ at \in {"dial", "receive"} => fake
    /\ at = "receive" => ~order.settled
    /\ at = "sleep" => i < GdaxRetries
    /\ response.kind = "none" <=> at # "returned"
    /\ response.kind # "order" => response.size = 0
    /\ response.kind = "order" => order.settled

\* An order's fees are part of what it executed, and only an order that is done
\* is settled.
Sound ==
    /\ order.fees <= order.executed
    /\ order.settled => order.status = "done"
    /\ order.status = "none" => order = NoOrder

IInv == TypeOK /\ Progress /\ Sound

--------------------------------------------------------------------------------
LEMMA InitIInv == Init => IInv
BY GdaxAssumption DEF Init, IInv, TypeOK, Progress, Sound, NoOrder, Unsettled

\* Every step of the call, of GDAX and of the feed keeps the invariant.
LEMMA NextIInv == IInv /\ [Next]_vars => IInv'
<1> SUFFICES ASSUME IInv, [Next]_vars PROVE IInv'
  OBVIOUS
<1> USE GdaxAssumption DEF IInv, TypeOK, Progress, Sound
<1>1. CASE UnknownProduct
  BY <1>1 DEF UnknownProduct, ReturnError, Return, call
<1>2. CASE CreateOrder
  BY <1>2 DEF CreateOrder, Taken, NoOrder, Unsettled, call
<1>3. CASE CreateOrderFails
  BY <1>3 DEF CreateOrderFails, Taken, ReturnError, Return, NoOrder, Unsettled, call
<1>4. CASE GetOrderAgain
  BY <1>4 DEF GetOrderAgain, call
<1>5. CASE Sleep
  BY <1>5 DEF Sleep, call
<1>6. CASE GetOrderSettled
  BY <1>6 DEF GetOrderSettled, Return, FilledSize, Finalized, call
<1>7. CASE GetOrderFails
  BY <1>7 DEF GetOrderFails, ReturnError, Return, call
<1>8. CASE Dial
  BY <1>8 DEF Dial, Taken, NoOrder, Unsettled, call
<1>9. CASE DialFails
  BY <1>9 DEF DialFails, ReturnError, Return, call
<1>10. CASE NilMessage
  BY <1>10 DEF NilMessage, call
<1>11. CASE Work
  <2>1. /\ order'.status \in Unsettled \cup {"done", "rejected"}
        /\ order'.settled \in BOOLEAN
        /\ order'.executed \in 0..MaxSize /\ order'.fees \in 0..MaxSize
        /\ order' = [status |-> order'.status, settled |-> order'.settled,
                     executed |-> order'.executed, fees |-> order'.fees]
    BY <1>11 DEF Work
  <2>2. TypeOK'
    BY <1>11, <2>1 DEF Work, call
  <2>3. Progress' /\ Sound'
    BY <1>11, <2>1 DEF Work, NoOrder, Unsettled, call
  <2> QED
    BY <2>2, <2>3
<1>12. CASE FeedCloses
  BY <1>12 DEF FeedCloses, call
<1>13. CASE Match
  <2>1. order' = [status |-> "done", settled |-> TRUE, executed |-> MaxSize,
                  fees |-> 1]
    BY <1>13 DEF Match
  <2>2. FilledSize(order') \in Int
    BY <2>1 DEF FilledSize
  <2>a. MaxSize \in 0..MaxSize /\ 1 \in 0..MaxSize
    OBVIOUS
  <2>b. response' = [kind |-> "order", size |-> FilledSize(order')]
    BY <1>13 DEF Match, Return
  <2>c. order' \in [status : Unsettled \cup {"none", "done", "rejected"},
                    settled : BOOLEAN, executed : 0..MaxSize, fees : 0..MaxSize]
    BY <2>1, <2>a
  <2>d. response' \in [kind : {"none", "order", "error"}, size : Int]
    BY <2>2, <2>b
  <2>3. TypeOK'
    BY <1>13, <2>c, <2>d DEF Match, Return, call
  <2>4. Progress' /\ Sound'
    BY <1>13, <2>1 DEF Match, Return, call
  <2> QED
    BY <2>3, <2>4
<1>14. CASE UNCHANGED vars
  BY <1>14 DEF vars, call
<1>15. QED
  BY <1>1, <1>2, <1>3, <1>4, <1>5, <1>6, <1>7, <1>8, <1>9, <1>10, <1>11, <1>12,
     <1>13, <1>14 DEF Next, Client, Returned

--------------------------------------------------------------------------------
\* The call seen by its caller begins where MarketOrder begins.
LEMMA InitMaps == Init => Abstract!Init
BY GdaxAssumption DEF Init, Abstract!Init, NoOrder, FilledSize

\* What a step leaves alone of order and answer, its caller sees unchanged.
LEMMA Stutter ==
    ASSUME at \notin {"dead"}, at' # "dead", UNCHANGED <<call, order, response>>
    PROVE  UNCHANGED Abstract!vars
BY DEF Abstract!vars, FilledSize, call

\* An error, or a panic, is Fail, whether GDAX took the order or not.
LEMMA FailMaps ==
    ASSUME IInv, call' = call, response.kind = "none", at # "dead",
           response'.size = 0, response'.kind = "error" \/ at' = "dead",
           response'.kind # "order",
           order' = order \/ (order = NoOrder /\ Taken)
    PROVE  Abstract!Fail
BY DEF IInv, TypeOK, Progress, Sound, Abstract!Fail, NoOrder, Taken, FilledSize,
       Unsettled, call

\* Taking the order is Place.
LEMMA PlaceMaps ==
    ASSUME IInv, at \in {"create", "dial"}, at' \notin {"dead"}, Taken, UNCHANGED <<call, response>>
    PROVE  Abstract!Place
BY DEF IInv, TypeOK, Progress, Sound, Abstract!Place, NoOrder, Taken, FilledSize, call

\* Every step is one of MarketOrder's, or changes nothing its caller sees.
LEMMA NextMaps == IInv /\ IInv' /\ [Next]_vars => [Abstract!Next]_(Abstract!vars)
<1> SUFFICES ASSUME IInv, IInv', [Next]_vars PROVE Abstract!Next \/ UNCHANGED Abstract!vars
  OBVIOUS
<1>1. CASE UnknownProduct
  BY <1>1, FailMaps DEF UnknownProduct, ReturnError, Return, IInv, Progress, Abstract!Next
<1>2. CASE CreateOrder
  BY <1>2, PlaceMaps DEF CreateOrder, call, Abstract!Next
<1>3. CASE CreateOrderFails
  BY <1>3, FailMaps DEF CreateOrderFails, ReturnError, Return, IInv, Progress, Abstract!Next
<1>4. CASE GetOrderAgain
  BY <1>4, Stutter DEF GetOrderAgain
<1>5. CASE Sleep
  BY <1>5, Stutter DEF Sleep
<1>6. CASE GetOrderSettled
  <2>1. Abstract!Answer
    BY <1>6 DEF GetOrderSettled, Return, Finalized, FilledSize, call, IInv, TypeOK,
                Progress, Sound, Abstract!Answer
  <2> QED
    BY <2>1 DEF Abstract!Next
<1>7. CASE GetOrderFails
  BY <1>7, FailMaps DEF GetOrderFails, ReturnError, Return, IInv, Progress, Abstract!Next
<1>8. CASE Dial
  BY <1>8, PlaceMaps DEF Dial, call, Abstract!Next
<1>9. CASE DialFails
  BY <1>9, FailMaps DEF DialFails, ReturnError, Return, IInv, Progress, Abstract!Next
<1>10. CASE NilMessage
  BY <1>10, FailMaps DEF NilMessage, IInv, Progress, Abstract!Next
<1>11. CASE Work
  <2>1. Abstract!Execute
    BY <1>11 DEF Work, FilledSize, Unsettled, call, IInv, TypeOK, Progress, Sound,
                 Abstract!Execute
  <2> QED
    BY <2>1 DEF Abstract!Next
<1>12. CASE FeedCloses
  BY <1>12 DEF FeedCloses, call, Abstract!vars, FilledSize
<1>13. CASE Match
  <2>1. order' = [status |-> "done", settled |-> TRUE, executed |-> MaxSize,
                  fees |-> 1]
    BY <1>13 DEF Match, IInv, TypeOK
  <2>2. FilledSize(order)' = FilledSize(order') /\ FilledSize(order') \in Nat
    BY <1>13, <2>1, GdaxAssumption DEF Match, FilledSize, call
  <2>3. /\ response.kind = "none" /\ at # "dead" /\ at' # "dead"
        /\ order.status # "none"
        /\ order.settled => order.status = "done"
    BY <1>13 DEF Match, Return, IInv, TypeOK, Progress, Sound
  <2>4. response'.kind = "order" /\ response'.size = FilledSize(order')
    BY <1>13 DEF Match, Return
  <2>5. ~order.settled
    BY <1>13 DEF Match, IInv, Progress
  <2>6. Abstract!Answer
    BY <2>1, <2>2, <2>3, <2>4, <2>5 DEF Abstract!Answer
  <2> QED
    BY <2>6 DEF Abstract!Next
<1>14. CASE UNCHANGED vars
  BY <1>14 DEF vars, call, Abstract!vars, FilledSize
<1>15. QED
  BY <1>1, <1>2, <1>3, <1>4, <1>5, <1>6, <1>7, <1>8, <1>9, <1>10, <1>11, <1>12,
     <1>13, <1>14 DEF Next, Client, Returned

--------------------------------------------------------------------------------
\* A call keeps its type: the polls stay within GdaxRetries (gdax.go:206), and no
\* answer brings less than nothing.
THEOREM TypeCorrect == Spec => []TypeOK
<1>1. IInv => TypeOK
  BY DEF IInv
<1>2. QED
  BY InitIInv, NextIInv, <1>1, PTL DEF Spec

\* CreateMarketOrder places one order at most and answers only with the final
\* size of a settled one (gdax.go:195-249, 265-306).
THEOREM MarketOrderKept == Spec => KeepsMarketOrder
<1>1. Spec => []IInv
  BY InitIInv, NextIInv, PTL DEF Spec
<1>2. QED
  BY <1>1, InitMaps, NextMaps, PTL DEF Spec, KeepsMarketOrder, Abstract!Spec

================================================================================
