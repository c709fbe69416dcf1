------------------------------- MODULE GdaxOrder -------------------------------
(******************************************************************************)
(* One call of CreateMarketOrder (gdax.go): GDAXExchange's, which places the  *)
(* order and polls it until it is settled, and FakeGDAXExchange's, which      *)
(* opens a message feed and prices the order at the next match of its         *)
(* product.  GDAX works on its order at its own pace; each of the client's    *)
(* calls may fail.                                                            *)
(******************************************************************************)
EXTENDS Integers

CONSTANTS
    GdaxRetries,  \* gdaxRetries
    MaxSize       \* bound: what the order executes at most, in some unit

ASSUME GdaxAssumption == GdaxRetries \in Nat \ {0} /\ MaxSize \in Nat \ {0}

VARIABLES
    fake,      \* whether the exchange is a FakeGDAXExchange
    side,      \* args.Side
    known,     \* whether args.Product is one of GDAX's products
    at,        \* the call it is about to make
    i,         \* the loop's i: polls that did not end it
    order,     \* GDAX's order, or the one the fake exchange makes up
    feed,      \* the fake exchange's message feed: "none", "open" or "closed"
    response   \* CreateMarketOrder's answer: "none", "order" or "error"

call == <<fake, side, known>>
vars == <<call, at, i, order, feed, response>>

Unsettled == {"open", "pending", "active"}
NoOrder == [status |-> "none", settled |-> FALSE, executed |-> 0, fees |-> 0]

TypeOK ==
    /\ fake \in BOOLEAN /\ known \in BOOLEAN
    /\ side \in {"buy", "sell"}
    /\ at \in {"create", "get", "sleep", "dial", "receive", "returned", "dead"}
    /\ i \in 0..GdaxRetries
    /\ order \in [status : Unsettled \cup {"none", "done", "rejected"},
                  settled : BOOLEAN, executed : 0..MaxSize, fees : 0..MaxSize]
    /\ feed \in {"none", "open", "closed"}
    /\ response \in [kind : {"none", "order", "error"}, size : Int]

Init ==
    /\ fake \in BOOLEAN
    /\ side \in {"buy", "sell"}
    /\ known \in BOOLEAN
    /\ at = IF fake THEN "dial" ELSE "create"
    /\ i = 0
    /\ order = NoOrder
    /\ feed = "none"
    /\ response = [kind |-> "none", size |-> 0]

Return(kind, size) ==
    /\ at' = "returned"
    /\ response' = [kind |-> kind, size |-> size]

ReturnError == Return("error", 0)

--------------------------------------------------------------------------------
(* GDAX: an order is worked on, is done, and is settled when its fees are     *)
(* final; or it is rejected after it was taken.                               *)

Taken == order' = [NoOrder EXCEPT !.status = "pending"]

\* What a settled order brings: a buy's size, a sale's proceeds.
FilledSize(o) == IF side = "buy" THEN o.executed ELSE o.executed - o.fees

Work ==
    /\ ~fake
    /\ order.status \in Unsettled \cup {"done"}
    /\ ~order.settled
    /\ order' \in [status : Unsettled \cup {"done", "rejected"},
                   settled : BOOLEAN,
                   executed : order.executed..MaxSize,
                   fees : order.fees..MaxSize]
    /\ order'.fees <= order'.executed
    /\ order.status = "done" => order'.status = "done"
    /\ order'.settled => order'.status = "done"
    /\ order' # order
    /\ UNCHANGED <<call, at, i, feed, response>>

--------------------------------------------------------------------------------
(* GDAXExchange.CreateMarketOrder. *)

UnknownProduct ==
    /\ at = "create"
    /\ ~known
    /\ ReturnError
    /\ UNCHANGED <<call, i, order, feed>>

CreateOrder ==
    /\ at = "create"
    /\ known
    /\ Taken
    /\ at' = "get"
    /\ UNCHANGED <<call, i, feed, response>>

\* GDAX refuses the order, or takes it and the answer is lost.
CreateOrderFails ==
    /\ at = "create"
    /\ known
    /\ Taken \/ UNCHANGED order
    /\ ReturnError
    /\ UNCHANGED <<call, i, feed>>

\* (altered: done is enough)
FinalizedWhenDone(o) == o.status = "done"

Finalized(o) == o.status = "done" /\ o.settled

\* An order that is on its way, or GDAX's rate limit whatever became of it: to be
\* polled again.
GetOrderAgain ==
    /\ at = "get"
    /\ i < GdaxRetries
    /\ at' = "sleep"
    /\ UNCHANGED <<call, i, order, feed, response>>

\* (altered: a poll that is to be repeated is not counted)
SleepUncounted ==
    /\ at = "sleep"
    /\ at' = "get"
    /\ UNCHANGED <<call, i, order, feed, response>>

\* 1s << i, then the loop's i++.
Sleep ==
    /\ at = "sleep"
    /\ at' = "get"
    /\ i' = i + 1
    /\ UNCHANGED <<call, order, feed, response>>

GetOrderSettled ==
    /\ at = "get"
    /\ i < GdaxRetries
    /\ Finalized(order)
    /\ Return("order", FilledSize(order))
    /\ UNCHANGED <<call, i, order, feed>>

\* Another error, an unknown status, or no retry left.
GetOrderFails ==
    /\ at = "get"
    /\ ReturnError
    /\ UNCHANGED <<call, i, order, feed>>

--------------------------------------------------------------------------------
(* FakeGDAXExchange.CreateMarketOrder. *)

Dial ==
    /\ at = "dial"
    /\ feed' = "open"
    /\ Taken
    /\ at' = "receive"
    /\ UNCHANGED <<call, i, response>>

DialFails ==
    /\ at = "dial"
    /\ ReturnError
    /\ UNCHANGED <<call, i, order, feed>>

FeedCloses ==
    /\ feed = "open"
    /\ feed' = "closed"
    /\ UNCHANGED <<call, at, i, order, response>>

\* Any message but a match of the product changes nothing; the reader is never
\* told to stop, and keeps its connection.
Match ==
    /\ at = "receive"
    /\ feed = "open"
    /\ order' = [order EXCEPT !.status = "done", !.settled = TRUE,
                              !.executed = MaxSize, !.fees = 1]
    /\ Return("order", FilledSize(order'))
    /\ UNCHANGED <<call, i, feed>>

\* A closed channel yields nil, and the loop reads its Type.
NilMessage ==
    /\ at = "receive"
    /\ feed = "closed"
    /\ at' = "dead"
    /\ UNCHANGED <<call, i, order, feed, response>>

--------------------------------------------------------------------------------
Client ==
    \/ UnknownProduct \/ CreateOrder \/ CreateOrderFails
    \/ GetOrderAgain \/ Sleep \/ GetOrderSettled \/ GetOrderFails
    \/ Dial \/ DialFails \/ NilMessage

Returned == at \in {"returned", "dead"} /\ UNCHANGED vars

Next == Client \/ Work \/ FeedCloses \/ Match \/ Returned

Spec == Init /\ [][Next]_vars

\* The client goes on.  Nothing is assumed of GDAX but that the fake exchange's
\* product is traded.
FairSpec == Spec /\ WF_vars(Client) /\ WF_vars(Match)

--------------------------------------------------------------------------------
\* The call seen by its caller; a panic of the fake exchange is a failure that
\* takes the caller along.
Abstract == INSTANCE MarketOrder WITH
    call <- CASE response.kind = "order" -> "filled"
              [] response.kind = "error" \/ at = "dead" -> "failed"
              [] OTHER -> "open",
    order <- CASE order.status = "none" -> "none"
               [] order.settled -> "settled"
               [] OTHER -> "working",
    net <- FilledSize(order),
    answer <- response.size

\* CreateMarketOrder keeps the promise the bot's steps are built on: one order at
\* most, and no answer before the order is settled, whose size is the final one
\* (gdax.go:195-249, 265-306).
KeepsMarketOrder == Abstract!Spec

\* The call ends, whatever GDAX does with the order and however it answers: the
\* polls are bounded (gdax.go:206-233).  With the sleeps of 1s << i that takes up
\* to 2^20 seconds, in which the bot does nothing else.  The fake exchange's call
\* ends too, if only by the nil message of a closed feed (gdax.go:271-276).
CallReturns == <>(at \in {"returned", "dead"})

================================================================================
