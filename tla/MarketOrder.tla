------------------------------ MODULE MarketOrder ------------------------------
(******************************************************************************)
(* What the order strategies take a call of Exchange.CreateMarketOrder for    *)
(* (exchange.go:175, order_strategies.go:54-70): at most one order, and an    *)
(* answer only when it is settled, with what it brought.  An error says       *)
(* nothing: the order may have been taken, and go on.  Bot's steps            *)
(* PlaceOrder, PlaceOrderRejected, PlaceOrderReplyLost, AwaitFill and         *)
(* AwaitFillFails are those of this module.                                   *)
(******************************************************************************)
EXTENDS Naturals

VARIABLES
    call,    \* "open", "filled" or "failed"
    order,   \* the exchange's order: "none", "working" or "settled"
    net,     \* what it has brought so far
    answer   \* the FilledSize the caller is told

vars == <<call, order, net, answer>>

Init ==
    /\ call = "open"
    /\ order = "none"
    /\ net = 0
    /\ answer = 0

Place ==
    /\ call = "open"
    /\ order = "none"
    /\ order' = "working"
    /\ UNCHANGED <<call, net, answer>>

Execute ==
    /\ order = "working"
    /\ order' \in {"working", "settled"}
    /\ net' \in Nat
    /\ UNCHANGED <<call, answer>>

Answer ==
    /\ call = "open"
    /\ order # "none"
    /\ order' = "settled"
    /\ net' \in Nat
    /\ order = "settled" => net' = net
    /\ call' = "filled"
    /\ answer' = net'

Fail ==
    /\ call = "open"
    /\ call' = "failed"
    /\ order' = order \/ (order = "none" /\ order' = "working")
    /\ UNCHANGED <<net, answer>>

Next == Place \/ Execute \/ Answer \/ Fail

Spec == Init /\ [][Next]_vars

================================================================================
