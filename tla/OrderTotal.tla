----------------------------- MODULE OrderTotal -----------------------------
(***************************************************************************)
(* The three loops that add up an order with the money package:            *)
(*                                                                         *)
(*   PlaceOrder         checkoutservice/main.go   charged to the card      *)
(*   viewCartHandler    frontend/handlers.go      shown before the order   *)
(*   placeOrderHandler  frontend/handlers.go      shown after the order    *)
(*                                                                         *)
(* Each adds the shipping cost and quantity times price of every line, the *)
(* product by repeated addition (MultiplySlow).  They start from different *)
(* amounts and add the shipping at different places.  Every addition is    *)
(* wrapped in Must, which panics on an error.                              *)
(*                                                                         *)
(* One behaviour is one execution of one of the loops.                     *)
(***************************************************************************)
EXTENDS Money, Sequences

CONSTANTS Prices,     \* what the currency service may return for a price
          Shippings,  \* ... and for the shipping quote
          Quantities, \* uint32(item.Quantity)
          MaxLines    \* lines of a cart

ASSUME OrderTotalAssumption ==
    /\ Prices \subseteq Money /\ Shippings \subseteq Money
    /\ Quantities \subseteq Nat
    /\ MaxLines \in Nat
    /\ \A m \in Prices \cup Shippings : IsValid(m) /\ Value(m) >= 0

Handlers == {"PlaceOrder", "viewCartHandler", "placeOrderHandler"}

VARIABLES handler,   \* the loop that runs
          shipping,  \* shippingCostLocalized
          lines,     \* sequence of [cost, quantity]
          pc,        \* "shippingFirst", "line", "multiply", "shippingLast", "done", "panicked"
          i,         \* the line the loop is at
          out, n,    \* the locals of MultiplySlow
          total

vars == <<handler, shipping, lines, pc, i, out, n, total>>

Line == [cost: Prices, quantity: Quantities]

\* Before the loop: PlaceOrder adds the shipping to a zero total,
\* placeOrderHandler starts from the shipping itself, viewCartHandler adds it
\* after the lines.
Init ==
    /\ handler \in Handlers
    /\ shipping \in Shippings
    /\ lines \in UNION {[1..k -> Line] : k \in 0..MaxLines}
    /\ pc = IF handler = "PlaceOrder" THEN "shippingFirst" ELSE "line"
    /\ i = 1
    /\ out = Zero(shipping.code) /\ n = 0
    /\ total = IF handler = "placeOrderHandler" THEN shipping ELSE Zero(shipping.code)

\* v = Must(Sum(l, r)) followed by a jump to next.
Must(l, r, v, next) ==
    IF SumError(l, r) = "nil"
      THEN v = Sum(l, r) /\ pc' = next
      ELSE v = l /\ pc' = "panicked"

AddShippingFirst ==
    /\ pc = "shippingFirst"
    /\ Must(total, shipping, total', "line")
    /\ UNCHANGED <<handler, shipping, lines, i, out, n>>

\* The loop head; entering the body calls MultiplySlow(cost, quantity).
NextLine ==
    /\ pc = "line"
    /\ i <= Len(lines)
    /\ out' = lines[i].cost
    /\ n' = lines[i].quantity
    /\ pc' = "multiply"
    /\ UNCHANGED <<handler, shipping, lines, i, total>>

\* Mutant: the cost is added n times, not n - 1.
MultiplyStepOnceMore ==
    /\ pc = "multiply"
    /\ n > 0
    /\ Must(out, lines[i].cost, out', "multiply")
    /\ n' = n - 1
    /\ UNCHANGED <<handler, shipping, lines, i, total>>

\* One turn of MultiplySlow's loop.
MultiplyStep ==
    /\ pc = "multiply"
    /\ n > 1
    /\ Must(out, lines[i].cost, out', "multiply")
    /\ n' = n - 1
    /\ UNCHANGED <<handler, shipping, lines, i, total>>

\* MultiplySlow returns and the product is added to the total.
AddLine ==
    /\ pc = "multiply"
    /\ n <= 1
    /\ Must(total, out, total', "line")
    /\ i' = i + 1
    /\ UNCHANGED <<handler, shipping, lines, out, n>>

LinesDone ==
    /\ pc = "line"
    /\ i > Len(lines)
    /\ pc' = IF handler = "viewCartHandler" THEN "shippingLast" ELSE "done"
    /\ UNCHANGED <<handler, shipping, lines, i, out, n, total>>

AddShippingLast ==
    /\ pc = "shippingLast"
    /\ Must(total, shipping, total', "done")
    /\ UNCHANGED <<handler, shipping, lines, i, out, n>>

Next ==
    \/ AddShippingFirst
    \/ NextLine
    \/ MultiplyStep
    \/ AddLine
    \/ LinesDone
    \/ AddShippingLast

Spec == Init /\ [][Next]_vars

-----------------------------------------------------------------------------
(***************************************************************************)
(* Properties                                                              *)
(***************************************************************************)

TypeOK ==
    /\ handler \in Handlers
    /\ shipping \in Shippings
    /\ pc \in {"shippingFirst", "line", "multiply", "shippingLast", "done", "panicked"}
    /\ i \in Nat /\ n \in Nat
    /\ out \in Money /\ total \in Money

\* What quantity times cost comes to.  MultiplySlow(m, 0) returns m: a line
\* whose quantity wrapped to 0 is charged once.
LineValue(l) == Value(l.cost) * (IF l.quantity = 0 THEN 1 ELSE l.quantity)

LinesValue[k \in 0..MaxLines] ==
    IF k = 0 THEN 0 ELSE LinesValue[k - 1] + LineValue(lines[k])

\* The charge, the cart page and the receipt agree: whichever loop runs, a
\* total that is reached is worth shipping plus lines, to the nano, although
\* carry and borrow rewrite units and nanos on the way.
ExactTotal == pc = "done" => Value(total) = Value(shipping) + LinesValue[Len(lines)]

\* Each line adds exactly quantity times cost to the total.
EachLineExact ==
    [][i' # i /\ pc' # "panicked" => Value(total') = Value(total) + LineValue(lines[i])]_vars

\* A running total leaves the valid representation only while it is worth
\* more than nothing and less than one unit.
InvalidOnlyBelowOneUnit ==
    \A m \in {total, out} : ~IsValid(m) => 0 < Value(m) /\ Value(m) < NanosMod

WholeUnit(m) == m.units >= 1 \/ Value(m) = 0

\* The panics of Must never hit an order whose shipping cost and prices are
\* all in one currency, each nothing or at least one unit.
NoPanicFromWholeUnits ==
    (/\ WholeUnit(shipping)
     /\ \A k \in 1..Len(lines) :
          WholeUnit(lines[k].cost) /\ lines[k].cost.code = shipping.code)
        => pc # "panicked"

\* pb/demo.proto:153-156: nanos between -nanosMax and nanosMax; not negative
\* where units is positive, not positive where units is negative.
TotalFitsProto ==
    /\ validNanos(total.nanos)
    /\ total.units > 0 => total.nanos >= 0
    /\ total.units < 0 => total.nanos <= 0

=============================================================================
