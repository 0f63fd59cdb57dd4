------------------------------- MODULE Checkout -------------------------------
(***************************************************************************)
(* checkoutservice/main.go: PlaceOrder and the services it calls, together *)
(* with the cart store and the shoppers' own cart requests.                *)
(*                                                                         *)
(* An order is one execution of PlaceOrder.  Its program counter is the    *)
(* RPC it waits for.  The called service executes a request at some later  *)
(* time, or never; independently, PlaceOrder may see an error although the *)
(* service executed the request or still will (connection lost, context of *)
(* the caller cancelled).  The process may die: a panic in a handler       *)
(* (money.Must) is recovered nowhere and ends every order in progress.     *)
(*                                                                         *)
(* Prices, addresses and the card number are not here: the total is the    *)
(* subject of OrderTotal, and payment either accepts the card or not.      *)
(***************************************************************************)
EXTENDS CartStore

CONSTANT Orders   \* an order is also the name of the cart requests it makes

ASSUME CheckoutAssumption ==
    /\ GetCalls = Orders
    /\ Orders \subseteq EmptyCalls

VARIABLES order,     \* PlaceOrder's locals: pc, user, prep.cartItems
          charge,    \* PaymentService.Charge, at the payment service
          ship,      \* ShippingService.ShipOrder, at the shipping service
          mail,      \* orders whose confirmation was handed to the email service
          revived,   \* history: items an AddItem wrote back after they were gone
          after      \* history: orders that had emptied the cart o then read

orderVars == <<order, charge, ship, mail>>
history   == <<revived, after>>
vars      == <<cartVars, orderVars, history>>

\* A request at a service: not sent, under way, executed, refused or lost.
Request == {"none", "sent", "ok", "error"}

Waiting == {"getUserCart", "prepare", "chargeCard", "shipOrder", "emptyUserCart",
            "sendOrderConfirmation"}

\* PlaceOrder returned an order, returned an error, or died.
Ended == {"placed", "failed", "crashed"}

Init ==
    /\ CartInit
    /\ order = [o \in Orders |-> [pc |-> "idle", user |-> NoUser, items |-> {}]]
    /\ charge = [o \in Orders |-> "none"]
    /\ ship = [o \in Orders |-> "none"]
    /\ mail = {}
    /\ revived = {}
    /\ after = [o \in Orders |-> {}]

OrderBusy(u) == \E o \in Orders : order[o].user = u /\ order[o].pc \in Waiting

-----------------------------------------------------------------------------
(***************************************************************************)
(* The shopper, through the frontend: addToCartHandler, emptyCartHandler,  *)
(* placeOrderHandler.  The user's other requests may still be in progress. *)
(***************************************************************************)
AddToCart(a, u) ==
    /\ CallAddItem(a, u)
    /\ NoteOverlap(u, CartBusy(u) \/ OrderBusy(u))
    /\ UNCHANGED <<orderVars, history>>

EmptyOwnCart(e, u) ==
    /\ CallEmptyCart(e, u)
    /\ NoteOverlap(u, CartBusy(u) \/ OrderBusy(u))
    /\ UNCHANGED <<orderVars, history>>

PlaceOrder(o, u) ==
    /\ order[o].pc = "idle"
    /\ order' = [order EXCEPT ![o].pc = "getUserCart", ![o].user = u]
    /\ CallGetCart(o, u)
    /\ NoteOverlap(u, CartBusy(u) \/ OrderBusy(u))
    /\ UNCHANGED <<charge, ship, mail, history>>

-----------------------------------------------------------------------------
(***************************************************************************)
(* PlaceOrder, one action per answer it waits for.                         *)
(***************************************************************************)
Goto(o, next) == order' = [order EXCEPT ![o].pc = next]

GetUserCart(o) ==
    /\ order[o].pc = "getUserCart"
    /\ get[o].reply = "ok"
    /\ order' = [order EXCEPT ![o].pc = "prepare", ![o].items = get[o].copy]
    /\ UNCHANGED <<cartVars, charge, ship, mail, history>>

\* prepOrderItems (GetProduct and Convert for every item), quoteShipping and
\* the conversion of the quote change nothing outside this handler: here they
\* are the time spent in "prepare", where each may fail (FailOrder).  Then the
\* total is added up and the card is charged.
ChargeCard(o) ==
    /\ order[o].pc = "prepare"
    /\ Goto(o, "chargeCard")
    /\ charge' = [charge EXCEPT ![o] = "sent"]
    /\ UNCHANGED <<cartVars, ship, mail, history>>

\* Mutant: the error of chargeCard is not checked.
ShipOrderUnpaid(o) ==
    /\ order[o].pc = "chargeCard"
    /\ charge[o] # "sent"
    /\ Goto(o, "shipOrder")
    /\ ship' = [ship EXCEPT ![o] = "sent"]
    /\ UNCHANGED <<cartVars, charge, mail, history>>

ShipOrder(o) ==
    /\ order[o].pc = "chargeCard"
    /\ charge[o] = "ok"
    /\ Goto(o, "shipOrder")
    /\ ship' = [ship EXCEPT ![o] = "sent"]
    /\ UNCHANGED <<cartVars, charge, mail, history>>

\* Mutant: the error of shipOrder is not checked.
EmptyUserCartUnshipped(o) ==
    /\ order[o].pc = "shipOrder"
    /\ ship[o] # "sent"
    /\ Goto(o, "emptyUserCart")
    /\ CallEmptyCart(o, order[o].user)
    /\ UNCHANGED <<overlap, charge, ship, mail, history>>

\* Mutant: the call of emptyUserCart is forgotten.
EmptyUserCartForgotten(o) ==
    /\ order[o].pc = "shipOrder"
    /\ ship[o] = "ok"
    /\ Goto(o, "sendOrderConfirmation")
    /\ UNCHANGED <<cartVars, charge, ship, mail, history>>

EmptyUserCart(o) ==
    /\ order[o].pc = "shipOrder"
    /\ ship[o] = "ok"
    /\ Goto(o, "emptyUserCart")
    /\ CallEmptyCart(o, order[o].user)
    /\ UNCHANGED <<overlap, charge, ship, mail, history>>

\* Mutant: the result of EmptyCart is not ignored.
SendOrderConfirmationIfEmptied(o) ==
    /\ order[o].pc = "emptyUserCart"
    /\ empty[o].reply = "ok"
    /\ Goto(o, "sendOrderConfirmation")
    /\ mail' = mail \cup {o}
    /\ UNCHANGED <<cartVars, charge, ship, history>>

\* The result of EmptyCart is ignored.
SendOrderConfirmation(o) ==
    /\ order[o].pc = "emptyUserCart"
    /\ empty[o].reply # "none"
    /\ Goto(o, "sendOrderConfirmation")
    /\ mail' = mail \cup {o}
    /\ UNCHANGED <<cartVars, charge, ship, history>>

\* An error of the confirmation is logged and ignored.
ReturnOrder(o) ==
    /\ order[o].pc = "sendOrderConfirmation"
    /\ Goto(o, "placed")
    /\ UNCHANGED <<cartVars, charge, ship, mail, history>>

\* An error answer before EmptyCart ends PlaceOrder; nothing is undone.
FailOrder(o) ==
    /\ \/ order[o].pc = "getUserCart" /\ get[o].reply = "error"
       \/ order[o].pc = "prepare"
       \/ order[o].pc = "chargeCard" /\ charge[o] = "error"
       \/ order[o].pc = "shipOrder" /\ ship[o] = "error"
    /\ Goto(o, "failed")
    /\ UNCHANGED <<cartVars, charge, ship, mail, history>>

\* The same, but the RPC fails on this side: the service may have executed
\* the request, or still execute it.
LoseAnswer(o) ==
    /\ order[o].pc \in {"getUserCart", "chargeCard", "shipOrder"}
    /\ Goto(o, "failed")
    /\ UNCHANGED <<cartVars, charge, ship, mail, history>>

Crash ==
    /\ \E o \in Orders : order[o].pc \in Waiting
    /\ order' = [o \in Orders |-> IF order[o].pc \in Waiting
                                    THEN [order[o] EXCEPT !.pc = "crashed"]
                                    ELSE order[o]]
    /\ UNCHANGED <<cartVars, charge, ship, mail, history>>

-----------------------------------------------------------------------------
(***************************************************************************)
(* The services execute or refuse a request whether or not PlaceOrder      *)
(* still waits for the answer.                                             *)
(***************************************************************************)
Execute(request, o) ==
    /\ request[o] = "sent"
    /\ \E outcome \in {"ok", "error"} : request' = [request EXCEPT ![o] = outcome]

PaymentStep(o) ==
    Execute(charge, o) /\ UNCHANGED <<cartVars, order, ship, mail, history>>

ShippingStep(o) ==
    Execute(ship, o) /\ UNCHANGED <<cartVars, order, charge, mail, history>>

\* The cart service, with the history of what its steps do.
ReadForOrder(o) ==
    /\ GetHashGet(o)
    /\ after' = [after EXCEPT ![o] = {p \in Orders : empty[p].wrote}]
    /\ UNCHANGED <<revived, orderVars>>

WriteBack(a) ==
    /\ AddHashSet(a)
    /\ revived' = revived \cup (add[a].copy \ Items(store[add[a].user]))
    /\ UNCHANGED <<after, orderVars>>

CartReadStep(o) ==
    \/ ReadForOrder(o)
    \/ GetFail(o) /\ UNCHANGED <<orderVars, history>>

CartEmptyStep(e) == EmptyStep(e) /\ UNCHANGED <<orderVars, history>>

CartStep ==
    \/ \E a \in AddCalls :
         \/ WriteBack(a)
         \/ (AddHashGet(a) \/ AddFail(a)) /\ UNCHANGED <<orderVars, history>>
    \/ \E e \in EmptyCalls :
         \/ CartEmptyStep(e)
         \/ EmptyAbandoned(e) /\ UNCHANGED <<orderVars, history>>
    \/ \E o \in Orders : CartReadStep(o)

-----------------------------------------------------------------------------
Shopper(u) ==
    \/ \E a \in AddCalls : AddToCart(a, u)
    \/ \E e \in EmptyCalls \ Orders : EmptyOwnCart(e, u)
    \/ \E o \in Orders : PlaceOrder(o, u)

OrderStep(o) ==
    \/ GetUserCart(o) \/ ChargeCard(o) \/ ShipOrder(o)
    \/ EmptyUserCart(o) \/ SendOrderConfirmation(o) \/ ReturnOrder(o)
    \/ FailOrder(o)

ServiceStep(o) == PaymentStep(o) \/ ShippingStep(o)

Next ==
    \/ \E u \in Users : Shopper(u)
    \/ \E o \in Orders : OrderStep(o) \/ LoseAnswer(o) \/ ServiceStep(o)
    \/ Crash
    \/ CartStep

Spec == Init /\ [][Next]_vars

\* PlaceOrder sets no deadline: that it ends rests on every service it calls
\* giving some answer, and on nothing else.  Shoppers, lost answers and crashes
\* owe nothing.
Fairness ==
    \A o \in Orders :
        /\ WF_vars(OrderStep(o))
        /\ WF_vars(PaymentStep(o)) /\ WF_vars(ShippingStep(o))
        /\ WF_vars(CartReadStep(o)) /\ WF_vars(CartEmptyStep(o))

FairSpec == Spec /\ Fairness

-----------------------------------------------------------------------------
(***************************************************************************)
(* Properties                                                              *)
(***************************************************************************)

TypeOK ==
    /\ CartTypeOK
    /\ order \in [Orders -> [pc: {"idle"} \cup Waiting \cup Ended,
                             user: Users \cup {NoUser}, items: SUBSET AddCalls]]
    /\ charge \in [Orders -> Request]
    /\ ship \in [Orders -> Request]
    /\ mail \subseteq Orders
    /\ revived \subseteq AddCalls
    /\ after \in [Orders -> SUBSET Orders]

\* Whatever fails, is lost or crashes: nothing is shipped that was not paid,
\* the cart is not emptied and no confirmation is sent for goods that did not
\* leave, and an order that is returned to the shopper is paid and shipped.
EffectsInOrder ==
    \A o \in Orders :
        /\ ship[o] # "none" => charge[o] = "ok"
        /\ empty[o].pc # "idle" => ship[o] = "ok"
        /\ o \in mail => ship[o] = "ok" /\ empty[o].reply # "none"
        /\ order[o].pc = "placed" => charge[o] = "ok" /\ ship[o] = "ok"

\* An order made after another one's EmptyCart was executed contains an item
\* of that order again only if an AddItem read the cart before it was emptied
\* and wrote it back afterwards.
BilledAgainOnlyIfRevived ==
    \A o \in Orders : \A p \in after[o] :
        get[o].copy \cap order[p].items \subseteq revived

\* A shopper who waits for each request to end pays for an item in two orders
\* only if one of them failed, died, or got an error from EmptyCart (which
\* PlaceOrder ignores).
PaidTwiceOnlyAfterFailure ==
    \A o, p \in Orders :
        (/\ o # p
         /\ charge[o] = "ok" /\ charge[p] = "ok"
         /\ order[o].user \notin overlap
         /\ order[o].items \cap order[p].items # {})
            => \E q \in {o, p} : \/ order[q].pc \in {"failed", "crashed"}
                                 \/ empty[q].reply = "error"

\* No item of such a shopper disappears: an acknowledged item is in the cart,
\* was dropped by an EmptyCart the shopper asked for, or is in an order that
\* was paid and shipped.
NothingLost ==
    \A u \in Users \ overlap : \A a \in AddCalls :
        (add[a].user = u /\ add[a].reply = "ok")
            => \/ a \in Items(store[u])
               \/ \E e \in EmptyCalls \ Orders : empty[e].user = u /\ empty[e].wrote
               \/ \E o \in Orders : a \in order[o].items /\ charge[o] = "ok" /\ ship[o] = "ok"

\* PlaceOrder always comes to an end.
OrderEnds == \A o \in Orders : order[o].pc \in Waiting ~> order[o].pc \in Ended

=============================================================================
