--------------------------------- MODULE Cart ---------------------------------
(***************************************************************************)
(* What the cart service promises a user who sends it one request at a     *)
(* time: AddItem puts its item into the cart and EmptyCart empties it, each *)
(* at one instant or, if the storage fails, not at all.  To a user whose   *)
(* requests have overlapped it promises nothing (NoPromise).               *)
(*                                                                         *)
(* An item of a cart is named by the AddItem call that put it there; the   *)
(* quantity of a product is the sum over the calls in the cart.            *)
(***************************************************************************)
CONSTANTS Users, AddCalls, NoPromise

VARIABLE cart   \* cart[u]: SUBSET AddCalls, or NoPromise

AddItem(u, a) == cart[u] # NoPromise /\ cart' = [cart EXCEPT ![u] = @ \cup {a}]
EmptyCart(u)  == cart[u] # NoPromise /\ cart' = [cart EXCEPT ![u] = {}]
Overlap(u)    == cart' = [cart EXCEPT ![u] = NoPromise]

Init == cart = [u \in Users |-> {}]

Next == \E u \in Users : \/ \E a \in AddCalls : AddItem(u, a)
                         \/ EmptyCart(u)
                         \/ Overlap(u)

Spec == Init /\ [][Next]_cart
=============================================================================
