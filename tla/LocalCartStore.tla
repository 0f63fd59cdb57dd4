--------------------------- MODULE LocalCartStore ---------------------------
(***************************************************************************)
(* The cart service without Redis: cartservice/src/cartstore/              *)
(* LocalCartStore.cs on a ConcurrentDictionary.  AddOrUpdate calls its     *)
(* update function outside any lock and tries again if the cart has been   *)
(* replaced meanwhile; the function changes the shared cart in place.      *)
(* As in CartStore a quantity is the set of AddItem calls it sums up.      *)
(***************************************************************************)
EXTENDS Naturals, Sequences, FiniteSets

CONSTANTS
    Owners, Products,
    Adds, Empties,      \* the calls that may be made, each also the cart it makes
    Nobody, NoObject,   \* the user of a call not made yet; no cart
    Unpromised          \* see module Cart

ASSUME LocalCartAssumption ==
    /\ Nobody \notin Owners /\ NoObject \notin Adds \union Empties
    /\ Adds \intersect Empties = {}
    /\ \A S \in SUBSET Adds : S # Unpromised

VARIABLES
    userCartItems,  \* the cart object of each user, or NoObject
    cartObject,     \* the items of each cart object
    adder,          \* the AddItem calls
    emptied,        \* the EmptyCart calls that were made
    clash           \* history: users with two AddItem calls at once

localVars == <<userCartItems, cartObject, adder, emptied, clash>>

NewAdder == [pc |-> "idle", user |-> Nobody, product |-> Nobody, cart |-> NoObject, seen |-> <<>>]

LocalInit ==
    /\ userCartItems = [u \in Owners |-> NoObject]
    /\ cartObject = [o \in Adds \union Empties |-> <<>>]
    /\ adder = [a \in Adds |-> NewAdder]
    /\ emptied = {} /\ clash = {}

Adding(u) == {a \in Adds : adder[a].user = u /\ adder[a].pc \notin {"idle", "end"}}

Item(a) == [product |-> adder[a].product, calls |-> {a}]

Matches(items, a) == {k \in DOMAIN items : items[k].product = adder[a].product}

(* The dictionary compares carts by what is in them and by their UserId,   *)
(* which only the carts that AddItem makes have.                           *)
SameCart(o, p) ==
    LET Amounts(cart) ==
            [k \in DOMAIN cartObject[cart] |->
                <<cartObject[cart][k].product, Cardinality(cartObject[cart][k].calls)>>]
    IN  o = p \/ ((o \in Adds <=> p \in Adds) /\ Amounts(o) = Amounts(p))

-----------------------------------------------------------------------------
(* AddItemAsync: a call of AddOrUpdate.                                    *)

Goto(a, pc) == adder' = [adder EXCEPT ![a].pc = pc]

LocalAddItem(a, u, product) ==
    /\ adder[a].pc = "idle"
    /\ adder' = [adder EXCEPT ![a] = [NewAdder EXCEPT !.pc = "look", !.user = u, !.product = product]]
    /\ clash' = IF Adding(u) = {} THEN clash ELSE clash \union {u}
    /\ UNCHANGED <<userCartItems, cartObject, emptied>>

LookUp(a) ==
    /\ adder[a].pc = "look"
    /\ LET cart == userCartItems[adder[a].user]
       IN  adder' = [adder EXCEPT ![a].cart = cart, ![a].pc = IF cart = NoObject THEN "add" ELSE "find"]
    /\ UNCHANGED <<userCartItems, cartObject, emptied, clash>>

TryAdd(a) ==
    /\ adder[a].pc = "add"
    /\ IF userCartItems[adder[a].user] = NoObject
       THEN /\ userCartItems' = [userCartItems EXCEPT ![adder[a].user] = a]
            /\ cartObject' = [cartObject EXCEPT ![a] = <<Item(a)>>]
            /\ Goto(a, "end")
       ELSE Goto(a, "look") /\ UNCHANGED <<userCartItems, cartObject>>
    /\ UNCHANGED <<emptied, clash>>

(* The update function looks for the product.  Two items of it, which two  *)
(* calls may have left, are an exception that ends the call.               *)
FindItem(a) ==
    /\ adder[a].pc = "find"
    /\ LET items == cartObject[adder[a].cart]
       IN  adder' = [adder EXCEPT ![a].seen = items,
                         ![a].pc = IF Cardinality(Matches(items, a)) > 1 THEN "end" ELSE "change"]
    /\ UNCHANGED <<userCartItems, cartObject, emptied, clash>>

(* It adds to the quantity it has read, or appends an item.  The list of   *)
(* items is not made for two threads: both may write to the same place,    *)
(* which loses what came behind it.                                        *)
ChangeItem(a) ==
    /\ adder[a].pc = "change"
    /\ LET cart == adder[a].cart
           seen == adder[a].seen
           items == cartObject[cart]
       IN  \/ \E k \in Matches(seen, a) :
                 cartObject' = [cartObject EXCEPT ![cart][k].calls = seen[k].calls \union {a}]
           \/ /\ Matches(seen, a) = {}
              /\ \E place \in {Len(seen), Len(items)} \intersect 0..Len(items) :
                    cartObject' = [cartObject EXCEPT ![cart] = SubSeq(items, 1, place) \o <<Item(a)>>]
    /\ Goto(a, "replace")
    /\ UNCHANGED <<userCartItems, emptied, clash>>

(* Mutant: the changed cart is stored whatever is there.                   *)
Replace(a) ==
    /\ adder[a].pc = "replace"
    /\ userCartItems' = [userCartItems EXCEPT ![adder[a].user] = adder[a].cart]
    /\ Goto(a, "end")
    /\ UNCHANGED <<cartObject, emptied, clash>>

TryUpdate(a) ==
    /\ adder[a].pc = "replace"
    /\ LET u == adder[a].user
       IN  IF SameCart(userCartItems[u], adder[a].cart)
           THEN userCartItems' = [userCartItems EXCEPT ![u] = adder[a].cart] /\ Goto(a, "end")
           ELSE Goto(a, "look") /\ UNCHANGED userCartItems
    /\ UNCHANGED <<cartObject, emptied, clash>>

-----------------------------------------------------------------------------
(* EmptyCartAsync                                                          *)
LocalEmptyCart(e, u) ==
    /\ e \notin emptied
    /\ emptied' = emptied \union {e}
    /\ userCartItems' = [userCartItems EXCEPT ![u] = e]
    /\ cartObject' = [cartObject EXCEPT ![e] = <<>>]
    /\ UNCHANGED <<adder, clash>>

-----------------------------------------------------------------------------
LocalNext ==
    \/ \E a \in Adds, u \in Owners, product \in Products : LocalAddItem(a, u, product)
    \/ \E a \in Adds : LookUp(a) \/ TryAdd(a) \/ FindItem(a) \/ ChangeItem(a) \/ TryUpdate(a)
    \/ \E e \in Empties, u \in Owners : LocalEmptyCart(e, u)

LocalSpec == LocalInit /\ [][LocalNext]_localVars

-----------------------------------------------------------------------------
ItemsOf(cart) == IF cart = NoObject THEN {} ELSE UNION {cartObject[cart][k].calls : k \in DOMAIN cartObject[cart]}

(* The dictionary implements the atomic cart of module Cart for a user who *)
(* never had two AddItem calls at once, also when carts are emptied in the *)
(* middle of one: its item is then in the old cart, the new one, or both.  *)
LocalAtomicCart == [u \in Owners |-> IF u \in clash THEN Unpromised ELSE ItemsOf(userCartItems[u])]

LocalCart == INSTANCE Cart
    WITH Users <- Owners, AddCalls <- Adds, NoPromise <- Unpromised, cart <- LocalAtomicCart

ImplementsLocalCart == LocalCart!Spec
=============================================================================
