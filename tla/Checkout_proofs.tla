--------------------------- MODULE Checkout_proofs ---------------------------
(***************************************************************************)
(* The cart service and Checkout, for any users, orders, calls and         *)
(* requests.  Of the cart service: its types, that a cart holds only its   *)
(* user's own items, that an acknowledged item stays, and that the store   *)
(* on Redis implements the atomic cart of module Cart.  The lemmas about   *)
(* its single steps are used again for Checkout, which it is part of: type *)
(* correctness and the main safety properties of the orders.               *)
(***************************************************************************)
EXTENDS Checkout, TLAPS

LEMMA ItemsType ==
    ASSUME CartTypeOK, NEW u \in Users
    PROVE  Items(store[u]) \in SUBSET AddCalls
BY DEF Items, CartTypeOK

LEMMA CartInitType == CartInit => CartTypeOK
BY DEF CartInit, CartTypeOK, AddHandler, EmptyHandler, GetHandler, Reply

LEMMA CallsType ==
    ASSUME CartTypeOK, NEW u \in Users, overlap' \subseteq Users,
           \/ \E a \in AddCalls : CallAddItem(a, u)
           \/ \E e \in EmptyCalls : CallEmptyCart(e, u)
           \/ \E g \in GetCalls : CallGetCart(g, u)
    PROVE  CartTypeOK'
<1>1. ASSUME NEW a \in AddCalls, CallAddItem(a, u) PROVE CartTypeOK'
    BY <1>1 DEF CallAddItem, CartTypeOK, AddHandler
<1>2. ASSUME NEW e \in EmptyCalls, CallEmptyCart(e, u) PROVE CartTypeOK'
    BY <1>2 DEF CallEmptyCart, CartTypeOK, EmptyHandler
<1>3. ASSUME NEW g \in GetCalls, CallGetCart(g, u) PROVE CartTypeOK'
    BY <1>3 DEF CallGetCart, CartTypeOK, GetHandler
<1> QED BY <1>1, <1>2, <1>3

\* A handler that runs was called by a user.
CalledByUser ==
    /\ \A a \in AddCalls : add[a].pc # "idle" => add[a].user \in Users
    /\ \A e \in EmptyCalls : empty[e].pc # "idle" => empty[e].user \in Users
    /\ \A g \in GetCalls : get[g].pc # "idle" => get[g].user \in Users

LEMMA AddStepType ==
    ASSUME CartTypeOK, CalledByUser, NEW a \in AddCalls, AddStep(a)
    PROVE  CartTypeOK'
<1>1. add[a].user \in Users /\ Items(store[add[a].user]) \in SUBSET AddCalls
    BY ItemsType DEF CalledByUser, AddStep, AddHashGet, AddHashSet, AddFail
<1>0. add \in [AddCalls -> AddHandler] /\ add[a] \in AddHandler
    BY DEF CartTypeOK
<1>2. CASE AddHashGet(a)
    <2> DEFINE c == Items(store[add[a].user])
    <2>1. add' = [add EXCEPT ![a].pc = "HashSet", ![a].copy = c] /\ c \in SUBSET AddCalls
        BY <1>1, <1>2 DEF AddHashGet
    <2> HIDE DEF c
    <2>2. add' \in [AddCalls -> AddHandler]
        BY <1>0, <2>1 DEF AddHandler
    <2> QED BY <1>2, <2>2 DEF AddHashGet, CartTypeOK
<1>3. CASE AddHashSet(a)
    <2>1. PICK answer \in {"ok", "error"} :
            add' = [add EXCEPT ![a].pc = "end", ![a].reply = answer]
        BY <1>3 DEF AddHashSet
    <2>2. add' \in [AddCalls -> AddHandler]
        BY <1>0, <2>1 DEF AddHandler, Reply
    <2>3. add[a].copy \cup {a} \in SUBSET AddCalls
        BY <1>0 DEF AddHandler
    <2>4. store' \in [Users -> {NoCart} \cup SUBSET AddCalls]
        BY <1>1, <1>3, <2>3 DEF AddHashSet, CartTypeOK
    <2> QED BY <1>3, <2>2, <2>4 DEF AddHashSet, CartTypeOK
<1>4. CASE AddFail(a)
    BY <1>4 DEF AddFail, CartTypeOK, AddHandler, Reply
<1> QED BY <1>2, <1>3, <1>4 DEF AddStep

LEMMA EmptyStepType ==
    ASSUME CartTypeOK, CalledByUser, NEW e \in EmptyCalls, EmptyStep(e) \/ EmptyAbandoned(e)
    PROVE  CartTypeOK'
<1>1. CASE EmptyHashSet(e)
    <2>1. empty \in [EmptyCalls -> EmptyHandler] /\ empty[e].user \in Users
        BY <1>1 DEF CartTypeOK, CalledByUser, EmptyHashSet
    <2>2. PICK answer \in {"ok", "error"} :
            empty' = [empty EXCEPT ![e].pc = "end", ![e].wrote = TRUE,
                                   ![e].reply = Told(@, answer)]
        BY <1>1 DEF EmptyHashSet
    <2>3. empty' \in [EmptyCalls -> EmptyHandler]
        BY <2>1, <2>2 DEF EmptyHandler, Reply, Told
    <2>4. store' \in [Users -> {NoCart} \cup SUBSET AddCalls]
        BY <1>1, <2>1 DEF EmptyHashSet, CartTypeOK
    <2> QED BY <1>1, <2>3, <2>4 DEF EmptyHashSet, CartTypeOK
<1>2. CASE EmptyFail(e)
    BY <1>2 DEF EmptyFail, CartTypeOK, EmptyHandler, Reply, Told
<1>3. CASE EmptyAbandoned(e)
    BY <1>3 DEF EmptyAbandoned, CartTypeOK, EmptyHandler, Reply
<1> QED BY <1>1, <1>2, <1>3 DEF EmptyStep

LEMMA GetStepType ==
    ASSUME CartTypeOK, CalledByUser, NEW g \in GetCalls, GetStep(g)
    PROVE  CartTypeOK'
<1>1. get[g].user \in Users /\ Items(store[get[g].user]) \in SUBSET AddCalls
    BY ItemsType DEF CalledByUser, GetStep, GetHashGet, GetFail
<1>2. CASE GetHashGet(g)
    <2> DEFINE c == Items(store[get[g].user])
    <2>1. /\ get \in [GetCalls -> GetHandler]
          /\ get' = [get EXCEPT ![g].pc = "end", ![g].copy = c, ![g].reply = "ok"]
          /\ c \in SUBSET AddCalls
        BY <1>1, <1>2 DEF GetHashGet, CartTypeOK
    <2> HIDE DEF c
    <2>2. get' \in [GetCalls -> GetHandler]
        BY <2>1 DEF GetHandler, Reply
    <2> QED BY <1>2, <2>2 DEF GetHashGet, CartTypeOK
<1>3. CASE GetFail(g)
    BY <1>3 DEF GetFail, CartTypeOK, GetHandler, Reply
<1> QED BY <1>2, <1>3 DEF GetStep

LEMMA HandlersType ==
    ASSUME CartTypeOK, CalledByUser, HandlersNext
    PROVE  CartTypeOK'
BY AddStepType, EmptyStepType, GetStepType DEF HandlersNext

LEMMA CalledByUserInit == CartInit => CalledByUser
BY DEF CartInit, CalledByUser

LEMMA CallsCalledByUser ==
    ASSUME CartTypeOK, CalledByUser, NEW u \in Users,
           \/ \E a \in AddCalls : CallAddItem(a, u)
           \/ \E e \in EmptyCalls : CallEmptyCart(e, u)
           \/ \E g \in GetCalls : CallGetCart(g, u)
    PROVE  CalledByUser'
<1>1. ASSUME NEW a \in AddCalls, CallAddItem(a, u) PROVE CalledByUser'
    BY <1>1 DEF CallAddItem, CartTypeOK, CalledByUser, AddHandler
<1>2. ASSUME NEW e \in EmptyCalls, CallEmptyCart(e, u) PROVE CalledByUser'
    BY <1>2 DEF CallEmptyCart, CartTypeOK, CalledByUser, EmptyHandler
<1>3. ASSUME NEW g \in GetCalls, CallGetCart(g, u) PROVE CalledByUser'
    BY <1>3 DEF CallGetCart, CartTypeOK, CalledByUser, GetHandler
<1> QED BY <1>1, <1>2, <1>3

LEMMA HandlersCalledByUser ==
    ASSUME CartTypeOK, CalledByUser, HandlersNext
    PROVE  CalledByUser'
<1>1. ASSUME NEW a \in AddCalls, AddStep(a) PROVE CalledByUser'
    BY <1>1 DEF AddStep, AddHashGet, AddHashSet, AddFail, CartTypeOK, CalledByUser, AddHandler
<1>2. ASSUME NEW e \in EmptyCalls, EmptyStep(e) \/ EmptyAbandoned(e) PROVE CalledByUser'
    BY <1>2 DEF EmptyStep, EmptyHashSet, EmptyFail, EmptyAbandoned, CartTypeOK, CalledByUser,
                EmptyHandler
<1>3. ASSUME NEW g \in GetCalls, GetStep(g) PROVE CalledByUser'
    BY <1>3 DEF GetStep, GetHashGet, GetFail, CartTypeOK, CalledByUser, GetHandler
<1> QED BY <1>1, <1>2, <1>3 DEF HandlersNext

-----------------------------------------------------------------------------
\* Type correctness of the cart service alone.
THEOREM CartTypeCorrect == CartSpec => []CartTypeOK
<1> DEFINE Inv == CartTypeOK /\ CalledByUser
<1>1. CartInit => Inv
    BY CartInitType, CalledByUserInit
<1>2. Inv /\ [CartNext]_cartVars => Inv'
    <2> SUFFICES ASSUME Inv, [CartNext]_cartVars PROVE Inv'
        OBVIOUS
    <2>1. ASSUME NEW u \in Users,
                 \/ \E a \in AddCalls : CallAddItem(a, u)
                 \/ \E e \in EmptyCalls : CallEmptyCart(e, u)
                 \/ \E g \in GetCalls : CallGetCart(g, u),
                 NoteOverlap(u, CartBusy(u))
          PROVE  Inv'
        <3>1. overlap' \subseteq Users
            BY <2>1 DEF NoteOverlap, CartTypeOK
        <3> QED BY <2>1, <3>1, CallsType, CallsCalledByUser
    <2>2. CASE HandlersNext
        BY <2>2, HandlersType, HandlersCalledByUser
    <2>3. CASE UNCHANGED cartVars
        BY <2>3 DEF cartVars, CartTypeOK, CalledByUser
    <2> QED BY <2>1, <2>2, <2>3 DEF CartNext
<1> QED BY <1>1, <1>2, PTL DEF CartSpec
-----------------------------------------------------------------------------
(***************************************************************************)
(* OwnItems.  Inductive once it also says that a handler has no copy of a  *)
(* cart before it has read one: a call is given its user while it is idle. *)
(***************************************************************************)
OwnedIn(handlers, u, items) ==
    \A b \in items : handlers[b].user = u /\ handlers[b].pc = "end"

OwnInv ==
    /\ \A u \in Users : OwnedIn(add, u, Items(store[u]))
    /\ \A a \in AddCalls :
         /\ add[a].pc \in {"idle", "HashGet"} => add[a].copy = {}
         /\ OwnedIn(add, add[a].user, add[a].copy)
    /\ \A g \in GetCalls :
         /\ get[g].pc \in {"idle", "HashGet"} => get[g].copy = {}
         /\ OwnedIn(add, get[g].user, get[g].copy)

\* Handlers that have ended stay as they are.
EndedStay == \A b \in AddCalls : add[b].pc = "end" => add'[b].user = add[b].user /\ add'[b].pc = "end"

LEMMA OwnedStays ==
    ASSUME EndedStay, NEW u, NEW items \in SUBSET AddCalls, OwnedIn(add, u, items)
    PROVE  OwnedIn(add', u, items)
BY DEF OwnedIn, EndedStay

LEMMA OwnInvInit == CartInit => OwnInv
BY DEF CartInit, OwnInv, OwnedIn, Items

LEMMA CartSets ==
    ASSUME CartTypeOK
    PROVE  /\ \A u \in Users : Items(store[u]) \in SUBSET AddCalls
           /\ \A a \in AddCalls : add[a].copy \in SUBSET AddCalls
           /\ \A g \in GetCalls : get[g].copy \in SUBSET AddCalls
BY ItemsType DEF CartTypeOK, AddHandler, GetHandler

\* A step that changes no cart and no copy.
LEMMA OwnKept ==
    ASSUME CartTypeOK, OwnInv, EndedStay, store' = store, get' = get,
           \A a \in AddCalls : /\ add'[a].copy = add[a].copy
                               /\ add'[a].user = add[a].user \/ add[a].copy = {}
                               /\ add'[a].pc \in {"idle", "HashGet"} => add[a].copy = {}
    PROVE  OwnInv'
<1>1. \A u \in Users : OwnedIn(add', u, Items(store[u]))
    BY CartSets, OwnedStays DEF OwnInv
<1>2. ASSUME NEW a \in AddCalls
      PROVE  /\ add'[a].pc \in {"idle", "HashGet"} => add'[a].copy = {}
             /\ OwnedIn(add', add'[a].user, add'[a].copy)
    <2>1. CASE add[a].copy = {}
        BY <2>1 DEF OwnedIn
    <2>2. CASE add'[a].user = add[a].user
        BY <2>2, CartSets, OwnedStays DEF OwnInv
    <2> QED BY <2>1, <2>2
<1>3. \A g \in GetCalls : OwnedIn(add', get[g].user, get[g].copy)
    BY CartSets, OwnedStays DEF OwnInv
<1> QED BY <1>1, <1>2, <1>3 DEF OwnInv

LEMMA CallsOwn ==
    ASSUME CartTypeOK, OwnInv, NEW u \in Users,
           \/ \E a \in AddCalls : CallAddItem(a, u)
           \/ \E e \in EmptyCalls : CallEmptyCart(e, u)
           \/ \E g \in GetCalls : CallGetCart(g, u)
    PROVE  OwnInv'
<1>1. ASSUME NEW a \in AddCalls, CallAddItem(a, u) PROVE OwnInv'
    <2>1. /\ add \in [AddCalls -> AddHandler] /\ add[a].copy = {}
          /\ UNCHANGED <<store, get>>
        BY <1>1 DEF CallAddItem, CartTypeOK, OwnInv
    <2>2. \A b \in AddCalls : /\ b # a => add'[b] = add[b]
                              /\ add'[b].copy = add[b].copy
        BY <1>1, <2>1 DEF CallAddItem, AddHandler
    <2>3. EndedStay
        BY <1>1, <2>2 DEF CallAddItem, EndedStay
    <2>4. \A b \in AddCalls : add'[b].pc \in {"idle", "HashGet"} => add[b].copy = {}
        BY <2>1, <2>2 DEF OwnInv
    <2> QED BY <2>1, <2>2, <2>3, <2>4, OwnKept
<1>2. ASSUME NEW e \in EmptyCalls, CallEmptyCart(e, u) PROVE OwnInv'
    BY <1>2 DEF CallEmptyCart, OwnInv
<1>3. ASSUME NEW g \in GetCalls, CallGetCart(g, u) PROVE OwnInv'
    <2>1. get \in [GetCalls -> GetHandler] /\ get[g].copy = {} /\ UNCHANGED <<store, add>>
        BY <1>3 DEF CallGetCart, CartTypeOK, OwnInv
    <2>2. \A h \in GetCalls : h # g => get'[h] = get[h]
        BY <1>3, <2>1 DEF CallGetCart
    <2>3. get'[g].copy = {}
        BY <1>3, <2>1 DEF CallGetCart, GetHandler
    <2> QED BY <2>1, <2>2, <2>3 DEF OwnInv, OwnedIn
<1> QED BY <1>1, <1>2, <1>3

LEMMA HandlersOwn ==
    ASSUME CartTypeOK, CalledByUser, OwnInv, HandlersNext
    PROVE  OwnInv'
<1>0. /\ add \in [AddCalls -> AddHandler] /\ get \in [GetCalls -> GetHandler]
      /\ store \in [Users -> {NoCart} \cup SUBSET AddCalls]
    BY DEF CartTypeOK
<1>1. ASSUME NEW a \in AddCalls, AddHashGet(a) PROVE OwnInv'
    <2> DEFINE c == Items(store[add[a].user])
    <2>1. /\ add[a].user \in Users /\ add[a].pc = "HashGet"
          /\ add' = [add EXCEPT ![a].pc = "HashSet", ![a].copy = c]
          /\ UNCHANGED <<store, get>>
        BY <1>1 DEF AddHashGet, CalledByUser
    <2>2. OwnedIn(add, add[a].user, c) /\ c \in SUBSET AddCalls
        BY <2>1, CartSets DEF OwnInv
    <2> HIDE DEF c
    <2>3. /\ \A b \in AddCalls : b # a => add'[b] = add[b]
          /\ add'[a].user = add[a].user /\ add'[a].copy = c /\ add'[a].pc = "HashSet"
        BY <1>0, <2>1 DEF AddHandler
    <2>4. EndedStay
        BY <2>1, <2>3 DEF EndedStay
    <2>5. OwnedIn(add', add[a].user, c)
        BY <2>2, <2>4, OwnedStays
    <2>6. \A b \in AddCalls : OwnedIn(add', add'[b].user, add'[b].copy)
        BY <2>3, <2>4, <2>5, CartSets, OwnedStays DEF OwnInv
    <2>7. \A v \in Users : OwnedIn(add', v, Items(store[v]))
        BY <2>4, CartSets, OwnedStays DEF OwnInv
    <2>8. \A g \in GetCalls : OwnedIn(add', get[g].user, get[g].copy)
        BY <2>4, CartSets, OwnedStays DEF OwnInv
    <2> QED BY <2>1, <2>3, <2>6, <2>7, <2>8 DEF OwnInv
<1>2. ASSUME NEW a \in AddCalls, AddHashSet(a) PROVE OwnInv'
    <2>1. PICK answer \in {"ok", "error"} :
            add' = [add EXCEPT ![a].pc = "end", ![a].reply = answer]
        BY <1>2 DEF AddHashSet
    <2>2. /\ add[a].user \in Users /\ add[a].pc = "HashSet" /\ get' = get
          /\ store' = [store EXCEPT ![add[a].user] = add[a].copy \cup {a}]
        BY <1>2 DEF AddHashSet, CalledByUser
    <2>3. /\ \A b \in AddCalls : b # a => add'[b] = add[b]
          /\ add'[a].user = add[a].user /\ add'[a].copy = add[a].copy /\ add'[a].pc = "end"
        BY <1>0, <2>1 DEF AddHandler
    <2>4. EndedStay
        BY <2>2, <2>3 DEF EndedStay
    <2>5. \A b \in AddCalls : OwnedIn(add', add'[b].user, add'[b].copy)
        BY <2>3, <2>4, CartSets, OwnedStays DEF OwnInv
    <2>6. \A g \in GetCalls : OwnedIn(add', get[g].user, get[g].copy)
        BY <2>4, CartSets, OwnedStays DEF OwnInv
    <2>7. ASSUME NEW v \in Users PROVE OwnedIn(add', v, Items(store'[v]))
        <3>1. CASE v # add[a].user
            <4>1. store'[v] = store[v]
                BY <1>0, <2>2, <3>1
            <4> QED BY <2>4, <4>1, CartSets, OwnedStays DEF OwnInv
        <3>2. CASE v = add[a].user
            <4>1. store'[v] = add[a].copy \cup {a}
                BY <1>0, <2>2, <3>2
            <4>2. add[a].copy \cup {a} # NoCart
                BY CartSets, CartStoreAssumption
            <4>3. Items(store'[v]) = add[a].copy \cup {a}
                BY <4>1, <4>2 DEF Items
            <4>4. OwnedIn(add', v, add[a].copy)
                BY <2>3, <2>5, <3>2
            <4> QED BY <2>3, <3>2, <4>3, <4>4 DEF OwnedIn
        <3> QED BY <3>1, <3>2
    <2> QED BY <2>2, <2>3, <2>5, <2>6, <2>7 DEF OwnInv
<1>3. ASSUME NEW a \in AddCalls, AddFail(a) PROVE OwnInv'
    <2>1. /\ add' = [add EXCEPT ![a].pc = "end", ![a].reply = "error"]
          /\ add[a].pc # "end" /\ UNCHANGED <<store, get>>
        BY <1>3 DEF AddFail
    <2>2. /\ \A b \in AddCalls : b # a => add'[b] = add[b]
          /\ add'[a].user = add[a].user /\ add'[a].copy = add[a].copy /\ add'[a].pc = "end"
        BY <1>0, <2>1 DEF AddHandler
    <2>3. EndedStay
        BY <2>2 DEF EndedStay
    <2>4. \A b \in AddCalls : /\ add'[b].copy = add[b].copy /\ add'[b].user = add[b].user
                              /\ add'[b].pc \in {"idle", "HashGet"} => add[b].copy = {}
        BY <2>2 DEF OwnInv
    <2> QED BY <2>1, <2>3, <2>4, OwnKept
<1>4. ASSUME NEW e \in EmptyCalls, EmptyHashSet(e) PROVE OwnInv'
    <2>1. /\ \A v \in Users : store'[v] = store[v] \/ store'[v] = {}
          /\ UNCHANGED <<add, get>>
        BY <1>0, <1>4 DEF EmptyHashSet
    <2>2. \A v \in Users : OwnedIn(add, v, Items(store'[v]))
        BY <2>1 DEF OwnInv, OwnedIn, Items
    <2> QED BY <2>1, <2>2 DEF OwnInv
<1>5. ASSUME NEW e \in EmptyCalls, EmptyFail(e) \/ EmptyAbandoned(e) PROVE OwnInv'
    BY <1>5 DEF EmptyFail, EmptyAbandoned, OwnInv
<1>6. ASSUME NEW g \in GetCalls, GetHashGet(g) PROVE OwnInv'
    <2> DEFINE c == Items(store[get[g].user])
    <2>1. /\ get[g].user \in Users
          /\ get' = [get EXCEPT ![g].pc = "end", ![g].copy = c, ![g].reply = "ok"]
          /\ UNCHANGED <<store, add>>
        BY <1>6 DEF GetHashGet, CalledByUser
    <2>2. OwnedIn(add, get[g].user, c)
        BY <2>1 DEF OwnInv
    <2> HIDE DEF c
    <2>3. /\ \A h \in GetCalls : h # g => get'[h] = get[h]
          /\ get'[g].user = get[g].user /\ get'[g].copy = c /\ get'[g].pc = "end"
        BY <1>0, <2>1 DEF GetHandler
    <2> QED BY <2>1, <2>2, <2>3 DEF OwnInv
<1>7. ASSUME NEW g \in GetCalls, GetFail(g) PROVE OwnInv'
    <2>1. /\ \A h \in GetCalls : h # g => get'[h] = get[h]
          /\ get'[g].user = get[g].user /\ get'[g].copy = get[g].copy /\ get'[g].pc = "end"
          /\ UNCHANGED <<store, add>>
        BY <1>0, <1>7 DEF GetFail, GetHandler
    <2> QED BY <2>1 DEF OwnInv
<1> QED BY <1>1, <1>2, <1>3, <1>4, <1>5, <1>6, <1>7
        DEF HandlersNext, AddStep, EmptyStep, GetStep

\* No cart, and no copy of one, ever holds an item of another user, or of a
\* call whose handler still runs, for any users and calls.
THEOREM CartsStayApart == CartSpec => []OwnItems
<1> DEFINE Inv == CartTypeOK /\ CalledByUser /\ OwnInv
<1>1. CartInit => Inv
    BY CartInitType, CalledByUserInit, OwnInvInit
<1>2. Inv /\ [CartNext]_cartVars => Inv'
    <2> SUFFICES ASSUME Inv, [CartNext]_cartVars PROVE Inv'
        OBVIOUS
    <2>1. ASSUME NEW u \in Users,
                 \/ \E a \in AddCalls : CallAddItem(a, u)
                 \/ \E e \in EmptyCalls : CallEmptyCart(e, u)
                 \/ \E g \in GetCalls : CallGetCart(g, u),
                 NoteOverlap(u, CartBusy(u))
          PROVE  Inv'
        <3>1. overlap' \subseteq Users
            BY <2>1 DEF NoteOverlap, CartTypeOK
        <3> QED BY <2>1, <3>1, CallsType, CallsCalledByUser, CallsOwn
    <2>2. CASE HandlersNext
        BY <2>2, HandlersType, HandlersCalledByUser, HandlersOwn
    <2>3. CASE UNCHANGED cartVars
        BY <2>3 DEF cartVars, CartTypeOK, CalledByUser, OwnInv
    <2> QED BY <2>1, <2>2, <2>3 DEF CartNext
<1>3. OwnInv => OwnItems
    BY DEF OwnInv, OwnItems, OwnedIn
<1> QED BY <1>1, <1>2, <1>3, PTL DEF CartSpec
-----------------------------------------------------------------------------
(***************************************************************************)
(* A user whose requests have not overlapped.  Inductive is that such a    *)
(* user's AddItem, while its handler runs, is alone among the handlers     *)
(* that write: what it has read is then still what is stored.              *)
(***************************************************************************)
Adding(a, u) == add[a].user = u /\ add[a].pc # "end"
Emptying(e, u) == empty[e].user = u /\ empty[e].pc # "end"

SerialInv ==
    \A u \in Users \ overlap : \A a \in AddCalls : Adding(a, u) =>
        /\ \A b \in AddCalls : Adding(b, u) => b = a
        /\ \A e \in EmptyCalls : ~Emptying(e, u)
        /\ add[a].pc = "HashSet" => add[a].copy = Items(store[u])

IdleNotAnswered == \A a \in AddCalls : add[a].pc = "idle" => add[a].reply = "none"

LEMMA SerialInit == CartInit => SerialInv /\ IdleNotAnswered
<1> SUFFICES ASSUME CartInit PROVE SerialInv /\ IdleNotAnswered
    OBVIOUS
<1>1. \A a \in AddCalls : add[a].user = NoUser /\ add[a].reply = "none"
    BY DEF CartInit
<1> QED BY <1>1, CartStoreAssumption DEF SerialInv, IdleNotAnswered, Adding

\* A call that a user may make without overlapping: of a user in progress
\* nothing is asked.
LEMMA CallsSerial ==
    ASSUME CartTypeOK, SerialInv, IdleNotAnswered, NEW u \in Users,
           overlap \subseteq overlap',
           u \notin overlap' => ~\E a \in AddCalls : Adding(a, u),
           \/ \E a \in AddCalls : /\ CallAddItem(a, u)
                                  /\ u \notin overlap' => ~\E e \in EmptyCalls : Emptying(e, u)
           \/ \E e \in EmptyCalls : CallEmptyCart(e, u)
           \/ \E g \in GetCalls : CallGetCart(g, u)
    PROVE  SerialInv' /\ IdleNotAnswered'
<1>0. add \in [AddCalls -> AddHandler] /\ empty \in [EmptyCalls -> EmptyHandler]
    BY DEF CartTypeOK
<1>1. ASSUME NEW a \in AddCalls, CallAddItem(a, u),
             u \notin overlap' => ~\E e \in EmptyCalls : Emptying(e, u)
      PROVE  SerialInv' /\ IdleNotAnswered'
    <2>1. /\ add'[a].user = u /\ add'[a].pc = "HashGet" /\ add[a].pc = "idle"
          /\ \A b \in AddCalls : b # a => add'[b] = add[b]
          /\ UNCHANGED <<store, empty>>
        BY <1>0, <1>1 DEF CallAddItem, AddHandler
    <2>2. ASSUME NEW v \in Users \ overlap', NEW b \in AddCalls, Adding(b, v)'
          PROVE  /\ \A c \in AddCalls : Adding(c, v)' => c = b
                 /\ \A e \in EmptyCalls : ~Emptying(e, v)'
                 /\ add'[b].pc = "HashSet" => add'[b].copy = Items(store'[v])
        <3>1. CASE v = u
            BY <1>1, <2>1, <2>2, <3>1 DEF Adding, Emptying
        <3>2. CASE v # u
            BY <2>1, <2>2, <3>2 DEF SerialInv, Adding, Emptying
        <3> QED BY <3>1, <3>2
    <2> QED BY <2>1, <2>2 DEF SerialInv, IdleNotAnswered
<1>2. ASSUME NEW e \in EmptyCalls, CallEmptyCart(e, u)
      PROVE  SerialInv' /\ IdleNotAnswered'
    <2>1. /\ empty'[e].user = u /\ \A f \in EmptyCalls : f # e => empty'[f] = empty[f]
          /\ UNCHANGED <<store, add>>
        BY <1>0, <1>2 DEF CallEmptyCart, EmptyHandler
    <2> QED BY <2>1 DEF SerialInv, IdleNotAnswered, Adding, Emptying
<1>3. ASSUME NEW g \in GetCalls, CallGetCart(g, u)
      PROVE  SerialInv' /\ IdleNotAnswered'
    BY <1>3 DEF CallGetCart, SerialInv, IdleNotAnswered, Adding, Emptying
<1> QED BY <1>1, <1>2, <1>3

\* What HandlersNext may do, by handler: only two steps write to the store.
LEMMA HandlersSerial ==
    ASSUME CartTypeOK, CalledByUser, SerialInv, IdleNotAnswered, HandlersNext
    PROVE  SerialInv' /\ IdleNotAnswered'
<1>0. /\ add \in [AddCalls -> AddHandler] /\ empty \in [EmptyCalls -> EmptyHandler]
      /\ store \in [Users -> {NoCart} \cup SUBSET AddCalls]
    BY DEF CartTypeOK
<1>1. ASSUME NEW a \in AddCalls, AddHashGet(a) PROVE SerialInv' /\ IdleNotAnswered'
    <2> DEFINE c == Items(store[add[a].user])
    <2>1. /\ add[a].pc = "HashGet" /\ add' = [add EXCEPT ![a].pc = "HashSet", ![a].copy = c]
          /\ UNCHANGED <<store, empty, overlap>>
        BY <1>1 DEF AddHashGet
    <2>2. c = Items(store[add[a].user])
        OBVIOUS
    <2> HIDE DEF c
    <2>3. /\ \A b \in AddCalls : b # a => add'[b] = add[b]
          /\ add'[a].user = add[a].user /\ add'[a].copy = c /\ add'[a].pc = "HashSet"
        BY <1>0, <2>1 DEF AddHandler
    <2>4. ASSUME NEW v \in Users \ overlap', NEW b \in AddCalls, Adding(b, v)'
          PROVE  /\ \A d \in AddCalls : Adding(d, v)' => d = b
                 /\ \A e \in EmptyCalls : ~Emptying(e, v)'
                 /\ add'[b].pc = "HashSet" => add'[b].copy = Items(store'[v])
        <3>1. v \in Users \ overlap /\ \A d \in AddCalls : Adding(d, v)' <=> Adding(d, v)
            BY <2>1, <2>3 DEF Adding
        <3>2. Adding(b, v) /\ store' = store /\ empty' = empty
            BY <2>1, <2>4, <3>1
        <3>3. \A e \in EmptyCalls : ~Emptying(e, v)'
            BY <3>1, <3>2 DEF SerialInv, Emptying
        <3>4. ASSUME add'[b].pc = "HashSet" PROVE add'[b].copy = Items(store'[v])
            <4>1. CASE b = a
                BY <2>2, <2>3, <3>2, <4>1 DEF Adding
            <4>2. CASE b # a
                BY <2>3, <3>1, <3>2, <3>4, <4>2 DEF SerialInv
            <4> QED BY <4>1, <4>2
        <3> QED BY <3>1, <3>2, <3>3, <3>4 DEF SerialInv
    <2> QED BY <2>1, <2>3, <2>4 DEF SerialInv, IdleNotAnswered
<1>2. ASSUME NEW a \in AddCalls, AddHashSet(a) PROVE SerialInv' /\ IdleNotAnswered'
    <2>1. PICK answer \in {"ok", "error"} :
            add' = [add EXCEPT ![a].pc = "end", ![a].reply = answer]
        BY <1>2 DEF AddHashSet
    <2>2. /\ add[a].user \in Users /\ add[a].pc = "HashSet" /\ UNCHANGED <<empty, overlap>>
          /\ store' = [store EXCEPT ![add[a].user] = add[a].copy \cup {a}]
        BY <1>2 DEF AddHashSet, CalledByUser
    <2>3. /\ \A b \in AddCalls : b # a => add'[b] = add[b]
          /\ add'[a].pc = "end"
          /\ \A v \in Users : v # add[a].user => store'[v] = store[v]
        BY <1>0, <2>1, <2>2 DEF AddHandler
    <2> QED BY <2>2, <2>3 DEF SerialInv, IdleNotAnswered, Adding, Emptying
<1>3. ASSUME NEW a \in AddCalls, AddFail(a) PROVE SerialInv' /\ IdleNotAnswered'
    <2>1. /\ \A b \in AddCalls : b # a => add'[b] = add[b]
          /\ add'[a].pc = "end" /\ UNCHANGED <<store, empty, overlap>>
        BY <1>0, <1>3 DEF AddFail, AddHandler
    <2> QED BY <2>1 DEF SerialInv, IdleNotAnswered, Adding, Emptying
<1>4. ASSUME NEW e \in EmptyCalls, EmptyHashSet(e) PROVE SerialInv' /\ IdleNotAnswered'
    <2>1. PICK answer \in {"ok", "error"} :
            empty' = [empty EXCEPT ![e].pc = "end", ![e].wrote = TRUE,
                                   ![e].reply = Told(@, answer)]
        BY <1>4 DEF EmptyHashSet
    <2>2. /\ empty[e].pc = "HashSet" /\ UNCHANGED <<add, overlap>>
          /\ empty'[e].pc = "end" /\ \A f \in EmptyCalls : f # e => empty'[f] = empty[f]
          /\ \A v \in Users : v # empty[e].user => store'[v] = store[v]
        BY <1>0, <1>4, <2>1 DEF EmptyHashSet, EmptyHandler
    <2> QED BY <2>2 DEF SerialInv, IdleNotAnswered, Adding, Emptying
<1>5. ASSUME NEW e \in EmptyCalls, EmptyFail(e) \/ EmptyAbandoned(e)
      PROVE  SerialInv' /\ IdleNotAnswered'
    <2>1. /\ empty[e].pc = "HashSet" /\ empty'[e].user = empty[e].user
          /\ \A f \in EmptyCalls : f # e => empty'[f] = empty[f]
          /\ UNCHANGED <<add, store, overlap>>
        BY <1>0, <1>5 DEF EmptyFail, EmptyAbandoned, EmptyHandler
    <2> QED BY <2>1 DEF SerialInv, IdleNotAnswered, Adding, Emptying
<1>6. CASE UNCHANGED <<store, add, empty, overlap>>
    BY <1>6 DEF SerialInv, IdleNotAnswered, Adding, Emptying
<1> QED BY <1>1, <1>2, <1>3, <1>4, <1>5, <1>6
        DEF HandlersNext, AddStep, EmptyStep, GetStep, GetHashGet, GetFail

\* An EmptyCart that was executed has ended.
WroteEnded == \A e \in EmptyCalls : empty[e].wrote => empty[e].pc = "end"

LEMMA CallsWroteEnded ==
    ASSUME CartTypeOK, WroteEnded, NEW u,
           \/ \E a \in AddCalls : CallAddItem(a, u)
           \/ \E e \in EmptyCalls : CallEmptyCart(e, u)
           \/ \E g \in GetCalls : CallGetCart(g, u)
    PROVE  WroteEnded'
<1>1. ASSUME NEW e \in EmptyCalls, CallEmptyCart(e, u) PROVE WroteEnded'
    <2>1. ~empty[e].wrote /\ \A f \in EmptyCalls : f # e => empty'[f] = empty[f]
        BY <1>1 DEF CallEmptyCart, CartTypeOK, WroteEnded
    <2>2. empty'[e].wrote = empty[e].wrote
        BY <1>1 DEF CallEmptyCart, CartTypeOK, EmptyHandler
    <2> QED BY <2>1, <2>2 DEF WroteEnded
<1>2. CASE UNCHANGED empty
    BY <1>2 DEF WroteEnded
<1> QED BY <1>1, <1>2 DEF CallAddItem, CallGetCart

LEMMA HandlersWroteEnded ==
    ASSUME CartTypeOK, WroteEnded, HandlersNext
    PROVE  WroteEnded'
<1>0. empty \in [EmptyCalls -> EmptyHandler]
    BY DEF CartTypeOK
<1>1. ASSUME NEW e \in EmptyCalls, EmptyHashSet(e) PROVE WroteEnded'
    <2>1. PICK answer \in {"ok", "error"} :
            empty' = [empty EXCEPT ![e].pc = "end", ![e].wrote = TRUE,
                                   ![e].reply = Told(@, answer)]
        BY <1>1 DEF EmptyHashSet
    <2> QED BY <1>0, <2>1 DEF EmptyHandler, WroteEnded
<1>2. ASSUME NEW e \in EmptyCalls, EmptyFail(e) \/ EmptyAbandoned(e) PROVE WroteEnded'
    BY <1>0, <1>2 DEF EmptyFail, EmptyAbandoned, EmptyHandler, WroteEnded
<1>3. CASE UNCHANGED empty
    BY <1>3 DEF WroteEnded
<1> QED BY <1>1, <1>2, <1>3
        DEF HandlersNext, AddStep, AddHashGet, AddHashSet, AddFail, EmptyStep, GetStep,
            GetHashGet, GetFail

\* The invariant of the service alone.
AloneInv == CartTypeOK /\ CalledByUser /\ SerialInv /\ IdleNotAnswered /\ WroteEnded

LEMMA AloneCalls ==
    ASSUME AloneInv, NEW u \in Users,
           \/ \E a \in AddCalls : CallAddItem(a, u)
           \/ \E e \in EmptyCalls : CallEmptyCart(e, u)
           \/ \E g \in GetCalls : CallGetCart(g, u),
           NoteOverlap(u, CartBusy(u))
    PROVE  AloneInv' /\ overlap \subseteq overlap'
<1>1. /\ overlap' \subseteq Users /\ overlap \subseteq overlap'
      /\ u \notin overlap' => ~CartBusy(u)
    BY DEF NoteOverlap, AloneInv, CartTypeOK
<1>2. CartTypeOK' /\ CalledByUser'
    BY <1>1, CallsType, CallsCalledByUser DEF AloneInv
<1>3. u \notin overlap' => /\ ~\E a \in AddCalls : Adding(a, u)
                           /\ ~\E e \in EmptyCalls : Emptying(e, u)
    BY <1>1 DEF CartBusy, Adding, Emptying
<1>4. SerialInv' /\ IdleNotAnswered' /\ WroteEnded'
    BY <1>1, <1>3, CallsSerial, CallsWroteEnded DEF AloneInv
<1> QED BY <1>1, <1>2, <1>4 DEF AloneInv

LEMMA AloneInitially == CartInit => AloneInv
BY CartInitType, CalledByUserInit, SerialInit DEF AloneInv, CartInit, WroteEnded

LEMMA AloneNext == AloneInv /\ [CartNext]_cartVars => AloneInv'
<1> SUFFICES ASSUME AloneInv, [CartNext]_cartVars PROVE AloneInv'
    OBVIOUS
<1>1. CASE HandlersNext
    BY <1>1, HandlersType, HandlersCalledByUser, HandlersSerial, HandlersWroteEnded DEF AloneInv
<1>2. CASE UNCHANGED cartVars
    BY <1>2 DEF cartVars, AloneInv, CartTypeOK, CalledByUser, SerialInv, IdleNotAnswered,
                WroteEnded, Adding, Emptying
<1> QED BY <1>1, <1>2, AloneCalls DEF CartNext

\* What a handler's step does to the cart of a user who never overlapped: an
\* item is added, or the cart is emptied, by that user's own request.
LEMMA HandlersOnSerialCart ==
    ASSUME AloneInv, HandlersNext
    PROVE  /\ overlap' = overlap
           /\ \/ /\ store' = store
                 /\ \A a \in AddCalls : add'[a].user = add[a].user
                                        /\ (add'[a].reply = "ok" => add[a].reply = "ok")
                 /\ \A e \in EmptyCalls : empty[e].wrote => empty'[e] = empty[e]
              \/ \E a \in AddCalls :
                    /\ add[a].user \in Users
                    /\ store' = [store EXCEPT ![add[a].user] = add[a].copy \cup {a}]
                    /\ add[a].user \notin overlap => add[a].copy = Items(store[add[a].user])
                    /\ \A b \in AddCalls : add'[b].user = add[b].user
                                           /\ (b # a => add'[b] = add[b])
                    /\ empty' = empty
              \/ \E e \in EmptyCalls :
                    /\ empty[e].user \in Users
                    /\ store' = [store EXCEPT ![empty[e].user] = {}]
                    /\ add' = add
                    /\ empty'[e].wrote /\ empty'[e].user = empty[e].user
                    /\ \A f \in EmptyCalls : f # e => empty'[f] = empty[f]
<1>0. /\ add \in [AddCalls -> AddHandler] /\ empty \in [EmptyCalls -> EmptyHandler]
      /\ CalledByUser /\ SerialInv /\ WroteEnded
    BY DEF AloneInv, CartTypeOK
<1> DEFINE Same == /\ overlap' = overlap /\ store' = store
                   /\ \A a \in AddCalls : add'[a].user = add[a].user
                                          /\ (add'[a].reply = "ok" => add[a].reply = "ok")
                   /\ \A e \in EmptyCalls : empty[e].wrote => empty'[e] = empty[e]
<1>1. ASSUME NEW a \in AddCalls, AddHashGet(a) PROVE Same
    <2> DEFINE c == Items(store[add[a].user])
    <2>1. add' = [add EXCEPT ![a].pc = "HashSet", ![a].copy = c] /\ UNCHANGED <<store, empty, overlap>>
        BY <1>1 DEF AddHashGet
    <2> HIDE DEF c
    <2> QED BY <1>0, <2>1 DEF AddHandler
<1>2. ASSUME NEW a \in AddCalls, AddHashSet(a)
      PROVE  /\ overlap' = overlap
             /\ add[a].user \in Users
             /\ store' = [store EXCEPT ![add[a].user] = add[a].copy \cup {a}]
             /\ add[a].user \notin overlap => add[a].copy = Items(store[add[a].user])
             /\ \A b \in AddCalls : add'[b].user = add[b].user /\ (b # a => add'[b] = add[b])
             /\ empty' = empty
    <2>1. PICK answer \in {"ok", "error"} :
            add' = [add EXCEPT ![a].pc = "end", ![a].reply = answer]
        BY <1>2 DEF AddHashSet
    <2>2. \A b \in AddCalls : add'[b].user = add[b].user /\ (b # a => add'[b] = add[b])
        BY <1>0, <2>1 DEF AddHandler
    <2>3. add[a].user \in Users /\ add[a].pc = "HashSet"
        BY <1>0, <1>2 DEF AddHashSet, CalledByUser
    <2>4. add[a].user \notin overlap => add[a].copy = Items(store[add[a].user])
        BY <1>0, <2>3 DEF SerialInv, Adding
    <2> QED BY <1>2, <2>2, <2>3, <2>4 DEF AddHashSet
<1>3. ASSUME NEW a \in AddCalls, AddFail(a) PROVE Same
    BY <1>0, <1>3 DEF AddFail, AddHandler
<1>4. ASSUME NEW e \in EmptyCalls, EmptyHashSet(e)
      PROVE  /\ overlap' = overlap
             /\ empty[e].user \in Users
             /\ store' = [store EXCEPT ![empty[e].user] = {}]
             /\ add' = add
             /\ empty'[e].wrote /\ empty'[e].user = empty[e].user
             /\ \A f \in EmptyCalls : f # e => empty'[f] = empty[f]
    <2>1. PICK answer \in {"ok", "error"} :
            empty' = [empty EXCEPT ![e].pc = "end", ![e].wrote = TRUE,
                                   ![e].reply = Told(@, answer)]
        BY <1>4 DEF EmptyHashSet
    <2>2. /\ empty'[e].wrote /\ empty'[e].user = empty[e].user
          /\ \A f \in EmptyCalls : f # e => empty'[f] = empty[f]
        BY <1>0, <2>1 DEF EmptyHandler
    <2>3. empty[e].user \in Users
        BY <1>0, <1>4 DEF EmptyHashSet, CalledByUser
    <2> QED BY <1>4, <2>2, <2>3 DEF EmptyHashSet
<1>5. ASSUME NEW e \in EmptyCalls, EmptyFail(e) \/ EmptyAbandoned(e) PROVE Same
    <2>1. /\ ~empty[e].wrote /\ \A f \in EmptyCalls : f # e => empty'[f] = empty[f]
          /\ UNCHANGED <<store, add, overlap>>
        BY <1>0, <1>5 DEF EmptyFail, EmptyAbandoned, WroteEnded
    <2> QED BY <2>1
<1>6. ASSUME NEW g \in GetCalls, GetStep(g) PROVE Same
    BY <1>6 DEF GetStep, GetHashGet, GetFail
<1>7. \/ Same
      \/ \E a \in AddCalls : AddHashSet(a)
      \/ \E e \in EmptyCalls : EmptyHashSet(e)
    BY <1>1, <1>3, <1>5, <1>6 DEF HandlersNext, AddStep, EmptyStep
<1>8. CASE Same
    BY <1>8
<1>9. CASE \E a \in AddCalls : AddHashSet(a)
    BY <1>2, <1>9
<1>10. CASE \E e \in EmptyCalls : EmptyHashSet(e)
    BY <1>4, <1>10
<1> QED BY <1>7, <1>8, <1>9, <1>10

LEMMA HandlersKeepAcked ==
    ASSUME AloneInv, AckedItemKept, HandlersNext
    PROVE  AckedItemKept'
<1>0. /\ overlap' = overlap
      /\ store \in [Users -> {NoCart} \cup SUBSET AddCalls] /\ CartTypeOK
    BY HandlersOnSerialCart DEF AloneInv, CartTypeOK
<1> SUFFICES ASSUME NEW u \in Users \ overlap, NEW a \in AddCalls,
                    add'[a].user = u, add'[a].reply = "ok", a \notin Items(store'[u])
             PROVE  \E e \in EmptyCalls : empty'[e].user = u /\ empty'[e].wrote
    BY <1>0 DEF AckedItemKept
<1> DEFINE Emptied == \E e \in EmptyCalls : empty[e].user = u /\ empty[e].wrote
<1>1. ASSUME add[a].user = u, add[a].reply = "ok", a \notin Items(store[u]) PROVE Emptied
    BY <1>1 DEF AckedItemKept
<1> HIDE DEF Emptied
<1>2. CASE /\ store' = store
           /\ \A b \in AddCalls : add'[b].user = add[b].user
                                  /\ (add'[b].reply = "ok" => add[b].reply = "ok")
           /\ \A e \in EmptyCalls : empty[e].wrote => empty'[e] = empty[e]
    BY <1>1, <1>2 DEF Emptied
<1>3. ASSUME NEW b \in AddCalls,
             add[b].user \in Users,
             store' = [store EXCEPT ![add[b].user] = add[b].copy \cup {b}],
             add[b].user \notin overlap => add[b].copy = Items(store[add[b].user]),
             \A c \in AddCalls : add'[c].user = add[c].user /\ (c # b => add'[c] = add[c]),
             empty' = empty
      PROVE  \E e \in EmptyCalls : empty'[e].user = u /\ empty'[e].wrote
    <2>1. CASE add[b].user # u
        BY <1>0, <1>1, <1>3, <2>1 DEF Emptied
    <2>2. CASE add[b].user = u
        <3>1. store'[u] = Items(store[u]) \cup {b}
            BY <1>0, <1>3, <2>2
        <3>2. Items(store'[u]) = Items(store[u]) \cup {b}
            <4>1. Items(store[u]) \cup {b} \in SUBSET AddCalls
                BY <1>0, CartSets
            <4> QED BY <3>1, <4>1, CartStoreAssumption DEF Items
        <3>3. a # b /\ a \notin Items(store[u])
            BY <3>2
        <3> QED BY <1>1, <1>3, <3>3 DEF Emptied
    <2> QED BY <2>1, <2>2
<1>4. ASSUME NEW e \in EmptyCalls,
             empty[e].user \in Users,
             store' = [store EXCEPT ![empty[e].user] = {}],
             add' = add,
             empty'[e].wrote, empty'[e].user = empty[e].user,
             \A f \in EmptyCalls : f # e => empty'[f] = empty[f]
      PROVE  \E f \in EmptyCalls : empty'[f].user = u /\ empty'[f].wrote
    <2>1. CASE empty[e].user = u
        BY <1>4, <2>1
    <2>2. CASE empty[e].user # u
        <3>1. store'[u] = store[u]
            BY <1>0, <1>4, <2>2
        <3> QED BY <1>1, <1>4, <2>2, <3>1 DEF Emptied
    <2> QED BY <2>1, <2>2
<1> QED BY <1>2, <1>3, <1>4, HandlersOnSerialCart

LEMMA CallsKeepAcked ==
    ASSUME AloneInv, AckedItemKept, overlap \subseteq overlap', NEW u,
           \/ \E a \in AddCalls : CallAddItem(a, u)
           \/ \E e \in EmptyCalls : CallEmptyCart(e, u)
           \/ \E g \in GetCalls : CallGetCart(g, u)
    PROVE  AckedItemKept'
<1>0. /\ add \in [AddCalls -> AddHandler] /\ empty \in [EmptyCalls -> EmptyHandler]
      /\ IdleNotAnswered /\ WroteEnded
    BY DEF AloneInv, CartTypeOK
<1>1. ASSUME NEW a \in AddCalls, CallAddItem(a, u) PROVE AckedItemKept'
    <2>1. /\ add'[a].reply # "ok" /\ \A b \in AddCalls : b # a => add'[b] = add[b]
          /\ UNCHANGED <<store, empty>>
        BY <1>0, <1>1 DEF CallAddItem, AddHandler, IdleNotAnswered
    <2> QED BY <2>1 DEF AckedItemKept
<1>2. ASSUME NEW e \in EmptyCalls, CallEmptyCart(e, u) PROVE AckedItemKept'
    <2>1. /\ ~empty[e].wrote /\ \A f \in EmptyCalls : f # e => empty'[f] = empty[f]
          /\ UNCHANGED <<store, add>>
        BY <1>0, <1>2 DEF CallEmptyCart, WroteEnded
    <2> QED BY <2>1 DEF AckedItemKept
<1>3. ASSUME NEW g \in GetCalls, CallGetCart(g, u) PROVE AckedItemKept'
    BY <1>3 DEF CallGetCart, AckedItemKept
<1> QED BY <1>1, <1>2, <1>3

\* A user who waits for each answer and each handler keeps what was
\* acknowledged until an EmptyCart of that user is executed, for any users and
\* calls, and whatever Redis does.
THEOREM AckedItemsStay == CartSpec => []AckedItemKept
<1> DEFINE Inv == AloneInv /\ AckedItemKept
<1>1. CartInit => Inv
    <2>1. CartInit => AckedItemKept
        BY DEF CartInit, AckedItemKept
    <2> QED BY <2>1, AloneInitially
<1>2. Inv /\ [CartNext]_cartVars => Inv'
    <2>1. ASSUME Inv, [CartNext]_cartVars PROVE AckedItemKept'
        <3>1. CASE HandlersNext
            BY <2>1, <3>1, HandlersKeepAcked
        <3>2. CASE UNCHANGED cartVars
            BY <2>1, <3>2 DEF cartVars, AckedItemKept
        <3> QED BY <2>1, <3>1, <3>2, AloneCalls, CallsKeepAcked DEF CartNext
    <2> QED BY <2>1, AloneNext
<1> QED BY <1>1, <1>2, PTL DEF CartSpec

-----------------------------------------------------------------------------
(***************************************************************************)
(* The refinement of Cart: the write of an AddItem handler is the abstract *)
(* AddItem, that of an EmptyCart handler the abstract EmptyCart, a call    *)
(* that overlaps another one Overlap, and every other step a stutter.      *)
(***************************************************************************)
LEMMA CallsMap ==
    ASSUME AloneInv, NEW u \in Users, store' = store, NoteOverlap(u, CartBusy(u))
    PROVE  AbstractCart!Next \/ UNCHANGED AtomicCart
<1> USE DEF AbstractCart!Next, AbstractCart!Overlap, AtomicCart
<1>1. CASE overlap' = overlap
    BY <1>1
<1>2. CASE overlap' = overlap \cup {u}
    <2>1. AbstractCart!Overlap(u)
        BY <1>2
    <2> QED BY <2>1
<1> QED BY <1>1, <1>2 DEF NoteOverlap

LEMMA HandlersMap ==
    ASSUME AloneInv, HandlersNext
    PROVE  AbstractCart!Next \/ UNCHANGED AtomicCart
<1>0. /\ overlap' = overlap
      /\ store \in [Users -> {NoCart} \cup SUBSET AddCalls] /\ CartTypeOK
      /\ \A u \in Users : Items(store[u]) \in SUBSET AddCalls /\ Items(store[u]) # NoPromise
    BY HandlersOnSerialCart, CartSets, CartStoreAssumption DEF AloneInv, CartTypeOK
<1> USE DEF AtomicCart
<1>1. CASE store' = store
    BY <1>0, <1>1
<1>2. ASSUME NEW a \in AddCalls,
             add[a].user \in Users,
             store' = [store EXCEPT ![add[a].user] = add[a].copy \cup {a}],
             add[a].user \notin overlap => add[a].copy = Items(store[add[a].user])
      PROVE  AbstractCart!Next \/ UNCHANGED AtomicCart
    <2> DEFINE u == add[a].user
    <2>1. \A v \in Users : v # u => store'[v] = store[v]
        BY <1>0, <1>2
    <2>2. CASE u \in overlap
        BY <1>0, <2>1, <2>2
    <2>3. CASE u \notin overlap
        <3>1. store'[u] = Items(store[u]) \cup {a}
            BY <1>0, <1>2, <2>3
        <3>2. Items(store[u]) \cup {a} \in SUBSET AddCalls
            BY <1>0, <1>2
        <3>3. Items(store'[u]) = Items(store[u]) \cup {a}
            BY <3>1, <3>2, CartStoreAssumption DEF Items
        <3>4. AbstractCart!AddItem(u, a)
            BY <1>0, <1>2, <2>1, <2>3, <3>3 DEF AbstractCart!AddItem
        <3> QED BY <1>2, <3>4 DEF AbstractCart!Next
    <2> QED BY <2>2, <2>3
<1>3. ASSUME NEW e \in EmptyCalls,
             empty[e].user \in Users,
             store' = [store EXCEPT ![empty[e].user] = {}]
      PROVE  AbstractCart!Next \/ UNCHANGED AtomicCart
    <2> DEFINE u == empty[e].user
    <2>1. /\ \A v \in Users : v # u => store'[v] = store[v]
          /\ store'[u] = {}
        BY <1>0, <1>3
    <2>2. CASE u \in overlap
        BY <1>0, <2>1, <2>2
    <2>3. CASE u \notin overlap
        <3>1. Items(store'[u]) = {}
            BY <2>1 DEF Items
        <3>2. AtomicCart[u] # NoPromise
            BY <1>0, <1>3, <2>3
        <3>3. AtomicCart' = [AtomicCart EXCEPT ![u] = {}]
            BY <1>0, <1>3, <2>1, <2>3, <3>1
        <3> QED BY <1>3, <3>2, <3>3 DEF AbstractCart!Next, AbstractCart!EmptyCart
    <2> QED BY <2>2, <2>3
<1> QED BY <1>1, <1>2, <1>3, HandlersOnSerialCart

\* The store on Redis is the atomic cart of module Cart to every user whose
\* requests never overlapped, for any users and calls.
THEOREM CartImplemented == CartSpec => ImplementsCart
<1>1. CartInit => AbstractCart!Init
    BY DEF CartInit, AbstractCart!Init, AtomicCart, Items
<1>2. AloneInv /\ [CartNext]_cartVars => [AbstractCart!Next]_(AtomicCart)
    <2> SUFFICES ASSUME AloneInv, [CartNext]_cartVars
                 PROVE  AbstractCart!Next \/ UNCHANGED AtomicCart
        OBVIOUS
    <2>1. CASE HandlersNext
        BY <2>1, HandlersMap
    <2>2. CASE UNCHANGED cartVars
        BY <2>2 DEF cartVars, AtomicCart
    <2>3. ASSUME NEW u \in Users,
                 \/ \E a \in AddCalls : CallAddItem(a, u)
                 \/ \E e \in EmptyCalls : CallEmptyCart(e, u)
                 \/ \E g \in GetCalls : CallGetCart(g, u),
                 NoteOverlap(u, CartBusy(u))
          PROVE  AbstractCart!Next \/ UNCHANGED AtomicCart
        <3>1. store' = store
            BY <2>3 DEF CallAddItem, CallEmptyCart, CallGetCart
        <3> QED BY <2>3, <3>1, CallsMap
    <2> QED BY <2>1, <2>2, <2>3 DEF CartNext
<1>3. CartSpec => []AloneInv
    BY AloneInitially, AloneNext, PTL DEF CartSpec
<1> QED BY <1>1, <1>2, <1>3, PTL DEF CartSpec, ImplementsCart, AbstractCart!Spec

-----------------------------------------------------------------------------
-----------------------------------------------------------------------------
(***************************************************************************)
(* Type correctness.  IInvType adds to the types that a handler or order   *)
(* in progress has a user.                                                 *)
(***************************************************************************)
OrderRecord == [pc: {"idle"} \cup Waiting \cup Ended,
                user: Users \cup {NoUser}, items: SUBSET AddCalls]

OrderedByUser == \A o \in Orders : order[o].pc # "idle" => order[o].user \in Users

\* The part of TypeOK that the cart service does not touch.
OrderTypeOK ==
    /\ order \in [Orders -> OrderRecord]
    /\ charge \in [Orders -> Request]
    /\ ship \in [Orders -> Request]
    /\ mail \subseteq Orders
    /\ revived \subseteq AddCalls
    /\ after \in [Orders -> SUBSET Orders]
    /\ OrderedByUser

IInvType == CartTypeOK /\ CalledByUser /\ OrderTypeOK

LEMMA InitType == Init => IInvType
<1> SUFFICES ASSUME Init PROVE IInvType
    OBVIOUS
<1>1. CartTypeOK /\ CalledByUser
    BY CartInitType, CalledByUserInit DEF Init
<1>2. OrderTypeOK
    BY DEF Init, OrderTypeOK, OrderRecord, OrderedByUser, Request
<1> QED BY <1>1, <1>2 DEF IInvType

LEMMA CartUnchangedType ==
    ASSUME CartTypeOK, CalledByUser, UNCHANGED cartVars
    PROVE  CartTypeOK' /\ CalledByUser'
BY DEF cartVars, CartTypeOK, CalledByUser

LEMMA NoteOverlapType ==
    ASSUME CartTypeOK, NEW u \in Users, NEW busy, NoteOverlap(u, busy)
    PROVE  overlap' \subseteq Users
BY DEF NoteOverlap, CartTypeOK

LEMMA OrderUnchangedType ==
    ASSUME OrderTypeOK, UNCHANGED <<orderVars, history>>
    PROVE  OrderTypeOK'
BY DEF OrderTypeOK, OrderedByUser, orderVars, history

LEMMA ShopperType ==
    ASSUME IInvType, NEW u \in Users, Shopper(u)
    PROVE  IInvType'
<1>0. CartTypeOK /\ CalledByUser /\ OrderTypeOK
    BY DEF IInvType
<1>1. ASSUME NEW a \in AddCalls, AddToCart(a, u) PROVE IInvType'
    <2>1. CallAddItem(a, u) /\ overlap' \subseteq Users /\ OrderTypeOK'
        BY <1>0, <1>1, NoteOverlapType, OrderUnchangedType DEF AddToCart
    <2> QED BY <1>0, <2>1, CallsType, CallsCalledByUser DEF IInvType
<1>2. ASSUME NEW e \in EmptyCalls \ Orders, EmptyOwnCart(e, u) PROVE IInvType'
    <2>1. CallEmptyCart(e, u) /\ overlap' \subseteq Users /\ OrderTypeOK'
        BY <1>0, <1>2, NoteOverlapType, OrderUnchangedType DEF EmptyOwnCart
    <2> QED BY <1>0, <2>1, CallsType, CallsCalledByUser DEF IInvType
<1>3. ASSUME NEW o \in Orders, PlaceOrder(o, u) PROVE IInvType'
    <2>1. CallGetCart(o, u) /\ overlap' \subseteq Users /\ o \in GetCalls
        BY <1>0, <1>3, NoteOverlapType, CheckoutAssumption DEF PlaceOrder
    <2>2. OrderTypeOK'
        BY <1>0, <1>3 DEF PlaceOrder, OrderTypeOK, OrderedByUser, OrderRecord, Waiting, history
    <2> QED BY <1>0, <2>1, <2>2, CallsType, CallsCalledByUser DEF IInvType
<1> QED BY <1>1, <1>2, <1>3 DEF Shopper

LEMMA OrderStepType ==
    ASSUME IInvType, NEW o \in Orders, OrderStep(o) \/ LoseAnswer(o)
    PROVE  IInvType'
<1>0. CartTypeOK /\ CalledByUser /\ OrderTypeOK
    BY DEF IInvType
<1> USE DEF OrderTypeOK, OrderedByUser, OrderRecord, Waiting, Ended, Request, history
<1>1. CASE GetUserCart(o)
    <2>1. get[o].copy \in SUBSET AddCalls
        BY <1>0, CheckoutAssumption DEF CartTypeOK, GetHandler
    <2>2. OrderTypeOK'
        BY <1>0, <1>1, <2>1 DEF GetUserCart
    <2> QED BY <1>0, <1>1, <2>2, CartUnchangedType DEF IInvType, GetUserCart
<1>2. CASE ChargeCard(o)
    <2>1. OrderTypeOK'
        BY <1>0, <1>2 DEF ChargeCard, Goto
    <2> QED BY <1>0, <1>2, <2>1, CartUnchangedType DEF IInvType, ChargeCard
<1>3. CASE ShipOrder(o)
    <2>1. OrderTypeOK'
        BY <1>0, <1>3 DEF ShipOrder, Goto
    <2> QED BY <1>0, <1>3, <2>1, CartUnchangedType DEF IInvType, ShipOrder
<1>4. CASE EmptyUserCart(o)
    <2>1. OrderTypeOK'
        BY <1>0, <1>4 DEF EmptyUserCart, Goto
    <2>2. /\ order[o].user \in Users /\ o \in EmptyCalls /\ overlap' \subseteq Users
          /\ CallEmptyCart(o, order[o].user)
        BY <1>0, <1>4, CheckoutAssumption DEF EmptyUserCart, CartTypeOK
    <2> QED BY <1>0, <2>1, <2>2, CallsType, CallsCalledByUser DEF IInvType
<1>5. CASE SendOrderConfirmation(o)
    <2>1. OrderTypeOK'
        BY <1>0, <1>5 DEF SendOrderConfirmation, Goto
    <2> QED BY <1>0, <1>5, <2>1, CartUnchangedType DEF IInvType, SendOrderConfirmation
<1>6. CASE ReturnOrder(o) \/ FailOrder(o) \/ LoseAnswer(o)
    <2>0. /\ order[o].pc # "idle"
          /\ order' = [order EXCEPT ![o].pc = "placed"] \/ order' = [order EXCEPT ![o].pc = "failed"]
          /\ UNCHANGED <<charge, ship, mail, history>>
        BY <1>6 DEF ReturnOrder, FailOrder, LoseAnswer, Goto
    <2>1. OrderTypeOK'
        BY <1>0, <2>0
    <2> QED BY <1>0, <1>6, <2>1, CartUnchangedType DEF IInvType, ReturnOrder, FailOrder, LoseAnswer
<1> QED BY <1>1, <1>2, <1>3, <1>4, <1>5, <1>6 DEF OrderStep

LEMMA ServiceStepType ==
    ASSUME IInvType, NEW o \in Orders, ServiceStep(o)
    PROVE  IInvType'
<1>0. CartTypeOK /\ CalledByUser /\ OrderTypeOK
    BY DEF IInvType
<1>1. UNCHANGED cartVars
    BY DEF ServiceStep, PaymentStep, ShippingStep
<1>2. OrderTypeOK'
    BY <1>0 DEF ServiceStep, PaymentStep, ShippingStep, Execute, OrderTypeOK, OrderedByUser,
                Request, history
<1> QED BY <1>0, <1>1, <1>2, CartUnchangedType DEF IInvType

LEMMA CrashType == ASSUME IInvType, Crash PROVE IInvType'
<1>0. CartTypeOK /\ CalledByUser /\ OrderTypeOK
    BY DEF IInvType
<1>1. UNCHANGED <<cartVars, charge, ship, mail, history>>
    BY DEF Crash
<1>2. order' \in [Orders -> OrderRecord] /\ OrderedByUser'
    BY <1>0 DEF Crash, OrderTypeOK, OrderedByUser, OrderRecord, Waiting, Ended
<1>3. OrderTypeOK'
    BY <1>0, <1>1, <1>2 DEF OrderTypeOK, history
<1> QED BY <1>0, <1>1, <1>3, CartUnchangedType DEF IInvType

\* A step of the cart service within Checkout is a step of CartStore.
LEMMA CartStepIsHandlerStep == CartStep => HandlersNext
BY CheckoutAssumption
   DEF CartStep, HandlersNext, WriteBack, CartEmptyStep, CartReadStep, ReadForOrder,
       AddStep, GetStep

LEMMA CartStepType == ASSUME IInvType, CartStep PROVE IInvType'
<1>0. CartTypeOK /\ CalledByUser /\ OrderTypeOK
    BY DEF IInvType
<1>1. CartTypeOK' /\ CalledByUser'
    BY <1>0, CartStepIsHandlerStep, HandlersType, HandlersCalledByUser
<1>2. ASSUME NEW a \in AddCalls, WriteBack(a) PROVE OrderTypeOK'
    <2>1. add[a].copy \in SUBSET AddCalls
        BY <1>0 DEF CartTypeOK, AddHandler
    <2> QED BY <1>0, <1>2, <2>1
            DEF WriteBack, OrderTypeOK, OrderedByUser, orderVars
<1>3. ASSUME NEW o \in Orders, ReadForOrder(o) PROVE OrderTypeOK'
    BY <1>0, <1>3 DEF ReadForOrder, OrderTypeOK, OrderedByUser, orderVars
<1>4. ASSUME UNCHANGED <<orderVars, history>> PROVE OrderTypeOK'
    BY <1>0, <1>4, OrderUnchangedType
<1>5. OrderTypeOK'
    BY <1>2, <1>3, <1>4 DEF CartStep, CartReadStep, CartEmptyStep
<1> QED BY <1>1, <1>5 DEF IInvType

LEMMA NextType == IInvType /\ [Next]_vars => IInvType'
<1> SUFFICES ASSUME IInvType, [Next]_vars PROVE IInvType'
    OBVIOUS
<1>1. CASE UNCHANGED vars
    BY <1>1, CartUnchangedType, OrderUnchangedType DEF IInvType, vars
<1>2. CASE Next
    BY <1>2, ShopperType, OrderStepType, ServiceStepType, CrashType, CartStepType DEF Next
<1> QED BY <1>1, <1>2

\* Every variable of Checkout keeps its type.
THEOREM TypeCorrect == Spec => []TypeOK
<1>1. IInvType => TypeOK
    BY DEF IInvType, OrderTypeOK, OrderRecord, TypeOK
<1> QED BY InitType, NextType, <1>1, PTL DEF Spec

-----------------------------------------------------------------------------
(***************************************************************************)
(* EffectsInOrder.  Alone it is not inductive: that a payment is executed  *)
(* when the goods are sent out must stay true, so an order that has not    *)
(* reached an RPC must not have a request of it anywhere (PcInv).          *)
(***************************************************************************)
PcInv ==
    \A o \in Orders :
        /\ order[o].pc \in {"idle", "getUserCart", "prepare"} => charge[o] = "none"
        /\ order[o].pc \in {"idle", "getUserCart", "prepare", "chargeCard"} => ship[o] = "none"
        /\ order[o].pc \in {"idle", "getUserCart", "prepare", "chargeCard", "shipOrder"}
              => empty[o].pc = "idle"
        /\ order[o].pc \in {"emptyUserCart", "sendOrderConfirmation", "placed"} => ship[o] = "ok"

IInvEffects == PcInv /\ EffectsInOrder

\* What an order's part of PcInv and EffectsInOrder says of one order.
OneOrder(pc, ch, sh, emptyPc, reply, mailed) ==
    /\ pc \in {"idle", "getUserCart", "prepare"} => ch = "none"
    /\ pc \in {"idle", "getUserCart", "prepare", "chargeCard"} => sh = "none"
    /\ pc \in {"idle", "getUserCart", "prepare", "chargeCard", "shipOrder"} => emptyPc = "idle"
    /\ pc \in {"emptyUserCart", "sendOrderConfirmation", "placed"} => sh = "ok"
    /\ sh # "none" => ch = "ok"
    /\ emptyPc # "idle" => sh = "ok"
    /\ mailed => sh = "ok" /\ reply # "none"
    /\ pc = "placed" => ch = "ok" /\ sh = "ok"

Effects(o) == OneOrder(order[o].pc, charge[o], ship[o], empty[o].pc, empty[o].reply, o \in mail)

LEMMA IInvEffectsIsAllOrders == IInvEffects <=> \A o \in Orders : Effects(o)
BY DEF IInvEffects, PcInv, EffectsInOrder, Effects, OneOrder

\* What a step of the cart service may do to a cart request of an order.
LEMMA HandlersKeepOrderRequests ==
    ASSUME CartTypeOK, HandlersNext, NEW e \in EmptyCalls
    PROVE  /\ empty'[e].pc = "idle" <=> empty[e].pc = "idle"
           /\ empty[e].reply # "none" => empty'[e].reply # "none"
<1>0. empty \in [EmptyCalls -> EmptyHandler]
    BY DEF CartTypeOK
<1>1. ASSUME NEW f \in EmptyCalls, EmptyStep(f) \/ EmptyAbandoned(f)
      PROVE  /\ empty'[e].pc = "idle" <=> empty[e].pc = "idle"
             /\ empty[e].reply # "none" => empty'[e].reply # "none"
    <2>1. CASE EmptyHashSet(f)
        <3>1. PICK answer \in {"ok", "error"} :
                empty' = [empty EXCEPT ![f].pc = "end", ![f].wrote = TRUE,
                                       ![f].reply = Told(@, answer)]
            BY <2>1 DEF EmptyHashSet
        <3> QED BY <1>0, <2>1, <3>1 DEF EmptyHashSet, EmptyHandler, Told
    <2>2. CASE EmptyFail(f)
        BY <1>0, <2>2 DEF EmptyFail, EmptyHandler, Told
    <2>3. CASE EmptyAbandoned(f)
        BY <1>0, <2>3 DEF EmptyAbandoned, EmptyHandler
    <2> QED BY <1>1, <2>1, <2>2, <2>3 DEF EmptyStep
<1>2. CASE UNCHANGED empty
    BY <1>2
<1> QED BY <1>1, <1>2
        DEF HandlersNext, AddStep, AddHashGet, AddHashSet, AddFail, GetStep, GetHashGet, GetFail

LEMMA InitEffects == Init => \A o \in Orders : Effects(o)
BY CheckoutAssumption DEF Init, CartInit, Effects, OneOrder

LEMMA NextEffects ==
    ASSUME IInvType, \A o \in Orders : Effects(o), [Next]_vars, NEW o \in Orders
    PROVE  Effects(o)'
<1>0. /\ CartTypeOK /\ OrderTypeOK /\ Effects(o)
      /\ o \in EmptyCalls
      /\ order \in [Orders -> OrderRecord]
      /\ charge \in [Orders -> Request] /\ ship \in [Orders -> Request]
    BY CheckoutAssumption DEF IInvType, OrderTypeOK
<1>1. CASE UNCHANGED <<order, charge, ship, mail, empty>>
    BY <1>0, <1>1 DEF Effects
<1>2. ASSUME NEW u \in Users, Shopper(u) PROVE Effects(o)'
    <2>1. CASE \E a \in AddCalls : AddToCart(a, u)
        BY <1>1, <2>1 DEF AddToCart, CallAddItem, orderVars
    <2>2. ASSUME NEW e \in EmptyCalls \ Orders, EmptyOwnCart(e, u) PROVE Effects(o)'
        <3>1. empty'[o] = empty[o] /\ UNCHANGED orderVars
            BY <1>0, <2>2 DEF EmptyOwnCart, CallEmptyCart, CartTypeOK
        <3> QED BY <1>0, <3>1 DEF Effects, orderVars
    <2>3. ASSUME NEW p \in Orders, PlaceOrder(p, u) PROVE Effects(o)'
        <3>1. \/ order'[o].pc = order[o].pc
              \/ order[o].pc = "idle" /\ order'[o].pc = "getUserCart"
            BY <1>0, <2>3 DEF PlaceOrder, OrderRecord
        <3>2. UNCHANGED <<charge, ship, mail, empty>>
            BY <2>3 DEF PlaceOrder, CallGetCart
        <3> QED BY <1>0, <3>1, <3>2 DEF Effects, OneOrder
    <2> QED BY <1>2, <2>1, <2>2, <2>3 DEF Shopper
<1>3. ASSUME NEW p \in Orders, OrderStep(p) \/ LoseAnswer(p) PROVE Effects(o)'
    <2>1. CASE o # p
        <3>1. order'[o] = order[o] /\ charge'[o] = charge[o] /\ ship'[o] = ship[o]
              /\ (o \in mail' <=> o \in mail) /\ empty'[o] = empty[o]
            BY <1>0, <1>3, <2>1
               DEF OrderStep, LoseAnswer, GetUserCart, ChargeCard, ShipOrder, EmptyUserCart,
                   SendOrderConfirmation, ReturnOrder, FailOrder, Goto, CallEmptyCart,
                   cartVars, CartTypeOK
        <3> QED BY <1>0, <3>1 DEF Effects
    <2>2. CASE o = p
        <3> USE <1>0, <2>2 DEF Effects, OneOrder, OrderRecord, cartVars
        <3>1. CASE GetUserCart(p)
            BY <3>1 DEF GetUserCart
        <3>2. CASE ChargeCard(p)
            BY <3>2 DEF ChargeCard, Goto
        <3>3. CASE ShipOrder(p)
            BY <3>3 DEF ShipOrder, Goto
        <3>4. CASE EmptyUserCart(p)
            <4>1. /\ order[p].pc = "shipOrder" /\ ship[p] = "ok"
                  /\ order'[p].pc = "emptyUserCart"
                  /\ UNCHANGED <<charge, ship, mail>>
                BY <3>4 DEF EmptyUserCart, Goto
            <4>2. empty'[p].reply = empty[p].reply
                BY <3>4 DEF EmptyUserCart, CallEmptyCart, CartTypeOK, EmptyHandler
            <4> QED BY <4>1, <4>2
        <3>5. CASE SendOrderConfirmation(p)
            BY <3>5 DEF SendOrderConfirmation, Goto
        <3>6. CASE ReturnOrder(p)
            BY <3>6 DEF ReturnOrder, Goto
        <3>7. CASE FailOrder(p)
            BY <3>7 DEF FailOrder, Goto
        <3>8. CASE LoseAnswer(p)
            BY <3>8 DEF LoseAnswer, Goto
        <3> QED BY <1>3, <3>1, <3>2, <3>3, <3>4, <3>5, <3>6, <3>7, <3>8 DEF OrderStep
    <2> QED BY <2>1, <2>2
<1>4. ASSUME NEW p \in Orders, ServiceStep(p) PROVE Effects(o)'
    <2>1. /\ charge'[o] = charge[o] \/ charge[o] = "sent"
          /\ ship'[o] = ship[o] \/ (ship[o] = "sent" /\ ship'[o] # "none")
          /\ UNCHANGED <<order, mail, empty>>
        BY <1>0, <1>4
           DEF ServiceStep, PaymentStep, ShippingStep, Execute, cartVars
    <2> QED BY <1>0, <2>1 DEF Effects, OneOrder
<1>5. CASE Crash
    <2>1. order'[o].pc = order[o].pc \/ order'[o].pc = "crashed"
        BY <1>0, <1>5 DEF Crash, OrderRecord
    <2>2. UNCHANGED <<charge, ship, mail, empty>>
        BY <1>5 DEF Crash, cartVars
    <2> QED BY <1>0, <2>1, <2>2 DEF Effects, OneOrder
<1>6. CASE CartStep
    <2>1. /\ empty'[o].pc = "idle" <=> empty[o].pc = "idle"
          /\ empty[o].reply # "none" => empty'[o].reply # "none"
        BY <1>0, <1>6, CartStepIsHandlerStep, HandlersKeepOrderRequests
    <2>2. UNCHANGED orderVars
        BY <1>6 DEF CartStep, WriteBack, CartEmptyStep, CartReadStep, ReadForOrder
    <2> QED BY <1>0, <2>1, <2>2 DEF Effects, OneOrder, orderVars
<1>7. CASE UNCHANGED vars
    BY <1>1, <1>7 DEF vars, cartVars, orderVars
<1> QED BY <1>2, <1>3, <1>4, <1>5, <1>6, <1>7 DEF Next

\* Payment, shipment, emptying of the cart and confirmation of an order happen
\* in this order whatever fails, is lost or crashes, and an order returned to
\* the shopper is paid and shipped.
THEOREM EffectsAlwaysInOrder == Spec => []EffectsInOrder
<1> DEFINE Inv == IInvType /\ \A o \in Orders : Effects(o)
<1>1. Init => Inv
    BY InitType, InitEffects
<1>2. Inv /\ [Next]_vars => Inv'
    BY NextType, NextEffects
<1>3. Inv => EffectsInOrder
    BY IInvEffectsIsAllOrders DEF IInvEffects
<1> QED BY <1>1, <1>2, <1>3, PTL DEF Spec
-----------------------------------------------------------------------------
(***************************************************************************)
(* BilledAgainOnlyIfRevived.  The invariant follows the items of an order  *)
(* from the cart it read: they belong to the order's user, the cart that   *)
(* is emptied is the one that was read, and from the moment it is emptied  *)
(* no cart holds one of them that was not written back (EmptiedGone).      *)
(***************************************************************************)
SameUser ==
    \A o \in Orders :
        /\ order[o].pc # "idle" => get[o].user = order[o].user
        /\ empty[o].pc # "idle" => empty[o].user = order[o].user

OwnOrders ==
    \A o \in Orders :
        /\ OwnedIn(add, order[o].user, order[o].items)
        /\ order[o].pc \in {"idle", "getUserCart"} => order[o].items = {}

EmptiedGone ==
    \A p \in Orders : empty[p].wrote =>
        \A u \in Users : Items(store[u]) \cap order[p].items \subseteq revived

ReadAfter ==
    \A o \in Orders : \A p \in after[o] :
        /\ empty[p].wrote /\ get[o].pc = "end"
        /\ get[o].copy \cap order[p].items \subseteq revived

RevInv == WroteEnded /\ SameUser /\ OwnOrders /\ EmptiedGone /\ ReadAfter

LEMMA RevInit == Init => RevInv
<1> SUFFICES ASSUME Init PROVE RevInv
    OBVIOUS
<1>1. /\ \A e \in EmptyCalls : empty[e].wrote = FALSE /\ empty[e].pc = "idle"
      /\ \A o \in Orders : /\ order[o].pc = "idle" /\ order[o].items = {} /\ after[o] = {}
                           /\ o \in EmptyCalls
    BY CheckoutAssumption DEF Init, CartInit
<1> QED BY <1>1 DEF RevInv, WroteEnded, SameUser, OwnOrders, OwnedIn, EmptiedGone, ReadAfter

\* The order of a user who is emptying or has emptied the cart has its items.
LEMMA EmptyingHasItems ==
    ASSUME RevInv, NEW o \in Orders, Effects(o), order[o].pc \in {"idle", "getUserCart"}
    PROVE  empty[o].pc = "idle" /\ ~empty[o].wrote
<1>1. empty[o].pc = "idle"
    BY DEF Effects, OneOrder
<1>2. o \in EmptyCalls
    BY CheckoutAssumption
<1> QED BY <1>1, <1>2 DEF RevInv, WroteEnded

\* A step that changes no cart, no copy and no order's items.
LEMMA RevFrame ==
    ASSUME IInvType, RevInv, EndedStay, UNCHANGED <<store, revived, after>>,
           \A e \in EmptyCalls : /\ empty'[e].wrote = empty[e].wrote
                                 /\ empty[e].pc = "end" => empty'[e].pc = "end",
           \A o \in Orders :
               /\ order'[o].items = order[o].items
               /\ order'[o].user = order[o].user \/ order[o].items = {}
               /\ order'[o].pc \in {"idle", "getUserCart"} => order[o].pc \in {"idle", "getUserCart"}
               /\ order'[o].pc # "idle" => get'[o].user = order'[o].user
               /\ empty'[o].pc # "idle" => empty'[o].user = order'[o].user
               /\ get'[o].copy = get[o].copy
               /\ get[o].pc = "end" => get'[o].pc = "end"
    PROVE  RevInv'
<1>1. WroteEnded'
    BY DEF RevInv, WroteEnded
<1>2. SameUser'
    BY DEF SameUser
<1>3. OwnOrders'
    <2>1. ASSUME NEW o \in Orders PROVE OwnedIn(add', order'[o].user, order'[o].items)
        <3>1. order[o].items \in SUBSET AddCalls /\ OwnedIn(add, order[o].user, order[o].items)
            BY DEF IInvType, OrderTypeOK, OrderRecord, RevInv, OwnOrders
        <3>2. CASE order[o].items = {}
            BY <3>2 DEF OwnedIn
        <3>3. CASE order'[o].user = order[o].user
            BY <3>1, <3>3, OwnedStays
        <3> QED BY <3>2, <3>3
    <2> QED BY <2>1 DEF RevInv, OwnOrders
<1>4. EmptiedGone'
    BY CheckoutAssumption DEF RevInv, EmptiedGone
<1>5. ReadAfter'
    <2>1. ASSUME NEW o \in Orders, NEW p \in after[o] PROVE p \in Orders /\ p \in EmptyCalls
        BY <2>1, CheckoutAssumption DEF IInvType, OrderTypeOK
    <2> QED BY <2>1 DEF RevInv, ReadAfter
<1> QED BY <1>1, <1>2, <1>3, <1>4, <1>5 DEF RevInv

LEMMA ShopperRev ==
    ASSUME IInvType, RevInv, OwnInv, \A o \in Orders : Effects(o), NEW u \in Users, Shopper(u)
    PROVE  RevInv'
<1>0. /\ add \in [AddCalls -> AddHandler] /\ empty \in [EmptyCalls -> EmptyHandler]
      /\ get \in [Orders -> GetHandler] /\ order \in [Orders -> OrderRecord]
      /\ GetCalls = Orders /\ \A o \in Orders : o \in EmptyCalls
    BY CheckoutAssumption DEF IInvType, CartTypeOK, OrderTypeOK
<1>1. SameUser
    BY DEF RevInv
<1>2. ASSUME NEW a \in AddCalls, AddToCart(a, u) PROVE RevInv'
    <2>1. UNCHANGED <<store, empty, get, order, revived, after>>
        BY <1>2 DEF AddToCart, CallAddItem, orderVars, history
    <2>2. EndedStay
        BY <1>0, <1>2 DEF AddToCart, CallAddItem, EndedStay
    <2> QED BY <1>1, <2>1, <2>2, RevFrame DEF SameUser
<1>3. ASSUME NEW e \in EmptyCalls \ Orders, EmptyOwnCart(e, u) PROVE RevInv'
    <2>1. UNCHANGED <<store, add, get, order, revived, after>>
        BY <1>3 DEF EmptyOwnCart, CallEmptyCart, orderVars, history
    <2>2. EndedStay
        BY <2>1 DEF EndedStay
    <2>3. /\ \A f \in EmptyCalls : f # e => empty'[f] = empty[f]
          /\ empty'[e].wrote = empty[e].wrote /\ empty[e].pc # "end"
        BY <1>0, <1>3 DEF EmptyOwnCart, CallEmptyCart, EmptyHandler
    <2>4. \A o \in Orders : empty'[o] = empty[o]
        BY <1>0, <2>3
    <2> QED BY <1>1, <2>1, <2>2, <2>3, <2>4, RevFrame DEF SameUser
<1>4. ASSUME NEW o \in Orders, PlaceOrder(o, u) PROVE RevInv'
    <2>1. /\ UNCHANGED <<store, add, empty, revived, after>>
          /\ order[o].pc = "idle" /\ get[o].pc = "idle"
          /\ order' = [order EXCEPT ![o].pc = "getUserCart", ![o].user = u]
          /\ get' = [get EXCEPT ![o].pc = "HashGet", ![o].user = u]
        BY <1>4 DEF PlaceOrder, CallGetCart, history
    <2>2. EndedStay
        BY <2>1 DEF EndedStay
    <2>3. /\ order'[o].user = u /\ get'[o].user = u /\ get'[o].copy = get[o].copy
          /\ order'[o].pc = "getUserCart" /\ order'[o].items = order[o].items
        BY <1>0, <2>1 DEF OrderRecord, GetHandler
    <2>4. \A p \in Orders : p # o => order'[p] = order[p] /\ get'[p] = get[p]
        BY <1>0, <2>1
    <2>5. order[o].items = {} /\ empty[o].pc = "idle"
        BY <2>1, EmptyingHasItems DEF RevInv, OwnOrders
    <2>6. \A p \in Orders :
               /\ order'[p].items = order[p].items
               /\ order'[p].user = order[p].user \/ order[p].items = {}
               /\ order'[p].pc \in {"idle", "getUserCart"} => order[p].pc \in {"idle", "getUserCart"}
               /\ order'[p].pc # "idle" => get'[p].user = order'[p].user
               /\ empty'[p].pc # "idle" => empty'[p].user = order'[p].user
               /\ get'[p].copy = get[p].copy
               /\ get[p].pc = "end" => get'[p].pc = "end"
        BY <1>1, <2>1, <2>3, <2>4, <2>5 DEF SameUser
    <2> QED BY <2>1, <2>2, <2>6, RevFrame
<1> QED BY <1>2, <1>3, <1>4 DEF Shopper

LEMMA OrderStepRev ==
    ASSUME IInvType, RevInv, OwnInv, \A o \in Orders : Effects(o),
           NEW o \in Orders, OrderStep(o) \/ LoseAnswer(o)
    PROVE  RevInv'
<1>0. /\ empty \in [EmptyCalls -> EmptyHandler] /\ order \in [Orders -> OrderRecord]
      /\ GetCalls = Orders /\ \A p \in Orders : p \in EmptyCalls
    BY CheckoutAssumption DEF IInvType, CartTypeOK, OrderTypeOK
<1>1. SameUser
    BY DEF RevInv
<1>2. CASE GetUserCart(o)
    <2>1. /\ UNCHANGED <<store, add, empty, get, revived, after>>
          /\ order[o].pc = "getUserCart"
          /\ order' = [order EXCEPT ![o].pc = "prepare", ![o].items = get[o].copy]
        BY <1>2 DEF GetUserCart, cartVars, history
    <2>2. /\ order'[o].user = order[o].user /\ order'[o].items = get[o].copy
          /\ order'[o].pc = "prepare"
          /\ \A p \in Orders : p # o => order'[p] = order[p]
        BY <1>0, <2>1 DEF OrderRecord
    <2>3. empty[o].pc = "idle" /\ ~empty[o].wrote
        BY <2>1, EmptyingHasItems
    <2>4. OwnOrders'
        <3>1. OwnedIn(add, order'[o].user, order'[o].items)
            BY <1>0, <1>1, <2>1, <2>2 DEF SameUser, OwnInv
        <3> QED BY <2>1, <2>2, <3>1 DEF RevInv, OwnOrders
    <2>5. EmptiedGone'
        BY <2>1, <2>2, <2>3 DEF RevInv, EmptiedGone
    <2>6. ReadAfter'
        <3>1. \A q \in Orders : after[q] \subseteq Orders
            BY DEF IInvType, OrderTypeOK
        <3> QED BY <2>1, <2>2, <2>3, <3>1 DEF RevInv, ReadAfter
    <2>7. WroteEnded' /\ SameUser'
        BY <2>1, <2>2 DEF RevInv, WroteEnded, SameUser
    <2> QED BY <2>4, <2>5, <2>6, <2>7 DEF RevInv
<1>3. ASSUME NEW next, next \notin {"idle", "getUserCart"},
             order[o].pc # "idle",
             order' = [order EXCEPT ![o].pc = next],
             UNCHANGED <<store, add, get, revived, after>>,
             \/ UNCHANGED empty
             \/ /\ empty[o].pc = "idle"
                /\ empty' = [empty EXCEPT ![o].pc = "HashSet", ![o].user = order[o].user]
      PROVE  RevInv'
    <2>1. EndedStay
        BY <1>3 DEF EndedStay
    <2>2. /\ order'[o].user = order[o].user /\ order'[o].items = order[o].items
          /\ order'[o].pc = next
          /\ \A p \in Orders : p # o => order'[p] = order[p]
        BY <1>0, <1>3 DEF OrderRecord
    <2>3. /\ \A e \in EmptyCalls : /\ empty'[e].wrote = empty[e].wrote
                                   /\ empty[e].pc = "end" => empty'[e].pc = "end"
          /\ \A p \in Orders : empty'[p].pc # "idle" =>
                \/ empty'[p].user = empty[p].user /\ empty[p].pc # "idle"
                \/ empty'[p].user = order[p].user
        BY <1>0, <1>3 DEF EmptyHandler
    <2>4. \A p \in Orders :
               /\ order'[p].items = order[p].items
               /\ order'[p].user = order[p].user
               /\ order'[p].pc \in {"idle", "getUserCart"} => order[p].pc \in {"idle", "getUserCart"}
               /\ order'[p].pc # "idle" => get'[p].user = order'[p].user
               /\ empty'[p].pc # "idle" => empty'[p].user = order'[p].user
               /\ get'[p] = get[p]
        BY <1>1, <1>3, <2>2, <2>3 DEF SameUser
    <2> QED BY <1>3, <2>1, <2>3, <2>4, RevFrame
<1>4. CASE EmptyUserCart(o)
    <2>1. /\ order[o].pc # "idle"
          /\ order' = [order EXCEPT ![o].pc = "emptyUserCart"]
          /\ UNCHANGED <<store, add, get, revived, after>>
          /\ empty[o].pc = "idle"
          /\ empty' = [empty EXCEPT ![o].pc = "HashSet", ![o].user = order[o].user]
        BY <1>4 DEF EmptyUserCart, Goto, CallEmptyCart, history
    <2> DEFINE next == "emptyUserCart"
    <2>2. next \notin {"idle", "getUserCart"} /\ order' = [order EXCEPT ![o].pc = next]
        BY <2>1
    <2> HIDE DEF next
    <2> QED BY <1>3, <2>1, <2>2
<1>5. CASE \/ ChargeCard(o) \/ ShipOrder(o) \/ SendOrderConfirmation(o) \/ ReturnOrder(o)
           \/ FailOrder(o) \/ LoseAnswer(o)
    <2>1. PICK next \in {"chargeCard", "shipOrder", "sendOrderConfirmation", "placed", "failed"} :
            order' = [order EXCEPT ![o].pc = next]
        BY <1>5 DEF ChargeCard, ShipOrder, SendOrderConfirmation, ReturnOrder, FailOrder,
                    LoseAnswer, Goto
    <2>2. order[o].pc # "idle" /\ UNCHANGED <<store, add, empty, get, revived, after>>
        BY <1>5 DEF ChargeCard, ShipOrder, SendOrderConfirmation, ReturnOrder, FailOrder,
                    LoseAnswer, cartVars, history
    <2>3. next \notin {"idle", "getUserCart"}
        BY <2>1
    <2> QED BY <1>3, <2>1, <2>2, <2>3
<1> QED BY <1>2, <1>4, <1>5 DEF OrderStep

LEMMA CrashRev ==
    ASSUME IInvType, RevInv, Crash \/ \E o \in Orders : ServiceStep(o)
    PROVE  RevInv'
<1>1. UNCHANGED <<store, add, empty, get, revived, after>>
    BY DEF Crash, ServiceStep, PaymentStep, ShippingStep, cartVars, history
<1>2. \A o \in Orders :
         /\ order'[o].items = order[o].items /\ order'[o].user = order[o].user
         /\ order'[o].pc = order[o].pc \/ (order'[o].pc = "crashed" /\ order[o].pc \in Waiting)
    BY DEF Crash, ServiceStep, PaymentStep, ShippingStep, IInvType, OrderTypeOK, OrderRecord
<1>3. \A o \in Orders : order'[o].pc \in {"idle", "getUserCart"} =>
                          order[o].pc \in {"idle", "getUserCart"}
    BY <1>2
<1>4. \A o \in Orders : order'[o].pc # "idle" => order[o].pc # "idle"
    BY <1>2 DEF Waiting
<1>5. EndedStay
    BY <1>1 DEF EndedStay
<1> QED BY <1>1, <1>2, <1>3, <1>4, <1>5, RevFrame DEF RevInv, SameUser

LEMMA CartStepRev ==
    ASSUME IInvType, RevInv, OwnInv, CartStep
    PROVE  RevInv'
<1>0. /\ add \in [AddCalls -> AddHandler] /\ empty \in [EmptyCalls -> EmptyHandler]
      /\ get \in [Orders -> GetHandler]
      /\ store \in [Users -> {NoCart} \cup SUBSET AddCalls]
      /\ after \in [Orders -> SUBSET Orders]
      /\ GetCalls = Orders /\ \A o \in Orders : o \in EmptyCalls
      /\ CartTypeOK /\ CalledByUser
    BY CheckoutAssumption DEF IInvType, CartTypeOK, OrderTypeOK
<1>1. WroteEnded /\ SameUser /\ OwnOrders /\ EmptiedGone /\ ReadAfter
    BY DEF RevInv
<1>2. UNCHANGED orderVars
    BY DEF CartStep, WriteBack, CartReadStep, ReadForOrder, CartEmptyStep
<1>3. order' = order
    BY <1>2 DEF orderVars
<1>4. ASSUME NEW a \in AddCalls, (AddHashGet(a) \/ AddFail(a)) /\ UNCHANGED history
      PROVE  RevInv'
    <2>1. UNCHANGED <<store, empty, get, revived, after>>
        BY <1>4 DEF AddHashGet, AddFail, history
    <2>2. EndedStay
        BY <1>0, <1>4 DEF AddHashGet, AddFail, EndedStay, AddHandler
    <2> QED BY <1>1, <1>3, <2>1, <2>2, RevFrame DEF SameUser
<1>5. ASSUME NEW a \in AddCalls, WriteBack(a) PROVE RevInv'
    <2> DEFINE u == add[a].user
    <2>1. /\ u \in Users /\ add[a].pc = "HashSet"
          /\ store' = [store EXCEPT ![u] = add[a].copy \cup {a}]
          /\ revived' = revived \cup (add[a].copy \ Items(store[u]))
          /\ UNCHANGED <<empty, get, after>>
        BY <1>0, <1>5 DEF WriteBack, AddHashSet, CalledByUser
    <2>2. EndedStay
        <3>1. PICK answer \in {"ok", "error"} :
                add' = [add EXCEPT ![a].pc = "end", ![a].reply = answer]
            BY <1>5 DEF WriteBack, AddHashSet
        <3> QED BY <1>0, <3>1 DEF EndedStay, AddHandler
    <2>3. OwnOrders'
        <3>1. ASSUME NEW o \in Orders PROVE OwnedIn(add', order[o].user, order[o].items)
            <4>1. order[o].items \in SUBSET AddCalls
                BY DEF IInvType, OrderTypeOK, OrderRecord
            <4> QED BY <1>1, <2>2, <4>1, OwnedStays DEF OwnOrders
        <3> QED BY <1>1, <1>3, <3>1 DEF OwnOrders
    <2>4. EmptiedGone'
        <3> SUFFICES ASSUME NEW p \in Orders, empty[p].wrote, NEW v \in Users
                     PROVE  Items(store'[v]) \cap order[p].items \subseteq revived'
            BY <1>3, <2>1 DEF EmptiedGone
        <3>0. Items(store[v]) \cap order[p].items \subseteq revived
            BY <1>1 DEF EmptiedGone
        <3>1. CASE v # u
            <4>1. store'[v] = store[v]
                BY <1>0, <2>1, <3>1
            <4> QED BY <2>1, <3>0, <4>1
        <3>2. CASE v = u
            <4>1. add[a].copy \cup {a} \in SUBSET AddCalls
                BY <1>0, CartSets
            <4>2. Items(store'[v]) = add[a].copy \cup {a}
                BY <1>0, <2>1, <3>2, <4>1, CartStoreAssumption DEF Items
            <4>3. a \notin order[p].items
                BY <1>1, <2>1 DEF OwnOrders, OwnedIn
            <4> QED BY <2>1, <3>0, <3>2, <4>2, <4>3
        <3> QED BY <3>1, <3>2
    <2>5. ReadAfter'
        BY <1>1, <1>3, <2>1 DEF ReadAfter
    <2>6. WroteEnded' /\ SameUser'
        BY <1>1, <1>3, <2>1 DEF WroteEnded, SameUser
    <2> QED BY <2>3, <2>4, <2>5, <2>6 DEF RevInv
<1>6. ASSUME NEW e \in EmptyCalls, EmptyHashSet(e), UNCHANGED history PROVE RevInv'
    <2>1. PICK answer \in {"ok", "error"} :
            empty' = [empty EXCEPT ![e].pc = "end", ![e].wrote = TRUE,
                                   ![e].reply = Told(@, answer)]
        BY <1>6 DEF EmptyHashSet
    <2>2. /\ empty[e].pc = "HashSet" /\ empty[e].user \in Users
          /\ store' = [store EXCEPT ![empty[e].user] = {}]
          /\ UNCHANGED <<add, get, revived, after>>
        BY <1>0, <1>6 DEF EmptyHashSet, CalledByUser, history
    <2>3. /\ empty'[e].pc = "end" /\ empty'[e].wrote /\ empty'[e].user = empty[e].user
          /\ \A f \in EmptyCalls : f # e => empty'[f] = empty[f]
        BY <1>0, <2>1 DEF EmptyHandler
    <2>4. \A v \in Users : Items(store'[v]) \subseteq Items(store[v])
        BY <1>0, <2>2 DEF Items
    <2>5. EmptiedGone'
        <3> SUFFICES ASSUME NEW p \in Orders, empty'[p].wrote, NEW v \in Users
                     PROVE  Items(store'[v]) \cap order[p].items \subseteq revived
            BY <1>3, <2>2 DEF EmptiedGone
        <3>1. CASE p # e
            <4>1. empty[p].wrote
                BY <1>0, <2>3, <3>1
            <4> QED BY <1>1, <2>4, <4>1 DEF EmptiedGone
        <3>2. CASE p = e
            <4>1. empty[e].user = order[p].user
                BY <1>1, <2>2, <3>2 DEF SameUser
            <4>2. CASE v = order[p].user
                <5>1. store'[v] = {}
                    BY <1>0, <2>2, <4>1, <4>2
                <5> QED BY <5>1 DEF Items
            <4>3. CASE v # order[p].user
                <5>1. OwnedIn(add, v, Items(store[v])) /\ OwnedIn(add, order[p].user, order[p].items)
                    BY <1>1 DEF OwnInv, OwnOrders
                <5> QED BY <2>4, <4>3, <5>1 DEF OwnedIn
            <4> QED BY <4>2, <4>3
        <3> QED BY <3>1, <3>2
    <2>6. ReadAfter'
        <3>1. \A o \in Orders : \A p \in after[o] : p \in EmptyCalls
            BY <1>0
        <3> QED BY <1>1, <1>3, <2>2, <2>3, <3>1 DEF ReadAfter
    <2>7. WroteEnded' /\ SameUser' /\ OwnOrders'
        BY <1>0, <1>1, <1>3, <2>2, <2>3 DEF WroteEnded, SameUser, OwnOrders
    <2> QED BY <2>5, <2>6, <2>7 DEF RevInv
<1>7. ASSUME NEW e \in EmptyCalls, EmptyFail(e) \/ EmptyAbandoned(e), UNCHANGED history
      PROVE  RevInv'
    <2>1. UNCHANGED <<store, add, get, revived, after>>
        BY <1>7 DEF EmptyFail, EmptyAbandoned, history
    <2>2. /\ empty'[e].wrote = empty[e].wrote /\ empty'[e].user = empty[e].user
          /\ empty[e].pc # "idle" /\ empty[e].pc # "end"
          /\ \A f \in EmptyCalls : f # e => empty'[f] = empty[f]
        BY <1>0, <1>7 DEF EmptyFail, EmptyAbandoned, EmptyHandler
    <2>3. \A f \in EmptyCalls : /\ empty'[f].wrote = empty[f].wrote
                                /\ empty'[f].user = empty[f].user
                                /\ empty'[f].pc # "idle" => empty[f].pc # "idle"
                                /\ empty[f].pc = "end" => empty'[f].pc = "end"
        BY <2>2
    <2>4. EndedStay
        BY <2>1 DEF EndedStay
    <2> QED BY <1>0, <1>1, <1>3, <2>1, <2>3, <2>4, RevFrame DEF SameUser
<1>8. ASSUME NEW o \in Orders, ReadForOrder(o) PROVE RevInv'
    <2> DEFINE c == Items(store[get[o].user])
    <2>1. /\ get[o].user \in Users
          /\ get' = [get EXCEPT ![o].pc = "end", ![o].copy = c, ![o].reply = "ok"]
          /\ after' = [after EXCEPT ![o] = {p \in Orders : empty[p].wrote}]
          /\ UNCHANGED <<store, add, empty, revived>>
        BY <1>0, <1>8 DEF ReadForOrder, GetHashGet, CalledByUser
    <2>2. \A p \in Orders : empty[p].wrote => c \cap order[p].items \subseteq revived
        BY <1>1, <2>1 DEF EmptiedGone
    <2> HIDE DEF c
    <2>3. /\ get'[o].pc = "end" /\ get'[o].copy = c /\ get'[o].user = get[o].user
          /\ \A p \in Orders : p # o => get'[p] = get[p]
        BY <1>0, <2>1 DEF GetHandler
    <2>4. /\ after'[o] = {p \in Orders : empty[p].wrote}
          /\ \A p \in Orders : p # o => after'[p] = after[p]
        BY <1>0, <2>1
    <2>5. ReadAfter'
        BY <1>1, <1>3, <2>1, <2>2, <2>3, <2>4 DEF ReadAfter
    <2>6. WroteEnded' /\ SameUser' /\ OwnOrders' /\ EmptiedGone'
        BY <1>1, <1>3, <2>1, <2>3 DEF WroteEnded, SameUser, OwnOrders, EmptiedGone
    <2> QED BY <2>5, <2>6 DEF RevInv
<1>9. ASSUME NEW o \in Orders, GetFail(o), UNCHANGED history PROVE RevInv'
    <2>1. UNCHANGED <<store, add, empty, revived, after>>
        BY <1>9 DEF GetFail, history
    <2>2. \A p \in Orders : /\ get'[p].copy = get[p].copy /\ get'[p].user = get[p].user
                            /\ get[p].pc = "end" => get'[p].pc = "end"
        BY <1>0, <1>9 DEF GetFail, GetHandler
    <2>3. EndedStay
        BY <2>1 DEF EndedStay
    <2> QED BY <1>1, <1>3, <2>1, <2>2, <2>3, RevFrame DEF SameUser
<1> QED BY <1>4, <1>5, <1>6, <1>7, <1>8, <1>9
        DEF CartStep, CartReadStep, CartEmptyStep, EmptyStep

LEMMA CartStepsOwn == ASSUME IInvType, OwnInv, [Next]_vars PROVE OwnInv'
<1>0. CartTypeOK /\ CalledByUser /\ OrderTypeOK
    BY DEF IInvType
<1>1. ASSUME NEW u \in Users, Shopper(u) PROVE OwnInv'
    BY <1>0, <1>1, CallsOwn, CheckoutAssumption DEF Shopper, AddToCart, EmptyOwnCart, PlaceOrder
<1>2. ASSUME NEW o \in Orders, EmptyUserCart(o) PROVE OwnInv'
    <2>1. order[o].user \in Users /\ o \in EmptyCalls /\ CallEmptyCart(o, order[o].user)
        BY <1>0, <1>2, CheckoutAssumption DEF EmptyUserCart, OrderTypeOK, OrderedByUser
    <2> QED BY <1>0, <2>1, CallsOwn
<1>3. CASE CartStep
    BY <1>0, <1>3, CartStepIsHandlerStep, HandlersOwn
<1>4. CASE UNCHANGED cartVars
    BY <1>4 DEF cartVars, OwnInv
<1> QED BY <1>1, <1>2, <1>3, <1>4
        DEF Next, vars, OrderStep, GetUserCart, ChargeCard, ShipOrder, SendOrderConfirmation,
            ReturnOrder, FailOrder, LoseAnswer, ServiceStep, PaymentStep, ShippingStep, Crash

LEMMA NextRev ==
    ASSUME IInvType, RevInv, OwnInv, \A o \in Orders : Effects(o), [Next]_vars
    PROVE  RevInv'
<1>1. CASE UNCHANGED vars
    BY <1>1 DEF vars, cartVars, orderVars, history, RevInv, WroteEnded, SameUser, OwnOrders,
                EmptiedGone, ReadAfter
<1> QED BY <1>1, ShopperRev, OrderStepRev, CrashRev, CartStepRev DEF Next

\* What was ordered and emptied out of a cart is billed in a later order only
\* if an AddItem wrote a stale cart back, for any number of shoppers, orders
\* and requests, under all failures and crashes.
THEOREM BilledAgainOnlyByStaleWrite == Spec => []BilledAgainOnlyIfRevived
<1> DEFINE Inv == IInvType /\ (\A o \in Orders : Effects(o)) /\ OwnInv /\ RevInv
<1>1. Init => Inv
    BY InitType, InitEffects, OwnInvInit, RevInit DEF Init
<1>2. Inv /\ [Next]_vars => Inv'
    BY NextType, NextEffects, CartStepsOwn, NextRev
<1>3. Inv => BilledAgainOnlyIfRevived
    BY DEF RevInv, ReadAfter, BilledAgainOnlyIfRevived
<1> QED BY <1>1, <1>2, <1>3, PTL DEF Spec
-----------------------------------------------------------------------------
(***************************************************************************)
(* PaidTwiceOnlyAfterFailure and NothingLost.  Both are about a shopper    *)
(* whose requests never overlapped.  Such a shopper's order, from the call *)
(* of GetCart to the end of its EmptyCart handler, is alone (OrderSerial), *)
(* so that until it empties the cart its items are what is stored          *)
(* (Snapshot); and of two such orders one read the cart after the other    *)
(* had emptied it, unless that other one ended badly (OnceEach).           *)
(***************************************************************************)
Engaged(o, u) ==
    \/ order[o].user = u /\ order[o].pc \in Waiting
    \/ get[o].user = u /\ get[o].pc # "end"
    \/ Emptying(o, u)

OrderSerial ==
    \A u \in Users \ overlap : \A o \in Orders : Engaged(o, u) =>
        /\ \A a \in AddCalls : ~Adding(a, u)
        /\ \A e \in EmptyCalls : e # o => ~Emptying(e, u)
        /\ \A p \in Orders : p # o => ~Engaged(p, u)

\* An order that is on its way, and whose EmptyCart was not executed.
Open(o) ==
    /\ order[o].user \in Users \ overlap
    /\ order[o].pc \in Waiting \/ empty[o].pc = "HashSet"
    /\ ~empty[o].wrote

Snapshot ==
    \A o \in Orders : Open(o) =>
        IF order[o].pc = "getUserCart"
          THEN get[o].reply = "ok" => get[o].copy = Items(store[order[o].user])
          ELSE order[o].items = Items(store[order[o].user])

ReadInv ==
    \A o \in Orders :
        /\ get[o].reply = "ok" => get[o].pc = "end"
        /\ order[o].items # {} => order[o].items = get[o].copy /\ get[o].reply = "ok"

ReplyInv ==
    /\ \A e \in EmptyCalls : empty[e].reply = "ok" => empty[e].wrote
    /\ \A o \in Orders : order[o].pc \in {"sendOrderConfirmation", "placed"} => empty[o].reply # "none"

Precedes(o, p) ==
    \/ order[o].pc \in {"failed", "crashed"}
    \/ empty[o].reply = "error"
    \/ empty[o].wrote /\ (get[p].reply = "ok" => o \in after[p])

OnceEach ==
    \A o, p \in Orders :
        (/\ o # p /\ order[o].pc # "idle" /\ order[p].pc # "idle"
         /\ order[o].user = order[p].user /\ order[o].user \notin overlap)
            => Precedes(o, p) \/ Precedes(p, o)

RevivedOverlapped == \A b \in revived : add[b].user \in overlap /\ add[b].pc = "end"

PayInv ==
    /\ SerialInv /\ IdleNotAnswered /\ OrderSerial /\ Snapshot /\ ReadInv /\ ReplyInv
    /\ OnceEach /\ RevivedOverlapped /\ NothingLost

BaseInv == IInvType /\ (\A o \in Orders : Effects(o)) /\ OwnInv /\ RevInv

\* What the proofs below use of the rest of the invariant.
LEMMA PayTypes ==
    ASSUME BaseInv
    PROVE  /\ store \in [Users -> {NoCart} \cup SUBSET AddCalls]
           /\ add \in [AddCalls -> AddHandler] /\ empty \in [EmptyCalls -> EmptyHandler]
           /\ get \in [Orders -> GetHandler] /\ order \in [Orders -> OrderRecord]
           /\ charge \in [Orders -> Request] /\ ship \in [Orders -> Request]
           /\ after \in [Orders -> SUBSET Orders] /\ overlap \subseteq Users
           /\ GetCalls = Orders /\ (\A o \in Orders : o \in EmptyCalls)
           /\ CartTypeOK /\ CalledByUser /\ WroteEnded /\ SameUser /\ OwnOrders
           /\ OrderedByUser
BY CheckoutAssumption DEF BaseInv, IInvType, CartTypeOK, OrderTypeOK, RevInv

LEMMA OrderSerialKept ==
    ASSUME OrderSerial, overlap \subseteq overlap',
           \A u \in Users \ overlap' :
               /\ \A o \in Orders : Engaged(o, u)' => Engaged(o, u)
               /\ \A a \in AddCalls : Adding(a, u)' => Adding(a, u)
               /\ \A e \in EmptyCalls :
                    Emptying(e, u)' => Emptying(e, u) \/ (e \in Orders /\ Engaged(e, u))
    PROVE  OrderSerial'
<1> SUFFICES ASSUME NEW u \in Users \ overlap', NEW o \in Orders, Engaged(o, u)'
             PROVE  /\ \A a \in AddCalls : ~Adding(a, u)'
                    /\ \A e \in EmptyCalls : e # o => ~Emptying(e, u)'
                    /\ \A p \in Orders : p # o => ~Engaged(p, u)'
    BY DEF OrderSerial
<1>1. u \in Users \ overlap /\ Engaged(o, u)
    OBVIOUS
<1>2. /\ \A a \in AddCalls : ~Adding(a, u)
      /\ \A e \in EmptyCalls : e # o => ~Emptying(e, u)
      /\ \A p \in Orders : p # o => ~Engaged(p, u)
    BY <1>1 DEF OrderSerial
<1> QED BY <1>2

LEMMA SnapshotKept ==
    ASSUME Snapshot,
           \A o \in Orders : Open(o)' =>
               /\ Open(o)
               /\ order'[o].user = order[o].user /\ order'[o].items = order[o].items
               /\ order'[o].pc = "getUserCart" <=> order[o].pc = "getUserCart"
               /\ get'[o].reply = "ok" => get[o].reply = "ok" /\ get'[o].copy = get[o].copy
               /\ store'[order[o].user] = store[order[o].user]
    PROVE  Snapshot'
BY DEF Snapshot, Items

LEMMA OnceEachKept ==
    ASSUME OnceEach, overlap \subseteq overlap',
           \A o \in Orders :
               /\ order'[o].pc # "idle" => order[o].pc # "idle" /\ order'[o].user = order[o].user
               /\ order[o].pc \in {"failed", "crashed"} => order'[o].pc = order[o].pc
               /\ empty[o].reply = "error" => empty'[o].reply = "error"
               /\ empty[o].wrote => empty'[o].wrote
               /\ get'[o].reply = "ok" =>
                    \A p \in Orders : empty[p].wrote /\ (get[o].reply = "ok" => p \in after[o])
                                         => p \in after'[o]
    PROVE  OnceEach'
<1>1. ASSUME NEW o \in Orders, NEW p \in Orders, Precedes(o, p) PROVE Precedes(o, p)'
    BY <1>1 DEF Precedes
<1> QED BY <1>1 DEF OnceEach

LEMMA NothingLostKept ==
    ASSUME NothingLost, overlap \subseteq overlap',
           \A a \in AddCalls : add'[a].reply = "ok" =>
               add[a].reply = "ok" /\ add'[a].user = add[a].user,
           \A u \in Users \ overlap' : Items(store[u]) \subseteq Items(store'[u]),
           \A e \in EmptyCalls : empty[e].wrote => empty'[e].wrote /\ empty'[e].user = empty[e].user,
           \A o \in Orders :
               charge[o] = "ok" /\ ship[o] = "ok" =>
                   charge'[o] = "ok" /\ ship'[o] = "ok" /\ order'[o].items = order[o].items
    PROVE  NothingLost'
<1> SUFFICES ASSUME NEW u \in Users \ overlap', NEW a \in AddCalls,
                    add'[a].user = u, add'[a].reply = "ok"
             PROVE  \/ a \in Items(store'[u])
                    \/ \E e \in EmptyCalls \ Orders : empty'[e].user = u /\ empty'[e].wrote
                    \/ \E o \in Orders : a \in order'[o].items /\ charge'[o] = "ok" /\ ship'[o] = "ok"
    BY DEF NothingLost
<1>1. u \in Users \ overlap /\ add[a].user = u /\ add[a].reply = "ok"
    OBVIOUS
<1>2. \/ a \in Items(store[u])
      \/ \E e \in EmptyCalls \ Orders : empty[e].user = u /\ empty[e].wrote
      \/ \E o \in Orders : a \in order[o].items /\ charge[o] = "ok" /\ ship[o] = "ok"
    BY <1>1 DEF NothingLost
<1> QED BY <1>1, <1>2

\* A user whose next request does not count as overlapping has none in progress.
LEMMA NotBusy ==
    ASSUME BaseInv, NEW u \in Users, NoteOverlap(u, CartBusy(u) \/ OrderBusy(u))
    PROVE  /\ overlap \subseteq overlap' /\ overlap' \subseteq Users
           /\ u \notin overlap' =>
                /\ \A a \in AddCalls : ~Adding(a, u)
                /\ \A e \in EmptyCalls : ~Emptying(e, u)
                /\ \A o \in Orders : /\ ~Engaged(o, u)
                                     /\ order[o].user = u => order[o].pc \notin Waiting
<1>1. overlap \subseteq overlap' /\ overlap' \subseteq Users
    BY PayTypes DEF NoteOverlap
<1>2. u \notin overlap' => ~CartBusy(u) /\ ~OrderBusy(u)
    BY DEF NoteOverlap
<1> QED BY <1>1, <1>2, PayTypes DEF CartBusy, OrderBusy, Engaged, Adding, Emptying

LEMMA AddToCartPay ==
    ASSUME BaseInv, PayInv, NEW u \in Users, NEW a \in AddCalls, AddToCart(a, u)
    PROVE  PayInv'
<1>0. /\ overlap \subseteq overlap'
      /\ u \notin overlap' => /\ \A b \in AddCalls : ~Adding(b, u)
                              /\ \A e \in EmptyCalls : ~Emptying(e, u)
                              /\ \A o \in Orders : ~Engaged(o, u)
    BY NotBusy DEF AddToCart
<1>1. /\ add[a].pc = "idle" /\ add'[a].pc = "HashGet" /\ add'[a].user = u
      /\ add'[a].reply = add[a].reply
      /\ \A b \in AddCalls : b # a => add'[b] = add[b]
      /\ UNCHANGED <<store, empty, get, order, charge, ship, revived, after>>
    BY PayTypes DEF AddToCart, CallAddItem, AddHandler, orderVars, history
<1>2. SerialInv' /\ IdleNotAnswered'
    BY <1>0, CallsSerial, PayTypes DEF AddToCart, PayInv
<1>3. OrderSerial'
    <2>1. ASSUME NEW v \in Users \ overlap', NEW o \in Orders, Engaged(o, v)'
          PROVE  /\ \A b \in AddCalls : ~Adding(b, v)'
                 /\ \A e \in EmptyCalls : e # o => ~Emptying(e, v)'
                 /\ \A p \in Orders : p # o => ~Engaged(p, v)'
        <3>1. \A p \in Orders : Engaged(p, v)' <=> Engaged(p, v)
            BY <1>1 DEF Engaged, Emptying
        <3>2. \A e \in EmptyCalls : Emptying(e, v)' <=> Emptying(e, v)
            BY <1>1 DEF Emptying
        <3>3. v # u /\ v \in Users \ overlap
            BY <1>0, <2>1, <3>1
        <3>4. \A b \in AddCalls : Adding(b, v)' => Adding(b, v)
            BY <1>1, <3>3 DEF Adding
        <3> QED BY <2>1, <3>1, <3>2, <3>3, <3>4 DEF PayInv, OrderSerial
    <2> QED BY <2>1 DEF OrderSerial
<1>4. Snapshot'
    <2>1. \A o \in Orders : Open(o)' => Open(o)
        BY <1>0, <1>1 DEF Open
    <2> QED BY <1>1, <2>1, SnapshotKept DEF PayInv
<1>5. ReadInv' /\ ReplyInv'
    BY <1>1 DEF PayInv, ReadInv, ReplyInv
<1>6. OnceEach'
    BY <1>0, <1>1, OnceEachKept DEF PayInv
<1>7. RevivedOverlapped'
    BY <1>0, <1>1 DEF PayInv, RevivedOverlapped, BaseInv, IInvType, OrderTypeOK
<1>8. NothingLost'
    <2>1. add[a].reply # "ok"
        BY <1>1 DEF PayInv, IdleNotAnswered
    <2> QED BY <1>0, <1>1, <2>1, NothingLostKept DEF PayInv, Items
<1> QED BY <1>2, <1>3, <1>4, <1>5, <1>6, <1>7, <1>8 DEF PayInv

LEMMA EmptyOwnCartPay ==
    ASSUME BaseInv, PayInv, NEW u \in Users, NEW e \in EmptyCalls \ Orders, EmptyOwnCart(e, u)
    PROVE  PayInv'
<1>0. /\ overlap \subseteq overlap'
      /\ u \notin overlap' => /\ \A b \in AddCalls : ~Adding(b, u)
                              /\ \A f \in EmptyCalls : ~Emptying(f, u)
                              /\ \A o \in Orders : ~Engaged(o, u)
    BY NotBusy DEF EmptyOwnCart
<1>1. /\ empty[e].pc = "idle" /\ empty'[e].user = u /\ empty'[e].reply = empty[e].reply
      /\ ~empty[e].wrote /\ ~empty'[e].wrote
      /\ \A f \in EmptyCalls : f # e => empty'[f] = empty[f]
      /\ \A o \in Orders : empty'[o] = empty[o]
      /\ UNCHANGED <<store, add, get, order, charge, ship, revived, after>>
    BY PayTypes DEF EmptyOwnCart, CallEmptyCart, EmptyHandler, orderVars, history, WroteEnded
<1>2. SerialInv' /\ IdleNotAnswered'
    BY <1>0, CallsSerial, PayTypes DEF EmptyOwnCart, PayInv
<1>3. OrderSerial'
    <2>1. ASSUME NEW v \in Users \ overlap', NEW o \in Orders, Engaged(o, v)'
          PROVE  /\ \A b \in AddCalls : ~Adding(b, v)'
                 /\ \A f \in EmptyCalls : f # o => ~Emptying(f, v)'
                 /\ \A p \in Orders : p # o => ~Engaged(p, v)'
        <3>1. \A p \in Orders : Engaged(p, v)' <=> Engaged(p, v)
            BY <1>1 DEF Engaged, Emptying
        <3>2. v # u /\ v \in Users \ overlap
            BY <1>0, <2>1, <3>1
        <3>3. \A f \in EmptyCalls : Emptying(f, v)' => Emptying(f, v)
            BY <1>1, <3>2 DEF Emptying
        <3>4. \A b \in AddCalls : Adding(b, v)' <=> Adding(b, v)
            BY <1>1 DEF Adding
        <3> QED BY <2>1, <3>1, <3>2, <3>3, <3>4 DEF PayInv, OrderSerial
    <2> QED BY <2>1 DEF OrderSerial
<1>4. Snapshot'
    <2>1. \A o \in Orders : Open(o)' => Open(o)
        BY <1>0, <1>1 DEF Open
    <2> QED BY <1>1, <2>1, SnapshotKept DEF PayInv
<1>5. ReadInv' /\ ReplyInv'
    BY <1>1 DEF PayInv, ReadInv, ReplyInv
<1>6. OnceEach'
    BY <1>0, <1>1, OnceEachKept DEF PayInv
<1>7. RevivedOverlapped'
    BY <1>0, <1>1 DEF PayInv, RevivedOverlapped
<1>8. NothingLost'
    BY <1>0, <1>1, NothingLostKept DEF PayInv, Items
<1> QED BY <1>2, <1>3, <1>4, <1>5, <1>6, <1>7, <1>8 DEF PayInv

LEMMA PlaceOrderPay ==
    ASSUME BaseInv, PayInv, NEW u \in Users, NEW o \in Orders, PlaceOrder(o, u)
    PROVE  PayInv'
<1>0. /\ overlap \subseteq overlap'
      /\ u \notin overlap' => /\ \A a \in AddCalls : ~Adding(a, u)
                              /\ \A e \in EmptyCalls : ~Emptying(e, u)
                              /\ \A p \in Orders : /\ ~Engaged(p, u)
                                                   /\ order[p].user = u => order[p].pc \notin Waiting
    BY NotBusy DEF PlaceOrder
<1>1. /\ order[o].pc = "idle" /\ get[o].pc = "idle"
      /\ order'[o].pc = "getUserCart" /\ order'[o].user = u /\ order'[o].items = order[o].items
      /\ get'[o].user = u /\ get'[o].reply = get[o].reply /\ get'[o].copy = get[o].copy
      /\ get'[o].pc = "HashGet"
      /\ \A p \in Orders : p # o => order'[p] = order[p] /\ get'[p] = get[p]
      /\ UNCHANGED <<store, add, empty, charge, ship, revived, after>>
    BY PayTypes DEF PlaceOrder, CallGetCart, GetHandler, OrderRecord, history
<1>2. get[o].reply # "ok" /\ order[o].items = {}
    BY <1>1, PayTypes DEF PayInv, ReadInv, OwnOrders
<1>3. SerialInv' /\ IdleNotAnswered'
    BY <1>0, CallsSerial, PayTypes DEF PlaceOrder, PayInv
<1>4. OrderSerial'
    <2>1. ASSUME NEW v \in Users \ overlap', NEW p \in Orders, Engaged(p, v)'
          PROVE  /\ \A a \in AddCalls : ~Adding(a, v)'
                 /\ \A e \in EmptyCalls : e # p => ~Emptying(e, v)'
                 /\ \A q \in Orders : q # p => ~Engaged(q, v)'
        <3>1. /\ \A q \in Orders : q # o => (Engaged(q, v)' <=> Engaged(q, v))
              /\ \A e \in EmptyCalls : Emptying(e, v)' <=> Emptying(e, v)
              /\ \A a \in AddCalls : Adding(a, v)' <=> Adding(a, v)
            BY <1>1 DEF Engaged, Emptying, Adding
        <3>2. CASE v = u
            BY <1>0, <2>1, <3>1, <3>2
        <3>3. CASE v # u
            <4>1. Engaged(o, v)' => Engaged(o, v)
                BY <1>1, <3>1, <3>3 DEF Engaged, Emptying
            <4>2. v \in Users \ overlap /\ Engaged(p, v)
                BY <1>0, <2>1, <3>1, <4>1
            <4> QED BY <3>1, <4>1, <4>2 DEF PayInv, OrderSerial
        <3> QED BY <3>2, <3>3
    <2> QED BY <2>1 DEF OrderSerial
<1>5. Snapshot'
    <2>1. ASSUME NEW p \in Orders, p # o, Open(p)' PROVE Open(p)
        BY <1>0, <1>1, <2>1 DEF Open
    <2> QED BY <1>1, <1>2, <2>1 DEF PayInv, Snapshot, Items
<1>6. ReadInv' /\ ReplyInv'
    BY <1>1, <1>2 DEF PayInv, ReadInv, ReplyInv
<1>7. OnceEach'
    <2>1. ASSUME NEW p \in Orders, p # o, order[p].pc # "idle", order[p].user = u, u \notin overlap'
          PROVE  Precedes(p, o)'
        <3>1. order[p].pc \in Ended /\ p \in EmptyCalls
            BY <1>0, <2>1, PayTypes DEF OrderRecord
        <3>2. CASE order[p].pc = "placed"
            <4>1. empty[p].reply # "none"
                BY <3>2 DEF PayInv, ReplyInv
            <4>2. empty[p].reply = "error" \/ empty[p].wrote
                BY <3>1, <4>1, PayTypes DEF PayInv, ReplyInv, EmptyHandler, Reply
            <4> QED BY <1>1, <1>2, <4>2 DEF Precedes
        <3> QED BY <1>1, <2>1, <3>1, <3>2 DEF Precedes, Ended
    <2>2. ASSUME NEW p \in Orders, NEW q \in Orders, p # o, q # o, Precedes(p, q)
          PROVE  Precedes(p, q)'
        BY <1>1, <2>2 DEF Precedes
    <2> QED BY <1>0, <1>1, <2>1, <2>2 DEF PayInv, OnceEach
<1>8. RevivedOverlapped'
    BY <1>0, <1>1 DEF PayInv, RevivedOverlapped
<1>9. NothingLost'
    BY <1>0, <1>1, NothingLostKept DEF PayInv, Items
<1> QED BY <1>3, <1>4, <1>5, <1>6, <1>7, <1>8, <1>9 DEF PayInv

LEMMA GetUserCartPay ==
    ASSUME BaseInv, PayInv, NEW o \in Orders, GetUserCart(o)
    PROVE  PayInv'
<1>1. /\ order[o].pc = "getUserCart" /\ get[o].reply = "ok"
      /\ order'[o].pc = "prepare" /\ order'[o].user = order[o].user /\ order'[o].items = get[o].copy
      /\ \A p \in Orders : p # o => order'[p] = order[p]
      /\ UNCHANGED <<store, add, empty, get, overlap, charge, ship, revived, after>>
    BY PayTypes DEF GetUserCart, OrderRecord, history, cartVars
<1>2. SerialInv' /\ IdleNotAnswered'
    BY <1>1 DEF PayInv, SerialInv, IdleNotAnswered, Adding, Emptying
<1>3. OrderSerial'
    <2>1. /\ \A u, p : p \in Orders /\ Engaged(p, u)' => Engaged(p, u)
          /\ \A u, a : Adding(a, u)' => Adding(a, u)
          /\ \A u, e : Emptying(e, u)' => Emptying(e, u)
        BY <1>1 DEF Engaged, Emptying, Adding, Waiting
    <2> QED BY <1>1, <2>1, OrderSerialKept DEF PayInv
<1>4. Snapshot'
    <2>1. \A p \in Orders : Open(p)' => Open(p)
        BY <1>1 DEF Open, Waiting
    <2> QED BY <1>1, <2>1 DEF PayInv, Snapshot, Items
<1>5. ReadInv' /\ ReplyInv'
    BY <1>1 DEF PayInv, ReadInv, ReplyInv
<1>6. OnceEach'
    BY <1>1, OnceEachKept DEF PayInv
<1>7. RevivedOverlapped'
    BY <1>1 DEF PayInv, RevivedOverlapped
<1>8. NothingLost'
    <2>1. charge[o] # "ok"
        BY <1>1 DEF BaseInv, Effects, OneOrder
    <2> QED BY <1>1, <2>1, NothingLostKept DEF PayInv, Items
<1> QED BY <1>2, <1>3, <1>4, <1>5, <1>6, <1>7, <1>8 DEF PayInv

\* A step by which orders move on, without a cart request of their own.
LEMMA MovesPay ==
    ASSUME BaseInv, PayInv,
           UNCHANGED <<store, add, empty, get, overlap, revived, after>>,
           \A p \in Orders :
               /\ order'[p].user = order[p].user /\ order'[p].items = order[p].items
               /\ \/ order'[p].pc = order[p].pc
                  \/ order[p].pc \in Waiting /\ order'[p].pc \notin {"idle", "getUserCart"}
               /\ order[p].pc = "getUserCart" =>
                    order'[p].pc \in {"getUserCart", "failed", "crashed"}
               /\ order'[p].pc \in {"sendOrderConfirmation", "placed"} => empty[p].reply # "none"
               /\ charge[p] = "ok" => charge'[p] = "ok"
               /\ ship[p] = "ok" => ship'[p] = "ok"
    PROVE  PayInv'
<1>1. SerialInv' /\ IdleNotAnswered'
    BY DEF PayInv, SerialInv, IdleNotAnswered, Adding, Emptying
<1>2. OrderSerial'
    <2>1. /\ \A u, p : p \in Orders /\ Engaged(p, u)' => Engaged(p, u)
          /\ \A u, a : Adding(a, u)' => Adding(a, u)
          /\ \A u, e : Emptying(e, u)' => Emptying(e, u)
        BY DEF Engaged, Emptying, Adding
    <2> QED BY <2>1, OrderSerialKept DEF PayInv
<1>3. Snapshot'
    <2>1. ASSUME NEW p \in Orders, Open(p)'
          PROVE  Open(p) /\ (order'[p].pc = "getUserCart" <=> order[p].pc = "getUserCart")
        <3>1. Open(p)
            BY <2>1 DEF Open
        <3>2. order[p].pc = "getUserCart" => empty[p].pc = "idle"
            BY DEF BaseInv, Effects, OneOrder
        <3> QED BY <2>1, <3>1, <3>2 DEF Open, Waiting
    <2> QED BY <2>1, SnapshotKept DEF PayInv
<1>4. ReadInv' /\ ReplyInv'
    BY DEF PayInv, ReadInv, ReplyInv
<1>5. OnceEach'
    <2>1. \A p \in Orders : /\ order'[p].pc # "idle" => order[p].pc # "idle"
                            /\ order[p].pc \in {"failed", "crashed"} => order'[p].pc = order[p].pc
        BY DEF Waiting
    <2> QED BY <2>1, OnceEachKept DEF PayInv
<1>6. RevivedOverlapped'
    BY DEF PayInv, RevivedOverlapped
<1>7. NothingLost'
    BY NothingLostKept DEF PayInv, Items
<1> QED BY <1>1, <1>2, <1>3, <1>4, <1>5, <1>6, <1>7 DEF PayInv

LEMMA EmptyUserCartPay ==
    ASSUME BaseInv, PayInv, NEW o \in Orders, EmptyUserCart(o)
    PROVE  PayInv'
<1> DEFINE u == order[o].user
<1>1. /\ order[o].pc = "shipOrder" /\ order'[o].pc = "emptyUserCart"
      /\ order'[o].user = u /\ order'[o].items = order[o].items
      /\ \A p \in Orders : p # o => order'[p] = order[p]
      /\ empty[o].pc = "idle" /\ empty'[o].pc = "HashSet" /\ empty'[o].user = u
      /\ empty'[o].reply = empty[o].reply /\ empty'[o].wrote = empty[o].wrote
      /\ \A e \in EmptyCalls : e # o => empty'[e] = empty[e]
      /\ UNCHANGED <<store, add, get, overlap, charge, ship, revived, after>>
    BY PayTypes DEF EmptyUserCart, Goto, CallEmptyCart, EmptyHandler, OrderRecord, history
<1>2. u \in Users /\ Engaged(o, u) /\ ~empty[o].wrote
    BY <1>1, PayTypes DEF OrderedByUser, Engaged, Waiting, WroteEnded
<1>3. SerialInv' /\ IdleNotAnswered'
    <2>1. u \notin overlap' => ~\E a \in AddCalls : Adding(a, u)
        BY <1>1, <1>2 DEF PayInv, OrderSerial
    <2> QED BY <1>1, <1>2, <2>1, CallsSerial, PayTypes DEF EmptyUserCart, PayInv
<1>4. OrderSerial'
    <2>1. /\ \A v, p : p \in Orders /\ Engaged(p, v)' => Engaged(p, v)
          /\ \A v, a : Adding(a, v)' => Adding(a, v)
          /\ \A v, e : e \in EmptyCalls /\ Emptying(e, v)' => Emptying(e, v) \/ (e = o /\ v = u)
        BY <1>1, PayTypes DEF Engaged, Emptying, Adding, Waiting
    <2> QED BY <1>1, <1>2, <2>1, OrderSerialKept DEF PayInv
<1>5. Snapshot'
    <2>1. \A p \in Orders : Open(p)' => Open(p)
        BY <1>1, PayTypes DEF Open, Waiting
    <2> QED BY <1>1, <2>1, SnapshotKept DEF PayInv
<1>6. ReadInv' /\ ReplyInv'
    BY <1>1, PayTypes DEF PayInv, ReadInv, ReplyInv
<1>7. OnceEach'
    BY <1>1, PayTypes, OnceEachKept DEF PayInv
<1>8. RevivedOverlapped'
    BY <1>1 DEF PayInv, RevivedOverlapped
<1>9. NothingLost'
    BY <1>1, <1>2, NothingLostKept DEF PayInv, Items
<1> QED BY <1>3, <1>4, <1>5, <1>6, <1>7, <1>8, <1>9 DEF PayInv

LEMMA OrderStepPay ==
    ASSUME BaseInv, PayInv, NEW o \in Orders, OrderStep(o) \/ LoseAnswer(o)
    PROVE  PayInv'
<1>1. CASE \/ ChargeCard(o) \/ ShipOrder(o) \/ SendOrderConfirmation(o) \/ ReturnOrder(o)
           \/ FailOrder(o) \/ LoseAnswer(o)
    <2>1. PICK next : /\ order' = [order EXCEPT ![o].pc = next]
                      /\ order[o].pc \in Waiting
                      /\ next \in Waiting \cup Ended /\ next # "getUserCart"
                      /\ order[o].pc = "getUserCart" => next = "failed"
                      /\ next \in {"sendOrderConfirmation", "placed"} => empty[o].reply # "none"
        BY <1>1 DEF ChargeCard, ShipOrder, SendOrderConfirmation, ReturnOrder, FailOrder,
                    LoseAnswer, Goto, Waiting, Ended, PayInv, ReplyInv
    <2>2. \A p \in Orders : /\ order'[p].user = order[p].user /\ order'[p].items = order[p].items
                            /\ p # o => order'[p].pc = order[p].pc
                            /\ p = o => order'[p].pc = next
        BY <2>1, PayTypes DEF OrderRecord
    <2>3. \A p \in Orders : /\ charge[p] = "ok" => charge'[p] = "ok"
                            /\ ship[p] = "ok" => ship'[p] = "ok"
        <3>1. /\ order[o].pc = "prepare" => charge[o] # "ok"
              /\ order[o].pc = "chargeCard" => ship[o] # "ok"
            BY DEF BaseInv, Effects, OneOrder
        <3> QED BY <1>1, <3>1, PayTypes
                DEF ChargeCard, ShipOrder, SendOrderConfirmation, ReturnOrder, FailOrder, LoseAnswer
    <2>4. UNCHANGED <<store, add, empty, get, overlap, revived, after>>
        BY <1>1 DEF ChargeCard, ShipOrder, SendOrderConfirmation, ReturnOrder, FailOrder,
                    LoseAnswer, cartVars, history
    <2>5. \A p \in Orders : order[p].pc \in {"sendOrderConfirmation", "placed"} => empty[p].reply # "none"
        BY DEF PayInv, ReplyInv
    <2> QED BY <2>1, <2>2, <2>3, <2>4, <2>5, MovesPay DEF Waiting, Ended
<1> QED BY <1>1, GetUserCartPay, EmptyUserCartPay DEF OrderStep

LEMMA ServicePay ==
    ASSUME BaseInv, PayInv, Crash \/ \E o \in Orders : ServiceStep(o)
    PROVE  PayInv'
<1>1. UNCHANGED <<store, add, empty, get, overlap, revived, after>>
    BY DEF Crash, ServiceStep, PaymentStep, ShippingStep, cartVars, history
<1>2. \A p \in Orders :
         /\ order'[p].user = order[p].user /\ order'[p].items = order[p].items
         /\ \/ order'[p].pc = order[p].pc
            \/ order[p].pc \in Waiting /\ order'[p].pc = "crashed"
    BY PayTypes DEF Crash, ServiceStep, PaymentStep, ShippingStep, OrderRecord
<1>3. \A p \in Orders : /\ charge[p] = "ok" => charge'[p] = "ok"
                        /\ ship[p] = "ok" => ship'[p] = "ok"
    <2>1. CASE Crash
        BY <2>1 DEF Crash
    <2>2. ASSUME NEW o \in Orders, PaymentStep(o)
          PROVE  \A p \in Orders : /\ charge[p] = "ok" => charge'[p] = "ok"
                                   /\ ship[p] = "ok" => ship'[p] = "ok"
        BY <2>2, PayTypes DEF PaymentStep, Execute
    <2>3. ASSUME NEW o \in Orders, ShippingStep(o)
          PROVE  \A p \in Orders : /\ charge[p] = "ok" => charge'[p] = "ok"
                                   /\ ship[p] = "ok" => ship'[p] = "ok"
        BY <2>3, PayTypes DEF ShippingStep, Execute
    <2> QED BY <2>1, <2>2, <2>3 DEF ServiceStep
<1>4. \A p \in Orders : order[p].pc \in {"sendOrderConfirmation", "placed"} => empty[p].reply # "none"
    BY DEF PayInv, ReplyInv
<1> QED BY <1>1, <1>2, <1>3, <1>4, MovesPay DEF Waiting

LEMMA WriteBackPay ==
    ASSUME BaseInv, PayInv, SerialInv', IdleNotAnswered', NEW a \in AddCalls, WriteBack(a)
    PROVE  PayInv'
<1> DEFINE u == add[a].user
<1>1. PICK answer \in {"ok", "error"} :
        add' = [add EXCEPT ![a].pc = "end", ![a].reply = answer]
    BY DEF WriteBack, AddHashSet
<1>2. /\ add[a].pc = "HashSet" /\ u \in Users
      /\ add'[a].user = u /\ add'[a].pc = "end"
      /\ \A b \in AddCalls : b # a => add'[b] = add[b]
      /\ store' = [store EXCEPT ![u] = add[a].copy \cup {a}]
      /\ revived' = revived \cup (add[a].copy \ Items(store[u]))
      /\ UNCHANGED <<empty, get, overlap, order, charge, ship, after>>
    BY <1>1, PayTypes DEF WriteBack, AddHashSet, AddHandler, CalledByUser, orderVars
<1>3. Items(store'[u]) = add[a].copy \cup {a}
    <2>1. add[a].copy \cup {a} \in SUBSET AddCalls
        BY PayTypes, CartSets
    <2> QED BY <1>2, <2>1, PayTypes, CartStoreAssumption DEF Items
<1>4. u \notin overlap => add[a].copy = Items(store[u])
    BY <1>2 DEF PayInv, SerialInv, Adding
<1>5. \A v \in Users : v # u => store'[v] = store[v]
    BY <1>2, PayTypes
<1>6. OrderSerial'
    <2>1. /\ \A v, p : Engaged(p, v)' => Engaged(p, v)
          /\ \A v : \A b \in AddCalls : Adding(b, v)' => Adding(b, v)
          /\ \A v, e : Emptying(e, v)' => Emptying(e, v)
        BY <1>2 DEF Engaged, Emptying, Adding
    <2> QED BY <1>2, <2>1, OrderSerialKept DEF PayInv
<1>7. Snapshot'
    <2>1. ASSUME NEW o \in Orders, Open(o)' PROVE Open(o) /\ store'[order[o].user] = store[order[o].user]
        <3>1. Open(o) /\ order[o].user \in Users \ overlap
            BY <1>2, <2>1 DEF Open
        <3>2. Engaged(o, order[o].user)
            BY <3>1, PayTypes DEF Open, Engaged, Emptying, SameUser
        <3>3. order[o].user # u
            BY <1>2, <3>1, <3>2 DEF PayInv, OrderSerial, Adding
        <3> QED BY <1>5, <3>1, <3>3
    <2> QED BY <1>2, <2>1, SnapshotKept DEF PayInv
<1>8. ReadInv' /\ ReplyInv'
    BY <1>2 DEF PayInv, ReadInv, ReplyInv
<1>9. OnceEach'
    BY <1>2, OnceEachKept DEF PayInv
<1>10. RevivedOverlapped'
    <2>1. \A b \in add[a].copy : add[b].user = u /\ add[b].pc = "end" /\ b \in AddCalls
        BY PayTypes, CartSets DEF BaseInv, OwnInv, OwnedIn
    <2>2. \A b \in revived : b \in AddCalls
        BY DEF BaseInv, IInvType, OrderTypeOK
    <2>3. ASSUME NEW b \in revived' PROVE /\ b \in AddCalls /\ b # a
                                          /\ add[b].user \in overlap /\ add[b].pc = "end"
        BY <1>2, <1>4, <2>1, <2>2 DEF PayInv, RevivedOverlapped
    <2> QED BY <1>2, <2>3 DEF RevivedOverlapped
<1>11. NothingLost'
    <2> SUFFICES ASSUME NEW v \in Users \ overlap, NEW b \in AddCalls,
                        add'[b].user = v, add'[b].reply = "ok"
                 PROVE  \/ b \in Items(store'[v])
                        \/ \E e \in EmptyCalls \ Orders : empty[e].user = v /\ empty[e].wrote
                        \/ \E o \in Orders : b \in order[o].items /\ charge[o] = "ok" /\ ship[o] = "ok"
        BY <1>2 DEF NothingLost
    <2>1. CASE b = a
        BY <1>2, <1>3, <2>1
    <2>2. CASE b # a
        <3>1. b \in Items(store[v]) => b \in Items(store'[v])
            BY <1>3, <1>4, <1>5
        <3> QED BY <1>2, <2>2, <3>1 DEF PayInv, NothingLost
    <2> QED BY <2>1, <2>2
<1> QED BY <1>6, <1>7, <1>8, <1>9, <1>10, <1>11 DEF PayInv

\* The cart that an order's own EmptyCart empties is the one it paid for.
LEMMA EmptyHashSetPay ==
    ASSUME BaseInv, PayInv, SerialInv', IdleNotAnswered', NEW e \in EmptyCalls, EmptyHashSet(e),
           UNCHANGED <<orderVars, history>>
    PROVE  PayInv'
<1> DEFINE u == empty[e].user
<1>1. PICK answer \in {"ok", "error"} :
        empty' = [empty EXCEPT ![e].pc = "end", ![e].wrote = TRUE, ![e].reply = Told(@, answer)]
    BY DEF EmptyHashSet
<1>2. /\ empty[e].pc = "HashSet" /\ u \in Users
      /\ empty'[e].user = u /\ empty'[e].pc = "end" /\ empty'[e].wrote
      /\ empty'[e].reply # "none" /\ (empty[e].reply = "error" => empty'[e].reply = "error")
      /\ \A f \in EmptyCalls : f # e => empty'[f] = empty[f]
      /\ store' = [store EXCEPT ![u] = {}]
      /\ UNCHANGED <<add, get, overlap, order, charge, ship, revived, after>>
    BY <1>1, PayTypes DEF EmptyHashSet, EmptyHandler, Told, CalledByUser, orderVars, history
<1>3. \A v \in Users : v # u => store'[v] = store[v]
    BY <1>2, PayTypes
<1>4. OrderSerial'
    <2>1. /\ \A v : \A f \in EmptyCalls : Emptying(f, v)' => Emptying(f, v)
          /\ \A v, b : Adding(b, v)' => Adding(b, v)
        BY <1>2 DEF Emptying, Adding
    <2>2. \A v : \A p \in Orders : Engaged(p, v)' => Engaged(p, v)
        BY <1>2, <2>1, PayTypes DEF Engaged
    <2> QED BY <1>2, <2>1, <2>2, OrderSerialKept DEF PayInv
<1>5. Snapshot'
    <2>1. ASSUME NEW o \in Orders, Open(o)' PROVE Open(o) /\ store'[order[o].user] = store[order[o].user]
        <3>1. o # e /\ o \in EmptyCalls /\ order[o].user \in Users \ overlap
            BY <1>2, <2>1, PayTypes DEF Open
        <3>2. Open(o)
            BY <1>2, <2>1, <3>1 DEF Open
        <3>3. Engaged(o, order[o].user)
            BY <3>2, PayTypes DEF Open, Engaged, Emptying, SameUser
        <3>4. order[o].user # u
            BY <1>2, <3>1, <3>3 DEF PayInv, OrderSerial, Emptying
        <3> QED BY <1>3, <3>1, <3>2, <3>4
    <2> QED BY <1>2, <2>1, SnapshotKept DEF PayInv
<1>6. ReadInv' /\ ReplyInv'
    BY <1>2, PayTypes DEF PayInv, ReadInv, ReplyInv
<1>7. OnceEach'
    BY <1>2, PayTypes, OnceEachKept DEF PayInv
<1>8. RevivedOverlapped'
    BY <1>2 DEF PayInv, RevivedOverlapped
<1>9. NothingLost'
    <2> SUFFICES ASSUME NEW v \in Users \ overlap, NEW b \in AddCalls,
                        add[b].user = v, add[b].reply = "ok"
                 PROVE  \/ b \in Items(store'[v])
                        \/ \E f \in EmptyCalls \ Orders : empty'[f].user = v /\ empty'[f].wrote
                        \/ \E o \in Orders : b \in order[o].items /\ charge[o] = "ok" /\ ship[o] = "ok"
        BY <1>2 DEF NothingLost
    <2>1. \/ b \in Items(store[v])
          \/ \E f \in EmptyCalls \ Orders : empty[f].user = v /\ empty[f].wrote
          \/ \E o \in Orders : b \in order[o].items /\ charge[o] = "ok" /\ ship[o] = "ok"
        BY DEF PayInv, NothingLost
    <2>2. CASE v # u \/ b \notin Items(store[v])
        BY <1>2, <1>3, <2>1, <2>2
    <2>3. CASE v = u /\ e \notin Orders
        BY <1>2, <2>3
    <2>4. CASE v = u /\ b \in Items(store[v]) /\ e \in Orders
        <3>1. Effects(e)
            BY <2>4 DEF BaseInv
        <3>2. order[e].user = u /\ ~empty[e].wrote
            BY <1>2, <2>4, PayTypes DEF SameUser, WroteEnded
        <3>3. /\ order[e].pc # "getUserCart"
              /\ charge[e] = "ok" /\ ship[e] = "ok"
            BY <1>2, <3>1 DEF Effects, OneOrder
        <3>4. order[e].items = Items(store[u])
            BY <1>2, <2>4, <3>2, <3>3 DEF PayInv, Snapshot, Open
        <3> QED BY <2>4, <3>3, <3>4
    <2> QED BY <2>2, <2>3, <2>4
<1> QED BY <1>4, <1>5, <1>6, <1>7, <1>8, <1>9 DEF PayInv

LEMMA ReadForOrderPay ==
    ASSUME BaseInv, PayInv, SerialInv', IdleNotAnswered', NEW o \in Orders, ReadForOrder(o)
    PROVE  PayInv'
<1> DEFINE c == Items(store[get[o].user])
<1>1. /\ get[o].pc = "HashGet"
      /\ get' = [get EXCEPT ![o].pc = "end", ![o].copy = c, ![o].reply = "ok"]
      /\ UNCHANGED <<store, add, empty, overlap, order, charge, ship, revived>>
    BY DEF ReadForOrder, GetHashGet, orderVars
<1>2. /\ \A p \in Orders : p # o => after'[p] = after[p]
      /\ after'[o] = {p \in Orders : empty[p].wrote}
    BY PayTypes DEF ReadForOrder
<1>3. c = Items(store[get[o].user])
    OBVIOUS
<1> HIDE DEF c
<1>4. /\ get'[o].pc = "end" /\ get'[o].copy = c /\ get'[o].reply = "ok"
      /\ get'[o].user = get[o].user
      /\ \A p \in Orders : p # o => get'[p] = get[p]
    BY <1>1, PayTypes DEF GetHandler
<1>5. get[o].reply # "ok" /\ order[o].items = {}
    BY <1>1 DEF PayInv, ReadInv
<1>6. OrderSerial'
    <2>1. /\ \A v : \A p \in Orders : Engaged(p, v)' => Engaged(p, v)
          /\ \A v, b : Adding(b, v)' => Adding(b, v)
          /\ \A v, e : Emptying(e, v)' => Emptying(e, v)
        BY <1>1, <1>4 DEF Engaged, Emptying, Adding
    <2> QED BY <1>1, <2>1, OrderSerialKept DEF PayInv
<1>7. Snapshot'
    <2>1. ASSUME NEW p \in Orders, Open(p)'
          PROVE  IF order[p].pc = "getUserCart"
                   THEN get'[p].reply = "ok" => get'[p].copy = Items(store[order[p].user])
                   ELSE order[p].items = Items(store[order[p].user])
        <3>1. Open(p)
            BY <1>1, <2>1 DEF Open
        <3>2. CASE p # o \/ order[p].pc # "getUserCart"
            BY <1>4, <3>1, <3>2 DEF PayInv, Snapshot
        <3>3. CASE p = o /\ order[o].pc = "getUserCart"
            BY <1>3, <1>4, <3>3, PayTypes DEF SameUser
        <3> QED BY <3>2, <3>3
    <2> QED BY <1>1, <2>1 DEF Snapshot, Items
<1>8. ReadInv' /\ ReplyInv'
    BY <1>1, <1>4, <1>5 DEF PayInv, ReadInv, ReplyInv
<1>9. OnceEach'
    <2>1. \A p \in Orders : get'[p].reply = "ok" =>
             \A q \in Orders : empty[q].wrote /\ (get[p].reply = "ok" => q \in after[p])
                                  => q \in after'[p]
        BY <1>2, <1>4
    <2> QED BY <1>1, <2>1, OnceEachKept DEF PayInv
<1>10. RevivedOverlapped'
    BY <1>1 DEF PayInv, RevivedOverlapped
<1>11. NothingLost'
    BY <1>1, NothingLostKept DEF PayInv, Items
<1> QED BY <1>6, <1>7, <1>8, <1>9, <1>10, <1>11 DEF PayInv

\* A cart step that writes to no cart and reads none for an order.
LEMMA OtherCartStepPay ==
    ASSUME BaseInv, PayInv, SerialInv', IdleNotAnswered', UNCHANGED <<orderVars, history>>,
           \/ \E a \in AddCalls : AddHashGet(a) \/ AddFail(a)
           \/ \E e \in EmptyCalls : EmptyFail(e) \/ EmptyAbandoned(e)
           \/ \E o \in Orders : GetFail(o)
    PROVE  PayInv'
<1>1. /\ \A a \in AddCalls : /\ add'[a].user = add[a].user
                             /\ add[a].pc = "end" => add'[a].pc = "end"
                             /\ add'[a].reply = "ok" => add[a].reply = "ok"
      /\ \A e \in EmptyCalls :
            /\ empty'[e].user = empty[e].user /\ empty'[e].wrote = empty[e].wrote
            /\ empty'[e].pc # "end" => empty'[e].pc = empty[e].pc
            /\ empty[e].pc = "end" => empty'[e].pc = "end"
            /\ empty'[e].reply = "ok" => empty[e].reply = "ok"
            /\ empty[e].reply = "error" => empty'[e].reply = "error"
            /\ empty[e].reply # "none" => empty'[e].reply # "none"
      /\ \A o \in Orders :
            /\ get'[o].user = get[o].user /\ get'[o].copy = get[o].copy
            /\ get[o].pc = "end" => get'[o] = get[o]
            /\ get'[o].reply = "ok" => get[o].reply = "ok"
      /\ UNCHANGED <<store, overlap, order, charge, ship, revived, after>>
    <2>1. ASSUME NEW a \in AddCalls, AddHashGet(a)
          PROVE  /\ \A b \in AddCalls : /\ add'[b].user = add[b].user /\ add'[b].reply = add[b].reply
                                        /\ add[b].pc = "end" => add'[b].pc = "end"
                 /\ UNCHANGED <<store, empty, get, overlap>>
        <3> DEFINE c == Items(store[add[a].user])
        <3>1. /\ add' = [add EXCEPT ![a].pc = "HashSet", ![a].copy = c] /\ add[a].pc = "HashGet"
              /\ UNCHANGED <<store, empty, get, overlap>>
            BY <2>1 DEF AddHashGet
        <3> HIDE DEF c
        <3> QED BY <3>1, PayTypes DEF AddHandler
    <2>2. ASSUME NEW a \in AddCalls, AddFail(a)
          PROVE  /\ \A b \in AddCalls : /\ add'[b].user = add[b].user
                                        /\ add'[b].reply = "ok" => add[b].reply = "ok"
                                        /\ add[b].pc = "end" => add'[b].pc = "end"
                 /\ UNCHANGED <<store, empty, get, overlap>>
        BY <2>2, PayTypes DEF AddFail, AddHandler
    <2>3. ASSUME NEW e \in EmptyCalls, EmptyFail(e) \/ EmptyAbandoned(e)
          PROVE  /\ \A f \in EmptyCalls :
                      /\ empty'[f].user = empty[f].user /\ empty'[f].wrote = empty[f].wrote
                      /\ empty'[f].pc # "end" => empty'[f].pc = empty[f].pc
                      /\ empty[f].pc = "end" => empty'[f].pc = "end"
                      /\ empty'[f].reply = "ok" => empty[f].reply = "ok"
                      /\ empty[f].reply = "error" => empty'[f].reply = "error"
                      /\ empty[f].reply # "none" => empty'[f].reply # "none"
                 /\ UNCHANGED <<store, add, get, overlap>>
        <3>1. ASSUME EmptyFail(e), NEW f \in EmptyCalls
              PROVE  /\ empty'[f].user = empty[f].user /\ empty'[f].wrote = empty[f].wrote
                     /\ empty'[f].pc # "end" => empty'[f].pc = empty[f].pc
                     /\ empty[f].pc = "end" => empty'[f].pc = "end"
                     /\ empty'[f].reply = "ok" => empty[f].reply = "ok"
                     /\ empty[f].reply = "error" => empty'[f].reply = "error"
                     /\ empty[f].reply # "none" => empty'[f].reply # "none"
            BY <3>1, PayTypes DEF EmptyFail, EmptyHandler, Told
        <3>2. ASSUME EmptyAbandoned(e), NEW f \in EmptyCalls
              PROVE  /\ empty'[f].user = empty[f].user /\ empty'[f].wrote = empty[f].wrote
                     /\ empty'[f].pc # "end" => empty'[f].pc = empty[f].pc
                     /\ empty[f].pc = "end" => empty'[f].pc = "end"
                     /\ empty'[f].reply = "ok" => empty[f].reply = "ok"
                     /\ empty[f].reply = "error" => empty'[f].reply = "error"
                     /\ empty[f].reply # "none" => empty'[f].reply # "none"
            BY <3>2, PayTypes DEF EmptyAbandoned, EmptyHandler
        <3>3. UNCHANGED <<store, add, get, overlap>>
            BY <2>3 DEF EmptyFail, EmptyAbandoned
        <3> QED BY <2>3, <3>1, <3>2, <3>3
    <2>4. ASSUME NEW o \in Orders, GetFail(o)
          PROVE  /\ \A p \in Orders :
                      /\ get'[p].user = get[p].user /\ get'[p].copy = get[p].copy
                      /\ get[p].pc = "end" => get'[p] = get[p]
                      /\ get'[p].reply = "ok" => get[p].reply = "ok"
                 /\ UNCHANGED <<store, add, empty, overlap>>
        BY <2>4, PayTypes DEF GetFail, GetHandler
    <2> QED BY <2>1, <2>2, <2>3, <2>4 DEF orderVars, history
<1>2. OrderSerial'
    <2>1. /\ \A v : \A e \in EmptyCalls : Emptying(e, v)' => Emptying(e, v)
          /\ \A v : \A b \in AddCalls : Adding(b, v)' => Adding(b, v)
        BY <1>1 DEF Emptying, Adding
    <2>2. \A v : \A p \in Orders : Engaged(p, v)' => Engaged(p, v)
        BY <1>1, <2>1, PayTypes DEF Engaged
    <2> QED BY <1>1, <2>1, <2>2, OrderSerialKept DEF PayInv
<1>3. Snapshot'
    <2>1. \A o \in Orders : Open(o)' => Open(o)
        BY <1>1, PayTypes DEF Open
    <2> QED BY <1>1, <2>1, SnapshotKept DEF PayInv
<1>4. ReadInv' /\ ReplyInv'
    <2>1. \A o \in Orders : get[o].reply = "ok" => get[o].pc = "end"
        BY DEF PayInv, ReadInv
    <2> QED BY <1>1, <2>1, PayTypes DEF PayInv, ReadInv, ReplyInv
<1>5. OnceEach'
    BY <1>1, PayTypes, OnceEachKept DEF PayInv
<1>6. RevivedOverlapped'
    <2>1. \A b \in revived : b \in AddCalls
        BY DEF BaseInv, IInvType, OrderTypeOK
    <2> QED BY <1>1, <2>1 DEF PayInv, RevivedOverlapped
<1>7. NothingLost'
    BY <1>1, NothingLostKept DEF PayInv, Items
<1> QED BY <1>2, <1>3, <1>4, <1>5, <1>6, <1>7 DEF PayInv

LEMMA CartStepPay == ASSUME BaseInv, PayInv, CartStep PROVE PayInv'
<1>1. SerialInv' /\ IdleNotAnswered'
    BY CartStepIsHandlerStep, HandlersSerial, PayTypes DEF PayInv
<1>2. \/ \E a \in AddCalls : WriteBack(a)
      \/ \E e \in EmptyCalls : EmptyHashSet(e) /\ UNCHANGED <<orderVars, history>>
      \/ \E o \in Orders : ReadForOrder(o)
      \/ /\ UNCHANGED <<orderVars, history>>
         /\ \/ \E a \in AddCalls : AddHashGet(a) \/ AddFail(a)
            \/ \E e \in EmptyCalls : EmptyFail(e) \/ EmptyAbandoned(e)
            \/ \E o \in Orders : GetFail(o)
    BY DEF CartStep, CartReadStep, CartEmptyStep, EmptyStep
<1>3. CASE \E a \in AddCalls : WriteBack(a)
    BY <1>1, <1>3, WriteBackPay
<1>4. CASE \E e \in EmptyCalls : EmptyHashSet(e) /\ UNCHANGED <<orderVars, history>>
    BY <1>1, <1>4, EmptyHashSetPay
<1>5. CASE \E o \in Orders : ReadForOrder(o)
    BY <1>1, <1>5, ReadForOrderPay
<1>6. CASE /\ UNCHANGED <<orderVars, history>>
           /\ \/ \E a \in AddCalls : AddHashGet(a) \/ AddFail(a)
              \/ \E e \in EmptyCalls : EmptyFail(e) \/ EmptyAbandoned(e)
              \/ \E o \in Orders : GetFail(o)
    BY <1>1, <1>6, OtherCartStepPay
<1> QED BY <1>2, <1>3, <1>4, <1>5, <1>6

LEMMA InitPay == Init => PayInv
<1> SUFFICES ASSUME Init PROVE PayInv
    OBVIOUS
<1>1. /\ \A a \in AddCalls : add[a].user = NoUser /\ add[a].reply = "none"
      /\ \A e \in EmptyCalls : /\ empty[e].user = NoUser /\ empty[e].pc = "idle"
                               /\ empty[e].reply = "none"
      /\ \A o \in Orders : /\ order[o].pc = "idle" /\ order[o].user = NoUser /\ order[o].items = {}
                           /\ get[o].user = NoUser /\ get[o].reply = "none"
                           /\ o \in EmptyCalls
      /\ revived = {} /\ NoUser \notin Users
    BY CheckoutAssumption, CartStoreAssumption DEF Init, CartInit
<1>2. SerialInv /\ IdleNotAnswered
    BY SerialInit DEF Init
<1>3. OrderSerial /\ Snapshot
    BY <1>1 DEF OrderSerial, Engaged, Emptying, Snapshot, Open
<1>4. ReadInv /\ ReplyInv /\ OnceEach /\ RevivedOverlapped /\ NothingLost
    BY <1>1 DEF ReadInv, ReplyInv, OnceEach, RevivedOverlapped, NothingLost
<1> QED BY <1>2, <1>3, <1>4 DEF PayInv

LEMMA NextPay == BaseInv /\ PayInv /\ [Next]_vars => PayInv'
<1> SUFFICES ASSUME BaseInv, PayInv, [Next]_vars PROVE PayInv'
    OBVIOUS
<1>1. CASE UNCHANGED vars
    BY <1>1, MovesPay DEF vars, cartVars, orderVars, history, PayInv, ReplyInv
<1>2. CASE \E u \in Users : Shopper(u)
    BY <1>2, AddToCartPay, EmptyOwnCartPay, PlaceOrderPay DEF Shopper
<1> QED BY <1>1, <1>2, OrderStepPay, ServicePay, CartStepPay DEF Next

LEMMA BaseAndPayAlways == Spec => [](BaseInv /\ PayInv)
<1>1. Init => BaseInv /\ PayInv
    BY InitType, InitEffects, OwnInvInit, RevInit, InitPay DEF Init, BaseInv
<1>2. BaseInv /\ [Next]_vars => BaseInv'
    BY NextType, NextEffects, CartStepsOwn, NextRev DEF BaseInv
<1>3. BaseInv /\ PayInv /\ [Next]_vars => (BaseInv /\ PayInv)'
    BY <1>2, NextPay
<1> QED BY <1>1, <1>3, PTL DEF Spec

\* A shopper who waits for each request pays for an item in two orders only if
\* one of them failed, died or got an error from EmptyCart, for any number of
\* shoppers, orders and requests.
THEOREM PaidOnce == Spec => []PaidTwiceOnlyAfterFailure
<1>1. ASSUME BaseInv, PayInv PROVE PaidTwiceOnlyAfterFailure
    <2> SUFFICES ASSUME NEW o \in Orders, NEW p \in Orders, o # p,
                        charge[o] = "ok", charge[p] = "ok", order[o].user \notin overlap,
                        NEW b \in order[o].items \cap order[p].items
                 PROVE  \E q \in {o, p} : \/ order[q].pc \in {"failed", "crashed"}
                                          \/ empty[q].reply = "error"
        BY DEF PaidTwiceOnlyAfterFailure
    <2>1. order[o].pc # "idle" /\ order[p].pc # "idle"
        BY <1>1 DEF BaseInv, Effects, OneOrder
    <2>2. add[b].user = order[o].user /\ order[p].user = order[o].user
        BY <1>1, PayTypes DEF OwnOrders, OwnedIn
    <2>3. Precedes(o, p) \/ Precedes(p, o)
        BY <1>1, <2>1, <2>2 DEF PayInv, OnceEach
    <2>4. ASSUME NEW q \in {o, p}, NEW r \in {o, p}, Precedes(q, r)
          PROVE  order[q].pc \in {"failed", "crashed"} \/ empty[q].reply = "error"
        <3>1. order[r].items = get[r].copy /\ get[r].reply = "ok"
            BY <1>1 DEF PayInv, ReadInv
        <3>2. q \in after[r] => b \in revived
            BY <1>1, <3>1 DEF BaseInv, RevInv, ReadAfter
        <3>3. b \notin revived
            BY <1>1, <2>2 DEF PayInv, RevivedOverlapped
        <3> QED BY <2>4, <3>1, <3>2, <3>3 DEF Precedes
    <2> QED BY <2>3, <2>4
<1> QED BY <1>1, BaseAndPayAlways, PTL

\* No acknowledged item of such a shopper disappears without having been paid
\* and shipped or dropped on request.
THEOREM NoItemLost == Spec => []NothingLost
<1>1. BaseInv /\ PayInv => NothingLost
    BY DEF PayInv
<1> QED BY <1>1, BaseAndPayAlways, PTL
=============================================================================
