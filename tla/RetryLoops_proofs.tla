-------------------------- MODULE RetryLoops_proofs --------------------------
(***************************************************************************)
(* Two loops that start again when what they have read was replaced        *)
(* meanwhile, and the atomic objects they implement: the counter of the    *)
(* plugin shared_data, for any number of VMs, any initial value and any    *)
(* bound, and the carts of LocalCartStore.cs, for any users, products and  *)
(* calls.                                                                  *)
(***************************************************************************)
EXTENDS SharedData, LocalCartStore, SequenceTheorems, TLAPS

\* The invariant holds in the initial state.
LEMMA InitHolds == Init => SharedDataTypeOK
  BY SharedDataAssumption DEF Init, SharedDataTypeOK, Entry, VMAt

\* Every step of a VM keeps the types, and the agreement of the values held
\* with the current number: a new number is above all that are held.
LEMMA StepKeeps ==
  ASSUME SharedDataTypeOK, [Next]_vars
  PROVE  SharedDataTypeOK'
<1> USE SharedDataAssumption DEF SharedDataTypeOK, Entry, VMAt
<1>1. ASSUME NEW m \in VMs, OnVMStart(m)
      PROVE  SharedDataTypeOK'
  BY <1>1 DEF OnVMStart, Store
<1>2. ASSUME NEW m \in VMs, OnHttpRequestHeaders(m)
      PROVE  SharedDataTypeOK'
  BY <1>2 DEF OnHttpRequestHeaders
<1>3. ASSUME NEW m \in VMs, GetSharedData(m)
      PROVE  SharedDataTypeOK'
  BY <1>3 DEF GetSharedData
<1>4. ASSUME NEW m \in VMs, SetSharedData(m)
      PROVE  SharedDataTypeOK'
  BY <1>4 DEF SetSharedData, Store
<1>5. ASSUME NEW m \in VMs, CasMismatch(m)
      PROVE  SharedDataTypeOK'
  BY <1>5 DEF CasMismatch
<1>6. CASE UNCHANGED vars
  BY <1>6 DEF vars
<1> QED BY <1>1, <1>2, <1>3, <1>4, <1>5, <1>6 DEF Next, Loop

\* The types hold always, and a loop that holds the current number holds the
\* current value (incrementData between GetSharedData and SetSharedData).
THEOREM SharedDataTypeCorrect == Spec => []SharedDataTypeOK
<1>1. Init => SharedDataTypeOK
  BY InitHolds
<1>2. SharedDataTypeOK /\ [Next]_vars => SharedDataTypeOK'
  BY StepKeeps
<1> QED BY <1>1, <1>2, PTL DEF Spec

\* Every step of the loops is a step of the atomic counter or leaves it alone.
LEMMA StepSimulates ==
  ASSUME SharedDataTypeOK, [Next]_vars
  PROVE  [C!CNext]_<<data.value, logged>>
<1> USE DEF SharedDataTypeOK, Entry, VMAt, C!CNext
<1>1. ASSUME NEW m \in VMs, OnVMStart(m)
      PROVE  C!SetBack
  BY <1>1 DEF OnVMStart, Store, C!SetBack
<1>2. ASSUME NEW m \in VMs, OnHttpRequestHeaders(m)
      PROVE  UNCHANGED <<data.value, logged>>
  BY <1>2 DEF OnHttpRequestHeaders
<1>3. ASSUME NEW m \in VMs, GetSharedData(m)
      PROVE  UNCHANGED <<data.value, logged>>
  BY <1>3 DEF GetSharedData
<1>4. ASSUME NEW m \in VMs, SetSharedData(m)
      PROVE  C!Increment
  <2>1. vm[m].value = data.value
    BY <1>4 DEF SetSharedData
  <2>2. data'.value = vm[m].value + 1 /\ logged' = vm[m].value + 1
    BY <1>4 DEF SetSharedData, Store
  <2> QED BY <2>1, <2>2 DEF C!Increment
<1>5. ASSUME NEW m \in VMs, CasMismatch(m)
      PROVE  UNCHANGED <<data.value, logged>>
  BY <1>5 DEF CasMismatch
<1>6. CASE UNCHANGED vars
  BY <1>6 DEF vars
<1> QED BY <1>1, <1>2, <1>3, <1>4, <1>5, <1>6 DEF Next, Loop

\* The compare-and-swap loops of any number of VMs implement the atomic counter
\* of the plugin's README: no increment is lost between two starts of a VM.
THEOREM CounterImplemented == Spec => ImplementsCounter
<1>1. Init => C!CInit
  BY DEF Init, Entry, C!CInit
<1>2. SharedDataTypeOK /\ [Next]_vars => [C!CNext]_<<data.value, logged>>
  BY StepSimulates
<1> QED BY <1>1, <1>2, SharedDataTypeCorrect, PTL DEF Spec, ImplementsCounter, C!CSpec

-----------------------------------------------------------------------------
(***************************************************************************)
(* The carts of LocalCartStore.                                            *)
(***************************************************************************)
Objects  == Adds \union Empties
CartItem == [product : Products, calls : SUBSET Adds]
Adders   == [pc : {"idle", "look", "add", "find", "change", "replace", "end"}, user : Owners \union {Nobody},
             product : Products \union {Nobody}, cart : Objects \union {NoObject}, seen : Seq(CartItem)]

LocalType ==
    /\ userCartItems \in [Owners -> Objects \union {NoObject}]
    /\ cartObject \in [Objects -> Seq(CartItem)]
    /\ adder \in [Adds -> Adders]
    /\ emptied \subseteq Empties /\ clash \subseteq Owners
    /\ \A a \in Adds :
          IF adder[a].pc = "idle" THEN adder[a].user = Nobody
                                  ELSE adder[a].user \in Owners /\ adder[a].product \in Products

(* A cart is only ever the cart of one user, who knows it, or whose calls  *)
(* do; one that nobody knows is still to be made.                          *)
Uses(u, o) == userCartItems[u] = o \/ \E a \in Adds : adder[a].user = u /\ adder[a].cart = o

OwnedInv ==
    \A o \in Objects, u \in Owners : Uses(u, o) =>
        /\ \A v \in Owners : Uses(v, o) => v = u
        /\ IF o \in Adds THEN adder[o].pc = "end" ELSE o \in emptied

(* The only call of a user is on that user's cart, or the cart is a new    *)
(* and empty one; what the call has seen is still there.                   *)
Holding == {"find", "change", "replace"}

HoldsCart ==
    \A a \in Adds : adder[a].pc \in Holding =>
        adder[a].cart # NoObject /\ userCartItems[adder[a].user] # NoObject

AloneOnCart(u, a) ==
    /\ Adding(u) = {a}
    /\ adder[a].pc \in Holding =>
          \/ adder[a].cart = userCartItems[u]
          \/ cartObject[userCartItems[u]] = <<>>
    /\ adder[a].pc = "change" => adder[a].seen = cartObject[adder[a].cart]
    /\ adder[a].pc = "replace" => cartObject[adder[a].cart] # <<>>

LocalInv ==
    /\ LocalType /\ OwnedInv /\ HoldsCart
    /\ \A u \in Owners \ clash : \A a \in Adding(u) : AloneOnCart(u, a)

-----------------------------------------------------------------------------
\* A member of a sequence, and a sequence that is cut off and goes on with one more.
LEMMA MemberOfSeq ==
    ASSUME NEW S, NEW s \in Seq(S), NEW k \in DOMAIN s
    PROVE  s[k] \in S /\ k \in 1..Len(s)
OBVIOUS

LEMMA CutAndAppend ==
    ASSUME NEW S, NEW s \in Seq(S), NEW n \in 0..Len(s), NEW x \in S
    PROVE  SubSeq(s, 1, n) \o <<x>> \in Seq(S) /\ SubSeq(s, 1, n) \o <<x>> # <<>>
<1>1. SubSeq(s, 1, n) \in Seq(S) /\ Len(SubSeq(s, 1, n)) = n
    OBVIOUS
<1>2. <<x>> \in Seq(S) /\ Len(<<x>>) = 1
    OBVIOUS
<1>3. Len(SubSeq(s, 1, n) \o <<x>>) = n + 1
    BY <1>1, <1>2
<1> QED BY <1>1, <1>2, <1>3

\* Each action of an AddItem call by its effect on the call.
LEMMA AdderMoves ==
    ASSUME LocalType, HoldsCart, NEW a \in Adds,
           LookUp(a) \/ TryAdd(a) \/ FindItem(a) \/ ChangeItem(a) \/ TryUpdate(a)
    PROVE  /\ adder[a].user \in Owners /\ adder[a].product \in Products
           /\ adder[a].pc \notin {"idle", "end"}
           /\ emptied' = emptied /\ clash' = clash
           /\ adder' \in [Adds -> Adders]
           /\ \A b \in Adds \ {a} : adder'[b] = adder[b]
           /\ adder'[a].user = adder[a].user /\ adder'[a].product = adder[a].product
           /\ adder'[a].pc # "idle"
           /\ adder'[a].cart = IF LookUp(a) THEN userCartItems[adder[a].user] ELSE adder[a].cart
<1>1. /\ adder \in [Adds -> Adders] /\ adder[a] \in Adders
      /\ adder[a].pc \notin {"idle", "end"} /\ emptied' = emptied /\ clash' = clash
      /\ adder[a].user \in Owners /\ adder[a].product \in Products
    BY DEF LocalType, LookUp, TryAdd, FindItem, ChangeItem, TryUpdate
<1>2. CASE LookUp(a)
    <2> DEFINE cart == userCartItems[adder[a].user]
               pc == IF cart = NoObject THEN "add" ELSE "find"
    <2>1. cart \in Objects \union {NoObject} /\ pc \in {"add", "find"}
        BY <1>1 DEF LocalType
    <2>2. adder' = [adder EXCEPT ![a].cart = cart, ![a].pc = pc]
        BY <1>2 DEF LookUp
    <2> HIDE DEF cart, pc
    <2>3. adder' \in [Adds -> Adders] /\ adder'[a].cart = cart
          /\ adder'[a].user = adder[a].user /\ adder'[a].product = adder[a].product
          /\ adder'[a].pc = pc
        BY <1>1, <2>1, <2>2 DEF Adders
    <2> QED BY <1>1, <1>2, <2>1, <2>2, <2>3 DEF cart
<1>3. CASE TryAdd(a) \/ ChangeItem(a) \/ TryUpdate(a)
    <2>1. PICK pc \in {"look", "end", "replace"} : adder' = [adder EXCEPT ![a].pc = pc]
        BY <1>3 DEF TryAdd, ChangeItem, TryUpdate, Goto
    <2>2. adder' \in [Adds -> Adders] /\ adder'[a].cart = adder[a].cart
          /\ adder'[a].user = adder[a].user /\ adder'[a].product = adder[a].product
          /\ adder'[a].pc = pc
        BY <1>1, <2>1 DEF Adders
    <2>3. ~LookUp(a)
        BY <1>3 DEF LookUp, TryAdd, ChangeItem, TryUpdate
    <2> QED BY <1>1, <2>1, <2>2, <2>3
<1>4. CASE FindItem(a)
    <2>1. adder[a].cart \in Objects /\ adder[a].pc = "find"
        BY <1>1, <1>4 DEF Adders, FindItem, HoldsCart, Holding
    <2> DEFINE items == cartObject[adder[a].cart]
               pc == IF Cardinality(Matches(items, a)) > 1 THEN "end" ELSE "change"
    <2>2. adder' = [adder EXCEPT ![a].seen = items, ![a].pc = pc] /\ pc \in {"end", "change"}
        BY <1>4 DEF FindItem
    <2>3. items \in Seq(CartItem)
        BY <2>1 DEF LocalType
    <2> HIDE DEF items, pc
    <2>4. adder' \in [Adds -> Adders] /\ adder'[a].cart = adder[a].cart
          /\ adder'[a].user = adder[a].user /\ adder'[a].product = adder[a].product
          /\ adder'[a].pc = pc
        BY <1>1, <2>2, <2>3 DEF Adders
    <2>5. ~LookUp(a)
        BY <2>1 DEF LookUp
    <2> QED BY <1>1, <2>2, <2>4, <2>5
<1> QED BY <1>2, <1>3, <1>4

CallsIn(s) == UNION {s[k].calls : k \in DOMAIN s}

\* An item of a cart gets one more call.
LEMMA OneMoreCall ==
    ASSUME NEW s \in Seq(CartItem), NEW k, NEW calls \in SUBSET Adds
    PROVE  LET t == [s EXCEPT ![k].calls = calls]
           IN  /\ t \in Seq(CartItem)
               /\ \A a : k \in DOMAIN s /\ calls = s[k].calls \union {a} =>
                     t # <<>> /\ CallsIn(t) = CallsIn(s) \union {a}
<1> DEFINE t == [s EXCEPT ![k].calls = calls]
<1>1. Len(s) \in Nat /\ s \in [1..Len(s) -> CartItem]
    OBVIOUS
<1>2. ASSUME NEW j \in 1..Len(s)
      PROVE  /\ [s[j] EXCEPT !.calls = calls] \in CartItem
             /\ [s[j] EXCEPT !.calls = calls].calls = calls
    <2>1. s[j] \in CartItem
        BY <1>1
    <2> QED BY <2>1 DEF CartItem
<1>3. t \in [1..Len(s) -> CartItem]
    BY <1>1, <1>2
<1>4. t \in Seq(CartItem)
    BY <1>1, <1>3
<1>5. ASSUME NEW a, k \in DOMAIN s, calls = s[k].calls \union {a}
      PROVE  t # <<>> /\ CallsIn(t) = CallsIn(s) \union {a}
    <2>1. k \in 1..Len(s) /\ DOMAIN t = 1..Len(s) /\ DOMAIN s = 1..Len(s)
        BY <1>1, <1>3, <1>5
    <2>2. t[k].calls = s[k].calls \union {a} /\ \A j \in 1..Len(s) : j # k => t[j] = s[j]
        BY <1>1, <1>2, <1>5, <2>1
    <2> HIDE DEF t
    <2>3. t # <<>>
        BY <1>1, <2>1
    <2>4. \A x : x \in CallsIn(t) <=> x \in CallsIn(s) \union {a}
        BY <2>1, <2>2 DEF CallsIn
    <2> QED BY <2>3, <2>4
<1> QED BY <1>4, <1>5

\* A cart gets one more item.
LEMMA OneMoreItem ==
    ASSUME NEW s \in Seq(CartItem), NEW x \in CartItem
    PROVE  LET t == SubSeq(s, 1, Len(s)) \o <<x>>
           IN  CallsIn(t) = CallsIn(s) \union x.calls
<1> DEFINE t == SubSeq(s, 1, Len(s)) \o <<x>>
<1>1. Len(s) \in Nat /\ DOMAIN s = 1..Len(s) /\ DOMAIN t = 1..(Len(s) + 1)
    OBVIOUS
<1>2. /\ t[Len(s) + 1] = x
      /\ \A j \in 1..Len(s) : t[j] = s[j]
    <2> DEFINE c == SubSeq(s, 1, Len(s))
    <2>1. c \in Seq(CartItem) /\ Len(c) = Len(s) /\ \A j \in 1..Len(s) : c[j] = s[j]
        OBVIOUS
    <2>2. <<x>> \in Seq(CartItem) /\ Len(<<x>>) = 1 /\ <<x>>[1] = x
        OBVIOUS
    <2> HIDE DEF c
    <2>3. (c \o <<x>>)[Len(c) + 1] = <<x>>[1]
        BY <2>1, <2>2
    <2>4. \A j \in 1..Len(c) : (c \o <<x>>)[j] = c[j]
        BY <2>1, <2>2
    <2> QED BY <2>1, <2>2, <2>3, <2>4 DEF c
<1> HIDE DEF t
<1>3. \A y : y \in CallsIn(t) <=> y \in CallsIn(s) \union x.calls
    <2>1. ASSUME NEW y, y \in CallsIn(t) PROVE y \in CallsIn(s) \union x.calls
        <3>1. PICK j \in 1..(Len(s) + 1) : y \in t[j].calls
            BY <1>1, <2>1 DEF CallsIn
        <3>2. CASE j = Len(s) + 1
            BY <1>2, <3>1, <3>2
        <3>3. CASE j # Len(s) + 1
            <4>1. j \in 1..Len(s)
                BY <1>1, <3>1, <3>3
            <4> QED BY <1>1, <1>2, <3>1, <4>1 DEF CallsIn
        <3> QED BY <3>2, <3>3
    <2>2. ASSUME NEW y, y \in x.calls PROVE y \in CallsIn(t)
        <3>1. Len(s) + 1 \in DOMAIN t
            BY <1>1
        <3> QED BY <1>2, <2>2, <3>1 DEF CallsIn
    <2>3. ASSUME NEW y, y \in CallsIn(s) PROVE y \in CallsIn(t)
        <3>1. PICK j \in 1..Len(s) : y \in s[j].calls
            BY <1>1, <2>3 DEF CallsIn
        <3>2. j \in DOMAIN t
            BY <1>1
        <3> QED BY <1>2, <3>1, <3>2 DEF CallsIn
    <2> QED BY <2>1, <2>2, <2>3
<1> QED BY <1>3 DEF t

\* The update function changes one cart; where nothing has happened since it
\* looked, the cart then has its call, and all that it had.
LEMMA ChangeMoves ==
    ASSUME LocalType, HoldsCart, NEW a \in Adds, ChangeItem(a)
    PROVE  LET cart == adder[a].cart
           IN  /\ cart \in Objects
               /\ \E s \in Seq(CartItem) :
                     /\ cartObject' = [cartObject EXCEPT ![cart] = s]
                     /\ adder[a].seen = cartObject[cart] =>
                           s # <<>> /\ CallsIn(s) = CallsIn(cartObject[cart]) \union {a}
<1> DEFINE cart == adder[a].cart
           seen == adder[a].seen
           items == cartObject[cart]
           Done(s) == /\ cartObject' = [cartObject EXCEPT ![cart] = s]
                      /\ seen = items => s # <<>> /\ CallsIn(s) = CallsIn(items) \union {a}
<1>1. /\ cartObject \in [Objects -> Seq(CartItem)] /\ adder[a] \in Adders
      /\ cart \in Objects /\ adder[a].product \in Products
    BY DEF LocalType, ChangeItem, Adders, HoldsCart, Holding
<1>2. seen \in Seq(CartItem) /\ items \in Seq(CartItem)
    BY <1>1 DEF Adders
<1>3. Item(a) \in CartItem /\ Item(a).calls = {a}
    BY <1>1 DEF Item, CartItem
<1>4. \/ \E k \in Matches(seen, a) :
            cartObject' = [cartObject EXCEPT ![cart][k].calls = seen[k].calls \union {a}]
      \/ \E place \in {Len(seen), Len(items)} \intersect 0..Len(items) :
            cartObject' = [cartObject EXCEPT ![cart] = SubSeq(items, 1, place) \o <<Item(a)>>]
    BY DEF ChangeItem
<1>5. ASSUME NEW k \in Matches(seen, a),
             cartObject' = [cartObject EXCEPT ![cart][k].calls = seen[k].calls \union {a}]
      PROVE  \E s \in Seq(CartItem) : Done(s)
    <2> DEFINE calls == seen[k].calls \union {a}
               s == [items EXCEPT ![k].calls = calls]
    <2>1. k \in DOMAIN seen
        BY DEF Matches
    <2>2. seen[k] \in CartItem
        BY <1>2, <2>1, MemberOfSeq
    <2>3. calls \in SUBSET Adds
        BY <2>2 DEF CartItem
    <2>4. cartObject' = [cartObject EXCEPT ![cart] = s]
        <3>1. cartObject' = [cartObject EXCEPT ![cart][k].calls = calls]
            BY <1>5
        <3> HIDE DEF calls
        <3> QED BY <1>1, <3>1
    <2>5. seen = items => k \in DOMAIN items /\ calls = items[k].calls \union {a}
        BY <2>1
    <2> HIDE DEF calls, items, seen
    <2>6. s \in Seq(CartItem) /\ (seen = items => s # <<>> /\ CallsIn(s) = CallsIn(items) \union {a})
        BY <1>2, <2>3, <2>5, OneMoreCall
    <2> QED BY <2>4, <2>6
<1>6. ASSUME NEW place \in {Len(seen), Len(items)} \intersect 0..Len(items),
             cartObject' = [cartObject EXCEPT ![cart] = SubSeq(items, 1, place) \o <<Item(a)>>]
      PROVE  \E s \in Seq(CartItem) : Done(s)
    <2> DEFINE s == SubSeq(items, 1, place) \o <<Item(a)>>
    <2>1. s \in Seq(CartItem) /\ s # <<>>
        BY <1>2, <1>3, CutAndAppend
    <2>2. seen = items => CallsIn(s) = CallsIn(items) \union {a}
        BY <1>2, <1>3, OneMoreItem
    <2> QED BY <1>6, <2>1, <2>2
<1> HIDE DEF Done
<1>7. \E s \in Seq(CartItem) : Done(s)
    BY <1>4, <1>5, <1>6
<1> QED BY <1>1, <1>7 DEF Done

\* ... and by its effect on the carts.
LEMMA CartMoves ==
    ASSUME LocalType, OwnedInv, HoldsCart, NEW a \in Adds, NEW u, u = adder[a].user,
           LookUp(a) \/ TryAdd(a) \/ FindItem(a) \/ ChangeItem(a) \/ TryUpdate(a)
    PROVE  /\ userCartItems' \in [Owners -> Objects \union {NoObject}]
           /\ cartObject' \in [Objects -> Seq(CartItem)]
           /\ \A v \in Owners \ {u} : userCartItems'[v] = userCartItems[v]
           /\ \A v \in Owners \ {u}, o \in Objects : Uses(v, o) => cartObject'[o] = cartObject[o]
           /\ \/ userCartItems'[u] = userCartItems[u]
              \/ userCartItems'[u] = adder[a].cart /\ TryUpdate(a)
              \/ userCartItems'[u] = a /\ TryAdd(a) /\ adder'[a].pc = "end"
           /\ userCartItems[u] # NoObject => userCartItems'[u] # NoObject
           /\ adder'[a].pc \in Holding => userCartItems'[u] # NoObject
<1>1. /\ userCartItems \in [Owners -> Objects \union {NoObject}]
      /\ cartObject \in [Objects -> Seq(CartItem)]
      /\ adder \in [Adds -> Adders] /\ adder[a] \in Adders
      /\ u \in Owners /\ adder[a].product \in Products
      /\ a \in Objects /\ a # NoObject
    BY AdderMoves, LocalCartAssumption DEF LocalType, Objects
<1>2. Item(a) \in CartItem
    BY <1>1 DEF Item, CartItem
<1>3. CASE LookUp(a)
    <2>1. /\ userCartItems' = userCartItems /\ cartObject' = cartObject
          /\ adder' = [adder EXCEPT ![a].cart = userCartItems[u],
                                    ![a].pc = IF userCartItems[u] = NoObject THEN "add" ELSE "find"]
        BY <1>3 DEF LookUp
    <2>2. userCartItems[u] = NoObject => adder'[a].pc = "add"
        BY <1>1, <2>1 DEF Adders
    <2> QED BY <1>1, <2>1, <2>2 DEF Holding
<1>4. CASE FindItem(a)
    <2>1. userCartItems' = userCartItems /\ cartObject' = cartObject /\ userCartItems[u] # NoObject
        BY <1>4 DEF FindItem, HoldsCart, Holding
    <2> QED BY <1>1, <2>1
<1>5. CASE TryAdd(a)
    <2>1. CASE userCartItems[u] = NoObject
        <3>1. /\ userCartItems' = [userCartItems EXCEPT ![u] = a]
              /\ cartObject' = [cartObject EXCEPT ![a] = <<Item(a)>>]
              /\ adder' = [adder EXCEPT ![a].pc = "end"] /\ adder[a].pc = "add"
            BY <1>5, <2>1 DEF TryAdd, Goto
        <3>2. <<Item(a)>> \in Seq(CartItem) /\ adder'[a].pc = "end"
            BY <1>1, <1>2, <3>1 DEF Adders
        <3>3. \A v \in Owners : ~Uses(v, a)
            BY <1>1, <3>1 DEF OwnedInv
        <3> HIDE DEF Item
        <3> QED BY <1>1, <1>5, <3>1, <3>2, <3>3 DEF Holding
    <2>2. CASE userCartItems[u] # NoObject
        BY <1>1, <1>5, <2>2 DEF TryAdd
    <2> QED BY <2>1, <2>2
<1>6. CASE ChangeItem(a)
    <2> DEFINE cart == adder[a].cart
    <2>1. cart \in Objects /\ userCartItems[u] # NoObject
        BY <1>1, <1>6 DEF ChangeItem, Adders, HoldsCart, Holding
    <2>2. userCartItems' = userCartItems
        BY <1>6 DEF ChangeItem
    <2>3. \E s \in Seq(CartItem) : cartObject' = [cartObject EXCEPT ![cart] = s]
        BY <1>6, ChangeMoves
    <2>4. \A v \in Owners \ {u} : ~Uses(v, cart)
        <3>1. Uses(u, cart)
            BY <1>1 DEF Uses
        <3> QED BY <1>1, <2>1, <3>1 DEF OwnedInv
    <2> HIDE DEF cart
    <2> QED BY <1>1, <2>1, <2>2, <2>3, <2>4
<1>7. CASE TryUpdate(a)
    <2>1. adder[a].cart \in Objects /\ adder[a].cart # NoObject /\ userCartItems[u] # NoObject
        BY <1>1, <1>7, LocalCartAssumption DEF TryUpdate, Adders, HoldsCart, Holding, Objects
    <2>2. /\ cartObject' = cartObject
          /\ \/ userCartItems' = [userCartItems EXCEPT ![u] = adder[a].cart]
             \/ userCartItems' = userCartItems
        BY <1>7 DEF TryUpdate
    <2> QED BY <1>1, <1>7, <2>1, <2>2
<1> QED BY <1>3, <1>4, <1>5, <1>6, <1>7

LEMMA AdderOwned ==
    ASSUME LocalType, OwnedInv, HoldsCart, NEW a \in Adds,
           LookUp(a) \/ TryAdd(a) \/ FindItem(a) \/ ChangeItem(a) \/ TryUpdate(a)
    PROVE  LocalType' /\ OwnedInv' /\ HoldsCart'
<1> DEFINE u == adder[a].user
<1>1. /\ u \in Owners /\ adder[a].pc \notin {"idle", "end"}
      /\ emptied' = emptied /\ clash' = clash /\ adder' \in [Adds -> Adders]
      /\ \A b \in Adds \ {a} : adder'[b] = adder[b]
      /\ adder'[a].user = u /\ adder'[a].product = adder[a].product
      /\ adder'[a].pc # "idle" /\ adder[a].product \in Products
      /\ adder'[a].cart = IF LookUp(a) THEN userCartItems[u] ELSE adder[a].cart
    BY AdderMoves
<1>2. /\ userCartItems' \in [Owners -> Objects \union {NoObject}]
      /\ cartObject' \in [Objects -> Seq(CartItem)]
      /\ \A v \in Owners \ {u} : userCartItems'[v] = userCartItems[v]
      /\ \/ userCartItems'[u] = userCartItems[u]
         \/ userCartItems'[u] = adder[a].cart /\ TryUpdate(a)
         \/ userCartItems'[u] = a /\ TryAdd(a) /\ adder'[a].pc = "end"
      /\ userCartItems[u] # NoObject => userCartItems'[u] # NoObject
      /\ adder'[a].pc \in Holding => userCartItems'[u] # NoObject
    BY CartMoves
<1> HIDE DEF u
<1>3. LocalType'
    BY <1>1, <1>2 DEF LocalType
<1>4. OwnedInv'
    <2> DEFINE UsesAfter(v, o) ==
                   userCartItems'[v] = o \/ \E b \in Adds : adder'[b].user = v /\ adder'[b].cart = o
    <2>1. ASSUME NEW v \in Owners, NEW o \in Objects, v # u PROVE UsesAfter(v, o) <=> Uses(v, o)
        BY <1>1, <1>2, <2>1 DEF Uses, u
    <2>2. ASSUME NEW o \in Objects, UsesAfter(u, o), ~Uses(u, o)
          PROVE  o = a /\ adder[a].pc = "add" /\ adder'[a].pc = "end"
        <3>1. o = a /\ TryAdd(a) /\ adder'[a].pc = "end"
            BY <1>1, <1>2, <2>2 DEF Uses, u
        <3> QED BY <3>1 DEF TryAdd
    <2>3. OwnedInv' <=>
            \A o \in Objects, v \in Owners : UsesAfter(v, o) =>
                /\ \A w \in Owners : UsesAfter(w, o) => w = v
                /\ IF o \in Adds THEN adder'[o].pc = "end" ELSE o \in emptied'
        BY DEF OwnedInv, Uses
    <2> HIDE DEF UsesAfter
    <2>4. adder[a].pc # "end" => \A v \in Owners : ~Uses(v, a)
        BY DEF OwnedInv, Objects
    <2>5. ASSUME NEW o \in Objects, NEW v \in Owners, UsesAfter(v, o)
          PROVE  /\ \A w \in Owners : UsesAfter(w, o) => w = v
                 /\ IF o \in Adds THEN adder'[o].pc = "end" ELSE o \in emptied'
        <3>1. CASE o = a
            <4>1. \A w \in Owners : w # u => ~UsesAfter(w, a)
                BY <1>1, <2>1, <2>4, <3>1
            <4>2. v = u /\ ~Uses(u, a)
                BY <1>1, <2>4, <2>5, <3>1, <4>1
            <4> QED BY <2>2, <2>5, <3>1, <4>1, <4>2
        <3>2. CASE o # a
            <4>1. \A w \in Owners : UsesAfter(w, o) => Uses(w, o)
                BY <2>1, <2>2, <3>2
            <4> QED BY <1>1, <2>5, <3>2, <4>1 DEF OwnedInv
        <3> QED BY <3>1, <3>2
    <2> QED BY <2>3, <2>5
<1>5. HoldsCart'
    <2>1. ASSUME NEW b \in Adds, adder'[b].pc \in Holding
          PROVE  adder'[b].cart # NoObject /\ userCartItems'[adder'[b].user] # NoObject
        <3>1. CASE b # a
            <4>1. adder'[b] = adder[b] /\ adder[b].cart # NoObject /\ userCartItems[adder[b].user] # NoObject
                BY <1>1, <2>1, <3>1 DEF HoldsCart
            <4>2. adder[b].user \in Owners
                BY <2>1, <4>1 DEF LocalType, Holding
            <4> QED BY <1>2, <4>1, <4>2
        <3>2. CASE b = a
            <4>1. adder \in [Adds -> Adders] /\ adder[a] \in Adders
                BY DEF LocalType
            <4>2. CASE LookUp(a)
                <5>1. adder'[a].pc = "find" => userCartItems[u] # NoObject
                    BY <4>1, <4>2 DEF LookUp, Adders, u
                <5>2. adder'[a].pc \in {"add", "find"}
                    BY <4>1, <4>2 DEF LookUp, Adders
                <5> QED BY <1>1, <1>2, <2>1, <3>2, <4>2, <5>1, <5>2 DEF Holding
            <4>3. CASE FindItem(a) \/ ChangeItem(a)
                BY <1>1, <1>2, <2>1, <3>2, <4>3 DEF FindItem, ChangeItem, HoldsCart, Holding, LookUp
            <4>4. CASE TryAdd(a) \/ TryUpdate(a)
                <5>1. adder'[a].pc \in {"look", "end"}
                    BY <4>1, <4>4 DEF TryAdd, TryUpdate, Goto, Adders
                <5> QED BY <2>1, <3>2, <5>1 DEF Holding
            <4> QED BY <4>2, <4>3, <4>4
        <3> QED BY <3>1, <3>2
    <2> QED BY <2>1 DEF HoldsCart
<1> QED BY <1>3, <1>4, <1>5

\* The only call of a user stays alone on its cart, whatever other calls do.
LEMMA AdderAlone ==
    ASSUME LocalInv, NEW a \in Adds,
           LookUp(a) \/ TryAdd(a) \/ FindItem(a) \/ ChangeItem(a) \/ TryUpdate(a)
    PROVE  LocalInv'
<1> DEFINE u == adder[a].user
<1>0. LocalType /\ OwnedInv /\ HoldsCart
    BY DEF LocalInv
<1>1. /\ u \in Owners /\ adder[a].pc \notin {"idle", "end"}
      /\ clash' = clash
      /\ \A b \in Adds \ {a} : adder'[b] = adder[b]
      /\ adder'[a].user = u
      /\ adder'[a].cart = IF LookUp(a) THEN userCartItems[u] ELSE adder[a].cart
    BY <1>0, AdderMoves
<1>2. /\ \A v \in Owners \ {u} : userCartItems'[v] = userCartItems[v]
      /\ \A v \in Owners \ {u}, o \in Objects : Uses(v, o) => cartObject'[o] = cartObject[o]
    BY <1>0, CartMoves
<1>3. LocalType' /\ OwnedInv' /\ HoldsCart'
    BY <1>0, AdderOwned
<1>4. ASSUME NEW v \in Owners \ clash, NEW b \in Adds,
             adder'[b].user = v, adder'[b].pc \notin {"idle", "end"}
      PROVE  /\ \A c \in Adds : adder'[c].user = v /\ adder'[c].pc \notin {"idle", "end"} => c = b
             /\ adder'[b].pc \in Holding =>
                   \/ adder'[b].cart = userCartItems'[v]
                   \/ cartObject'[userCartItems'[v]] = <<>>
             /\ adder'[b].pc = "change" => adder'[b].seen = cartObject'[adder'[b].cart]
             /\ adder'[b].pc = "replace" => cartObject'[adder'[b].cart] # <<>>
    <2>1. CASE v # u
        <3>1. b # a /\ adder'[b] = adder[b]
            BY <1>1, <1>4, <2>1
        <3>2. AloneOnCart(v, b) /\ b \in Adding(v)
            BY <1>4, <3>1 DEF LocalInv, Adding
        <3>3. \A c \in Adds : adder'[c].user = v /\ adder'[c].pc \notin {"idle", "end"} => c = b
            BY <1>1, <2>1, <3>2 DEF AloneOnCart, Adding
        <3>4. adder[b].pc \in Holding =>
                 /\ adder[b].cart \in Objects /\ Uses(v, adder[b].cart)
                 /\ userCartItems[v] \in Objects /\ Uses(v, userCartItems[v])
            BY <1>0, <1>4, <3>1 DEF HoldsCart, LocalType, Adders, Uses
        <3>5. adder[b].pc \in Holding =>
                 /\ cartObject'[adder[b].cart] = cartObject[adder[b].cart]
                 /\ cartObject'[userCartItems[v]] = cartObject[userCartItems[v]]
                 /\ userCartItems'[v] = userCartItems[v]
            BY <1>2, <2>1, <3>4
        <3> QED BY <3>1, <3>2, <3>3, <3>5 DEF AloneOnCart, Holding
    <2>2. CASE v = u
        <3>1. a \in Adding(u) /\ AloneOnCart(u, a)
            BY <1>1, <1>4, <2>2 DEF LocalInv, Adding
        <3>2. ASSUME NEW c \in Adds, adder'[c].user = u, adder'[c].pc \notin {"idle", "end"}
              PROVE  c = a
            BY <1>1, <3>1, <3>2 DEF AloneOnCart, Adding
        <3>3. b = a
            BY <1>4, <2>2, <3>2
        <3>4. adder \in [Adds -> Adders] /\ adder[a] \in Adders
            BY <1>0 DEF LocalType
        <3>5. CASE LookUp(a)
            <4>1. adder'[a].pc \in {"add", "find"} /\ userCartItems' = userCartItems
                BY <3>4, <3>5 DEF LookUp, Adders
            <4> QED BY <1>1, <2>2, <3>2, <3>3, <3>5, <4>1
        <3>6. CASE TryAdd(a) \/ TryUpdate(a)
            <4>1. adder'[a].pc \in {"look", "end"}
                BY <3>4, <3>6 DEF TryAdd, TryUpdate, Goto, Adders
            <4> QED BY <2>2, <3>2, <3>3, <4>1 DEF Holding
        <3>7. CASE FindItem(a)
            <4>1. adder[a].pc = "find" /\ userCartItems' = userCartItems /\ cartObject' = cartObject
                  /\ adder'[a].cart = adder[a].cart
                BY <1>1, <3>7 DEF FindItem, LookUp
            <4>2. adder'[a].pc \in {"end", "change"} /\ adder'[a].seen = cartObject[adder[a].cart]
                BY <3>4, <3>7 DEF FindItem, Adders
            <4> QED BY <2>2, <3>1, <3>2, <3>3, <4>1, <4>2 DEF AloneOnCart, Holding
        <3>8. CASE ChangeItem(a)
            <4>1. adder[a].pc = "change" /\ userCartItems' = userCartItems
                  /\ adder'[a].cart = adder[a].cart
                BY <1>1, <3>8 DEF ChangeItem, LookUp
            <4>2. adder'[a].pc = "replace"
                BY <3>4, <3>8 DEF ChangeItem, Goto, Adders
            <4>3. adder[a].seen = cartObject[adder[a].cart] /\ adder[a].cart \in Objects
                BY <1>0, <3>1, <3>4, <4>1 DEF AloneOnCart, HoldsCart, Holding, Adders
            <4>4. PICK s : cartObject' = [cartObject EXCEPT ![adder[a].cart] = s] /\ s # <<>>
                BY <1>0, <3>8, <4>3, ChangeMoves
            <4>5. /\ cartObject'[adder[a].cart] # <<>>
                  /\ userCartItems[u] # adder[a].cart =>
                        cartObject'[userCartItems[u]] = cartObject[userCartItems[u]]
                BY <1>0, <4>3, <4>4 DEF LocalType
            <4>6. \/ adder[a].cart = userCartItems[u]
                  \/ cartObject[userCartItems[u]] = <<>>
                BY <3>1, <4>1 DEF AloneOnCart, Holding
            <4> HIDE DEF u
            <4> QED BY <2>2, <3>2, <3>3, <4>1, <4>2, <4>5, <4>6
        <3> QED BY <3>5, <3>6, <3>7, <3>8
    <2> QED BY <2>1, <2>2
<1> QED BY <1>1, <1>3, <1>4 DEF LocalInv, AloneOnCart, Adding

LEMMA CallAlone ==
    ASSUME LocalInv, NEW a \in Adds, NEW u \in Owners, NEW product \in Products,
           LocalAddItem(a, u, product)
    PROVE  LocalInv'
<1> DEFINE new == [NewAdder EXCEPT !.pc = "look", !.user = u, !.product = product]
<1>0. LocalType /\ OwnedInv /\ HoldsCart
    BY DEF LocalInv
<1>1. /\ adder' = [adder EXCEPT ![a] = new] /\ adder[a].pc = "idle"
      /\ clash' = (IF Adding(u) = {} THEN clash ELSE clash \union {u})
      /\ userCartItems' = userCartItems /\ cartObject' = cartObject /\ emptied' = emptied
    BY DEF LocalAddItem
<1>2. /\ new.pc = "look" /\ new.user = u /\ new.product = product /\ new.cart = NoObject
      /\ new \in Adders
    <2>1. <<>> \in Seq(CartItem)
        OBVIOUS
    <2> QED BY <2>1 DEF NewAdder, Adders
<1> HIDE DEF new
<1>3. /\ adder' \in [Adds -> Adders] /\ adder'[a] = new
      /\ \A b \in Adds \ {a} : adder'[b] = adder[b]
    BY <1>0, <1>1, <1>2 DEF LocalType
<1>4. LocalType'
    BY <1>0, <1>1, <1>2, <1>3 DEF LocalType
<1>5. OwnedInv'
    <2> DEFINE UsesAfter(v, o) ==
                   userCartItems[v] = o \/ \E b \in Adds : adder'[b].user = v /\ adder'[b].cart = o
    <2>1. ASSUME NEW v \in Owners, NEW o \in Objects PROVE UsesAfter(v, o) => Uses(v, o)
        BY <1>2, <1>3, LocalCartAssumption DEF Uses, Objects
    <2>2. \A o \in Adds : adder[o].pc = "end" => adder'[o].pc = "end"
        BY <1>1, <1>3
    <2>3. OwnedInv' <=>
            \A o \in Objects, v \in Owners : UsesAfter(v, o) =>
                /\ \A w \in Owners : UsesAfter(w, o) => w = v
                /\ IF o \in Adds THEN adder'[o].pc = "end" ELSE o \in emptied'
        BY <1>1 DEF OwnedInv, Uses
    <2> HIDE DEF UsesAfter
    <2> QED BY <1>0, <1>1, <2>1, <2>2, <2>3 DEF OwnedInv
<1>6. HoldsCart'
    BY <1>0, <1>1, <1>2, <1>3 DEF HoldsCart, Holding
<1>7. ASSUME NEW v \in Owners, v \notin clash', NEW b \in Adds,
             adder'[b].user = v, adder'[b].pc \notin {"idle", "end"}
      PROVE  /\ \A c \in Adds : adder'[c].user = v /\ adder'[c].pc \notin {"idle", "end"} => c = b
             /\ adder'[b].pc \in Holding =>
                   \/ adder'[b].cart = userCartItems[v]
                   \/ cartObject[userCartItems[v]] = <<>>
             /\ adder'[b].pc = "change" => adder'[b].seen = cartObject[adder'[b].cart]
             /\ adder'[b].pc = "replace" => cartObject[adder'[b].cart] # <<>>
    <2>1. v \notin clash
        BY <1>1, <1>7
    <2>2. CASE v # u
        <3>1. b # a /\ adder'[b] = adder[b]
            BY <1>2, <1>3, <1>7, <2>2
        <3>2. AloneOnCart(v, b)
            BY <1>7, <2>1, <3>1 DEF LocalInv, Adding
        <3>3. \A c \in Adds : adder'[c].user = v /\ adder'[c].pc \notin {"idle", "end"} => c = b
            BY <1>2, <1>3, <2>2, <3>2 DEF AloneOnCart, Adding
        <3> QED BY <3>1, <3>2, <3>3 DEF AloneOnCart
    <2>3. CASE v = u
        <3>1. Adding(u) = {}
            BY <1>1, <1>7, <2>3
        <3>2. \A c \in Adds : adder'[c].user = v /\ adder'[c].pc \notin {"idle", "end"} => c = a
            BY <1>3, <2>3, <3>1 DEF Adding
        <3>3. b = a
            BY <1>7, <3>2
        <3> QED BY <1>2, <1>3, <3>2, <3>3 DEF Holding
    <2> QED BY <2>2, <2>3
<1> QED BY <1>1, <1>4, <1>5, <1>6, <1>7 DEF LocalInv, AloneOnCart, Adding

LEMMA EmptyAlone ==
    ASSUME LocalInv, NEW e \in Empties, NEW u \in Owners, LocalEmptyCart(e, u)
    PROVE  LocalInv'
<1>0. LocalType /\ OwnedInv /\ HoldsCart
    BY DEF LocalInv
<1>1. /\ userCartItems' = [userCartItems EXCEPT ![u] = e]
      /\ cartObject' = [cartObject EXCEPT ![e] = <<>>]
      /\ emptied' = emptied \union {e} /\ adder' = adder /\ clash' = clash
    BY DEF LocalEmptyCart
<1>2. e \in Objects /\ e \notin Adds /\ e # NoObject /\ e \notin emptied
    BY LocalCartAssumption DEF Objects, LocalEmptyCart
<1>3. \A v \in Owners : ~Uses(v, e)
    BY <1>0, <1>2 DEF OwnedInv
<1>4. LocalType'
    <2>1. <<>> \in Seq(CartItem)
        OBVIOUS
    <2> QED BY <1>0, <1>1, <1>2, <2>1 DEF LocalType
<1>5. /\ userCartItems'[u] = e /\ \A v \in Owners \ {u} : userCartItems'[v] = userCartItems[v]
      /\ cartObject'[e] = <<>> /\ \A o \in Objects \ {e} : cartObject'[o] = cartObject[o]
    BY <1>0, <1>1, <1>2 DEF LocalType
<1>6. OwnedInv'
    <2> DEFINE UsesAfter(v, o) ==
                   userCartItems'[v] = o \/ \E b \in Adds : adder[b].user = v /\ adder[b].cart = o
    <2>1. ASSUME NEW v \in Owners, NEW o \in Objects
          PROVE  UsesAfter(v, o) => Uses(v, o) \/ (v = u /\ o = e)
        BY <1>5 DEF Uses
    <2>2. OwnedInv' <=>
            \A o \in Objects, v \in Owners : UsesAfter(v, o) =>
                /\ \A w \in Owners : UsesAfter(w, o) => w = v
                /\ IF o \in Adds THEN adder[o].pc = "end" ELSE o \in emptied'
        BY <1>1 DEF OwnedInv, Uses
    <2> HIDE DEF UsesAfter
    <2> QED BY <1>0, <1>1, <1>2, <1>3, <2>1, <2>2 DEF OwnedInv
<1>7. HoldsCart'
    <2>1. \A b \in Adds : adder[b].pc \in Holding => adder[b].user \in Owners
        BY <1>0 DEF LocalType, Holding
    <2> QED BY <1>0, <1>1, <1>2, <1>5, <2>1 DEF HoldsCart
<1>8. ASSUME NEW v \in Owners \ clash, NEW b \in Adding(v)
      PROVE  /\ Adding(v) = {b}
             /\ adder[b].pc \in Holding =>
                   \/ adder[b].cart = userCartItems'[v]
                   \/ cartObject'[userCartItems'[v]] = <<>>
             /\ adder[b].pc = "change" => adder[b].seen = cartObject'[adder[b].cart]
             /\ adder[b].pc = "replace" => cartObject'[adder[b].cart] # <<>>
    <2>1. AloneOnCart(v, b) /\ b \in Adds
        BY DEF LocalInv, Adding
    <2>2. adder[b].pc \in Holding =>
             /\ adder[b].cart \in Objects \ {e} /\ userCartItems[v] \in Objects \ {e}
        BY <1>0, <1>3, <2>1 DEF HoldsCart, LocalType, Adders, Uses, Adding
    <2>3. adder[b].pc \in Holding =>
             /\ cartObject'[adder[b].cart] = cartObject[adder[b].cart]
             /\ cartObject'[userCartItems[v]] = cartObject[userCartItems[v]]
        BY <1>5, <2>2
    <2>4. userCartItems'[v] = userCartItems[v] \/ cartObject'[userCartItems'[v]] = <<>>
        BY <1>5
    <2> QED BY <2>1, <2>3, <2>4 DEF AloneOnCart, Holding
<1> QED BY <1>1, <1>4, <1>6, <1>7, <1>8 DEF LocalInv, AloneOnCart, Adding

LEMMA LocalInitially == LocalInit => LocalInv
<1> SUFFICES ASSUME LocalInit PROVE LocalInv
    OBVIOUS
<1>1. <<>> \in Seq(CartItem) /\ NewAdder \in Adders /\ NewAdder.pc = "idle" /\ NewAdder.user = Nobody
      /\ NewAdder.cart = NoObject
    <2>1. <<>> \in Seq(CartItem)
        OBVIOUS
    <2> QED BY <2>1 DEF NewAdder, Adders
<1>2. LocalType
    BY <1>1 DEF LocalInit, LocalType, Objects
<1>3. \A u \in Owners, o \in Objects : ~Uses(u, o)
    BY <1>1, LocalCartAssumption DEF LocalInit, Uses, Objects
<1>4. \A a \in Adds : adder[a].pc = "idle"
    BY <1>1 DEF LocalInit
<1> QED BY <1>2, <1>3, <1>4 DEF LocalInv, OwnedInv, HoldsCart, Holding, Adding

LEMMA LocalStep == LocalInv /\ [LocalNext]_localVars => LocalInv'
<1> SUFFICES ASSUME LocalInv, [LocalNext]_localVars PROVE LocalInv'
    OBVIOUS
<1>1. CASE UNCHANGED localVars
    BY <1>1 DEF localVars, LocalInv, LocalType, OwnedInv, Uses, HoldsCart, AloneOnCart, Adding
<1> QED BY <1>1, AdderAlone, CallAlone, EmptyAlone DEF LocalNext

-----------------------------------------------------------------------------
(***************************************************************************)
(* The refinement of Cart: a call that puts its item into the cart of the  *)
(* user is the abstract AddItem, again if it had to put it into another    *)
(* cart before; a call made while the user has another one is Overlap; a   *)
(* cart that nobody looks up any more may change unnoticed.                *)
(***************************************************************************)
LEMMA ItemsAreCalls ==
    ASSUME LocalType, NEW u \in Owners
    PROVE  /\ ItemsOf(userCartItems[u]) \in SUBSET Adds
           /\ ItemsOf(userCartItems[u]) # Unpromised
           /\ userCartItems[u] # NoObject => ItemsOf(userCartItems[u]) = CallsIn(cartObject[userCartItems[u]])
<1>1. ASSUME userCartItems[u] # NoObject
      PROVE  CallsIn(cartObject[userCartItems[u]]) \in SUBSET Adds
    <2>1. cartObject[userCartItems[u]] \in Seq(CartItem)
        BY <1>1 DEF LocalType
    <2> DEFINE s == cartObject[userCartItems[u]]
    <2>2. \A k \in DOMAIN s : s[k] \in CartItem
        BY <2>1, MemberOfSeq
    <2> HIDE DEF s
    <2>3. CallsIn(s) \in SUBSET Adds
        BY <2>2 DEF CallsIn, CartItem
    <2> QED BY <2>3 DEF s
<1>2. ItemsOf(userCartItems[u]) \in SUBSET Adds
    BY <1>1 DEF ItemsOf, CallsIn
<1> QED BY <1>2, LocalCartAssumption DEF ItemsOf, CallsIn

LEMMA SomeItemSomePlace ==
    ASSUME NEW S, NEW s \in Seq(S), s # <<>>
    PROVE  DOMAIN s # {}
<1>1. Len(s) \in Nat \ {0}
    BY EmptySeq
<1>2. DOMAIN s = 1..Len(s) /\ 1 \in 1..Len(s)
    BY <1>1, LenProperties
<1> QED BY <1>2

LEMMA AdderMaps ==
    ASSUME LocalInv, NEW a \in Adds,
           LookUp(a) \/ TryAdd(a) \/ FindItem(a) \/ ChangeItem(a) \/ TryUpdate(a)
    PROVE  LocalCart!Next \/ UNCHANGED LocalAtomicCart
<1> DEFINE u == adder[a].user
           after(v) == IF userCartItems'[v] = NoObject THEN {}
                       ELSE CallsIn(cartObject'[userCartItems'[v]])
<1>0. LocalType /\ OwnedInv /\ HoldsCart
    BY DEF LocalInv
<1>1. /\ u \in Owners /\ adder[a].pc \notin {"idle", "end"} /\ clash' = clash
      /\ adder[a] \in Adders
    BY <1>0, AdderMoves DEF LocalType
<1>2. /\ \A v \in Owners \ {u} : userCartItems'[v] = userCartItems[v]
      /\ \A v \in Owners \ {u}, o \in Objects : Uses(v, o) => cartObject'[o] = cartObject[o]
    BY <1>0, CartMoves
<1>3. /\ LocalAtomicCart' = [v \in Owners |-> IF v \in clash THEN Unpromised ELSE after(v)]
      /\ \A v \in Owners : LocalAtomicCart[v] = IF v \in clash THEN Unpromised ELSE ItemsOf(userCartItems[v])
    BY <1>1 DEF LocalAtomicCart, ItemsOf, CallsIn
<1>4. ASSUME NEW v \in Owners, v # u PROVE after(v) = ItemsOf(userCartItems[v])
    <2>1. userCartItems[v] # NoObject =>
             userCartItems[v] \in Objects /\ Uses(v, userCartItems[v])
        BY <1>0 DEF LocalType, Uses
    <2> QED BY <1>2, <1>4, <2>1 DEF ItemsOf, CallsIn
<1>5. ASSUME u \notin clash
      PROVE  after(u) \in {ItemsOf(userCartItems[u]), ItemsOf(userCartItems[u]) \union {a}}
    <2>1. AloneOnCart(u, a)
        BY <1>1, <1>5 DEF LocalInv, Adding
    <2>2. CASE userCartItems' = userCartItems /\ cartObject' = cartObject
        BY <2>2 DEF ItemsOf, CallsIn
    <2>3. CASE TryAdd(a)
        <3>1. CASE userCartItems[u] = NoObject
            <4>1. userCartItems'[u] = a /\ cartObject'[a] = <<Item(a)>> /\ a # NoObject
                BY <1>0, <1>1, <2>3, <3>1, LocalCartAssumption DEF TryAdd, LocalType, Objects
            <4>2. CallsIn(<<Item(a)>>) = {a}
                BY DEF CallsIn, Item
            <4> QED BY <3>1, <4>1, <4>2 DEF ItemsOf
        <3>2. CASE userCartItems[u] # NoObject
            BY <2>2, <2>3, <3>2 DEF TryAdd
        <3> QED BY <3>1, <3>2
    <2>4. CASE ChangeItem(a)
        <3> DEFINE cart == adder[a].cart
        <3>1. /\ cart \in Objects /\ userCartItems' = userCartItems
              /\ adder[a].seen = cartObject[cart]
            BY <1>0, <2>1, <2>4, ChangeMoves DEF ChangeItem, AloneOnCart
        <3>2. PICK s \in Seq(CartItem) :
                 /\ cartObject' = [cartObject EXCEPT ![cart] = s]
                 /\ CallsIn(s) = CallsIn(cartObject[cart]) \union {a}
            BY <1>0, <2>4, <3>1, ChangeMoves
        <3>3. cartObject'[cart] = s /\ \A o \in Objects \ {cart} : cartObject'[o] = cartObject[o]
            BY <1>0, <3>1, <3>2 DEF LocalType
        <3> HIDE DEF cart
        <3>4. userCartItems[u] \in Objects \union {NoObject}
            BY <1>0, <1>1 DEF LocalType
        <3>5. CASE userCartItems[u] = cart
            <4>1. cart # NoObject
                BY <3>1, LocalCartAssumption DEF Objects
            <4> QED BY <1>0, <1>1, <3>1, <3>2, <3>3, <3>5, <4>1, ItemsAreCalls
        <3>6. CASE userCartItems[u] # cart
            BY <1>0, <1>1, <3>1, <3>3, <3>4, <3>6, ItemsAreCalls DEF ItemsOf
        <3> QED BY <3>5, <3>6
    <2>5. CASE TryUpdate(a)
        <3> DEFINE o == userCartItems[u]
                   p == adder[a].cart
        <3>1. /\ adder[a].pc = "replace" /\ cartObject' = cartObject
              /\ \/ userCartItems' = userCartItems
                 \/ userCartItems' = [userCartItems EXCEPT ![u] = p] /\ SameCart(o, p)
            BY <2>5 DEF TryUpdate
        <3>2. /\ o = p \/ cartObject[o] = <<>>
              /\ cartObject[p] # <<>> /\ p # NoObject /\ o # NoObject
            BY <1>0, <2>1, <3>1 DEF AloneOnCart, Holding, HoldsCart
        <3>3. p \in Objects /\ o \in Objects
            BY <1>0, <1>1, <3>2 DEF LocalType, Adders
        <3>4. SameCart(o, p) => o = p
            <4>1. cartObject[o] \in Seq(CartItem) /\ cartObject[p] \in Seq(CartItem)
                BY <1>0, <3>3 DEF LocalType
            <4> DEFINE amounts(c) == [k \in DOMAIN cartObject[c] |->
                           <<cartObject[c][k].product, Cardinality(cartObject[c][k].calls)>>]
            <4>2. DOMAIN amounts(o) = DOMAIN cartObject[o] /\ DOMAIN amounts(p) = DOMAIN cartObject[p]
                OBVIOUS
            <4>3. SameCart(o, p) => o = p \/ amounts(o) = amounts(p)
                BY DEF SameCart
            <4> HIDE DEF amounts
            <4>4. cartObject[o] = <<>> => DOMAIN cartObject[o] = {}
                OBVIOUS
            <4>5. DOMAIN cartObject[p] # {}
                <5> HIDE DEF o, p
                <5> QED BY <3>2, <4>1, SomeItemSomePlace
            <4> QED BY <3>2, <4>2, <4>3, <4>4, <4>5
        <3> HIDE DEF p, o
        <3>5. userCartItems'[u] = userCartItems[u]
            BY <1>0, <1>1, <3>1, <3>4 DEF LocalType, o
        <3> QED BY <3>1, <3>5 DEF ItemsOf, CallsIn
    <2>6. CASE LookUp(a) \/ FindItem(a)
        BY <2>2, <2>6 DEF LookUp, FindItem
    <2> QED BY <2>3, <2>4, <2>5, <2>6
<1> HIDE DEF after, u
<1>6. CASE u \in clash \/ after(u) = ItemsOf(userCartItems[u])
    <2>1. \A v \in Owners : v \notin clash => after(v) = ItemsOf(userCartItems[v])
        BY <1>4, <1>6
    <2> QED BY <1>3, <2>1 DEF LocalAtomicCart
<1>7. CASE u \notin clash /\ after(u) = ItemsOf(userCartItems[u]) \union {a}
    <2>1. LocalAtomicCart[u] = ItemsOf(userCartItems[u]) /\ LocalAtomicCart[u] # Unpromised
        BY <1>0, <1>1, <1>3, <1>7, ItemsAreCalls
    <2>2. LocalAtomicCart' = [LocalAtomicCart EXCEPT ![u] = @ \union {a}]
        BY <1>1, <1>3, <1>4, <1>7, <2>1 DEF LocalAtomicCart
    <2>3. LocalCart!AddItem(u, a)
        BY <2>1, <2>2 DEF LocalCart!AddItem
    <2> QED BY <1>1, <2>3 DEF LocalCart!Next
<1> QED BY <1>5, <1>6, <1>7

LEMMA CallMaps ==
    ASSUME LocalInv, NEW a \in Adds, NEW u \in Owners, NEW product \in Products,
           LocalAddItem(a, u, product)
    PROVE  LocalCart!Next \/ UNCHANGED LocalAtomicCart
<1>1. userCartItems' = userCartItems /\ cartObject' = cartObject
    BY DEF LocalAddItem
<1>2. CASE clash' = clash
    BY <1>1, <1>2 DEF LocalAtomicCart, ItemsOf
<1>3. CASE clash' = clash \union {u}
    <2>1. LocalAtomicCart' = [v \in Owners |-> IF v \in clash' THEN Unpromised ELSE ItemsOf(userCartItems[v])]
        BY <1>1 DEF LocalAtomicCart, ItemsOf
    <2>2. LocalAtomicCart = [v \in Owners |-> IF v \in clash THEN Unpromised ELSE ItemsOf(userCartItems[v])]
        BY DEF LocalAtomicCart
    <2>3. LocalAtomicCart' = [LocalAtomicCart EXCEPT ![u] = Unpromised]
        BY <1>3, <2>1, <2>2
    <2>4. LocalCart!Overlap(u)
        BY <2>3 DEF LocalCart!Overlap
    <2> QED BY <2>4 DEF LocalCart!Next
<1> QED BY <1>2, <1>3 DEF LocalAddItem

LEMMA NothingHasNoCalls == CallsIn(<<>>) = {}
BY DEF CallsIn

LEMMA EmptyMaps ==
    ASSUME LocalInv, NEW e \in Empties, NEW u \in Owners, LocalEmptyCart(e, u)
    PROVE  LocalCart!Next \/ UNCHANGED LocalAtomicCart
<1> DEFINE after(v) == IF userCartItems'[v] = NoObject THEN {}
                       ELSE CallsIn(cartObject'[userCartItems'[v]])
<1>0. LocalType /\ OwnedInv
    BY DEF LocalInv
<1>1. /\ userCartItems' = [userCartItems EXCEPT ![u] = e]
      /\ cartObject' = [cartObject EXCEPT ![e] = <<>>] /\ clash' = clash
      /\ e \in Objects /\ e \notin Adds /\ e # NoObject /\ e \notin emptied
    BY LocalCartAssumption DEF LocalEmptyCart, Objects
<1>2. \A v \in Owners : userCartItems[v] # e
    BY <1>0, <1>1 DEF OwnedInv, Uses
<1>3. /\ LocalAtomicCart' = [v \in Owners |-> IF v \in clash THEN Unpromised ELSE after(v)]
      /\ \A v \in Owners : LocalAtomicCart[v] = IF v \in clash THEN Unpromised ELSE ItemsOf(userCartItems[v])
    BY <1>1 DEF LocalAtomicCart, ItemsOf, CallsIn
<1>4. after(u) = {}
    <2>1. userCartItems'[u] = e /\ cartObject'[e] = <<>>
        BY <1>0, <1>1 DEF LocalType
    <2> QED BY <1>1, <2>1, NothingHasNoCalls
<1>5. ASSUME NEW v \in Owners, v # u PROVE after(v) = ItemsOf(userCartItems[v])
    <2>1. userCartItems'[v] = userCartItems[v] /\ userCartItems[v] # e
        BY <1>0, <1>1, <1>2, <1>5 DEF LocalType
    <2>2. userCartItems[v] # NoObject => cartObject'[userCartItems[v]] = cartObject[userCartItems[v]]
        BY <1>0, <1>1, <2>1 DEF LocalType
    <2> QED BY <2>1, <2>2 DEF ItemsOf, CallsIn
<1> HIDE DEF after
<1>6. CASE u \in clash
    BY <1>3, <1>5, <1>6 DEF LocalAtomicCart
<1>7. CASE u \notin clash
    <2>1. LocalAtomicCart[u] # Unpromised
        BY <1>0, <1>3, <1>7, ItemsAreCalls
    <2>2. LocalAtomicCart' = [LocalAtomicCart EXCEPT ![u] = {}]
        BY <1>3, <1>4, <1>5, <1>7 DEF LocalAtomicCart
    <2>3. LocalCart!EmptyCart(u)
        BY <2>1, <2>2 DEF LocalCart!EmptyCart
    <2> QED BY <2>3 DEF LocalCart!Next
<1> QED BY <1>6, <1>7

\* The dictionary is the atomic cart of module Cart to every user who never
\* had two AddItem calls at once, for any users, products and calls, although
\* AddOrUpdate changes a cart in place that may have been replaced meanwhile.
THEOREM LocalCartImplemented == LocalSpec => ImplementsLocalCart
<1>1. LocalInit => LocalCart!Init
    BY DEF LocalInit, LocalCart!Init, LocalAtomicCart, ItemsOf
<1>2. LocalInv /\ [LocalNext]_localVars => [LocalCart!Next]_(LocalAtomicCart)
    <2>1. CASE UNCHANGED localVars
        BY <2>1 DEF localVars, LocalAtomicCart, ItemsOf
    <2> QED BY <2>1, AdderMaps, CallMaps, EmptyMaps DEF LocalNext
<1>3. LocalSpec => []LocalInv
    BY LocalInitially, LocalStep, PTL DEF LocalSpec
<1> QED BY <1>1, <1>2, <1>3, PTL DEF LocalSpec, ImplementsLocalCart, LocalCart!Spec
=============================================================================
