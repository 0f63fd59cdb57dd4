------------------------------ MODULE CartStore ------------------------------
(***************************************************************************)
(* The cart service on Redis: cartservice/src/cartstore/RedisCartStore.cs  *)
(* behind services/CartService.cs.                                         *)
(*                                                                         *)
(* Every request runs in a handler of its own.  AddItem reads the user's   *)
(* cart (HashGetAsync), changes its private copy and writes the whole cart *)
(* back (HashSetAsync); other handlers run at both awaits.  EmptyCart only *)
(* writes, GetCart only reads.  Any access may fail (EnsureRedisConnected  *)
(* throws, the command times out) and is turned into an RpcException; a    *)
(* write may have happened although an error is reported.  There is no     *)
(* cancellation token: a caller that stops waiting does not stop the       *)
(* handler.  That is a step of its own for EmptyCart, where the caller     *)
(* goes on (EmptyAbandoned); for the others it differs in nothing from an  *)
(* error at the end.                                                       *)
(*                                                                         *)
(* A cart is the set of AddItem calls whose quantities it sums up: carts   *)
(* merge quantities per product (existingItem.Quantity += quantity), so    *)
(* the set determines them.  A call is used once.                          *)
(***************************************************************************)
EXTENDS FiniteSets

CONSTANTS Users,
          AddCalls, EmptyCalls, GetCalls,  \* the RPCs that may be made
          NoUser,                          \* the user of a call not made yet
          NoCart,                          \* value.IsNull: no hash entry
          NoPromise                        \* see module Cart

ASSUME CartStoreAssumption ==
    /\ NoUser \notin Users
    /\ \A S \in SUBSET AddCalls : S # NoCart /\ S # NoPromise

VARIABLES store,    \* Redis: the cart of each user, or NoCart
          add,      \* AddItem handlers
          empty,    \* EmptyCart handlers
          get,      \* GetCart handlers
          overlap   \* history: users whose cart requests have overlapped

cartVars == <<store, add, empty, get, overlap>>

\* What the caller has been told.
Reply == {"none", "ok", "error"}

AddHandler   == [pc: {"idle", "HashGet", "HashSet", "end"},
                 user: Users \cup {NoUser}, copy: SUBSET AddCalls, reply: Reply]
EmptyHandler == [pc: {"idle", "HashSet", "end"},
                 user: Users \cup {NoUser}, wrote: BOOLEAN, reply: Reply]
GetHandler   == [pc: {"idle", "HashGet", "end"},
                 user: Users \cup {NoUser}, copy: SUBSET AddCalls, reply: Reply]

CartInit ==
    /\ store = [u \in Users |-> NoCart]
    /\ add = [a \in AddCalls |->
                [pc |-> "idle", user |-> NoUser, copy |-> {}, reply |-> "none"]]
    /\ empty = [e \in EmptyCalls |->
                [pc |-> "idle", user |-> NoUser, wrote |-> FALSE, reply |-> "none"]]
    /\ get = [g \in GetCalls |->
                [pc |-> "idle", user |-> NoUser, copy |-> {}, reply |-> "none"]]
    /\ overlap = {}

\* Cart.Parser.ParseFrom, and the new Cart of a user who has none.
Items(value) == IF value = NoCart THEN {} ELSE value

\* A handler of user u has not ended.
CartBusy(u) ==
    \/ \E a \in AddCalls : add[a].user = u /\ add[a].pc # "end"
    \/ \E e \in EmptyCalls : empty[e].user = u /\ empty[e].pc # "end"
    \/ \E g \in GetCalls : get[g].user = u /\ get[g].pc # "end"

NoteOverlap(u, busy) == overlap' = IF busy THEN overlap \cup {u} ELSE overlap

\* The answer counts unless the caller has stopped waiting.
Told(reply, answer) == IF reply = "none" THEN answer ELSE reply

-----------------------------------------------------------------------------
(***************************************************************************)
(* AddItemAsync                                                            *)
(***************************************************************************)
CallAddItem(a, u) ==
    /\ add[a].pc = "idle"
    /\ add' = [add EXCEPT ![a].pc = "HashGet", ![a].user = u]
    /\ UNCHANGED <<store, empty, get>>

AddHashGet(a) ==
    /\ add[a].pc = "HashGet"
    /\ add' = [add EXCEPT ![a].pc = "HashSet",
                          ![a].copy = Items(store[add[a].user])]
    /\ UNCHANGED <<store, empty, get, overlap>>

\* Mutant: the cart read is dropped, the new item alone is written.
AddHashSetFresh(a) ==
    /\ add[a].pc = "HashSet"
    /\ store' = [store EXCEPT ![add[a].user] = {a}]
    /\ \E answer \in {"ok", "error"} :
         add' = [add EXCEPT ![a].pc = "end", ![a].reply = answer]
    /\ UNCHANGED <<empty, get, overlap>>

AddHashSet(a) ==
    /\ add[a].pc = "HashSet"
    /\ store' = [store EXCEPT ![add[a].user] = add[a].copy \cup {a}]
    /\ \E answer \in {"ok", "error"} :
         add' = [add EXCEPT ![a].pc = "end", ![a].reply = answer]
    /\ UNCHANGED <<empty, get, overlap>>

\* Mutant: the exception is swallowed and nothing is answered.
AddFailSilently(a) ==
    /\ add[a].pc \in {"HashGet", "HashSet"}
    /\ add' = [add EXCEPT ![a].pc = "end"]
    /\ UNCHANGED <<store, empty, get, overlap>>

AddFail(a) ==
    /\ add[a].pc \in {"HashGet", "HashSet"}
    /\ add' = [add EXCEPT ![a].pc = "end", ![a].reply = "error"]
    /\ UNCHANGED <<store, empty, get, overlap>>

(***************************************************************************)
(* EmptyCartAsync                                                          *)
(***************************************************************************)
CallEmptyCart(e, u) ==
    /\ empty[e].pc = "idle"
    /\ empty' = [empty EXCEPT ![e].pc = "HashSet", ![e].user = u]
    /\ UNCHANGED <<store, add, get>>

\* Mutant: the whole database is cleared.
EmptyHashSetAll(e) ==
    /\ empty[e].pc = "HashSet"
    /\ store' = [u \in Users |-> {}]
    /\ \E answer \in {"ok", "error"} :
         empty' = [empty EXCEPT ![e].pc = "end", ![e].wrote = TRUE,
                                ![e].reply = Told(@, answer)]
    /\ UNCHANGED <<add, get, overlap>>

\* Mutant: EmptyCart is acknowledged but not executed.
EmptyHashSetNot(e) ==
    /\ empty[e].pc = "HashSet"
    /\ \E answer \in {"ok", "error"} :
         empty' = [empty EXCEPT ![e].pc = "end", ![e].wrote = TRUE,
                                ![e].reply = Told(@, answer)]
    /\ UNCHANGED <<store, add, get, overlap>>

EmptyHashSet(e) ==
    /\ empty[e].pc = "HashSet"
    /\ store' = [store EXCEPT ![empty[e].user] = {}]
    /\ \E answer \in {"ok", "error"} :
         empty' = [empty EXCEPT ![e].pc = "end", ![e].wrote = TRUE,
                                ![e].reply = Told(@, answer)]
    /\ UNCHANGED <<add, get, overlap>>

EmptyFail(e) ==
    /\ empty[e].pc = "HashSet"
    /\ empty' = [empty EXCEPT ![e].pc = "end", ![e].reply = Told(@, "error")]
    /\ UNCHANGED <<store, add, get, overlap>>

EmptyAbandoned(e) ==
    /\ empty[e].pc = "HashSet" /\ empty[e].reply = "none"
    /\ empty' = [empty EXCEPT ![e].reply = "error"]
    /\ UNCHANGED <<store, add, get, overlap>>

(***************************************************************************)
(* GetCartAsync                                                            *)
(***************************************************************************)
CallGetCart(g, u) ==
    /\ get[g].pc = "idle"
    /\ get' = [get EXCEPT ![g].pc = "HashGet", ![g].user = u]
    /\ UNCHANGED <<store, add, empty>>

GetHashGet(g) ==
    /\ get[g].pc = "HashGet"
    /\ get' = [get EXCEPT ![g].pc = "end", ![g].copy = Items(store[get[g].user]),
                          ![g].reply = "ok"]
    /\ UNCHANGED <<store, add, empty, overlap>>

GetFail(g) ==
    /\ get[g].pc = "HashGet"
    /\ get' = [get EXCEPT ![g].pc = "end", ![g].reply = "error"]
    /\ UNCHANGED <<store, add, empty, overlap>>

-----------------------------------------------------------------------------
AddStep(a)   == AddHashGet(a) \/ AddHashSet(a) \/ AddFail(a)
EmptyStep(e) == EmptyHashSet(e) \/ EmptyFail(e)
GetStep(g)   == GetHashGet(g) \/ GetFail(g)

\* What the handlers do on their own once they are called.
HandlersNext ==
    \/ \E a \in AddCalls : AddStep(a)
    \/ \E e \in EmptyCalls : EmptyStep(e) \/ EmptyAbandoned(e)
    \/ \E g \in GetCalls : GetStep(g)

\* The service alone: anybody may call anything at any time.
CartNext ==
    \/ \E u \in Users :
         /\ \/ \E a \in AddCalls : CallAddItem(a, u)
            \/ \E e \in EmptyCalls : CallEmptyCart(e, u)
            \/ \E g \in GetCalls : CallGetCart(g, u)
         /\ NoteOverlap(u, CartBusy(u))
    \/ HandlersNext

CartSpec == CartInit /\ [][CartNext]_cartVars

\* A handler goes on running and a Redis command returns or times out.
\* Nobody has to call anything or stop waiting.
CartFairness ==
    /\ \A a \in AddCalls : WF_cartVars(AddStep(a))
    /\ \A e \in EmptyCalls : WF_cartVars(EmptyStep(e))
    /\ \A g \in GetCalls : WF_cartVars(GetStep(g))

FairCartSpec == CartSpec /\ CartFairness

-----------------------------------------------------------------------------
(***************************************************************************)
(* Properties                                                              *)
(***************************************************************************)

CartTypeOK ==
    /\ store \in [Users -> {NoCart} \cup SUBSET AddCalls]
    /\ add \in [AddCalls -> AddHandler]
    /\ empty \in [EmptyCalls -> EmptyHandler]
    /\ get \in [GetCalls -> GetHandler]
    /\ overlap \subseteq Users

\* A cart, and every private copy of one, holds only items of AddItem calls
\* its own user made and whose handler has ended: no item of another user, no
\* item of a call that is still running.
OwnItems ==
    \A u \in Users :
        /\ \A b \in Items(store[u]) : add[b].user = u /\ add[b].pc = "end"
        /\ \A a \in AddCalls : add[a].user = u =>
             \A b \in add[a].copy : add[b].user = u /\ add[b].pc = "end"
        /\ \A g \in GetCalls : get[g].user = u =>
             \A b \in get[g].copy : add[b].user = u /\ add[b].pc = "end"

\* A user who waits for each answer and each handler to end keeps every
\* acknowledged item until an EmptyCart of that user was executed, although
\* AddItem rewrites the whole cart from a copy.
AckedItemKept ==
    \A u \in Users \ overlap : \A a \in AddCalls :
        (add[a].user = u /\ add[a].reply = "ok" /\ a \notin Items(store[u]))
            => \E e \in EmptyCalls : empty[e].user = u /\ empty[e].wrote

\* The cart as a user sees it whose requests never overlapped.
AtomicCart == [u \in Users |-> IF u \in overlap THEN NoPromise ELSE Items(store[u])]

\* The store implements the atomic cart of module Cart.
AbstractCart == INSTANCE Cart WITH cart <- AtomicCart

ImplementsCart == AbstractCart!Spec

\* Every call is answered and its handler ends, whatever Redis does.
CallsAnswered ==
    /\ \A a \in AddCalls :
         add[a].pc # "idle" ~> add[a].pc = "end" /\ add[a].reply # "none"
    /\ \A e \in EmptyCalls :
         empty[e].pc # "idle" ~> empty[e].pc = "end" /\ empty[e].reply # "none"
    /\ \A g \in GetCalls :
         get[g].pc # "idle" ~> get[g].pc = "end" /\ get[g].reply # "none"
=============================================================================
