------------------------------ MODULE MCCheckout ------------------------------
(***************************************************************************)
(* Checkout with symmetric calls and orders.  Sound for the invariants,    *)
(* which name no call or order; the liveness run does without it.          *)
(***************************************************************************)
EXTENDS Checkout, TLC

Symmetry == Permutations(AddCalls) \cup Permutations(Orders)

=============================================================================
