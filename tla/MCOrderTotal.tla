----------------------------- MODULE MCOrderTotal -----------------------------
(***************************************************************************)
(* Four nanos to the unit; prices below, at and above one unit, with and   *)
(* without nanos; quantities from the degenerate 0 to 3, so that           *)
(* MultiplySlow takes 0 to 2 turns; carts of up to two lines.              *)
(***************************************************************************)
EXTENDS OrderTotal

Amount(u, v) == [units |-> u, nanos |-> v, code |-> CHOOSE c \in Currencies : TRUE]

MCPrices == {Amount(0, 0), Amount(0, 1), Amount(0, 3), Amount(1, 0), Amount(1, 3), Amount(2, 2)}
MCShippings == {Amount(0, 0), Amount(0, 2), Amount(2, 1)}

=============================================================================
