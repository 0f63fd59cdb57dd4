------------------------------- MODULE MCCart -------------------------------
(***************************************************************************)
(* The two stores of the cart service for TLC; a service has one of them.  *)
(***************************************************************************)
EXTENDS CartStore, LocalCartStore

VARIABLE
    configured  \* which store the service runs with

allVars == <<configured, cartVars, localVars>>

MCInit == configured \in {"redis", "local"} /\ CartInit /\ LocalInit

MCNext ==
    \/ configured = "redis" /\ CartNext /\ UNCHANGED <<configured, localVars>>
    \/ configured = "local" /\ LocalNext /\ UNCHANGED <<configured, cartVars>>

MCSpec == MCInit /\ [][MCNext]_allVars /\ (configured = "redis" => CartFairness)
=============================================================================
