---- MODULE SharedCounter ----
(***************************************************************************)
(* What the shared_data plugin promises (its README: it "increments the    *)
(* global value in response to http requests atomically"): requests count  *)
(* upwards one by one, and a VM that starts sets the counter back.         *)
(***************************************************************************)
EXTENDS Integers

CONSTANT
    InitialValue    \* what a VM stores when it starts

VARIABLE value      \* the shared value, 0 before any VM has started
VARIABLE logged     \* the value that the latest request logged

CInit == value = 0 /\ logged = 0

(* A VM starts; the requests hear nothing of it.                           *)
SetBack == value' = InitialValue /\ logged' = logged

(* A request counts, and logs what it has made of the value.               *)
Increment == logged' = value + 1 /\ value' = logged'

CNext == Increment \/ SetBack

CSpec == CInit /\ [][CNext]_<<value, logged>>
====
