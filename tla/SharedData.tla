----------------------------- MODULE SharedData -----------------------------
(***************************************************************************)
(* The proxy-wasm plugin shared_data: a counter in the host's shared       *)
(* key-value store, incremented by every request in a loop of              *)
(* GetSharedData and SetSharedData with a compare-and-swap number.  The    *)
(* host (Envoy, external) runs one VM per worker thread, so requests of    *)
(* different VMs interleave between the two calls; within a VM the loop    *)
(* runs to its end.  The host gives every stored value a new number, and a *)
(* store with number 0 is unconditional, which is how OnVMStart stores.    *)
(*                                                                         *)
(* The key exists before any request runs, because every VM stores it when *)
(* it starts: the error branches of incrementData for a missing key are    *)
(* never taken.  The host's numbers have 32 bits and are unbounded here.   *)
(***************************************************************************)
EXTENDS Integers

CONSTANTS VMs,           \* wasm VMs, one per worker thread
          InitialValue,  \* sharedDataInitialValue, 10000000 in the code
          MaxCas         \* bound of the model: values stored

ASSUME SharedDataAssumption == InitialValue \in Nat \ {0} /\ MaxCas \in Nat

VARIABLES data,    \* the entry of shared_data_key: [value, cas], cas 0 if absent
          vm,      \* [VMs -> [pc, value, cas]]: the loop of OnHttpRequestHeaders
          logged   \* the value that the latest request logged

vars == <<data, vm, logged>>

Entry(v, c) == [value |-> v, cas |-> c]
VMAt(p, v, c) == [pc |-> p, value |-> v, cas |-> c]

Init ==
    /\ data = Entry(0, 0)
    /\ vm = [m \in VMs |-> VMAt("off", 0, 0)]
    /\ logged = 0

\* The host stores a value under a new number.
Store(v) == data.cas < MaxCas /\ data' = Entry(v, data.cas + 1)

OnVMStart(m) ==
    /\ vm[m].pc = "off"
    /\ Store(InitialValue)
    /\ vm' = [vm EXCEPT ![m] = VMAt("idle", 0, 0)]
    /\ UNCHANGED logged

OnHttpRequestHeaders(m) ==
    /\ vm[m].pc = "idle"
    /\ vm' = [vm EXCEPT ![m] = VMAt("get", 0, 0)]
    /\ UNCHANGED <<data, logged>>

GetSharedData(m) ==
    /\ vm[m].pc = "get"
    /\ vm' = [vm EXCEPT ![m] = VMAt("set", data.value, data.cas)]
    /\ UNCHANGED <<data, logged>>

\* Mutant: the increment is stored with number 0, unconditionally.
SetSharedDataAlways(m) ==
    /\ vm[m].pc = "set"
    /\ Store(vm[m].value + 1)
    /\ logged' = vm[m].value + 1
    /\ vm' = [vm EXCEPT ![m] = VMAt("idle", 0, 0)]

SetSharedData(m) ==
    /\ vm[m].pc = "set"
    /\ vm[m].cas = data.cas
    /\ Store(vm[m].value + 1)
    /\ logged' = vm[m].value + 1
    /\ vm' = [vm EXCEPT ![m] = VMAt("idle", 0, 0)]

\* Mutant: after a mismatch the store is tried again with the same number.
CasMismatchStale(m) ==
    /\ vm[m].pc = "set"
    /\ vm[m].cas # data.cas
    /\ UNCHANGED vars

\* ErrorStatusCasMismatch: once more around the loop.
CasMismatch(m) ==
    /\ vm[m].pc = "set"
    /\ vm[m].cas # data.cas
    /\ vm' = [vm EXCEPT ![m] = VMAt("get", vm[m].value, 0)]
    /\ UNCHANGED <<data, logged>>

Loop(m) == GetSharedData(m) \/ SetSharedData(m) \/ CasMismatch(m)

Next == \E m \in VMs : OnVMStart(m) \/ OnHttpRequestHeaders(m) \/ Loop(m)

Spec == Init /\ [][Next]_vars

\* Worker threads run.
FairSpec == Spec /\ \A m \in VMs : WF_vars(Loop(m))

-----------------------------------------------------------------------------
(***************************************************************************)
(* Properties.                                                             *)
(***************************************************************************)

\* The types, and what the compare-and-swap rests on: a loop that holds the
\* current number holds the current value.
SharedDataTypeOK ==
    /\ data \in [value : Nat, cas : Nat]
    /\ vm \in [VMs -> [pc : {"off", "idle", "get", "set"}, value : Nat, cas : Nat]]
    /\ logged \in Nat
    /\ \A m \in VMs :
         vm[m].pc = "set" => /\ vm[m].cas <= data.cas
                             /\ vm[m].cas = data.cas => vm[m].value = data.value

C == INSTANCE SharedCounter WITH value <- data.value, logged <- logged

\* The loops of any number of VMs implement an atomic counter: no increment is
\* lost and no value is logged twice between two starts of a VM.
ImplementsCounter == C!CSpec

\* The loop is lock-free: while a request is in it, some request's increment
\* is stored, or a VM starts (unless the bound of the model is reached).
SomebodyCounts ==
    \A c \in 0 .. MaxCas - 1 :
      (data.cas = c /\ \E m \in VMs : vm[m].pc \in {"get", "set"}) ~> data.cas > c
=============================================================================
