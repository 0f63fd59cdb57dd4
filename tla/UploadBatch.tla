---------------------------- MODULE UploadBatch ----------------------------
(***************************************************************************)
(* What the upload dialog of the rich text editor promises: files are sent *)
(* a few at a time, one that was taken out of the list is never sent, and  *)
(* the document gets exactly the stored ones, when no other is to come.    *)
(***************************************************************************)
EXTENDS Naturals, Sequences, FiniteSets

CONSTANTS Files, threads

VARIABLES
    phase,      \* of each file
    stored,     \* the files in the order in which they were stored
    inserted    \* they are in the document

batch == <<phase, stored, inserted>>

Init ==
    /\ phase = [f \in Files |-> "new"]
    /\ stored = <<>> /\ inserted = FALSE

Becomes(f, from, to) == phase[f] = from /\ phase' = [phase EXCEPT ![f] = to]

Choose(f) ==
    /\ Becomes(f, "new", "waiting") \/ Becomes(f, "new", "dropped")
    /\ UNCHANGED <<stored, inserted>>

Drop(f) ==
    /\ Becomes(f, "waiting", "dropped") \/ Becomes(f, "sending", "dropped")
    /\ UNCHANGED <<stored, inserted>>

Send(f) ==
    /\ Becomes(f, "waiting", "sending")
    /\ Cardinality({g \in Files : phase[g] = "sending"}) < threads
    /\ UNCHANGED <<stored, inserted>>

Store(f) ==
    /\ Becomes(f, "sending", "stored")
    /\ stored' = Append(stored, f)
    /\ UNCHANGED inserted

Insert ==
    /\ \A f \in Files : phase[f] \notin {"waiting", "sending"}
    /\ inserted' = TRUE
    /\ UNCHANGED <<phase, stored>>

Next == ~inserted /\ (Insert \/ \E f \in Files : Choose(f) \/ Drop(f) \/ Send(f) \/ Store(f))

Spec == Init /\ [][Next]_batch
=============================================================================
