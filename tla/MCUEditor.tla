----------------------------- MODULE MCUEditor -----------------------------
(***************************************************************************)
(* The rich text editor for TLC: a page that holds one table, checked with *)
(* the commands on tables, or a page of plain text, checked with the undo  *)
(* list.                                                                   *)
(***************************************************************************)
EXTENDS UETable, UndoManager

VARIABLE
    page    \* which of the two pages is open

vars == <<page, ut, ed>>

Init ==
    /\ page \in {"table", "text"} /\ TableInit /\ UndoInit
    /\ page = "table" => ed.doc \in [content : {CHOOSE c \in Contents : TRUE}, address : {CHOOSE k \in Carets : TRUE}]

Next ==
    \/ page = "table" /\ TableNext /\ UNCHANGED <<page, ed>>
    \/ page = "text" /\ UndoNext /\ UNCHANGED <<page, ut>>

Spec == Init /\ [][Next]_vars /\ (page = "text" => UndoFairness)
=============================================================================
