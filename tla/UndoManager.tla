---------------------------- MODULE UndoManager ----------------------------
(***************************************************************************)
(* The undo list of the rich text editor (plugins/undo.js) with what saves *)
(* scenes into it: key presses and their timer, input methods, commands.   *)
(* Scenes are counted from 1.  A key press and the text it enters are one  *)
(* step, as in the browser, where no timer runs between the two.           *)
(***************************************************************************)
EXTENDS Integers, Sequences, FiniteSetsExt

CONSTANTS
    Contents,           \* what the document may contain
    Carets, Spans,      \* where the caret may be, what may be selected
    maxUndoCount,       \* scenes the list may hold
    maxInputCount,      \* key presses after which a scene is saved at once
    MaxIntervals        \* bound of the model: intervals that wait at a time

ASSUME UndoAssumption ==
    /\ Contents # {} /\ Carets # {}
    /\ {maxUndoCount, maxInputCount, MaxIntervals} \subseteq Nat \ {0}

VARIABLE
    ed      \* the document, its undo manager, timers and flags

Scenes == [content : Contents, address : Carets \union Spans]

(* saveSceneTimer is set, and due when its 200 ms have passed; intervals   *)
(* count those that wait for the end of a composition; unsaved counts, up  *)
(* to 2, the key presses since the document was last in the list.          *)
EditorStates ==
    [doc : Scenes, list : Seq(Scenes), index : Nat, hasUndo : BOOLEAN, hasRedo : BOOLEAN,
     saveSceneTimer : {"none", "set", "due"}, intervals : 0..MaxIntervals, keycont : Nat,
     inputType : BOOLEAN, isCollapsed : BOOLEAN, hasEnterExecCommand : BOOLEAN, unsaved : 0..2]

UndoInit ==
    \E scene \in [content : Contents, address : Carets] :
        ed = [doc |-> scene, list |-> <<>>, index |-> 1, hasUndo |-> FALSE, hasRedo |-> FALSE,
              saveSceneTimer |-> "none", intervals |-> 0, keycont |-> 0,
              inputType |-> FALSE, isCollapsed |-> TRUE, hasEnterExecCommand |-> FALSE, unsaved |-> 0]

-----------------------------------------------------------------------------
(* The undo manager.                                                       *)

clearKey(e) == [e EXCEPT !.keycont = 0]

updated(e) == [e EXCEPT !.hasUndo = e.index - 1 \in DOMAIN e.list, !.hasRedo = e.index + 1 \in DOMAIN e.list]

(* Any call of save stops the timer, also one that finds nothing new.      *)
save(e, notCompareRange) ==
    LET stopped == [e EXCEPT !.saveSceneTimer = "none", !.unsaved = 0]
        Saved(scene) == scene.content = e.doc.content /\ (notCompareRange \/ scene.address = e.doc.address)
        longer == Append(SubSeq(e.list, 1, Min({e.index, Len(e.list)})), e.doc)
        list == IF Len(longer) > maxUndoCount THEN Tail(longer) ELSE longer
    IN  IF e.index \in DOMAIN e.list /\ Saved(e.list[e.index])
        THEN stopped
        ELSE updated(clearKey([stopped EXCEPT !.list = list, !.index = Len(list)]))

restore(e, index) ==
    updated(clearKey([e EXCEPT !.index = index, !.doc = e.list[index], !.unsaved = 0]))

(* Scenes that differ in the selection only are passed over.               *)
undo(e) ==
    LET changes == {k \in 2..e.index : e.list[k].content # e.list[k - 1].content}
    IN  IF e.hasUndo THEN restore(e, IF changes = {} THEN 1 ELSE Max(changes) - 1) ELSE e

(* Mutant: a redo goes on to the last scene.                               *)
redoToLast(e) == IF e.hasRedo THEN restore(e, Len(e.list)) ELSE e

redo(e) ==
    LET changes == {k \in (e.index + 1)..Len(e.list) : e.list[k].content # e.list[k - 1].content}
    IN  IF e.hasRedo THEN restore(e, IF changes = {} THEN Len(e.list) ELSE Min(changes)) ELSE e

-----------------------------------------------------------------------------
(* Keys.                                                                   *)

AddUnsaved(e) == [e EXCEPT !.unsaved = IF @ = 2 THEN 2 ELSE @ + 1]

(* Mutant: a scene is saved when the typing pauses, however long it lasts. *)
pressedNoLimit(e) ==
    [(IF e.list = <<>> THEN save(e, TRUE) ELSE e)
        EXCEPT !.saveSceneTimer = "set", !.keycont = Min({@ + 1, maxInputCount})]

(* The handler of a plain key press, outside a composition.  The count of  *)
(* keys stops at the limit, above which the code does not tell it apart.   *)
pressed(e) ==
    LET first == IF e.list = <<>> THEN save(e, TRUE) ELSE e
        armed == [first EXCEPT !.saveSceneTimer = "set", !.keycont = Min({@ + 1, maxInputCount})]
    IN  IF e.doc.address \in Spans THEN [save(e, FALSE) EXCEPT !.isCollapsed = FALSE]
        ELSE IF armed.keycont < maxInputCount THEN armed ELSE save(armed, FALSE)

keydown(text, caret) ==
    /\ ~ed.inputType
    /\ ed' = AddUnsaved([pressed(ed) EXCEPT !.doc = [content |-> text, address |-> caret]])

keyup ==
    /\ ~ed.inputType /\ ~ed.isCollapsed
    /\ ed' = [save(ed, FALSE) EXCEPT !.isCollapsed = TRUE]

(* The key press that opens an input method is the last one the handler    *)
(* looks at until the composition ends.                                    *)
compositionstart ==
    /\ ~ed.inputType /\ ed.intervals < MaxIntervals
    /\ ed' = AddUnsaved([pressed(ed) EXCEPT !.inputType = TRUE])

Compose(text, caret) ==
    /\ ed.inputType
    /\ ed' = [ed EXCEPT !.doc = [content |-> text, address |-> caret]]

compositionend == ed.inputType /\ ed' = [ed EXCEPT !.inputType = FALSE]

TimePasses == ed.saveSceneTimer = "set" /\ ed' = [ed EXCEPT !.saveSceneTimer = "due"]

(* Mutant: a timer that finds a composition is lost.                       *)
TimerFiresDrop ==
    /\ ed.saveSceneTimer = "due"
    /\ ed' = IF ed.inputType THEN [ed EXCEPT !.saveSceneTimer = "none"] ELSE save(ed, FALSE)

(* The timer finds a composition and leaves its work to an interval.       *)
TimerFires ==
    /\ ed.saveSceneTimer = "due"
    /\ ed' = IF ed.inputType THEN [ed EXCEPT !.saveSceneTimer = "none", !.intervals = @ + 1]
                             ELSE save(ed, FALSE)

IntervalFires ==
    /\ ed.intervals > 0 /\ ~ed.inputType
    /\ ed' = [save(ed, FALSE) EXCEPT !.intervals = @ - 1]

-----------------------------------------------------------------------------
(* The mouse and the commands.                                             *)

Select(address) == ~ed.inputType /\ ed' = [ed EXCEPT !.doc.address = address]

(* A command saves a scene before and after its change.  One that ends     *)
(* with an exception never clears the flag: later commands change the      *)
(* document without a scene.                                               *)
execCommand(scene) ==
    /\ ~ed.inputType
    /\ ed' = IF ed.hasEnterExecCommand
             THEN [ed EXCEPT !.doc = scene]
             ELSE save([save(ed, FALSE) EXCEPT !.doc = scene], FALSE)

execCommandFails(scene) ==
    /\ ~ed.inputType
    /\ ed' = [(IF ed.hasEnterExecCommand THEN ed ELSE save(ed, FALSE))
                EXCEPT !.doc = scene, !.hasEnterExecCommand = TRUE]

Undo == ~ed.inputType /\ ed.hasUndo /\ ed' = undo(ed)

Redo == ~ed.inputType /\ ed.hasRedo /\ ed' = redo(ed)

reset ==
    /\ ~ed.inputType
    /\ ed' = clearKey([ed EXCEPT !.list = <<>>, !.index = 1, !.hasUndo = FALSE, !.hasRedo = FALSE,
                                 !.unsaved = 0])

UndoNext ==
    \/ \E text \in Contents, caret \in Carets : keydown(text, caret) \/ Compose(text, caret)
    \/ keyup \/ compositionstart \/ compositionend
    \/ TimePasses \/ TimerFires \/ IntervalFires
    \/ \E address \in Carets \union Spans : Select(address)
    \/ \E scene \in Scenes : execCommand(scene) \/ execCommandFails(scene)
    \/ Undo \/ Redo \/ reset

(* Timers fire, and nobody composes for ever.                              *)
UndoFairness ==
    /\ WF_ed(TimePasses) /\ WF_ed(TimerFires) /\ WF_ed(IntervalFires)
    /\ WF_ed(compositionend)

UndoSpec == UndoInit /\ [][UndoNext]_ed /\ UndoFairness
-----------------------------------------------------------------------------
(* The list keeps to its limit, and the index points into it.              *)
UndoTypeOK ==
    /\ ed \in EditorStates
    /\ Len(ed.list) <= maxUndoCount
    /\ ed.index \in 1..(IF ed.list = <<>> THEN 1 ELSE Len(ed.list))

(* With no timer and no interval left, at most the last key press is not   *)
(* in the undo list.                                                       *)
QuietLosesOneKey ==
    ed.saveSceneTimer = "none" /\ ed.intervals = 0 => ed.unsaved <= 1

(* An undo that changes a saved document is taken back by a redo, and the  *)
(* other way round.                                                        *)
UndoThenRedo ==
    LET Takes(there(_), back(_)) ==
            there(ed).doc.content # ed.doc.content => back(there(ed)).doc.content = ed.doc.content
    IN  ed.index \in DOMAIN ed.list /\ ed.doc.content = ed.list[ed.index].content =>
            Takes(undo, redo) /\ Takes(redo, undo)

(* However fast and in whatever way the user types, a scene is saved.      *)
KeysSavedAtLast == (ed.unsaved = 2) ~> (ed.unsaved < 2)
=============================================================================
