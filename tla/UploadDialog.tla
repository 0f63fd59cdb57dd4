---------------------------- MODULE UploadDialog ----------------------------
(***************************************************************************)
(* The dialog of the rich text editor that uploads images                  *)
(* (dialogs/image/image.js) and the uploader it stands on                  *)
(* (third-party/webuploader).  Its author chooses and deletes files, sends *)
(* them, pauses and says OK, while the uploader goes on in callbacks: a    *)
(* chain of ticks that fetch one file after the other, the compression of  *)
(* a file before it is sent, and the answers of the server.  Files go in   *)
(* one piece, as the dialogs do not ask for chunks.                        *)
(***************************************************************************)
EXTENDS Naturals, Sequences, FiniteSets

CONSTANTS
    Files,      \* the files that may be chosen, each once
    threads,    \* uploads at a time, 3 in the code
    NoFile,
    MaxStops    \* bound of the model: how often the author pauses

ASSUME UploadAssumption == NoFile \notin Files /\ threads \in Nat \ {0}

VARIABLES
    status,     \* of each file
    chosen,     \* the files in the uploader's queue
    button,     \* files whose entry in the page has a button to delete it
    wu,         \* the uploader
    dialog,     \* the dialog
    imageList,  \* the files that the server has stored
    late        \* history: a file came between the last tick and its event

uploadVars == <<status, chosen, button, wu, dialog, imageList, late>>

(* preparing is the file of _promise, waiting the ticks that wait for it,  *)
(* and dead says that it will never be settled.  ticks and finished count  *)
(* the calls of nextTick: of _tick, and of the event uploadFinished.       *)
UploadInit ==
    /\ status = [f \in Files |-> "new"]
    /\ chosen = <<>> /\ button = {} /\ imageList = <<>> /\ late = FALSE
    /\ wu = [runing |-> FALSE, trigged |-> FALSE, preparing |-> NoFile, waiting |-> 0, dead |-> FALSE,
             pool |-> {}, ticks |-> 0, finished |-> 0]
    /\ dialog = [state |-> "pedding", disabled |-> TRUE, open |-> TRUE, stops |-> 0]

(* The files that getQueueCount counts.                                    *)
Unsent(of) == {f \in Files : of[f] \in {"queued", "progress"}}

(* setState, for statuses that may have changed in the same step.          *)
setState(val, of) ==
    LET AllStored == (\E f \in Files : of[f] = "complete") /\ (\A f \in Files : of[f] # "error")
        reached == IF val = "confirm" /\ dialog.state # val /\ AllStored THEN "finish" ELSE val
    IN  [dialog EXCEPT !.state = reached, !.disabled = (Unsent(of) = {})]

-----------------------------------------------------------------------------
(* What the author does.                                                   *)

filesQueued(waits) ==
    dialog' = IF ~wu.runing /\ dialog.state \in {"pedding", "finish", "confirm", "ready"}
              THEN [dialog EXCEPT !.state = "ready", !.disabled = ~waits] ELSE dialog

(* All files are done, but the page is still to be told, or was told by    *)
(* the click that paused.                                                  *)
Unannounced ==
    /\ Unsent(status) = {}
    /\ wu.finished > 0 \/ (dialog.state = "paused" /\ dialog.disabled)

(* A file that the uploader takes.                                         *)
PickFile(f) ==
    /\ status[f] = "new"
    /\ status' = [status EXCEPT ![f] = "queued"]
    /\ chosen' = Append(chosen, f)
    /\ button' = button \union {f}
    /\ filesQueued(TRUE)
    /\ late' = (late \/ Unannounced)
    /\ UNCHANGED <<wu, imageList>>

(* A file of the wrong type, without an extension, or too long: the page   *)
(* shows it, and cancels it at once unless it is invalid by its length.    *)
PickRefused(f) ==
    /\ status[f] = "new"
    /\ status' = [status EXCEPT ![f] = "cancelled"]
    /\ button' = button \union {f}
    /\ filesQueued(Unsent(status) # {})
    /\ UNCHANGED <<chosen, wu, imageList, late>>

(* The button is there until the file is no longer queued; cancelling what *)
(* is cancelled, or was never in the queue, changes nothing else.          *)
DeleteFile(f) ==
    /\ f \in button
    /\ button' = button \ {f}
    /\ status' = [status EXCEPT ![f] = "cancelled"]
    /\ UNCHANGED <<chosen, wu, dialog, imageList, late>>

(* The click that starts or continues.                                     *)
start ==
    /\ ~dialog.disabled /\ dialog.state \in {"ready", "paused"}
    /\ wu' = IF wu.runing THEN wu ELSE [wu EXCEPT !.runing = TRUE, !.trigged = FALSE, !.ticks = @ + 1]
    /\ dialog' = IF wu.runing THEN dialog ELSE setState("uploading", status)
    /\ UNCHANGED <<status, chosen, button, imageList, late>>

(* The click that pauses: what is under way goes on.                       *)
stop ==
    /\ ~dialog.disabled /\ dialog.state = "uploading" /\ wu.runing /\ dialog.stops < MaxStops
    /\ wu' = [wu EXCEPT !.runing = FALSE]
    /\ dialog' = [setState("paused", status) EXCEPT !.stops = @ + 1]
    /\ UNCHANGED <<status, chosen, button, imageList, late>>

(* OK inserts the stored files and closes the dialog, or is refused.       *)
onok ==
    /\ Unsent(status) = {}
    /\ dialog' = [dialog EXCEPT !.open = FALSE]
    /\ UNCHANGED <<status, chosen, button, wu, imageList, late>>

-----------------------------------------------------------------------------
(* The uploader.                                                           *)

Queued == {f \in Files : status[f] = "queued"}

(* The first queued file, in the order in which they were chosen.          *)
IsNext(f) ==
    \E k \in DOMAIN chosen :
        chosen[k] = f /\ f \in Queued /\ \A j \in 1..(k - 1) : chosen[j] \notin Queued

(* A tick waits for the file that is being prepared, or begins with the    *)
(* next one, or finds that all is done.                                    *)
TickWaits ==
    /\ wu.ticks > 0 /\ wu.preparing # NoFile
    /\ wu' = [wu EXCEPT !.ticks = @ - 1, !.waiting = @ + 1]
    /\ UNCHANGED <<status, chosen, button, dialog, imageList, late>>

CanFetch == wu.runing /\ Cardinality(wu.pool) < threads /\ Queued # {}

prepareNextFile ==
    /\ wu.ticks > 0 /\ wu.preparing = NoFile /\ CanFetch
    /\ \E f \in Files :
          /\ IsNext(f)
          /\ wu' = [wu EXCEPT !.ticks = @ - 1, !.preparing = f, !.trigged = FALSE]
    /\ UNCHANGED <<status, chosen, button, dialog, imageList, late>>

(* Mutant: the last tick leaves the uploader running.                      *)
TickEndsRunning ==
    /\ wu.ticks > 0 /\ wu.preparing = NoFile /\ ~CanFetch
    /\ wu' = IF wu.pool = {} /\ Queued = {}
             THEN [wu EXCEPT !.ticks = @ - 1, !.trigged = TRUE, !.finished = IF wu.trigged THEN @ ELSE @ + 1]
             ELSE [wu EXCEPT !.ticks = @ - 1]
    /\ UNCHANGED <<status, chosen, button, dialog, imageList, late>>

TickEnds ==
    /\ wu.ticks > 0 /\ wu.preparing = NoFile /\ ~CanFetch
    /\ wu' = IF wu.pool = {} /\ Queued = {}
             THEN [wu EXCEPT !.ticks = @ - 1, !.runing = FALSE, !.trigged = TRUE,
                       !.finished = IF wu.trigged THEN @ ELSE @ + 1]
             ELSE [wu EXCEPT !.ticks = @ - 1]
    /\ UNCHANGED <<status, chosen, button, dialog, imageList, late>>

(* _promise is settled: it goes on with a tick, and so do those that wait. *)
Prepared == [wu EXCEPT !.preparing = NoFile, !.waiting = 0, !.ticks = @ + wu.waiting + 1]

(* Mutant: a prepared file is sent whatever its status.                    *)
startSendAlways ==
    /\ wu.preparing # NoFile /\ ~wu.dead
    /\ wu' = [Prepared EXCEPT !.pool = @ \union {wu.preparing}]
    /\ status' = [status EXCEPT ![wu.preparing] = "progress"]
    /\ button' = button \ {wu.preparing}
    /\ UNCHANGED <<chosen, dialog, imageList, late>>

(* The file is sent, unless it was deleted meanwhile: then it counts as    *)
(* complete, and the page fails to read the answer that was never given.   *)
startSend ==
    LET f == wu.preparing
    IN  /\ f # NoFile /\ ~wu.dead
        /\ \/ /\ status[f] = "queued"
              /\ status' = [status EXCEPT ![f] = "progress"]
              /\ wu' = [Prepared EXCEPT !.pool = @ \union {f}]
              /\ button' = button \ {f}
           \/ /\ status[f] = "cancelled"
              /\ status' = [status EXCEPT ![f] = "complete"]
              /\ wu' = Prepared
              /\ UNCHANGED button
        /\ UNCHANGED <<chosen, dialog, imageList, late>>

(* The image cannot be read.  For one that was deleted meanwhile the page  *)
(* has no progress to set: the exception leaves _promise as it is.         *)
compressFails ==
    LET f == wu.preparing
    IN  /\ f # NoFile /\ ~wu.dead
        /\ status' = [status EXCEPT ![f] = "error"]
        /\ wu' = IF status[f] = "queued" THEN Prepared ELSE [wu EXCEPT !.dead = TRUE]
        /\ button' = button \ {f}
        /\ UNCHANGED <<chosen, dialog, imageList, late>>

popBlock(f) == wu' = [wu EXCEPT !.pool = @ \ {f}, !.ticks = @ + 1]

(* The server has an answer, which may be that it could not store it.      *)
uploadSuccess(f) ==
    /\ f \in wu.pool
    /\ status' = [status EXCEPT ![f] = "complete"]
    /\ imageList' = Append(imageList, f) \/ UNCHANGED imageList
    /\ popBlock(f)
    /\ UNCHANGED <<chosen, button, dialog, late>>

(* Another status, a connection that breaks, or the timeout.               *)
uploadError(f) ==
    /\ f \in wu.pool
    /\ status' = [status EXCEPT ![f] = "error"]
    /\ popBlock(f)
    /\ UNCHANGED <<chosen, button, dialog, imageList, late>>

uploadFinished ==
    /\ wu.finished > 0
    /\ wu' = [wu EXCEPT !.finished = @ - 1]
    /\ dialog' = setState("confirm", status)
    /\ UNCHANGED <<status, chosen, button, imageList, late>>

-----------------------------------------------------------------------------
Callback ==
    \/ TickWaits \/ prepareNextFile \/ TickEnds \/ startSend \/ compressFails \/ uploadFinished
    \/ \E f \in Files : uploadSuccess(f) \/ uploadError(f)

UploadNext ==
    /\ dialog.open
    /\ \/ \E f \in Files : PickFile(f) \/ PickRefused(f) \/ DeleteFile(f)
       \/ start \/ stop \/ onok \/ Callback

(* The browser calls back, the server answers or the timeout comes, and    *)
(* the author clicks where the button says start or continue.              *)
UploadFairness == WF_uploadVars(dialog.open /\ Callback) /\ WF_uploadVars(dialog.open /\ start)

UploadSpec == UploadInit /\ [][UploadNext]_uploadVars /\ UploadFairness

-----------------------------------------------------------------------------
Stored == {imageList[k] : k \in DOMAIN imageList}

Phase(f) ==
    CASE status[f] = "new" -> "new"
      [] status[f] = "queued" -> "waiting"
      [] status[f] = "progress" -> "sending"
      [] status[f] = "complete" /\ f \in Stored -> "stored"
      [] OTHER -> "dropped"

(* No more files are sent at a time than there are threads, none that was  *)
(* deleted is sent, not even if it was being prepared, and OK inserts all  *)
(* that were stored while none is on its way.                              *)
Batch == INSTANCE UploadBatch WITH
    phase <- [f \in Files |-> Phase(f)], stored <- imageList, inserted <- ~dialog.open

ImplementsUpload == Batch!Spec

(* A file that waits is sent, deleted or given up, whatever the author     *)
(* does with the button, unless it was chosen when all others were done    *)
(* but the page not told yet, or a deleted file could not be compressed.   *)
WaitingFilesGoOn ==
    \A f \in Files : (status[f] = "queued") ~> (status[f] # "queued" \/ late \/ wu.dead \/ ~dialog.open)
=============================================================================
